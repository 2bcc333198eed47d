------------------------------ MODULE RaftNode -----------------------------
(***************************************************************************)
(* One raftify node: RaftNodeCore::bootstrap, its event loop `run` and     *)
(* `on_ready`, over a StableStorage and an application state machine, with *)
(* crashes between any two durable writes and restarts from the log        *)
(* directory.  The rest of the cluster is an environment that obeys Raft:  *)
(* llog[t] is the log of the leader of term t and lcommit[t] its commit    *)
(* index; the messages a node receives are drawn from them, in any order,  *)
(* any number of times, or never, because send_messages spawns one task    *)
(* per message.                                                            *)
(*                                                                         *)
(* pc is the place in one turn of `run`, one per durable operation:        *)
(*   recv -> tick -> restore -> apply (and append) -> hardstate -> send -> *)
(*   lightcommit -> lightapply -> recv                                     *)
(***************************************************************************)
EXTENDS RawNode, Sequences

CONSTANTS
  Self,                   \* the id of this node
  Others,                 \* the ids of the other voters, {} for a single node
  Candidates,             \* bound: the other voters that ask for a vote
  MaxTerm,                \* bound: highest term
  MaxIndex,               \* bound: longest log
  MaxCrashes,             \* bound: number of crashes
  MaxRollback,            \* bound: uncommitted entries a new leader may lack
  Kinds,                  \* what is proposed: a subset of ProposalKinds
  SnapshotInterval,       \* BOOLEAN: Config.snapshot_interval is set
  SnapshotRpc,            \* BOOLEAN: someone calls CreateSnapshot
  SnapshotMsg,            \* BOOLEAN: a leader may send its snapshot
  BootstrapFromSnapshot   \* BOOLEAN: Config.bootstrap_from_snapshot

\* A command, a conf change, one with an empty context (leaving a joint
\* configuration), and one that raw_node.apply_conf_change refuses.
ProposalKinds == {"cmd", "conf", "leave", "refused"}

ASSUME NodeAssumption ==
  /\ Self \in Nat \ {NoVote}
  /\ Others \subseteq Nat \ {NoVote, Self}
  /\ Candidates \subseteq Others
  /\ MaxTerm \in Nat /\ MaxIndex \in Nat /\ MaxCrashes \in Nat /\ MaxRollback \in Nat
  /\ Kinds \subseteq ProposalKinds
  /\ SnapshotInterval \in BOOLEAN /\ SnapshotRpc \in BOOLEAN
  /\ SnapshotMsg \in BOOLEAN /\ BootstrapFromSnapshot \in BOOLEAN

VARIABLES
  store,     \* the log directory
  status,    \* "up", "down" or "dead" (a panic ended the process)
  raft,      \* raw_node
  fsm,       \* the state machine: the <<index, term>> of the applied commands
  pc,        \* place in the loop
  rd,        \* the Ready (or LightReady) being handled
  llog,      \* environment: log of the leader of each term
  lcommit,   \* environment: commit index of each leader
  mine,      \* environment: terms led by this node
  votes,     \* ghost: <<term, candidate>> of every vote that left the node
  acks,      \* ghost: the highest index acknowledged to the leader of each term
  crashes    \* number of crashes so far

vars == <<store, status, raft, fsm, pc, rd, llog, lcommit, mine, votes, acks, crashes>>
volatile == <<raft, fsm, pc, rd>>
env == <<llog, lcommit, mine>>
net == <<votes, acks>>

Terms == 0 .. MaxTerm

\* No initial peers: the bootstrapper makes this node the leader.
Alone == Others = {}

NoReady ==
  [snap |-> NoSnapshot, ents |-> NoEntries, hasHs |-> FALSE, hs |-> DefaultHardState,
   committed |-> NoEntries, voteMsgs |-> {}, ackMsgs |-> {}, commit |-> 0]

\* The newest term that has a leader, and what the cluster has committed.
LastTerm == Max({t \in Terms : t = 0 \/ llog[t] # <<>>})
Chosen   == Slice(llog[LastTerm], 1, lcommit[LastTerm])

Noop(t) == [term |-> t, kind |-> "noop"]

\* The log of the node, as a leader would replicate it; what the store has
\* compacted is committed, so it is in the log l of any later leader.
OwnLog(r, l) ==
  [i \in 1 .. RaftLast(r, store) |->
     IF i \in DOMAIN r.unst THEN r.unst[i]
     ELSE IF i \in DOMAIN store.entries THEN store.entries[i]
     ELSE IF i \in DOMAIN l THEN l[i]
     ELSE Noop(r.term)]

\* The log l has every entry the cluster committed.
HasChosen(l) ==
  Len(Chosen) <= Len(l) /\ \A i \in 1 .. Len(Chosen) : l[i] = Chosen[i]

\* The state machine after the commands of the log l up to index n; the k-th
\* command is the last one that has at most k commands up to itself.
Commands(l, n) == {i \in 1 .. n : l[i].kind = "cmd"}
Nth(cmds, k)   == Max({i \in cmds : Cardinality({j \in cmds : j <= i}) <= k})

Image(l, n) ==
  LET cmds == Commands(l, n)
  IN  [k \in 1 .. Cardinality(cmds) |-> <<Nth(cmds, k), l[Nth(cmds, k)].term>>]

\* The conf state after the log l up to index n.
ConfImage(l, n) == Max({0} \cup {i \in 1 .. n : l[i].kind \in {"conf", "leave"}})

-----------------------------------------------------------------------------
(* Bootstrap *)

OffRaft == NewRaft(EmptyStore)

Init ==
  /\ store = EmptyStore /\ status = "down"
  /\ raft = OffRaft /\ fsm = <<>> /\ pc = "recv" /\ rd = NoReady
  /\ llog = [t \in Terms |-> <<>>] /\ lcommit = [t \in Terms |-> 0] /\ mine = {}
  /\ votes = {} /\ acks = [t \in Terms |-> 0] /\ crashes = 0

\* Mutant of PowerOff: the Ready of the previous life is kept.
PowerOffKeepsReady ==
  /\ raft' = OffRaft /\ fsm' = <<>> /\ pc' = "recv" /\ rd' = rd

\* Everything volatile is gone.
PowerOff ==
  /\ raft' = OffRaft /\ fsm' = <<>> /\ pc' = "recv" /\ rd' = NoReady

\* The process panics: the event loop and its state are lost.
Panic ==
  /\ status' = "dead"
  /\ PowerOff
  /\ UNCHANGED <<store, env, net, crashes>>

\* The store after bootstrap: the stored snapshot is applied to it when the
\* log is empty or when the configuration says so.
BootStore ==
  IF store.last = 0 \/ BootstrapFromSnapshot
  THEN ApplySnapshot(store, store.snap) ELSE store

\* The node takes over term r.term with the log it has.
RecordLeader(r) ==
  /\ llog' = [llog EXCEPT ![r.term] = OwnLog(r, llog[LastTerm])]
  /\ lcommit' = [lcommit EXCEPT ![r.term] = lcommit[LastTerm]]
  /\ mine' = mine \cup {r.term}

\* RaftNodeCore::bootstrap with a new, empty state machine.  A single node
\* has no initial peers, so should_be_leader holds and it makes itself
\* leader; the others start as followers.
Bootstrap ==
  /\ status = "down"
  /\ IF NewPanics(BootStore) THEN Panic
     ELSE /\ status' = "up"
          /\ store' = BootStore
          /\ fsm' = <<>> /\ pc' = "recv" /\ rd' = NoReady
          /\ UNCHANGED <<net, crashes>>
          /\ IF Alone
             THEN LET r == BecomeLeader(BecomeCandidate(NewRaft(BootStore), Self), BootStore)
                  IN  /\ r.term <= MaxTerm /\ LastIndex(BootStore) < MaxIndex
                      /\ raft' = r
                      /\ RecordLeader(r)
             ELSE raft' = NewRaft(BootStore) /\ UNCHANGED env

-----------------------------------------------------------------------------
(* The handlers of the event loop *)

Receiving == status = "up" /\ pc = "recv"

\* What every handler that only changes raw_node has in common.
Handled(r) ==
  /\ raft' = r
  /\ pc' = "tick"
  /\ UNCHANGED <<store, status, fsm, rd, net, crashes>>

\* All three channels time out, or a request is answered that leaves raft, the
\* storage and the state machine alone (IsLeader, GetId, GetPeers, AddPeer...).
RecvNothing ==
  /\ Receiving
  /\ Handled(raft)
  /\ UNCHANGED env

\* ServerRequestMsg::SendMessage with MsgAppend from the leader of term t.
RecvAppend ==
  /\ Receiving
  /\ \E t \in Terms \ mine :
     /\ llog[t] # <<>> /\ t >= raft.term
     /\ \E prev \in 0 .. Len(llog[t]) : \E last \in prev .. Len(llog[t]) :
        \E commit \in 0 .. Min({lcommit[t], last}) :
          LET r        == StepDown(raft, t)
              prevTerm == IF prev = 0 THEN 0 ELSE llog[t][prev].term
              ents     == Slice(llog[t], prev + 1, last)
          IN  IF AppendConflictPanics(r, store, prev, prevTerm, ents)
              THEN Panic
              ELSE /\ Handled(HandleAppend(r, store, prev, prevTerm, ents, commit))
                   /\ UNCHANGED env

\* ServerRequestMsg::SendMessage with MsgSnapshot: a leader that compacted
\* its log sends the snapshot it has stored.
RecvSnapshot ==
  /\ Receiving
  /\ SnapshotMsg
  /\ \E t \in Terms \ mine :
     /\ llog[t] # <<>> /\ t >= raft.term
     /\ \E n \in DOMAIN llog[t] :
          n <= lcommit[t] /\ Handled(HandleSnapshot(StepDown(raft, t), store,
                    [index |-> n, term |-> llog[t][n].term,
                     data |-> Image(llog[t], n), conf |-> ConfImage(llog[t], n)]))
  /\ UNCHANGED env

\* ServerRequestMsg::SendMessage with MsgRequestVote: whether the candidate's
\* log is up to date depends on a log the model does not keep.
RecvRequestVote ==
  /\ Receiving
  /\ \E t \in 1 .. MaxTerm : \E c \in Candidates : \E upToDate \in BOOLEAN :
     /\ t >= raft.term
     /\ LET r == StepDown(raft, t)
        IN  Handled(IF upToDate /\ CanVote(r, c) THEN GrantVote(r, c) ELSE r)
  /\ UNCHANGED env

\* The last MsgRequestVoteResponse of a quorum arrives: the voters found the
\* log of this candidate up to date, so it has everything committed.
RecvVoteQuorum ==
  /\ Receiving
  /\ raft.role = "candidate" /\ raft.term > LastTerm
  /\ RaftLast(raft, store) < MaxIndex
  /\ LET r == BecomeLeader(raft, store)
     IN  /\ HasChosen(OwnLog(r, llog[LastTerm]))
         /\ Handled(r)
         /\ RecordLeader(r)

\* Propose and ChangeConfig on a leader: raw_node.propose(_conf_change).
Propose ==
  /\ Receiving
  /\ raft.role = "leader"
  /\ RaftLast(raft, store) < MaxIndex
  /\ \E k \in Kinds :
       LET r == AppendLeader(raft, store, [term |-> raft.term, kind |-> k])
       IN  Handled(r) /\ llog' = [llog EXCEPT ![raft.term] = OwnLog(r, @)]
  /\ UNCHANGED <<lcommit, mine>>

\* MsgAppendResponse of a quorum of followers: the leader commits up to n.
RecvAckQuorum ==
  /\ Receiving
  /\ ~Alone /\ raft.role = "leader" /\ raft.term = LastTerm
  /\ \E n \in raft.committed + 1 .. RaftLast(raft, store) :
     /\ llog[raft.term][n].term = raft.term
     /\ Handled([raft EXCEPT !.committed = n])
     /\ lcommit' = [lcommit EXCEPT ![raft.term] = Max({@, n})]
  /\ UNCHANGED <<llog, mine>>

\* LocalRequestMsg::Campaign, and MsgTimeoutNow of a leader that transfers its
\* role to this node.
Campaign ==
  /\ Receiving
  /\ ~Alone /\ raft.role # "leader" /\ raft.term < MaxTerm
  /\ Handled(BecomeCandidate(raft, Self))
  /\ UNCHANGED env

\* LocalRequestMsg::Demote: raft.become_follower(term, leader_id), with or
\* without a leader.  A caller that names a term the node has already left is
\* not modelled.
Demote ==
  /\ Receiving
  /\ ~Alone
  /\ \E t \in raft.term .. MaxTerm : \E known \in BOOLEAN :
       Handled([StepDown(raft, t) EXCEPT !.role = "follower", !.lead = known])
  /\ UNCHANGED env

\* make_snapshot: compact up to the applied index of raft-rs, then store the
\* image of the state machine under the given index and term.
MakeSnapshot(s, data, index, term) ==
  CreateSnapshot(Compact(s, raft.applied), data, index, term)

\* ServerRequestMsg::CreateSnapshot (and LocalRequestMsg::MakeSnapshot as the
\* memstore example calls it): the label is the last index of the log and
\* the term of the hard state.
RpcCreateSnapshot ==
  /\ Receiving
  /\ SnapshotRpc
  /\ store' = MakeSnapshot(store, fsm, LastIndex(store), store.hs.term)
  /\ pc' = "tick"
  /\ UNCHANGED <<status, raft, fsm, rd, env, net, crashes>>

-----------------------------------------------------------------------------
(* on_ready *)

At(place) == status = "up" /\ pc = place

\* raw_node.tick() may start an election.
TickOutcomes ==
  {raft} \cup
  IF ~Alone /\ raft.role # "leader" /\ raft.term < MaxTerm
  THEN {BecomeCandidate(raft, Self)} ELSE {}

\* The end of the turn: tick, then has_ready and ready().  The messages of a
\* leader leave now; those of a voter stay as persisted_messages.
TickAndReady ==
  /\ At("tick")
  /\ \E r \in TickOutcomes :
       LET new == Ready(r, store)
       IN  IF HasReady(new)
           THEN /\ rd' = new
                /\ raft' = TakeReady(r, new)
                /\ pc' = IF new.snap # NoSnapshot THEN "restore" ELSE "apply"
           ELSE rd' = NoReady /\ raft' = r /\ pc' = "recv"
  /\ UNCHANGED <<store, status, fsm, env, net, crashes>>

\* Mutant of the snapshot branch of on_ready: the state machine is not restored.
RestoreStoreOnly ==
  /\ At("restore")
  /\ store' = ApplySnapshot(store, rd.snap)
  /\ pc' = "apply"
  /\ UNCHANGED <<status, raft, fsm, rd, env, net, crashes>>

\* A snapshot from the leader: fsm.restore if it has data, then
\* store.apply_snapshot.
RestoreSnapshot ==
  /\ At("restore")
  /\ fsm' = IF rd.snap.data = <<>> THEN fsm ELSE rd.snap.data
  /\ store' = ApplySnapshot(store, rd.snap)
  /\ pc' = "apply"
  /\ UNCHANGED <<status, raft, rd, env, net, crashes>>

\* The loop of handle_committed_entries is at index i: the entries are handed
\* out in index order.
Applying(i) ==
  /\ status = "up" /\ pc \in {"apply", "lightapply"}
  /\ \A j \in DOMAIN rd.committed : i <= j

EntryHandled(i) ==
  /\ rd' = [rd EXCEPT !.committed = Restrict(@, DOMAIN @ \ {i})]
  /\ UNCHANGED <<status, raft, pc, env, net, crashes>>

\* Mutant of handle_committed_entries: `return` instead of `continue`.
SkipEmptyEntryReturns(i, entry) ==
  /\ Applying(i)
  /\ entry.kind = "noop"
  /\ rd' = [rd EXCEPT !.committed = NoEntries]
  /\ UNCHANGED <<store, status, raft, fsm, pc, env, net, crashes>>

\* handle_committed_entries skips the empty entry of a new leader, and a
\* refused conf change is only logged.
SkipEmptyEntry(i, entry) ==
  /\ Applying(i)
  /\ entry.kind \in {"noop", "refused"}
  /\ EntryHandled(i)
  /\ UNCHANGED <<store, fsm>>

\* handle_committed_normal_entry: apply, and a snapshot when the configured
\* interval has passed.
ApplyNormalEntry(i, entry) ==
  /\ Applying(i)
  /\ entry.kind = "cmd"
  /\ fsm' = Append(fsm, <<i, entry.term>>)
  /\ \/ store' = store
     \/ /\ SnapshotInterval
        /\ store' = MakeSnapshot(store, fsm', i, entry.term)
  /\ EntryHandled(i)

\* Mutant: the snapshot is made before the conf state is stored.
ApplyConfChangeEntryLate(i, entry) ==
  /\ Applying(i)
  /\ entry.kind = "conf"
  /\ store' = SetConfState(MakeSnapshot(store, fsm, i, entry.term), i)
  /\ fsm' = fsm
  /\ EntryHandled(i)

\* handle_committed_config_change_entry: the conf state is stored and a
\* snapshot is made.
ApplyConfChangeEntry(i, entry) ==
  /\ Applying(i)
  /\ entry.kind = "conf"
  /\ store' = MakeSnapshot(SetConfState(store, i), fsm, i, entry.term)
  /\ fsm' = fsm
  /\ EntryHandled(i)

\* ... but not when the entry has no context.
ApplyLeaveJointEntry(i, entry) ==
  /\ Applying(i)
  /\ entry.kind = "leave"
  /\ store' = SetConfState(store, i)
  /\ fsm' = fsm
  /\ EntryHandled(i)

ApplyEntry ==
  \E i \in DOMAIN rd.committed :
    LET entry == rd.committed[i]
    IN  SkipEmptyEntry(i, entry) \/ ApplyNormalEntry(i, entry)
          \/ ApplyConfChangeEntry(i, entry) \/ ApplyLeaveJointEntry(i, entry)

Applied(place) == At(place) /\ DOMAIN rd.committed = {}

\* After the first batch: store.append(ready.entries()).
AppendReady ==
  /\ Applied("apply")
  /\ IF AppendPanics(store, rd.ents) THEN Panic
     ELSE /\ store' = AppendEntries(store, rd.ents)
          /\ pc' = "hardstate"
          /\ UNCHANGED <<status, raft, fsm, rd, env, net, crashes>>

\* store.set_hard_state(ready.hs()).
WriteHardState ==
  /\ At("hardstate")
  /\ store' = IF rd.hasHs THEN SetHardState(store, rd.hs) ELSE store
  /\ pc' = "send"
  /\ UNCHANGED <<status, raft, fsm, rd, env, net, crashes>>

\* The persisted messages leave, then raw_node.advance(ready).
SendPersisted ==
  /\ At("send")
  /\ votes' = votes \cup rd.voteMsgs
  /\ acks' = [t \in Terms |-> Max({acks[t]} \cup {a[2] : a \in {b \in rd.ackMsgs : b[1] = t}})]
  /\ LET r     == Advance(raft, store, rd, Alone)
         light == LightReady(r, store)
     IN  /\ raft' = TakeLightReady(r, light)
         /\ rd' = [NoReady EXCEPT !.committed = light.committed, !.commit = light.commit]
         /\ lcommit' = IF Alone THEN [lcommit EXCEPT ![r.term] = Max({@, r.committed})]
                       ELSE lcommit
         /\ pc' = IF light.commit # 0 THEN "lightcommit" ELSE "lightapply"
  /\ UNCHANGED <<store, status, fsm, llog, mine, crashes>>

\* store.set_hard_state_commit(light_rd.commit_index()).
WriteLightCommit ==
  /\ At("lightcommit")
  /\ store' = SetHardStateCommit(store, rd.commit)
  /\ pc' = "lightapply"
  /\ UNCHANGED <<status, raft, fsm, rd, env, net, crashes>>

\* Mutant of on_ready: advance_apply is forgotten.
FinishWithoutAdvance ==
  /\ Applied("lightapply")
  /\ rd' = NoReady
  /\ pc' = "recv"
  /\ UNCHANGED <<store, status, raft, fsm, env, net, crashes>>

\* The end of the second batch: raw_node.advance_apply().
FinishLightApply ==
  /\ Applied("lightapply")
  /\ raft' = AdvanceApply(raft)
  /\ rd' = NoReady
  /\ pc' = "recv"
  /\ UNCHANGED <<store, status, fsm, env, net, crashes>>

-----------------------------------------------------------------------------
(* Crashes, and the other nodes *)

\* A crash inside the durable operation that is next.  make_snapshot is two
\* transactions in both backends, after a third one for the conf state.
TornSnapshot(s) == store' = Compact(s, raft.applied)

TornApply(i, kind) ==
  \/ kind = "conf" /\ store' = SetConfState(store, i)
  \/ kind = "conf" /\ TornSnapshot(SetConfState(store, i))
  \/ kind = "cmd" /\ SnapshotInterval /\ TornSnapshot(store)

TornWrite ==
  \/ pc = "restore" /\ store' \in ApplySnapshotTorn(store, rd.snap)
  \/ Applied("apply") /\ store' \in AppendTorn(store, rd.ents)
  \/ \E i \in DOMAIN rd.committed : Applying(i) /\ TornApply(i, rd.committed[i].kind)
  \/ Receiving /\ SnapshotRpc /\ TornSnapshot(store)

\* The process stops: a crash or a kill anywhere, and at "recv" also
\* RaftNode::quit or the conf change that removes this node (should_exit), and
\* Raft::run returns on ctrl-c and when the server ends.
Crash ==
  /\ status = "up" /\ crashes < MaxCrashes
  /\ Alone => raft.term < MaxTerm /\ RaftLast(raft, store) < MaxIndex
  /\ crashes' = crashes + 1
  /\ status' = "down"
  /\ store' = store \/ TornWrite
  /\ PowerOff
  /\ UNCHANGED <<env, net>>

\* The node reads the logs of the others only when it receives a message, so
\* their steps are taken between its turns.

\* Another node wins the election of a new term, with a log an earlier
\* leader wrote.  It holds everything committed, but may lack up to
\* MaxRollback entries of the newest leader.
OtherLeader ==
  /\ ~Alone /\ pc = "recv"
  /\ \E t \in LastTerm + 1 .. MaxTerm : \E u \in 0 .. LastTerm :
     \E n \in 0 .. Min({Len(llog[u]), MaxIndex - 1}) :
       LET l    == Slice(llog[u], 1, n)
           lost == {i \in DOMAIN llog[LastTerm] : i > n \/ l[i] # llog[LastTerm][i]}
       IN  /\ HasChosen(l)
           /\ Cardinality(lost) <= MaxRollback
           /\ llog' = [llog EXCEPT ![t] = Put(l, n + 1, Noop(t))]
           /\ lcommit' = [lcommit EXCEPT ![t] = lcommit[LastTerm]]
  /\ UNCHANGED <<store, status, volatile, mine, net, crashes>>

\* The current leader is another node and accepts a proposal.
OtherPropose ==
  /\ pc = "recv" /\ LastTerm \notin mine /\ llog[LastTerm] # <<>>
  /\ Len(llog[LastTerm]) < MaxIndex
  /\ \E k \in Kinds :
       llog' = [llog EXCEPT ![LastTerm] =
                  Put(@, Len(@) + 1, [term |-> LastTerm, kind |-> k])]
  /\ UNCHANGED <<store, status, volatile, lcommit, mine, net, crashes>>

\* ... or learns that a quorum holds its entries of its term up to n.
OtherCommit ==
  /\ pc = "recv" /\ LastTerm \notin mine
  /\ \E n \in lcommit[LastTerm] + 1 .. Len(llog[LastTerm]) :
     /\ llog[LastTerm][n].term = LastTerm
     /\ lcommit' = [lcommit EXCEPT ![LastTerm] = n]
  /\ UNCHANGED <<store, status, volatile, llog, mine, net, crashes>>

Receive ==
  \/ RecvNothing \/ RecvAppend \/ RecvSnapshot \/ RecvRequestVote
  \/ RecvVoteQuorum \/ Propose \/ RecvAckQuorum \/ Campaign \/ Demote
  \/ RpcCreateSnapshot

OnReady ==
  \/ TickAndReady \/ RestoreSnapshot
  \/ ApplyEntry \/ AppendReady \/ WriteHardState \/ SendPersisted
  \/ WriteLightCommit \/ FinishLightApply

Environment == OtherLeader \/ OtherPropose \/ OtherCommit

Next == Bootstrap \/ Receive \/ OnReady \/ Crash \/ Environment

Spec == Init /\ [][Next]_vars

\* The event loop is a task of the runtime: it keeps taking steps until the
\* process stops.
FairSpec == Spec /\ WF_vars(RecvNothing \/ OnReady)

\* The behaviours in which append does what Raft asks of it: when it changes a
\* stored entry, nothing of the old log is left above that entry.  The code
\* does not remove it (see AppendEntries), so this is a condition on what the
\* leaders send.
Truncates ==
  \A i, j \in DOMAIN store.entries \cap DOMAIN store'.entries :
    i < j /\ j <= store.last /\ store'.entries[i] # store.entries[i]
      => store'.entries[j] # store.entries[j]

TruncatingSpec == Init /\ [][Next /\ Truncates]_vars

-----------------------------------------------------------------------------
(* Properties *)

Entry    == [term : Nat, kind : {"noop"} \cup ProposalKinds]
IsTable(f) == DOMAIN f \subseteq Nat /\ \A i \in DOMAIN f : f[i] \in Entry
IsSnapshot(x) ==
  /\ DOMAIN x = {"index", "term", "data", "conf"}
  /\ x.index \in Nat /\ x.term \in Nat /\ x.conf \in Nat
HardStates == [term : Nat, vote : Nat, commit : Int]

\* Every variable keeps the shape the Rust types give it, and a node that is
\* not running has no volatile state (bootstrap builds it from the store).
TypeOK ==
  /\ IsTable(store.entries) /\ store.last \in Nat /\ store.conf \in Nat
  /\ store.hs \in HardStates /\ IsSnapshot(store.snap)
  /\ status \in {"up", "down", "dead"}
  /\ status # "up" => raft = OffRaft /\ rd = NoReady /\ pc = "recv" /\ fsm = <<>>
  /\ raft.term \in Terms /\ raft.vote \in Others \cup {Self, NoVote}
  /\ raft.role \in {"follower", "candidate", "leader"} /\ raft.lead \in BOOLEAN
  /\ IsTable(raft.unst) /\ IsSnapshot(raft.snap)
  /\ raft.committed \in Nat /\ raft.applied \in Nat /\ raft.since \in Nat
  /\ raft.prevHs \in HardStates
  /\ pc \in {"recv", "tick", "restore", "apply", "hardstate", "send",
             "lightcommit", "lightapply"}
  /\ IsTable(rd.ents) /\ IsTable(rd.committed) /\ rd.hs \in HardStates
  /\ rd.commit \in Nat
  /\ mine \subseteq Terms /\ crashes \in 0 .. MaxCrashes

\* A node never casts two votes in one term, however often it crashes: the
\* hard state is stored before the persisted messages leave on_ready.
OneVotePerTerm ==
  \A v, w \in votes : v[1] = w[1] => v[2] = w[2]

\* Where the store keeps entry i of a log l: in the table or in the snapshot.
Holds(l, i) ==
  \/ i \in DOMAIN store.entries /\ store.entries[i] = l[i]
  \/ i <= store.snap.index

\* What this node acknowledged to a leader, and that leader committed (it may
\* have counted the acknowledgement), is in the log directory at every instant,
\* so no crash can take it away: on_ready appends before it sends, and neither
\* a later append nor a compaction drops it.
AckedDurable ==
  \A t \in Terms : \A i \in 1 .. Min({acks[t], lcommit[t]}) : Holds(Chosen, i)

\* The state machine holds the committed commands in log order, each once,
\* none skipped, through every crash and replay.
FsmFollowsChosen ==
  /\ \E n \in 0 .. Len(Chosen) : fsm = Image(Chosen, n)
  /\ (Receiving /\ raft.applied <= Len(Chosen)) => fsm = Image(Chosen, raft.applied)

\* The log directory is one RawNode::new can load: the stored commit index
\* lies between the compacted prefix and the last index.
Loadable == ~NewPanics(BootStore)

\* At every instant, even in the middle of an operation, a restart finds a
\* loadable log directory, and no handler or storage operation panics before.
Restartable == status # "dead" /\ Loadable

\* A stored snapshot is what its label says: the image of the committed log
\* up to its index, with that entry's term and the conf state of that point.
\* A leader ships it to followers under this label.
SnapshotMatchesLabel ==
  LET sn == store.snap
  IN  sn.index > 0 =>
        /\ sn.index <= Len(Chosen)
        /\ sn.term = Chosen[sn.index].term
        /\ sn.data = Image(Chosen, sn.index)
        /\ sn.conf = ConfImage(Chosen, sn.index)

\* Neither the stored term nor the stored commit index ever goes back, not
\* even by a bootstrap or by the hard state of a snapshot.
HardStateMonotone ==
  [][store'.hs.term >= store.hs.term /\ store'.hs.commit >= store.hs.commit]_vars

\* Everything committed is applied without waiting for another message: the
\* loop hands out in one turn what the turn made committed and persistent.
CommittedIsApplied ==
  \A n \in 1 .. MaxIndex :
    (status = "up" /\ raft.committed >= n) ~> (status # "up" \/ raft.applied >= n)
=============================================================================
