----------------------------- MODULE Membership ----------------------------
(***************************************************************************)
(* How processes become members of a cluster: request_id, a join ticket,   *)
(* bootstrap with the ticket's peers, add_peers, join_cluster, and what    *)
(* every node does to its peers map and its configuration when a conf      *)
(* change is applied.  A process is named by its address.                  *)
(*                                                                         *)
(* Raft is an environment here: `log` is the committed log, with the first *)
(* leader's empty entry at index 1 and conf changes behind it; the elected *)
(* leader commits one pending change at a time with a quorum; a member     *)
(* receives the log through the leader, entry by entry or, when the leader *)
(* has compacted the entry it needs, as a snapshot.  Commands, learners    *)
(* and joint configurations are left out (see RaftNode and Requests).      *)
(***************************************************************************)
EXTENDS Peers, Sequences

CONSTANTS
  Addrs,          \* the addresses of all processes
  First,          \* the process that bootstraps the cluster, with id 1
  NoAddr,         \* no address
  Serial,         \* BOOLEAN: a process joins only when no other is joining
  MaxChanges,     \* bound: number of conf changes that are committed
  MaxRemovals,    \* bound: number of removals among them
  MaxElections,   \* bound: number of leader changes
  MaxRetries      \* bound: number of processes that are started again

ASSUME MembershipAssumption ==
  /\ First \in Addrs /\ NoAddr \notin Addrs /\ Serial \in BOOLEAN
  /\ MaxChanges \in Nat /\ MaxRemovals \in Nat
  /\ MaxElections \in Nat /\ MaxRetries \in Nat

VARIABLES
  proc,        \* the state of each process, see NewProc
  log,         \* environment: the committed entries
  leader,      \* environment: the process that won the last election
  pend,        \* the conf change each leader has proposed, not committed
  elections, retries

vars == <<proc, log, leader, pend, elections, retries>>

NoTicket == [id |-> 0, leader |-> NoAddr, peers |-> NoPeers]

NewProc ==
  [st      |-> "new",      \* new, asking, ticket, booted, added, joining,
                           \* waiting, member or dead
   id      |-> 0,
   peers   |-> NoPeers,    \* RaftNodeCore.peers
   conf    |-> {},         \* the voters of the applied configuration
   applied |-> 0,          \* raft_log.applied
   first   |-> 1,          \* the first entry it still has
   snap    |-> 0,          \* the index of its stored snapshot
   view    |-> 0,          \* raft.leader_id
   ask     |-> NoAddr,     \* the process its request is at
   via     |-> FALSE,      \* its change_config was forwarded
   ticket  |-> NoTicket]

\* A change as the leader proposes it.  The ConfChangeRequest of handle_join goes
\* through ChangeConfigArgs, back, and into a ConfChangeV2: the change and its
\* address stay together, the address as the entry's context.
ConfChange(kind, id, addr, by) == [kind |-> kind, id |-> id, addr |-> addr, by |-> by]

Noop     == ConfChange("noop", 0, NoAddr, NoAddr)
NoChange == ConfChange("none", 0, NoAddr, NoAddr)

\* The process runs; its event loop is free (handle_join waits inside it).
Live(a)    == proc[a].st \in {"booted", "added", "joining", "waiting", "member"}
Handles(a) == proc[a].st \in {"booted", "added", "member"}

Joining(a) == proc[a].st \in {"asking", "ticket", "booted", "added", "joining", "waiting"}

IsLeader(a) == proc[a].view = proc[a].id

\* raft.has_pending_conf().
HasPendingConf(b) ==
  IsLeader(b) /\ (pend[b] # NoChange \/ proc[b].applied < Len(log))

\* The leader's messages reach process a: it sends to a member's id, at the
\* address its own peers map has.
Reaches(b, a) ==
  /\ Live(b) /\ Handles(a)
  /\ \/ a = b
     \/ /\ proc[a].id \in proc[b].conf /\ proc[a].id \in DOMAIN proc[b].peers
        /\ proc[b].peers[proc[a].id] = a

Quorum(b) ==
  LET up == {v \in proc[b].conf : \E a \in Addrs : proc[a].id = v /\ Reaches(b, a)}
  IN  2 * Cardinality(up) > Cardinality(proc[b].conf)

\* The first process has no initial_peers: it is the leader of its own
\* cluster.  It has applied the empty entry of its term.
Init ==
  /\ proc = [a \in Addrs |->
       IF a = First
       THEN [NewProc EXCEPT !.st = "member", !.id = 1, !.peers = NewPeers(1, First),
                            !.conf = {1}, !.applied = 1, !.view = 1]
       ELSE NewProc]
  /\ log = <<Noop>> /\ leader = First
  /\ pend = [a \in Addrs |-> NoChange]
  /\ elections = 0 /\ retries = 0

-----------------------------------------------------------------------------
(* The joining process *)

\* Raft::request_id at any running node.
RequestId(a, b) ==
  /\ proc[a].st = "new" /\ Live(b)
  /\ Serial => \A c \in Addrs : ~Joining(c)
  /\ proc' = [proc EXCEPT ![a].st = "asking", ![a].ask = b]
  /\ UNCHANGED <<log, leader, pend, elections, retries>>

\* Raft::bootstrap with the ticket's id, and its peers as initial_peers: on an
\* empty log directory (there is one per id) they are the configuration it
\* starts with.
Bootstrap(a) ==
  /\ proc[a].st = "ticket"
  /\ LET t     == proc[a].ticket
         known == proc[a].applied > 0 /\ proc[a].id = t.id
         disk  == IF known THEN proc[a] ELSE [NewProc EXCEPT !.conf = DOMAIN t.peers]
     IN  proc' = [proc EXCEPT ![a] = [disk EXCEPT !.st = "booted", !.id = t.id,
                                                  !.peers = t.peers, !.ticket = t]]
  /\ UNCHANGED <<log, leader, pend, elections, retries>>

\* raft.add_peers(ticket.peers): connects to every one of them; an error ends
\* the event loop.
AddPeers(a) ==
  /\ proc[a].st = "booted"
  /\ proc' = [proc EXCEPT ![a].st =
       IF \A i \in DOMAIN proc[a].ticket.peers : Live(proc[a].ticket.peers[i])
       THEN "added" ELSE "dead"]
  /\ UNCHANGED <<log, leader, pend, elections, retries>>

\* raft.join_cluster(ticket): handle_join sends change_config to the leader
\* the ticket names, and waits for the answer inside the event loop.
JoinCluster(a) ==
  /\ proc[a].st = "added"
  /\ proc' = [proc EXCEPT ![a].st = "joining", ![a].ask = proc[a].ticket.leader,
                          ![a].via = FALSE]
  /\ UNCHANGED <<log, leader, pend, elections, retries>>

\* The process is started again; its log directory is kept.
Retry(a) ==
  /\ proc[a].st = "dead" /\ a # First /\ retries < MaxRetries
  /\ proc' = [proc EXCEPT ![a] =
       [NewProc EXCEPT !.id = proc[a].id, !.conf = proc[a].conf,
                       !.applied = proc[a].applied, !.first = proc[a].first,
                       !.snap = proc[a].snap]]
  /\ retries' = retries + 1
  /\ UNCHANGED <<log, leader, pend, elections>>

-----------------------------------------------------------------------------
(* The nodes that are asked *)

\* The address a follower forwards a request to; it needs a leader, and the
\* leader's address, which it takes with peers.get(&leader_id).unwrap().
Forwards(b)   == proc[b].view # 0 /\ proc[b].view \in DOMAIN proc[b].peers
Panics(b)     == proc[b].view # 0 /\ proc[b].view \notin DOMAIN proc[b].peers
LeaderAddr(b) == proc[b].peers[proc[b].view]

\* ServerRequestMsg::RequestId.  The leader looks the address up or reserves
\* an id; a follower forwards, panics or, without a leader, drops the request.
HandleRequestId(a) ==
  LET b  == proc[a].ask
      id == IF NodeIdByAddr(proc[b].peers, a) # 0
            THEN NodeIdByAddr(proc[b].peers, a) ELSE ReserveId(proc[b].peers)
  IN  /\ proc[a].st = "asking" /\ Handles(b)
      /\ \/ /\ IsLeader(b)
            /\ proc' = [proc EXCEPT ![a].st = "ticket",
                 ![a].ticket = [id |-> id, leader |-> b, peers |-> proc[b].peers]]
         \/ ~IsLeader(b) /\ Forwards(b) /\ proc' = [proc EXCEPT ![a].ask = LeaderAddr(b)]
         \/ ~IsLeader(b) /\ Panics(b)
            /\ proc' = [proc EXCEPT ![a].st = "dead", ![b].st = "dead"]
         \/ proc[b].view = 0 /\ proc' = [proc EXCEPT ![a].st = "dead"]
      /\ UNCHANGED <<log, leader, pend, elections, retries>>

\* Mutant of the conf change handler: no look at pending changes.
HandleChangeConfigUnchecked(a) ==
  LET b == proc[a].ask
  IN  /\ proc[a].st = "joining" /\ Handles(b) /\ IsLeader(b)
      /\ proc' = [proc EXCEPT ![a].st = "waiting"]
      /\ pend' = [pend EXCEPT ![b] = ConfChange("add", proc[a].ticket.id, a, b)]
      /\ UNCHANGED <<log, leader, elections, retries>>

\* Mutant of the conf change handler: it answers when it proposes.
HandleChangeConfigAnswers(a) ==
  LET b == proc[a].ask
  IN  /\ proc[a].st = "joining" /\ Handles(b) /\ IsLeader(b) /\ ~HasPendingConf(b)
      /\ proc' = [proc EXCEPT ![a].st = "member"]
      /\ pend' = [pend EXCEPT ![b] = ConfChange("add", proc[a].ticket.id, a, b)]
      /\ UNCHANGED <<log, leader, elections, retries>>

\* change_config and handle_confchange_request.  A pending change or a missing
\* leader drops the request: the joining node gets an error, which ends its
\* event loop, unless the answer was forwarded, which the server between turns
\* into a success.
HandleChangeConfig(a) ==
  LET b     == proc[a].ask
      error == IF proc[a].via THEN "member" ELSE "dead"
  IN  /\ proc[a].st = "joining" /\ Handles(b)
      /\ \/ /\ IsLeader(b) /\ ~HasPendingConf(b)
            /\ proc' = [proc EXCEPT ![a].st = "waiting"]
            /\ pend' = [pend EXCEPT ![b] = ConfChange("add", proc[a].ticket.id, a, b)]
         \/ /\ HasPendingConf(b) \/ proc[b].view = 0
            /\ proc' = [proc EXCEPT ![a].st = error] /\ UNCHANGED pend
         \/ /\ ~IsLeader(b) /\ Forwards(b)
            /\ proc' = [proc EXCEPT ![a].ask = LeaderAddr(b), ![a].via = TRUE]
            /\ UNCHANGED pend
         \/ /\ ~IsLeader(b) /\ Panics(b)
            /\ proc' = [proc EXCEPT ![a].st = error, ![b].st = "dead"] /\ UNCHANGED pend
      /\ UNCHANGED <<log, leader, elections, retries>>

\* The connection to the process asked fails.
ConnectionFails(a) ==
  /\ proc[a].st \in {"asking", "joining", "waiting"} /\ ~Live(proc[a].ask)
  /\ proc' = [proc EXCEPT ![a].st = "dead"]
  /\ UNCHANGED <<log, leader, pend, elections, retries>>

\* Mutant of the timeout: change_config waits for the reply for ever.
RequestTimeoutNever(a) == FALSE /\ UNCHANGED vars

\* conf_change_request_timeout: handle_join returns Err(Timeout).
RequestTimeout(a) ==
  /\ proc[a].st \in {"joining", "waiting"} /\ Live(proc[a].ask)
  /\ proc' = [proc EXCEPT ![a].st = IF proc[a].via THEN "member" ELSE "dead"]
  /\ UNCHANGED <<log, leader, pend, elections, retries>>

\* change_config with RemoveNode, or leave() on the leader itself.  On another
\* node leave() answers WrongLeader, which it reports as Ok: nothing happens.
RemoveNode(b, v) ==
  /\ Handles(b) /\ IsLeader(b) /\ ~HasPendingConf(b) /\ v \in proc[b].conf
  /\ Cardinality({i \in DOMAIN log : log[i].kind = "remove"}) < MaxRemovals
  /\ pend' = [pend EXCEPT ![b] = ConfChange("remove", v, NoAddr, b)]
  /\ UNCHANGED <<proc, log, leader, elections, retries>>

-----------------------------------------------------------------------------
(* Applying conf changes *)

\* Mutant of applying a change: the snapshot is labelled one entry ahead.
AppliedLabelsAhead(p, e) ==
  [p EXCEPT !.applied = @ + 1, !.first = Max({@, p.applied}), !.snap = p.applied + 2,
            !.conf = IF e.kind = "add" THEN @ \cup {e.id} ELSE @ \ {e.id},
            !.peers = IF e.kind = "add" THEN AddPeer(@, e.id, e.addr) ELSE @]

\* handle_committed_config_change_entry on the node p: the peers map first,
\* then raw_node.apply_conf_change, which refuses to remove the last voter,
\* then a snapshot, for which the log below raft_log.applied is compacted.
Applied(p, e) ==
  LET last  == e.kind = "remove" /\ p.conf = {e.id}
      moved == [p EXCEPT !.applied = @ + 1,
                         !.peers = IF e.kind = "add" THEN AddPeer(@, e.id, e.addr)
                                   ELSE IF e.kind = "remove" /\ e.id # p.id
                                   THEN RemovePeer(@, e.id) ELSE @,
                         !.st = IF e.kind = "remove" /\ e.id = p.id THEN "dead" ELSE @]
  IN  IF e.kind = "noop" \/ last THEN moved
      ELSE [moved EXCEPT !.conf = IF e.kind = "add" THEN @ \cup {e.id} ELSE @ \ {e.id},
                         !.first = Max({@, p.applied}), !.snap = p.applied + 1]

\* The node b applies its next entry.  The node that proposed it answers the
\* request; when the server has given up waiting, the send panics.
Apply(b) ==
  LET i == proc[b].applied + 1
      e == log[i]
      waits == {a \in Addrs : a = e.addr /\ proc[a].st = "waiting"}
  IN  /\ i <= Len(log) /\ Handles(b) /\ Live(leader) /\ Reaches(leader, b)
      /\ b = leader \/ proc[leader].first <= i
      /\ IF e.kind = "add" /\ e.by = b /\ waits = {}
         THEN proc' = [proc EXCEPT ![b] = [Applied(@, e) EXCEPT !.st = "dead"]]
         ELSE proc' = [a \in Addrs |->
                         IF a = b THEN Applied(proc[b], e)
                         ELSE IF e.by = b /\ a \in waits
                         THEN [proc[a] EXCEPT !.st = "member"] ELSE proc[a]]
      /\ UNCHANGED <<log, leader, pend, elections, retries>>

\* The leader has compacted the entry b needs and sends its snapshot: b takes
\* the configuration; its peers map is not part of a snapshot.
InstallSnapshot(b) ==
  LET l == proc[leader]
  IN  /\ b # leader /\ Handles(b) /\ Reaches(leader, b)
      /\ proc[b].applied + 1 < l.first /\ proc[b].applied < l.snap
      /\ proc' = [proc EXCEPT ![b].applied = l.snap, ![b].conf = l.conf,
                              ![b].snap = l.snap, ![b].first = l.snap + 1]
      /\ UNCHANGED <<log, leader, pend, elections, retries>>

-----------------------------------------------------------------------------
(* The environment: Raft *)

Commit(b) ==
  /\ b = leader /\ Live(b) /\ pend[b] # NoChange /\ Len(log) <= MaxChanges /\ Quorum(b)
  /\ log' = Append(log, pend[b]) /\ pend' = [pend EXCEPT ![b] = NoChange]
  /\ UNCHANGED <<proc, leader, elections, retries>>

\* A voter that has the committed entries wins; a proposal of the old leader is
\* in its log or not.
Elect(b) ==
  /\ elections < MaxElections /\ elections' = elections + 1
  /\ b # leader /\ Handles(b) /\ proc[b].id \in proc[b].conf
  /\ proc[b].applied >= Len(log) - 1 /\ Quorum(b)
  /\ leader' = b /\ proc' = [proc EXCEPT ![b].view = proc[b].id]
  /\ pend' \in {pend, [pend EXCEPT ![b] = pend[leader]]}
  /\ UNCHANGED <<log, retries>>

\* The election timer of b fires: it knows no leader until it hears of one.
LoseLeader(b) ==
  /\ b # leader /\ Handles(b) /\ proc[b].view # 0 /\ proc[b].id \in proc[b].conf
  /\ elections < MaxElections
  /\ proc' = [proc EXCEPT ![b].view = 0]
  /\ UNCHANGED <<log, leader, pend, elections, retries>>

\* A message of the leader arrives: b follows it and gives up its own proposal.
LearnLeader(b) ==
  /\ b # leader /\ Reaches(leader, b) /\ proc[b].view # proc[leader].id
  /\ proc' = [proc EXCEPT ![b].view = proc[leader].id]
  /\ pend' = [pend EXCEPT ![b] = NoChange]
  /\ UNCHANGED <<log, leader, elections, retries>>

-----------------------------------------------------------------------------

Next ==
  \/ \E a, b \in Addrs : RequestId(a, b)
  \/ \E a \in Addrs :
       \/ HandleRequestId(a) \/ Bootstrap(a) \/ AddPeers(a) \/ JoinCluster(a)
       \/ HandleChangeConfig(a) \/ ConnectionFails(a) \/ RequestTimeout(a) \/ Retry(a)
       \/ Apply(a) \/ InstallSnapshot(a) \/ Commit(a) \/ Elect(a) \/ LoseLeader(a)
       \/ LearnLeader(a)
  \/ \E b \in Addrs : \E v \in proc[b].conf : RemoveNode(b, v)

\* The loops of live nodes run and timers fire; nothing forces an election, a
\* removal or a restart.
Fairness ==
  \A a \in Addrs :
    /\ WF_vars(HandleRequestId(a)) /\ WF_vars(Bootstrap(a)) /\ WF_vars(AddPeers(a))
    /\ WF_vars(JoinCluster(a)) /\ WF_vars(HandleChangeConfig(a))
    /\ WF_vars(ConnectionFails(a)) /\ WF_vars(RequestTimeout(a))
    /\ WF_vars(Apply(a)) /\ WF_vars(Commit(a))

Spec == Init /\ [][Next]_vars /\ Fairness

-----------------------------------------------------------------------------
(* Properties *)

\* Ids, addresses and indices are what they stand for: a node has applied only
\* committed entries, and its snapshot is one of what it has applied.
TypeOK ==
  /\ \A a \in Addrs : /\ proc[a].conf \subseteq Nat
                      /\ proc[a].snap <= proc[a].applied /\ proc[a].applied <= Len(log)
                      /\ \A i \in DOMAIN proc[a].peers : proc[a].peers[i] \in Addrs
  /\ leader \in Addrs

\* The identity of a node is unique in the group: no two running processes of
\* the cluster have the same id.
UniqueIds ==
  \A a, b \in Addrs :
    a # b /\ proc[a].st = "member" /\ proc[b].st = "member" => proc[a].id # proc[b].id

\* As long as processes join one after the other and the first leader stays,
\* it sends what is meant for a voter to the process that has its id, whatever
\* is removed, retried or timed out in between.
VotersAtTheirAddress ==
  Serial /\ elections = 0 /\ Live(leader) =>
    \A v \in proc[leader].conf :
      v \in DOMAIN proc[leader].peers /\ proc[proc[leader].peers[v]].id = v

\* As long as the first leader stays, a join_cluster that returned Ok has made
\* the process a member: the change that adds its id with its address is
\* committed.  (After an election a server that forwarded the request turns a
\* timeout into a success.)
JoinedIsCommitted ==
  elections = 0 =>
  \A a \in Addrs \ {First} :
    proc[a].st = "member" =>
      \E i \in DOMAIN log :
        log[i].kind = "add" /\ log[i].id = proc[a].id /\ log[i].addr = a

\* A process that asks to join gets an answer: it becomes a member or it ends.
JoinEnds ==
  \A a \in Addrs : Joining(a) ~> ~Joining(a)
=============================================================================
