------------------------------ MODULE Requests -----------------------------
(***************************************************************************)
(* The life of a client request: RaftServer::propose (RaftNode::propose    *)
(* does the same from inside the process) and RaftServer::change_config,   *)
(* the node's handle_propose_request and handle_confchange_request, and    *)
(* the answer sent when the entry is applied.  A leader files the oneshot  *)
(* sender of a request under the next response_seq and proposes an entry   *)
(* whose context is that number; every replica that applies the entry      *)
(* looks the number up in its own response_senders.                        *)
(*                                                                         *)
(* Consensus itself is external: boss is the leader of the newest term,    *)
(* log what is committed, tail what boss has in its log after that.  A     *)
(* node that lost the leadership believes in it (leads) until it hears of  *)
(* the new leader; what it proposes until then is never committed.         *)
(***************************************************************************)
EXTENDS Integers, Sequences, FiniteSets, Functions

CONSTANTS
  Node,            \* node ids
  Proposals,       \* requests that propose a command
  ConfChanges,     \* requests that change the configuration
  MaxElections, MaxRestarts, MaxTimeouts     \* bounds

NoLeader == 0

ASSUME RequestsAssumption ==
  /\ Node \subseteq Nat \ {NoLeader}
  /\ Proposals \cap ConfChanges = {}
  /\ MaxElections \in Nat /\ MaxRestarts \in Nat /\ MaxTimeouts \in Nat

Request == Proposals \cup ConfChanges

VARIABLES
  up,         \* the event loop of the node is running
  leads,      \* raft.state is Leader
  known,      \* raft.leader_id
  pconf,      \* raft.pending_conf_index
  seq,        \* response_seq
  senders,    \* response_senders: sequence number -> request
  inbox,      \* the requests in the channel from RaftServer to the node
  applied,    \* number of log entries applied
  call,       \* the call of each request: which server waits for it, whether
              \* another server forwarded it there, and its result
  boss, log, tail,
  elections, restarts, timeouts

vars == <<up, leads, known, pconf, seq, senders, inbox, applied, call, boss, log, tail,
          elections, restarts, timeouts>>
core == <<up, leads, known, pconf, seq, senders, applied>>
raft == <<boss, log, tail>>
bounds == <<elections, restarts, timeouts>>

NoSenders == <<>>

Init ==
  /\ up = [n \in Node |-> TRUE] /\ leads = [n \in Node |-> FALSE]
  /\ known = [n \in Node |-> NoLeader] /\ pconf = [n \in Node |-> 0]
  /\ seq = [n \in Node |-> 0] /\ senders = [n \in Node |-> NoSenders]
  /\ inbox = [n \in Node |-> {}] /\ applied = [n \in Node |-> 0]
  /\ call = [r \in Request |-> [at |-> NoLeader, fwd |-> FALSE, res |-> "idle"]]
  /\ boss = NoLeader /\ log = <<>> /\ tail = <<>>
  /\ elections = 0 /\ restarts = 0 /\ timeouts = 0

-----------------------------------------------------------------------------
(* RaftServer *)

\* The server at n still holds the receiving end of the request's channel.
Listening(r, n) == call[r].res = "waiting" /\ call[r].at = n

\* Mutant: the Success a forwarding server puts into its reply also replaces
\* what the server that waited for the node found.
ReplyAlwaysSuccess(r, res) ==
  IF r \in ConfChanges /\ res # "error" THEN "success" ELSE res

\* What the caller gets when the server that waits for the node produces res.
\* "error" is a gRPC status, which every server on the way passes on.  A
\* server that forwarded a change_config puts Success into any other reply.
Reply(r, res) ==
  IF r \in ConfChanges /\ call[r].fwd /\ res # "error" THEN "success" ELSE res

Answered(r, res) == [call EXCEPT ![r].res = Reply(r, res)]

\* The sender was dropped: propose unwraps the receive error and its task
\* panics, change_config replies with ChangeConfigUnknownError.
DropResult(r) == IF r \in ConfChanges THEN "unknown" ELSE "error"

\* A client calls the server (or the RaftNode handle) of node n.
Call(r, n) ==
  /\ call[r].res = "idle" /\ up[n]
  /\ call' = [call EXCEPT ![r] = [at |-> n, fwd |-> FALSE, res |-> "waiting"]]
  /\ inbox' = [inbox EXCEPT ![n] = @ \cup {r}]
  /\ UNCHANGED <<core, raft, bounds>>

\* change_config gives up after conf_change_request_timeout and drops the
\* receiver; propose waits for ever.
Timeout(r) ==
  /\ r \in ConfChanges /\ call[r].res = "waiting" /\ timeouts < MaxTimeouts
  /\ call' = Answered(r, "timeout")
  /\ timeouts' = timeouts + 1
  /\ UNCHANGED <<core, inbox, raft, elections, restarts>>

-----------------------------------------------------------------------------
(* The event loop *)

\* The loop of node n panics on the unwrap of a send: its receivers see
\* dropped senders.
Die(n) ==
  /\ up' = [up EXCEPT ![n] = FALSE] /\ leads' = [leads EXCEPT ![n] = FALSE]
  /\ senders' = [senders EXCEPT ![n] = NoSenders] /\ inbox' = [inbox EXCEPT ![n] = {}]
  /\ call' = [r \in Request |->
                IF Listening(r, n) THEN [call[r] EXCEPT !.res = Reply(r, DropResult(r))]
                ELSE call[r]]
  /\ boss' = IF boss = n THEN NoLeader ELSE boss
  /\ UNCHANGED <<known, pconf, seq, applied, log, tail, bounds>>

HasPendingConf(n) == leads[n] /\ pconf[n] > applied[n]

Taken(n, r) == inbox' = [inbox EXCEPT ![n] = @ \ {r}]

\* A conf change while another one is pending, or a request while no leader
\* is known: the handler returns and the sender is dropped.
DropRequest(n, r) ==
  /\ r \in inbox[n]
  /\ \/ r \in ConfChanges /\ HasPendingConf(n)
     \/ ~leads[n] /\ known[n] = NoLeader
  /\ Taken(n, r)
  /\ call' = IF Listening(r, n) THEN Answered(r, DropResult(r)) ELSE call
  /\ UNCHANGED <<core, raft, bounds>>

\* A follower answers WrongLeader and the server calls the leader's server;
\* when the server has given up, the send panics.
RedirectRequest(n, r) ==
  /\ r \in inbox[n]
  /\ ~leads[n] /\ known[n] # NoLeader
  /\ IF ~Listening(r, n) THEN Die(n)
     ELSE /\ call' = IF up[known[n]] THEN [call EXCEPT ![r].at = known[n], ![r].fwd = TRUE]
                     ELSE Answered(r, "error")
          /\ inbox' = [m \in Node |->
                         CASE m = n -> inbox[n] \ {r}
                           [] m = known[n] /\ up[m] -> inbox[m] \cup {r}
                           [] OTHER -> inbox[m]]
          /\ UNCHANGED <<core, raft, bounds>>

\* The index of the last entry of n's log; what a deposed leader added to its
\* log is not counted.
LastIndexOf(n) == IF n = boss THEN Len(log) + Len(tail) ELSE applied[n]

\* response_senders.insert(s, r).
Put(f, s, r) == [k \in DOMAIN f \cup {s} |-> IF k = s THEN r ELSE f[k]]

\* The sender is filed under the number response_seq had, and the entry that
\* carries the number is appended to n's log.
File(n, r) ==
  /\ senders' = [senders EXCEPT ![n] = Put(@, seq[n], r)]
  /\ tail' = IF n = boss THEN Append(tail, [ctx |-> seq[n], req |-> r]) ELSE tail
  /\ pconf' = IF r \in ConfChanges THEN [pconf EXCEPT ![n] = LastIndexOf(n) + 1] ELSE pconf
  /\ Taken(n, r)
  /\ UNCHANGED <<up, leads, known, applied, call, boss, log, bounds>>

\* Mutant: response_seq is read and not advanced.
ProposeRequestSameSeq(n, r) ==
  /\ r \in inbox[n] /\ leads[n] /\ ~(r \in ConfChanges /\ HasPendingConf(n))
  /\ File(n, r)
  /\ seq' = seq

\* A leader files the sender under the next number and proposes the entry.
ProposeRequest(n, r) ==
  /\ r \in inbox[n] /\ leads[n] /\ ~(r \in ConfChanges /\ HasPendingConf(n))
  /\ File(n, r)
  /\ seq' = [seq EXCEPT ![n] = @ + 1]

\* handle_committed_normal_entry and handle_committed_config_change_entry
\* answer with the result of their own kind of request; a server that waits
\* for the other kind panics on unreachable!() and its client gets an error.
Outcome(r, e) == IF r \in Proposals <=> e.req \in Proposals THEN "success" ELSE "error"

\* Mutant: the entry is applied and the sender stays where it is.
ApplySilently(n) ==
  /\ up[n] /\ applied[n] < Len(log) /\ (n = boss \/ ~leads[n])
  /\ applied' = [applied EXCEPT ![n] = @ + 1]
  /\ UNCHANGED <<up, leads, known, pconf, seq, senders, inbox, call, raft, bounds>>

\* A replica applies the next committed entry and answers the request it finds
\* under the entry's number; when the receiver is gone the send panics.  What
\* a deposed leader knew to be committed it may as well have applied before
\* the election, so it waits here until it has heard of the new leader.
Apply(n) ==
  LET e == log[applied[n] + 1] IN
  /\ up[n] /\ applied[n] < Len(log) /\ (n = boss \/ ~leads[n])
  /\ IF e.ctx \notin DOMAIN senders[n]
     THEN /\ applied' = [applied EXCEPT ![n] = @ + 1]
          /\ UNCHANGED <<up, leads, known, pconf, seq, senders, inbox, call, raft, bounds>>
     ELSE LET r == senders[n][e.ctx] IN
          IF ~Listening(r, n) THEN Die(n)
          ELSE /\ applied' = [applied EXCEPT ![n] = @ + 1]
               /\ senders' = [senders EXCEPT ![n] = Restrict(@, DOMAIN @ \ {e.ctx})]
               /\ call' = Answered(r, Outcome(r, e))
               /\ UNCHANGED <<up, leads, known, pconf, seq, inbox, raft, bounds>>

-----------------------------------------------------------------------------
(* Consensus, elections and restarts (external) *)

Quorum == 2 * Cardinality({n \in Node : up[n]}) > Cardinality(Node)

\* The entries of the leader's log reach a majority.
Commit ==
  /\ boss # NoLeader /\ Quorum /\ tail # <<>>
  /\ log' = Append(log, Head(tail)) /\ tail' = Tail(tail)
  /\ UNCHANGED <<core, inbox, call, boss, bounds>>

\* A majority elects n, whose log has everything committed and what it received
\* of the rest.  become_leader makes every entry before its own a possible
\* pending conf change.
Elect(n) ==
  /\ up[n] /\ n # boss /\ Quorum /\ elections < MaxElections
  /\ \E k \in 0 .. Len(tail) :
       /\ tail' = SubSeq(tail, 1, k)
       /\ pconf' = [pconf EXCEPT ![n] = Len(log) + k]
  /\ boss' = n
  /\ leads' = [leads EXCEPT ![n] = TRUE] /\ known' = [known EXCEPT ![n] = n]
  /\ elections' = elections + 1
  /\ UNCHANGED <<up, seq, senders, applied, inbox, call, log, restarts, timeouts>>

\* A node hears from the leader of the newest term.
Learn(n) ==
  /\ up[n] /\ boss # NoLeader /\ n # boss /\ known[n] # boss
  /\ leads' = [leads EXCEPT ![n] = FALSE] /\ known' = [known EXCEPT ![n] = boss]
  /\ UNCHANGED <<up, pconf, seq, senders, applied, inbox, call, raft, bounds>>

\* The process of n is stopped and started again: bootstrap begins with
\* response_seq 0, no senders and nothing applied.  The callers whose server
\* waited on this node lose their connection.
Restart(n) ==
  /\ restarts < MaxRestarts
  /\ restarts' = restarts + 1
  /\ up' = [up EXCEPT ![n] = TRUE] /\ leads' = [leads EXCEPT ![n] = FALSE]
  /\ known' = [known EXCEPT ![n] = NoLeader] /\ pconf' = [pconf EXCEPT ![n] = 0]
  /\ seq' = [seq EXCEPT ![n] = 0] /\ senders' = [senders EXCEPT ![n] = NoSenders]
  /\ inbox' = [inbox EXCEPT ![n] = {}] /\ applied' = [applied EXCEPT ![n] = 0]
  /\ call' = [r \in Request |->
                IF Listening(r, n) THEN [call[r] EXCEPT !.res = "error"] ELSE call[r]]
  /\ boss' = IF boss = n THEN NoLeader ELSE boss
  /\ UNCHANGED <<log, tail, elections, timeouts>>

Handle(n, r) == DropRequest(n, r) \/ RedirectRequest(n, r) \/ ProposeRequest(n, r)

Next ==
  \/ \E r \in Request, n \in Node : Call(r, n) \/ Handle(n, r)
  \/ \E r \in Request : Timeout(r)
  \/ \E n \in Node : Apply(n) \/ Elect(n) \/ Learn(n) \/ Restart(n)
  \/ Commit

Spec == Init /\ [][Next]_vars

\* The event loop of a running node handles what is in its channel and applies
\* what is committed; while a leader stays, messages arrive and entries commit.
FairSpec ==
  /\ Spec
  /\ WF_vars(Commit)
  /\ \A n \in Node : WF_vars(Apply(n)) /\ WF_vars(Learn(n))
  /\ \A n \in Node, r \in Request : WF_vars(Handle(n, r))

-----------------------------------------------------------------------------
(* Properties *)

Committed(r) == \E i \in DOMAIN log : log[i].req = r

\* A propose call that returns success (the Success that
\* handle_committed_normal_entry sends, forwarded or not) has its command in
\* the committed log.
AckedProposals == \A r \in Proposals : call[r].res = "success" => Committed(r)

\* A change_config call that the leader's own server answers with
\* ChangeConfigSuccess has its change in the committed log.  (A server that
\* forwarded the call says ChangeConfigSuccess whatever the leader answered.)
AckedChanges ==
  \A r \in ConfChanges : call[r].res = "success" /\ ~call[r].fwd => Committed(r)

\* Under a leader that is not replaced every call returns, as long as no event
\* loop has panicked (the rest may not be a majority then).
EveryCallReturns ==
  \A r \in Request :
    (call[r].res = "waiting") ~> (call[r].res # "waiting" \/ \E n \in Node : ~up[n])
=============================================================================
