----------------------------- MODULE EventLoop -----------------------------
(***************************************************************************)
(* One process: the methods of the RaftNode handle and the gRPC handlers   *)
(* that put requests into bounded channels, the event loop that takes them *)
(* out one per turn, the tasks that send Raft messages, the peers mutex    *)
(* they share with the loop, and Raft::run, which starts and stops loop    *)
(* and server.  What a request does to Raft and to the store is the        *)
(* subject of RaftNode and Requests; here it matters who waits for whom.   *)
(* Which node is the leader when a request is handled, what Raft commits   *)
(* and what the network does is up to the environment.  The panics here    *)
(* are those of the loop's own code; raft-rs, the log store, the state     *)
(* machine and the reading of TLS files are supposed to return errors.     *)
(***************************************************************************)
EXTENDS Integers, Sequences, FiniteSets

CONSTANTS
  Locals,       \* callers of the handle; each makes one call
  Rpcs,         \* gRPC handlers of other processes' calls; one call each
  Own,          \* the handler of the node's own change_config, in handle_join
  Tasks,        \* the send_message tasks that may run at the same time
  Ids,          \* the ids of the other nodes
  Loop,         \* the event loop, among those that ask for the mutex
  NoCaller,     \* no caller
  Capacity,     \* of each channel, 100 in the code
  LocalKinds,   \* bound: what the callers of the handle ask for
  RpcKinds      \* bound: what the other processes ask for

\* Requests the loop cannot digest: a join without a ticket or with an address
\* that is none, a change with more addresses than changes or fewer, an id asked
\* for an address that is none.
MalformedRequestMsg == {"bad_join", "uneven_change", "bad_request_id"}

\* What the handle may ask for.  "read" stands for the requests that are
\* answered at once and whose handler cannot fail (IsLeader, GetId, GetLeaderId,
\* GetClusterSize, GetStateMachine, GetStorage, GetRawNode, Demote,
\* TransferLeader, SendMessage), "campaign" for DebugNode too, "add_peer" for
\* AddPeers too, "change_config" for Leave too.
LocalRequestMsg ==
  {"read", "campaign", "get_peers", "add_peer", "make_snapshot", "propose", "change_config",
   "leave_joint", "join_cluster", "quit", "bad_join", "uneven_change"}

\* What another process may ask for.
ServerRequestMsg ==
  {"send_message", "debug_node", "get_peers", "set_peers", "create_snapshot", "propose",
   "change_config", "request_id", "leave_joint", "uneven_change", "bad_request_id"}

\* What becomes an entry of the Raft log, and what is repeated at the leader when
\* this node is not the leader.
Proposed == {"propose", "change_config"}
Forwarded == Proposed \cup {"request_id", "bad_request_id"}

ASSUME EventLoopAssumption ==
  /\ Capacity \in Nat \ {0}
  /\ Locals \cap Rpcs = {}
  /\ Own \notin Locals \cup Rpcs /\ NoCaller \notin Locals \cup Rpcs \cup {Own}
  /\ Loop \notin Tasks
  /\ LocalKinds \subseteq LocalRequestMsg /\ RpcKinds \subseteq ServerRequestMsg

VARIABLES
  pc, cur,      \* where the loop is, and the caller it works for
  exit,         \* should_exit
  chan,         \* the channels: chan.self, chan.server, chan.local
  call,         \* the state of each call
  filed,        \* the callers in response_senders
  task, peers,  \* the send tasks; what the peers map knows of each id
  mutex,        \* the peers mutex: who asked for it, the first one has it
  run, srv      \* Raft::run and the gRPC server

vars == <<pc, cur, exit, chan, call, filed, task, peers, mutex, run, srv>>
others == <<run, srv>>

Callers   == Locals \cup Rpcs \cup {Own}
Stopped   == pc \in {"ended", "panicked"}
Channels  == {"self", "server", "local"}
ChanOf(c) == IF c \in Locals THEN "local" ELSE "server"
Room(ch)  == Len(chan[ch]) < Capacity
Holds(x)  == mutex # <<>> /\ Head(mutex) = x
InFlight  == {c \in Rpcs \cup {Own} : call[c].st \in {"sending", "waiting", "redirected"}}

Init ==
  /\ pc = "top" /\ cur = NoCaller /\ exit = FALSE
  /\ chan = [ch \in Channels |-> <<>>]
  /\ call = [c \in Callers |-> [st |-> "idle", kind |-> "none"]]
  /\ filed = {} /\ mutex = <<>>
  /\ task = [t \in Tasks |-> [st |-> "idle", to |-> CHOOSE i \in Ids : TRUE]]
  /\ peers \in [Ids -> {"none", "known"}]
  /\ run = "running" /\ srv = "running"

-----------------------------------------------------------------------------
(* The callers *)

\* A method of the handle, or a gRPC handler, creates its oneshot channel and
\* starts to send the request.
Call(c, k) ==
  /\ call[c].st = "idle"
  /\ \/ c \in Locals /\ k \in LocalKinds
     \/ c \in Rpcs /\ k \in RpcKinds /\ srv = "running"
  /\ call' = [call EXCEPT ![c] = [st |-> "sending", kind |-> k]]
  /\ UNCHANGED <<pc, cur, exit, chan, filed, task, peers, mutex, others>>

\* Nobody waits for an answer of these.
OneWay(c) ==
  call[c].kind = "send_message" \/ (c \in Locals /\ call[c].kind = "leave_joint")

\* The call returns: with an answer, or with the error or the panic of the
\* caller that an answer to something else, or none, comes to.
Returned == [st |-> "returned", kind |-> "none"]

\* The call goes on at the leader.
Redirected == [st |-> "redirected", kind |-> "none"]

\* sender.send(request).await: it waits for room in the channel.  When the loop
\* is gone the handle unwraps the error; a gRPC handler logs it and finds its
\* oneshot channel closed.
Send(c) ==
  /\ call[c].st = "sending"
  /\ \/ /\ ~Stopped /\ Room(ChanOf(c))
        /\ chan' = [chan EXCEPT ![ChanOf(c)] = Append(@, c)]
        /\ call' = [call EXCEPT ![c].st = IF OneWay(c) THEN "returned" ELSE "waiting"]
     \/ /\ Stopped /\ UNCHANGED chan
        /\ call' = [call EXCEPT ![c] = Returned]
  /\ UNCHANGED <<pc, cur, exit, filed, task, peers, mutex, others>>

\* The node answered WrongLeader: propose, change_config and request_id repeat
\* the request at the leader, and wait for its answer without a timeout: there a
\* proposal waits until it is committed.
FollowRedirect(c) ==
  /\ call[c].st = "redirected"
  /\ call' = [call EXCEPT ![c] = Returned]
  /\ UNCHANGED <<pc, cur, exit, chan, filed, task, peers, mutex, others>>

\* Nobody listens any more: the receiver is dropped, the sender is still there.
Leaves(c) ==
  /\ call[c].st = "waiting" /\ call' = [call EXCEPT ![c].st = "gone"]
  /\ UNCHANGED <<pc, cur, exit, chan, filed, task, peers, mutex, others>>

\* conf_change_request_timeout; it does not run while the request is sent.
Timeout(c) ==
  /\ c \in Rpcs \cup {Own} /\ call[c].kind \in {"change_config", "uneven_change"} /\ Leaves(c)

\* The client of a call goes away and the server drops its handler; or the future
\* of a method of the handle is dropped, by a timeout or a select around it.
Disconnect(c) ==
  /\ c \in Locals \cup Rpcs
  /\ \/ Leaves(c)
     \/ /\ call[c].st \in {"sending", "redirected"}     \* the node has no sender
        /\ call' = [call EXCEPT ![c] = Returned]
        /\ UNCHANGED <<pc, cur, exit, chan, filed, task, peers, mutex, others>>

-----------------------------------------------------------------------------
(* The loop *)

\* The node has the oneshot sender of c: in a request that is still in its
\* channel, in response_senders, or in the request it works for.
InChannel(c) == \E i \in 1 .. Len(chan[ChanOf(c)]) : chan[ChanOf(c)][i] = c
HasSender(c) == InChannel(c) \/ c \in filed \/ c = cur

\* RaftNodeCore::run returns or unwinds: the core is dropped with the receivers of
\* its channels, response_senders and the request in hand, hence every oneshot
\* sender in them, which wakes its receiver; and with the guard of the lock (a
\* loop that only waits for the lock does not end).
LoopStops(how) ==
  /\ pc' = how /\ cur' = NoCaller /\ exit' = FALSE
  /\ chan' = [ch \in Channels |-> <<>>] /\ filed' = {}
  /\ mutex' = IF Holds(Loop) THEN Tail(mutex) ELSE mutex
  /\ call' = [c \in Callers |-> IF HasSender(c) THEN Returned ELSE call[c]]

\* The handler ends with tx_msg.send(r).unwrap(), and the loop goes on at next;
\* when the receiver is gone the unwrap fails.  (Locks and channels: the caller.)
Answer(c, r, next) ==
  /\ call[c].st = "waiting"
  /\ call' = [call EXCEPT ![c] = r]
  /\ filed' = filed \ {c}
  /\ pc' = next /\ cur' = NoCaller
AnswerFails(c) == call[c].st # "waiting" /\ LoopStops("panicked")

\* Mutant of dropping a request: a task of its own keeps it, to try again later.
DropRequestRetries(c) ==
  /\ pc' = "ready" /\ cur' = NoCaller /\ UNCHANGED <<call, filed>>

\* The handler returns Ok without an answer: the sender is dropped.
DropRequest(c) ==
  /\ call' = [call EXCEPT ![c] = Returned]
  /\ pc' = "ready" /\ cur' = NoCaller /\ UNCHANGED filed

GoTo(where, c) == pc' = where /\ cur' = c /\ UNCHANGED <<call, filed>>

AnsweredAtOnce(c) ==
  \/ call[c].kind \in {"read", "campaign", "debug_node", "make_snapshot", "create_snapshot",
                      "quit"}
  \/ call[c].kind = "leave_joint" /\ c \in Rpcs

\* handle_local_request_msg and handle_server_request_msg, up to the point where
\* they answer, file the sender, or wait for the mutex or for another node.
Handle(c) ==
  LET k == call[c].kind
  IN  \/ /\ AnsweredAtOnce(c) /\ Answer(c, Returned, "ready")
         /\ exit' = (k = "quit") /\ UNCHANGED mutex
      \/ /\ OneWay(c) /\ GoTo("ready", NoCaller) /\ UNCHANGED <<exit, mutex>>
      \/ /\ k = "join_cluster" /\ GoTo("join", c) /\ UNCHANGED <<exit, mutex>>
      \/ /\ k \in {"get_peers", "set_peers", "add_peer"} \cup Forwarded
         /\ GoTo("lock", c) /\ mutex' = Append(mutex, Loop) /\ UNCHANGED exit
      \/ /\ k \in Forwarded    \* no leader is known, or a change is pending already
         /\ DropRequest(c) /\ UNCHANGED <<exit, mutex>>
      \/ /\ k \in Proposed                                  \* it is the leader
         /\ filed' = filed \cup {c} /\ pc' = "ready" /\ cur' = NoCaller
         /\ UNCHANGED <<exit, call, mutex>>

\* The answer finds no receiver; the request cannot be digested; or `?` ends the
\* loop: a snapshot or an inspection that fails, a campaign or a proposal that
\* Raft refuses.
HandlerFails(c) ==
  \/ AnsweredAtOnce(c) /\ AnswerFails(c)
  \/ call[c].kind \in {"bad_join", "uneven_change"} /\ LoopStops("panicked")
  \/ /\ call[c].kind \in {"campaign", "debug_node", "make_snapshot", "create_snapshot",
                          "leave_joint"} \cup Proposed
     /\ LoopStops("ended")

\* One branch of the select in run.
Take(ch) ==
  /\ pc = "top" /\ ~exit /\ chan[ch] # <<>>
  /\ \/ /\ ch = "self" /\ GoTo("ready", NoCaller) /\ UNCHANGED <<exit, mutex>>
        /\ chan' = [chan EXCEPT ![ch] = Tail(@)]
     \/ /\ ch # "self" /\ Handle(Head(chan[ch]))
        /\ chan' = [chan EXCEPT ![ch] = Tail(@)]
     \/ ch # "self" /\ HandlerFails(Head(chan[ch]))
  /\ UNCHANGED <<task, peers, others>>

\* All three receives time out.
Idle ==
  /\ pc = "top" /\ ~exit /\ \A ch \in Channels : chan[ch] = <<>>
  /\ pc' = "ready"
  /\ UNCHANGED <<cur, exit, chan, call, filed, task, peers, mutex, others>>

\* The loop finds should_exit set.
Exit ==
  /\ pc = "top" /\ exit /\ LoopStops("ended")
  /\ UNCHANGED <<task, peers, others>>

\* set_peers: Peers::from makes a map of peers without clients of the request,
\* and Peers::replace drops the old one.
ReplacedPeers == [Ids -> {"none", "known"}]

\* The handler has the peers mutex: the map is read or replaced, and an unknown
\* leader or an address that is none is a panic.
Locked ==
  /\ pc = "lock" /\ Holds(Loop)
  /\ LET k == call[cur].kind
     IN  \/ /\ k \in {"get_peers", "request_id", "set_peers"}
            /\ \/ Answer(cur, Returned, "ready") /\ mutex' = Tail(mutex) /\ UNCHANGED <<exit, chan>>
               \/ AnswerFails(cur)
            /\ peers' \in IF k = "set_peers" THEN ReplacedPeers ELSE {peers}
         \/ k = "bad_request_id" /\ LoopStops("panicked") /\ UNCHANGED peers
         \/ /\ k = "add_peer" /\ GoTo("connect", cur)
            /\ \E i \in Ids : peers' = [peers EXCEPT ![i] = "connecting"]
            /\ UNCHANGED <<exit, chan, mutex>>
         \/ /\ k \in Forwarded /\ UNCHANGED peers
            /\ \E leader \in Ids :
                 \/ /\ peers[leader] # "none"
                    /\ Answer(cur, Redirected, "ready")
                    /\ mutex' = Tail(mutex) /\ UNCHANGED <<exit, chan>>
                 \/ peers[leader] # "none" /\ AnswerFails(cur)
                 \/ peers[leader] = "none" /\ LoopStops("panicked")
  /\ UNCHANGED <<task, others>>

\* Mutant of add_peer: the error of connect is unwrapped.
ConnectedUnwraps ==
  /\ pc = "connect"
  /\ \E i \in Ids :
       /\ peers[i] = "connecting"
       /\ \/ /\ peers' = [peers EXCEPT ![i] = "client"]
             /\ \/ /\ Answer(cur, Returned, "ready")
                   /\ mutex' = Tail(mutex) /\ UNCHANGED <<exit, chan>>
                \/ AnswerFails(cur)
          \/ peers' = [peers EXCEPT ![i] = "known"] /\ LoopStops("panicked")
  /\ UNCHANGED <<task, others>>

\* add_peer connects inside the loop, with the mutex; an error ends the loop.
Connected ==
  /\ pc = "connect"
  /\ \E i \in Ids :
       /\ peers[i] = "connecting"
       /\ \/ /\ peers' = [peers EXCEPT ![i] = "client"]
             /\ \/ /\ Answer(cur, Returned, "ready")
                   /\ mutex' = Tail(mutex) /\ UNCHANGED <<exit, chan>>
                \/ AnswerFails(cur)
          \/ peers' = [peers EXCEPT ![i] = "known"] /\ LoopStops("ended")
  /\ UNCHANGED <<task, others>>

\* handle_join, when the leader of the ticket is another node: the loop waits
\* for the answer of its change_config, which is an error or a success.  The wait
\* has no timeout here; the one at the leader does not run before there is room
\* in its channel.
JoinAnswered ==
  /\ pc = "join"
  /\ \/ Answer(cur, Returned, "ready") /\ UNCHANGED <<exit, chan, mutex>>
     \/ AnswerFails(cur)
     \/ LoopStops("ended")
  /\ UNCHANGED <<task, peers, others>>

\* handle_join, when it is this node: it calls its own server, ...
JoinOwnServer ==
  /\ pc = "join" /\ call[Own].st = "idle" /\ srv = "running" /\ pc' = "own"
  /\ call' = [call EXCEPT ![Own] = [st |-> "sending", kind |-> "change_config"]]
  /\ UNCHANGED <<cur, exit, chan, filed, task, peers, mutex, others>>

\* ... whose request only the loop could take: it answers with the timeout.
OwnServerAnswers ==
  /\ pc = "own" /\ call[Own].st = "gone" /\ LoopStops("ended")
  /\ UNCHANGED <<task, peers, others>>

-----------------------------------------------------------------------------
(* on_ready *)

\* send_messages starts a task per message.
SendMessages(ts, to) ==
  /\ \A t \in ts : task[t].st = "idle"
  /\ task' = [t \in Tasks |-> IF t \in ts THEN [st |-> "new", to |-> to] ELSE task[t]]

\* handle_committed_normal_entry, for an entry that has the number of a filed
\* sender.  It need not be the entry of that caller, nor one of its kind: every
\* node numbers its own.
Committed(c) ==
  /\ c \in filed
  /\ \/ Answer(c, Returned, "top") /\ UNCHANGED <<exit, chan, mutex>>
     \/ AnswerFails(c)

\* handle_committed_config_change_entry, for a change with the number of a filed
\* sender or another one: it needs the mutex for every node it adds or removes,
\* except itself.  (One wait stands for those of all the nodes.)  "mixed" is a
\* change that does both, when there is a caller to answer.
ConfChange(c) ==
  /\ c # NoCaller => c \in filed
  /\ \/ /\ GoTo("conf", c) \/ (c # NoCaller /\ GoTo("mixed", c))
        /\ mutex' = Append(mutex, Loop) /\ UNCHANGED <<exit, chan>>
     \/ /\ c # NoCaller
        /\ \/ Answer(c, Returned, "top") /\ exit' = TRUE /\ UNCHANGED <<chan, mutex>>
           \/ AnswerFails(c)
     \/ /\ c = NoCaller /\ GoTo("top", NoCaller) /\ exit' = TRUE
        /\ UNCHANGED <<chan, mutex>>

\* The rest of a turn, with at most one committed entry.  `?` ends the loop when
\* the state machine cannot restore, apply or make a snapshot, or the store fails.
OnReady ==
  /\ pc = "ready"
  /\ \E ts \in SUBSET Tasks, to \in Ids : SendMessages(ts, to)
  /\ \/ GoTo("top", NoCaller) /\ UNCHANGED <<exit, chan, mutex>>
     \/ LoopStops("ended")
     \/ \E c \in Callers : Committed(c)
     \/ \E c \in Callers \cup {NoCaller} : ConfChange(c)
  /\ UNCHANGED <<peers, others>>

\* The change is made to the peers map and the mutex given back; then the conf
\* state is stored and a snapshot made, which may fail, and the caller is
\* answered.  The answer to a join has a copy of the map: it needs the mutex again.
\* There is no answer to a mixed change.  (One of several removed may be this node.)
ConfChangeLocked ==
  /\ pc \in {"conf", "mixed"} /\ Holds(Loop)
  /\ \E i \in Ids, p \in {"none", "known"} : peers' = [peers EXCEPT ![i] = p]
  /\ \/ LoopStops("ended")
     \/ /\ cur = NoCaller /\ GoTo("top", NoCaller)
        /\ mutex' = Tail(mutex) /\ exit' \in {exit, TRUE} /\ UNCHANGED chan
     \/ cur # NoCaller /\ pc = "mixed" /\ LoopStops("panicked")
     \/ /\ cur # NoCaller /\ pc = "conf"
        /\ \/ /\ Answer(cur, Returned, "top")
              /\ mutex' = Tail(mutex) /\ exit' \in {exit, TRUE} /\ UNCHANGED chan
           \/ AnswerFails(cur)
           \/ /\ GoTo("answer", cur)
              /\ mutex' = Append(Tail(mutex), Loop) /\ UNCHANGED <<exit, chan>>
  /\ UNCHANGED <<task, others>>

JoinSuccess ==
  /\ pc = "answer" /\ Holds(Loop)
  /\ \/ Answer(cur, Returned, "top") /\ mutex' = Tail(mutex) /\ UNCHANGED <<exit, chan>>
     \/ AnswerFails(cur)
  /\ UNCHANGED <<task, peers, others>>

-----------------------------------------------------------------------------
(* send_message *)

TaskGoes(t, st) == task' = [task EXCEPT ![t].st = st]

TaskLocks(t) ==
  /\ task[t].st = "new" /\ TaskGoes(t, "locking") /\ mutex' = Append(mutex, t)
  /\ UNCHANGED <<pc, cur, exit, chan, call, filed, peers, others>>

\* It has the mutex: an unknown peer, one with a client, or one to connect to.
TaskLocked(t) ==
  /\ task[t].st = "locking" /\ Holds(t)
  /\ LET p == peers[task[t].to]
     IN  /\ TaskGoes(t, IF p = "none" THEN "failed"
                        ELSE IF p = "client" THEN "transmit" ELSE "connect")
         /\ mutex' = IF p \in {"none", "client"} THEN Tail(mutex) ELSE mutex
  /\ UNCHANGED <<pc, cur, exit, chan, call, filed, peers, others>>

\* Mutant of connecting, to a dead peer: the guard lives until the error is
\* reported.
TaskConnectedKeepsLock(t) ==
  /\ task[t].st = "connect" /\ TaskGoes(t, "idle") /\ mutex' = Tail(mutex)
  /\ \/ ~Stopped /\ Room("self") /\ chan' = [chan EXCEPT !.self = Append(@, t)]
     \/ Stopped /\ UNCHANGED chan
  /\ UNCHANGED <<pc, cur, exit, call, filed, peers, others>>

\* peer.connect(), with the mutex, which the end of the match gives back.
TaskConnected(t) ==
  /\ task[t].st = "connect" /\ mutex' = Tail(mutex)
  /\ \/ TaskGoes(t, "transmit") /\ peers' = [peers EXCEPT ![task[t].to] = "client"]
     \/ TaskGoes(t, "failed") /\ UNCHANGED peers
  /\ UNCHANGED <<pc, cur, exit, chan, call, filed, others>>

\* client.send_message(message).
Transmit(t) ==
  /\ task[t].st = "transmit" /\ \E st \in {"idle", "failed"} : TaskGoes(t, st)
  /\ UNCHANGED <<pc, cur, exit, chan, call, filed, peers, mutex, others>>

\* ReportUnreachable goes to the loop; the error of a loop that is gone is ignored.
ReportUnreachable(t) ==
  /\ task[t].st = "failed" /\ TaskGoes(t, "idle")
  /\ \/ ~Stopped /\ Room("self") /\ chan' = [chan EXCEPT !.self = Append(@, t)]
     \/ Stopped /\ UNCHANGED chan
  /\ UNCHANGED <<pc, cur, exit, call, filed, peers, mutex, others>>

-----------------------------------------------------------------------------
(* Raft::run *)

\* The event loop or the server has ended.  The select may take either when
\* both have; then the quit signal cannot be sent.
RunReturns ==
  /\ run = "running"
  /\ \/ Stopped /\ run' = IF srv = "running" THEN "returned" ELSE "panicked"
     \/ srv = "stopped" /\ run' = "returned"
  /\ UNCHANGED <<pc, cur, exit, chan, call, filed, task, peers, mutex, srv>>

CtrlC ==
  /\ run = "running" /\ run' = "returned"
  /\ UNCHANGED <<pc, cur, exit, chan, call, filed, task, peers, mutex, srv>>

\* Mutant of the server: only a quit signal that is sent stops it.
ServerStopsOnSignal ==
  /\ srv = "running" /\ run = "returned" /\ Stopped /\ InFlight = {} /\ srv' = "stopped"
  /\ UNCHANGED <<pc, cur, exit, chan, call, filed, task, peers, mutex, run>>

\* The quit signal was sent, or its sender dropped: the server stops when its
\* handlers have returned.
ServerStops ==
  /\ srv = "running" /\ run # "running" /\ InFlight = {} /\ srv' = "stopped"
  /\ UNCHANGED <<pc, cur, exit, chan, call, filed, task, peers, mutex, run>>

\* The address cannot be bound.
ServerFails ==
  /\ srv = "running" /\ \A c \in Rpcs \cup {Own} : call[c].st = "idle" /\ srv' = "stopped"
  /\ UNCHANGED <<pc, cur, exit, chan, call, filed, task, peers, mutex, run>>

-----------------------------------------------------------------------------

\* What a caller, the loop within a turn, and a task do when they can, without
\* another node's answer.
CallStep(c) == Send(c) \/ Timeout(c)
LoopStep ==
  \/ Idle \/ Exit \/ OnReady \/ Locked \/ Connected \/ ConfChangeLocked \/ JoinSuccess
  \/ OwnServerAnswers
TaskStep(t) ==
  TaskLocks(t) \/ TaskLocked(t) \/ TaskConnected(t) \/ ReportUnreachable(t)

Next ==
  \/ \E c \in Callers : \/ \E k \in LocalKinds \cup RpcKinds : Call(c, k)
                        \/ CallStep(c) \/ FollowRedirect(c) \/ Disconnect(c)
  \/ \E ch \in Channels : Take(ch)
  \/ LoopStep \/ JoinAnswered \/ JoinOwnServer
  \/ \E t \in Tasks : TaskStep(t) \/ Transmit(t)
  \/ RunReturns \/ CtrlC \/ ServerStops \/ ServerFails

\* Tokio runs every task that can go on, a select that finds several channels
\* ready picks one at random, and connections succeed or fail.  Nobody has to
\* call, to commit or to disconnect, and no other node has to answer a request:
\* FollowRedirect, JoinAnswered and Transmit may never come.
Fairness ==
  /\ \A c \in Callers : WF_vars(CallStep(c))
  /\ \A ch \in Channels : SF_vars(Take(ch))
  /\ WF_vars(LoopStep)
  /\ \A t \in Tasks : WF_vars(TaskStep(t))
  /\ WF_vars(RunReturns) /\ WF_vars(ServerStops)

Spec == Init /\ [][Next]_vars /\ Fairness

-----------------------------------------------------------------------------
(* Properties *)

\* The loop waits in handle_join: for another node, or for its own server, where
\* the handler waits for room in the channel that only the loop empties.
LoopWaits == pc = "join" \/ (pc = "own" /\ call[Own].st = "sending" /\ ~Room("server"))

\* The loop panics only over the request in hand, because its caller has left or
\* because it cannot digest it, or a committed change that both adds and removes
\* nodes, or to name a leader that is not in the peers map.  (A request has one
\* sender, which its caller waits for until it is answered once, or leaves: no
\* other unwrap can fail.)
InHand(c) ==
  \/ c = cur
  \/ pc = "top" /\ chan[ChanOf(c)] # <<>> /\ c = Head(chan[ChanOf(c)])
  \/ pc = "ready" /\ c \in filed
CauseOfPanic ==
  \/ \E c \in Callers : InHand(c) /\ call[c].st = "gone"
  \/ \E c \in Callers : InHand(c) /\ call[c].kind \in MalformedRequestMsg
  \/ pc = "mixed" /\ cur # NoCaller
  \/ pc = "lock" /\ \E leader \in Ids : peers[leader] = "none"
PanicsForACause == [][pc # "panicked" /\ pc' = "panicked" => CauseOfPanic]_vars

\* Nobody waits for ever, unless it is for another node: a call returns or is
\* sent on to the leader, if it does not wait for Raft to commit, and a message is
\* sent or reported, if its receiver answers; except that all of them may wait
\* for a loop that waits in handle_join.  (What is excepted once and no longer
\* has to end from then on.)
InCall(c) == call[c].st \in {"sending", "waiting"}
NothingHangs ==
  /\ \A c \in Locals \cup Rpcs : InCall(c) ~> ~InCall(c) \/ c \in filed \/ LoopWaits
  /\ \A t \in Tasks : task[t].st # "idle" ~> task[t].st \in {"idle", "transmit"} \/ LoopWaits

\* When the loop has ended nobody waits for its answer any more, neither those
\* in the channels nor those that waited for Raft or the one in hand: the loop
\* had the sender of everyone who waited.
EndReleasesAll == Stopped => \A c \in Callers : call[c].st # "waiting"

\* When Raft::run has returned, for whatever reason, the server stops, unless
\* one of its handlers waits for ever for the leader or for a loop that still runs.
ServerStopsWithRun ==
  run # "running" ~>
    \/ srv = "stopped"
    \/ \E c \in InFlight : c \in filed \/ call[c].st = "redirected"
    \/ LoopWaits
=============================================================================
