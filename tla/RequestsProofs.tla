--------------------------- MODULE RequestsProofs --------------------------
(***************************************************************************)
(* Under a single election an answer of success is never given for a       *)
(* request that is not committed: whatever the number of nodes, requests,  *)
(* restarts, timeouts and panics.  The numbers of response_seq are sound   *)
(* as long as one life of one leader gives them out; the run               *)
(* ack_leader_change shows that a second election is enough to break it.   *)
(***************************************************************************)
EXTENDS Requests, TLAPS

Entry == [ctx : Nat, req : Request]

Shapes ==
  /\ log \in Seq(Entry) /\ tail \in Seq(Entry)
  /\ DOMAIN up = Node /\ leads \in [Node -> BOOLEAN]
  /\ seq \in [Node -> Nat] /\ applied \in [Node -> Nat]
  /\ DOMAIN senders = Node /\ DOMAIN inbox = Node
  /\ \A n \in Node : inbox[n] \subseteq Request
  /\ \A n \in Node : \A k \in DOMAIN senders[n] : senders[n][k] \in Request
  /\ DOMAIN call = Request
  /\ \A r \in Request : DOMAIN call[r] = {"at", "fwd", "res"}
  /\ boss \in Node \cup {NoLeader} /\ elections \in Nat

\* Before the election nothing has been proposed.
NothingBefore ==
  elections = 0 =>
    /\ boss = NoLeader /\ log = <<>> /\ tail = <<>>
    /\ \A n \in Node : ~leads[n] /\ DOMAIN senders[n] = {}

\* Only the one elected node, in the life in which it was elected, believes in
\* its leadership and has senders on file.
OnlyBossFiles ==
  \A n \in Node : leads[n] \/ DOMAIN senders[n] # {} => n = boss

\* An entry has a number the boss has given out, and if a sender is still filed
\* under the number, it is the sender of the entry's own request.
Filed(e) ==
  boss # NoLeader =>
    /\ e.ctx < seq[boss]
    /\ e.ctx \in DOMAIN senders[boss] => senders[boss][e.ctx] = e.req

EntriesFiled ==
  /\ \A i \in 1 .. Len(log) : Filed(log[i])
  /\ \A i \in 1 .. Len(tail) : Filed(tail[i])

\* The request r may be answered by the leader's own server.
Counts(r) == r \in Proposals \/ ~call[r].fwd

AnswersBacked ==
  \A r \in Request :
    call[r].res = "success" /\ Counts(r) => \E i \in 1 .. Len(log) : log[i].req = r

AckInv == Shapes /\ NothingBefore /\ OnlyBossFiles /\ EntriesFiled /\ AnswersBacked

-----------------------------------------------------------------------------

\* The initial state has nothing proposed and nothing answered.
LEMMA InitInv == Init => AckInv
BY RequestsAssumption
   DEF Init, AckInv, Shapes, NothingBefore, OnlyBossFiles, EntriesFiled, AnswersBacked,
       NoSenders, NoLeader

\* The invariant contains the two properties.
LEMMA InvImplies == AckInv => AckedProposals /\ AckedChanges
<1> SUFFICES ASSUME AckInv PROVE AckedProposals /\ AckedChanges
  OBVIOUS
<1>1. DOMAIN log = 1 .. Len(log)
  BY DEF AckInv, Shapes
<1> QED BY <1>1, RequestsAssumption
  DEF AckInv, AnswersBacked, Counts, AckedProposals, AckedChanges, Committed, Request

\* No step but a success that counts needs a committed entry.
LEMMA OtherAnswers ==
  ASSUME AckInv, NEW r \in Request, NEW res, res # "success",
         call' = Answered(r, res), UNCHANGED log
  PROVE  /\ AnswersBacked' /\ DOMAIN call' = Request
         /\ \A q \in Request : DOMAIN call'[q] = {"at", "fwd", "res"}
BY RequestsAssumption
   DEF AckInv, Shapes, AnswersBacked, Counts, Answered, Reply, Request

\* RaftServer::propose and change_config put the request into the channel.
LEMMA CallInv ==
  ASSUME AckInv, NEW r \in Request, NEW n \in Node, Call(r, n)
  PROVE  AckInv'
BY DEF AckInv, Shapes, NothingBefore, OnlyBossFiles, EntriesFiled, Filed, AnswersBacked,
       Counts, Call, core, raft, bounds

\* change_config gives up; the sender stays filed, the answer is no success.
LEMMA TimeoutInv ==
  ASSUME AckInv, NEW r \in Request, Timeout(r)
  PROVE  AckInv'
<1>1. AnswersBacked' /\ DOMAIN call' = Request
      /\ \A q \in Request : DOMAIN call'[q] = {"at", "fwd", "res"}
  BY OtherAnswers DEF Timeout, raft
<1> QED BY <1>1
  DEF AckInv, Shapes, NothingBefore, OnlyBossFiles, EntriesFiled, Filed, Timeout, core, raft

\* A panic takes the senders with it and ends the one leadership.
LEMMA DieInv ==
  ASSUME AckInv, NEW n \in Node, Die(n)
  PROVE  AckInv'
<1>1. AnswersBacked' /\ DOMAIN call' = Request
      /\ \A q \in Request : DOMAIN call'[q] = {"at", "fwd", "res"}
  BY RequestsAssumption
     DEF AckInv, Shapes, AnswersBacked, Counts, Die, Reply, DropResult, Listening, Request
<1>2. Shapes'
  BY <1>1 DEF AckInv, Shapes, Die, NoSenders, bounds
<1>3. NothingBefore' /\ OnlyBossFiles'
  BY DEF AckInv, Shapes, NothingBefore, OnlyBossFiles, Die, NoSenders, bounds
<1>4. ASSUME NEW e, Filed(e) PROVE Filed(e)'
  <2>1. boss' # NoLeader => boss' = boss /\ boss # n /\ boss \in Node
    BY DEF AckInv, Shapes, Die
  <2>2. boss' # NoLeader => senders'[boss'] = senders[boss] /\ seq' = seq
    BY <2>1 DEF AckInv, Shapes, Die
  <2> QED BY <1>4, <2>1, <2>2 DEF Filed
<1>5. EntriesFiled'
  BY <1>4 DEF AckInv, EntriesFiled, Die
<1> QED BY <1>1, <1>2, <1>3, <1>5 DEF AckInv

\* The early returns of the two handlers answer with no success.
LEMMA DropRequestInv ==
  ASSUME AckInv, NEW n \in Node, NEW r \in Request, DropRequest(n, r)
  PROVE  AckInv'
<1>1. AnswersBacked' /\ DOMAIN call' = Request
      /\ \A q \in Request : DOMAIN call'[q] = {"at", "fwd", "res"}
  <2>1. CASE Listening(r, n)
    BY <2>1, OtherAnswers DEF DropRequest, DropResult, raft
  <2>2. CASE ~Listening(r, n)
    BY <2>2 DEF AckInv, Shapes, AnswersBacked, Counts, DropRequest, raft
  <2> QED BY <2>1, <2>2
<1>2. Shapes'
  BY <1>1 DEF AckInv, Shapes, DropRequest, Taken, core, raft, bounds
<1> QED BY <1>1, <1>2
  DEF AckInv, NothingBefore, OnlyBossFiles, EntriesFiled, Filed, DropRequest, core, raft, bounds

\* A request sent on to the leader is still waiting.
LEMMA RedirectRequestInv ==
  ASSUME AckInv, NEW n \in Node, NEW r \in Request, RedirectRequest(n, r)
  PROVE  AckInv'
<1>1. CASE ~Listening(r, n)
  BY <1>1, DieInv DEF RedirectRequest
<1>2. CASE Listening(r, n)
  <2>1. AnswersBacked' /\ DOMAIN call' = Request
        /\ \A q \in Request : DOMAIN call'[q] = {"at", "fwd", "res"}
    <3>1. CASE up[known[n]]
      <4>1. call' = [call EXCEPT ![r].at = known[n], ![r].fwd = TRUE] /\ UNCHANGED log
        BY <1>2, <3>1 DEF RedirectRequest, raft
      <4>2. call'[r].res = "waiting"
        BY <1>2, <4>1 DEF Listening, AckInv, Shapes
      <4> QED BY <4>1, <4>2 DEF AckInv, Shapes, AnswersBacked, Counts
    <3>2. CASE ~up[known[n]]
      BY <1>2, <3>2, OtherAnswers DEF RedirectRequest, raft
    <3> QED BY <3>1, <3>2
  <2>2. Shapes'
    <3>1. DOMAIN inbox' = Node /\ \A m \in Node : inbox'[m] \subseteq Request
      <4>1. ASSUME NEW m \in Node PROVE inbox'[m] \subseteq inbox[m] \cup {r}
        BY <1>2 DEF RedirectRequest
      <4>2. DOMAIN inbox' = Node
        BY <1>2 DEF RedirectRequest
      <4> QED BY <4>1, <4>2 DEF AckInv, Shapes
    <3> QED BY <1>2, <2>1, <3>1 DEF AckInv, Shapes, RedirectRequest, core, raft, bounds
  <2> QED BY <1>2, <2>1, <2>2
    DEF AckInv, NothingBefore, OnlyBossFiles, EntriesFiled, Filed, RedirectRequest,
        core, raft, bounds
<1> QED BY <1>1, <1>2

\* The leader files the sender under a number no entry has yet.
LEMMA ProposeRequestInv ==
  ASSUME AckInv, NEW n \in Node, NEW r \in Request, ProposeRequest(n, r)
  PROVE  AckInv'
<1>1. n = boss /\ n # NoLeader /\ elections # 0
  BY RequestsAssumption DEF AckInv, Shapes, OnlyBossFiles, NothingBefore, ProposeRequest
<1>2. /\ tail' = Append(tail, [ctx |-> seq[n], req |-> r])
      /\ senders' = [senders EXCEPT ![n] = Put(senders[n], seq[n], r)]
      /\ seq' = [seq EXCEPT ![n] = seq[n] + 1]
      /\ UNCHANGED <<up, leads, applied, call, boss, log, elections>>
  BY <1>1 DEF ProposeRequest, File, bounds
<1>3. senders'[n] = Put(senders[n], seq[n], r) /\ seq'[n] = seq[n] + 1 /\ seq[n] \in Nat
  BY <1>2 DEF AckInv, Shapes
<1>4. [ctx |-> seq[n], req |-> r] \in Entry
  BY <1>3 DEF Entry
<1>5. tail' \in Seq(Entry)
  BY <1>2, <1>4 DEF AckInv, Shapes
<1>6. Shapes'
  <2>1. DOMAIN inbox' = Node /\ \A m \in Node : inbox'[m] \subseteq Request
    BY DEF ProposeRequest, File, Taken, AckInv, Shapes
  <2>2. \A m \in Node : \A k \in DOMAIN senders'[m] : senders'[m][k] \in Request
    BY <1>2, <1>3 DEF Put, AckInv, Shapes
  <2>3. DOMAIN senders' = Node /\ seq' \in [Node -> Nat]
    BY <1>2, <1>3 DEF AckInv, Shapes
  <2> QED BY <1>2, <1>5, <2>1, <2>2, <2>3 DEF AckInv, Shapes
<1>7. OnlyBossFiles'
  BY <1>1, <1>2 DEF AckInv, Shapes, OnlyBossFiles
<1>8. ASSUME NEW e \in Entry, Filed(e) PROVE Filed(e)'
  <2>1. e.ctx \in Nat /\ e.ctx < seq[n]
    BY <1>1, <1>8 DEF Filed, Entry
  <2> QED BY <1>1, <1>2, <1>3, <1>8, <2>1 DEF Filed, Put
<1>10. EntriesFiled'
  <2>1. ASSUME NEW i \in 1 .. Len(log') PROVE Filed(log[i])'
    <3>1. PICK e \in Entry : e = log'[i] /\ Filed(e)
      BY <1>2, <2>1 DEF AckInv, Shapes, EntriesFiled
    <3> QED BY <1>8, <3>1 DEF Filed
  <2>2. ASSUME NEW i \in 1 .. Len(tail') PROVE Filed(tail[i])'
    <3>1. CASE i \in 1 .. Len(tail)
      <4>1. tail'[i] = tail[i] /\ tail[i] \in Entry
        BY <1>2, <3>1 DEF AckInv, Shapes
      <4>2. PICK e \in Entry : e = tail'[i] /\ Filed(e)
        BY <3>1, <4>1 DEF AckInv, EntriesFiled
      <4> QED BY <1>8, <4>2 DEF Filed
    <3>2. CASE i = Len(tail) + 1
      <4>1. tail'[i] = [ctx |-> seq[n], req |-> r]
        BY <1>2, <3>2 DEF AckInv, Shapes
      <4> QED BY <1>1, <1>2, <1>3, <4>1 DEF Filed, Put
    <3> QED BY <1>2, <2>2, <3>1, <3>2 DEF AckInv, Shapes
  <2> QED BY <2>1, <2>2 DEF EntriesFiled
<1>11. NothingBefore' /\ AnswersBacked'
  BY <1>1, <1>2 DEF AckInv, NothingBefore, AnswersBacked, Counts
<1> QED BY <1>6, <1>7, <1>10, <1>11 DEF AckInv

\* The entry finds the sender of its own request.
LEMMA ApplyInv ==
  ASSUME AckInv, NEW n \in Node, Apply(n)
  PROVE  AckInv'
<1> DEFINE e == log[applied[n] + 1]
           r == senders[n][e.ctx]
<1>1. applied[n] + 1 \in 1 .. Len(log) /\ e \in Entry
  BY DEF Apply, AckInv, Shapes
<1>2. CASE e.ctx \notin DOMAIN senders[n]
  <2>1. /\ applied' = [applied EXCEPT ![n] = @ + 1]
        /\ UNCHANGED <<up, leads, known, pconf, seq, senders, inbox, call, raft, bounds>>
    BY <1>2 DEF Apply
  <2> QED BY <2>1
    DEF AckInv, Shapes, NothingBefore, OnlyBossFiles, EntriesFiled, Filed, AnswersBacked,
        Counts, raft, bounds
<1>3. CASE e.ctx \in DOMAIN senders[n] /\ ~Listening(r, n)
  BY <1>3, DieInv DEF Apply
<1>4. CASE e.ctx \in DOMAIN senders[n] /\ Listening(r, n)
  <2>1. /\ applied' = [applied EXCEPT ![n] = @ + 1]
        /\ senders' = [senders EXCEPT ![n] = Restrict(@, DOMAIN @ \ {e.ctx})]
        /\ call' = Answered(r, Outcome(r, e))
        /\ UNCHANGED <<up, leads, known, pconf, seq, inbox, raft, bounds>>
    BY <1>4 DEF Apply
  <2>2. n = boss /\ boss # NoLeader
    BY <1>4, RequestsAssumption DEF AckInv, OnlyBossFiles
  <2>3. r = e.req /\ r \in Request
    BY <1>1, <1>4, <2>2 DEF AckInv, Shapes, EntriesFiled, Filed
  <2>4. senders'[n] = Restrict(senders[n], DOMAIN senders[n] \ {e.ctx})
    BY <2>1 DEF AckInv, Shapes
  <2>5. AnswersBacked' /\ DOMAIN call' = Request
        /\ \A q \in Request : DOMAIN call'[q] = {"at", "fwd", "res"}
    BY <1>1, <2>1, <2>3, RequestsAssumption
       DEF AckInv, Shapes, AnswersBacked, Counts, Answered, Reply, Request, raft
  <2>6. Shapes'
    <3>1. \A m \in Node : \A k \in DOMAIN senders'[m] :
            k \in DOMAIN senders[m] /\ senders'[m][k] = senders[m][k]
      BY <2>1, <2>4 DEF AckInv, Shapes, Restrict
    <3>2. DOMAIN senders' = Node /\ applied' \in [Node -> Nat]
      BY <2>1 DEF AckInv, Shapes
    <3>3. \A m \in Node : \A k \in DOMAIN senders'[m] : senders'[m][k] \in Request
      BY <3>1 DEF AckInv, Shapes
    <3> QED BY <2>1, <2>5, <3>2, <3>3 DEF AckInv, Shapes, raft, bounds
  <2>7. OnlyBossFiles' /\ NothingBefore'
    BY <2>1, <2>2, <2>4
       DEF AckInv, Shapes, OnlyBossFiles, NothingBefore, Restrict, raft, bounds
  <2>8. ASSUME NEW f, Filed(f) PROVE Filed(f)'
    BY <2>1, <2>2, <2>4, <2>8 DEF Filed, Restrict, raft
  <2>9. EntriesFiled'
    BY <2>1, <2>8 DEF AckInv, EntriesFiled, raft
  <2> QED BY <2>5, <2>6, <2>7, <2>9 DEF AckInv
<1> QED BY <1>2, <1>3, <1>4

LEMMA CommitInv ==
  ASSUME AckInv, Commit
  PROVE  AckInv'
<1>1. /\ log' = Append(log, Head(tail)) /\ tail' = Tail(tail) /\ tail # <<>>
      /\ UNCHANGED <<up, leads, seq, senders, applied, inbox, call, boss, elections>>
  BY DEF Commit, core, bounds
<1>2. Len(tail) > 0 /\ Head(tail) = tail[1] /\ tail[1] \in Entry
  BY <1>1 DEF AckInv, Shapes
<1>3. log' \in Seq(Entry) /\ tail' \in Seq(Entry)
  BY <1>1, <1>2 DEF AckInv, Shapes
<1>4. Shapes'
  BY <1>1, <1>3 DEF AckInv, Shapes
<1>5. ASSUME NEW e, Filed(e) PROVE Filed(e)'
  BY <1>1, <1>5 DEF Filed
<1>6. EntriesFiled'
  <2>1. ASSUME NEW i \in 1 .. Len(log') PROVE Filed(log[i])'
    <3>1. log'[i] = IF i <= Len(log) THEN log[i] ELSE tail[1]
      BY <1>1, <1>2 DEF AckInv, Shapes
    <3>2. i \in 1 .. Len(log) \/ i = Len(log) + 1
      BY <1>1 DEF AckInv, Shapes
    <3>3. PICK e : e = log'[i] /\ Filed(e)
      BY <1>2, <3>1, <3>2 DEF AckInv, Shapes, EntriesFiled
    <3> QED BY <1>5, <3>3 DEF Filed
  <2>2. ASSUME NEW i \in 1 .. Len(tail') PROVE Filed(tail[i])'
    <3>1. tail'[i] = tail[i + 1] /\ i + 1 \in 1 .. Len(tail)
      BY <1>1, <1>2 DEF AckInv, Shapes
    <3>2. PICK e : e = tail'[i] /\ Filed(e)
      BY <3>1 DEF AckInv, EntriesFiled
    <3> QED BY <1>5, <3>2 DEF Filed
  <2> QED BY <2>1, <2>2 DEF EntriesFiled
<1>7. AnswersBacked'
  <2>1. ASSUME NEW i \in 1 .. Len(log) PROVE i \in 1 .. Len(log') /\ log'[i] = log[i]
    BY <1>1, <1>2 DEF AckInv, Shapes
  <2> QED BY <1>1, <2>1 DEF AckInv, AnswersBacked, Counts
<1>8. elections # 0
  BY <1>1 DEF AckInv, NothingBefore
<1> QED BY <1>1, <1>4, <1>6, <1>7, <1>8 DEF AckInv, NothingBefore, OnlyBossFiles

\* The only election finds nothing proposed.
LEMMA ElectInv ==
  ASSUME elections' <= 1, AckInv, NEW n \in Node, Elect(n)
  PROVE  AckInv'
<1>1. elections = 0 /\ elections' = 1 /\ boss' = n
  BY RequestsAssumption DEF Elect, AckInv, Shapes
<1>2. log = <<>> /\ tail = <<>> /\ (\A m \in Node : ~leads[m] /\ DOMAIN senders[m] = {})
  BY <1>1 DEF AckInv, NothingBefore
<1>3. PICK k \in 0 .. Len(tail) : tail' = SubSeq(tail, 1, k)
  BY DEF Elect
<1>4. k = 0 /\ tail' = <<>>
  BY <1>2, <1>3
<1>5. leads' = [leads EXCEPT ![n] = TRUE]
      /\ UNCHANGED <<up, seq, senders, applied, inbox, call, log>>
  BY DEF Elect
<1>6. Shapes'
  BY <1>1, <1>4, <1>5, RequestsAssumption DEF AckInv, Shapes, Elect
<1>7. EntriesFiled'
  BY <1>2, <1>4, <1>5 DEF EntriesFiled
<1>8. OnlyBossFiles' /\ NothingBefore' /\ AnswersBacked'
  BY <1>1, <1>2, <1>5
     DEF AckInv, Shapes, OnlyBossFiles, NothingBefore, AnswersBacked, Counts
<1> QED BY <1>6, <1>7, <1>8 DEF AckInv

LEMMA LearnInv ==
  ASSUME AckInv, NEW n \in Node, Learn(n)
  PROVE  AckInv'
BY DEF AckInv, Shapes, NothingBefore, OnlyBossFiles, EntriesFiled, Filed, AnswersBacked,
       Counts, Learn, raft, bounds

LEMMA RestartInv ==
  ASSUME AckInv, NEW n \in Node, Restart(n)
  PROVE  AckInv'
<1>1. AnswersBacked' /\ DOMAIN call' = Request
      /\ \A q \in Request : DOMAIN call'[q] = {"at", "fwd", "res"}
  BY DEF AckInv, Shapes, AnswersBacked, Counts, Restart
<1>2. Shapes'
  BY <1>1 DEF AckInv, Shapes, Restart, NoSenders
<1>3. NothingBefore' /\ OnlyBossFiles'
  BY DEF AckInv, Shapes, NothingBefore, OnlyBossFiles, Restart, NoSenders
<1>4. ASSUME NEW e, Filed(e) PROVE Filed(e)'
  <2>1. boss' # NoLeader => boss' = boss /\ boss # n /\ boss \in Node
    BY DEF AckInv, Shapes, Restart
  <2>2. boss' # NoLeader => senders'[boss'] = senders[boss] /\ seq'[boss'] = seq[boss]
    BY <2>1 DEF AckInv, Shapes, Restart
  <2> QED BY <1>4, <2>1, <2>2 DEF Filed
<1>5. EntriesFiled'
  BY <1>4 DEF AckInv, EntriesFiled, Restart
<1> QED BY <1>1, <1>2, <1>3, <1>5 DEF AckInv

\* Every step up to the second election keeps the invariant.
LEMMA NextInv ==
  ASSUME elections' <= 1
  PROVE  AckInv /\ [Next]_vars => AckInv'
<1> SUFFICES ASSUME AckInv, [Next]_vars PROVE AckInv'
  OBVIOUS
<1>1. CASE UNCHANGED vars
  BY <1>1 DEF vars, AckInv, Shapes, NothingBefore, OnlyBossFiles, EntriesFiled, Filed,
              AnswersBacked, Counts
<1>2. CASE \E r \in Request, n \in Node : Call(r, n) \/ Handle(n, r)
  BY <1>2, CallInv, DropRequestInv, RedirectRequestInv, ProposeRequestInv DEF Handle
<1>3. CASE \E r \in Request : Timeout(r)
  BY <1>3, TimeoutInv
<1>4. CASE \E n \in Node : Apply(n) \/ Elect(n) \/ Learn(n) \/ Restart(n)
  BY <1>4, ApplyInv, ElectInv, LearnInv, RestartInv
<1>5. CASE Commit
  BY <1>5, CommitInv
<1> QED BY <1>1, <1>2, <1>3, <1>4, <1>5 DEF Next

\* The invariant of all behaviours: AckInv until there is a second election.
OneElectionInv == elections \in Nat /\ (elections <= 1 => AckInv)

LEMMA OneElectionInvHolds == Spec => []OneElectionInv
<1>1. Init => OneElectionInv
  BY InitInv DEF Init, OneElectionInv
<1>2. OneElectionInv /\ [Next]_vars => OneElectionInv'
  <2> SUFFICES ASSUME OneElectionInv, [Next]_vars PROVE OneElectionInv'
    OBVIOUS
  <2>1. elections' = elections \/ elections' = elections + 1
    <3>1. ASSUME NEW r \in Request, NEW n \in Node, Call(r, n) \/ Handle(n, r)
          PROVE  elections' = elections
      BY <3>1 DEF bounds, Call, Handle, DropRequest, RedirectRequest, Die, ProposeRequest, File
    <3>2. ASSUME NEW n \in Node, Apply(n) PROVE elections' = elections
      BY <3>2 DEF Apply, Die, bounds
    <3>3. ASSUME NEW n \in Node, Elect(n) PROVE elections' = elections + 1
      BY <3>3 DEF Elect
    <3>4. ASSUME NEW n \in Node, Learn(n) \/ Restart(n) PROVE elections' = elections
      BY <3>4 DEF Learn, Restart, bounds
    <3>5. CASE Commit \/ (\E r \in Request : Timeout(r)) \/ UNCHANGED vars
      BY <3>5 DEF Commit, Timeout, bounds, vars
    <3> QED BY <3>1, <3>2, <3>3, <3>4, <3>5 DEF Next
  <2>2. elections' \in Nat /\ elections <= elections'
    BY <2>1 DEF OneElectionInv
  <2>3. elections' <= 1 => AckInv /\ AckInv'
    BY <2>2, NextInv DEF OneElectionInv
  <2> QED BY <2>2, <2>3 DEF OneElectionInv
<1> QED BY <1>1, <1>2, PTL DEF Spec

\* Until there is a second election, a propose call is answered with success
\* (handle_committed_normal_entry, at the leader or through a server that
\* forwarded it) only for a command in the committed log.
THEOREM OneLeaderAnswersTruly == Spec => [](elections <= 1 => AckedProposals)
<1>1. OneElectionInv => (elections <= 1 => AckedProposals)
  BY InvImplies DEF OneElectionInv
<1> QED BY <1>1, OneElectionInvHolds, PTL

\* Until there is a second election, a change_config call is answered with
\* ChangeConfigSuccess by the leader's own server only for a change in the
\* committed log.
THEOREM OneLeaderChangesTruly == Spec => [](elections <= 1 => AckedChanges)
<1>1. OneElectionInv => (elections <= 1 => AckedChanges)
  BY InvImplies DEF OneElectionInv
<1> QED BY <1>1, OneElectionInvHolds, PTL
=============================================================================
