-------------------------- MODULE EventLoopProofs --------------------------
(***************************************************************************)
(* Two safety properties of EventLoop for any number of callers, gRPC      *)
(* handlers, send tasks and peers, and channels of any capacity: when the  *)
(* loop is gone nobody waits for its answer, and it panics only for one of *)
(* four causes.   The invariant says that the oneshot sender of everyone   *)
(* who waits is in one of three places, and who may touch the peers map.   *)
(***************************************************************************)
EXTENDS EventLoop, TLAPS

States ==
  {"idle", "sending", "waiting", "redirected", "returned", "gone"}
KindsOfCall == LocalRequestMsg \cup ServerRequestMsg \cup {"none"}

Requests == {"local", "server"}

CallShapes ==
  /\ pc \in {"top", "ready", "lock", "connect", "join", "own", "conf", "mixed", "answer",
            "ended", "panicked"}
  /\ cur \in Callers \cup {NoCaller}
  /\ call \in [Callers -> [st : States, kind : KindsOfCall]]
  /\ DOMAIN chan = Channels
  /\ filed \subseteq Callers

TaskShapes ==
  /\ DOMAIN task = Tasks
  /\ \A t \in Tasks : DOMAIN task[t] = {"st", "to"}
                      /\ (task[t].st # "idle" => task[t].to \in Ids)
  /\ DOMAIN peers = Ids
  /\ mutex \in Seq(Tasks \cup {Loop})

\* The call needs its oneshot sender: the receiver is there, or it left.
Pending(c) == call[c].st \in {"waiting", "gone"}

\* A request in a channel: it has a sender, or nobody waits for its answer.
OnItsWay(c) == Pending(c) \/ (OneWay(c) /\ call[c].st = "returned")

\* A request is in its channel once, and then nowhere else.
QueueOK(ch) ==
  /\ chan[ch] \in Seq(Callers)
  /\ \A i \in 1 .. Len(chan[ch]) :
       LET c == chan[ch][i]
       IN  ChanOf(c) = ch /\ OnItsWay(c) /\ c \notin filed /\ c # cur
  /\ \A i, j \in 1 .. Len(chan[ch]) : chan[ch][i] = chan[ch][j] => i = j

Senders ==
  /\ \A ch \in Requests : QueueOK(ch)
  /\ \A c \in filed : Pending(c)
  /\ cur # NoCaller => Pending(cur)
  /\ pc \in {"lock", "connect", "join", "own", "answer"} => cur # NoCaller
  /\ pc \in {"top", "ready", "ended", "panicked"} => cur = NoCaller

\* No sender is lost: the node has that of every call that needs it, also of one
\* whose receiver left, and the loop that has ended has none.
SendersKept == \A c \in Callers : Pending(c) => HasSender(c) /\ ~OneWay(c)
StoppedIsEmpty == Stopped => filed = {} /\ \A ch \in Requests : chan[ch] = <<>>

\* Whoever connects holds the mutex, and a task connects to a peer that is in
\* the map.
LoopConnects == pc = "connect" => Holds(Loop)
TasksConnect ==
  \A t \in Tasks : task[t].st = "connect" => Holds(t) /\ peers[task[t].to] # "none"

LoopInv ==
  /\ CallShapes /\ Senders /\ SendersKept /\ StoppedIsEmpty
  /\ TaskShapes /\ TasksConnect /\ LoopConnects

-----------------------------------------------------------------------------
(* Lemmas about parts of a step *)

\* What is left in the channels when the loop has taken c, or c was elsewhere.
RemainsWithout(c) ==
  /\ \A ch \in Requests :
       /\ chan'[ch] \in Seq(Callers)
       /\ \A i \in 1 .. Len(chan'[ch]) :
            /\ chan'[ch][i] # c
            /\ \E j \in 1 .. Len(chan[ch]) : chan'[ch][i] = chan[ch][j]
       /\ \A i, j \in 1 .. Len(chan'[ch]) : chan'[ch][i] = chan'[ch][j] => i = j
  /\ \A d \in Callers \ {c} : InChannel(d) => InChannel(d)'

LEMMA TakenFromQueue ==
  ASSUME LoopInv, NEW ch \in Requests, chan[ch] # <<>>,
         chan' = [chan EXCEPT ![ch] = Tail(@)]
  PROVE  /\ RemainsWithout(Head(chan[ch])) /\ DOMAIN chan' = Channels
         /\ Head(chan[ch]) \in Callers /\ OnItsWay(Head(chan[ch]))
         /\ Head(chan[ch]) \notin filed /\ Head(chan[ch]) # cur
<1>1. PICK q \in Seq(Callers) : q = chan[ch]
  BY DEF LoopInv, Senders, QueueOK
<1>2. /\ Len(q) \in Nat /\ Len(q) >= 1 /\ Head(q) = q[1]
      /\ Tail(q) \in Seq(Callers) /\ Len(Tail(q)) = Len(q) - 1
      /\ \A i \in 1 .. Len(Tail(q)) : Tail(q)[i] = q[i + 1]
  BY <1>1
<1>3. /\ \A i \in 1 .. Len(q) : /\ q[i] \in Callers /\ ChanOf(q[i]) = ch /\ OnItsWay(q[i])
                                /\ q[i] \notin filed /\ q[i] # cur
      /\ \A i, j \in 1 .. Len(q) : q[i] = q[j] => i = j
  BY <1>1, <1>2 DEF LoopInv, Senders, QueueOK
<1>4. chan'[ch] = Tail(q) /\ DOMAIN chan' = Channels
      /\ \A x \in Requests \ {ch} : chan'[x] = chan[x]
  BY <1>1 DEF LoopInv, CallShapes, Requests, Channels
<1>5. \A i \in 1 .. Len(Tail(q)) : i + 1 \in 2 .. Len(q)
  BY <1>2
<1>6. ASSUME NEW i \in 1 .. Len(Tail(q))
      PROVE  Tail(q)[i] # q[1] /\ \E j \in 1 .. Len(q) : Tail(q)[i] = q[j]
  <2>1. i + 1 \in 1 .. Len(q) /\ 1 \in 1 .. Len(q) /\ i + 1 # 1 /\ Tail(q)[i] = q[i + 1]
    BY <1>2, <1>5
  <2> QED BY <1>3, <2>1
<1>7. ASSUME NEW i \in 1 .. Len(Tail(q)), NEW j \in 1 .. Len(Tail(q)), Tail(q)[i] = Tail(q)[j]
      PROVE  i = j
  <2>1. i + 1 \in 1 .. Len(q) /\ j + 1 \in 1 .. Len(q) /\ q[i + 1] = q[j + 1]
    BY <1>2, <1>5, <1>7
  <2>2. i + 1 = j + 1
    BY <1>3, <2>1
  <2> QED BY <2>2
<1>8. ASSUME NEW x \in Requests \ {ch}
      PROVE  QueueOK(x) /\ \A i \in 1 .. Len(chan[x]) : chan[x][i] # q[1]
  <2>1. QueueOK(x) /\ 1 \in 1 .. Len(q)
    BY <1>2 DEF LoopInv, Senders
  <2> QED BY <1>3, <2>1 DEF QueueOK
<1>9. q[1] \in Callers /\ OnItsWay(q[1]) /\ q[1] \notin filed /\ q[1] # cur
  BY <1>2, <1>3
<1>10. RemainsWithout(q[1])
  <2>1. ASSUME NEW x \in Requests
        PROVE  /\ chan'[x] \in Seq(Callers)
               /\ \A i \in 1 .. Len(chan'[x]) :
                    chan'[x][i] # q[1] /\ \E j \in 1 .. Len(chan[x]) : chan'[x][i] = chan[x][j]
               /\ \A i, j \in 1 .. Len(chan'[x]) : chan'[x][i] = chan'[x][j] => i = j
    <3>1. CASE x = ch
      <4>1. chan'[x] = Tail(q) /\ chan[x] = q
        BY <1>1, <1>4, <3>1
      <4> QED BY <1>2, <1>6, <1>7, <4>1
    <3>2. CASE x # ch
      BY <1>4, <1>8, <3>2 DEF QueueOK
    <3> QED BY <3>1, <3>2
  <2>2. ASSUME NEW d \in Callers \ {q[1]}, InChannel(d) PROVE InChannel(d)'
    <3>1. CASE ChanOf(d) = ch
      <4>1. PICK i \in 1 .. Len(q) : q[i] = d
        BY <1>1, <2>2, <3>1 DEF InChannel
      <4>2. i # 1 /\ i \in Nat /\ i <= Len(q)
        BY <1>2, <2>2, <4>1
      <4>3. i - 1 \in 1 .. Len(Tail(q)) /\ Tail(q)[i - 1] = q[i]
        BY <1>2, <4>2
      <4>4. \E j \in 1 .. Len(chan'[ch]) : chan'[ch][j] = d
        BY <1>4, <4>1, <4>3
      <4> QED BY <3>1, <4>4 DEF InChannel, ChanOf
    <3>2. CASE ChanOf(d) # ch
      BY <1>4, <2>2, <3>2 DEF InChannel, ChanOf, Requests
    <3> QED BY <3>1, <3>2
  <2> QED BY <2>1, <2>2 DEF RemainsWithout
<1> QED BY <1>1, <1>2, <1>4, <1>9, <1>10

LEMMA NotQueued ==
  ASSUME LoopInv, NEW c, c \in filed \/ c = cur \/ c \notin Callers,
         \A ch \in Requests : chan'[ch] = chan[ch]
  PROVE  RemainsWithout(c)
<1>2. ASSUME NEW ch \in Requests, NEW i \in 1 .. Len(chan[ch]) PROVE chan[ch][i] # c
  BY <1>2 DEF LoopInv, Senders, QueueOK
<1>3. ASSUME NEW d \in Callers, InChannel(d) PROVE InChannel(d)'
  BY <1>3 DEF InChannel, ChanOf, Requests
<1> QED BY <1>2, <1>3 DEF LoopInv, Senders, QueueOK, RemainsWithout

\* The step is about c only, which is in no channel after it.
LEMMA QueuesKept ==
  ASSUME LoopInv, NEW c, RemainsWithout(c),
         \A d \in Callers \ {c} : call'[d] = call[d],
         filed' \subseteq filed \cup {c}, cur' \in {cur, c, NoCaller}
  PROVE  \A ch \in Requests : QueueOK(ch)'
<1> SUFFICES ASSUME NEW ch \in Requests PROVE QueueOK(ch)'
  OBVIOUS
<1>1. ASSUME NEW i \in 1 .. Len(chan'[ch])
      PROVE  \E d \in Callers : /\ d = chan'[ch][i] /\ ChanOf(d) = ch /\ OnItsWay(d)'
                                /\ d \notin filed' /\ d # cur'
  <2>1. PICK j \in 1 .. Len(chan[ch]) : chan'[ch][i] = chan[ch][j] /\ chan[ch][j] # c
    BY DEF RemainsWithout
  <2>2. PICK d \in Callers : d = chan[ch][j]
    BY DEF LoopInv, Senders, QueueOK
  <2>3. /\ d # c /\ ChanOf(d) = ch /\ OnItsWay(d)
        /\ d \notin filed /\ d # cur /\ d # NoCaller
    BY <2>1, <2>2, EventLoopAssumption DEF LoopInv, Senders, QueueOK, Callers
  <2>4. call'[d] = call[d]
    BY <2>3
  <2>5. OnItsWay(d)'
    BY <2>3, <2>4 DEF OnItsWay, Pending, OneWay
  <2> QED BY <2>1, <2>2, <2>3, <2>5
<1> QED BY <1>1 DEF QueueOK, RemainsWithout, ChanOf

\* The step is about c only, and keeps its sender if it is still needed.
LEMMA SendersStay ==
  ASSUME LoopInv, NEW c, RemainsWithout(c),
         \A d \in Callers \ {c} : call'[d] = call[d],
         filed \ {c} \subseteq filed', cur \in {NoCaller, c},
         c \in Callers /\ Pending(c)' => call'[c] = call[c] /\ (c \in filed' \/ c = cur')
  PROVE  SendersKept'
<1> SUFFICES ASSUME NEW d \in Callers, Pending(d)' PROVE (HasSender(d) /\ ~OneWay(d))'
  BY DEF SendersKept
<1>1. CASE d = c
  BY <1>1 DEF LoopInv, SendersKept, Pending, HasSender, OneWay
<1>2. CASE d # c
  <2>1. call'[d] = call[d] /\ HasSender(d) /\ ~OneWay(d)
    BY <1>2 DEF LoopInv, SendersKept, Pending
  <2>2. d # cur
    BY <1>2, EventLoopAssumption DEF Callers
  <2>3. InChannel(d)' \/ d \in filed'
    BY <1>2, <2>1, <2>2 DEF HasSender, RemainsWithout
  <2> QED BY <2>1, <2>3 DEF HasSender, OneWay
<1> QED BY <1>1, <1>2

\* What a step of the loop may do to the send tasks: start some.
TasksKept ==
  /\ DOMAIN task' = Tasks
  /\ \A t \in Tasks : \/ task'[t] = task[t]
                      \/ \E to \in Ids : task'[t] = [st |-> "new", to |-> to]

\* What a step of the loop may do to the mutex and to the peers map.
LocksKept ==
  \/ UNCHANGED <<peers, mutex>>
  \/ UNCHANGED peers /\ mutex' = Append(mutex, Loop)
  \/ /\ Holds(Loop) /\ mutex' \in {mutex, Tail(mutex), Append(Tail(mutex), Loop)}
     /\ DOMAIN peers' = Ids

LEMMA TasksStay ==
  ASSUME LoopInv, TasksKept, LocksKept
  PROVE  TaskShapes' /\ TasksConnect'
<1>1. TaskShapes /\ TasksConnect /\ Loop \notin Tasks
  BY EventLoopAssumption DEF LoopInv
<1>2. mutex' \in Seq(Tasks \cup {Loop}) /\ DOMAIN peers' = Ids
  BY <1>1 DEF LocksKept, TaskShapes, Holds
<1>3. ASSUME NEW t \in Tasks
      PROVE  DOMAIN task'[t] = {"st", "to"} /\ (task'[t].st # "idle" => task'[t].to \in Ids)
  BY <1>1 DEF TaskShapes, TasksKept
<1>4. ASSUME NEW t \in Tasks, task'[t].st = "connect"
      PROVE  Holds(t)' /\ peers'[task'[t].to] # "none"
  <2>1. task'[t] = task[t] /\ Holds(t) /\ peers[task[t].to] # "none"
    BY <1>1, <1>4 DEF TasksKept, TasksConnect
  <2>2. ~Holds(Loop)
    BY <1>1, <2>1 DEF Holds
  <2>3. peers' = peers /\ (mutex' = mutex \/ mutex' = Append(mutex, Loop))
    BY <2>2 DEF LocksKept
  <2>4. Holds(t)'
    BY <1>1, <2>1, <2>3 DEF Holds, TaskShapes
  <2> QED BY <2>1, <2>3, <2>4
<1> QED BY <1>2, <1>3, <1>4 DEF TaskShapes, TasksConnect, TasksKept

\* The loop ends: nothing that it had a sender of waits any more, and it had
\* that of everyone who waited.
LEMMA LoopStopsInv ==
  ASSUME LoopInv, NEW how \in {"ended", "panicked"}, LoopStops(how), TasksKept,
         UNCHANGED peers \/ (Holds(Loop) /\ DOMAIN peers' = Ids)
  PROVE  LoopInv'
<1>1. TaskShapes' /\ TasksConnect'
  <2>1. LocksKept
    BY DEF LoopInv, TaskShapes, LoopStops, LocksKept
  <2> QED BY <2>1, TasksStay
<1>2. CallShapes'
  BY DEF LoopInv, CallShapes, LoopStops, States, KindsOfCall, Returned
<1>3. Senders' /\ StoppedIsEmpty'
  BY DEF Senders, StoppedIsEmpty, QueueOK, LoopStops, Channels, Requests
<1>4. SendersKept'
  <2>1. ASSUME NEW c \in Callers PROVE ~Pending(c)'
    BY <2>1 DEF LoopInv, SendersKept, LoopStops, Pending, Returned
  <2> QED BY <2>1 DEF SendersKept
<1>5. LoopConnects'
  BY DEF LoopConnects, LoopStops
<1> QED BY <1>1, <1>2, <1>3, <1>4, <1>5 DEF LoopInv

\* The loop goes on: a step about the caller c.
LEMMA LoopGoesOn ==
  ASSUME LoopInv, NEW c, RemainsWithout(c), DOMAIN chan' = Channels,
         call' \in [Callers -> [st : States, kind : KindsOfCall]],
         \A d \in Callers \ {c} : call'[d] = call[d],
         filed' \subseteq filed \cup {c}, filed \ {c} \subseteq filed',
         cur \in {NoCaller, c}, cur' \in {c, NoCaller},
         c \in filed' \/ c = cur' => c = NoCaller \/ (c \in Callers /\ Pending(c)'),
         c \in Callers /\ Pending(c)' => call'[c] = call[c] /\ (c \in filed' \/ c = cur'),
         NoCaller \notin filed',
         pc' \in {"top", "ready", "lock", "connect", "join", "own", "conf", "mixed", "answer"},
         pc' \in {"lock", "connect", "join", "own", "answer"} => cur' # NoCaller,
         pc' \in {"top", "ready"} => cur' = NoCaller,
         TasksKept, LocksKept, LoopConnects'
  PROVE  LoopInv'
<1>1. CallShapes' /\ StoppedIsEmpty'
  BY DEF LoopInv, CallShapes, StoppedIsEmpty, Stopped
<1>2. \A ch \in Requests : QueueOK(ch)'
  BY QueuesKept
<1>3. \A d \in filed' : Pending(d)'
  <2> SUFFICES ASSUME NEW d \in filed', d # c PROVE Pending(d)'
    OBVIOUS
  <2>1. d \in Callers /\ Pending(d) /\ call'[d] = call[d]
    BY DEF LoopInv, CallShapes, Senders
  <2> QED BY <2>1 DEF Pending
<1>4. cur' # NoCaller => Pending(cur)'
  BY DEF Pending
<1>5. TaskShapes' /\ TasksConnect'
  BY TasksStay
<1>6. SendersKept'
  BY SendersStay
<1> QED BY <1>1, <1>2, <1>3, <1>4, <1>5, <1>6 DEF LoopInv, Senders

\* A request that is answered: its caller waited, or it had left.
LEMMA AnswerShape ==
  ASSUME LoopInv, NEW c \in Callers, NEW r, NEW next, Answer(c, r, next),
         r \in {Returned, Redirected}
  PROVE  /\ call' \in [Callers -> [st : States, kind : KindsOfCall]]
         /\ \A d \in Callers \ {c} : call'[d] = call[d]
         /\ ~Pending(c)'
         /\ filed' \subseteq filed \cup {c} /\ c \notin filed' /\ filed \ {c} \subseteq filed'
         /\ c # NoCaller /\ NoCaller \notin filed'
<1>1. r \in [st : States, kind : KindsOfCall] /\ r.st \notin {"waiting", "gone"}
  BY DEF Returned, Redirected, States, KindsOfCall
<1>2. call' = [call EXCEPT ![c] = r] /\ filed' = filed \ {c} /\ call'[c] = r
  BY DEF Answer, LoopInv, CallShapes
<1> QED BY <1>1, <1>2, EventLoopAssumption DEF LoopInv, CallShapes, Callers, Pending

LEMMA AnswerInv ==
  ASSUME LoopInv, NEW c \in Callers, NEW r, NEW next \in {"top", "ready"}, Answer(c, r, next),
         r \in {Returned, Redirected}, cur \in {NoCaller, c},
         RemainsWithout(c), DOMAIN chan' = Channels, TasksKept, LocksKept
  PROVE  LoopInv'
<1>1. LoopConnects' /\ pc' = next /\ cur' = NoCaller
  BY DEF LoopConnects, Answer
<1> QED BY <1>1, AnswerShape, LoopGoesOn

\* The loop goes on, and works for c there or for nobody.
LEMMA GoToInv ==
  ASSUME LoopInv, NEW c \in Callers \cup {NoCaller}, NEW gone, NEW where,
         GoTo(where, c), c # NoCaller => c = gone /\ Pending(c),
         RemainsWithout(gone), DOMAIN chan' = Channels,
         where \in {"top", "ready", "lock", "connect", "join", "conf", "mixed", "answer"},
         where \in {"lock", "connect", "join", "answer"} => c # NoCaller,
         where \in {"top", "ready"} => c = NoCaller,
         where = "connect" => Holds(Loop)',
         gone \notin filed \/ Pending(gone), gone # NoCaller => gone \in Callers,
         cur \in {NoCaller, gone}, Pending(gone) => gone \in filed \/ gone = c \/ gone \notin Callers,
         TasksKept, LocksKept
  PROVE  LoopInv'
<1>1. pc' = where /\ cur' = c /\ call' = call /\ filed' = filed
  BY DEF GoTo
<1>2. call' \in [Callers -> [st : States, kind : KindsOfCall]] /\ NoCaller \notin filed'
  BY <1>1, EventLoopAssumption DEF LoopInv, CallShapes, Callers
<1>3. LoopConnects'
  BY <1>1 DEF LoopConnects
<1>4. /\ gone \in filed' \/ gone = cur' => gone = NoCaller \/ (gone \in Callers /\ Pending(gone)')
      /\ gone \in Callers /\ Pending(gone)' => gone \in filed' \/ gone = cur'
  BY <1>1 DEF Pending
<1> QED BY <1>1, <1>2, <1>3, <1>4, LoopGoesOn

LEMMA ReturnedShape == Returned \in [st : States, kind : KindsOfCall]
BY DEF Returned, States, KindsOfCall

\* The caller that the loop works for.
LEMMA CurrentCaller ==
  ASSUME LoopInv, cur # NoCaller
  PROVE  \E c \in Callers : c = cur /\ Pending(c)
BY DEF LoopInv, CallShapes, Senders

LEMMA TasksUnchanged ==
  ASSUME LoopInv, UNCHANGED task
  PROVE  TasksKept
BY DEF LoopInv, TaskShapes, TasksKept

LEMMA ChanUnchanged ==
  ASSUME LoopInv, UNCHANGED chan
  PROVE  DOMAIN chan' = Channels /\ \A ch \in Requests : chan'[ch] = chan[ch]
BY DEF LoopInv, CallShapes

-----------------------------------------------------------------------------
(* The actions of the loop *)

LEMMA TakeInv ==
  ASSUME LoopInv, NEW ch \in Channels, Take(ch)
  PROVE  LoopInv'
<1>1. TasksKept /\ UNCHANGED peers /\ cur = NoCaller
  BY TasksUnchanged DEF Take, LoopInv, Senders
<1>2. CASE ch = "self" /\ GoTo("ready", NoCaller) /\ UNCHANGED <<exit, mutex>>
           /\ chan' = [chan EXCEPT ![ch] = Tail(@)]
  <2>1. DOMAIN chan' = Channels /\ \A x \in Requests : chan'[x] = chan[x]
    BY <1>2 DEF LoopInv, CallShapes, Requests
  <2>2. NoCaller \notin Callers /\ LocksKept
    BY <1>1, <1>2, EventLoopAssumption DEF Callers, LocksKept
  <2>3. RemainsWithout(NoCaller)
    BY <2>1, <2>2, NotQueued
  <2>4. NoCaller \notin filed
    BY <2>2 DEF LoopInv, CallShapes
  <2> QED BY <1>1, <1>2, <2>1, <2>2, <2>3, <2>4, GoToInv
<1>3. CASE ch # "self" /\ Handle(Head(chan[ch])) /\ chan' = [chan EXCEPT ![ch] = Tail(@)]
  <2>1. ch \in Requests /\ chan[ch] # <<>>
    BY <1>3 DEF Channels, Requests, Take
  <2>2. PICK c \in Callers : c = Head(chan[ch])
    BY <1>3, <2>1, TakenFromQueue
  <2>3. RemainsWithout(c) /\ DOMAIN chan' = Channels /\ OnItsWay(c) /\ c \notin filed /\ c # cur
    BY <1>3, <2>1, <2>2, TakenFromQueue
  <2>4. Handle(c) /\ c # NoCaller /\ NoCaller \notin filed
    BY <1>3, <2>2, EventLoopAssumption DEF Callers, LoopInv, CallShapes
  <2>5. OneWay(c) <=> ~Pending(c)
    BY <2>3 DEF OnItsWay, LoopInv, SendersKept
  <2>6. CASE AnsweredAtOnce(c) /\ Answer(c, Returned, "ready") /\ UNCHANGED mutex
    <3>1. LocksKept
      BY <1>1, <2>6 DEF LocksKept
    <3> QED BY <1>1, <2>3, <2>6, <3>1, ReturnedShape, AnswerInv
  <2>7. CASE OneWay(c) /\ GoTo("ready", NoCaller) /\ UNCHANGED mutex
    <3>1. LocksKept
      BY <1>1, <2>7 DEF LocksKept
    <3> QED BY <1>1, <2>3, <2>5, <2>7, <3>1, GoToInv
  <2>8. CASE call[c].kind = "join_cluster" /\ GoTo("join", c) /\ UNCHANGED mutex
    <3>1. LocksKept /\ Pending(c)
      BY <1>1, <2>5, <2>8 DEF LocksKept, OneWay
    <3> QED BY <1>1, <2>3, <2>4, <2>8, <3>1, GoToInv
  <2>9. CASE /\ call[c].kind \in {"get_peers", "set_peers", "add_peer"} \cup Forwarded
             /\ GoTo("lock", c) /\ mutex' = Append(mutex, Loop)
    <3>1. LocksKept /\ Pending(c)
      BY <1>1, <2>5, <2>9 DEF LocksKept, OneWay, Forwarded, Proposed
    <3> QED BY <1>1, <2>3, <2>4, <2>9, <3>1, GoToInv
  <2>10. CASE DropRequest(c) /\ UNCHANGED mutex
    <3>1. LocksKept
      BY <1>1, <2>10 DEF LocksKept
    <3>2. /\ call' \in [Callers -> [st : States, kind : KindsOfCall]]
          /\ \A d \in Callers \ {c} : call'[d] = call[d]
          /\ filed' = filed /\ cur' = NoCaller /\ pc' = "ready"
          /\ ~Pending(c)'
      BY <2>10, ReturnedShape DEF LoopInv, CallShapes, DropRequest, Pending, Returned
    <3>3. LoopConnects'
      BY <3>2 DEF LoopConnects
    <3> QED BY <1>1, <2>3, <2>4, <3>1, <3>2, <3>3, LoopGoesOn
  <2>11. CASE /\ call[c].kind \in Proposed
              /\ filed' = filed \cup {c} /\ pc' = "ready" /\ cur' = NoCaller
              /\ UNCHANGED <<exit, call, mutex>>
    <3>1. LocksKept /\ LoopConnects'
      BY <1>1, <2>11 DEF LocksKept, LoopConnects
    <3>2. Pending(c)'
      BY <2>5, <2>11 DEF Pending, OneWay, Proposed
    <3>3. call' \in [Callers -> [st : States, kind : KindsOfCall]]
      BY <2>11 DEF LoopInv, CallShapes
    <3> QED BY <1>1, <2>3, <2>4, <2>11, <3>1, <3>2, <3>3, LoopGoesOn
  <2> QED BY <2>4, <2>6, <2>7, <2>8, <2>9, <2>10, <2>11 DEF Handle
<1>4. CASE ch # "self" /\ HandlerFails(Head(chan[ch]))
  <2>1. PICK how \in {"ended", "panicked"} : LoopStops(how)
    BY <1>4 DEF HandlerFails, AnswerFails
  <2> QED BY <1>1, <2>1, LoopStopsInv
<1> QED BY <1>2, <1>3, <1>4 DEF Take

LEMMA IdleInv ==
  ASSUME LoopInv, Idle
  PROVE  LoopInv'
<1>1. UNCHANGED <<chan, call, filed, task, peers, mutex>> /\ pc' = "ready"
      /\ cur = NoCaller /\ cur' = NoCaller
  BY DEF Idle, LoopInv, Senders
<1>2. TasksKept /\ LocksKept /\ LoopConnects'
  BY <1>1, TasksUnchanged DEF LocksKept, LoopConnects
<1>3. NoCaller \notin Callers /\ NoCaller \notin filed /\ DOMAIN chan' = Channels
      /\ RemainsWithout(NoCaller) /\ call' \in [Callers -> [st : States, kind : KindsOfCall]]
  <2>1. NoCaller \notin Callers
    BY EventLoopAssumption DEF Callers
  <2> QED BY <1>1, <2>1, ChanUnchanged, NotQueued DEF LoopInv, CallShapes
<1> QED BY <1>1, <1>2, <1>3, LoopGoesOn

LEMMA ExitInv ==
  ASSUME LoopInv, Exit
  PROVE  LoopInv'
BY TasksUnchanged, LoopStopsInv DEF Exit

\* A caller that is filed or worked for is in no channel.
LEMMA CurrentNotQueued ==
  ASSUME LoopInv, NEW c \in Callers, c = cur \/ c \in filed, UNCHANGED chan
  PROVE  RemainsWithout(c) /\ DOMAIN chan' = Channels
BY ChanUnchanged, NotQueued

LEMMA LockedInv ==
  ASSUME LoopInv, Locked
  PROVE  LoopInv'
<1>1. PICK c \in Callers : c = cur /\ Pending(c)
  BY CurrentCaller DEF Locked, LoopInv, Senders
<1>2. TasksKept /\ Holds(Loop) /\ DOMAIN peers = Ids /\ c # NoCaller
  BY <1>1, TasksUnchanged, EventLoopAssumption DEF Locked, LoopInv, TaskShapes, Callers
<1>3. CASE /\ Answer(c, Returned, "ready") /\ mutex' = Tail(mutex)
           /\ peers' \in IF call[c].kind = "set_peers" THEN ReplacedPeers ELSE {peers}
           /\ UNCHANGED <<exit, chan>>
  <2>1. LocksKept
    BY <1>2, <1>3 DEF LocksKept, ReplacedPeers
  <2> QED BY <1>1, <1>2, <1>3, <2>1, CurrentNotQueued, ReturnedShape, AnswerInv
<1>4. ASSUME NEW how \in {"ended", "panicked"}, LoopStops(how),
             UNCHANGED peers \/ peers' \in ReplacedPeers
      PROVE  LoopInv'
  BY <1>2, <1>4, LoopStopsInv DEF ReplacedPeers
<1>5. CASE /\ GoTo("connect", c) /\ UNCHANGED <<exit, chan, mutex>>
           /\ \E i \in Ids : peers' = [peers EXCEPT ![i] = "connecting"]
  <2>1. LocksKept /\ Holds(Loop)'
    BY <1>2, <1>5 DEF LocksKept, Holds
  <2> QED BY <1>1, <1>2, <1>5, <2>1, CurrentNotQueued, GoToInv
<1>6. ASSUME Answer(c, Redirected, "ready"), mutex' = Tail(mutex),
             UNCHANGED <<exit, chan, peers>>
      PROVE  LoopInv'
  <2>1. LocksKept
    BY <1>2, <1>6 DEF LocksKept
  <2> QED BY <1>1, <1>2, <1>6, <2>1, CurrentNotQueued, AnswerInv
<1> QED BY <1>1, <1>3, <1>4, <1>5, <1>6 DEF Locked, AnswerFails

LEMMA ConnectedInv ==
  ASSUME LoopInv, Connected
  PROVE  LoopInv'
<1>1. PICK c \in Callers : c = cur /\ Pending(c)
  BY CurrentCaller DEF Connected, LoopInv, Senders
<1>2. TasksKept /\ Holds(Loop) /\ DOMAIN peers = Ids
  BY TasksUnchanged DEF Connected, LoopInv, TaskShapes, LoopConnects
<1>3. ASSUME NEW i \in Ids, peers' = [peers EXCEPT ![i] = "client"],
             Answer(c, Returned, "ready"), mutex' = Tail(mutex), UNCHANGED <<exit, chan>>
      PROVE  LoopInv'
  <2>1. LocksKept
    BY <1>2, <1>3 DEF LocksKept
  <2> QED BY <1>1, <1>2, <1>3, <2>1, CurrentNotQueued, ReturnedShape, AnswerInv
<1>4. ASSUME NEW i \in Ids, NEW v, peers' = [peers EXCEPT ![i] = v],
             NEW how \in {"ended", "panicked"}, LoopStops(how)
      PROVE  LoopInv'
  <2>1. DOMAIN peers' = Ids
    BY <1>2, <1>4
  <2> QED BY <1>2, <1>4, <2>1, LoopStopsInv
<1> QED BY <1>1, <1>3, <1>4 DEF Connected, AnswerFails

LEMMA JoinAnsweredInv ==
  ASSUME LoopInv, JoinAnswered
  PROVE  LoopInv'
<1>1. PICK c \in Callers : c = cur /\ Pending(c)
  BY CurrentCaller DEF JoinAnswered, LoopInv, Senders
<1>2. TasksKept /\ UNCHANGED peers
  BY TasksUnchanged DEF JoinAnswered
<1>3. CASE Answer(c, Returned, "ready") /\ UNCHANGED <<exit, chan, mutex>>
  <2>1. LocksKept
    BY <1>2, <1>3 DEF LocksKept
  <2> QED BY <1>1, <1>2, <1>3, <2>1, CurrentNotQueued, ReturnedShape, AnswerInv
<1>4. ASSUME NEW how \in {"ended", "panicked"}, LoopStops(how) PROVE LoopInv'
  BY <1>2, <1>4, LoopStopsInv
<1> QED BY <1>1, <1>3, <1>4 DEF JoinAnswered, AnswerFails

LEMMA OwnServerAnswersInv ==
  ASSUME LoopInv, OwnServerAnswers
  PROVE  LoopInv'
BY TasksUnchanged, LoopStopsInv DEF OwnServerAnswers

LEMMA OnReadyInv ==
  ASSUME LoopInv, OnReady
  PROVE  LoopInv'
<1>1. /\ TasksKept /\ UNCHANGED peers /\ NoCaller \notin Callers /\ NoCaller \notin filed
      /\ cur = NoCaller
  <2>1. NoCaller \notin Callers
    BY EventLoopAssumption DEF Callers
  <2> QED BY <2>1 DEF OnReady, SendMessages, TasksKept, LoopInv, CallShapes, Senders
<1>2. CASE GoTo("top", NoCaller) /\ UNCHANGED <<chan, mutex>>
  <2>1. LocksKept /\ DOMAIN chan' = Channels /\ RemainsWithout(NoCaller)
    BY <1>1, <1>2, ChanUnchanged, NotQueued DEF LocksKept
  <2> QED BY <1>1, <1>2, <2>1, GoToInv
<1>3. ASSUME NEW how \in {"ended", "panicked"}, LoopStops(how)
      PROVE  LoopInv'
  BY <1>1, <1>3, LoopStopsInv
<1>4. ASSUME NEW c \in filed, Answer(c, Returned, "top"), UNCHANGED <<chan, mutex>>
      PROVE  LoopInv'
  <2>1. LocksKept /\ c \in Callers
    BY <1>1, <1>4 DEF LocksKept, LoopInv, CallShapes
  <2> QED BY <1>1, <1>4, <2>1, CurrentNotQueued, ReturnedShape, AnswerInv
<1>5. ASSUME NEW c \in Callers \cup {NoCaller}, c # NoCaller => c \in filed,
             NEW change \in {"conf", "mixed"}, GoTo(change, c),
             mutex' = Append(mutex, Loop), UNCHANGED chan
      PROVE  LoopInv'
  <2>1. LocksKept /\ DOMAIN chan' = Channels /\ RemainsWithout(c)
    BY <1>1, <1>5, ChanUnchanged, NotQueued DEF LocksKept
  <2>2. c # NoCaller => Pending(c) /\ c \in Callers
    BY <1>5 DEF LoopInv, Senders
  <2>3. c \notin filed \/ Pending(c)
    BY <1>1, <2>2
  <2> QED BY <1>1, <1>5, <2>1, <2>2, <2>3, GoToInv
<1>6. ASSUME NEW c \in Callers, Committed(c)
      PROVE  LoopInv'
  BY <1>3, <1>4, <1>6 DEF Committed, AnswerFails
<1>7. ASSUME NEW c \in Callers \cup {NoCaller}, ConfChange(c)
      PROVE  LoopInv'
  BY <1>2, <1>3, <1>4, <1>5, <1>7 DEF ConfChange, AnswerFails
<1> QED BY <1>2, <1>3, <1>6, <1>7 DEF OnReady

LEMMA ConfChangeLockedInv ==
  ASSUME LoopInv, ConfChangeLocked
  PROVE  LoopInv'
<1>1. TasksKept /\ Holds(Loop) /\ NoCaller \notin Callers /\ NoCaller \notin filed
      /\ DOMAIN peers' = Ids
  <2>1. NoCaller \notin Callers
    BY EventLoopAssumption DEF Callers
  <2> QED BY <2>1, TasksUnchanged DEF ConfChangeLocked, LoopInv, CallShapes, TaskShapes
<1>2. CASE /\ cur = NoCaller /\ GoTo("top", NoCaller)
           /\ mutex' = Tail(mutex) /\ UNCHANGED chan
  <2>1. LocksKept /\ DOMAIN chan' = Channels /\ RemainsWithout(NoCaller)
    BY <1>1, <1>2, ChanUnchanged, NotQueued DEF LocksKept
  <2> QED BY <1>1, <1>2, <2>1, GoToInv
<1>3. ASSUME NEW c \in Callers, c = cur, Pending(c),
             Answer(c, Returned, "top"), mutex' = Tail(mutex), UNCHANGED chan
      PROVE  LoopInv'
  <2>1. LocksKept
    BY <1>1, <1>3 DEF LocksKept
  <2> QED BY <1>1, <1>3, <2>1, CurrentNotQueued, ReturnedShape, AnswerInv
<1>4. ASSUME NEW c \in Callers, c = cur, Pending(c), GoTo("answer", c),
             mutex' = Append(Tail(mutex), Loop), UNCHANGED <<exit, chan>>
      PROVE  LoopInv'
  <2>1. LocksKept
    BY <1>1, <1>4 DEF LocksKept
  <2> QED BY <1>1, <1>4, <2>1, CurrentNotQueued, GoToInv
<1>5. ASSUME NEW how \in {"ended", "panicked"}, LoopStops(how)
      PROVE  LoopInv'
  BY <1>1, <1>5, LoopStopsInv
<1>6. cur # NoCaller => \E c \in Callers : c = cur /\ Pending(c)
  BY CurrentCaller
<1> QED BY <1>2, <1>3, <1>4, <1>5, <1>6 DEF ConfChangeLocked, AnswerFails

LEMMA JoinSuccessInv ==
  ASSUME LoopInv, JoinSuccess
  PROVE  LoopInv'
<1>1. PICK c \in Callers : c = cur /\ Pending(c)
  BY CurrentCaller DEF JoinSuccess, LoopInv, Senders
<1>2. TasksKept /\ Holds(Loop) /\ UNCHANGED peers /\ DOMAIN peers = Ids
  BY TasksUnchanged DEF JoinSuccess, LoopInv, TaskShapes
<1>3. CASE Answer(c, Returned, "top") /\ mutex' = Tail(mutex) /\ UNCHANGED <<exit, chan>>
  <2>1. LocksKept
    BY <1>2, <1>3 DEF LocksKept
  <2> QED BY <1>1, <1>2, <1>3, <2>1, CurrentNotQueued, ReturnedShape, AnswerInv
<1>4. CASE AnswerFails(c)
  BY <1>2, <1>4, LoopStopsInv DEF AnswerFails
<1> QED BY <1>1, <1>3, <1>4 DEF JoinSuccess

-----------------------------------------------------------------------------
(* The callers, the send tasks, Raft::run *)

\* A step of the caller c that leaves the channels alone: it does not begin to
\* need its sender, and goes on to need it when it did.
LEMMA CallerInv ==
  ASSUME LoopInv, NEW c \in Callers, NEW r \in [st : States, kind : KindsOfCall],
         call' = [call EXCEPT ![c] = r],
         call[c].st # "returned",
         Pending(c) <=> r.st \in {"waiting", "gone"},
         Pending(c) => r.kind = call[c].kind,
         pc' = pc \/ (pc = "join" /\ pc' = "own"),
         UNCHANGED <<cur, chan, filed, task, peers, mutex>>
  PROVE  LoopInv'
<1>1. CallShapes' /\ \A d \in Callers \ {c} : call'[d] = call[d]
  BY DEF LoopInv, CallShapes
<1>2. call'[c] = r
  BY DEF LoopInv, CallShapes
<1>3. \A d \in Callers : /\ Pending(d)' <=> Pending(d)
                         /\ Pending(d) => call'[d].kind = call[d].kind
  BY <1>1, <1>2 DEF Pending
<1>4. ASSUME NEW d \in Callers, OnItsWay(d) PROVE OnItsWay(d)'
  BY <1>1, <1>3, <1>4 DEF OnItsWay, OneWay
<1>5. Senders'
  <2>1. ASSUME NEW ch \in Requests PROVE QueueOK(ch)'
    <3>1. QueueOK(ch) /\ chan'[ch] = chan[ch]
      BY DEF LoopInv, Senders
    <3>2. ASSUME NEW i \in 1 .. Len(chan[ch])
          PROVE  \E d \in Callers : d = chan[ch][i] /\ OnItsWay(d)'
      BY <1>4, <3>1 DEF QueueOK
    <3> QED BY <3>1, <3>2 DEF QueueOK, ChanOf
  <2>2. \A d \in filed' : Pending(d)'
    BY <1>3 DEF LoopInv, Senders, CallShapes
  <2>3. ASSUME cur # NoCaller PROVE Pending(cur)'
    <3>1. PICK d \in Callers : d = cur /\ Pending(d)
      BY <2>3, CurrentCaller
    <3> QED BY <1>3, <3>1 DEF Pending
  <2>4. /\ pc' \in {"lock", "connect", "join", "own", "answer"} => cur' # NoCaller
        /\ pc' \in {"top", "ready", "ended", "panicked"} => cur' = NoCaller
    BY DEF LoopInv, Senders
  <2> QED BY <2>1, <2>2, <2>3, <2>4 DEF Senders
<1>6. SendersKept' /\ StoppedIsEmpty'
  <2>1. ASSUME NEW d \in Callers, Pending(d)' PROVE (HasSender(d) /\ ~OneWay(d))'
    <3>1. Pending(d) /\ HasSender(d) /\ ~OneWay(d) /\ call'[d].kind = call[d].kind
      BY <1>3, <2>1 DEF LoopInv, SendersKept
    <3> QED BY <3>1 DEF HasSender, InChannel, ChanOf, OneWay
  <2> QED BY <2>1 DEF LoopInv, SendersKept, StoppedIsEmpty, Stopped
<1>7. TaskShapes' /\ TasksConnect' /\ LoopConnects'
  BY DEF LoopInv, TaskShapes, TasksConnect, LoopConnects, Holds
<1> QED BY <1>1, <1>5, <1>6, <1>7 DEF LoopInv

LEMMA CallInv ==
  ASSUME LoopInv, NEW c \in Callers, NEW k \in LocalKinds \cup RpcKinds, Call(c, k)
  PROVE  LoopInv'
<1>1. PICK r \in [st : States, kind : KindsOfCall] : r = [st |-> "sending", kind |-> k]
  BY EventLoopAssumption DEF States, KindsOfCall
<1>2. ~Pending(c) /\ call[c].st # "returned"
  BY DEF Call, Pending
<1> QED BY <1>1, <1>2, CallerInv DEF Call

\* A call that has no sender here returns.
LEMMA ReturnsInv ==
  ASSUME LoopInv, NEW c \in Callers, call[c].st \in {"sending", "redirected"},
         call' = [call EXCEPT ![c] = Returned],
         UNCHANGED <<pc, cur, chan, filed, task, peers, mutex>>
  PROVE  LoopInv'
<1>1. ~Pending(c) /\ call[c].st # "returned" /\ Returned.st \notin {"waiting", "gone"}
  BY DEF Pending, Returned
<1> QED BY <1>1, ReturnedShape, CallerInv

\* The receiver of a caller goes away.
LEMMA LeavesInv ==
  ASSUME LoopInv, NEW c \in Callers, Leaves(c)
  PROVE  LoopInv'
<1>1. PICK r \in [st : States, kind : KindsOfCall] : r = [call[c] EXCEPT !.st = "gone"]
  BY DEF LoopInv, CallShapes, States
<1>2. r.st = "gone" /\ r.kind = call[c].kind /\ call' = [call EXCEPT ![c] = r]
  BY <1>1 DEF LoopInv, CallShapes, Leaves
<1>3. Pending(c) /\ call[c].st # "returned"
  BY DEF Leaves, Pending
<1> QED BY <1>1, <1>2, <1>3, CallerInv DEF Leaves

LEMMA DisconnectInv ==
  ASSUME LoopInv, NEW c \in Callers, Disconnect(c)
  PROVE  LoopInv'
BY ReturnsInv, LeavesInv DEF Disconnect

LEMMA SendInv ==
  ASSUME LoopInv, NEW c \in Callers, Send(c)
  PROVE  LoopInv'
<1>1. ~OnItsWay(c) /\ ~Pending(c)
  BY DEF Send, OnItsWay, Pending
<1>2. CASE Stopped /\ UNCHANGED chan /\ call' = [call EXCEPT ![c] = Returned]
  BY <1>2, ReturnsInv DEF Send
<1>3. CASE /\ ~Stopped /\ Room(ChanOf(c))
           /\ chan' = [chan EXCEPT ![ChanOf(c)] = Append(@, c)]
           /\ call' = [call EXCEPT ![c].st = IF OneWay(c) THEN "returned" ELSE "waiting"]
  <2>1. PICK mine \in Requests : mine = ChanOf(c)
    BY DEF ChanOf, Requests
  <2>2. UNCHANGED <<pc, cur, exit, filed, task, peers, mutex>>
    BY DEF Send
  <2>3. PICK q \in Seq(Callers) : q = chan[mine]
    BY DEF LoopInv, Senders, QueueOK
  <2>4. /\ DOMAIN chan' = Channels /\ chan'[mine] = Append(q, c)
        /\ \A ch \in Requests \ {mine} : chan'[ch] = chan[ch]
    BY <1>3, <2>1, <2>3 DEF LoopInv, CallShapes, Requests, Channels
  <2>5. /\ CallShapes' /\ call'[c].kind = call[c].kind
        /\ call'[c].st = (IF OneWay(c) THEN "returned" ELSE "waiting")
        /\ \A d \in Callers \ {c} : call'[d] = call[d]
    <3>1. PICK st \in States : st = IF OneWay(c) THEN "returned" ELSE "waiting"
      BY DEF States
    <3>2. call' = [call EXCEPT ![c].st = st]
      BY <1>3, <3>1
    <3>3. call \in [Callers -> [st : States, kind : KindsOfCall]]
      BY DEF LoopInv, CallShapes
    <3>4. /\ call' \in [Callers -> [st : States, kind : KindsOfCall]]
          /\ call'[c].st = st /\ call'[c].kind = call[c].kind
          /\ \A d \in Callers \ {c} : call'[d] = call[d]
      BY <3>2, <3>3
    <3>5. CallShapes'
      BY <2>2, <2>4, <3>4 DEF LoopInv, CallShapes
    <3> QED BY <3>1, <3>4, <3>5
  <2>6. OnItsWay(c)'
    BY <2>5 DEF OnItsWay, Pending, OneWay
  <2>7. ASSUME NEW d \in Callers, OnItsWay(d) PROVE d # c /\ OnItsWay(d)'
    BY <1>1, <2>5, <2>7 DEF OnItsWay, Pending, OneWay
  <2>8. ASSUME NEW d \in Callers, Pending(d) PROVE d # c /\ Pending(d)'
    BY <1>1, <2>5, <2>8 DEF Pending
  <2>9. c \notin filed /\ c # cur
    BY <1>1, EventLoopAssumption DEF LoopInv, Senders, Callers
  <2>10. ASSUME NEW ch \in Requests \ {mine} PROVE QueueOK(ch)'
    <3>1. QueueOK(ch) /\ chan'[ch] = chan[ch]
      BY <2>4 DEF LoopInv, Senders
    <3>2. ASSUME NEW i \in 1 .. Len(chan[ch])
          PROVE  \E d \in Callers : d = chan[ch][i] /\ OnItsWay(d)'
      BY <2>7, <3>1 DEF QueueOK
    <3> QED BY <2>2, <3>1, <3>2 DEF QueueOK, ChanOf
  <2>11. QueueOK(mine)'
    <3>1. /\ \A i \in 1 .. Len(q) : /\ q[i] \in Callers /\ ChanOf(q[i]) = mine /\ OnItsWay(q[i])
                                    /\ q[i] \notin filed /\ q[i] # cur
          /\ \A i, j \in 1 .. Len(q) : q[i] = q[j] => i = j
      BY <2>3 DEF LoopInv, Senders, QueueOK
    <3>2. ASSUME NEW i \in 1 .. Len(q)
          PROVE  \E d \in Callers : /\ d = q[i] /\ OnItsWay(d)' /\ d # c
                                    /\ ChanOf(d) = mine /\ d \notin filed /\ d # cur
      BY <2>7, <3>1
    <3>3. PICK p \in Seq(Callers) : p = Append(q, c)
      <4>1. Append(q, c) \in Seq(Callers)
        OBVIOUS
      <4> QED BY <4>1
    <3>4. /\ Len(q) \in Nat /\ Len(p) = Len(q) + 1 /\ p[Len(p)] = c
          /\ \A i \in 1 .. Len(q) : p[i] = q[i]
      BY <2>3, <3>3
    <3>5. \A i \in 1 .. Len(p) : i = Len(p) \/ i \in 1 .. Len(q)
      BY <3>4
    <3>6. ASSUME NEW i \in 1 .. Len(p)
          PROVE  \E d \in Callers : /\ d = p[i] /\ OnItsWay(d)'
                                    /\ ChanOf(d) = mine /\ d \notin filed /\ d # cur
      BY <2>1, <2>6, <2>9, <3>2, <3>4, <3>5
    <3>7. ASSUME NEW i \in 1 .. Len(p), NEW j \in 1 .. Len(p), p[i] = p[j]
          PROVE  i = j
      <4>1. CASE i \in 1 .. Len(q) /\ j \in 1 .. Len(q)
        BY <3>1, <3>4, <3>7, <4>1
      <4>2. CASE i = Len(p) /\ j = Len(p)
        BY <4>2
      <4>3. CASE i = Len(p) /\ j \in 1 .. Len(q)
        BY <3>2, <3>4, <3>7, <4>3
      <4>4. CASE j = Len(p) /\ i \in 1 .. Len(q)
        BY <3>2, <3>4, <3>7, <4>4
      <4> QED BY <3>5, <4>1, <4>2, <4>3, <4>4
    <3>8. chan'[mine] = p
      BY <2>4, <3>3
    <3> QED BY <2>2, <3>6, <3>7, <3>8 DEF QueueOK, ChanOf
  <2>12. Senders'
    <3>1. \A d \in filed' : Pending(d)'
      BY <2>2, <2>8 DEF LoopInv, Senders, CallShapes
    <3>2. ASSUME cur # NoCaller PROVE Pending(cur)'
      <4>1. PICK d \in Callers : d = cur /\ Pending(d)
        BY <3>2, CurrentCaller
      <4> QED BY <2>2, <2>8, <4>1 DEF Pending
    <3>3. \A ch \in Requests : QueueOK(ch)'
      BY <2>10, <2>11
    <3> QED BY <2>2, <3>1, <3>2, <3>3 DEF LoopInv, Senders
  <2>13. TaskShapes' /\ TasksConnect' /\ LoopConnects'
    BY <2>2 DEF LoopInv, TaskShapes, TasksConnect, LoopConnects, Holds
  <2>14. SendersKept' /\ StoppedIsEmpty'
    <3>1. InChannel(c)' /\ (Pending(c)' => ~OneWay(c)')
      <4>1. Len(Append(q, c)) \in 1 .. Len(Append(q, c)) /\ Append(q, c)[Len(Append(q, c))] = c
        OBVIOUS
      <4> QED BY <2>1, <2>4, <2>5, <4>1 DEF InChannel, ChanOf, Pending, OneWay
    <3>2. ASSUME NEW d \in Callers \ {c}, InChannel(d) PROVE InChannel(d)'
      <4>1. CASE ChanOf(d) = mine
        <5>1. PICK i \in 1 .. Len(q) : q[i] = d
          BY <2>3, <3>2, <4>1 DEF InChannel
        <5>2. i \in 1 .. Len(Append(q, c)) /\ Append(q, c)[i] = d
          BY <5>1
        <5> QED BY <2>4, <4>1, <5>2 DEF InChannel, ChanOf
      <4>2. CASE ChanOf(d) # mine
        BY <2>4, <3>2, <4>2 DEF InChannel, ChanOf, Requests
      <4> QED BY <4>1, <4>2
    <3>3. ASSUME NEW d \in Callers \ {c}, Pending(d)' PROVE (HasSender(d) /\ ~OneWay(d))'
      <4>1. call'[d] = call[d] /\ HasSender(d) /\ ~OneWay(d)
        BY <2>5, <3>3 DEF LoopInv, SendersKept, Pending
      <4> QED BY <2>2, <3>2, <4>1 DEF HasSender, OneWay
    <3> QED BY <1>3, <2>2, <3>1, <3>3 DEF SendersKept, HasSender, StoppedIsEmpty, Stopped
  <2> QED BY <2>5, <2>12, <2>13, <2>14 DEF LoopInv
<1> QED BY <1>2, <1>3 DEF Send

LEMMA JoinOwnServerInv ==
  ASSUME LoopInv, JoinOwnServer
  PROVE  LoopInv'
<1>1. PICK r \in [st : States, kind : KindsOfCall] :
        r = [st |-> "sending", kind |-> "change_config"]
  BY DEF States, KindsOfCall, LocalRequestMsg
<1>2. Own \in Callers /\ ~Pending(Own) /\ call[Own].st # "returned"
  BY DEF JoinOwnServer, Pending, Callers
<1> QED BY <1>1, <1>2, CallerInv DEF JoinOwnServer

\* A step of the send task t: only the holder of the mutex gives it back, and
\* only the one that connects changes the map.
LEMMA TaskStepInv ==
  ASSUME LoopInv, NEW t \in Tasks, TaskStep(t) \/ Transmit(t)
  PROVE  LoopInv'
<1>1. /\ TaskShapes /\ TasksConnect /\ LoopConnects /\ Loop \notin Tasks
      /\ DOMAIN task[t] = {"st", "to"}
  BY EventLoopAssumption DEF LoopInv, TaskShapes
<1>2. ASSUME NEW st, TaskGoes(t, st), task[t].st # "idle"
      PROVE  /\ DOMAIN task' = Tasks
             /\ task'[t].st = st /\ task'[t].to = task[t].to /\ task'[t].to \in Ids
             /\ DOMAIN task'[t] = {"st", "to"}
             /\ \A u \in Tasks \ {t} : task'[u] = task[u]
             /\ \A u \in Tasks : DOMAIN task'[u] = {"st", "to"}
                                 /\ (task'[u].st # "idle" => task'[u].to \in Ids)
  BY <1>1, <1>2 DEF TaskGoes, TaskShapes
\* Nobody else's part of the invariant changes.
<1>3. ASSUME UNCHANGED <<pc, cur, call, filed>>, DOMAIN chan' = Channels,
             \A ch \in Requests : chan'[ch] = chan[ch],
             TaskShapes', TasksConnect', LoopConnects'
      PROVE  LoopInv'
  <2>1. CallShapes' /\ StoppedIsEmpty'
    BY <1>3 DEF LoopInv, CallShapes, StoppedIsEmpty, Stopped
  <2>2. Senders'
    BY <1>3 DEF LoopInv, Senders, QueueOK, OnItsWay, Pending, OneWay, ChanOf
  <2>3. SendersKept'
    <3>1. ASSUME NEW c \in Callers PROVE InChannel(c) => InChannel(c)'
      <4>1. ChanOf(c) \in Requests
        BY DEF ChanOf, Requests
      <4> QED BY <1>3, <4>1 DEF InChannel, ChanOf
    <3> QED BY <1>3, <3>1 DEF LoopInv, SendersKept, Pending, HasSender, OneWay
  <2> QED BY <1>3, <2>1, <2>2, <2>3 DEF LoopInv
<1>4. CASE TaskLocks(t)
  <2>1. UNCHANGED <<pc, cur, chan, call, filed, peers>> /\ mutex' = Append(mutex, t)
        /\ TaskGoes(t, "locking") /\ task[t].st # "idle"
    BY <1>4 DEF TaskLocks
  <2>2. \A x : Holds(x) => Holds(x)'
    BY <1>1, <2>1 DEF Holds, TaskShapes
  <2>3. TaskShapes'
    BY <1>1, <1>2, <2>1 DEF TaskShapes
  <2>4. TasksConnect' /\ LoopConnects'
    BY <1>1, <1>2, <2>1, <2>2 DEF TasksConnect, LoopConnects
  <2> QED BY <1>3, <2>1, <2>3, <2>4, ChanUnchanged
<1>5. CASE TaskLocked(t)
  <2> DEFINE p == peers[task[t].to]
             st == IF p = "none" THEN "failed" ELSE IF p = "client" THEN "transmit" ELSE "connect"
  <2>1. /\ UNCHANGED <<pc, cur, chan, call, filed, peers>> /\ Holds(t)
        /\ TaskGoes(t, st) /\ task[t].st = "locking"
        /\ mutex' = IF p \in {"none", "client"} THEN Tail(mutex) ELSE mutex
    BY <1>5 DEF TaskLocked
  <2>2. ~Holds(Loop) /\ \A u \in Tasks \ {t} : ~Holds(u)
    BY <1>1, <2>1 DEF Holds
  <2>3. TaskShapes'
    BY <1>1, <1>2, <2>1 DEF TaskShapes, Holds
  <2>4. pc' # "connect" /\ \A u \in Tasks \ {t} : task'[u].st # "connect"
    BY <1>1, <1>2, <2>1, <2>2 DEF TasksConnect, LoopConnects
  <2>5. task'[t].st = "connect" => Holds(t)' /\ peers'[task'[t].to] # "none"
    BY <1>2, <2>1 DEF Holds
  <2>6. TasksConnect' /\ LoopConnects'
    BY <2>4, <2>5 DEF TasksConnect, LoopConnects
  <2> QED BY <1>3, <2>1, <2>3, <2>6, ChanUnchanged
<1>6. CASE TaskConnected(t)
  <2>1. /\ UNCHANGED <<pc, cur, chan, call, filed>> /\ Holds(t) /\ mutex' = Tail(mutex)
        /\ task[t].st = "connect" /\ peers[task[t].to] # "none" /\ task[t].to \in Ids
    BY <1>1, <1>6 DEF TaskConnected, TasksConnect, TaskShapes
  <2>2. PICK st \in {"transmit", "failed"} : TaskGoes(t, st)
    BY <1>6 DEF TaskConnected
  <2>3. peers' = [peers EXCEPT ![task[t].to] = "client"] \/ peers' = peers
    BY <1>6 DEF TaskConnected
  <2>4. ~Holds(Loop) /\ \A u \in Tasks \ {t} : ~Holds(u)
    BY <1>1, <2>1 DEF Holds
  <2>5. TaskShapes'
    BY <1>1, <1>2, <2>1, <2>2, <2>3 DEF TaskShapes, Holds
  <2>6. pc' # "connect" /\ \A u \in Tasks : task'[u].st # "connect"
    BY <1>1, <1>2, <2>1, <2>2, <2>4 DEF TasksConnect, LoopConnects
  <2>7. TasksConnect' /\ LoopConnects'
    BY <2>6 DEF TasksConnect, LoopConnects
  <2> QED BY <1>3, <2>1, <2>5, <2>7, ChanUnchanged
<1>7. ASSUME NEW st \in {"idle", "failed"}, TaskGoes(t, st), task[t].st \in {"transmit", "failed"},
             UNCHANGED <<pc, cur, call, filed, peers, mutex>>, DOMAIN chan' = Channels,
             \A ch \in Requests : chan'[ch] = chan[ch]
      PROVE  LoopInv'
  <2>1. TaskShapes'
    BY <1>1, <1>2, <1>7 DEF TaskShapes
  <2>2. TasksConnect' /\ LoopConnects'
    BY <1>1, <1>2, <1>7 DEF TasksConnect, LoopConnects, Holds
  <2> QED BY <1>3, <1>7, <2>1, <2>2
<1>8. CASE Transmit(t)
  BY <1>7, <1>8, ChanUnchanged DEF Transmit
<1>9. CASE ReportUnreachable(t)
  <2>1. DOMAIN chan' = Channels /\ \A ch \in Requests : chan'[ch] = chan[ch]
    BY <1>9 DEF ReportUnreachable, LoopInv, CallShapes, Requests, Channels
  <2> QED BY <1>7, <1>9, <2>1 DEF ReportUnreachable
<1> QED BY <1>4, <1>5, <1>6, <1>8, <1>9 DEF TaskStep

-----------------------------------------------------------------------------
(* The theorems *)

\* Raft::run and the server are no part of the invariant.
LEMMA OthersInv ==
  ASSUME LoopInv, UNCHANGED <<pc, cur, exit, chan, call, filed, task, peers, mutex>>
  PROVE  LoopInv'
BY DEF LoopInv, CallShapes, Senders, QueueOK, OnItsWay, Pending, OneWay, ChanOf,
       SendersKept, HasSender, InChannel, StoppedIsEmpty, Stopped,
       TaskShapes, TasksConnect, LoopConnects, Holds

LEMMA InitInv == Init => LoopInv
<1> SUFFICES ASSUME Init PROVE LoopInv
  OBVIOUS
<1>1. CallShapes
  BY DEF Init, CallShapes, States, KindsOfCall
<1>2. Senders
  BY DEF Init, Senders, QueueOK, Channels, Requests
<1>3. TaskShapes
  BY DEF Init, TaskShapes
<1> QED BY <1>1, <1>2, <1>3
        DEF Init, LoopInv, SendersKept, Pending, StoppedIsEmpty, Stopped, TasksConnect, LoopConnects

LEMMA NextInv == LoopInv /\ [Next]_vars => LoopInv'
<1> SUFFICES ASSUME LoopInv, [Next]_vars PROVE LoopInv'
  OBVIOUS
<1>1. ASSUME NEW c \in Callers, NEW k \in LocalKinds \cup RpcKinds, Call(c, k)
      PROVE  LoopInv'
  BY <1>1, CallInv
<1>2. ASSUME NEW c \in Callers, CallStep(c) \/ FollowRedirect(c) \/ Disconnect(c)
      PROVE  LoopInv'
  <2>1. CASE Timeout(c)
    BY <2>1, LeavesInv DEF Timeout
  <2>2. CASE FollowRedirect(c)
    BY <2>2, ReturnsInv DEF FollowRedirect
  <2> QED BY <1>2, <2>1, <2>2, SendInv, DisconnectInv DEF CallStep
<1>3. ASSUME NEW ch \in Channels, Take(ch) PROVE LoopInv'
  BY <1>3, TakeInv
<1>4. CASE LoopStep
  BY <1>4, IdleInv, ExitInv, OnReadyInv, LockedInv, ConnectedInv, ConfChangeLockedInv,
     JoinSuccessInv, OwnServerAnswersInv DEF LoopStep
<1>5. CASE JoinAnswered \/ JoinOwnServer
  BY <1>5, JoinAnsweredInv, JoinOwnServerInv
<1>6. ASSUME NEW t \in Tasks, TaskStep(t) \/ Transmit(t) PROVE LoopInv'
  BY <1>6, TaskStepInv
<1>7. CASE RunReturns \/ CtrlC \/ ServerStops \/ ServerFails \/ UNCHANGED vars
  BY <1>7, OthersInv DEF RunReturns, CtrlC, ServerStops, ServerFails, vars
<1> QED BY <1>1, <1>2, <1>3, <1>4, <1>5, <1>6, <1>7 DEF Next

\* However the event loop ends (quit, an error of a handler, a removed node, a
\* panic), no method of the handle and no gRPC handler waits for an answer any
\* more.  The end of the loop drops the oneshot senders it can reach, those in the
\* channels, in response_senders and of the request in hand; the invariant says
\* that it can reach that of everyone who waits.  For any number of callers and
\* tasks, and channels of any capacity.
THEOREM NobodyWaitsForAStoppedLoop == Spec => []EndReleasesAll
<1>1. LoopInv => EndReleasesAll
  <2> SUFFICES ASSUME LoopInv, Stopped, NEW c \in Callers, call[c].st = "waiting" PROVE FALSE
    BY DEF EndReleasesAll
  <2>1. HasSender(c)
    BY DEF LoopInv, SendersKept, Pending
  <2>2. filed = {} /\ cur = NoCaller /\ chan[ChanOf(c)] = <<>> /\ c # NoCaller
    BY EventLoopAssumption
       DEF LoopInv, StoppedIsEmpty, Senders, Stopped, ChanOf, Requests, Callers
  <2> QED BY <2>1, <2>2 DEF HasSender, InChannel
<1> QED BY <1>1, InitInv, NextInv, PTL DEF Spec

\* An answer that fails finds that the receiver has left, not that the request
\* was answered before.
LEMMA FailsWhenGone ==
  ASSUME LoopInv, NEW c \in Callers, InHand(c), Pending(c), AnswerFails(c)
  PROVE  CauseOfPanic
BY DEF AnswerFails, Pending, CauseOfPanic

\* The panics of each action of the loop have a cause.
LEMMA PanicCause ==
  ASSUME LoopInv, Next, pc # "panicked", pc' = "panicked"
  PROVE  CauseOfPanic
<1>1. ASSUME NEW ch \in Channels, Take(ch) PROVE CauseOfPanic
  <2>1. ch \in Requests /\ pc = "top" /\ chan[ch] # <<>> /\ HandlerFails(Head(chan[ch]))
    BY <1>1 DEF Take, Handle, Answer, GoTo, DropRequest, Channels, Requests
  <2>2. PICK c \in Callers : c = Head(chan[ch]) /\ ChanOf(c) = ch /\ OnItsWay(c)
    BY <2>1 DEF LoopInv, Senders, QueueOK
  <2>3. InHand(c)
    BY <2>1, <2>2 DEF InHand
  <2>4. CASE AnsweredAtOnce(c) /\ AnswerFails(c)
    <3>1. Pending(c)
      BY <2>2, <2>4, EventLoopAssumption DEF OnItsWay, OneWay, AnsweredAtOnce
    <3> QED BY <2>3, <2>4, <3>1, FailsWhenGone
  <2>5. CASE call[c].kind \in {"bad_join", "uneven_change"}
    BY <2>3, <2>5 DEF CauseOfPanic, MalformedRequestMsg
  <2>6. CASE LoopStops("ended")
    BY <2>6 DEF LoopStops
  <2> QED BY <2>1, <2>2, <2>4, <2>5, <2>6 DEF HandlerFails
\* The actions that work for the caller in hand.
<1>2. ASSUME pc \in {"lock", "connect", "join", "answer"} \/ (pc \in {"conf", "mixed"} /\ cur # NoCaller)
      PROVE  \E c \in Callers : c = cur /\ InHand(c) /\ Pending(c)
  BY <1>2, CurrentCaller DEF LoopInv, Senders, InHand
<1>3. CASE Locked
  <2>1. PICK c \in Callers : c = cur /\ InHand(c) /\ Pending(c)
    BY <1>2, <1>3 DEF Locked
  <2>2. CASE AnswerFails(c)
    BY <2>1, <2>2, FailsWhenGone
  <2>3. CASE call[c].kind = "bad_request_id"
    BY <2>1, <2>3 DEF CauseOfPanic, MalformedRequestMsg
  <2>4. CASE \E leader \in Ids : peers[leader] = "none"
    BY <1>3, <2>4 DEF Locked, CauseOfPanic
  <2> QED BY <1>3, <2>1, <2>2, <2>3, <2>4 DEF Locked, Answer, GoTo
<1>4. CASE Connected \/ JoinAnswered \/ JoinSuccess
  <2>1. PICK c \in Callers : c = cur /\ InHand(c) /\ Pending(c)
    BY <1>2, <1>4 DEF Connected, JoinAnswered, JoinSuccess
  <2>2. AnswerFails(c)
    BY <1>4, <2>1 DEF Connected, JoinAnswered, JoinSuccess, Answer, LoopStops
  <2> QED BY <2>1, <2>2, FailsWhenGone
<1>5. CASE OnReady
  <2>1. PICK c \in Callers : c \in filed /\ AnswerFails(c)
    BY <1>5 DEF OnReady, Committed, ConfChange, GoTo, Answer, LoopStops
  <2>2. InHand(c) /\ Pending(c)
    BY <1>5, <2>1 DEF OnReady, InHand, LoopInv, Senders
  <2> QED BY <2>1, <2>2, FailsWhenGone
<1>6. CASE ConfChangeLocked
  <2>1. cur # NoCaller /\ pc \in {"conf", "mixed"}
    BY <1>6 DEF ConfChangeLocked, GoTo, LoopStops
  <2>2. PICK c \in Callers : c = cur /\ InHand(c) /\ Pending(c)
    BY <1>2, <2>1
  <2>3. CASE pc = "mixed"
    BY <2>1, <2>3 DEF CauseOfPanic
  <2>4. CASE AnswerFails(c)
    BY <2>2, <2>4, FailsWhenGone
  <2> QED BY <1>6, <2>1, <2>2, <2>3, <2>4 DEF ConfChangeLocked, GoTo, Answer, LoopStops
<1>7. ~(Idle \/ Exit \/ OwnServerAnswers \/ JoinOwnServer)
  BY DEF Idle, Exit, OwnServerAnswers, JoinOwnServer, LoopStops
<1>8. pc' = pc \/ \/ \E ch \in Channels : Take(ch)
                 \/ LoopStep \/ JoinAnswered \/ JoinOwnServer
  BY DEF Next, Call, CallStep, Send, Timeout, Leaves, Disconnect, FollowRedirect,
         TaskStep, TaskLocks, TaskLocked, TaskConnected, ReportUnreachable, Transmit,
         RunReturns, CtrlC, ServerStops, ServerFails
<1> QED BY <1>1, <1>3, <1>4, <1>5, <1>6, <1>7, <1>8 DEF LoopStep

\* The panics of the event loop have no other cause than these: an answer for a
\* caller that has left (its client disconnected, its future was dropped, its
\* change_config timed out), a request that cannot be digested, a change that both
\* adds and removes nodes, a leader that is not in the peers map.  No request is answered twice, or loses its sender, so
\* no `unwrap` of an answer fails while the caller waits.
THEOREM NoOtherPanic == Spec => PanicsForACause
<1>1. LoopInv /\ [Next]_vars => [pc # "panicked" /\ pc' = "panicked" => CauseOfPanic]_vars
  BY PanicCause
<1> QED BY <1>1, InitInv, NextInv, PTL DEF Spec, PanicsForACause

=============================================================================
