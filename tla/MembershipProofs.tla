-------------------------- MODULE MembershipProofs --------------------------
(***************************************************************************)
(* Three safety properties of Membership for any set of processes and any  *)
(* number of changes, removals, elections and restarts: what a node has    *)
(* applied is committed; and, as long as the first leader stays, a join    *)
(* that succeeded is committed, and, when processes join one after the     *)
(* other, every voter is where the leader's peers map says.                *)
(***************************************************************************)
EXTENDS Membership, SetLemmas, TLAPS

ProcState ==
  {"new", "asking", "ticket", "booted", "added", "joining", "waiting", "member", "dead"}

\* A peers map; it has a largest id.
PeerMaps ==
  {f \in UNION {[S -> Addrs] : S \in SUBSET Nat} :
     \E m \in Nat : DOMAIN f \subseteq 0 .. m}

Tickets == [id : Nat, leader : Addrs \cup {NoAddr}, peers : PeerMaps]

Procs ==
  [st : ProcState, id : Nat, peers : PeerMaps, conf : SUBSET Nat, applied : Nat,
   first : Nat, snap : Nat, view : Nat, ask : Addrs \cup {NoAddr}, via : BOOLEAN,
   ticket : Tickets]

Changes ==
  {e \in [kind : {"add", "remove", "noop", "none"}, id : Nat,
          addr : Addrs \cup {NoAddr}, by : Addrs \cup {NoAddr}] :
     e.kind = "add" => e.addr \in Addrs}

\* Whoever waits for another process has its address.
Asks(p) ==
  /\ p.st \in {"asking", "joining", "waiting"} => p.ask \in Addrs
  /\ p.st \in {"ticket", "booted", "added"} => p.ticket.leader \in Addrs

TypeInv ==
  /\ proc \in [Addrs -> Procs] /\ \A a \in Addrs : Asks(proc[a])
  /\ log \in Seq(Changes) /\ leader \in Addrs /\ pend \in [Addrs -> Changes]
  /\ elections \in Nat
  /\ \A a \in Addrs : proc[a].snap <= proc[a].applied /\ proc[a].applied <= Len(log)

-----------------------------------------------------------------------------
(* As long as the first leader stays *)

\* The change a process p at the address a waits for in handle_join.
OwnChange(a, p) == ConfChange("add", p.ticket.id, a, First)

\* The first leader has its own id, which nobody else has, and it has at most
\* one change under way, proposed or committed and not applied.
FirstOK ==
  /\ leader = First /\ proc[First].st \in {"member", "dead"}
  /\ proc[First].id = 1 /\ proc[First].view = 1
  /\ 1 \in DOMAIN proc[First].peers /\ proc[First].peers[1] = First
  /\ 0 \notin DOMAIN proc[First].peers
  /\ \/ proc[First].applied = Len(log)
     \/ proc[First].applied + 1 = Len(log) /\ pend[First] = NoChange

\* A change of the first leader adds an id that is not its own.
ChangeOK(e) == /\ e.kind = "add" => e.id >= 2 /\ e.by = First
               /\ e.kind = "remove" => e.addr = NoAddr
               /\ e.kind = "none" => e = NoChange
               /\ e.by \in {First, NoAddr}
ChangesOK ==
  /\ \A i \in 1 .. Len(log) : ChangeOK(log[i]) /\ log[i] # NoChange
  /\ ChangeOK(pend[First]) /\ \A b \in Addrs \ {First} : pend[b] = NoChange

\* Where another process stands: its requests are at the first leader and
\* nobody forwards them, ...
JoinerOK(p) ==
  /\ p.view \in {0, 1}
  /\ p.st = "ticket" => p.ticket.id >= 2
  /\ p.st \in {"ticket", "booted", "added"} => p.ticket.leader = First
  /\ p.st \in {"joining", "waiting"} => p.ask = First /\ ~p.via
  /\ p.st \in {"booted", "added", "joining", "waiting"} => p.id = p.ticket.id
  /\ p.st \in {"booted", "added", "joining", "waiting", "member"} => p.id >= 2

\* ... while it waits for its change this is the change under way, ...
WaiterOK(a, p) ==
  p.st = "waiting" =>
    \/ pend[First] = OwnChange(a, p) /\ proc[First].applied = Len(log)
    \/ /\ log[Len(log)] = OwnChange(a, p) /\ proc[First].applied + 1 = Len(log)
       /\ pend[First] = NoChange

\* ... and as a member it has one in the log.
MemberOK(a, p) ==
  p.st = "member" =>
    \E i \in 1 .. Len(log) : log[i].kind = "add" /\ log[i].id = p.id /\ log[i].addr = a

OthersOK ==
  \A a \in Addrs \ {First} :
    JoinerOK(proc[a]) /\ WaiterOK(a, proc[a]) /\ MemberOK(a, proc[a])

FirstInv == elections = 0 => FirstOK /\ ChangesOK /\ OthersOK

-----------------------------------------------------------------------------
(* As long as processes join one after the other, too *)

OneJoins == Serial => \A a, b \in Addrs : Joining(a) /\ Joining(b) => a = b

\* The leader's peers map has every process at most once, with the id it has or,
\* with a ticket, is about to take; and a ticket is for an id that is free.
TicketOK(a, p) ==
  LET map == proc[First].peers
  IN  /\ \A v \in DOMAIN map : map[v] = a => p.id = v
      /\ p.st = "ticket" => \A v \in DOMAIN map : map[v] = a => p.ticket.id = v
      /\ /\ p.st \in {"ticket", "booted", "added", "joining", "waiting"}
         /\ p.ticket.id \in DOMAIN map
         => map[p.ticket.id] = a

VotersOK == /\ 1 \in proc[First].conf /\ proc[First].conf \subseteq DOMAIN proc[First].peers
            /\ \A a \in Addrs : TicketOK(a, proc[a])

AddressInv == Serial /\ elections = 0 /\ Live(First) => VotersOK

MemberInv == TypeInv /\ FirstInv /\ OneJoins /\ AddressInv

-----------------------------------------------------------------------------
(* Peers maps *)

LEMMA PeerMapFacts ==
  ASSUME NEW f \in PeerMaps
  PROVE  /\ DOMAIN f \subseteq Nat /\ f \in [DOMAIN f -> Addrs]
         /\ \E m \in Nat : DOMAIN f \subseteq 0 .. m
BY DEF PeerMaps

LEMMA PeerMapIntro ==
  ASSUME NEW S \in SUBSET Nat, NEW f \in [S -> Addrs], NEW m \in Nat, S \subseteq 0 .. m
  PROVE  f \in PeerMaps
BY DEF PeerMaps

LEMMA NoPeersType == NoPeers \in PeerMaps /\ DOMAIN NoPeers = {}
<1>1. NoPeers \in [{} -> Addrs] /\ DOMAIN NoPeers = {}
  BY DEF NoPeers
<1> QED BY <1>1, PeerMapIntro

LEMMA NewPeersType ==
  ASSUME NEW addr \in Addrs
  PROVE  /\ NewPeers(1, addr) \in PeerMaps /\ DOMAIN NewPeers(1, addr) = {1}
         /\ NewPeers(1, addr)[1] = addr
<1>1. NewPeers(1, addr) \in [{1} -> Addrs] /\ {1} \in SUBSET Nat /\ {1} \subseteq 0 .. 1
  BY DEF NewPeers
<1> QED BY <1>1, PeerMapIntro DEF NewPeers

LEMMA AddPeerType ==
  ASSUME NEW f \in PeerMaps, NEW id \in Nat, NEW addr \in Addrs
  PROVE  /\ AddPeer(f, id, addr) \in PeerMaps
         /\ DOMAIN AddPeer(f, id, addr) = DOMAIN f \cup {id}
         /\ AddPeer(f, id, addr)[id] = addr
         /\ \A v \in DOMAIN f : v # id => AddPeer(f, id, addr)[v] = f[v]
<1>1. PICK m \in Nat : DOMAIN f \subseteq 0 .. m
  BY PeerMapFacts
<1>2. /\ DOMAIN f \cup {id} \subseteq 0 .. (m + id) /\ m + id \in Nat
      /\ DOMAIN f \cup {id} \in SUBSET Nat
  BY <1>1
<1>3. AddPeer(f, id, addr) \in [DOMAIN f \cup {id} -> Addrs]
  BY PeerMapFacts DEF AddPeer
<1> QED BY <1>2, <1>3, PeerMapIntro DEF AddPeer

LEMMA RemovePeerType ==
  ASSUME NEW f \in PeerMaps, NEW id
  PROVE  /\ RemovePeer(f, id) \in PeerMaps
         /\ DOMAIN RemovePeer(f, id) = DOMAIN f \ {id}
         /\ \A v \in DOMAIN f \ {id} : RemovePeer(f, id)[v] = f[v]
<1>1. PICK m \in Nat : DOMAIN f \subseteq 0 .. m
  BY PeerMapFacts
<1>2. RemovePeer(f, id) \in [DOMAIN f \ {id} -> Addrs] /\ DOMAIN f \ {id} \subseteq 0 .. m
      /\ DOMAIN f \ {id} \in SUBSET Nat
  BY <1>1, PeerMapFacts DEF RemovePeer, Restrict
<1> QED BY <1>2, PeerMapIntro DEF RemovePeer, Restrict

\* reserve_id gives an id above every one in the map.
LEMMA ReserveIdType ==
  ASSUME NEW f \in PeerMaps
  PROVE  /\ ReserveId(f) \in Nat \ {0} /\ \A v \in DOMAIN f : v < ReserveId(f)
<1>1. PICK m \in Nat : DOMAIN f \subseteq 0 .. m
  BY PeerMapFacts
<1>2. CASE DOMAIN f = {}
  BY <1>2 DEF ReserveId
<1>3. CASE DOMAIN f # {}
  <2>1. Max(DOMAIN f) \in DOMAIN f /\ \A v \in DOMAIN f : v <= Max(DOMAIN f)
    BY <1>1, <1>3, BoundedMax
  <2>2. DOMAIN f \subseteq Nat
    BY <1>1
  <2> HIDE DEF Max
  <2> QED BY <1>3, <2>1, <2>2 DEF ReserveId
<1> QED BY <1>2, <1>3

LEMMA NodeIdByAddrType ==
  ASSUME NEW f \in PeerMaps, NEW addr
  PROVE  /\ NodeIdByAddr(f, addr) \in Nat
         /\ NodeIdByAddr(f, addr) # 0 =>
              NodeIdByAddr(f, addr) \in DOMAIN f /\ f[NodeIdByAddr(f, addr)] = addr
         /\ 0 \notin DOMAIN f /\ NodeIdByAddr(f, addr) = 0 => \A v \in DOMAIN f : f[v] # addr
<1> DEFINE ids == {i \in DOMAIN f : f[i] = addr}
<1>1. CASE ids = {}
  BY <1>1 DEF NodeIdByAddr
<1>2. CASE ids # {}
  <2>1. NodeIdByAddr(f, addr) = (CHOOSE i \in ids : TRUE)
    BY <1>2 DEF NodeIdByAddr
  <2>2. NodeIdByAddr(f, addr) \in ids
    BY <1>2, <2>1
  <2> QED BY <2>2, PeerMapFacts
<1> QED BY <1>1, <1>2

-----------------------------------------------------------------------------
(* The type invariant *)

LEMMA NewProcType == NewProc \in Procs /\ Asks(NewProc)
<1>1. NoTicket \in Tickets
  BY NoPeersType DEF NoTicket, Tickets
<1> QED BY <1>1, NoPeersType DEF NewProc, Procs, Asks, ProcState

-----------------------------------------------------------------------------
(* Steps that change the state of processes other than the first leader *)

\* What the step leaves of the process c is in order.
StepOK(c, p) ==
  /\ Asks(p) /\ p.snap <= p.applied /\ p.applied <= Len(log)
  /\ elections = 0 => c # First /\ JoinerOK(p) /\ WaiterOK(c, p) /\ MemberOK(c, p)
  /\ Serial /\ elections = 0 /\ Live(First) => TicketOK(c, p)

LEMMA ProcsInv ==
  ASSUME MemberInv, proc' \in [Addrs -> Procs], OneJoins',
         \A c \in Addrs : proc'[c] = proc[c] \/ StepOK(c, proc'[c]),
         UNCHANGED <<log, leader, elections, pend>>
  PROVE  MemberInv'
<1>1. TypeInv'
  BY DEF MemberInv, TypeInv, StepOK
<1>2. First \in Addrs
  BY MembershipAssumption
<1>3. elections = 0 => proc'[First] = proc[First]
  BY <1>2 DEF StepOK
<1>4. FirstInv'
  BY <1>2, <1>3 DEF MemberInv, FirstInv, FirstOK, ChangesOK, ChangeOK, OthersOK, WaiterOK,
                    MemberOK, StepOK, OwnChange
<1>5. AddressInv'
  <2> SUFFICES ASSUME Serial, elections = 0, Live(First)' PROVE VotersOK'
    BY DEF AddressInv
  <2>1. Live(First) /\ VotersOK
    BY <1>3 DEF Live, MemberInv, AddressInv
  <2>2. \A a \in Addrs : TicketOK(a, proc'[a])
    BY <2>1 DEF VotersOK, StepOK
  <2>3. ASSUME NEW a \in Addrs, TicketOK(a, proc'[a])
        PROVE  TicketOK(a, proc[a])'
    BY <1>3, <2>3 DEF TicketOK
  <2> QED BY <1>3, <2>1, <2>2, <2>3 DEF VotersOK
<1> QED BY <1>1, <1>4, <1>5 DEF MemberInv

\* No process begins to join.
LEMMA NobodyBegins ==
  ASSUME MemberInv, \A c \in Addrs : Joining(c)' => Joining(c)
  PROVE  OneJoins'
BY DEF MemberInv, OneJoins

\* One process.
LEMMA OneProcInv ==
  ASSUME MemberInv, NEW a \in Addrs, NEW p \in Procs, StepOK(a, p),
         proc' = [proc EXCEPT ![a] = p],
         Serial => \/ p.st \in {"new", "member", "dead"} \/ Joining(a)
                   \/ \A c \in Addrs : ~Joining(c),
         UNCHANGED <<log, leader, elections, pend>>
  PROVE  MemberInv'
<1>1. /\ proc' \in [Addrs -> Procs] /\ proc'[a] = p
      /\ \A c \in Addrs \ {a} : proc'[c] = proc[c]
  BY DEF MemberInv, TypeInv
<1>2. OneJoins'
  BY <1>1 DEF MemberInv, OneJoins, Joining
<1>3. \A c \in Addrs : proc'[c] = proc[c] \/ StepOK(c, proc'[c])
  BY <1>1
<1> QED BY <1>1, <1>2, <1>3, ProcsInv

\* What is known of a process other than the first leader.
LEMMA ProcFacts ==
  ASSUME MemberInv, NEW a \in Addrs
  PROVE  /\ proc[a] \in Procs /\ Asks(proc[a])
         /\ proc[a].snap <= proc[a].applied /\ proc[a].applied <= Len(log)
         /\ elections = 0 /\ a # First =>
              JoinerOK(proc[a]) /\ WaiterOK(a, proc[a]) /\ MemberOK(a, proc[a])
         /\ elections = 0 /\ a = First => proc[a].st \in {"member", "dead"}
         /\ Serial /\ elections = 0 /\ Live(First) => TicketOK(a, proc[a])
BY DEF MemberInv, TypeInv, FirstInv, FirstOK, OthersOK, AddressInv, VotersOK

LEMMA RequestIdInv ==
  ASSUME MemberInv, NEW a \in Addrs, NEW b \in Addrs, RequestId(a, b)
  PROVE  MemberInv'
<1> DEFINE p == [proc[a] EXCEPT !.st = "asking", !.ask = b]
<1>1. proc[a] \in Procs
  BY ProcFacts
<1>2. /\ p \in Procs /\ Asks(p)
      /\ p.st = "asking" /\ p.id = proc[a].id /\ p.view = proc[a].view
      /\ p.snap = proc[a].snap /\ p.applied = proc[a].applied
  BY <1>1 DEF Procs, Asks, ProcState
<1>3. proc[a].st = "new" /\ proc' = [proc EXCEPT ![a] = p]
      /\ UNCHANGED <<log, leader, elections, pend>>
  BY DEF RequestId, MemberInv, TypeInv
<1> HIDE DEF p
<1>4. StepOK(a, p)
  BY <1>2, <1>3, ProcFacts DEF StepOK, JoinerOK, WaiterOK, MemberOK, TicketOK
<1>5. Serial => \A c \in Addrs : ~Joining(c)
  BY DEF RequestId
<1> QED BY <1>2, <1>3, <1>4, <1>5, OneProcInv

\* A process ends: nothing is asked of it any more.
LEMMA DeadOK ==
  ASSUME MemberInv, NEW a \in Addrs, elections = 0 => a # First
  PROVE  [proc[a] EXCEPT !.st = "dead"] \in Procs /\ StepOK(a, [proc[a] EXCEPT !.st = "dead"])
<1> DEFINE p == [proc[a] EXCEPT !.st = "dead"]
<1>1. proc[a] \in Procs
  BY ProcFacts
<1>2. /\ p \in Procs /\ Asks(p)
      /\ p.st = "dead" /\ p.id = proc[a].id /\ p.view = proc[a].view
      /\ p.snap = proc[a].snap /\ p.applied = proc[a].applied
  BY <1>1 DEF Procs, Asks, ProcState
<1> HIDE DEF p
<1>3. StepOK(a, p)
  BY <1>2, ProcFacts DEF StepOK, JoinerOK, WaiterOK, MemberOK, TicketOK
<1> QED BY <1>2, <1>3 DEF p

LEMMA DeadInv ==
  ASSUME MemberInv, NEW a \in Addrs, elections = 0 => a # First,
         proc' = [proc EXCEPT ![a].st = "dead"], UNCHANGED <<log, leader, elections, pend>>
  PROVE  MemberInv'
<1> DEFINE p == [proc[a] EXCEPT !.st = "dead"]
<1>1. p \in Procs /\ StepOK(a, p)
  BY DeadOK
<1>2. p.st = "dead"
  BY ProcFacts DEF Procs
<1>3. proc' = [proc EXCEPT ![a] = p]
  BY DEF MemberInv, TypeInv
<1> HIDE DEF p
<1> QED BY <1>1, <1>2, <1>3, OneProcInv

LEMMA BootstrapInv ==
  ASSUME MemberInv, NEW a \in Addrs, Bootstrap(a)
  PROVE  MemberInv'
<1> DEFINE t     == proc[a].ticket
           known == proc[a].applied > 0 /\ proc[a].id = t.id
           disk  == IF known THEN proc[a] ELSE [NewProc EXCEPT !.conf = DOMAIN t.peers]
           p     == [disk EXCEPT !.st = "booted", !.id = t.id, !.peers = t.peers, !.ticket = t]
<1>1. proc[a] \in Procs /\ t \in Tickets /\ NewProc \in Procs
  BY ProcFacts, NewProcType DEF Procs
<1>2. DOMAIN t.peers \subseteq Nat /\ t.peers \in PeerMaps /\ t.id \in Nat
  BY <1>1, PeerMapFacts DEF Tickets
<1>3. /\ disk \in Procs /\ disk.snap <= disk.applied /\ disk.applied <= Len(log)
      /\ disk.view = proc[a].view \/ disk.view = 0
  <2>1. CASE known
    BY <1>1, <2>1, ProcFacts
  <2>2. CASE ~known
    <3>1. disk \in Procs /\ disk.snap = 0 /\ disk.applied = 0 /\ disk.view = 0
      BY <1>1, <1>2, <2>2 DEF Procs, NewProc
    <3> QED BY <3>1 DEF MemberInv, TypeInv
  <2> QED BY <2>1, <2>2
<1>4. proc[a].st = "ticket" /\ proc' = [proc EXCEPT ![a] = p]
      /\ UNCHANGED <<log, leader, elections, pend>>
  BY DEF Bootstrap
<1>5. t.leader \in Addrs
  BY <1>4, ProcFacts DEF Asks
<1> HIDE DEF disk
<1>6. /\ p \in Procs /\ Asks(p)
      /\ p.st = "booted" /\ p.id = t.id /\ p.view = disk.view /\ p.ticket = t
      /\ p.snap = disk.snap /\ p.applied = disk.applied
  BY <1>1, <1>2, <1>3, <1>5 DEF Procs, Asks, ProcState
<1> HIDE DEF p
<1>7. StepOK(a, p)
  BY <1>3, <1>4, <1>6, ProcFacts DEF StepOK, JoinerOK, WaiterOK, MemberOK, TicketOK
<1> QED BY <1>4, <1>6, <1>7, OneProcInv DEF Joining

LEMMA AddPeersInv ==
  ASSUME MemberInv, NEW a \in Addrs, AddPeers(a)
  PROVE  MemberInv'
<1> DEFINE p == [proc[a] EXCEPT !.st = "added"]
<1>1. proc[a] \in Procs /\ proc[a].st = "booted"
  BY ProcFacts DEF AddPeers
<1>2. elections = 0 => a # First
  BY <1>1, ProcFacts
<1>3. CASE proc' = [proc EXCEPT ![a].st = "dead"]
  BY <1>2, <1>3, DeadInv DEF AddPeers
<1>4. CASE proc' = [proc EXCEPT ![a].st = "added"]
  <2>1. /\ p \in Procs /\ p.st = "added" /\ p.ask = proc[a].ask /\ p.ticket = proc[a].ticket
        /\ p.id = proc[a].id /\ p.view = proc[a].view
        /\ p.snap = proc[a].snap /\ p.applied = proc[a].applied
    BY <1>1 DEF Procs, ProcState
  <2>2. proc' = [proc EXCEPT ![a] = p]
    BY <1>4 DEF MemberInv, TypeInv
  <2> HIDE DEF p
  <2>3. StepOK(a, p)
    BY <1>1, <2>1, ProcFacts DEF StepOK, Asks, JoinerOK, WaiterOK, MemberOK, TicketOK
  <2> QED BY <1>1, <2>1, <2>2, <2>3, OneProcInv DEF Joining, AddPeers
<1> QED BY <1>3, <1>4 DEF AddPeers

LEMMA JoinClusterInv ==
  ASSUME MemberInv, NEW a \in Addrs, JoinCluster(a)
  PROVE  MemberInv'
<1> DEFINE p == [proc[a] EXCEPT !.st = "joining", !.ask = proc[a].ticket.leader, !.via = FALSE]
<1>1. proc[a] \in Procs /\ proc[a].st = "added" /\ proc[a].ticket.leader \in Addrs
  BY ProcFacts DEF JoinCluster, Asks
<1>2. /\ p \in Procs /\ p.st = "joining" /\ p.ask = proc[a].ticket.leader /\ p.via = FALSE
      /\ p.ticket = proc[a].ticket /\ p.id = proc[a].id /\ p.view = proc[a].view
      /\ p.snap = proc[a].snap /\ p.applied = proc[a].applied
  BY <1>1 DEF Procs, ProcState
<1>3. proc' = [proc EXCEPT ![a] = p] /\ UNCHANGED <<log, leader, elections, pend>>
  BY DEF JoinCluster, MemberInv, TypeInv
<1> HIDE DEF p
<1>4. StepOK(a, p)
  BY <1>1, <1>2, ProcFacts DEF StepOK, Asks, JoinerOK, WaiterOK, MemberOK, TicketOK
<1> QED BY <1>1, <1>2, <1>3, <1>4, OneProcInv DEF Joining

LEMMA RetryInv ==
  ASSUME MemberInv, NEW a \in Addrs, Retry(a)
  PROVE  MemberInv'
<1> DEFINE p == [NewProc EXCEPT !.id = proc[a].id, !.conf = proc[a].conf,
                                !.applied = proc[a].applied, !.first = proc[a].first,
                                !.snap = proc[a].snap]
<1>1. proc[a] \in Procs /\ NewProc \in Procs /\ a # First
  BY ProcFacts, NewProcType DEF Retry
<1>2. /\ p \in Procs /\ p.st = "new" /\ p.id = proc[a].id /\ p.view = 0
      /\ p.snap = proc[a].snap /\ p.applied = proc[a].applied
  BY <1>1 DEF Procs, NewProc
<1>3. proc' = [proc EXCEPT ![a] = p] /\ UNCHANGED <<log, leader, elections, pend>>
  BY DEF Retry
<1> HIDE DEF p
<1>4. StepOK(a, p)
  BY <1>1, <1>2, ProcFacts DEF StepOK, Asks, JoinerOK, WaiterOK, MemberOK, TicketOK
<1> QED BY <1>2, <1>3, <1>4, OneProcInv

\* As long as the first leader stays, only it answers as the leader.
LEMMA OnlyFirstLeads ==
  ASSUME MemberInv, elections = 0, NEW b \in Addrs
  PROVE  /\ b = First => IsLeader(b)
         /\ Handles(b) /\ IsLeader(b) => b = First
BY ProcFacts DEF MemberInv, FirstInv, FirstOK, Handles, IsLeader, JoinerOK

LEMMA HandleRequestIdInv ==
  ASSUME MemberInv, NEW a \in Addrs, HandleRequestId(a)
  PROVE  MemberInv'
<1>1. proc[a] \in Procs /\ proc[a].st = "asking" /\ proc[a].ask \in Addrs
  BY ProcFacts DEF HandleRequestId, Asks
<1>2. PICK b \in Addrs : b = proc[a].ask
  BY <1>1
<1>3. /\ Handles(b) /\ b # a /\ proc[b] \in Procs /\ (elections = 0 => a # First)
      /\ UNCHANGED <<log, leader, elections, pend>>
  BY <1>1, <1>2, ProcFacts DEF HandleRequestId, Handles
<1> DEFINE map == proc[b].peers
           id  == IF NodeIdByAddr(map, a) # 0 THEN NodeIdByAddr(map, a) ELSE ReserveId(map)
<1>4. map \in PeerMaps
  BY <1>3 DEF Procs
<1>5. /\ id \in Nat
      /\ id \in DOMAIN map => map[id] = a
      /\ 0 \notin DOMAIN map => \A v \in DOMAIN map : map[v] = a => id \in DOMAIN map /\ map[id] = a
      /\ 1 \in DOMAIN map /\ map[1] # a => id >= 2
  BY <1>4, NodeIdByAddrType, ReserveIdType, PeerMapFacts
<1> HIDE DEF id
<1>6. CASE /\ IsLeader(b)
           /\ proc' = [proc EXCEPT ![a].st = "ticket",
                                   ![a].ticket = [id |-> id, leader |-> b, peers |-> map]]
  <2> DEFINE t == [id |-> id, leader |-> b, peers |-> map]
             p == [proc[a] EXCEPT !.st = "ticket", !.ticket = t]
  <2>1. t \in Tickets /\ t.id = id /\ t.leader = b
    BY <1>4, <1>5 DEF Tickets
  <2>2. proc' = [proc EXCEPT ![a] = p]
    BY <1>6 DEF MemberInv, TypeInv
  <2> HIDE DEF t
  <2>3. /\ p \in Procs /\ p.st = "ticket" /\ p.ticket = t
        /\ p.id = proc[a].id /\ p.view = proc[a].view
        /\ p.snap = proc[a].snap /\ p.applied = proc[a].applied
    BY <1>1, <2>1 DEF Procs, ProcState
  <2> HIDE DEF p
  <2>4. elections = 0 => /\ b = First /\ First # a /\ id >= 2
                         /\ \A v \in DOMAIN map : map[v] = a => id \in DOMAIN map /\ map[id] = a
    BY <1>3, <1>5, <1>6, OnlyFirstLeads DEF MemberInv, FirstInv, FirstOK
  <2>5. elections = 0 => JoinerOK(p) /\ WaiterOK(a, p) /\ MemberOK(a, p)
    BY <1>3, <2>1, <2>3, <2>4, ProcFacts DEF JoinerOK, WaiterOK, MemberOK
  <2>6. Serial /\ elections = 0 /\ Live(First) => TicketOK(a, p)
    <3> SUFFICES ASSUME Serial, elections = 0, Live(First) PROVE TicketOK(a, p)
      OBVIOUS
    <3>1. \A v \in DOMAIN map : map[v] = a => v = proc[a].id
      BY <2>4, ProcFacts DEF TicketOK
    <3>2. \A v \in DOMAIN map : map[v] = a => v = id
      BY <2>4, <3>1
    <3> QED BY <1>5, <2>1, <2>3, <2>4, <3>1, <3>2 DEF TicketOK
  <2>7. StepOK(a, p)
    BY <1>3, <2>1, <2>3, <2>5, <2>6, ProcFacts DEF StepOK, Asks
  <2> QED BY <1>1, <1>3, <2>2, <2>3, <2>7, OneProcInv DEF Joining
<1>7. CASE Forwards(b) /\ proc' = [proc EXCEPT ![a].ask = LeaderAddr(b)]
  <2> DEFINE p == [proc[a] EXCEPT !.ask = LeaderAddr(b)]
  <2>1. LeaderAddr(b) \in Addrs
    BY <1>4, <1>7, PeerMapFacts DEF Forwards, LeaderAddr
  <2>2. /\ p \in Procs /\ p.st = "asking" /\ p.ask \in Addrs
        /\ p.id = proc[a].id /\ p.view = proc[a].view
        /\ p.snap = proc[a].snap /\ p.applied = proc[a].applied
    BY <1>1, <2>1 DEF Procs
  <2>3. proc' = [proc EXCEPT ![a] = p]
    BY <1>7 DEF MemberInv, TypeInv
  <2> HIDE DEF p
  <2>4. StepOK(a, p)
    BY <1>3, <2>2, ProcFacts DEF StepOK, Asks, JoinerOK, WaiterOK, MemberOK, TicketOK
  <2> QED BY <1>1, <1>3, <2>2, <2>3, <2>4, OneProcInv DEF Joining
<1>8. CASE ~IsLeader(b) /\ proc' = [proc EXCEPT ![a].st = "dead", ![b].st = "dead"]
  <2>1. elections = 0 => b # First
    BY <1>8, OnlyFirstLeads
  <2>2. /\ DOMAIN proc' = Addrs
        /\ proc'[a] = [proc[a] EXCEPT !.st = "dead"] /\ proc'[b] = [proc[b] EXCEPT !.st = "dead"]
        /\ \A c \in Addrs \ {a, b} : proc'[c] = proc[c]
    BY <1>3, <1>8 DEF MemberInv, TypeInv
  <2>3. /\ proc'[a] \in Procs /\ StepOK(a, proc'[a]) /\ proc'[a].st = "dead"
        /\ proc'[b] \in Procs /\ StepOK(b, proc'[b]) /\ proc'[b].st = "dead"
    BY <1>1, <1>3, <2>1, <2>2, DeadOK DEF Procs
  <2>4. \A c \in Addrs : proc'[c] = proc[c] \/ StepOK(c, proc'[c])
    BY <2>2, <2>3
  <2>5. proc' \in [Addrs -> Procs]
    <3>1. \A c \in Addrs : proc'[c] \in Procs
      BY <2>2, <2>3 DEF MemberInv, TypeInv
    <3>2. proc' = [c \in Addrs |-> proc'[c]]
      BY <1>8 DEF MemberInv, TypeInv
    <3> QED BY <3>1, <3>2
  <2>6. OneJoins'
    BY <2>2, <2>3, NobodyBegins DEF Joining
  <2> QED BY <1>3, <2>4, <2>5, <2>6, ProcsInv
<1>9. CASE proc' = [proc EXCEPT ![a].st = "dead"]
  BY <1>3, <1>9, DeadInv
<1> QED BY <1>2, <1>6, <1>7, <1>8, <1>9 DEF HandleRequestId, id

LEMMA ConnectionFailsInv ==
  ASSUME MemberInv, NEW a \in Addrs, ConnectionFails(a)
  PROVE  MemberInv'
<1>1. elections = 0 => a # First
  BY ProcFacts DEF ConnectionFails
<1> QED BY <1>1, DeadInv DEF ConnectionFails

\* The answer of a forwarded change_config is a success whatever it is; without
\* an election nothing is forwarded.
LEMMA ForwardedInv ==
  ASSUME MemberInv, NEW a \in Addrs, proc[a].st \in {"joining", "waiting"}, proc[a].via,
         proc' = [proc EXCEPT ![a].st = "member"], UNCHANGED <<log, leader, elections, pend>>
  PROVE  MemberInv'
<1> DEFINE p == [proc[a] EXCEPT !.st = "member"]
<1>1. proc[a] \in Procs /\ elections # 0
  BY ProcFacts DEF JoinerOK
<1>2. /\ p \in Procs /\ p.st = "member"
      /\ p.snap = proc[a].snap /\ p.applied = proc[a].applied
  BY <1>1 DEF Procs, ProcState
<1>3. proc' = [proc EXCEPT ![a] = p]
  BY DEF MemberInv, TypeInv
<1> HIDE DEF p
<1>4. StepOK(a, p)
  BY <1>1, <1>2, ProcFacts DEF StepOK, Asks
<1> QED BY <1>2, <1>3, <1>4, OneProcInv

LEMMA RequestTimeoutInv ==
  ASSUME MemberInv, NEW a \in Addrs, RequestTimeout(a)
  PROVE  MemberInv'
<1>1. elections = 0 => a # First
  BY ProcFacts DEF RequestTimeout
<1>2. CASE proc[a].via
  BY <1>2, ForwardedInv DEF RequestTimeout
<1>3. CASE ~proc[a].via
  BY <1>1, <1>3, DeadInv DEF RequestTimeout
<1> QED BY <1>2, <1>3

-----------------------------------------------------------------------------
(* Proposals *)

LEMMA ChangeTypes ==
  ASSUME NEW id \in Nat, NEW a \in Addrs, NEW b \in Addrs
  PROVE  /\ ConfChange("add", id, a, b) \in Changes
         /\ ConfChange("remove", id, NoAddr, b) \in Changes
         /\ NoChange \in Changes /\ Noop \in Changes
         /\ ConfChange("add", id, a, b) # NoChange
BY DEF ConfChange, Changes, NoChange, Noop

LEMMA ProcsType ==
  ASSUME TypeInv, proc' \in [Addrs -> Procs],
         \A c \in Addrs : \/ proc'[c] = proc[c]
                          \/ /\ Asks(proc'[c]) /\ proc'[c].snap <= proc'[c].applied
                             /\ proc'[c].applied <= Len(log),
         UNCHANGED log, leader' \in Addrs, pend' \in [Addrs -> Changes], elections' \in Nat
  PROVE  TypeInv'
BY DEF TypeInv

\* After an election only the types and the order of the joins are claimed.
LEMMA LaterInv ==
  ASSUME TypeInv', OneJoins', elections' # 0
  PROVE  MemberInv'
BY DEF MemberInv, FirstInv, AddressInv

\* The process a in handle_join waits from now on for the change e of b.
BeginsToWait(a, p, e, b) ==
  /\ Joining(a) /\ proc[a].st = "joining" /\ e = ConfChange("add", p.ticket.id, a, b)
  /\ p.st = "waiting" /\ p.ask = proc[a].ask /\ p.via = proc[a].via
  /\ p.ticket = proc[a].ticket /\ p.id = proc[a].id /\ p.view = proc[a].view
  /\ p.snap = proc[a].snap /\ p.applied = proc[a].applied

\* The leader b proposes the change e; nobody waits for another one.
LEMMA ProposeInv ==
  ASSUME MemberInv, NEW b \in Addrs, NEW e \in Changes, Handles(b), IsLeader(b),
         ~HasPendingConf(b), pend' = [pend EXCEPT ![b] = e],
         UNCHANGED <<log, leader, elections>>,
         elections = 0 => ChangeOK(e),
         NEW a \in Addrs, NEW p \in Procs, proc' = [proc EXCEPT ![a] = p],
         p = proc[a] \/ BeginsToWait(a, p, e, b)
  PROVE  MemberInv'
<1> USE DEF BeginsToWait
<1>1. /\ proc' \in [Addrs -> Procs] /\ proc'[a] = p
      /\ \A c \in Addrs \ {a} : proc'[c] = proc[c]
  BY DEF MemberInv, TypeInv
<1>2. /\ Asks(p) /\ p.snap <= p.applied /\ p.applied <= Len(log)
      /\ p.st \notin {"member"} \/ p = proc[a]
  BY ProcFacts DEF Asks
<1>3. TypeInv'
  <2>1. pend' \in [Addrs -> Changes]
    BY DEF MemberInv, TypeInv
  <2> QED BY <1>1, <1>2, <2>1, ProcsType DEF MemberInv, TypeInv
<1>4. OneJoins'
  BY <1>1 DEF MemberInv, OneJoins, Joining
<1>5. ASSUME elections = 0 PROVE FirstInv' /\ AddressInv'
  <2>1. /\ b = First /\ FirstOK /\ ChangesOK /\ OthersOK
        /\ proc'[First] = proc[First] /\ (p # proc[a] => a # First)
    BY <1>1, <1>5, OnlyFirstLeads, ProcFacts, MembershipAssumption DEF MemberInv, FirstInv
  <2>2. pend[First] = NoChange /\ proc[First].applied = Len(log)
    <3>1. proc[First] \in Procs /\ log \in Seq(Changes)
      BY <2>1, ProcFacts DEF MemberInv, TypeInv
    <3>2. pend[First] = NoChange /\ ~(proc[First].applied < Len(log))
      BY <2>1 DEF HasPendingConf
    <3>3. proc[First].applied \in Nat /\ Len(log) \in Nat
      BY <3>1 DEF Procs
    <3> QED BY <2>1, <3>2, <3>3 DEF FirstOK
  <2>3. \A c \in Addrs \ {First} : proc[c].st # "waiting"
    <3> SUFFICES ASSUME NEW c \in Addrs \ {First}, proc[c].st = "waiting" PROVE FALSE
      OBVIOUS
    <3>1. pend[First] = OwnChange(c, proc[c]) \/ proc[First].applied + 1 = Len(log)
      BY <2>1 DEF OthersOK, WaiterOK
    <3>2. OwnChange(c, proc[c]) # NoChange
      BY DEF OwnChange, ConfChange, NoChange
    <3>3. proc[First].applied \in Nat
      BY <2>1, ProcFacts DEF Procs
    <3> QED BY <2>2, <3>1, <3>2, <3>3
  <2>4. pend'[First] = e /\ \A c \in Addrs \ {First} : pend'[c] = NoChange
    BY <2>1 DEF MemberInv, TypeInv, ChangesOK
  <2>5. FirstOK' /\ ChangesOK'
    BY <1>5, <2>1, <2>2, <2>4 DEF FirstOK, ChangesOK, ChangeOK
  <2>6. ASSUME NEW c \in Addrs \ {First}
        PROVE  JoinerOK(proc'[c]) /\ WaiterOK(c, proc[c])' /\ MemberOK(c, proc[c])'
    <3>1. CASE c # a \/ p = proc[a]
      BY <1>1, <2>1, <2>3, <3>1 DEF OthersOK, WaiterOK, MemberOK
    <3>2. CASE c = a /\ p # proc[a]
      BY <1>1, <2>1, <2>2, <2>4, <3>2 DEF OthersOK, JoinerOK, WaiterOK, MemberOK, OwnChange
    <3> QED BY <3>1, <3>2
  <2>7. FirstInv'
    BY <2>5, <2>6 DEF FirstInv, OthersOK, JoinerOK
  <2>8. AddressInv'
    <3> SUFFICES ASSUME Serial, Live(First)' PROVE VotersOK'
      BY DEF AddressInv
    <3>1. VotersOK
      BY <1>5, <2>1 DEF Live, MemberInv, AddressInv
    <3>2. ASSUME NEW c \in Addrs PROVE TicketOK(c, proc[c])'
      BY <1>1, <2>1, <3>1 DEF VotersOK, TicketOK
    <3> QED BY <2>1, <3>1, <3>2 DEF VotersOK
  <2> QED BY <2>7, <2>8
<1>6. CASE elections # 0
  BY <1>3, <1>4, <1>6, LaterInv
<1> QED BY <1>3, <1>4, <1>5, <1>6 DEF MemberInv

LEMMA RemoveNodeInv ==
  ASSUME MemberInv, NEW b \in Addrs, NEW v \in proc[b].conf, RemoveNode(b, v)
  PROVE  MemberInv'
<1>1. v \in Nat /\ proc[b] \in Procs
  BY ProcFacts DEF Procs
<1>2. PICK e \in Changes : e = ConfChange("remove", v, NoAddr, b)
  BY <1>1, ChangeTypes
<1>3. elections = 0 => ChangeOK(e)
  BY <1>2, OnlyFirstLeads DEF RemoveNode, ChangeOK, ConfChange
<1>4. proc' = [proc EXCEPT ![b] = proc[b]]
  BY DEF RemoveNode, MemberInv, TypeInv
<1> QED BY <1>1, <1>2, <1>3, <1>4, ProposeInv DEF RemoveNode

LEMMA HandleChangeConfigInv ==
  ASSUME MemberInv, NEW a \in Addrs, HandleChangeConfig(a)
  PROVE  MemberInv'
<1>1. proc[a] \in Procs /\ proc[a].st = "joining" /\ proc[a].ask \in Addrs
  BY ProcFacts DEF HandleChangeConfig, Asks
<1>2. PICK b \in Addrs : b = proc[a].ask
  BY <1>1
<1>3. /\ Handles(b) /\ b # a /\ proc[b] \in Procs /\ (elections = 0 => a # First)
      /\ UNCHANGED <<log, leader, elections>>
  BY <1>1, <1>2, ProcFacts DEF HandleChangeConfig, Handles
<1>4. elections = 0 => b = First /\ IsLeader(b)
  BY <1>1, <1>2, <1>3, ProcFacts, OnlyFirstLeads DEF JoinerOK
<1>5. CASE /\ IsLeader(b) /\ ~HasPendingConf(b)
           /\ proc' = [proc EXCEPT ![a].st = "waiting"]
           /\ pend' = [pend EXCEPT ![b] = ConfChange("add", proc[a].ticket.id, a, b)]
  <2> DEFINE p == [proc[a] EXCEPT !.st = "waiting"]
  <2>1. /\ p \in Procs /\ p.st = "waiting" /\ p.ask = proc[a].ask /\ p.via = proc[a].via
        /\ p.ticket = proc[a].ticket /\ p.id = proc[a].id /\ p.view = proc[a].view
        /\ p.snap = proc[a].snap /\ p.applied = proc[a].applied
    BY <1>1 DEF Procs, ProcState
  <2>2. proc' = [proc EXCEPT ![a] = p]
    BY <1>5 DEF MemberInv, TypeInv
  <2> HIDE DEF p
  <2>3. proc[a].ticket.id \in Nat
    BY <1>1 DEF Procs, Tickets
  <2>4. PICK e \in Changes : e = ConfChange("add", proc[a].ticket.id, a, b)
    BY <2>3, ChangeTypes
  <2>5. elections = 0 => ChangeOK(e)
    BY <1>1, <1>3, <1>4, <2>4, ProcFacts DEF ChangeOK, ConfChange, JoinerOK
  <2>6. Joining(a)
    BY <1>1 DEF Joining
  <2>7. pend' = [pend EXCEPT ![b] = e] /\ BeginsToWait(a, p, e, b)
    BY <1>1, <1>5, <2>1, <2>4, <2>6 DEF BeginsToWait
  <2> QED BY <1>3, <1>5, <2>1, <2>2, <2>5, <2>7, ProposeInv
<1>6. CASE /\ UNCHANGED pend
           /\ proc' = [proc EXCEPT ![a].st = IF proc[a].via THEN "member" ELSE "dead"]
  <2>1. CASE proc[a].via
    BY <1>1, <1>3, <1>6, <2>1, ForwardedInv
  <2>2. CASE ~proc[a].via
    BY <1>3, <1>6, <2>2, DeadInv
  <2> QED BY <2>1, <2>2
<1>7. CASE /\ ~IsLeader(b) /\ Forwards(b) /\ UNCHANGED pend
           /\ proc' = [proc EXCEPT ![a].ask = LeaderAddr(b), ![a].via = TRUE]
  <2> DEFINE p == [proc[a] EXCEPT !.ask = LeaderAddr(b), !.via = TRUE]
  <2>1. LeaderAddr(b) \in Addrs /\ elections # 0
    BY <1>3, <1>4, <1>7, PeerMapFacts DEF Forwards, LeaderAddr, Procs
  <2>2. /\ p \in Procs /\ p.st = "joining" /\ p.ask \in Addrs
        /\ p.snap = proc[a].snap /\ p.applied = proc[a].applied
    BY <1>1, <2>1 DEF Procs
  <2>3. proc' = [proc EXCEPT ![a] = p]
    BY <1>7 DEF MemberInv, TypeInv
  <2> HIDE DEF p
  <2>4. StepOK(a, p)
    BY <2>1, <2>2, ProcFacts DEF StepOK, Asks
  <2> QED BY <1>1, <1>3, <1>7, <2>2, <2>3, <2>4, OneProcInv DEF Joining
<1>8. CASE /\ ~IsLeader(b) /\ UNCHANGED pend
           /\ proc' = [proc EXCEPT ![a].st = IF proc[a].via THEN "member" ELSE "dead",
                                   ![b].st = "dead"]
  <2> DEFINE st == IF proc[a].via THEN "member" ELSE "dead"
             p == [proc[a] EXCEPT !.st = st]
             q == [proc[b] EXCEPT !.st = "dead"]
  <2>1. elections # 0
    BY <1>4, <1>8
  <2>2. /\ proc' = [c \in Addrs |-> proc'[c]] /\ proc'[a] = p /\ proc'[b] = q
        /\ \A c \in Addrs \ {a, b} : proc'[c] = proc[c]
    BY <1>3, <1>8 DEF MemberInv, TypeInv
  <2>3. /\ p \in Procs /\ p.st \in {"member", "dead"}
        /\ p.snap = proc[a].snap /\ p.applied = proc[a].applied
        /\ q \in Procs /\ q.st = "dead"
        /\ q.snap = proc[b].snap /\ q.applied = proc[b].applied
    BY <1>1, <1>3 DEF Procs, ProcState
  <2> HIDE DEF p, q
  <2>4. StepOK(a, p) /\ StepOK(b, q)
    BY <2>1, <2>3, ProcFacts DEF StepOK, Asks
  <2>5. \A c \in Addrs : proc'[c] \in Procs /\ (proc'[c] = proc[c] \/ StepOK(c, proc'[c]))
    BY <2>2, <2>3, <2>4, ProcFacts
  <2>6. proc' \in [Addrs -> Procs]
    BY <2>2, <2>5
  <2>7. OneJoins'
    BY <2>2, <2>3, NobodyBegins DEF Joining
  <2> QED BY <1>3, <1>8, <2>5, <2>6, <2>7, ProcsInv
<1> QED BY <1>2, <1>5, <1>6, <1>7, <1>8 DEF HandleChangeConfig

-----------------------------------------------------------------------------
(* Applying conf changes *)

\* What applying the entry e makes of the node p.
LEMMA AppliedFacts ==
  ASSUME NEW p \in Procs, NEW e \in Changes
  PROVE  LET q == Applied(p, e)
         IN  /\ q \in Procs /\ q.st \in {p.st, "dead"}
             /\ q.id = p.id /\ q.view = p.view /\ q.ask = p.ask /\ q.via = p.via
             /\ q.ticket = p.ticket /\ q.applied = p.applied + 1
             /\ q.snap \in {p.snap, p.applied + 1}
             /\ e.kind = "add" => /\ q.peers = AddPeer(p.peers, e.id, e.addr) /\ q.st = p.st
                                  /\ q.conf = p.conf \cup {e.id}
             /\ e.kind = "remove" /\ e.id = p.id => q.st = "dead" /\ q.peers = p.peers
             /\ e.kind = "remove" /\ e.id # p.id =>
                  /\ q.peers = RemovePeer(p.peers, e.id)
                  /\ q.conf = p.conf \ {e.id} \/ p.conf = {e.id}
             /\ e.kind \in {"noop", "none"} => q.peers = p.peers
             /\ e.kind = "noop" => q.conf = p.conf
<1> DEFINE last  == e.kind = "remove" /\ p.conf = {e.id}
           peers == IF e.kind = "add" THEN AddPeer(p.peers, e.id, e.addr)
                    ELSE IF e.kind = "remove" /\ e.id # p.id
                    THEN RemovePeer(p.peers, e.id) ELSE p.peers
           st    == IF e.kind = "remove" /\ e.id = p.id THEN "dead" ELSE p.st
           conf  == IF e.kind = "add" THEN p.conf \cup {e.id} ELSE p.conf \ {e.id}
           first == Max({p.first, p.applied})
           moved == [p EXCEPT !.applied = p.applied + 1, !.peers = peers, !.st = st]
           q     == [moved EXCEPT !.conf = conf, !.first = first, !.snap = p.applied + 1]
<1>1. /\ p.peers \in PeerMaps /\ e.id \in Nat /\ (e.kind = "add" => e.addr \in Addrs)
      /\ p.applied \in Nat /\ p.first \in Nat /\ p.conf \subseteq Nat
  BY DEF Procs, Changes
<1>2. peers \in PeerMaps
  BY <1>1, AddPeerType, RemovePeerType
<1>3. st \in ProcState /\ conf \subseteq Nat /\ first \in Nat /\ p.applied + 1 \in Nat
  BY <1>1, MaxOfTwo DEF Procs, ProcState
<1>4. Applied(p, e) = IF e.kind = "noop" \/ last THEN moved ELSE q
  <2>1. /\ moved.conf = p.conf /\ moved.first = p.first
    BY DEF Procs
  <2> QED BY <2>1 DEF Applied
<1> HIDE DEF peers, st, conf, first
<1>5. /\ moved \in Procs /\ moved.st = st /\ moved.id = p.id /\ moved.view = p.view
      /\ moved.ask = p.ask /\ moved.via = p.via /\ moved.ticket = p.ticket
      /\ moved.applied = p.applied + 1 /\ moved.snap = p.snap /\ moved.peers = peers
      /\ moved.conf = p.conf
  BY <1>2, <1>3 DEF Procs
<1> HIDE DEF moved
<1>6. /\ q \in Procs /\ q.st = st /\ q.id = p.id /\ q.view = p.view
      /\ q.ask = p.ask /\ q.via = p.via /\ q.ticket = p.ticket
      /\ q.applied = p.applied + 1 /\ q.snap = p.applied + 1 /\ q.peers = peers
      /\ q.conf = conf
  BY <1>3, <1>5 DEF Procs
<1> HIDE DEF q
<1>7. CASE e.kind = "noop" \/ last
  BY <1>4, <1>5, <1>7 DEF peers, st
<1>8. CASE ~(e.kind = "noop" \/ last)
  BY <1>4, <1>6, <1>8 DEF peers, st, conf
<1> QED BY <1>7, <1>8

\* The entry that b applies next, and what b becomes.
NextEntry(b) == log[proc[b].applied + 1]
Waits(e) == {a \in Addrs : a = e.addr /\ proc[a].st = "waiting"}
NobodyListens(b, e) == e.kind = "add" /\ e.by = b /\ Waits(e) = {}

LEMMA ApplyFacts ==
  ASSUME MemberInv, NEW b \in Addrs, Apply(b)
  PROVE  /\ proc[b].applied + 1 \in 1 .. Len(log) /\ NextEntry(b) \in Changes
         /\ proc[b] \in Procs /\ Handles(b)
         /\ NobodyListens(b, NextEntry(b)) =>
              proc' = [proc EXCEPT ![b] = [Applied(proc[b], NextEntry(b)) EXCEPT !.st = "dead"]]
         /\ ~NobodyListens(b, NextEntry(b)) =>
              proc' = [a \in Addrs |->
                         IF a = b THEN Applied(proc[b], NextEntry(b))
                         ELSE IF NextEntry(b).by = b /\ a \in Waits(NextEntry(b))
                         THEN [proc[a] EXCEPT !.st = "member"] ELSE proc[a]]
         /\ UNCHANGED <<log, leader, pend, elections>>
<1>1. proc[b] \in Procs /\ log \in Seq(Changes)
  BY ProcFacts DEF MemberInv, TypeInv
<1>2. proc[b].applied \in Nat
  BY <1>1 DEF Procs
<1>3. proc[b].applied + 1 <= Len(log)
  BY DEF Apply
<1>4. proc[b].applied + 1 \in 1 .. Len(log) /\ NextEntry(b) \in Changes
  BY <1>1, <1>2, <1>3 DEF NextEntry
<1> QED BY <1>1, <1>4 DEF Apply, NextEntry, NobodyListens, Waits

\* The node b after it, dead or alive.
LEMMA AppliedOK ==
  ASSUME MemberInv, NEW b \in Addrs, Apply(b), NEW q,
         \/ q = Applied(proc[b], NextEntry(b))
         \/ q = [Applied(proc[b], NextEntry(b)) EXCEPT !.st = "dead"]
  PROVE  /\ q \in Procs /\ q.st \in {proc[b].st, "dead"} /\ Asks(q)
         /\ q.id = proc[b].id /\ q.view = proc[b].view /\ q.ask = proc[b].ask
         /\ q.via = proc[b].via /\ q.ticket = proc[b].ticket
         /\ q.applied = proc[b].applied + 1 /\ q.snap <= q.applied /\ q.applied <= Len(log)
<1>1. proc[b] \in Procs /\ NextEntry(b) \in Changes /\ proc[b].applied + 1 \in 1 .. Len(log)
  BY ApplyFacts
<1>2. PICK r : r = Applied(proc[b], NextEntry(b))
  OBVIOUS
<1>3. /\ r \in Procs /\ r.st \in {proc[b].st, "dead"}
      /\ r.id = proc[b].id /\ r.view = proc[b].view /\ r.ask = proc[b].ask
      /\ r.via = proc[b].via /\ r.ticket = proc[b].ticket
      /\ r.applied = proc[b].applied + 1 /\ r.snap \in {proc[b].snap, proc[b].applied + 1}
  BY <1>1, <1>2, AppliedFacts
<1>4. /\ q \in Procs /\ q.st \in {proc[b].st, "dead"}
      /\ q.id = r.id /\ q.view = r.view /\ q.ask = r.ask /\ q.via = r.via
      /\ q.ticket = r.ticket /\ q.applied = r.applied /\ q.snap = r.snap
  BY <1>2, <1>3 DEF Procs, ProcState
<1>5. Asks(q)
  BY <1>3, <1>4, ProcFacts DEF Asks
<1>6. q.snap <= q.applied /\ q.applied <= Len(log)
  <2>1. /\ proc[b].snap \in Nat /\ proc[b].applied \in Nat /\ proc[b].snap <= proc[b].applied
        /\ Len(log) \in Nat
    BY <1>1, ProcFacts DEF Procs, MemberInv, TypeInv
  <2> QED BY <1>1, <1>3, <1>4, <2>1
<1> QED BY <1>3, <1>4, <1>5, <1>6

\* The waiting process that is answered.
LEMMA AnsweredOK ==
  ASSUME MemberInv, NEW a \in Addrs, NEW q, q = [proc[a] EXCEPT !.st = "member"]
  PROVE  /\ q \in Procs /\ q.st = "member" /\ Asks(q)
         /\ q.id = proc[a].id /\ q.view = proc[a].view /\ q.ticket = proc[a].ticket
         /\ q.snap <= q.applied /\ q.applied <= Len(log)
<1>1. proc[a] \in Procs
  BY ProcFacts
<1>2. /\ q \in Procs /\ q.st = "member"
      /\ q.id = proc[a].id /\ q.view = proc[a].view /\ q.ticket = proc[a].ticket
      /\ q.snap = proc[a].snap /\ q.applied = proc[a].applied
  BY <1>1 DEF Procs, ProcState
<1> QED BY <1>2, ProcFacts DEF Asks

LEMMA ApplyType ==
  ASSUME MemberInv, NEW b \in Addrs, Apply(b)
  PROVE  /\ TypeInv' /\ OneJoins'
         /\ proc'[b].st \in {proc[b].st, "dead"}
<1>1. /\ UNCHANGED <<log, leader, pend, elections>>
      /\ \/ proc'[b] = Applied(proc[b], NextEntry(b))
         \/ proc'[b] = [Applied(proc[b], NextEntry(b)) EXCEPT !.st = "dead"]
  BY ApplyFacts DEF MemberInv, TypeInv
<1>2. ASSUME NEW c \in Addrs, c # b
      PROVE  proc'[c] = proc[c] \/ proc'[c] = [proc[c] EXCEPT !.st = "member"]
  BY <1>2, ApplyFacts DEF MemberInv, TypeInv
<1>3. proc' = [c \in Addrs |-> proc'[c]]
  BY ApplyFacts DEF MemberInv, TypeInv
<1>4. /\ proc'[b] \in Procs /\ Asks(proc'[b]) /\ proc'[b].snap <= proc'[b].applied
      /\ proc'[b].applied <= Len(log) /\ proc'[b].st \in {proc[b].st, "dead"}
  BY <1>1, AppliedOK
<1>5. ASSUME NEW c \in Addrs, proc'[c] # proc[c]
      PROVE  /\ proc'[c] \in Procs /\ Asks(proc'[c])
             /\ proc'[c].snap <= proc'[c].applied /\ proc'[c].applied <= Len(log)
  BY <1>2, <1>4, <1>5, AnsweredOK
<1>6. proc' \in [Addrs -> Procs]
  <2>1. \A c \in Addrs : proc'[c] \in Procs
    BY <1>5, ProcFacts
  <2> QED BY <1>3, <2>1
<1>7. TypeInv'
  BY <1>1, <1>5, <1>6, ProcsType DEF MemberInv, TypeInv
<1>8. ASSUME NEW c \in Addrs, Joining(c)' PROVE Joining(c)
  BY <1>2, <1>4, <1>8, AnsweredOK DEF Joining
<1> QED BY <1>4, <1>7, <1>8, NobodyBegins

\* A node other than the first leader applies an entry: nobody is answered.
LEMMA ApplyElsewhere ==
  ASSUME MemberInv, NEW b \in Addrs, Apply(b), elections = 0, b # First
  PROVE  MemberInv'
<1> DEFINE q == Applied(proc[b], NextEntry(b))
<1>1. NextEntry(b).by # b
  BY ApplyFacts, MembershipAssumption DEF NextEntry, MemberInv, FirstInv, ChangesOK, ChangeOK
<1>2. proc' = [proc EXCEPT ![b] = q]
  BY <1>1, ApplyFacts DEF NobodyListens, MemberInv, TypeInv
<1>3. /\ q \in Procs /\ q.st \in {proc[b].st, "dead"} /\ Asks(q)
      /\ q.id = proc[b].id /\ q.view = proc[b].view /\ q.ask = proc[b].ask
      /\ q.via = proc[b].via /\ q.ticket = proc[b].ticket
      /\ q.applied = proc[b].applied + 1 /\ q.snap <= q.applied /\ q.applied <= Len(log)
  BY AppliedOK
<1> HIDE DEF q
<1>4. StepOK(b, q)
  BY <1>3, ProcFacts DEF StepOK, JoinerOK, WaiterOK, MemberOK, TicketOK, OwnChange
<1>5. q.st \in {"new", "member", "dead"} \/ Joining(b)
  BY <1>3, ApplyFacts DEF Handles, Joining
<1> QED BY <1>2, <1>3, <1>4, <1>5, ApplyFacts, OneProcInv

\* The first leader applies the change that was under way.
LEMMA ApplyAtFirst ==
  ASSUME MemberInv, Apply(First), elections = 0
  PROVE  MemberInv'
<1>1. First \in Addrs /\ NoAddr \notin Addrs
  BY MembershipAssumption
<1>2. /\ FirstOK /\ ChangesOK /\ OthersOK /\ UNCHANGED <<log, leader, pend, elections>>
      /\ proc[First] \in Procs /\ log \in Seq(Changes)
      /\ proc[First].applied + 1 \in 1 .. Len(log) /\ NextEntry(First) \in Changes
  BY <1>1, ApplyFacts DEF MemberInv, FirstInv, TypeInv
<1>3. PICK e \in Changes : e = NextEntry(First)
  BY <1>2
<1>4. /\ proc[First].applied + 1 = Len(log) /\ e = log[Len(log)] /\ pend[First] = NoChange
      /\ proc[First].applied \in Nat /\ Len(log) \in Nat /\ Len(log) \in 1 .. Len(log)
  <2>1. proc[First].applied \in Nat /\ Len(log) \in Nat
    BY <1>2 DEF Procs
  <2> QED BY <1>2, <1>3, <2>1 DEF FirstOK, NextEntry
<1>5. ChangeOK(e) /\ e # NoChange /\ e.kind # "none"
  BY <1>2, <1>4 DEF ChangesOK, ChangeOK
<1>6. PICK q : q = Applied(proc[First], e)
  OBVIOUS
<1>7. PICK f : f = proc'[First]
  OBVIOUS
<1>8. f = IF NobodyListens(First, e) THEN [q EXCEPT !.st = "dead"] ELSE q
  BY <1>1, <1>2, <1>3, <1>6, <1>7, ApplyFacts DEF MemberInv, TypeInv
<1>9. /\ q \in Procs /\ f \in Procs /\ f.peers = q.peers /\ f.conf = q.conf
      /\ f.st \in {proc[First].st, "dead"} /\ f.id = 1 /\ f.view = 1 /\ f.applied = Len(log)
      /\ (NobodyListens(First, e) => f.st = "dead")
  <2>1. /\ f \in Procs /\ f.st \in {proc[First].st, "dead"} /\ f.id = 1 /\ f.view = 1
        /\ f.applied = Len(log)
    BY <1>1, <1>2, <1>3, <1>4, <1>6, <1>8, AppliedOK DEF FirstOK
  <2>2. q \in Procs
    BY <1>2, <1>6, AppliedFacts
  <2> QED BY <1>8, <2>1, <2>2 DEF Procs
<1>10. proc[First].st = "member" /\ Live(First)
  BY <1>1, <1>2, ApplyFacts DEF FirstOK, Handles, Live
<1> DEFINE map == proc[First].peers
<1>11. map \in PeerMaps /\ e.id \in Nat /\ (e.kind = "add" => e.addr \in Addrs)
  BY <1>2 DEF Procs, Changes
<1>12. /\ e.kind = "add" => /\ f.peers = AddPeer(map, e.id, e.addr)
                            /\ f.conf = proc[First].conf \cup {e.id}
       /\ e.kind = "remove" /\ e.id = 1 => f.st = "dead" /\ f.peers = map
       /\ e.kind = "remove" /\ e.id # 1 =>
            /\ f.peers = RemovePeer(map, e.id)
            /\ f.conf = proc[First].conf \ {e.id} \/ proc[First].conf = {e.id}
       /\ e.kind = "noop" => f.peers = map /\ f.conf = proc[First].conf
  <2>1. proc[First].id = 1
    BY <1>2 DEF FirstOK
  <2>2. /\ e.kind = "add" => /\ q.peers = AddPeer(map, e.id, e.addr)
                             /\ q.conf = proc[First].conf \cup {e.id}
        /\ e.kind = "remove" /\ e.id = 1 => q.st = "dead" /\ q.peers = map
        /\ e.kind = "remove" /\ e.id # 1 =>
             /\ q.peers = RemovePeer(map, e.id)
             /\ q.conf = proc[First].conf \ {e.id} \/ proc[First].conf = {e.id}
        /\ e.kind = "noop" => q.peers = map /\ q.conf = proc[First].conf
    <3>1. PICK p \in Procs : p = proc[First]
      BY <1>2
    <3>2. /\ e.kind = "add" => /\ q.peers = AddPeer(p.peers, e.id, e.addr)
                               /\ q.conf = p.conf \cup {e.id}
          /\ e.kind = "remove" /\ e.id = p.id => q.st = "dead" /\ q.peers = p.peers
          /\ e.kind = "remove" /\ e.id # p.id =>
               /\ q.peers = RemovePeer(p.peers, e.id)
               /\ q.conf = p.conf \ {e.id} \/ p.conf = {e.id}
          /\ e.kind = "noop" => q.peers = p.peers /\ q.conf = p.conf
      BY <1>6, <3>1, AppliedFacts
    <3> QED BY <2>1, <3>1, <3>2
  <2>3. e.kind = "remove" => f.st = q.st
    BY <1>8 DEF NobodyListens
  <2> QED BY <1>9, <2>2, <2>3
<1> HIDE DEF map
<1>12a. ASSUME e.kind = "add"
       PROVE  /\ DOMAIN f.peers = DOMAIN map \cup {e.id} /\ f.peers[e.id] = e.addr
              /\ \A v \in DOMAIN map : v # e.id => f.peers[v] = map[v]
  <2>1. f.peers = AddPeer(map, e.id, e.addr)
    BY <1>12, <1>12a
  <2>2. /\ DOMAIN AddPeer(map, e.id, e.addr) = DOMAIN map \cup {e.id}
        /\ AddPeer(map, e.id, e.addr)[e.id] = e.addr
        /\ \A v \in DOMAIN map : v # e.id => AddPeer(map, e.id, e.addr)[v] = map[v]
    BY DEF AddPeer
  <2> QED BY <2>1, <2>2
<1>12b. ASSUME e.kind = "remove", e.id # 1
       PROVE  /\ DOMAIN f.peers = DOMAIN map \ {e.id}
              /\ \A v \in DOMAIN map \ {e.id} : f.peers[v] = map[v]
  <2>1. f.peers = RemovePeer(map, e.id)
    BY <1>12, <1>12b
  <2>2. /\ DOMAIN RemovePeer(map, e.id) = DOMAIN map \ {e.id}
        /\ \A v \in DOMAIN map \ {e.id} : RemovePeer(map, e.id)[v] = map[v]
    BY <1>11, RemovePeerType
  <2> QED BY <2>1, <2>2
<1>13. 1 \in DOMAIN f.peers /\ f.peers[1] = First /\ 0 \notin DOMAIN f.peers
  <2>1. 1 \in DOMAIN map /\ map[1] = First /\ 0 \notin DOMAIN map
    BY <1>2 DEF FirstOK, map
  <2>2. CASE e.kind = "add"
    <3>1. e.id >= 2 /\ e.id # 1 /\ e.id # 0
      BY <1>5, <1>11, <2>2 DEF ChangeOK
    <3> QED BY <1>12a, <2>1, <2>2, <3>1
  <2>3. CASE e.kind = "remove"
    <3>1. e.id = 1 => f.peers = map
      BY <1>12, <2>3
    <3> QED BY <1>12b, <2>1, <2>3, <3>1
  <2>4. CASE e.kind = "noop"
    BY <1>12, <2>1, <2>4
  <2> QED BY <1>5, <2>2, <2>3, <2>4 DEF Changes
<1>14. FirstOK' /\ ChangesOK'
  BY <1>2, <1>7, <1>9, <1>10, <1>13 DEF FirstOK, ChangesOK, ChangeOK
<1>15. ASSUME NEW c \in Addrs \ {First}
       PROVE  \/ proc'[c] = proc[c] /\ proc[c].st # "waiting"
              \/ /\ proc[c].st = "waiting" /\ proc'[c] = [proc[c] EXCEPT !.st = "member"]
                 /\ e = OwnChange(c, proc[c]) /\ c = e.addr
  <2>1. proc[c].st = "waiting" => e = OwnChange(c, proc[c])
    <3>1. OwnChange(c, proc[c]) # NoChange
      BY DEF OwnChange, ConfChange, NoChange
    <3> QED BY <1>2, <1>4, <3>1 DEF OthersOK, WaiterOK
  <2>2. CASE proc[c].st = "waiting"
    <3>1. e.kind = "add" /\ e.addr = c /\ e.by = First
      BY <2>1, <2>2 DEF OwnChange, ConfChange
    <3>2. c \in Waits(e) /\ ~NobodyListens(First, e)
      BY <2>2, <3>1 DEF Waits, NobodyListens
    <3> QED BY <1>1, <1>3, <2>1, <2>2, <3>1, <3>2, ApplyFacts
  <2>3. CASE proc[c].st # "waiting"
    <3>1. c \notin Waits(e)
      BY <2>3 DEF Waits
    <3> QED BY <1>1, <1>3, <2>3, <3>1, ApplyFacts DEF MemberInv, TypeInv
  <2> QED BY <2>2, <2>3
<1>16. ASSUME NEW c \in Addrs \ {First}
       PROVE  JoinerOK(proc'[c]) /\ WaiterOK(c, proc[c])' /\ MemberOK(c, proc[c])'
  <2>1. CASE proc'[c] = proc[c] /\ proc[c].st # "waiting"
    BY <1>2, <2>1 DEF OthersOK, WaiterOK, MemberOK
  <2>2. CASE /\ proc[c].st = "waiting" /\ proc'[c] = [proc[c] EXCEPT !.st = "member"]
             /\ e = OwnChange(c, proc[c])
    <3>1. PICK p : p = proc'[c]
      OBVIOUS
    <3>2. p.st = "member" /\ p.id = proc[c].id /\ p.view = proc[c].view
      BY <2>2, <3>1, AnsweredOK
    <3>3. JoinerOK(proc[c])
      BY <1>2 DEF OthersOK
    <3>4. JoinerOK(p)
      BY <2>2, <3>2, <3>3 DEF JoinerOK
    <3>5. log[Len(log)].kind = "add" /\ log[Len(log)].id = p.id /\ log[Len(log)].addr = c
      BY <1>4, <2>2, <3>2, <3>3 DEF OwnChange, ConfChange, JoinerOK
    <3> QED BY <1>2, <1>4, <3>1, <3>2, <3>4, <3>5 DEF WaiterOK, MemberOK
  <2> QED BY <1>15, <2>1, <2>2
<1>17. FirstInv'
  BY <1>14, <1>16 DEF FirstInv, OthersOK, JoinerOK
<1>18. AddressInv'
  <2> SUFFICES ASSUME Serial, Live(First)' PROVE VotersOK'
    BY DEF AddressInv
  <2>1. VotersOK /\ OneJoins /\ f.st # "dead" /\ ~NobodyListens(First, e)
    BY <1>7, <1>9, <1>10 DEF MemberInv, AddressInv, Live
  <2>2. CASE e.kind = "add"
    <3>1. PICK c \in Waits(e) : TRUE
      BY <1>5, <2>1, <2>2 DEF NobodyListens, ChangeOK
    <3>2. c \in Addrs \ {First} /\ proc[c].st = "waiting" /\ c = e.addr
      BY <1>10, <3>1 DEF Waits
    <3>3. /\ proc'[c].st = "member" /\ proc'[c].id = proc[c].id
          /\ e.id = proc[c].ticket.id /\ e.id = proc[c].id
      <4>1. proc'[c] = [proc[c] EXCEPT !.st = "member"] /\ e = OwnChange(c, proc[c])
        BY <1>15, <3>2
      <4>2. JoinerOK(proc[c])
        BY <1>2, <3>2 DEF OthersOK
      <4> QED BY <3>2, <4>1, <4>2, AnsweredOK DEF OwnChange, ConfChange, JoinerOK
    <3>4. /\ DOMAIN f.peers = DOMAIN map \cup {e.id} /\ f.peers[e.id] = c
          /\ \A v \in DOMAIN map : v # e.id => f.peers[v] = map[v]
      BY <1>12a, <2>2, <3>2
    <3>5. ASSUME NEW d \in Addrs, d # c PROVE TicketOK(d, proc[d])'
      <4>1. /\ proc'[d].id = proc[d].id
            /\ proc'[d].st \notin {"ticket", "booted", "added", "joining", "waiting"}
        <5>1. CASE d = First
          BY <1>2, <1>7, <1>9, <1>10, <5>1 DEF FirstOK
        <5>2. CASE d # First
          <6>1. ~Joining(d)
            BY <2>1, <3>2, <3>5 DEF OneJoins, Joining
          <6>2. proc'[d] = proc[d]
            BY <1>15, <3>2, <3>5, <5>2
          <6> QED BY <6>1, <6>2 DEF Joining
        <5> QED BY <5>1, <5>2
      <4>2. \A v \in DOMAIN f.peers : f.peers[v] = d => proc[d].id = v
        BY <2>1, <3>4, <3>5 DEF VotersOK, TicketOK, map
      <4> QED BY <1>7, <4>1, <4>2 DEF TicketOK
    <3>6. TicketOK(c, proc[c])'
      <4>1. \A v \in DOMAIN f.peers : f.peers[v] = c => proc[c].id = v
        BY <2>1, <3>2, <3>3, <3>4 DEF VotersOK, TicketOK, map
      <4> QED BY <1>7, <3>3, <4>1 DEF TicketOK
    <3>7. 1 \in f.conf /\ f.conf \subseteq DOMAIN f.peers
      BY <1>12, <2>1, <2>2, <3>4 DEF VotersOK, map
    <3> QED BY <1>7, <3>5, <3>6, <3>7 DEF VotersOK
  <2>3. CASE e.kind # "add"
    <3>1. \A c \in Addrs \ {First} : proc'[c] = proc[c]
      <4>1. \A c \in Addrs : OwnChange(c, proc[c]).kind = "add"
        BY DEF OwnChange, ConfChange
      <4> QED BY <1>15, <2>3, <4>1
    <3>2. /\ DOMAIN f.peers \subseteq DOMAIN map /\ \A v \in DOMAIN f.peers : f.peers[v] = map[v]
          /\ 1 \in f.conf /\ f.conf \subseteq DOMAIN f.peers
      <4>1. CASE e.kind = "noop"
        BY <1>12, <2>1, <4>1 DEF VotersOK, map
      <4>2. CASE e.kind = "remove"
        <5>1. e.id # 1 /\ 1 \in proc[First].conf
          BY <1>12, <2>1, <4>2 DEF VotersOK
        <5>2. f.conf = proc[First].conf \ {e.id} /\ f.peers = RemovePeer(map, e.id)
          BY <1>12, <4>2, <5>1
        <5> QED BY <1>12b, <2>1, <4>2, <5>1, <5>2 DEF VotersOK, map
      <4> QED BY <1>5, <2>3, <4>1, <4>2 DEF Changes
    <3>3. ASSUME NEW d \in Addrs PROVE TicketOK(d, proc[d])'
      <4>1. TicketOK(d, proc[d])
        BY <2>1 DEF VotersOK
      <4>2. CASE d # First
        BY <1>7, <3>1, <3>2, <4>1, <4>2 DEF TicketOK, map
      <4>3. CASE d = First
        BY <1>2, <1>7, <1>9, <1>10, <3>2, <4>1, <4>3 DEF TicketOK, FirstOK, map
      <4> QED BY <4>2, <4>3
    <3> QED BY <1>7, <3>2, <3>3 DEF VotersOK
  <2> QED BY <2>2, <2>3
<1> QED BY <1>1, <1>17, <1>18, ApplyType DEF MemberInv

LEMMA ApplyInv ==
  ASSUME MemberInv, NEW b \in Addrs, Apply(b)
  PROVE  MemberInv'
<1>1. CASE elections # 0
  BY <1>1, ApplyType, ApplyFacts, LaterInv
<1> QED BY <1>1, ApplyElsewhere, ApplyAtFirst

LEMMA InstallSnapshotInv ==
  ASSUME MemberInv, NEW b \in Addrs, InstallSnapshot(b)
  PROVE  MemberInv'
<1>1. PICK l \in Procs : l = proc[leader] /\ l.snap <= Len(log) /\ l.snap \in Nat
  <2>1. leader \in Addrs /\ log \in Seq(Changes)
    BY DEF MemberInv, TypeInv
  <2>2. /\ proc[leader] \in Procs
        /\ proc[leader].snap <= proc[leader].applied /\ proc[leader].applied <= Len(log)
    BY <2>1, ProcFacts
  <2>3. proc[leader].snap \in Nat /\ proc[leader].applied \in Nat /\ Len(log) \in Nat
    BY <2>1, <2>2 DEF Procs
  <2> QED BY <2>2, <2>3
<1>0. PICK n \in Nat, m \in Nat, c \in SUBSET Nat : n = l.snap /\ m = l.snap + 1 /\ c = l.conf
  <2>1. l.snap \in Nat /\ l.conf \in SUBSET Nat
    BY <1>1 DEF Procs
  <2>2. l.snap + 1 \in Nat
    BY <2>1
  <2> QED BY <2>1, <2>2, Zenon
<1> DEFINE q == [proc[b] EXCEPT !.applied = n, !.conf = c, !.snap = n, !.first = m]
<1>2. /\ proc' = [proc EXCEPT ![b] = q] /\ Handles(b) /\ b # leader
      /\ UNCHANGED <<log, leader, pend, elections>>
  BY <1>0, <1>1 DEF InstallSnapshot, MemberInv, TypeInv
<1>3. proc[b] \in Procs
  BY ProcFacts
<1>4. /\ q \in Procs /\ q.st = proc[b].st /\ q.id = proc[b].id /\ q.view = proc[b].view
      /\ q.ask = proc[b].ask /\ q.via = proc[b].via /\ q.ticket = proc[b].ticket
      /\ q.applied = n /\ q.snap = n
  BY <1>3 DEF Procs
<1> HIDE DEF q
<1>5. elections = 0 => b # First
  BY <1>2 DEF MemberInv, FirstInv, FirstOK
<1>6. StepOK(b, q)
  BY <1>0, <1>1, <1>4, <1>5, ProcFacts
     DEF StepOK, Asks, JoinerOK, WaiterOK, MemberOK, TicketOK, OwnChange
<1>7. q.st \in {"new", "member", "dead"} \/ Joining(b)
  BY <1>2, <1>4 DEF Handles, Joining
<1> QED BY <1>2, <1>4, <1>6, <1>7, OneProcInv

-----------------------------------------------------------------------------
(* The environment *)

LEMMA CommitInv ==
  ASSUME MemberInv, NEW b \in Addrs, Commit(b)
  PROVE  MemberInv'
<1>1. PICK e \in Changes : e = pend[b]
  BY DEF MemberInv, TypeInv
<1>2. PICK l \in Seq(Changes) : l = log
  BY DEF MemberInv, TypeInv
<1>3. /\ b = leader /\ e # NoChange /\ log' = Append(l, e)
      /\ pend' = [pend EXCEPT ![b] = NoChange] /\ UNCHANGED <<proc, leader, elections>>
  BY <1>1, <1>2 DEF Commit
<1>4. /\ log' \in Seq(Changes) /\ Len(l) \in Nat /\ Len(log') = Len(l) + 1
      /\ log'[Len(log')] = e /\ \A i \in 1 .. Len(l) : log'[i] = l[i]
      /\ \A i \in 1 .. Len(log') : i = Len(log') \/ i \in 1 .. Len(l)
      /\ \A i \in 1 .. Len(l) : i \in 1 .. Len(log')
  BY <1>2, <1>3
<1>5. TypeInv'
  <2>1. pend' \in [Addrs -> Changes]
    BY <1>3, ChangeTypes DEF MemberInv, TypeInv, NoChange, ConfChange, Changes
  <2>2. ASSUME NEW a \in Addrs PROVE proc[a].applied <= Len(log')
    <3>1. proc[a].applied \in Nat /\ proc[a].applied <= Len(l)
      BY <1>2, ProcFacts DEF Procs
    <3> QED BY <1>4, <3>1
  <2> QED BY <1>3, <1>4, <2>1, <2>2 DEF MemberInv, TypeInv
<1>6. OneJoins'
  BY <1>3, NobodyBegins DEF Joining
<1>7. AddressInv'
  BY <1>3 DEF MemberInv, AddressInv, VotersOK, TicketOK, Live
<1>8. ASSUME elections = 0 PROVE FirstOK' /\ ChangesOK' /\ OthersOK'
  <2>1. FirstOK /\ ChangesOK /\ OthersOK /\ b = First /\ First \in Addrs
    BY <1>3, <1>8 DEF MemberInv, FirstInv, FirstOK
  <2>2. /\ proc[First].applied = Len(l) /\ ChangeOK(e)
        /\ pend'[First] = NoChange /\ \A c \in Addrs \ {First} : pend'[c] = NoChange
    BY <1>1, <1>2, <1>3, <2>1 DEF FirstOK, ChangesOK, MemberInv, TypeInv
  <2>3. FirstOK'
    BY <1>3, <1>4, <2>1, <2>2 DEF FirstOK
  <2>4. ChangesOK'
    <3>1. ChangeOK(NoChange)
      BY DEF ChangeOK, NoChange, ConfChange
    <3>2. ASSUME NEW i \in 1 .. Len(log') PROVE ChangeOK(log'[i]) /\ log'[i] # NoChange
      BY <1>2, <1>3, <1>4, <2>1, <2>2 DEF ChangesOK
    <3> QED BY <2>2, <3>1, <3>2 DEF ChangesOK, ChangeOK
  <2>5. ASSUME NEW a \in Addrs \ {First}
        PROVE  WaiterOK(a, proc[a])' /\ MemberOK(a, proc[a])'
    <3>1. WaiterOK(a, proc[a]) /\ MemberOK(a, proc[a])
      BY <2>1 DEF OthersOK
    <3>2. proc[a].st = "waiting" => e = OwnChange(a, proc[a])
      <4>1. proc[First].applied + 1 # Len(log)
        BY <1>2, <1>4, <2>2
      <4> QED BY <1>1, <2>1, <3>1, <4>1 DEF WaiterOK
    <3>3. WaiterOK(a, proc[a])'
      BY <1>3, <1>4, <2>2, <3>2 DEF WaiterOK, OwnChange
    <3>4. MemberOK(a, proc[a])'
      BY <1>2, <1>3, <1>4, <3>1 DEF MemberOK
    <3> QED BY <3>3, <3>4
  <2>6. \A a \in Addrs \ {First} : JoinerOK(proc'[a])
    BY <1>3, <2>1 DEF OthersOK
  <2> QED BY <2>3, <2>4, <2>5, <2>6 DEF OthersOK, JoinerOK
<1>9. FirstInv'
  BY <1>3, <1>8 DEF FirstInv
<1> QED BY <1>5, <1>6, <1>7, <1>9 DEF MemberInv

\* A step that changes what one node takes for its leader.
Viewing(b, v) == [proc[b] EXCEPT !.view = v]

LEMMA ViewType ==
  ASSUME MemberInv, NEW b \in Addrs, NEW v \in Nat, NEW q, q = Viewing(b, v)
  PROVE  /\ q \in Procs /\ Asks(q) /\ q.view = v /\ q.st = proc[b].st
         /\ q.id = proc[b].id /\ q.ask = proc[b].ask /\ q.via = proc[b].via
         /\ q.ticket = proc[b].ticket /\ q.snap <= q.applied /\ q.applied <= Len(log)
<1>1. proc[b] \in Procs
  BY ProcFacts
<1>2. /\ q \in Procs /\ q.view = v /\ q.st = proc[b].st
      /\ q.id = proc[b].id /\ q.ask = proc[b].ask /\ q.via = proc[b].via
      /\ q.ticket = proc[b].ticket /\ q.snap = proc[b].snap /\ q.applied = proc[b].applied
  BY <1>1 DEF Procs, Viewing
<1> QED BY <1>2, ProcFacts DEF Asks

\* With an election before or in the step.
LEMMA ViewLater ==
  ASSUME MemberInv, NEW b \in Addrs, NEW v \in Nat, proc' = [proc EXCEPT ![b].view = v],
         UNCHANGED log, leader' \in Addrs, pend' \in [Addrs -> Changes],
         elections' \in Nat \ {0}
  PROVE  MemberInv'
<1>0. PICK q : q = Viewing(b, v)
  OBVIOUS
<1>1. proc' = [proc EXCEPT ![b] = q]
  BY <1>0 DEF MemberInv, TypeInv, Viewing
<1>2. /\ q \in Procs /\ Asks(q) /\ q.st = proc[b].st
      /\ q.snap <= q.applied /\ q.applied <= Len(log)
  BY <1>0, ViewType
<1>3. /\ proc' \in [Addrs -> Procs] /\ proc'[b] = q
      /\ \A c \in Addrs \ {b} : proc'[c] = proc[c]
  BY <1>1, <1>2 DEF MemberInv, TypeInv
<1>4. TypeInv'
  BY <1>2, <1>3, ProcsType DEF MemberInv
<1>5. OneJoins'
  BY <1>2, <1>3, NobodyBegins DEF Joining
<1> QED BY <1>4, <1>5, LaterInv

\* While the first leader stays: nobody takes another one for the leader.
LEMMA ViewInv ==
  ASSUME MemberInv, NEW b \in Addrs, NEW v \in Nat, proc' = [proc EXCEPT ![b].view = v],
         elections = 0 => b # First /\ v \in {0, 1},
         UNCHANGED <<log, leader, pend, elections>>
  PROVE  MemberInv'
<1>0. PICK q : q = Viewing(b, v)
  OBVIOUS
<1>1. proc' = [proc EXCEPT ![b] = q]
  BY <1>0 DEF MemberInv, TypeInv, Viewing
<1>2. /\ q \in Procs /\ Asks(q) /\ q.view = v /\ q.st = proc[b].st
      /\ q.id = proc[b].id /\ q.ask = proc[b].ask /\ q.via = proc[b].via
      /\ q.ticket = proc[b].ticket /\ q.snap <= q.applied /\ q.applied <= Len(log)
  BY <1>0, ViewType
<1>3. StepOK(b, q)
  BY <1>2, ProcFacts DEF StepOK, JoinerOK, WaiterOK, MemberOK, TicketOK, OwnChange
<1>4. q.st \in {"new", "member", "dead"} \/ Joining(b)
  <2>1. proc[b].st \in ProcState
    BY ProcFacts DEF Procs
  <2> QED BY <1>2, <2>1 DEF Joining, ProcState
<1> QED BY <1>1, <1>2, <1>3, <1>4, OneProcInv

LEMMA ElectInv ==
  ASSUME MemberInv, NEW b \in Addrs, Elect(b)
  PROVE  MemberInv'
<1>1. proc[b].id \in Nat
  BY ProcFacts DEF Procs
<1>2. pend' \in [Addrs -> Changes] /\ elections' \in Nat \ {0}
  BY DEF Elect, MemberInv, TypeInv
<1> QED BY <1>1, <1>2, ViewLater DEF Elect

LEMMA LoseLeaderInv ==
  ASSUME MemberInv, NEW b \in Addrs, LoseLeader(b)
  PROVE  MemberInv'
<1>1. elections = 0 => b # First
  BY DEF LoseLeader, MemberInv, FirstInv, FirstOK
<1> QED BY <1>1, ViewInv DEF LoseLeader

LEMMA LearnLeaderInv ==
  ASSUME MemberInv, NEW b \in Addrs, LearnLeader(b)
  PROVE  MemberInv'
<1>1. leader \in Addrs /\ NoChange \in Changes /\ pend \in [Addrs -> Changes] /\ elections \in Nat
  BY DEF MemberInv, TypeInv, NoChange, ConfChange, Changes
<1>2. PICK v \in Nat : v = proc[leader].id
  BY <1>1, ProcFacts DEF Procs
<1>3. /\ proc' = [proc EXCEPT ![b].view = v] /\ pend' = [pend EXCEPT ![b] = NoChange]
      /\ UNCHANGED <<log, leader, elections>> /\ b # leader
  BY <1>2 DEF LearnLeader
<1>4. CASE elections = 0
  <2>1. b # First /\ v = 1 /\ pend[b] = NoChange
    BY <1>2, <1>3, <1>4 DEF MemberInv, FirstInv, FirstOK, ChangesOK
  <2>2. pend' = pend
    BY <1>1, <1>3, <2>1
  <2> QED BY <1>3, <2>1, <2>2, ViewInv
<1>5. CASE elections # 0
  BY <1>1, <1>3, <1>5, ViewLater
<1> QED BY <1>4, <1>5

-----------------------------------------------------------------------------
(* The theorems *)

LEMMA InitInv == Init => MemberInv
<1> SUFFICES ASSUME Init PROVE MemberInv
  OBVIOUS
<1> DEFINE f == [NewProc EXCEPT !.st = "member", !.id = 1, !.peers = NewPeers(1, First),
                                !.conf = {1}, !.applied = 1, !.view = 1]
<1>1. First \in Addrs /\ NewProc \in Procs /\ Asks(NewProc) /\ NewPeers(1, First) \in PeerMaps
  BY MembershipAssumption, NewProcType, NewPeersType
<1>2. /\ f \in Procs /\ f.st = "member" /\ f.id = 1 /\ f.peers = NewPeers(1, First)
      /\ f.conf = {1} /\ f.applied = 1 /\ f.view = 1 /\ f.snap = 0
  BY <1>1 DEF Procs, NewProc, ProcState
<1>3. proc = [a \in Addrs |-> IF a = First THEN f ELSE NewProc]
  BY DEF Init
<1> HIDE DEF f
<1>4. /\ NewProc.st = "new" /\ NewProc.view = 0 /\ NewProc.snap = 0 /\ NewProc.applied = 0
  BY DEF NewProc
<1>5. /\ log = <<Noop>> /\ log \in Seq(Changes) /\ Len(log) = 1 /\ log[1] = Noop
      /\ NoChange \in Changes /\ Noop # NoChange
  BY DEF Init, Noop, NoChange, ConfChange, Changes
<1>6. TypeInv
  <2>1. proc \in [Addrs -> Procs] /\ pend \in [Addrs -> Changes]
    BY <1>1, <1>2, <1>3, <1>5 DEF Init
  <2>2. ASSUME NEW a \in Addrs
        PROVE  Asks(proc[a]) /\ proc[a].snap <= proc[a].applied /\ proc[a].applied <= Len(log)
    BY <1>1, <1>2, <1>3, <1>4, <1>5 DEF Asks
  <2> QED BY <1>1, <1>5, <2>1, <2>2 DEF TypeInv, Init
<1>7. FirstOK
  <2>1. DOMAIN f.peers = {1} /\ f.peers[1] = First
    BY <1>1, <1>2, NewPeersType
  <2>2. proc[First] = f /\ leader = First
    BY <1>1, <1>3 DEF Init
  <2> QED BY <1>2, <1>5, <2>1, <2>2 DEF FirstOK
<1>8. ChangesOK
  <2>1. ChangeOK(Noop) /\ ChangeOK(NoChange)
    BY DEF ChangeOK, Noop, NoChange, ConfChange
  <2> QED BY <1>1, <1>5, <2>1 DEF ChangesOK, Init
<1>9. OthersOK
  BY <1>3, <1>4 DEF OthersOK, JoinerOK, WaiterOK, MemberOK
<1>10. OneJoins
  BY <1>2, <1>3, <1>4 DEF OneJoins, Joining
<1>11. VotersOK
  <2>1. DOMAIN f.peers = {1} /\ f.peers[1] = First
    BY <1>1, <1>2, NewPeersType
  <2> QED BY <1>1, <1>2, <1>3, <1>4, <2>1 DEF VotersOK, TicketOK
<1> QED BY <1>6, <1>7, <1>8, <1>9, <1>10, <1>11 DEF MemberInv, FirstInv, AddressInv

LEMMA NextInv == MemberInv /\ [Next]_vars => MemberInv'
<1> SUFFICES ASSUME MemberInv, [Next]_vars PROVE MemberInv'
  OBVIOUS
<1>1. ASSUME NEW a \in Addrs, NEW b \in Addrs, RequestId(a, b) PROVE MemberInv'
  BY <1>1, RequestIdInv
<1>2. ASSUME NEW a \in Addrs,
             \/ HandleRequestId(a) \/ Bootstrap(a) \/ AddPeers(a) \/ JoinCluster(a)
             \/ HandleChangeConfig(a) \/ ConnectionFails(a) \/ RequestTimeout(a) \/ Retry(a)
      PROVE  MemberInv'
  BY <1>2, HandleRequestIdInv, BootstrapInv, AddPeersInv, JoinClusterInv,
     HandleChangeConfigInv, ConnectionFailsInv, RequestTimeoutInv, RetryInv
<1>3. ASSUME NEW a \in Addrs,
             \/ Apply(a) \/ InstallSnapshot(a) \/ Commit(a) \/ Elect(a) \/ LoseLeader(a)
             \/ LearnLeader(a)
      PROVE  MemberInv'
  BY <1>3, ApplyInv, InstallSnapshotInv, CommitInv, ElectInv, LoseLeaderInv, LearnLeaderInv
<1>4. ASSUME NEW b \in Addrs, NEW v \in proc[b].conf, RemoveNode(b, v) PROVE MemberInv'
  BY <1>4, RemoveNodeInv
<1>5. CASE UNCHANGED vars
  <2>1. proc' \in [Addrs -> Procs] /\ UNCHANGED <<proc, log, leader, elections, pend>>
    BY <1>5 DEF vars, MemberInv, TypeInv
  <2>2. OneJoins'
    BY <2>1, NobodyBegins DEF Joining
  <2> QED BY <2>1, <2>2, ProcsInv
<1> QED BY <1>1, <1>2, <1>3, <1>4, <1>5 DEF Next

\* A node applies only committed entries and its snapshot is one of what it has
\* applied; addresses in a peers map are addresses of processes.  Whatever is
\* elected, removed, compacted, installed or started again.
THEOREM TypesHold == Spec => []TypeOK
<1>1. ASSUME MemberInv PROVE TypeOK
  <2>1. ASSUME NEW a \in Addrs
        PROVE  /\ proc[a].conf \subseteq Nat
               /\ proc[a].snap <= proc[a].applied /\ proc[a].applied <= Len(log)
               /\ \A i \in DOMAIN proc[a].peers : proc[a].peers[i] \in Addrs
    <3>1. proc[a].conf \subseteq Nat /\ proc[a].peers \in PeerMaps
      BY <1>1, ProcFacts DEF Procs
    <3>2. proc[a].snap <= proc[a].applied /\ proc[a].applied <= Len(log)
      BY <1>1, ProcFacts
    <3>3. \A i \in DOMAIN proc[a].peers : proc[a].peers[i] \in Addrs
      BY <3>1, PeerMapFacts
    <3> QED BY <3>1, <3>2, <3>3
  <2> QED BY <1>1, <2>1 DEF TypeOK, MemberInv, TypeInv
<1> QED BY <1>1, InitInv, NextInv, PTL DEF Spec

\* join_cluster returns Ok only when the change that adds the process, with its
\* id and its address, is committed, as long as the first leader stays: not for
\* an older request of the same process that timed out, and not for another
\* process's change.
THEOREM JoinsAreCommitted == Spec => []JoinedIsCommitted
<1>1. ASSUME MemberInv PROVE JoinedIsCommitted
  <2>1. DOMAIN log = 1 .. Len(log)
    BY <1>1 DEF MemberInv, TypeInv
  <2> QED BY <1>1, <2>1 DEF MemberInv, FirstInv, OthersOK, MemberOK, JoinedIsCommitted
<1> QED BY <1>1, InitInv, NextInv, PTL DEF Spec

\* When processes join one after the other and the first leader stays, its
\* peers map and its configuration agree: every voter is in the map, at the
\* address of the process that has the voter's id.
THEOREM VotersWhereExpected == Spec => []VotersAtTheirAddress
<1>1. ASSUME MemberInv, Serial, elections = 0, Live(leader), NEW v \in proc[leader].conf
      PROVE  v \in DOMAIN proc[leader].peers /\ proc[proc[leader].peers[v]].id = v
  <2>1. leader = First /\ VotersOK /\ First \in Addrs
    BY <1>1, MembershipAssumption DEF MemberInv, FirstInv, FirstOK, AddressInv
  <2>2. v \in DOMAIN proc[First].peers
    BY <1>1, <2>1 DEF VotersOK
  <2>3. proc[First].peers[v] \in Addrs
    BY <1>1, <2>1, <2>2, ProcFacts, PeerMapFacts DEF Procs
  <2>4. proc[proc[First].peers[v]].id = v
    BY <2>1, <2>2, <2>3 DEF VotersOK, TicketOK
  <2> QED BY <2>1, <2>2, <2>4
<1>2. MemberInv => VotersAtTheirAddress
  BY <1>1 DEF VotersAtTheirAddress
<1> QED BY <1>2, InitInv, NextInv, PTL DEF Spec
=============================================================================
