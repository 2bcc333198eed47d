--------------------------- MODULE RaftNodeRestart -------------------------
(***************************************************************************)
(* What a node finds when it restarts: the stored hard state never goes    *)
(* back, the log directory is one RawNode::new can load at every instant,  *)
(* even in the middle of an operation that a crash interrupts, and no      *)
(* handler panics before.                                                  *)
(*                                                                         *)
(* This needs to know where a turn of the loop stands.  TurnInv relates    *)
(* the Ready being handled, the unstable part of the log and the store,    *)
(* and TermInv bounds the terms in the logs; both hold in every            *)
(* configuration.  CommitInv places the commit index of raft-rs and of the *)
(* hard state in the log.  LoadInv places the compacted prefix below the   *)
(* stored commit index: that index is stored before anything up to it is   *)
(* reported as applied, and compaction stops at the applied index.         *)
(***************************************************************************)
EXTENDS RaftNodeProofs

-----------------------------------------------------------------------------
(* The invariants *)

\* A snapshot that waits to be restored has replaced the unstable entries.
PendingSnapshot ==
  raft.snap # NoSnapshot =>
    /\ SnapshotMsg /\ ~Alone
    /\ pc \notin {"recv", "lightcommit", "lightapply"} /\ DOMAIN raft.unst = {}
    /\ raft.snap.index # 0 /\ raft.committed = raft.snap.index
    /\ raft.snap.term <= raft.term
    /\ pc \in {"apply", "hardstate", "send"} => store.last = raft.snap.index

\* While a Ready is handled raft-rs still is what the Ready says.
HandedOut ==
  /\ pc \in {"restore", "apply", "hardstate", "send"} =>
       /\ rd.snap = raft.snap /\ rd.ents = raft.unst /\ rd.hs = HardState(raft)
       /\ rd.hasHs = (HardState(raft) # raft.prevHs)
  /\ pc = "restore" => rd.snap # NoSnapshot
  /\ pc = "lightcommit" => rd.commit = raft.committed /\ raft.prevHs.commit = rd.commit
  /\ pc \in {"lightcommit", "lightapply"} => DOMAIN raft.unst = {}

\* The unstable entries continue the stored ones.
NoGap ==
  pc \in {"recv", "tick", "restore", "apply"} /\ DOMAIN raft.unst # {}
    => Min(DOMAIN raft.unst) <= store.last + 1

TurnInv == PendingSnapshot /\ HandedOut /\ NoGap

\* No entry of the table l is of a term above t.
TermsBelow(l, t) == \A i \in DOMAIN l : l[i].term <= t

TermInv ==
  /\ raft.role = "leader" => llog[raft.term] # <<>>
  /\ Alone => \A t \in Terms : llog[t] # <<>> => t \in mine
  /\ ~Alone =>
       /\ \A t \in Terms : TermsBelow(llog[t], t)
       /\ TermsBelow(store.entries, LastTerm) /\ TermsBelow(raft.unst, LastTerm)
       /\ raft.role = "leader" =>
            TermsBelow(store.entries, raft.term) /\ TermsBelow(raft.unst, raft.term)

\* Nothing was committed or voted before this hard state.
Fresh(s) == s.hs.term = 0 /\ s.hs.commit = 0

\* The commit index of raft-rs is in its log, and in the stored one once the
\* entries of the turn are appended; the stored hard state is behind.
CommitInLog ==
  /\ store.hs.commit <= store.last
  /\ status = "up" =>
       /\ store.hs.term <= raft.term /\ store.hs.commit <= raft.committed
       /\ raft.since <= raft.committed
       /\ raft.committed <= IF pc \in {"recv", "tick", "restore", "apply"}
                            THEN RaftLast(raft, store) ELSE store.last

\* A log without a stored hard state is complete: raft-rs takes the commit
\* index from its first index.
FreshLog ==
  Fresh(store) =>
    /\ FirstIndex(store) = 1
    /\ DOMAIN store.entries = {} => store.last = 0
    /\ DOMAIN rd.committed \subseteq DOMAIN store.entries
    /\ status = "up" =>
         /\ raft.applied = 0 /\ raft.prevHs.term = 0 /\ raft.prevHs.commit = 0
         /\ pc \in {"send", "lightcommit", "lightapply"} =>
              raft.committed = 0 /\ raft.term = 0

CommitInv == CommitInLog /\ FreshLog

-----------------------------------------------------------------------------
(* What the storage operations leave alone *)

\* The store x has entries of the store s and no others.
Thinned(s, x) ==
  /\ \A i \in DOMAIN x.entries : i \in DOMAIN s.entries /\ x.entries[i] = s.entries[i]
  /\ x.last = s.last /\ x.hs = s.hs

LEMMA CompactThins ==
  ASSUME NEW s, NEW n, StoreType(s)
  PROVE  LET x == Compact(s, n)
         IN  /\ Thinned(s, x) /\ x.snap = s.snap
             /\ \A i : i \in DOMAIN x.entries <=> i \in DOMAIN s.entries /\ i >= n
<1>1. PICK e : e = Restrict(s.entries, {i \in DOMAIN s.entries : i >= n})
  OBVIOUS
<1>2. /\ \A i : i \in DOMAIN e <=> i \in DOMAIN s.entries /\ i >= n
      /\ \A i \in DOMAIN e : e[i] = s.entries[i]
  BY <1>1 DEF Restrict
<1>3. Compact(s, n) = [s EXCEPT !.entries = e]
  BY <1>1 DEF Compact
<1>4. LET x == Compact(s, n)
      IN  x.entries = e /\ x.last = s.last /\ x.hs = s.hs /\ x.snap = s.snap
  BY <1>3 DEF StoreType
<1> QED BY <1>2, <1>4 DEF Thinned

LEMMA ConfThins ==
  ASSUME NEW s, NEW c, StoreType(s)
  PROVE  LET x == SetConfState(s, c)
         IN  Thinned(s, x) /\ x.entries = s.entries /\ x.snap = s.snap
BY DEF SetConfState, StoreType, Thinned

LEMMA SnapshotThins ==
  ASSUME NEW s, NEW d, NEW n, NEW t, StoreType(s)
  PROVE  LET x == MakeSnapshot(s, d, n, t)
         IN  /\ Thinned(s, x) /\ x.snap.index = n
             /\ \A i : i \in DOMAIN x.entries <=> i \in DOMAIN s.entries /\ i >= raft.applied
<1>1. PICK c : c = Compact(s, raft.applied)
  OBVIOUS
<1>2. /\ StoreType(c) /\ Thinned(s, c)
      /\ \A i : i \in DOMAIN c.entries <=> i \in DOMAIN s.entries /\ i >= raft.applied
  BY <1>1, CompactType, CompactThins
<1>3. PICK y : y = [index |-> n, term |-> t, data |-> d, conf |-> c.conf]
  OBVIOUS
<1>4. MakeSnapshot(s, d, n, t) = [c EXCEPT !.snap = y] /\ y.index = n
  BY <1>1, <1>3 DEF MakeSnapshot, CreateSnapshot
<1>5. LET x == MakeSnapshot(s, d, n, t)
      IN  x.entries = c.entries /\ x.last = c.last /\ x.hs = c.hs /\ x.snap.index = n
  BY <1>2, <1>4 DEF StoreType
<1> QED BY <1>2, <1>5 DEF Thinned

LEMMA BothThin ==
  ASSUME NEW s, NEW x, NEW y, Thinned(s, x), Thinned(x, y)
  PROVE  Thinned(s, y)
BY DEF Thinned

\* The store after an entry is applied: what is left of the table, and the
\* index of the snapshot.
LEMMA ApplyThins ==
  ASSUME TypeInv, ApplyEntry
  PROVE  \E i \in DOMAIN rd.committed :
           /\ Thinned(store, store')
           /\ DOMAIN rd'.committed \subseteq DOMAIN rd.committed
           /\ status = "up" /\ pc \in {"apply", "lightapply"}
           /\ rd'.snap = rd.snap /\ rd'.ents = rd.ents /\ rd'.hs = rd.hs
           /\ rd'.hasHs = rd.hasHs /\ rd'.commit = rd.commit
           /\ UNCHANGED <<status, raft, pc, env, net, crashes>>
           /\ \/ store'.entries = store.entries /\ store'.snap = store.snap
              \/ /\ store'.snap.index = i
                 /\ \A j : j \in DOMAIN store'.entries <=> j \in DOMAIN store.entries /\ j >= raft.applied
                 /\ SnapshotInterval \/ rd.committed[i].kind = "conf"
<1>1. PICK i \in DOMAIN rd.committed :
        /\ i \in Index
        /\ store' = store \/ (store' = SetConfState(store, i) /\ rd.committed[i].kind = "leave")
             \/ (store' = MakeSnapshot(store, fsm', i, rd.committed[i].term) /\ SnapshotInterval)
             \/ (/\ store' = MakeSnapshot(SetConfState(store, i), fsm, i, rd.committed[i].term)
                 /\ rd.committed[i].kind = "conf")
        /\ rd' = [rd EXCEPT !.committed = Restrict(@, DOMAIN @ \ {i})]
        /\ DOMAIN rd'.committed \subseteq DOMAIN rd.committed
        /\ status = "up" /\ pc \in {"apply", "lightapply"}
        /\ UNCHANGED <<status, raft, pc, env, net, crashes>>
  BY ApplyEntryFacts
<1>2. PICK c : c = SetConfState(store, i)
  OBVIOUS
<1>3. StoreType(store) /\ StoreType(c) /\ Thinned(store, c) /\ c.entries = store.entries /\ c.snap = store.snap
  BY <1>1, <1>2, ConfType, ConfThins DEF TypeInv
<1>4. /\ rd'.snap = rd.snap /\ rd'.ents = rd.ents /\ rd'.hs = rd.hs
      /\ rd'.hasHs = rd.hasHs /\ rd'.commit = rd.commit
  <2>1. PICK f : rd' = [rd EXCEPT !.committed = f]
    BY <1>1
  <2> QED BY <2>1 DEF TypeInv, ReadyType
<1>5. CASE store' = store
  BY <1>1, <1>4, <1>5 DEF Thinned
<1>6. CASE store' = c
  BY <1>1, <1>3, <1>4, <1>6
<1>7. CASE store' = MakeSnapshot(store, fsm', i, rd.committed[i].term) /\ SnapshotInterval
  <2>1. PICK d, t : store' = MakeSnapshot(store, d, i, t)
    BY <1>7
  <2>2. /\ Thinned(store, store') /\ store'.snap.index = i
        /\ \A j : j \in DOMAIN store'.entries <=> j \in DOMAIN store.entries /\ j >= raft.applied
    BY <1>3, <2>1, SnapshotThins
  <2> QED BY <1>1, <1>4, <1>7, <2>2
<1>8. CASE store' = MakeSnapshot(c, fsm, i, rd.committed[i].term) /\ rd.committed[i].kind = "conf"
  <2>1. /\ Thinned(c, store') /\ store'.snap.index = i
        /\ \A j : j \in DOMAIN store'.entries <=> j \in DOMAIN c.entries /\ j >= raft.applied
    BY <1>3, <1>8, SnapshotThins
  <2>2. Thinned(store, store')
    BY <1>3, <2>1, BothThin
  <2> QED BY <1>1, <1>3, <1>4, <1>8, <2>1, <2>2
<1> QED BY <1>1, <1>2, <1>5, <1>6, <1>7, <1>8

LEMMA RpcThins ==
  ASSUME TypeInv, RpcCreateSnapshot
  PROVE  /\ Thinned(store, store') /\ store'.snap.index = store.last
         /\ \A j : j \in DOMAIN store'.entries <=> j \in DOMAIN store.entries /\ j >= raft.applied
         /\ status = "up" /\ pc = "recv" /\ pc' = "tick" /\ SnapshotRpc
         /\ UNCHANGED <<status, raft, fsm, rd, env, net, crashes>>
BY SnapshotThins DEF RpcCreateSnapshot, Receiving, LastIndex, TypeInv

-----------------------------------------------------------------------------
(* A new life *)

LEMMA BootStoreFacts ==
  ASSUME StoreType(store), NEW b, b = BootStore
  PROVE  /\ StoreType(b) /\ b.entries = store.entries /\ b.snap = store.snap
         /\ FirstIndex(b) = FirstIndex(store)
         /\ \/ b = store /\ store.last # 0
            \/ /\ store.last = 0 \/ BootstrapFromSnapshot
               /\ b.last = store.snap.index /\ b.hs.commit = store.snap.index
               /\ b.hs.term >= store.hs.term
<1>1. StoreType(b)
  BY BootStoreType
<1>2. PICK x : x = ApplySnapshot(store, store.snap)
  OBVIOUS
<1>3. PICK h : /\ h = SnapshotHardState(store, store.snap) /\ h.commit = store.snap.index
               /\ h.term >= store.hs.term
  BY SnapshotHardStateType DEF StoreType
<1>4. /\ x.entries = store.entries /\ x.snap = store.snap /\ x.last = store.snap.index
      /\ x.hs = h
  BY <1>2, <1>3 DEF ApplySnapshot, StoreType
<1>5. b = x \/ b = store
  BY <1>2 DEF BootStore
<1>6. b.entries = store.entries /\ b.snap = store.snap
  BY <1>4, <1>5
<1>7. FirstIndex(b) = FirstIndex(store)
  BY <1>6 DEF FirstIndex
<1>8. CASE store.last = 0 \/ BootstrapFromSnapshot
  BY <1>1, <1>2, <1>3, <1>4, <1>6, <1>7, <1>8 DEF BootStore
<1>9. CASE ~(store.last = 0 \/ BootstrapFromSnapshot)
  BY <1>1, <1>6, <1>7, <1>9 DEF BootStore
<1> QED BY <1>8, <1>9

\* The node a bootstrap starts, as a follower or as the leader of its term.
Started(b) ==
  /\ raft'.snap = NoSnapshot /\ raft'.since = 0
  /\ raft'.committed = IF b.hs = DefaultHardState THEN FirstIndex(b) - 1 ELSE b.hs.commit
  /\ raft'.applied = FirstIndex(b) - 1
  /\ raft'.prevHs.term = b.hs.term /\ raft'.prevHs.commit = raft'.committed
  /\ raft'.term >= b.hs.term
  /\ \/ ~Alone /\ raft'.role = "follower" /\ raft'.unst = NoEntries /\ UNCHANGED env
     \/ /\ Alone /\ raft'.role = "leader" /\ raft'.term # 0
        /\ DOMAIN raft'.unst = {b.last + 1} /\ RecordLeader(raft')

LEMMA BootstrapFacts ==
  ASSUME TypeInv, Bootstrap
  PROVE  \/ Panic /\ NewPanics(BootStore)
         \/ /\ ~NewPanics(BootStore) /\ Started(BootStore) /\ store' = BootStore
            /\ status' = "up" /\ rd' = NoReady /\ pc' = "recv"
<1>1. CASE NewPanics(BootStore)
  BY <1>1 DEF Bootstrap
<1>2. CASE ~NewPanics(BootStore)
  <2>1. PICK b : b = BootStore /\ StoreType(b)
    BY BootStoreType DEF TypeInv
  <2>2. status' = "up" /\ store' = b /\ rd' = NoReady /\ pc' = "recv"
    BY <1>2, <2>1 DEF Bootstrap
  <2>3. PICK n : n = NewRaft(b)
    OBVIOUS
  <2>4. b.hs.term \in Nat
    BY <2>1, Bounds DEF StoreType, StoredStates
  <2>5. /\ n.snap = NoSnapshot /\ n.since = 0 /\ n.term = b.hs.term /\ n.unst = NoEntries
        /\ n.committed = IF b.hs = DefaultHardState THEN FirstIndex(b) - 1 ELSE b.hs.commit
        /\ n.applied = FirstIndex(b) - 1 /\ n.role = "follower"
        /\ n.prevHs.term = b.hs.term /\ n.prevHs.commit = n.committed
    BY <2>3 DEF NewRaft
  <2>6. CASE Alone
    <3>1. PICK r : r = BecomeLeader(BecomeCandidate(n, Self), b)
      OBVIOUS
    <3>2. r.term <= MaxTerm /\ b.last < MaxIndex /\ raft' = r /\ RecordLeader(r)
      BY <1>2, <2>1, <2>3, <2>6, <3>1 DEF Bootstrap, LastIndex
    <3>3. b.hs.term < MaxTerm
      <4>1. r.term = b.hs.term + 1
        BY <2>3, <3>1 DEF BecomeLeader, AppendLeader, BecomeCandidate, NewRaft
      <4> QED BY <2>4, <3>2, <4>1, Bounds
    <3>4. /\ RaftType(r) /\ r.term = b.hs.term + 1 /\ r.term # 0
          /\ r.role = "leader" /\ r.snap = NoSnapshot /\ r.committed = n.committed
          /\ r.applied = n.applied /\ r.since = n.since /\ r.prevHs = n.prevHs
          /\ DOMAIN r.unst = {b.last + 1}
      BY <2>1, <2>3, <3>1, <3>2, <3>3, OwnTerm DEF TypeInv
    <3>5. Started(b)
      BY <2>4, <2>5, <2>6, <3>2, <3>4 DEF Started
    <3> QED BY <1>2, <2>1, <2>2, <3>5
  <2>7. CASE ~Alone
    <3>1. raft' = n /\ UNCHANGED env
      BY <1>2, <2>1, <2>3, <2>7 DEF Bootstrap
    <3>2. Started(b)
      BY <2>4, <2>5, <2>7, <3>1 DEF Started
    <3> QED BY <1>2, <2>1, <2>2, <3>2
  <2> QED BY <2>6, <2>7
<1> QED BY <1>1, <1>2

\* A node that is off has an empty log.
LEMMA OffRaftFacts ==
  /\ OffRaft.unst = NoEntries /\ OffRaft.snap = NoSnapshot /\ OffRaft.role = "follower"
  /\ DOMAIN OffRaft.unst = {}
BY NoEntriesTable DEF OffRaft, NewRaft

-----------------------------------------------------------------------------
(* Terms in the logs *)

\* LastTerm, for any table of logs.
LEMMA NewestTerm ==
  ASSUME NEW f
  PROVE  LET n == Max({t \in Terms : t = 0 \/ f[t] # <<>>})
         IN  n \in Terms /\ n \in Nat /\ \A t \in Terms : f[t] # <<>> => t <= n
<1> DEFINE S == {t \in Terms : t = 0 \/ f[t] # <<>>}
<1>1. MaxTerm \in Nat /\ S \in SUBSET (0 .. MaxTerm) /\ 0 \in S
  BY NodeAssumption DEF Terms
<1>2. \A t \in Terms : f[t] # <<>> => t \in S
  OBVIOUS
<1> HIDE DEF S
<1>3. Max(S) \in S /\ \A y \in S : y <= Max(S)
  BY <1>1, BoundedMax
<1>4. Max(S) \in Terms
  BY <1>3 DEF S
<1> QED BY <1>2, <1>3, <1>4, Bounds DEF S

LEMMA LastTermMax ==
  LastTerm \in Terms /\ LastTerm \in Nat /\ \A t \in Terms : llog[t] # <<>> => t <= LastTerm
BY NewestTerm DEF LastTerm

LEMMA LastTermMaxNext ==
  LastTerm' \in Terms /\ LastTerm' \in Nat /\ \A t \in Terms : llog'[t] # <<>> => t <= LastTerm'
BY NewestTerm DEF LastTerm

\* A log that is set, and never emptied, keeps the newest term.
LEMMA LastTermGrows ==
  ASSUME TypeInv, NEW t \in Terms, NEW l, l # <<>>, llog' = [llog EXCEPT ![t] = l]
  PROVE  LastTerm <= LastTerm' /\ t <= LastTerm'
<1>1. DOMAIN llog = Terms
  BY DEF TypeInv, LogsType
<1>2. llog'[t] # <<>> /\ \A u \in Terms : llog[u] # <<>> => llog'[u] # <<>>
  BY <1>1
<1>3. t <= LastTerm'
  BY <1>2, LastTermMaxNext
<1>4. LastTerm = 0 \/ llog[LastTerm] # <<>>
  <2> DEFINE S == {u \in Terms : u = 0 \/ llog[u] # <<>>}
  <2>1. MaxTerm \in Nat /\ S \in SUBSET (0 .. MaxTerm) /\ 0 \in S
    BY NodeAssumption DEF Terms
  <2> HIDE DEF S
  <2>2. Max(S) \in S
    BY <2>1, BoundedMax
  <2> QED BY <2>2 DEF S, LastTerm
<1>5. CASE LastTerm = 0
  BY <1>3, <1>5, LastTermMaxNext
<1>6. CASE llog[LastTerm] # <<>>
  BY <1>2, <1>3, <1>6, LastTermMax, LastTermMaxNext
<1> QED BY <1>4, <1>5, <1>6

\* Tables with a bound on their terms.
LEMMA BelowHigher ==
  ASSUME NEW f, LogTable(f), NEW t \in Terms, NEW u \in Terms, t <= u, TermsBelow(f, t)
  PROVE  TermsBelow(f, u)
<1> SUFFICES ASSUME NEW i \in DOMAIN f PROVE f[i].term <= u
  BY DEF TermsBelow
<1>1. f[i].term \in Nat /\ f[i].term <= t /\ t \in Nat /\ u \in Nat
  BY Bounds DEF LogTable, LogEntry, TermsBelow
<1> QED BY <1>1

LEMMA OwnLogBelow ==
  ASSUME NEW r, NEW l, NEW t \in Terms, RaftType(r), r.term # 0, StoreType(store), LogType(l),
         r.term <= t, TermsBelow(r.unst, t), TermsBelow(store.entries, t), TermsBelow(l, t)
  PROVE  TermsBelow(OwnLog(r, l), t)
<1>1. PICK n \in Index : n = RaftLast(r, store)
  BY RaftLastType
<1>2. OwnLog(r, l) = [i \in 1 .. n |-> IF i \in DOMAIN r.unst THEN r.unst[i]
                            ELSE IF i \in DOMAIN store.entries THEN store.entries[i]
                            ELSE IF i \in DOMAIN l THEN l[i]
                            ELSE Noop(r.term)]
  BY <1>1 DEF OwnLog
<1>3. Noop(r.term).term = r.term
  BY DEF Noop
<1> QED BY <1>2, <1>3 DEF TermsBelow

LEMMA PutBelow ==
  ASSUME NEW f, NEW n, NEW e, NEW t, TermsBelow(f, t), e.term <= t
  PROVE  TermsBelow(Put(f, n, e), t)
BY DEF TermsBelow, Put, PutAll

LEMMA SliceBelow ==
  ASSUME NEW f, NEW lo, NEW hi, NEW t, TermsBelow(f, t)
  PROVE  TermsBelow(Slice(f, lo, hi), t)
BY DEF TermsBelow, Slice, Restrict

LEMMA ConflictingBelow ==
  ASSUME NEW r, NEW s, NEW e, NEW t, TermsBelow(e, t)
  PROVE  TermsBelow(Conflicting(r, s, e), t)
<1>1. TermsBelow(NoEntries, t)
  BY NoEntriesTable DEF TermsBelow
<1>2. \A lo, hi : TermsBelow(Slice(e, lo, hi), t)
  BY SliceBelow
<1> QED BY <1>1, <1>2 DEF Conflicting

LEMMA TruncateBelow ==
  ASSUME NEW u, NEW e, NEW t, TermsBelow(u, t), TermsBelow(e, t)
  PROVE  TermsBelow(TruncateAndAppend(u, e), t)
<1>1. PICK k : k = Slice(u, 0, Min(DOMAIN e) - 1) /\ TermsBelow(k, t)
  BY SliceBelow
<1>2. TruncateAndAppend(u, e) = PutAll(k, e)
  BY <1>1 DEF TruncateAndAppend
<1> QED BY <1>1, <1>2 DEF TermsBelow, PutAll

\* What most steps do to the entries a node keeps.
SameEntries ==
  /\ \A i \in DOMAIN store'.entries :
       \/ i \in DOMAIN store.entries /\ store'.entries[i] = store.entries[i]
       \/ i \in DOMAIN raft.unst /\ store'.entries[i] = raft.unst[i]
  /\ \A i \in DOMAIN raft'.unst : i \in DOMAIN raft.unst /\ raft'.unst[i] = raft.unst[i]
  /\ raft'.role = "leader" => raft.role = "leader" /\ raft'.term = raft.term

LEMMA TermsKept ==
  ASSUME TermInv, SameEntries, UNCHANGED <<llog, mine>>
  PROVE  TermInv'
<1>1. LastTerm' = LastTerm
  BY DEF LastTerm
<1> QED BY <1>1 DEF TermInv, SameEntries, TermsBelow

\* A step that only changes raw_node.
LEMMA TermHandled ==
  ASSUME TermInv, NEW r, Handled(r), UNCHANGED <<llog, mine>>, r.unst \in {raft.unst, NoEntries},
         r.role = "leader" => raft.role = "leader" /\ r.term = raft.term
  PROVE  TermInv'
<1>1. \A i \in DOMAIN r.unst : i \in DOMAIN raft.unst /\ r.unst[i] = raft.unst[i]
  BY NoEntriesTable
<1>2. SameEntries
  BY <1>1 DEF SameEntries, Handled
<1> QED BY <1>2, TermsKept

\* The node stops, with entries of the turn appended or some deleted.
LEMMA TermOff ==
  ASSUME TermInv, PowerOff, UNCHANGED env,
         \A i \in DOMAIN store'.entries :
           \/ i \in DOMAIN store.entries /\ store'.entries[i] = store.entries[i]
           \/ i \in DOMAIN raft.unst /\ store'.entries[i] = raft.unst[i]
  PROVE  TermInv'
<1>1. SameEntries
  BY OffRaftFacts DEF SameEntries, PowerOff
<1> QED BY <1>1, TermsKept DEF env

LEMMA TermPanic ==
  ASSUME TermInv, Panic
  PROVE  TermInv'
BY TermOff DEF Panic

\* The node becomes the leader of a term nobody led.
LEMMA TermRecord ==
  ASSUME TypeInv, TermInv, NEW r, RaftType(r), r.term # 0, RecordLeader(r), raft' = r,
         DOMAIN r.unst # {}, Alone \/ r.term > LastTerm, store'.entries = store.entries,
         ~Alone => TermsBelow(r.unst, r.term) 
  PROVE  TermInv'
<1>1. PICK l : l = OwnLog(r, llog[LastTerm])
  OBVIOUS
<1>2. LastTerm \in Terms /\ LastTerm \in Nat /\ r.term \in Terms /\ r.term \in Nat
  BY LastTermMax, Bounds DEF RaftType
<1>3. LogType(llog[LastTerm]) /\ DOMAIN llog = Terms
  BY <1>2 DEF TypeInv, LogsType
<1>4. LogType(l) /\ l # <<>>
  <2>1. LogType(l) /\ Len(l) = RaftLast(r, store)
    BY <1>1, <1>3, OwnLogType DEF TypeInv
  <2>2. RaftLast(r, store) \in 1 .. MaxIndex
    BY TableEnds DEF RaftLast, RaftType
  <2>3. Len(l) # 0
    BY <2>1, <2>2, Bounds
  <2>4. l # <<>>
    BY <2>3
  <2> QED BY <2>1, <2>4
<1>5. llog' = [llog EXCEPT ![r.term] = l] /\ mine' = mine \cup {r.term}
  BY <1>1 DEF RecordLeader
<1>6. CASE Alone
  BY <1>2, <1>3, <1>4, <1>5, <1>6 DEF TermInv
<1>7. CASE ~Alone
  <2>1. r.term > LastTerm /\ r.term <= LastTerm'
    BY <1>2, <1>4, <1>5, <1>7, LastTermGrows
  <2>2. LogTable(store.entries) /\ LogTable(llog[LastTerm]) /\ LogTable(r.unst)
    BY <1>3, LogIsTable DEF TypeInv, StoreType, RaftType
  <2>3. TermsBelow(store.entries, r.term) /\ TermsBelow(llog[LastTerm], r.term)
    BY <1>2, <1>7, <2>1, <2>2, BelowHigher DEF TermInv
  <2>4. TermsBelow(l, r.term)
    BY <1>1, <1>2, <1>3, <1>7, <2>3, OwnLogBelow DEF TypeInv
  <2>5. TermsBelow(store.entries, LastTerm') /\ TermsBelow(r.unst, LastTerm')
    BY <1>2, <1>7, <2>1, <2>2, <2>3, BelowHigher, LastTermMaxNext
  <2>6. \A t \in Terms : TermsBelow(llog'[t], t)
    BY <1>2, <1>3, <1>5, <1>7, <2>4 DEF TermInv
  <2>7. llog'[r.term] # <<>>
    BY <1>2, <1>3, <1>4, <1>5
  <2> QED BY <1>7, <2>3, <2>5, <2>6, <2>7 DEF TermInv
<1> QED BY <1>6, <1>7

LEMMA TermBootstrap ==
  ASSUME TypeInv, TypeInv', TermInv, Bootstrap
  PROVE  TermInv'
<1>1. CASE Panic
  BY <1>1, TermPanic
<1>2. CASE Started(BootStore) /\ store' = BootStore
  <2>1. store'.entries = store.entries
    BY <1>2, BootStoreFacts DEF TypeInv
  <2>2. CASE ~Alone
    <3>1. raft'.role = "follower" /\ raft'.unst = NoEntries /\ UNCHANGED env
      BY <1>2, <2>2 DEF Started
    <3>2. SameEntries
      BY <2>1, <3>1, NoEntriesTable DEF SameEntries
    <3> QED BY <3>1, <3>2, TermsKept DEF env
  <2>3. CASE Alone
    <3>1. PICK r : r = raft'
      OBVIOUS
    <3>2. RecordLeader(r) /\ r.term # 0 /\ DOMAIN r.unst # {} /\ RaftType(r)
      BY <1>2, <2>3, <3>1 DEF Started, TypeInv
    <3> QED BY <2>1, <2>3, <3>1, <3>2, TermRecord
  <2> QED BY <2>2, <2>3
<1> QED BY <1>1, <1>2, BootstrapFacts

LEMMA TermVoteQuorum ==
  ASSUME TypeInv, TermInv, RecvVoteQuorum
  PROVE  TermInv'
<1>1. PICK r : r = BecomeLeader(raft, store)
  OBVIOUS
<1>2. /\ Handled(r) /\ RecordLeader(r) /\ raft.term > LastTerm
      /\ raft.role = "candidate" /\ RaftLast(raft, store) < MaxIndex
  BY <1>1 DEF RecvVoteQuorum
<1>3. raft.term \in Terms /\ raft.term # 0 /\ raft.term \in Nat /\ LastTerm \in Terms
  BY <1>2, LastTermMax, Bounds DEF TypeInv, RaftType
<1>4. /\ RaftType(r) /\ r.term = raft.term
      /\ DOMAIN r.unst = DOMAIN raft.unst \cup {RaftLast(raft, store) + 1}
      /\ r.unst = Put(raft.unst, RaftLast(raft, store) + 1, Noop(raft.term))
  BY <1>1, <1>2, <1>3, BecomeLeaderType DEF TypeInv
<1>5. raft' = r /\ store' = store /\ DOMAIN r.unst # {}
  BY <1>2, <1>4 DEF Handled
<1>6. ASSUME ~Alone PROVE TermsBelow(r.unst, r.term)
  <2>1. LogTable(raft.unst) /\ TermsBelow(raft.unst, LastTerm) /\ LastTerm <= raft.term
    BY <1>2, <1>3, <1>6, LastTermMax DEF TypeInv, RaftType, TermInv
  <2>2. TermsBelow(raft.unst, raft.term)
    BY <1>3, <2>1, BelowHigher
  <2>3. Noop(raft.term).term <= raft.term
    BY <1>3 DEF Noop
  <2> QED BY <1>4, <2>2, <2>3, PutBelow
<1> QED BY <1>2, <1>3, <1>4, <1>5, <1>6, TermRecord

LEMMA TermPropose ==
  ASSUME TypeInv, TermInv, Propose
  PROVE  TermInv'
<1>1. PICK r : \E e \in LogEntry :
           /\ raft.role = "leader" /\ e.term = raft.term /\ Handled(r)
           /\ RaftType(r) /\ r.term = raft.term /\ r.role = "leader"
           /\ r.unst = Put(raft.unst, RaftLast(raft, store) + 1, e)
           /\ DOMAIN r.unst = DOMAIN raft.unst \cup {RaftLast(raft, store) + 1}
           /\ llog' = [llog EXCEPT ![raft.term] = OwnLog(r, llog[raft.term])]
  BY Proposal
<1>2. PICK e \in LogEntry :
           /\ raft.role = "leader" /\ e.term = raft.term /\ Handled(r)
           /\ RaftType(r) /\ r.term = raft.term /\ r.role = "leader"
           /\ r.unst = Put(raft.unst, RaftLast(raft, store) + 1, e)
           /\ DOMAIN r.unst = DOMAIN raft.unst \cup {RaftLast(raft, store) + 1}
           /\ llog' = [llog EXCEPT ![raft.term] = OwnLog(r, llog[raft.term])]
  BY <1>1
<1>3. PICK l : l = OwnLog(r, llog[raft.term])
  OBVIOUS
<1>4. /\ raft.term \in Terms /\ raft.term # 0 /\ raft.term \in Nat /\ DOMAIN llog = Terms
      /\ LogType(llog[raft.term])
  BY <1>2, Bounds DEF TypeInv, RaftType, LogsType
<1>5. LogType(l) /\ l # <<>>
  <2>1. LogType(l) /\ Len(l) = RaftLast(r, store)
    BY <1>2, <1>3, <1>4, OwnLogType DEF TypeInv
  <2>2. RaftLast(r, store) \in 1 .. MaxIndex
    BY <1>2, TableEnds DEF RaftLast, RaftType
  <2>3. Len(l) # 0
    BY <2>1, <2>2, Bounds
  <2>4. l # <<>>
    BY <2>3
  <2> QED BY <2>1, <2>4
<1>6. llog' = [llog EXCEPT ![raft.term] = l] /\ mine' = mine /\ raft' = r /\ store' = store
  BY <1>2, <1>3 DEF Propose, Handled
<1>7. LastTerm <= LastTerm' /\ raft.term <= LastTerm'
  BY <1>4, <1>5, <1>6, LastTermGrows
<1>8. CASE Alone
  BY <1>2, <1>4, <1>5, <1>6, <1>8 DEF TermInv
<1>9. CASE ~Alone
  <2>1. TermsBelow(store.entries, raft.term) /\ TermsBelow(raft.unst, raft.term)
    BY <1>2, <1>9 DEF TermInv
  <2>2. TermsBelow(r.unst, raft.term)
    BY <1>2, <1>4, <2>1, PutBelow
  <2>3. TermsBelow(llog[raft.term], raft.term)
    BY <1>4, <1>9 DEF TermInv
  <2>4. TermsBelow(l, raft.term)
    BY <1>2, <1>3, <1>4, <2>1, <2>2, <2>3, OwnLogBelow DEF TypeInv
  <2>5. LogTable(store.entries) /\ LogTable(r.unst)
    BY <1>2 DEF TypeInv, StoreType, RaftType
  <2>6. TermsBelow(store.entries, LastTerm') /\ TermsBelow(r.unst, LastTerm')
    BY <1>4, <1>7, <2>1, <2>2, <2>5, BelowHigher, LastTermMaxNext
  <2>7. \A t \in Terms : TermsBelow(llog'[t], t)
    BY <1>4, <1>6, <1>9, <2>4 DEF TermInv
  <2>8. llog'[raft'.term] # <<>>
    BY <1>2, <1>4, <1>5, <1>6
  <2> QED BY <1>2, <1>6, <1>9, <2>1, <2>2, <2>6, <2>7, <2>8 DEF TermInv
<1> QED BY <1>8, <1>9

-----------------------------------------------------------------------------
(* MsgAppend and MsgSnapshot *)

\* Two nodes with the same unstable part read the same log.
LEMMA SameReads ==
  ASSUME NEW r, NEW q, NEW s, q.unst = r.unst, q.snap = r.snap
  PROVE  /\ RaftLast(q, s) = RaftLast(r, s)
         /\ \A i : RaftTerm(q, s, i) = RaftTerm(r, s, i)
         /\ \A e : Conflicting(q, s, e) = Conflicting(r, s, e)
<1>1. RaftLast(q, s) = RaftLast(r, s) /\ RaftFirst(q, s) = RaftFirst(r, s)
  BY DEF RaftLast, RaftFirst
<1>2. \A i : RaftTerm(q, s, i) = RaftTerm(r, s, i)
  BY <1>1 DEF RaftTerm
<1>3. ASSUME NEW e PROVE Conflicting(q, s, e) = Conflicting(r, s, e)
  <2>1. {i \in DOMAIN e : RaftTerm(q, s, i) # e[i].term} = {i \in DOMAIN e : RaftTerm(r, s, i) # e[i].term}
    BY <1>2
  <2> QED BY <2>1 DEF Conflicting
<1> QED BY <1>1, <1>2, <1>3

\* An entry the log has is not above its last index.
LEMMA MatchedIsInLog ==
  ASSUME NEW r, NEW s, NEW i \in Nat, RaftLast(r, s) \in Nat, RaftTerm(r, s, i) # 0
  PROVE  i <= RaftLast(r, s)
BY DEF RaftTerm

\* The entries of a message from prev + 1 to last that the log does not hold:
\* none, and then last is in the log, or all from one that continues the log.
LEMMA NewEntries ==
  ASSUME NEW r, NEW s, NEW e, NEW prev \in Index, NEW last \in Index, RaftType(r), StoreType(s),
         LogTable(e), prev <= last, prev <= RaftLast(r, s),
         \A i : i \in DOMAIN e <=> i \in prev + 1 .. last
  PROVE  LET new == Conflicting(r, s, e)
         IN  /\ DOMAIN new = {} => last <= RaftLast(r, s)
             /\ DOMAIN new # {} =>
                  /\ Max(DOMAIN new) = last /\ Min(DOMAIN new) <= RaftLast(r, s) + 1
                  /\ Min(DOMAIN new) .. last \subseteq DOMAIN new
<1>1. prev \in Nat /\ last \in Nat /\ RaftLast(r, s) \in Nat
  BY RaftLastType, Bounds
<1>2. PICK n \in Nat : n = RaftLast(r, s)
  BY <1>1
<1> DEFINE bad == {i \in DOMAIN e : RaftTerm(r, s, i) # e[i].term}
<1>3. \A i \in DOMAIN e : i \notin bad => i <= n
  <2> TAKE i \in DOMAIN e
  <2> HAVE i \notin bad
  <2>1. i \in Nat /\ e[i].term # 0
    BY Bounds DEF LogTable, LogEntry
  <2>2. RaftTerm(r, s, i) # 0
    BY <2>1
  <2> QED BY <1>1, <1>2, <2>1, <2>2, MatchedIsInLog
<1>4. bad \subseteq DOMAIN e
  OBVIOUS
<1>5. PICK new : new = Conflicting(r, s, e)
  OBVIOUS
<1>6. new = IF bad = {} THEN NoEntries ELSE Slice(e, Min(bad), Max(DOMAIN e))
  BY <1>5 DEF Conflicting
<1> HIDE DEF bad
<1>7. CASE bad = {}
  <2>1. DOMAIN new = {}
    BY <1>6, <1>7, NoEntriesTable
  <2>2. last <= n
    <3>1. CASE prev = last
      BY <1>2, <3>1
    <3>2. CASE prev # last
      <4>1. last \in DOMAIN e
        BY <1>1, <3>2
      <4> QED BY <1>3, <1>7, <4>1
    <3> QED BY <3>1, <3>2
  <2> QED BY <1>2, <1>5, <2>1, <2>2
<1>8. CASE bad # {}
  <2>1. PICK lo : lo = Min(bad)
    OBVIOUS
  <2>2. lo \in bad /\ \A i \in bad : lo <= i
    <3>1. bad \in SUBSET Nat
      BY <1>1, <1>4
    <3> QED BY <1>8, <2>1, <3>1, BoundedMin
  <2>3. lo \in Nat /\ lo \in prev + 1 .. last
    BY <1>1, <1>4, <2>2
  <2>4. Max(DOMAIN e) = last
    <3>1. last \in DOMAIN e /\ DOMAIN e # {}
      BY <1>1, <2>3
    <3>2. /\ Max(DOMAIN e) \in DOMAIN e /\ last <= Max(DOMAIN e)
      BY <3>1, TableEnds
    <3> QED BY <1>1, <3>2
  <2>5. LogTable(new) /\ \A i : i \in DOMAIN new <=> i \in DOMAIN e /\ lo <= i /\ i <= last
    BY <1>6, <1>8, <2>1, <2>4, SliceTable
  <2>6. \A i : i \in DOMAIN new <=> i \in lo .. last
    BY <1>1, <2>3, <2>5
  <2>7. lo \in DOMAIN new /\ last \in DOMAIN new
    BY <1>1, <2>3, <2>6
  <2>8. Min(DOMAIN new) = lo /\ Max(DOMAIN new) = last
    <3>1. /\ Min(DOMAIN new) \in DOMAIN new /\ Max(DOMAIN new) \in DOMAIN new
          /\ Min(DOMAIN new) <= lo /\ last <= Max(DOMAIN new)
      BY <2>5, <2>7, TableEnds
    <3> QED BY <1>1, <2>3, <2>6, <3>1
  <2>9. lo <= n + 1
    <3>1. CASE lo = prev + 1
      BY <1>1, <1>2, <3>1
    <3>2. CASE lo # prev + 1
      <4>1. lo - 1 \in DOMAIN e /\ lo - 1 \notin bad
        BY <1>1, <2>2, <2>3, <3>2
      <4> QED BY <1>3, <2>3, <4>1
    <3> QED BY <3>1, <3>2
  <2> QED BY <1>2, <1>5, <2>6, <2>7, <2>8, <2>9
<1> QED BY <1>7, <1>8

\* raft-rs after new entries were put over its log, up to index last.
Grown(q, new, last) ==
  /\ LogTable(new) /\ TermsBelow(new, LastTerm)
  /\ raft.committed <= q.committed /\ q.committed <= last
  /\ DOMAIN new = {} => q.unst = raft.unst /\ last <= RaftLast(raft, store)
  /\ DOMAIN new # {} =>
       /\ q.unst = TruncateAndAppend(raft.unst, new) /\ Max(DOMAIN new) = last
       /\ raft.committed < Min(DOMAIN new) /\ Min(DOMAIN new) <= RaftLast(raft, store) + 1
       /\ Min(DOMAIN new) .. last \subseteq DOMAIN new

\* The part of the node a message of a leader leaves alone.
Kept(q) ==
  /\ RaftType(q) /\ q.role = "follower" /\ q.term >= raft.term
  /\ q.applied = raft.applied /\ q.since = raft.since /\ q.prevHs = raft.prevHs

\* raft-rs' own check can never fire: the entries of the message follow prev,
\* and prev is not below the commit index when the message is taken.
LEMMA NoConflictPanic ==
  ASSUME NEW r, NEW prev \in Index, NEW last \in Index, NEW pt, NEW e, RaftType(r), LogTable(e),
         \A i : i \in DOMAIN e <=> i \in prev + 1 .. last
  PROVE  ~AppendConflictPanics(r, store, prev, pt, e)
<1>1. PICK new : new = Conflicting(r, store, e)
  OBVIOUS
<1>2. LogTable(new) /\ DOMAIN new \subseteq DOMAIN e
  BY <1>1, ConflictingTable
<1>3. r.committed \in Nat /\ prev \in Nat /\ last \in Nat
  BY Bounds DEF RaftType
<1>4. DOMAIN new # {} => Min(DOMAIN new) \in prev + 1 .. last
  BY <1>2, TableEnds
<1>5. prev >= r.committed /\ DOMAIN new # {} => ~(Min(DOMAIN new) <= r.committed)
  BY <1>3, <1>4
<1> QED BY <1>1, <1>5 DEF AppendConflictPanics

LEMMA AppendOutcome ==
  ASSUME TypeInv, TermInv, RecvAppend
  PROVE  /\ ~Alone
         /\ \E q : /\ Handled(q) /\ UNCHANGED env /\ Kept(q) /\ q.snap = raft.snap
                   /\ \/ q.unst = raft.unst /\ q.committed = raft.committed
                      \/ \E last \in Index : \E new : Grown(q, new, last)
<1>1. PICK t \in Terms \ mine, prev \in Index, last \in Index, commit \in Index :
           /\ llog[t] # <<>> /\ t >= raft.term
           /\ prev <= last /\ last <= Len(llog[t]) /\ commit <= last
           /\ AppendFrom(t, prev, IF prev = 0 THEN 0 ELSE llog[t][prev].term,
                         Slice(llog[t], prev + 1, last), commit)
  BY AppendMessage
<1>2. PICK pt, e : pt = (IF prev = 0 THEN 0 ELSE llog[t][prev].term) /\ e = Slice(llog[t], prev + 1, last)
  OBVIOUS
<1>3. ~Alone /\ t <= LastTerm
  BY <1>1, LastTermMax DEF TermInv
<1>4. PICK r, q : r = StepDown(raft, t) /\ q = HandleAppend(r, store, prev, pt, e, commit)
  OBVIOUS
<1>5. /\ LogType(llog[t]) /\ LogTable(llog[t]) /\ DOMAIN llog[t] = 1 .. Len(llog[t])
      /\ Len(llog[t]) \in Nat /\ prev \in Nat /\ last \in Nat /\ commit \in Nat
  BY <1>1, LogIsTable, Bounds DEF TypeInv, LogsType
<1>6. LogTable(e) /\ \A i : i \in DOMAIN e <=> i \in prev + 1 .. last
  <2>1. LogTable(e) /\ \A i : i \in DOMAIN e <=> i \in DOMAIN llog[t] /\ prev + 1 <= i /\ i <= last
    BY <1>2, <1>5, SliceTable
  <2> QED BY <1>1, <1>5, <2>1
<1>7. RaftType(r) /\ r.term = t /\ SameLog(raft, r)
  BY <1>1, <1>4, StepDownType DEF TypeInv
<1>8. ~AppendConflictPanics(r, store, prev, pt, e)
  BY <1>1, <1>6, <1>7, NoConflictPanic
<1>9. Handled(q) /\ UNCHANGED env
  BY <1>1, <1>2, <1>4, <1>8 DEF AppendFrom
<1>10. /\ RaftType(q) /\ q.term = r.term /\ q.role = "follower"
       /\ q.snap = r.snap /\ q.applied = r.applied /\ q.since = r.since
       /\ q.prevHs = r.prevHs
       /\ \/ q.unst = r.unst /\ q.committed = r.committed
          \/ /\ prev >= r.committed /\ RaftTerm(Following(r), store, prev) = pt
             /\ Appended(Following(r), store, e, Max({prev} \cup DOMAIN e), commit, q)
  <2> DEFINE h == HandleAppend(r, store, prev, pt, e, commit)
  <2>1. /\ RaftType(h) /\ h.term = r.term /\ h.role = "follower"
        /\ h.snap = r.snap /\ h.applied = r.applied /\ h.since = r.since
        /\ h.prevHs = r.prevHs
        /\ \/ h.unst = r.unst /\ h.committed = r.committed
           \/ /\ prev >= r.committed /\ RaftTerm(Following(r), store, prev) = pt
              /\ Appended(Following(r), store, e, Max({prev} \cup DOMAIN e), commit, h)
    BY <1>6, <1>7, HandleAppendType
  <2>2. q = h
    BY <1>4
  <2> HIDE DEF h
  <2> QED BY <2>1, <2>2
<1>11. Kept(q) /\ q.snap = raft.snap
  BY <1>1, <1>7, <1>10 DEF Kept, SameLog
<1>12. CASE q.unst = r.unst /\ q.committed = r.committed
  BY <1>3, <1>9, <1>7, <1>11, <1>12 DEF SameLog
<1>13. CASE /\ prev >= r.committed /\ RaftTerm(Following(r), store, prev) = pt
            /\ Appended(Following(r), store, e, Max({prev} \cup DOMAIN e), commit, q)
  <2>1. PICK f : f = Following(r) /\ RaftType(f) /\ SameLog(r, f)
    BY <1>7, FollowingType
  <2>2. /\ f.unst = r.unst /\ f.snap = r.snap /\ r.unst = raft.unst /\ r.snap = raft.snap
        /\ f.committed = raft.committed /\ r.committed = raft.committed
    BY <1>7, <2>1 DEF SameLog
  <2>3. /\ RaftLast(f, store) = RaftLast(raft, store)
        /\ RaftTerm(f, store, prev) = RaftTerm(r, store, prev)
        /\ Conflicting(f, store, e) = Conflicting(r, store, e)
    <3>0. f.unst = r.unst /\ f.snap = r.snap
      BY <2>2
    <3>1. /\ RaftTerm(f, store, prev) = RaftTerm(r, store, prev)
          /\ Conflicting(f, store, e) = Conflicting(r, store, e)
      BY <3>0, SameReads
    <3>2. f.unst = raft.unst /\ f.snap = raft.snap
      BY <2>2
    <3>3. RaftLast(f, store) = RaftLast(raft, store)
      BY <3>2, SameReads
    <3> QED BY <3>1, <3>3
  <2>4. RaftLast(f, store) \in Nat
    BY <2>1, RaftLastType, Bounds DEF TypeInv
  <2>5. prev <= RaftLast(f, store)
    <3>1. CASE prev = 0
      BY <2>4, <3>1
    <3>2. CASE prev # 0
      <4>1. prev \in DOMAIN llog[t]
        BY <1>1, <1>5, <3>2
      <4>2. pt # 0
        BY <1>2, <1>5, <3>2, <4>1, Bounds DEF LogTable, LogEntry
      <4>3. RaftTerm(f, store, prev) # 0
        BY <1>13, <2>1, <4>2
      <4> QED BY <1>5, <2>4, <4>3, MatchedIsInLog
    <3> QED BY <3>1, <3>2
  <2>6. Max({prev} \cup DOMAIN e) = last
    <3>1. /\ Max({prev} \cup DOMAIN e) \in {prev} \cup DOMAIN e /\ prev <= Max({prev} \cup DOMAIN e)
          /\ \A i \in DOMAIN e : i <= Max({prev} \cup DOMAIN e)
      BY <1>6, TableMaxWith
    <3>2. PICK m : m = Max({prev} \cup DOMAIN e)
      OBVIOUS
    <3>3. m \in {prev} \cup (prev + 1 .. last) /\ \A i \in prev + 1 .. last : i <= m
      BY <1>6, <3>1, <3>2
    <3>4. m = last
      BY <1>1, <1>5, <3>3
    <3> QED BY <3>2, <3>4
  <2>7. PICK new : new = Conflicting(f, store, e)
    OBVIOUS
  <2>8. LogTable(new) /\ TermsBelow(new, LastTerm)
    <3>1. TermsBelow(llog[t], t)
      BY <1>1, <1>3 DEF TermInv
    <3>2. TermsBelow(llog[t], LastTerm)
      BY <1>1, <1>3, <1>5, <3>1, BelowHigher, LastTermMax
    <3>3. TermsBelow(e, LastTerm)
      BY <1>2, <3>2, SliceBelow
    <3> QED BY <1>6, <2>7, <3>3, ConflictingTable, ConflictingBelow
  <2>9. /\ DOMAIN new = {} => last <= RaftLast(f, store)
        /\ DOMAIN new # {} =>
             /\ Max(DOMAIN new) = last /\ Min(DOMAIN new) <= RaftLast(f, store) + 1
             /\ Min(DOMAIN new) .. last \subseteq DOMAIN new
    BY <1>1, <1>6, <2>1, <2>5, <2>7, NewEntries DEF TypeInv
  <2>10. /\ q.unst = IF DOMAIN new = {} THEN raft.unst ELSE TruncateAndAppend(raft.unst, new)
         /\ q.committed = Max({raft.committed, Min({commit, last})})
    BY <1>13, <2>1, <2>2, <2>6, <2>7 DEF Appended
  <2>11. raft.committed <= q.committed /\ q.committed <= last
    <3>1. raft.committed \in Nat /\ raft.committed <= prev
      BY <1>5, <1>13, <2>2, Bounds DEF TypeInv, RaftType
    <3>2. Min({commit, last}) \in Nat /\ Min({commit, last}) <= last
      BY <1>5, MinOfTwo
    <3>3. PICK m \in Nat : m = Min({commit, last}) /\ m <= last
      BY <3>2
    <3>4. Max({raft.committed, m}) \in {raft.committed, m} /\ raft.committed <= Max({raft.committed, m})
      BY <3>1, <3>3, MaxOfTwo
    <3> QED BY <1>1, <1>5, <2>10, <3>1, <3>3, <3>4
  <2>12. DOMAIN new # {} => raft.committed < Min(DOMAIN new)
    <3> SUFFICES ASSUME DOMAIN new # {} PROVE raft.committed < Min(DOMAIN new)
      OBVIOUS
    <3>1. RaftTerm(r, store, prev) = pt /\ prev >= r.committed
      BY <1>13, <2>1, <2>3
    <3>2. ~(Min(DOMAIN new) <= r.committed)
      BY <1>8, <2>3, <2>7, <3>1 DEF AppendConflictPanics
    <3>3. Min(DOMAIN new) \in 1 .. MaxIndex
      BY <2>8, TableEnds
    <3>4. r.committed \in Nat
      BY <1>7, Bounds DEF RaftType
    <3> QED BY <2>2, <3>2, <3>3, <3>4
  <2>13. Grown(q, new, last)
    BY <2>3, <2>8, <2>9, <2>10, <2>11, <2>12 DEF Grown
  <2> QED BY <1>3, <1>9, <1>11, <2>13
<1> QED BY <1>10, <1>12, <1>13

LEMMA SnapshotOutcome ==
  ASSUME TypeInv, TermInv, RecvSnapshot
  PROVE  /\ ~Alone /\ SnapshotMsg
         /\ \E q : /\ Handled(q) /\ UNCHANGED env /\ Kept(q) /\ raft.committed <= q.committed
                   /\ \/ /\ q.unst = raft.unst /\ q.snap = raft.snap
                         /\ q.committed = raft.committed \/ q.committed <= RaftLast(raft, store)
                      \/ /\ q.unst = NoEntries /\ q.snap.index = q.committed
                         /\ q.snap.index # 0 /\ q.snap.term <= q.term
<1>1. PICK t \in Terms \ mine, n \in Index :
           /\ llog[t] # <<>> /\ t >= raft.term /\ n \in DOMAIN llog[t]
           /\ SnapshotType(Sent(t, n)) /\ Sent(t, n).term = llog[t][n].term /\ Sent(t, n).index = n
           /\ Handled(HandleSnapshot(StepDown(raft, t), store, Sent(t, n)))
           /\ UNCHANGED env
  BY SnapshotMessage
<1>2. PICK x : x = Sent(t, n) /\ SnapshotType(x) /\ x.term = llog[t][n].term /\ x.index = n
  BY <1>1
<1>3. ~Alone /\ SnapshotMsg
  BY <1>1 DEF TermInv, RecvSnapshot
<1>4. PICK r : r = StepDown(raft, t)
  OBVIOUS
<1>5. RaftType(r) /\ r.term = t /\ SameLog(raft, r)
  BY <1>1, <1>4, StepDownType DEF TypeInv
<1>6. /\ LogTable(llog[t]) /\ TermsBelow(llog[t], t)
  BY <1>1, <1>3, LogIsTable DEF TypeInv, LogsType, TermInv
<1>7. x.term # 0 /\ x.term <= t /\ n # 0 /\ n \in Nat
  BY <1>1, <1>2, <1>6, Bounds DEF LogTable, LogEntry, TermsBelow
<1> DEFINE h == HandleSnapshot(r, store, x)
<1>8. /\ RaftType(h) /\ h.term = r.term /\ h.role = "follower"
      /\ h.applied = r.applied /\ h.since = r.since /\ h.prevHs = r.prevHs
      /\ \/ h.unst = r.unst /\ h.snap = r.snap /\ h.committed = r.committed
         \/ /\ h.unst = r.unst /\ h.snap = r.snap /\ h.committed = x.index
            /\ x.index >= r.committed
            /\ RaftTerm(Following(r), store, x.index) = x.term
         \/ /\ h.unst = NoEntries /\ h.snap = x /\ h.committed = x.index
            /\ x.index >= r.committed
  BY <1>2, <1>5, HandleSnapshotType
<1>9. PICK q : q = h
  OBVIOUS
<1>10. Handled(q) /\ UNCHANGED env
  BY <1>1, <1>2, <1>4, <1>9
<1> HIDE DEF h
<1>11. raft.committed \in Nat /\ r.committed = raft.committed /\ r.unst = raft.unst /\ r.snap = raft.snap
  BY <1>5, Bounds DEF SameLog, TypeInv, RaftType
<1>12. Kept(q)
  BY <1>1, <1>5, <1>8, <1>9 DEF Kept, SameLog
<1>13. CASE h.unst = r.unst /\ h.snap = r.snap /\ h.committed = r.committed
  BY <1>3, <1>9, <1>10, <1>11, <1>12, <1>13
<1>14. CASE /\ h.unst = r.unst /\ h.snap = r.snap /\ h.committed = x.index
            /\ x.index >= r.committed
            /\ RaftTerm(Following(r), store, x.index) = x.term
  <2>1. PICK f : f = Following(r) /\ RaftType(f) /\ SameLog(r, f)
    BY <1>5, FollowingType
  <2>2. f.unst = raft.unst /\ f.snap = raft.snap
    BY <1>11, <2>1 DEF SameLog
  <2>3. RaftLast(f, store) = RaftLast(raft, store)
    BY <2>2, SameReads
  <2>4. RaftLast(f, store) \in Nat
    BY <2>1, RaftLastType, Bounds DEF TypeInv
  <2>5. RaftTerm(f, store, n) # 0
    BY <1>2, <1>7, <1>14, <2>1
  <2>6. n <= RaftLast(f, store)
    BY <1>7, <2>4, <2>5, MatchedIsInLog
  <2> QED BY <1>2, <1>3, <1>7, <1>9, <1>10, <1>11, <1>12, <1>14, <2>3, <2>6
<1>15. CASE /\ h.unst = NoEntries /\ h.snap = x /\ h.committed = x.index
            /\ x.index >= r.committed
  BY <1>2, <1>3, <1>5, <1>7, <1>8, <1>9, <1>10, <1>11, <1>12, <1>15
<1> QED BY <1>8, <1>13, <1>14, <1>15

-----------------------------------------------------------------------------
(* TermInv is kept *)

LEMMA TermAppend ==
  ASSUME TypeInv, TermInv, RecvAppend
  PROVE  TermInv'
<1>2. ASSUME NEW q, Handled(q), UNCHANGED env, Kept(q), q.unst = raft.unst
      PROVE  TermInv'
  BY <1>2, TermHandled DEF Kept, env
<1>3. ASSUME NEW q, Handled(q), UNCHANGED env, Kept(q),
             NEW last \in Index, NEW new, Grown(q, new, last)
      PROVE  TermInv'
  <2>1. ~Alone /\ LastTerm' = LastTerm
    BY <1>3, AppendOutcome DEF LastTerm, env
  <2>2. TermsBelow(q.unst, LastTerm)
    <3>1. TermsBelow(raft.unst, LastTerm) /\ TermsBelow(new, LastTerm)
      BY <1>3, <2>1 DEF Grown, TermInv
    <3>2. TermsBelow(TruncateAndAppend(raft.unst, new), LastTerm)
      BY <3>1, TruncateBelow
    <3>3. q.unst = raft.unst \/ q.unst = TruncateAndAppend(raft.unst, new)
      BY <1>3 DEF Grown
    <3> QED BY <3>1, <3>2, <3>3
  <2>3. raft' = q /\ store' = store /\ llog' = llog /\ q.role = "follower"
    BY <1>3 DEF Handled, env, Kept
  <2> QED BY <2>1, <2>2, <2>3 DEF TermInv
<1> QED BY <1>2, <1>3, AppendOutcome

LEMMA TermReceive ==
  ASSUME TypeInv, TermInv, Receive
  PROVE  TermInv'
<1>1. CASE RecvNothing
  BY <1>1, TermHandled DEF RecvNothing, env
<1>2. CASE RecvSnapshot
  <2>1. PICK q : /\ Handled(q) /\ UNCHANGED env /\ Kept(q)
                 /\ q.unst = raft.unst \/ q.unst = NoEntries
    BY <1>2, SnapshotOutcome
  <2> QED BY <2>1, TermHandled DEF Kept, env
<1>3. CASE RecvRequestVote
  <2>1. PICK r : /\ Handled(r) /\ RaftType(r) /\ SameLog(raft, r) /\ r.term >= raft.term
                 /\ r.role \in {"follower", raft.role} /\ (r.term > raft.term => r.role = "follower")
                 /\ UNCHANGED env
    BY <1>3, VoteRequest
  <2>2. r.term \in Nat /\ raft.term \in Nat
    BY <2>1, Bounds DEF TypeInv, RaftType
  <2> QED BY <2>1, <2>2, TermHandled DEF SameLog, env
<1>4. CASE RecvAckQuorum
  <2>1. PICK n \in Index : /\ Handled([raft EXCEPT !.committed = n])
                           /\ UNCHANGED <<llog, mine>>
    BY <1>4, AckQuorum
  <2>2. PICK r : r = [raft EXCEPT !.committed = n]
    OBVIOUS
  <2>3. r.unst = raft.unst /\ r.role = raft.role /\ r.term = raft.term
    BY <2>2 DEF TypeInv, RaftType
  <2> QED BY <2>1, <2>2, <2>3, TermHandled
<1>5. CASE Campaign
  <2>1. PICK r : r = BecomeCandidate(raft, Self)
    OBVIOUS
  <2>2. SameLog(raft, r) /\ r.role = "candidate"
    BY <1>5, <2>1, CandidateType DEF Campaign, TypeInv
  <2> QED BY <1>5, <2>1, <2>2, TermHandled DEF Campaign, SameLog, env
<1>6. CASE Demote
  <2>1. PICK r : Handled(r) /\ SameLog(raft, r) /\ r.role = "follower"
    BY <1>6, Demotion
  <2> QED BY <1>6, <2>1, TermHandled DEF SameLog, Demote, env
<1>7. CASE RpcCreateSnapshot
  <2>1. SameEntries /\ UNCHANGED env
    BY <1>7, RpcThins DEF SameEntries, Thinned
  <2> QED BY <2>1, TermsKept DEF env
<1> QED BY <1>1, <1>2, <1>3, <1>4, <1>5, <1>6, <1>7, TermAppend, TermVoteQuorum, TermPropose
       DEF Receive

-----------------------------------------------------------------------------
(* on_ready, and what a crash leaves of it *)

\* The Ready d was taken from the node r, which becomes q.
Taken(r, q, d) ==
  /\ d.snap = r.snap /\ d.ents = r.unst /\ d.hs = HardState(r)
  /\ d.hasHs = (HardState(r) # r.prevHs) /\ d.committed = NextEntries(r, store)
  /\ q.term = r.term /\ q.vote = r.vote /\ q.role = r.role
  /\ q.unst = r.unst /\ q.snap = r.snap /\ q.committed = r.committed
  /\ q.applied = r.applied /\ q.prevHs = r.prevHs
  /\ q.since = IF r.snap # NoSnapshot THEN r.snap.index ELSE SinceAfter(r, d.committed)

LEMMA TickFacts ==
  ASSUME TypeInv, TickAndReady
  PROVE  /\ status = "up" /\ pc = "tick"
         /\ UNCHANGED <<store, status, fsm, env, net, crashes>>
         /\ \E r :
              /\ RaftType(r) /\ SameLog(raft, r) /\ r.term >= raft.term
              /\ r.role = "leader" => raft.role = "leader" /\ r.term = raft.term
              /\ \/ /\ rd' = NoReady /\ raft' = r /\ pc' = "recv"
                    /\ r.snap = NoSnapshot /\ DOMAIN r.unst = {}
                 \/ /\ Taken(r, raft', rd') /\ RaftType(raft')
                    /\ pc' = IF r.snap # NoSnapshot THEN "restore" ELSE "apply"
<1>1. PICK r \in TickOutcomes :
        LET new == Ready(r, store)
        IN  IF HasReady(new)
            THEN /\ rd' = new /\ raft' = TakeReady(r, new)
                 /\ pc' = IF new.snap # NoSnapshot THEN "restore" ELSE "apply"
            ELSE rd' = NoReady /\ raft' = r /\ pc' = "recv"
  BY DEF TickAndReady
<1>2. status = "up" /\ pc = "tick" /\ UNCHANGED <<store, status, fsm, env, net, crashes>>
  BY DEF TickAndReady, At
<1>3. /\ RaftType(r) /\ SameLog(raft, r) /\ r.term >= raft.term
      /\ r.role = "leader" => raft.role = "leader" /\ r.term = raft.term
  <2>1. raft.term \in Nat
    BY Bounds DEF TypeInv, RaftType
  <2>2. CASE r = raft
    BY <2>1, <2>2 DEF TypeInv, SameLog
  <2>3. CASE r # raft
    <3>1. r = BecomeCandidate(raft, Self) /\ raft.term < MaxTerm
      BY <2>3 DEF TickOutcomes
    <3>2. RaftType(r) /\ r.term = raft.term + 1 /\ r.role = "candidate" /\ SameLog(raft, r)
      BY <3>1, CandidateType DEF TypeInv
    <3> QED BY <2>1, <3>2
  <2> QED BY <2>2, <2>3
<1>4. PICK new : new = Ready(r, store)
  OBVIOUS
<1>5. /\ new.snap = r.snap /\ new.ents = r.unst /\ new.hs = HardState(r)
      /\ new.hasHs = (HardState(r) # r.prevHs) /\ new.committed = NextEntries(r, store)
  BY <1>4 DEF Ready, HasHardState
<1>6. ReadyType(new)
  BY <1>3, <1>4, ReadyHasType DEF TypeInv
<1>7. PICK q : q = TakeReady(r, new)
  OBVIOUS
<1>8. /\ RaftType(q) /\ q.term = r.term /\ q.vote = r.vote /\ q.role = r.role
      /\ q.unst = r.unst /\ q.snap = r.snap /\ q.committed = r.committed
      /\ q.applied = r.applied /\ q.prevHs = r.prevHs
      /\ q.since = IF new.snap # NoSnapshot THEN new.snap.index
                   ELSE SinceAfter(r, new.committed)
  BY <1>3, <1>6, <1>7, TakeReadyType
<1>9. CASE HasReady(new)
  <2>1. rd' = new /\ raft' = q /\ pc' = IF new.snap # NoSnapshot THEN "restore" ELSE "apply"
    BY <1>1, <1>4, <1>7, <1>9
  <2>2. Taken(r, q, new)
    BY <1>5, <1>8 DEF Taken
  <2> QED BY <1>2, <1>3, <1>5, <1>8, <2>1, <2>2
<1>10. CASE ~HasReady(new)
  <2>1. rd' = NoReady /\ raft' = r /\ pc' = "recv"
    BY <1>1, <1>4, <1>10
  <2>2. r.snap = NoSnapshot /\ DOMAIN r.unst = {}
    BY <1>5, <1>10 DEF HasReady
  <2> QED BY <1>2, <1>3, <2>1, <2>2
<1> QED BY <1>9, <1>10

\* The store while the entries of the table e are appended: those up to k.
PartlyAppended(s, e, k, x) ==
  /\ \A i : i \in DOMAIN x.entries <=> i \in DOMAIN s.entries \/ (i \in DOMAIN e /\ i <= k)
  /\ \A i \in DOMAIN x.entries :
       x.entries[i] = IF i \in DOMAIN e /\ i <= k THEN e[i] ELSE s.entries[i]
  /\ x.hs = s.hs /\ x.snap = s.snap

LEMMA TornAppend ==
  ASSUME NEW s, NEW e, StoreType(s), LogTable(e), NEW x \in AppendTorn(s, e)
  PROVE  Backend # "heed" /\ \E k \in DOMAIN e : PartlyAppended(s, e, k, x) /\ x.last = s.last
<1>1. Backend # "heed"
  BY DEF AppendTorn
<1>2. PICK k \in DOMAIN e : x = [s EXCEPT !.entries = PutAll(@, Slice(e, 0, k))]
  BY <1>1 DEF AppendTorn
<1>3. PICK c : c = Slice(e, 0, k)
  OBVIOUS
<1>4. /\ LogTable(c) /\ \A i : i \in DOMAIN c <=> i \in DOMAIN e /\ 0 <= i /\ i <= k
  BY <1>3, SliceTable
<1>5. \A i \in DOMAIN e : 0 <= i
  BY Bounds DEF LogTable
<1>6. \A i \in DOMAIN c : c[i] = e[i]
  BY <1>3 DEF Slice, Restrict
<1>7. x.entries = PutAll(s.entries, c) /\ x.last = s.last /\ x.hs = s.hs /\ x.snap = s.snap
  BY <1>2, <1>3 DEF StoreType
<1>8. /\ \A i : i \in DOMAIN x.entries <=> i \in DOMAIN s.entries \/ i \in DOMAIN c
      /\ \A i \in DOMAIN x.entries : x.entries[i] = IF i \in DOMAIN c THEN c[i] ELSE s.entries[i]
  BY <1>7 DEF PutAll
<1> QED BY <1>1, <1>4, <1>5, <1>6, <1>7, <1>8 DEF PartlyAppended

LEMMA AppendedStore ==
  ASSUME NEW s, NEW e, StoreType(s), LogTable(e), DOMAIN e # {}
  PROVE  LET x == AppendEntries(s, e)
         IN  /\ PartlyAppended(s, e, Max(DOMAIN e), x) /\ s.last <= x.last
             /\ Max(DOMAIN e) <= x.last /\ x.last \in {s.last, Max(DOMAIN e)}
<1>1. /\ Max(DOMAIN e) \in DOMAIN e /\ \A i \in DOMAIN e : i <= Max(DOMAIN e)
      /\ Max(DOMAIN e) \in Nat
  BY TableEnds, Bounds
<1>2. s.last \in Index /\ s.last \in Nat
  BY Bounds DEF StoreType
<1>3. PICK m : m = Max({s.last} \cup DOMAIN e)
  OBVIOUS
<1>4. m \in Nat /\ s.last <= m /\ m \in {s.last} \cup DOMAIN e /\ \A i \in DOMAIN e : i <= m
  BY <1>2, <1>3, TableMaxWith, Bounds
<1>5. Max(DOMAIN e) <= m /\ m \in {s.last, Max(DOMAIN e)}
  <2>1. CASE m = s.last
    BY <1>1, <1>4, <2>1
  <2>2. CASE m \in DOMAIN e
    <3>1. m <= Max(DOMAIN e) /\ Max(DOMAIN e) <= m
      BY <1>1, <1>4, <2>2
    <3>2. m = Max(DOMAIN e)
      BY <1>1, <1>4, <3>1
    <3> QED BY <3>1, <3>2
  <2> QED BY <1>4, <2>1, <2>2
<1>6. PICK x : x = AppendEntries(s, e)
  OBVIOUS
<1>7. x.entries = PutAll(s.entries, e) /\ x.last = m /\ x.hs = s.hs /\ x.snap = s.snap
  BY <1>3, <1>6 DEF AppendEntries, StoreType
<1>8. /\ \A i : i \in DOMAIN x.entries <=> i \in DOMAIN s.entries \/ i \in DOMAIN e
      /\ \A i \in DOMAIN x.entries : x.entries[i] = IF i \in DOMAIN e THEN e[i] ELSE s.entries[i]
  BY <1>7 DEF PutAll
<1>9. PartlyAppended(s, e, Max(DOMAIN e), x)
  BY <1>1, <1>7, <1>8 DEF PartlyAppended
<1> QED BY <1>4, <1>5, <1>6, <1>7, <1>9

LEMMA TornRestore ==
  ASSUME NEW s, NEW x, StoreType(s), NEW y \in ApplySnapshotTorn(s, x)
  PROVE  Backend # "heed" /\ y.entries = s.entries
BY DEF ApplySnapshotTorn, StoreType

\* The store a crash leaves.
LEMMA CrashStore ==
  ASSUME TypeInv, Crash
  PROVE  /\ status = "up" /\ status' = "down" /\ PowerOff /\ UNCHANGED env
         /\ \/ store' = store
            \/ Backend # "heed" /\ pc = "restore" /\ store'.entries = store.entries
            \/ /\ Backend # "heed" /\ pc = "apply" /\ store'.last = store.last
               /\ \E k \in DOMAIN rd.ents : PartlyAppended(store, rd.ents, k, store')
            \/ /\ Thinned(store, store') /\ store'.snap = store.snap
               /\ \/ store'.entries = store.entries
                  \/ /\ \A j : j \in DOMAIN store'.entries <=>
                               j \in DOMAIN store.entries /\ j >= raft.applied
                     /\ \/ SnapshotInterval \/ SnapshotRpc
                        \/ \E i \in DOMAIN rd.committed : rd.committed[i].kind = "conf"
<1>1. status = "up" /\ status' = "down" /\ PowerOff /\ UNCHANGED env
  BY CrashFacts DEF Crash
<1>2. StoreType(store) /\ LogTable(rd.ents)
  BY DEF TypeInv, ReadyType
<1>3. CASE store' \in TornStores
  <2>1. CASE store' = store
    BY <1>1, <2>1
  <2>2. CASE store' \in ApplySnapshotTorn(store, rd.snap) /\ pc = "restore"
    BY <1>1, <1>2, <2>2, TornRestore
  <2>3. CASE store' \in AppendTorn(store, rd.ents) /\ Applied("apply")
    BY <1>1, <1>2, <2>3, TornAppend DEF Applied, At
  <2> QED BY <1>3, <2>1, <2>2, <2>3 DEF TornStores
<1>4. CASE store' = Compact(store, raft.applied) /\ (SnapshotInterval \/ SnapshotRpc)
  BY <1>1, <1>2, <1>4, CompactThins
<1>5. ASSUME NEW i \in DOMAIN rd.committed, i \in Index, store' \in TornApplies(i),
             rd.committed[i].kind = "conf"
      PROVE  /\ Thinned(store, store') /\ store'.snap = store.snap
             /\ \/ store'.entries = store.entries
                \/ \A j : j \in DOMAIN store'.entries <=> j \in DOMAIN store.entries /\ j >= raft.applied
  <2>1. PICK c : c = SetConfState(store, i)
    OBVIOUS
  <2>2. StoreType(c) /\ Thinned(store, c) /\ c.entries = store.entries /\ c.snap = store.snap
    BY <1>2, <1>5, <2>1, ConfType, ConfThins
  <2>3. CASE store' = c
    BY <2>2, <2>3
  <2>4. CASE store' = Compact(c, raft.applied)
    <3>1. /\ Thinned(c, store') /\ store'.snap = c.snap
          /\ \A j : j \in DOMAIN store'.entries <=> j \in DOMAIN c.entries /\ j >= raft.applied
      BY <2>2, <2>4, CompactThins
    <3>2. Thinned(store, store')
      BY <2>2, <3>1, BothThin
    <3> QED BY <2>2, <3>1, <3>2
  <2>5. CASE store' = Compact(store, raft.applied)
    BY <1>2, <2>5, CompactThins
  <2> QED BY <1>5, <2>1, <2>3, <2>4, <2>5 DEF TornApplies
<1> QED BY <1>1, <1>3, <1>4, <1>5, CrashFacts

\* After advance: what was handed out is stable, and the hard state p is the
\* last one handed out.
Advanced(p) ==
  /\ raft'.term = raft.term /\ raft'.role = raft.role
  /\ raft'.unst = NoEntries /\ raft'.snap = NoSnapshot
  /\ raft'.committed = IF Alone /\ raft.role = "leader" THEN store.last ELSE raft.committed
  /\ raft'.applied = Max({raft.applied, raft.since})
  /\ raft'.since = IF DOMAIN rd'.committed = {} THEN raft.since ELSE Max(DOMAIN rd'.committed)
  /\ raft'.prevHs.term = p.term
  /\ \/ /\ raft'.committed > p.commit /\ pc' = "lightcommit"
        /\ rd'.commit = raft'.committed /\ raft'.prevHs.commit = raft'.committed
     \/ /\ raft'.committed <= p.commit /\ pc' = "lightapply" /\ raft'.prevHs.commit = p.commit
  /\ \A i \in DOMAIN rd'.committed :
       i \in DOMAIN store.entries /\ i <= raft'.committed /\ i <= store.last

LEMMA SendOutcome ==
  ASSUME TypeInv, SendPersisted
  PROVE  /\ Advanced(IF rd.hasHs THEN rd.hs ELSE raft.prevHs) /\ LogTable(rd'.committed)
         /\ status = "up" /\ pc = "send" /\ UNCHANGED <<store, status, fsm, llog, mine, crashes>>
<1>1. PICK r, light :
           /\ r = Advance(raft, store, rd, Alone) /\ light = LightReady(r, store)
           /\ RaftType(r) /\ LogTable(light.committed) /\ light.commit \in Index
           /\ raft' = TakeLightReady(r, light) /\ RaftType(raft')
           /\ ReadyType(rd') /\ rd'.committed = light.committed /\ rd'.commit = light.commit
           /\ pc' = IF light.commit # 0 THEN "lightcommit" ELSE "lightapply"
           /\ UNCHANGED <<store, status, fsm, llog, mine, crashes>>
  BY SendFacts
<1>2. PICK p : p = IF rd.hasHs THEN rd.hs ELSE raft.prevHs
  OBVIOUS
<1>3. p \in StoredStates /\ p.commit \in Nat
  BY <1>2, Bounds DEF TypeInv, RaftType, ReadyType, StoredStates
<1>4. /\ r.term = raft.term /\ r.role = raft.role
      /\ r.unst = NoEntries /\ r.snap = NoSnapshot
      /\ r.prevHs = p /\ r.since = raft.since /\ r.applied = Max({raft.applied, raft.since})
      /\ r.committed = IF Alone /\ raft.role = "leader" THEN store.last ELSE raft.committed
  <2>1. Alone \in BOOLEAN
    BY DEF Alone
  <2> DEFINE h == Advance(raft, store, rd, Alone)
  <2>2. /\ h.term = raft.term /\ h.role = raft.role
        /\ h.unst = NoEntries /\ h.snap = NoSnapshot
        /\ h.prevHs = IF rd.hasHs THEN rd.hs ELSE raft.prevHs
        /\ h.since = raft.since /\ h.applied = Max({raft.applied, raft.since})
        /\ h.committed = IF Alone /\ raft.role = "leader" THEN store.last ELSE raft.committed
    BY <2>1, AdvanceType DEF TypeInv
  <2>3. r = h
    BY <1>1
  <2> HIDE DEF h
  <2> QED BY <1>2, <2>2, <2>3
<1>5. PICK q : q = raft' /\ q = TakeLightReady(r, light)
  BY <1>1
<1>6. /\ q.term = r.term /\ q.role = r.role
      /\ q.unst = r.unst /\ q.snap = r.snap /\ q.committed = r.committed
      /\ q.applied = r.applied /\ q.since = SinceAfter(r, light.committed)
      /\ q.prevHs.commit = IF light.commit # 0 THEN light.commit ELSE r.prevHs.commit
  <2> DEFINE h == TakeLightReady(r, light)
  <2>1. /\ h.term = r.term /\ h.role = r.role
        /\ h.unst = r.unst /\ h.snap = r.snap /\ h.committed = r.committed
        /\ h.applied = r.applied /\ h.since = SinceAfter(r, light.committed)
        /\ h.prevHs.commit = IF light.commit # 0 THEN light.commit ELSE r.prevHs.commit
    BY <1>1, TakeLightReadyType
  <2> HIDE DEF h
  <2> QED BY <1>5, <2>1 DEF h
<1>7. q.prevHs.term = p.term
  <2>1. r.prevHs \in StoredStates
    BY <1>1 DEF RaftType
  <2>2. q.prevHs = [r.prevHs EXCEPT !.commit = IF light.commit # 0 THEN light.commit ELSE @]
    BY <1>1, <1>5 DEF TakeLightReady, RaftType
  <2>3. q.prevHs.term = r.prevHs.term
    BY <2>1, <2>2 DEF StoredStates
  <2> QED BY <1>4, <2>3
<1>8. light.commit = (IF r.committed > p.commit THEN r.committed ELSE 0) /\ light.committed = NextEntries(r, store)
  BY <1>1, <1>4 DEF LightReady
<1>9. r.committed \in Nat
  BY <1>1, Bounds DEF RaftType
<1>10. \/ /\ raft'.committed > p.commit /\ pc' = "lightcommit"
          /\ rd'.commit = raft'.committed /\ raft'.prevHs.commit = raft'.committed
       \/ /\ raft'.committed <= p.commit /\ pc' = "lightapply" /\ raft'.prevHs.commit = p.commit
  <2>1. CASE r.committed > p.commit
    <3>1. light.commit = r.committed /\ light.commit # 0
      BY <1>3, <1>8, <1>9, <2>1
    <3> QED BY <1>1, <1>5, <1>6, <2>1, <3>1
  <2>2. CASE ~(r.committed > p.commit)
    <3>1. light.commit = 0
      BY <1>8, <2>2
    <3> QED BY <1>1, <1>3, <1>4, <1>5, <1>6, <1>9, <2>2, <3>1
  <2> QED BY <2>1, <2>2
<1>11. \A i \in DOMAIN rd'.committed :
         i \in DOMAIN store.entries /\ i <= raft'.committed /\ i <= store.last
  <2>1. Persisted(r, store) = store.last
    BY <1>4, NoEntriesTable DEF Persisted, RaftLast, LastIndex
  <2>2. \A i \in DOMAIN NextEntries(r, store) :
          i \in DOMAIN store.entries /\ i <= r.committed /\ i <= Persisted(r, store)
    BY <1>1, NextEntriesType DEF TypeInv
  <2> QED BY <1>1, <1>5, <1>6, <1>8, <2>1, <2>2
<1>12. raft'.since = IF DOMAIN rd'.committed = {} THEN raft.since ELSE Max(DOMAIN rd'.committed)
  BY <1>1, <1>4, <1>5, <1>6 DEF SinceAfter
<1>13. Advanced(p)
  BY <1>4, <1>5, <1>6, <1>7, <1>10, <1>11, <1>12 DEF Advanced
<1>14. status = "up" /\ pc = "send"
  BY DEF SendPersisted, At
<1> QED BY <1>1, <1>2, <1>13, <1>14

LEMMA FinishFacts ==
  ASSUME TypeInv, FinishLightApply
  PROVE  /\ status = "up" /\ pc = "lightapply" /\ pc' = "recv" /\ rd' = NoReady
         /\ raft'.term = raft.term /\ raft'.role = raft.role /\ raft'.unst = raft.unst
         /\ raft'.snap = raft.snap /\ raft'.committed = raft.committed
         /\ raft'.since = raft.since /\ raft'.prevHs = raft.prevHs
         /\ raft'.applied = Max({raft.applied, raft.since})
         /\ UNCHANGED <<store, status, fsm, env, net, crashes>>
BY AdvanceApplyType DEF FinishLightApply, Applied, At, TypeInv

-----------------------------------------------------------------------------
(* TermInv is kept, continued *)

LEMMA TermReady ==
  ASSUME TypeInv, TurnInv, TermInv, OnReady
  PROVE  TermInv'
<1>1. CASE TickAndReady
  <2>1. PICK r :
          /\ SameLog(raft, r)
          /\ r.role = "leader" => raft.role = "leader" /\ r.term = raft.term
          /\ raft' = r \/ Taken(r, raft', rd')
    BY <1>1, TickFacts
  <2>2. store' = store /\ UNCHANGED env
    BY <1>1, TickFacts
  <2>3. SameEntries
    BY <2>1, <2>2 DEF SameEntries, Taken, SameLog
  <2> QED BY <2>2, <2>3, TermsKept DEF env
<1>2. CASE RestoreSnapshot
  <2>1. store'.entries = store.entries /\ raft' = raft /\ UNCHANGED env
    BY <1>2 DEF RestoreSnapshot, ApplySnapshot, TypeInv, StoreType
  <2>2. SameEntries
    BY <2>1 DEF SameEntries
  <2> QED BY <2>1, <2>2, TermsKept DEF env
<1>3. CASE ApplyEntry
  <2>1. Thinned(store, store') /\ raft' = raft /\ UNCHANGED env
    BY <1>3, ApplyThins
  <2>2. SameEntries
    BY <2>1 DEF SameEntries, Thinned
  <2> QED BY <2>1, <2>2, TermsKept DEF env
<1>4. CASE AppendReady
  <2>1. CASE AppendPanics(store, rd.ents)
    BY <1>4, <2>1, TermPanic DEF AppendReady
  <2>2. CASE ~AppendPanics(store, rd.ents)
    <3>1. /\ store' = AppendEntries(store, rd.ents) /\ raft' = raft /\ UNCHANGED env
          /\ rd.ents = raft.unst
      BY <1>4, <2>2 DEF AppendReady, Applied, At, TurnInv, HandedOut
    <3>2. CASE DOMAIN rd.ents = {}
      BY <3>1, <3>2, TermsKept DEF AppendEntries, SameEntries, env
    <3>3. CASE DOMAIN rd.ents # {}
      <4>1. PartlyAppended(store, rd.ents, Max(DOMAIN rd.ents), store')
        BY <3>1, <3>3, AppendedStore DEF TypeInv, ReadyType
      <4>2. SameEntries
        BY <3>1, <4>1 DEF SameEntries, PartlyAppended
      <4> QED BY <3>1, <4>2, TermsKept DEF env
    <3> QED BY <3>2, <3>3
  <2> QED BY <2>1, <2>2
<1>5. CASE WriteHardState
  <2>1. store'.entries = store.entries /\ raft' = raft /\ UNCHANGED env
    BY <1>5 DEF WriteHardState, SetHardState, TypeInv, StoreType
  <2>2. SameEntries
    BY <2>1 DEF SameEntries
  <2> QED BY <2>1, <2>2, TermsKept DEF env
<1>6. CASE SendPersisted
  <2>1. /\ raft'.unst = NoEntries /\ raft'.role = raft.role /\ raft'.term = raft.term
        /\ store' = store /\ UNCHANGED <<llog, mine>>
    BY <1>6, SendOutcome DEF Advanced
  <2>2. SameEntries
    BY <2>1, NoEntriesTable DEF SameEntries
  <2> QED BY <2>1, <2>2, TermsKept
<1>7. CASE WriteLightCommit
  <2>1. store'.entries = store.entries /\ raft' = raft /\ UNCHANGED env
    BY <1>7 DEF WriteLightCommit, SetHardStateCommit, TypeInv, StoreType
  <2>2. SameEntries
    BY <2>1 DEF SameEntries
  <2> QED BY <2>1, <2>2, TermsKept DEF env
<1>8. CASE FinishLightApply
  <2>1. SameEntries /\ UNCHANGED env
    BY <1>8, FinishFacts DEF SameEntries
  <2> QED BY <2>1, TermsKept DEF env
<1> QED BY <1>1, <1>2, <1>3, <1>4, <1>5, <1>6, <1>7, <1>8 DEF OnReady

LEMMA TermCrash ==
  ASSUME TypeInv, TurnInv, TermInv, Crash
  PROVE  TermInv'
<1>1. PowerOff /\ UNCHANGED env
  BY CrashStore
<1>2. CASE store'.entries = store.entries
  BY <1>1, <1>2, TermOff
<1>3. CASE Thinned(store, store')
  BY <1>1, <1>3, TermOff DEF Thinned
<1>4. ASSUME pc = "apply", NEW k \in DOMAIN rd.ents, PartlyAppended(store, rd.ents, k, store')
      PROVE  TermInv'
  <2>1. rd.ents = raft.unst
    BY <1>4 DEF TurnInv, HandedOut
  <2> QED BY <1>1, <1>4, <2>1, TermOff DEF PartlyAppended
<1> QED BY <1>2, <1>3, <1>4, CrashStore

LEMMA TermEnvironment ==
  ASSUME TypeInv, TermInv, Environment
  PROVE  TermInv'
<1>1. raft' = raft /\ store' = store /\ mine' = mine
  BY DEF Environment, OtherLeader, OtherPropose, OtherCommit, volatile
<1>2. ASSUME NEW t \in Terms, NEW q, q # <<>>, llog' = [llog EXCEPT ![t] = q], ~Alone,
             TermsBelow(q, t)
      PROVE  TermInv'
  <2>1. LastTerm <= LastTerm' /\ LastTerm \in Terms /\ LastTerm' \in Terms
    BY <1>2, LastTermGrows, LastTermMax, LastTermMaxNext
  <2>2. LogTable(store.entries) /\ LogTable(raft.unst) /\ DOMAIN llog = Terms /\ raft.term \in Terms
    BY DEF TypeInv, StoreType, RaftType, LogsType
  <2>3. TermsBelow(store.entries, LastTerm') /\ TermsBelow(raft.unst, LastTerm')
    BY <1>2, <2>1, <2>2, BelowHigher DEF TermInv
  <2>4. \A u \in Terms : TermsBelow(llog'[u], u) /\ (llog[u] # <<>> => llog'[u] # <<>>)
    BY <1>2, <2>2 DEF TermInv
  <2> QED BY <1>1, <1>2, <2>2, <2>3, <2>4 DEF TermInv
<1>3. CASE OtherLeader
  <2>1. ~Alone
    BY <1>3 DEF OtherLeader
  <2>2. PICK t \in Terms, u \in Terms : \E l, q :
           /\ t > LastTerm /\ u <= LastTerm /\ t # 0
           /\ LogType(l) /\ LogType(q) /\ q # <<>> /\ q = Put(l, Len(l) + 1, Noop(t))
           /\ \E n \in 0 .. Len(llog[u]) : l = Slice(llog[u], 1, n)
           /\ llog' = [llog EXCEPT ![t] = q]
    BY <1>3, OtherLeaderLog
  <2>3. PICK l, q :
           /\ t > LastTerm /\ u <= LastTerm /\ t # 0
           /\ LogType(l) /\ LogType(q) /\ q # <<>> /\ q = Put(l, Len(l) + 1, Noop(t))
           /\ \E n \in 0 .. Len(llog[u]) : l = Slice(llog[u], 1, n)
           /\ llog' = [llog EXCEPT ![t] = q]
    BY <2>2
  <2>4. TermsBelow(llog[u], u) /\ LogTable(llog[u]) /\ LogTable(l)
    BY <2>1, <2>3, LogIsTable DEF TermInv, TypeInv, LogsType
  <2>5. u <= t
    BY <2>3, LastTermMax, Bounds
  <2>6. TermsBelow(llog[u], t)
    BY <2>4, <2>5, BelowHigher
  <2>7. TermsBelow(l, t)
    BY <2>3, <2>6, SliceBelow
  <2>8. Noop(t).term <= t
    BY Bounds DEF Noop
  <2>9. TermsBelow(q, t)
    BY <2>3, <2>7, <2>8, PutBelow
  <2> QED BY <1>2, <2>1, <2>3, <2>9
<1>4. CASE OtherPropose
  <2>1. PICK q : \E e \in LogEntry :
           /\ LastTerm # 0 /\ LogType(q) /\ q # <<>> /\ e.term = LastTerm
           /\ q = Put(llog[LastTerm], Len(llog[LastTerm]) + 1, e)
           /\ llog' = [llog EXCEPT ![LastTerm] = q]
    BY <1>4, OtherProposeLog
  <2>2. PICK e \in LogEntry :
           /\ q # <<>> /\ e.term = LastTerm
           /\ q = Put(llog[LastTerm], Len(llog[LastTerm]) + 1, e)
           /\ llog' = [llog EXCEPT ![LastTerm] = q]
    BY <2>1
  <2>3. ~Alone /\ LastTerm \in Terms /\ LastTerm \in Nat
    BY <1>4, LastTermMax DEF OtherPropose, TermInv
  <2>4. TermsBelow(llog[LastTerm], LastTerm)
    BY <2>3 DEF TermInv
  <2>5. TermsBelow(q, LastTerm)
    BY <2>2, <2>3, <2>4, PutBelow
  <2> QED BY <1>2, <2>2, <2>3, <2>5
<1>5. CASE OtherCommit
  <2>1. llog' = llog
    BY <1>5 DEF OtherCommit
  <2>2. SameEntries
    BY <1>1 DEF SameEntries
  <2> QED BY <1>1, <2>1, <2>2, TermsKept
<1> QED BY <1>3, <1>4, <1>5 DEF Environment

-----------------------------------------------------------------------------
(* TurnInv is kept *)

\* The first of the unstable entries when there are more of them.
LEMMA MinOfMore ==
  ASSUME NEW f, NEW g, LogTable(f), LogTable(g), DOMAIN f # {}, DOMAIN f \subseteq DOMAIN g
  PROVE  DOMAIN g # {} /\ Min(DOMAIN g) <= Min(DOMAIN f)
<1>1. Min(DOMAIN f) \in DOMAIN g /\ DOMAIN g # {}
  BY TableEnds
<1> QED BY <1>1, TableEnds

LEMMA MinOfOne ==
  ASSUME NEW f, LogTable(f), NEW n, DOMAIN f = {n}
  PROVE  Min(DOMAIN f) = n /\ Max(DOMAIN f) = n
<1>1. DOMAIN f # {}
  OBVIOUS
<1>2. Min(DOMAIN f) \in DOMAIN f /\ Max(DOMAIN f) \in DOMAIN f
  BY <1>1, TableEnds
<1> QED BY <1>2

\* A leader's entry continues the log.
LEMMA LeaderGap ==
  ASSUME TypeInv, TurnInv, pc = "recv", NEW q, RaftType(q),
         DOMAIN q.unst = DOMAIN raft.unst \cup {RaftLast(raft, store) + 1}
  PROVE  Min(DOMAIN q.unst) <= store.last + 1
<1>1. LogTable(raft.unst) /\ LogTable(q.unst) /\ DOMAIN q.unst # {}
  BY DEF TypeInv, RaftType
<1>2. CASE DOMAIN raft.unst = {}
  <2>1. RaftLast(raft, store) = store.last
    BY <1>2 DEF RaftLast, LastIndex, TurnInv, PendingSnapshot
  <2>2. DOMAIN q.unst = {store.last + 1}
    BY <1>2, <2>1
  <2>3. Min(DOMAIN q.unst) = store.last + 1
    BY <1>1, <2>2, MinOfOne
  <2>4. store.last \in Nat
    BY Bounds DEF TypeInv, StoreType
  <2> QED BY <2>3, <2>4
<1>3. CASE DOMAIN raft.unst # {}
  <2>1. Min(DOMAIN q.unst) <= Min(DOMAIN raft.unst)
    BY <1>1, <1>3, MinOfMore
  <2>2. Min(DOMAIN raft.unst) <= store.last + 1
    BY <1>3 DEF TurnInv, NoGap
  <2>3. Min(DOMAIN q.unst) \in Nat /\ Min(DOMAIN raft.unst) \in Nat /\ store.last \in Nat
    <3>1. Min(DOMAIN q.unst) \in 1 .. MaxIndex /\ Min(DOMAIN raft.unst) \in 1 .. MaxIndex
      BY <1>1, <1>3, TableEnds
    <3>2. store.last \in Nat
      BY Bounds DEF TypeInv, StoreType
    <3> QED BY <3>1, <3>2, Bounds
  <2> QED BY <2>1, <2>2, <2>3
<1> QED BY <1>2, <1>3

\* New entries from a leader continue the log, and end it.
LEMMA GrownLog ==
  ASSUME TypeInv, TurnInv, pc = "recv", NEW q, NEW new, NEW last \in Index, RaftType(q),
         Grown(q, new, last), DOMAIN new # {}
  PROVE  /\ DOMAIN q.unst # {} /\ Max(DOMAIN q.unst) = last
         /\ Min(DOMAIN q.unst) <= store.last + 1
         /\ \/ Min(DOMAIN q.unst) = Min(DOMAIN new)
            \/ DOMAIN raft.unst # {} /\ Min(DOMAIN q.unst) = Min(DOMAIN raft.unst)
         /\ \A i : i \in DOMAIN q.unst <=>
                   i \in DOMAIN new \/ (i \in DOMAIN raft.unst /\ i < Min(DOMAIN new))
<1>1. PICK lo, D : lo = Min(DOMAIN new) /\ D = DOMAIN q.unst
  OBVIOUS
<1>2. /\ LogTable(raft.unst) /\ LogTable(new) /\ LogTable(q.unst)
      /\ q.unst = TruncateAndAppend(raft.unst, new) /\ Max(DOMAIN new) = last
      /\ lo <= RaftLast(raft, store) + 1
  BY <1>1 DEF Grown, TypeInv, RaftType
<1>3. /\ lo \in DOMAIN new /\ lo \in Nat /\ last \in DOMAIN new /\ last \in Nat
      /\ \A i \in DOMAIN new : lo <= i /\ i <= last
  BY <1>1, <1>2, TableEnds, Bounds
<1>4. \A i : i \in D <=> i \in DOMAIN new \/ (i \in DOMAIN raft.unst /\ 0 <= i /\ i <= lo - 1)
  BY <1>1, <1>2, TruncateTable
<1>5. DOMAIN raft.unst \subseteq Nat /\ DOMAIN new \subseteq Nat
  BY <1>2, Bounds DEF LogTable
<1>6. \A i : i \in D <=> i \in DOMAIN new \/ (i \in DOMAIN raft.unst /\ i < lo)
  BY <1>3, <1>4, <1>5
<1>7. D # {} /\ lo \in D /\ last \in D /\ \A i \in D : i <= last
  BY <1>3, <1>5, <1>6
<1>8. PICK n, m : n = Max(D) /\ m = Min(D)
  OBVIOUS
<1>9. n \in D /\ m \in D /\ n \in Nat /\ m \in Nat /\ \A i \in D : m <= i /\ i <= n
  BY <1>1, <1>2, <1>7, <1>8, TableEnds, Bounds
<1>10. n = last
  BY <1>3, <1>7, <1>9
<1>11. store.last \in Nat
  BY Bounds DEF TypeInv, StoreType
<1>12. m <= store.last + 1 /\ (m = lo \/ (DOMAIN raft.unst # {} /\ m = Min(DOMAIN raft.unst)))
  <2>1. CASE DOMAIN raft.unst = {}
    <3>1. RaftLast(raft, store) = store.last
      BY <2>1 DEF RaftLast, LastIndex, TurnInv, PendingSnapshot
    <3>2. m = lo
      BY <1>3, <1>6, <1>7, <1>9, <2>1
    <3> QED BY <1>2, <3>1, <3>2
  <2>2. CASE DOMAIN raft.unst # {}
    <3>1. PICK k : k = Min(DOMAIN raft.unst)
      OBVIOUS
    <3>2. k \in DOMAIN raft.unst /\ k \in Nat /\ \A i \in DOMAIN raft.unst : k <= i
      BY <1>2, <2>2, <3>1, TableEnds, Bounds
    <3>3. k <= store.last + 1
      BY <2>2, <3>1 DEF TurnInv, NoGap
    <3>4. CASE k < lo
      <4>1. k \in D /\ \A i \in D : k <= i
        BY <1>3, <1>5, <1>6, <3>2, <3>4
      <4>2. m = k
        BY <1>9, <3>2, <4>1
      <4> QED BY <2>2, <3>1, <3>3, <4>2
    <3>5. CASE ~(k < lo)
      <4>1. \A i \in D : lo <= i
        BY <1>3, <1>5, <1>6, <3>2, <3>5
      <4>2. m = lo
        BY <1>3, <1>7, <1>9, <4>1
      <4> QED BY <1>3, <1>11, <3>2, <3>3, <3>5, <4>2
    <3> QED BY <3>4, <3>5
  <2> QED BY <2>1, <2>2
<1> QED BY <1>1, <1>6, <1>7, <1>8, <1>10, <1>12

\* A handler that leaves no snapshot, or puts one in place of the entries.
LEMMA TurnHandled ==
  ASSUME TypeInv, TurnInv, Receiving, NEW q, Handled(q),
         q.snap = raft.snap \/ (/\ SnapshotMsg /\ ~Alone /\ q.unst = NoEntries /\ q.snap.index # 0
                                /\ q.committed = q.snap.index /\ q.snap.term <= q.term),
         DOMAIN q.unst # {} => Min(DOMAIN q.unst) <= store.last + 1
  PROVE  TurnInv'
<1>1. pc = "recv" /\ pc' = "tick" /\ raft' = q /\ store' = store /\ raft.snap = NoSnapshot
  BY DEF Receiving, Handled, TurnInv, PendingSnapshot
<1>2. PendingSnapshot'
  BY <1>1, NoEntriesTable DEF PendingSnapshot
<1>3. HandedOut' /\ NoGap'
  BY <1>1 DEF HandedOut, NoGap
<1> QED BY <1>2, <1>3 DEF TurnInv

LEMMA TurnOff ==
  ASSUME PowerOff
  PROVE  TurnInv'
BY OffRaftFacts DEF PowerOff, TurnInv, PendingSnapshot, HandedOut, NoGap

LEMMA TurnBootstrap ==
  ASSUME TypeInv, TypeInv', Bootstrap
  PROVE  TurnInv'
<1>1. CASE Panic
  BY <1>1, TurnOff DEF Panic
<1>2. CASE /\ Started(BootStore) /\ store' = BootStore /\ pc' = "recv"
  <2>1. PICK b : b = BootStore
    OBVIOUS
  <2>2. raft'.snap = NoSnapshot /\ store'.last = b.last
    BY <1>2, <2>1 DEF Started
  <2>3. PendingSnapshot' /\ HandedOut'
    BY <1>2, <2>2 DEF PendingSnapshot, HandedOut
  <2>4. NoGap'
    <3>1. CASE raft'.unst = NoEntries
      BY <3>1, NoEntriesTable DEF NoGap
    <3>2. CASE DOMAIN raft'.unst = {b.last + 1}
      <4>1. LogTable(raft'.unst) /\ store'.last \in Nat
        BY Bounds DEF TypeInv, RaftType, StoreType
      <4>2. Min(DOMAIN raft'.unst) = b.last + 1
        BY <3>2, <4>1, MinOfOne
      <4>3. Min(DOMAIN raft'.unst) <= store'.last + 1
        BY <2>2, <4>1, <4>2
      <4> QED BY <4>3 DEF NoGap
    <3> QED BY <1>2, <2>1, <3>1, <3>2 DEF Started
  <2> QED BY <2>3, <2>4 DEF TurnInv
<1> QED BY <1>1, <1>2, BootstrapFacts

LEMMA TurnReceive ==
  ASSUME TypeInv, TurnInv, TermInv, Receive
  PROVE  TurnInv'
<1>1. pc = "recv" /\ Receiving
  BY DEF Receive, Receiving, RecvNothing, RecvAppend, RecvSnapshot, RecvRequestVote,
         RecvVoteQuorum, Propose, RecvAckQuorum, Campaign, Demote, RpcCreateSnapshot
<1>2. DOMAIN raft.unst # {} => Min(DOMAIN raft.unst) <= store.last + 1
  BY <1>1 DEF TurnInv, NoGap
<1>3. ASSUME NEW r, Handled(r), r.unst = raft.unst, r.snap = raft.snap PROVE TurnInv'
  BY <1>1, <1>2, <1>3, TurnHandled
<1>4. CASE RecvNothing
  BY <1>3, <1>4 DEF RecvNothing
<1>5. CASE RecvAppend
  <2>2. ASSUME NEW q, Handled(q), Kept(q), q.snap = raft.snap,
               NEW last \in Index, NEW new, Grown(q, new, last)
        PROVE  TurnInv'
    <3>1. CASE DOMAIN new = {}
      BY <1>3, <2>2, <3>1 DEF Grown
    <3>2. CASE DOMAIN new # {}
      <4>1. Min(DOMAIN q.unst) <= store.last + 1
        BY <1>1, <2>2, <3>2, GrownLog DEF Kept
      <4> QED BY <1>1, <2>2, <4>1, TurnHandled
    <3> QED BY <3>1, <3>2
  <2> QED BY <1>3, <1>5, <2>2, AppendOutcome
<1>6. CASE RecvSnapshot
  <2>1. PICK q : /\ Handled(q) /\ SnapshotMsg /\ ~Alone
                 /\ \/ q.unst = raft.unst /\ q.snap = raft.snap
                    \/ /\ q.unst = NoEntries /\ q.snap.index = q.committed
                       /\ q.snap.index # 0 /\ q.snap.term <= q.term
    BY <1>6, SnapshotOutcome
  <2>2. CASE q.unst = raft.unst /\ q.snap = raft.snap
    BY <1>3, <2>1, <2>2
  <2>3. CASE /\ q.unst = NoEntries /\ q.snap.index = q.committed
             /\ q.snap.index # 0 /\ q.snap.term <= q.term
    BY <1>1, <2>1, <2>3, TurnHandled, NoEntriesTable
  <2> QED BY <2>1, <2>2, <2>3
<1>7. CASE RecvRequestVote
  <2>1. PICK r : Handled(r) /\ SameLog(raft, r)
    BY <1>7, VoteRequest
  <2> QED BY <1>3, <2>1 DEF SameLog
<1>8. CASE RecvVoteQuorum
  <2>1. PICK r : r = BecomeLeader(raft, store)
    OBVIOUS
  <2>2. /\ Handled(r) /\ raft.role = "candidate" /\ RaftLast(raft, store) < MaxIndex
    BY <1>8, <2>1 DEF RecvVoteQuorum
  <2>3. /\ RaftType(r) /\ r.snap = raft.snap
        /\ DOMAIN r.unst = DOMAIN raft.unst \cup {RaftLast(raft, store) + 1}
    BY <2>1, <2>2, BecomeLeaderType DEF TypeInv, RaftType
  <2>4. Min(DOMAIN r.unst) <= store.last + 1
    BY <1>1, <2>3, LeaderGap
  <2> QED BY <1>1, <2>2, <2>3, <2>4, TurnHandled
<1>9. CASE Propose
  <2>1. PICK r : /\ Handled(r) /\ RaftType(r) /\ r.snap = raft.snap
                 /\ DOMAIN r.unst = DOMAIN raft.unst \cup {RaftLast(raft, store) + 1}
    BY <1>9, Proposal
  <2>2. Min(DOMAIN r.unst) <= store.last + 1
    BY <1>1, <2>1, LeaderGap
  <2> QED BY <1>1, <2>1, <2>2, TurnHandled
<1>10. CASE RecvAckQuorum
  <2>1. PICK n \in Index : Handled([raft EXCEPT !.committed = n])
    BY <1>10, AckQuorum
  <2>2. PICK r : r = [raft EXCEPT !.committed = n]
    OBVIOUS
  <2>3. r.unst = raft.unst /\ r.snap = raft.snap
    BY <2>2 DEF TypeInv, RaftType
  <2> QED BY <1>3, <2>1, <2>2, <2>3
<1>11. CASE Campaign
  <2>1. PICK r : r = BecomeCandidate(raft, Self)
    OBVIOUS
  <2>2. SameLog(raft, r) /\ Handled(r)
    BY <1>11, <2>1, CandidateType DEF Campaign, TypeInv
  <2> QED BY <1>3, <2>2 DEF SameLog
<1>12. CASE Demote
  <2>1. PICK r : Handled(r) /\ SameLog(raft, r)
    BY <1>12, Demotion
  <2> QED BY <1>3, <2>1 DEF SameLog
<1>13. CASE RpcCreateSnapshot
  <2>1. Thinned(store, store') /\ raft' = raft /\ pc' = "tick"
    BY <1>13, RpcThins
  <2>2. raft.snap = NoSnapshot
    BY <1>1 DEF TurnInv, PendingSnapshot
  <2> QED BY <1>2, <2>1, <2>2 DEF TurnInv, PendingSnapshot, HandedOut, NoGap, Thinned
<1> QED BY <1>4, <1>5, <1>6, <1>7, <1>8, <1>9, <1>10, <1>11, <1>12, <1>13 DEF Receive

LEMMA TurnReady ==
  ASSUME TypeInv, TurnInv, OnReady
  PROVE  TurnInv'
<1>1. CASE TickAndReady
  <2>1. store' = store /\ pc = "tick"
    BY <1>1, TickFacts
  <2>2. PICK r :
          /\ RaftType(r) /\ SameLog(raft, r) /\ r.term >= raft.term
          /\ \/ /\ rd' = NoReady /\ raft' = r /\ pc' = "recv"
                /\ r.snap = NoSnapshot /\ DOMAIN r.unst = {}
             \/ /\ Taken(r, raft', rd') /\ RaftType(raft')
                /\ pc' = IF r.snap # NoSnapshot THEN "restore" ELSE "apply"
    BY <1>1, TickFacts
  <2>3. CASE raft' = r /\ pc' = "recv" /\ r.snap = NoSnapshot /\ DOMAIN r.unst = {}
    BY <2>3 DEF TurnInv, PendingSnapshot, HandedOut, NoGap
  <2>4. CASE Taken(r, raft', rd') /\ pc' = IF r.snap # NoSnapshot THEN "restore" ELSE "apply"
    <3>1. /\ raft'.snap = raft.snap /\ raft'.unst = raft.unst /\ raft'.committed = raft.committed
          /\ raft'.term = r.term /\ rd'.snap = raft'.snap /\ rd'.ents = raft'.unst
          /\ pc' = IF raft.snap # NoSnapshot THEN "restore" ELSE "apply"
          /\ rd'.hs = HardState(r) /\ rd'.hasHs = (HardState(r) # raft'.prevHs)
      BY <2>2, <2>4 DEF Taken, SameLog
    <3>2. HardState(raft') = HardState(r)
      BY <2>4 DEF Taken, HardState
    <3>3. raft.snap # NoSnapshot => raft.snap.term <= r.term
      <4>1. raft.snap.term \in Nat /\ raft.term \in Nat /\ r.term \in Nat
        BY <2>2, Bounds DEF TypeInv, RaftType, SnapshotType
      <4> QED BY <2>2, <4>1 DEF TurnInv, PendingSnapshot
    <3>4. PendingSnapshot'
      BY <3>1, <3>3 DEF TurnInv, PendingSnapshot
    <3>5. HandedOut'
      BY <3>1, <3>2 DEF HandedOut
    <3>6. NoGap'
      BY <2>1, <3>1 DEF NoGap, TurnInv
    <3> QED BY <3>4, <3>5, <3>6 DEF TurnInv
  <2> QED BY <2>2, <2>3, <2>4
<1>2. CASE RestoreSnapshot
  <2>1. /\ pc = "restore" /\ pc' = "apply" /\ raft' = raft /\ rd' = rd
        /\ store' = ApplySnapshot(store, rd.snap)
    BY <1>2 DEF RestoreSnapshot, At
  <2>2. /\ rd.snap = raft.snap /\ raft.snap # NoSnapshot /\ DOMAIN raft.unst = {}
        /\ rd.ents = raft.unst /\ rd.hs = HardState(raft)
        /\ rd.hasHs = (HardState(raft) # raft.prevHs)
    BY <2>1 DEF TurnInv, HandedOut, PendingSnapshot
  <2>3. store'.last = raft.snap.index
    BY <2>1, <2>2 DEF ApplySnapshot, TypeInv, StoreType
  <2> QED BY <2>1, <2>2, <2>3 DEF TurnInv, HandedOut, PendingSnapshot, NoGap
<1>3. CASE ApplyEntry
  <2>1. /\ store'.last = store.last /\ raft' = raft /\ pc' = pc /\ rd'.snap = rd.snap
        /\ rd'.ents = rd.ents /\ rd'.hs = rd.hs /\ rd'.hasHs = rd.hasHs /\ rd'.commit = rd.commit
    BY <1>3, ApplyThins DEF Thinned
  <2> QED BY <2>1 DEF TurnInv, HandedOut, PendingSnapshot, NoGap
<1>4. CASE AppendReady
  <2>1. CASE AppendPanics(store, rd.ents)
    BY <1>4, <2>1, TurnOff DEF AppendReady, Panic
  <2>2. CASE ~AppendPanics(store, rd.ents)
    <3>1. /\ pc = "apply" /\ pc' = "hardstate" /\ raft' = raft /\ rd' = rd
          /\ store' = AppendEntries(store, rd.ents)
      BY <1>4, <2>2 DEF AppendReady, Applied, At
    <3>2. raft.snap # NoSnapshot => store' = store
      BY <3>1 DEF AppendEntries, TurnInv, HandedOut, PendingSnapshot
    <3> QED BY <3>1, <3>2 DEF TurnInv, HandedOut, PendingSnapshot, NoGap
  <2> QED BY <2>1, <2>2
<1>5. CASE WriteHardState
  <2>1. /\ pc = "hardstate" /\ pc' = "send" /\ raft' = raft /\ rd' = rd /\ store'.last = store.last
    BY <1>5 DEF WriteHardState, At, SetHardState, TypeInv, StoreType
  <2> QED BY <2>1 DEF TurnInv, HandedOut, PendingSnapshot, NoGap
<1>6. CASE SendPersisted
  <2>1. /\ raft'.unst = NoEntries /\ raft'.snap = NoSnapshot
        /\ \/ /\ pc' = "lightcommit" /\ rd'.commit = raft'.committed
              /\ raft'.prevHs.commit = raft'.committed
           \/ pc' = "lightapply"
    BY <1>6, SendOutcome DEF Advanced
  <2> QED BY <2>1, NoEntriesTable DEF TurnInv, HandedOut, PendingSnapshot, NoGap
<1>7. CASE WriteLightCommit
  <2>1. pc = "lightcommit" /\ pc' = "lightapply" /\ raft' = raft
    BY <1>7 DEF WriteLightCommit, At
  <2> QED BY <2>1 DEF TurnInv, HandedOut, PendingSnapshot, NoGap
<1>8. CASE FinishLightApply
  <2>1. pc = "lightapply" /\ pc' = "recv" /\ raft'.unst = raft.unst /\ raft'.snap = raft.snap
    BY <1>8, FinishFacts
  <2> QED BY <2>1 DEF TurnInv, HandedOut, PendingSnapshot, NoGap
<1> QED BY <1>1, <1>2, <1>3, <1>4, <1>5, <1>6, <1>7, <1>8 DEF OnReady

-----------------------------------------------------------------------------
(* Both hold in every configuration *)

NodeInv == TypeInv /\ TurnInv /\ TermInv

LEMMA InitNode == Init => NodeInv
<1> SUFFICES ASSUME Init PROVE NodeInv
  OBVIOUS
<1>1. TypeInv
  BY InitTypes
<1>2. raft = OffRaft /\ pc = "recv" /\ store = EmptyStore /\ \A t \in Terms : llog[t] = <<>>
  BY DEF Init
<1>3. TurnInv
  BY <1>2, OffRaftFacts DEF TurnInv, PendingSnapshot, HandedOut, NoGap
<1>4. DOMAIN store.entries = {}
  BY <1>2 DEF EmptyStore
<1>5. TermInv
  BY <1>2, <1>4, OffRaftFacts DEF TermInv, TermsBelow
<1> QED BY <1>1, <1>3, <1>5 DEF NodeInv

LEMMA NextNode == NodeInv /\ [Next]_vars => NodeInv'
<1> SUFFICES ASSUME NodeInv, [Next]_vars PROVE NodeInv'
  OBVIOUS
<1>1. TypeInv /\ TurnInv /\ TermInv /\ TypeInv'
  BY NextTypes DEF NodeInv
<1>2. CASE Bootstrap
  BY <1>1, <1>2, TurnBootstrap, TermBootstrap DEF NodeInv
<1>3. CASE Receive
  BY <1>1, <1>3, TurnReceive, TermReceive DEF NodeInv
<1>4. CASE OnReady
  BY <1>1, <1>4, TurnReady, TermReady DEF NodeInv
<1>5. CASE Crash
  <2>1. TurnInv'
    BY <1>1, <1>5, CrashStore, TurnOff
  <2> QED BY <1>1, <1>5, <2>1, TermCrash DEF NodeInv
<1>6. CASE Environment
  <2>1. UNCHANGED <<store, raft, pc, rd>>
    BY <1>6 DEF Environment, OtherLeader, OtherPropose, OtherCommit, volatile
  <2>2. TurnInv'
    BY <1>1, <2>1 DEF TurnInv, HandedOut, PendingSnapshot, NoGap
  <2> QED BY <1>1, <1>6, <2>2, TermEnvironment DEF NodeInv
<1>7. CASE UNCHANGED vars
  <2>1. TurnInv'
    BY <1>1, <1>7 DEF TurnInv, HandedOut, PendingSnapshot, NoGap, vars
  <2>2. SameEntries
    BY <1>7 DEF SameEntries, vars
  <2>3. TermInv'
    BY <1>1, <1>7, <2>2, TermsKept DEF vars
  <2> QED BY <1>1, <2>1, <2>3 DEF NodeInv
<1> QED BY <1>2, <1>3, <1>4, <1>5, <1>6, <1>7 DEF Next

-----------------------------------------------------------------------------
(* The commit index *)

\* Configurations in which no step writes an older commit index: a restart
\* does not apply the stored snapshot over the log, and the snapshot of a
\* leader is applied in one transaction, or never sent.
SafeRestore == ~BootstrapFromSnapshot /\ (Backend = "heed" \/ ~SnapshotMsg)

HardStateGrows ==
  store'.hs.term >= store.hs.term /\ store'.hs.commit >= store.hs.commit

LEMMA Naturals ==
  ASSUME TypeInv
  PROVE  /\ store.last \in Nat /\ store.hs.term \in Nat /\ store.hs.commit \in Nat
         /\ store.snap.index \in Nat /\ store.snap.term \in Nat
         /\ raft.term \in Nat /\ raft.committed \in Nat /\ raft.applied \in Nat
         /\ raft.since \in Nat /\ raft.prevHs.commit \in Nat /\ raft.prevHs.term \in Nat
         /\ RaftLast(raft, store) \in Nat
         /\ DOMAIN store.entries \subseteq Nat /\ DOMAIN raft.unst \subseteq Nat
         /\ DOMAIN rd.committed \subseteq Nat
<1>1. /\ store.last \in Nat /\ store.hs.term \in Nat /\ store.hs.commit \in Nat
      /\ store.snap.index \in Nat /\ store.snap.term \in Nat
  BY Bounds DEF TypeInv, StoreType, StoredStates, SnapshotType
<1>2. /\ raft.term \in Nat /\ raft.committed \in Nat /\ raft.applied \in Nat
      /\ raft.since \in Nat /\ raft.prevHs.commit \in Nat /\ raft.prevHs.term \in Nat
  BY Bounds DEF TypeInv, RaftType, StoredStates
<1>3. RaftLast(raft, store) \in Nat
  BY RaftLastType, Bounds DEF TypeInv
<1>4. /\ DOMAIN store.entries \subseteq Nat /\ DOMAIN raft.unst \subseteq Nat
      /\ DOMAIN rd.committed \subseteq Nat
  BY Bounds DEF TypeInv, StoreType, RaftType, ReadyType, LogTable
<1> QED BY <1>1, <1>2, <1>3, <1>4

LEMMA FirstIsOne ==
  ASSUME NEW s, StoreType(s)
  PROVE  /\ 1 \in DOMAIN s.entries => FirstIndex(s) = 1
         /\ FirstIndex(s) = 1 /\ DOMAIN s.entries # {} => 1 \in DOMAIN s.entries
         /\ DOMAIN s.entries = {} => FirstIndex(s) = s.snap.index + 1
<1>1. DOMAIN s.entries # {} =>
        /\ FirstIndex(s) \in DOMAIN s.entries /\ FirstIndex(s) \in 1 .. MaxIndex
        /\ \A i \in DOMAIN s.entries : FirstIndex(s) <= i
  BY TableEnds DEF FirstIndex, StoreType
<1>2. 1 \in DOMAIN s.entries => FirstIndex(s) = 1
  BY <1>1, Bounds
<1> QED BY <1>1, <1>2 DEF FirstIndex

\* A handler that leaves the commit index in the log.
LEMMA CommitHandled ==
  ASSUME TypeInv, CommitInv, Receiving, NEW q, Handled(q), RaftType(q), q.term >= raft.term,
         raft.committed <= q.committed, q.committed <= RaftLast(q, store),
         q.applied = raft.applied, q.since = raft.since, q.prevHs = raft.prevHs
  PROVE  CommitInv' /\ HardStateGrows
<1>1. pc' = "tick" /\ raft' = q /\ UNCHANGED <<store, status, rd>> /\ status = "up"
  BY DEF Handled, Receiving
<1>2. /\ q.term \in Nat /\ q.committed \in Nat /\ raft.committed \in Nat /\ raft.term \in Nat
      /\ store.hs.term \in Nat /\ store.hs.commit \in Nat /\ raft.since \in Nat
  BY Naturals, Bounds DEF RaftType
<1>3. CommitInLog'
  <2>1. store.hs.term <= q.term /\ store.hs.commit <= q.committed /\ q.since <= q.committed
    BY <1>1, <1>2 DEF CommitInv, CommitInLog
  <2> QED BY <1>1, <2>1 DEF CommitInv, CommitInLog
<1>4. FreshLog'
  BY <1>1 DEF CommitInv, FreshLog, Fresh, FirstIndex
<1>5. HardStateGrows
  BY <1>1, <1>2 DEF HardStateGrows
<1> QED BY <1>3, <1>4, <1>5 DEF CommitInv

\* The node stops and leaves the hard state and the last index.
LEMMA CommitOff ==
  ASSUME TypeInv, CommitInv, PowerOff, status' # "up", store'.hs = store.hs, store'.last = store.last,
         Fresh(store) => /\ FirstIndex(store') = 1
                         /\ DOMAIN store'.entries = {} => store.last = 0
  PROVE  CommitInv' /\ HardStateGrows
<1>1. DOMAIN rd'.committed = {}
  BY NoEntriesTable DEF PowerOff, NoReady
<1>2. Fresh(store)' => Fresh(store)
  BY DEF Fresh
<1>3. CommitInv'
  BY <1>1, <1>2 DEF CommitInv, CommitInLog, FreshLog
<1>4. HardStateGrows
  BY Naturals DEF HardStateGrows
<1> QED BY <1>3, <1>4

LEMMA CommitPanic ==
  ASSUME TypeInv, CommitInv, Panic
  PROVE  CommitInv' /\ HardStateGrows
<1>1. PowerOff /\ status' = "dead" /\ store' = store
  BY DEF Panic
<1>2. Fresh(store) => FirstIndex(store) = 1 /\ (DOMAIN store.entries = {} => store.last = 0)
  BY DEF CommitInv, FreshLog
<1>3. FirstIndex(store)' = FirstIndex(store)
  BY <1>1
<1> QED BY <1>1, <1>2, <1>3, CommitOff

LEMMA CommitBootstrap ==
  ASSUME SafeRestore, TypeInv, TypeInv', CommitInv, Bootstrap
  PROVE  CommitInv' /\ HardStateGrows
<1>1. CASE Panic
  BY <1>1, CommitPanic
<1>2. CASE /\ Started(BootStore) /\ store' = BootStore /\ status' = "up" /\ rd' = NoReady
           /\ pc' = "recv"
  <2>1. PICK b : b = BootStore
    OBVIOUS
  <2>2. /\ StoreType(b) /\ b.entries = store.entries /\ b.snap = store.snap
        /\ FirstIndex(b) = FirstIndex(store)
        /\ \/ b = store /\ store.last # 0
           \/ /\ store.last = 0
              /\ b.last = store.snap.index /\ b.hs.commit = store.snap.index
              /\ b.hs.term >= store.hs.term
    BY <2>1, BootStoreFacts DEF TypeInv, SafeRestore
  <2>3. /\ store.hs.term \in Nat /\ store.hs.commit \in Nat /\ store.last \in Nat
        /\ b.hs.term \in Nat /\ b.hs.commit \in Nat /\ b.last \in Nat /\ store.snap.index \in Nat
    BY <2>2, Naturals, Bounds DEF StoreType, StoredStates
  <2>4. store.hs.commit <= store.last
    BY DEF CommitInv, CommitInLog
  <2>5. b.hs.term >= store.hs.term /\ b.hs.commit >= store.hs.commit /\ b.hs.commit <= b.last
    BY <2>2, <2>3, <2>4
  <2>6. Fresh(b) => Fresh(store) /\ FirstIndex(b) = 1 /\ (DOMAIN b.entries = {} => b.last = 0)
    <3> SUFFICES ASSUME Fresh(b) PROVE Fresh(store) /\ FirstIndex(b) = 1 /\ (DOMAIN b.entries = {} => b.last = 0)
      OBVIOUS
    <3>1. Fresh(store)
      BY <2>3, <2>5 DEF Fresh
    <3>2. FirstIndex(b) = 1
      BY <2>2, <3>1 DEF CommitInv, FreshLog
    <3>3. DOMAIN b.entries = {} => b.last = 0
      BY <2>2, <3>1 DEF CommitInv, FreshLog, Fresh
    <3> QED BY <3>1, <3>2, <3>3
  <2>7. b.hs = DefaultHardState => Fresh(b)
    BY DEF DefaultHardState, Fresh
  <2>8. PICK c \in Nat : c = raft'.committed
    BY Bounds DEF TypeInv, RaftType
  <2>9. /\ c = IF b.hs = DefaultHardState THEN FirstIndex(b) - 1 ELSE b.hs.commit
        /\ raft'.snap = NoSnapshot /\ raft'.since = 0 /\ raft'.applied = FirstIndex(b) - 1
        /\ raft'.prevHs.term = b.hs.term /\ raft'.prevHs.commit = c /\ raft'.term >= b.hs.term
        /\ raft'.unst = NoEntries \/ DOMAIN raft'.unst = {b.last + 1}
    BY <1>2, <2>1, <2>8 DEF Started
  <2>10. c = b.hs.commit
    BY <2>3, <2>6, <2>7, <2>9 DEF Fresh
  <2>11. b.last <= RaftLast(raft', b)
    <3>1. CASE raft'.unst = NoEntries
      <4>1. RaftLast(raft', b) = b.last
        BY <2>9, <3>1, NoEntriesTable DEF RaftLast, LastIndex
      <4> QED BY <2>3, <4>1
    <3>2. CASE DOMAIN raft'.unst = {b.last + 1}
      <4>1. LogTable(raft'.unst) /\ DOMAIN raft'.unst # {}
        BY <3>2 DEF TypeInv, RaftType
      <4>2. RaftLast(raft', b) = b.last + 1
        BY <3>2, <4>1, MinOfOne DEF RaftLast
      <4> QED BY <2>3, <4>2
    <3> QED BY <2>9, <3>1, <3>2
  <2>12. RaftLast(raft', b) \in Nat
    BY <2>2, RaftLastType, Bounds DEF TypeInv
  <2>13. c <= RaftLast(raft', b)
    BY <2>3, <2>5, <2>10, <2>11, <2>12
  <2>14. store' = b /\ status' = "up" /\ pc' = "recv" /\ DOMAIN rd'.committed = {}
    BY <1>2, <2>1, NoEntriesTable DEF NoReady
  <2>15. CommitInLog'
    BY <2>3, <2>5, <2>8, <2>9, <2>10, <2>13, <2>14 DEF CommitInLog
  <2>16. FreshLog'
    <3> SUFFICES ASSUME Fresh(b)
                 PROVE  /\ FirstIndex(b) = 1 /\ (DOMAIN b.entries = {} => b.last = 0)
                        /\ raft'.applied = 0 /\ raft'.prevHs.term = 0 /\ raft'.prevHs.commit = 0
      BY <2>14 DEF FreshLog
    <3> QED BY <2>3, <2>6, <2>9, <2>10 DEF Fresh
  <2> QED BY <2>5, <2>14, <2>15, <2>16 DEF CommitInv, HardStateGrows
<1> QED BY <1>1, <1>2, BootstrapFacts

\* The last index of a leader that appends, and of a node whose log grew.
LEMMA LeaderLast ==
  ASSUME TypeInv, NEW q, RaftType(q),
         DOMAIN q.unst = DOMAIN raft.unst \cup {RaftLast(raft, store) + 1}
  PROVE  RaftLast(raft, store) < RaftLast(q, store)
<1>1. LogTable(q.unst) /\ DOMAIN q.unst # {} /\ RaftLast(raft, store) + 1 \in DOMAIN q.unst
  BY DEF RaftType
<1>2. RaftLast(raft, store) + 1 <= Max(DOMAIN q.unst) /\ Max(DOMAIN q.unst) \in 1 .. MaxIndex
  BY <1>1, TableEnds
<1>3. RaftLast(q, store) = Max(DOMAIN q.unst)
  BY <1>1 DEF RaftLast
<1> QED BY <1>2, <1>3, Naturals, Bounds

\* A step that only thins the stored table, and nothing of a fresh log.
LEMMA CommitThinned ==
  ASSUME TypeInv, CommitInv, Thinned(store, store'), UNCHANGED <<status, raft>>,
         pc' = pc \/ (pc = "recv" /\ pc' = "tick"),
         DOMAIN rd'.committed \subseteq DOMAIN rd.committed,
         \/ store'.entries = store.entries /\ store'.snap = store.snap
         \/ /\ \A j : j \in DOMAIN store'.entries <=> j \in DOMAIN store.entries /\ j >= raft.applied
            /\ Fresh(store) /\ DOMAIN store.entries = {} => store'.snap.index = store.last
            /\ status = "up"
  PROVE  CommitInv' /\ HardStateGrows
<1>1. store'.last = store.last /\ store'.hs = store.hs
  BY DEF Thinned
<1>2. HardStateGrows
  BY <1>1, Naturals DEF HardStateGrows
<1>3. RaftLast(raft, store') = RaftLast(raft, store)
  BY <1>1 DEF RaftLast, LastIndex
<1>4. CommitInLog'
  BY <1>1, <1>3 DEF CommitInv, CommitInLog
<1>5. FreshLog'
  <2> SUFFICES ASSUME Fresh(store)
               PROVE  /\ FirstIndex(store') = 1 /\ (DOMAIN store'.entries = {} => store'.last = 0)
                      /\ DOMAIN rd'.committed \subseteq DOMAIN store'.entries
    BY <1>1 DEF CommitInv, FreshLog, Fresh
  <2>1. /\ FirstIndex(store) = 1 /\ (DOMAIN store.entries = {} => store.last = 0)
        /\ DOMAIN rd.committed \subseteq DOMAIN store.entries
    BY DEF CommitInv, FreshLog
  <2>2. CASE store'.entries = store.entries /\ store'.snap = store.snap
    BY <1>1, <2>1, <2>2 DEF FirstIndex
  <2>3. CASE /\ \A j : j \in DOMAIN store'.entries <=> j \in DOMAIN store.entries /\ j >= raft.applied
             /\ Fresh(store) /\ DOMAIN store.entries = {} => store'.snap.index = store.last
             /\ status = "up"
    <3>1. raft.applied = 0 /\ \A j \in DOMAIN store.entries : j \in Nat
      BY <2>3, Naturals DEF CommitInv, FreshLog
    <3>2. DOMAIN store'.entries = DOMAIN store.entries
      BY <2>3, <3>1
    <3>3. FirstIndex(store') = 1
      BY <2>1, <2>3, <3>2 DEF FirstIndex
    <3> QED BY <1>1, <2>1, <3>2, <3>3
  <2> QED BY <2>2, <2>3
<1> QED BY <1>2, <1>4, <1>5 DEF CommitInv

LEMMA CommitReceive ==
  ASSUME NodeInv, CommitInv, Receive
  PROVE  CommitInv' /\ HardStateGrows
<1>1. TypeInv /\ TurnInv /\ TermInv /\ pc = "recv" /\ status = "up" /\ Receiving
  BY DEF NodeInv, Receive, Receiving, RecvNothing, RecvAppend, RecvSnapshot, RecvRequestVote,
         RecvVoteQuorum, Propose, RecvAckQuorum, Campaign, Demote, RpcCreateSnapshot
<1>2. /\ raft.committed <= RaftLast(raft, store) /\ raft.committed \in Nat
      /\ RaftLast(raft, store) \in Nat /\ raft.term \in Nat
  BY <1>1, Naturals DEF CommitInv, CommitInLog
<1>3. ASSUME NEW r, Handled(r), RaftType(r), r.term >= raft.term, SameLog(raft, r)
      PROVE  CommitInv' /\ HardStateGrows
  <2>1. r.unst = raft.unst /\ r.snap = raft.snap
    BY <1>3 DEF SameLog
  <2>2. RaftLast(r, store) = RaftLast(raft, store)
    BY <2>1, SameReads
  <2> QED BY <1>1, <1>2, <1>3, <2>2, CommitHandled DEF SameLog
<1>4. CASE RecvNothing
  BY <1>1, <1>2, <1>3, <1>4 DEF RecvNothing, TypeInv, SameLog
<1>5. CASE RecvAppend
  <2>2. ASSUME NEW q, Handled(q), Kept(q), q.snap = raft.snap, q.unst = raft.unst,
               q.committed = raft.committed
        PROVE  CommitInv' /\ HardStateGrows
    BY <1>3, <2>2 DEF Kept, SameLog
  <2>3. ASSUME NEW q, Handled(q), Kept(q), q.snap = raft.snap,
               NEW last \in Index, NEW new, Grown(q, new, last)
        PROVE  CommitInv' /\ HardStateGrows
    <3>1. RaftType(q) /\ q.committed \in Nat /\ last \in Nat /\ RaftLast(q, store) \in Nat
      BY <1>1, <2>3, RaftLastType, Bounds DEF Kept, RaftType, TypeInv
    <3>2. raft.committed <= q.committed /\ q.committed <= last
      BY <2>3 DEF Grown
    <3>3. last <= RaftLast(q, store)
      <4>1. CASE DOMAIN new = {}
        <5>1. q.unst = raft.unst /\ q.snap = raft.snap /\ last <= RaftLast(raft, store)
          BY <2>3, <4>1 DEF Grown
        <5>2. RaftLast(q, store) = RaftLast(raft, store)
          BY <5>1, SameReads
        <5> QED BY <5>1, <5>2
      <4>2. CASE DOMAIN new # {}
        <5>1. DOMAIN q.unst # {} /\ Max(DOMAIN q.unst) = last
          BY <1>1, <2>3, <3>1, <4>2, GrownLog
        <5>2. RaftLast(q, store) = last
          BY <5>1 DEF RaftLast
        <5> QED BY <3>1, <5>2
      <4> QED BY <4>1, <4>2
    <3>4. q.committed <= RaftLast(q, store)
      BY <3>1, <3>2, <3>3
    <3> QED BY <1>1, <2>3, <3>1, <3>2, <3>4, CommitHandled DEF Kept
  <2> QED BY <1>1, <1>5, <2>2, <2>3, AppendOutcome
<1>6. CASE RecvSnapshot
  <2>1. PICK q : /\ Handled(q) /\ Kept(q) /\ raft.committed <= q.committed
                 /\ \/ /\ q.unst = raft.unst /\ q.snap = raft.snap
                       /\ q.committed = raft.committed \/ q.committed <= RaftLast(raft, store)
                    \/ /\ q.unst = NoEntries /\ q.snap.index = q.committed
                       /\ q.snap.index # 0 /\ q.snap.term <= q.term
    BY <1>1, <1>6, SnapshotOutcome
  <2>2. q.committed <= RaftLast(q, store)
    <3>1. CASE /\ q.unst = raft.unst /\ q.snap = raft.snap
               /\ q.committed = raft.committed \/ q.committed <= RaftLast(raft, store)
      <4>1. RaftLast(q, store) = RaftLast(raft, store)
        BY <3>1, SameReads
      <4> QED BY <1>2, <3>1, <4>1
    <3>2. CASE q.unst = NoEntries /\ q.snap.index = q.committed /\ q.snap.index # 0
      <4>1. q.snap # NoSnapshot
        BY <3>2 DEF NoSnapshot, DefaultSnapshot
      <4>2. RaftLast(q, store) = q.committed
        BY <3>2, <4>1, NoEntriesTable DEF RaftLast
      <4>3. q.committed \in Nat
        BY <2>1, Bounds DEF Kept, RaftType
      <4> QED BY <4>2, <4>3
    <3> QED BY <2>1, <3>1, <3>2
  <2> QED BY <1>1, <2>1, <2>2, CommitHandled DEF Kept
<1>7. CASE RecvRequestVote
  <2>1. PICK r : Handled(r) /\ RaftType(r) /\ SameLog(raft, r) /\ r.term >= raft.term
    BY <1>1, <1>7, VoteRequest
  <2> QED BY <1>3, <2>1
<1>8. ASSUME NEW r, Handled(r), RaftType(r), r.term = raft.term, r.committed = raft.committed,
             r.applied = raft.applied, r.since = raft.since, r.prevHs = raft.prevHs,
             DOMAIN r.unst = DOMAIN raft.unst \cup {RaftLast(raft, store) + 1}
      PROVE  CommitInv' /\ HardStateGrows
  <2>1. RaftLast(raft, store) < RaftLast(r, store) /\ RaftLast(r, store) \in Nat
    BY <1>1, <1>8, LeaderLast, RaftLastType, Bounds DEF TypeInv
  <2>2. r.committed <= RaftLast(r, store) /\ raft.committed <= r.committed /\ r.term >= raft.term
    BY <1>2, <1>8, <2>1
  <2> QED BY <1>1, <1>8, <2>2, CommitHandled
<1>9. CASE RecvVoteQuorum
  <2>1. PICK r : r = BecomeLeader(raft, store)
    OBVIOUS
  <2>2. /\ Handled(r) /\ raft.role = "candidate" /\ RaftLast(raft, store) < MaxIndex
    BY <1>9, <2>1 DEF RecvVoteQuorum
  <2>3. /\ RaftType(r) /\ r.term = raft.term /\ r.committed = raft.committed
        /\ r.applied = raft.applied /\ r.since = raft.since /\ r.prevHs = raft.prevHs
        /\ DOMAIN r.unst = DOMAIN raft.unst \cup {RaftLast(raft, store) + 1}
    BY <1>1, <2>1, <2>2, BecomeLeaderType DEF TypeInv, RaftType
  <2> QED BY <1>8, <2>2, <2>3
<1>10. CASE Propose
  <2>1. PICK r : /\ Handled(r) /\ RaftType(r) /\ r.term = raft.term /\ r.committed = raft.committed
                 /\ r.applied = raft.applied /\ r.since = raft.since /\ r.prevHs = raft.prevHs
                 /\ DOMAIN r.unst = DOMAIN raft.unst \cup {RaftLast(raft, store) + 1}
    BY <1>1, <1>10, Proposal
  <2> QED BY <1>8, <2>1
<1>11. CASE RecvAckQuorum
  <2>1. PICK n \in Index : /\ raft.committed < n /\ n <= RaftLast(raft, store)
                           /\ Handled([raft EXCEPT !.committed = n])
                           /\ RaftType([raft EXCEPT !.committed = n])
    BY <1>1, <1>11, AckQuorum
  <2>2. PICK r : r = [raft EXCEPT !.committed = n]
    OBVIOUS
  <2>3. /\ r.unst = raft.unst /\ r.snap = raft.snap /\ r.committed = n /\ r.term = raft.term
        /\ r.applied = raft.applied /\ r.since = raft.since /\ r.prevHs = raft.prevHs
    BY <1>1, <2>2 DEF TypeInv, RaftType
  <2>4. r.unst = raft.unst /\ r.snap = raft.snap
    BY <2>3
  <2>5. RaftLast(r, store) = RaftLast(raft, store)
    BY <2>4, SameReads
  <2>6. Handled(r) /\ RaftType(r)
    BY <2>1, <2>2
  <2>7. n \in Nat
    BY Bounds
  <2>8. raft.committed <= r.committed /\ r.committed <= RaftLast(r, store) /\ r.term >= raft.term
    BY <1>2, <2>1, <2>3, <2>5, <2>7
  <2> QED BY <1>1, <2>3, <2>6, <2>8, CommitHandled
<1>12. CASE Campaign
  <2>1. PICK r : r = BecomeCandidate(raft, Self)
    OBVIOUS
  <2>2. Handled(r) /\ RaftType(r) /\ r.term = raft.term + 1 /\ SameLog(raft, r)
    BY <1>1, <1>12, <2>1, CandidateType DEF Campaign, TypeInv
  <2>3. r.term >= raft.term
    BY <1>2, <2>2
  <2> QED BY <1>3, <2>2, <2>3
<1>13. CASE Demote
  <2>1. PICK r : Handled(r) /\ RaftType(r) /\ SameLog(raft, r) /\ r.term >= raft.term
    BY <1>1, <1>13, Demotion
  <2> QED BY <1>3, <2>1
<1>14. CASE RpcCreateSnapshot
  <2>1. /\ Thinned(store, store') /\ store'.snap.index = store.last
        /\ \A j : j \in DOMAIN store'.entries <=> j \in DOMAIN store.entries /\ j >= raft.applied
        /\ pc = "recv" /\ pc' = "tick" /\ UNCHANGED <<status, raft, rd>>
    BY <1>1, <1>14, RpcThins
  <2> QED BY <1>1, <2>1, CommitThinned
<1> QED BY <1>4, <1>5, <1>6, <1>7, <1>9, <1>10, <1>11, <1>12, <1>13, <1>14 DEF Receive

LEMMA CommitTick ==
  ASSUME NodeInv, CommitInv, TickAndReady
  PROVE  CommitInv' /\ HardStateGrows
<1>1. TypeInv /\ TurnInv /\ store' = store /\ status = "up" /\ status' = "up" /\ pc = "tick"
  BY TickFacts DEF NodeInv
<1>2. PICK r :
        /\ RaftType(r) /\ SameLog(raft, r) /\ r.term >= raft.term
        /\ \/ /\ rd' = NoReady /\ raft' = r /\ pc' = "recv"
              /\ r.snap = NoSnapshot /\ DOMAIN r.unst = {}
           \/ /\ Taken(r, raft', rd') /\ RaftType(raft')
              /\ pc' = IF r.snap # NoSnapshot THEN "restore" ELSE "apply"
  BY <1>1, TickFacts
<1>3. /\ r.unst = raft.unst /\ r.snap = raft.snap /\ r.committed = raft.committed
      /\ r.applied = raft.applied /\ r.since = raft.since /\ r.prevHs = raft.prevHs
  BY <1>2 DEF SameLog
<1>4. /\ raft'.unst = raft.unst /\ raft'.snap = raft.snap /\ raft'.committed = raft.committed
      /\ raft'.applied = raft.applied /\ raft'.prevHs = raft.prevHs /\ raft'.term = r.term
      /\ pc' \in {"recv", "restore", "apply"}
  BY <1>2, <1>3 DEF Taken
<1>5. /\ raft'.since <= raft.committed
      /\ \A i \in DOMAIN rd'.committed : i \in DOMAIN store.entries
  <2>1. raft.since <= raft.committed /\ raft.committed \in Nat
    BY <1>1, Naturals DEF CommitInv, CommitInLog
  <2>2. CASE rd' = NoReady /\ raft' = r
    <3>1. DOMAIN rd'.committed = {}
      BY <2>2, NoEntriesTable DEF NoReady
    <3> QED BY <1>3, <2>1, <2>2, <3>1
  <2>3. CASE Taken(r, raft', rd')
    <3>1. PICK e : e = NextEntries(r, store)
      OBVIOUS
    <3>2. LogTable(e) /\ \A i \in DOMAIN e : i \in DOMAIN store.entries /\ i <= r.committed
      BY <1>1, <1>2, <3>1, NextEntriesType DEF TypeInv
    <3>3. /\ rd'.committed = e
          /\ raft'.since = IF r.snap # NoSnapshot THEN r.snap.index ELSE SinceAfter(r, e)
      BY <2>3, <3>1 DEF Taken
    <3>4. raft.snap # NoSnapshot => raft.snap.index = raft.committed
      BY <1>1 DEF TurnInv, PendingSnapshot
    <3>5. SinceAfter(r, e) <= raft.committed
      <4>1. CASE DOMAIN e = {}
        BY <1>3, <2>1, <4>1 DEF SinceAfter
      <4>2. CASE DOMAIN e # {}
        <5>1. Max(DOMAIN e) \in DOMAIN e
          BY <3>2, <4>2, TableEnds
        <5> QED BY <1>3, <3>2, <4>2, <5>1 DEF SinceAfter
      <4> QED BY <4>1, <4>2
    <3>6. raft'.since <= raft.committed
      BY <1>3, <2>1, <3>3, <3>4, <3>5
    <3> QED BY <3>2, <3>3, <3>6
  <2> QED BY <1>2, <2>2, <2>3
<1>6. RaftLast(raft', store) = RaftLast(raft, store)
  BY <1>4 DEF RaftLast
<1>7. store.hs.term <= raft'.term
  <2>1. store.hs.term \in Nat /\ raft.term \in Nat /\ r.term \in Nat
    BY <1>1, <1>2, Naturals, Bounds DEF RaftType
  <2>2. store.hs.term <= raft.term
    BY <1>1 DEF CommitInv, CommitInLog
  <2> QED BY <1>2, <1>4, <2>1, <2>2
<1>8. CommitInLog'
  BY <1>1, <1>4, <1>5, <1>6, <1>7 DEF CommitInv, CommitInLog
<1>9. FreshLog'
  BY <1>1, <1>4, <1>5 DEF CommitInv, FreshLog, Fresh, FirstIndex
<1>10. HardStateGrows
  BY <1>1, Naturals DEF HardStateGrows
<1> QED BY <1>8, <1>9, <1>10 DEF CommitInv

LEMMA CommitRestore ==
  ASSUME NodeInv, CommitInv, RestoreSnapshot
  PROVE  CommitInv' /\ HardStateGrows
<1>1. /\ TypeInv /\ TurnInv /\ pc = "restore" /\ pc' = "apply" /\ raft' = raft /\ rd' = rd
      /\ status = "up" /\ status' = "up" /\ store' = ApplySnapshot(store, rd.snap)
  BY DEF RestoreSnapshot, At, NodeInv
<1>2. PICK x : /\ x = rd.snap /\ x = raft.snap /\ x # NoSnapshot /\ x.index # 0
               /\ x.index = raft.committed /\ x.term <= raft.term /\ DOMAIN raft.unst = {}
  BY <1>1 DEF TurnInv, HandedOut, PendingSnapshot
<1>3. PICK h : /\ h = SnapshotHardState(store, x) /\ h.commit = x.index /\ h.term >= store.hs.term
               /\ h.term \in {store.hs.term, x.term}
  BY <1>1, <1>2, SnapshotHardStateType DEF TypeInv, RaftType
<1>4. store'.hs = h /\ store'.last = x.index
  BY <1>1, <1>2, <1>3 DEF ApplySnapshot, TypeInv, StoreType
<1>5. /\ store.hs.term <= raft.term /\ store.hs.commit <= raft.committed
      /\ raft.since <= raft.committed /\ raft.committed \in Nat
  BY <1>1, Naturals DEF CommitInv, CommitInLog
<1>6. RaftLast(raft, store') = raft.committed
  BY <1>2 DEF RaftLast
<1>7. CommitInLog'
  BY <1>1, <1>2, <1>3, <1>4, <1>5, <1>6 DEF CommitInLog
<1>8. FreshLog'
  BY <1>2, <1>3, <1>4 DEF FreshLog, Fresh
<1>9. HardStateGrows
  BY <1>2, <1>3, <1>4, <1>5 DEF HardStateGrows
<1> QED BY <1>7, <1>8, <1>9 DEF CommitInv

LEMMA CommitApply ==
  ASSUME NodeInv, CommitInv, ApplyEntry
  PROVE  CommitInv' /\ HardStateGrows
<1>1. TypeInv
  BY DEF NodeInv
<1>2. PICK i \in DOMAIN rd.committed :
         /\ Thinned(store, store') /\ status = "up" /\ pc' = pc /\ UNCHANGED <<status, raft>>
         /\ DOMAIN rd'.committed \subseteq DOMAIN rd.committed
         /\ \/ store'.entries = store.entries /\ store'.snap = store.snap
            \/ \A j : j \in DOMAIN store'.entries <=> j \in DOMAIN store.entries /\ j >= raft.applied
  BY <1>1, ApplyThins
<1>3. Fresh(store) => DOMAIN store.entries # {}
  BY <1>2 DEF CommitInv, FreshLog
<1> QED BY <1>1, <1>2, <1>3, CommitThinned

\* What is appended to a fresh log starts at its first index.
LEMMA FreshAppend ==
  ASSUME TypeInv, TurnInv, CommitInv, Fresh(store), pc = "apply", NEW k \in DOMAIN rd.ents,
         NEW x, StoreType(x), PartlyAppended(store, rd.ents, k, x)
  PROVE  1 \in DOMAIN x.entries /\ FirstIndex(x) = 1
<1>1. FirstIndex(store) = 1 /\ (DOMAIN store.entries = {} => store.last = 0)
  BY DEF CommitInv, FreshLog
<1>2. 1 \in DOMAIN x.entries
  <2>1. CASE DOMAIN store.entries # {}
    <3>1. 1 \in DOMAIN store.entries
      BY <1>1, <2>1, FirstIsOne DEF TypeInv
    <3> QED BY <3>1 DEF PartlyAppended
  <2>2. CASE DOMAIN store.entries = {}
    <3>1. LogTable(rd.ents) /\ DOMAIN rd.ents # {} /\ rd.ents = raft.unst
      BY DEF TypeInv, ReadyType, TurnInv, HandedOut
    <3>2. Min(DOMAIN rd.ents) <= store.last + 1
      BY <3>1 DEF TurnInv, NoGap
    <3>3. /\ Min(DOMAIN rd.ents) \in DOMAIN rd.ents /\ Min(DOMAIN rd.ents) \in 1 .. MaxIndex
          /\ Min(DOMAIN rd.ents) <= k
      BY <3>1, TableEnds
    <3>4. Min(DOMAIN rd.ents) = 1
      BY <1>1, <2>2, <3>2, <3>3, Bounds
    <3>5. 1 \in DOMAIN rd.ents /\ 1 <= k
      BY <3>3, <3>4
    <3> QED BY <3>5 DEF PartlyAppended
  <2> QED BY <2>1, <2>2
<1> QED BY <1>2, FirstIsOne

LEMMA CommitAppend ==
  ASSUME NodeInv, CommitInv, AppendReady
  PROVE  CommitInv' /\ HardStateGrows
<1>1. TypeInv /\ TurnInv /\ pc = "apply" /\ status = "up" /\ DOMAIN rd.committed = {}
  BY DEF AppendReady, Applied, At, NodeInv
<1>2. CASE AppendPanics(store, rd.ents)
  BY <1>1, <1>2, CommitPanic DEF AppendReady
<1>3. CASE ~AppendPanics(store, rd.ents)
  <2>1. /\ store' = AppendEntries(store, rd.ents) /\ pc' = "hardstate" /\ status' = "up"
        /\ raft' = raft /\ rd' = rd /\ rd.ents = raft.unst
    BY <1>1, <1>3 DEF AppendReady, TurnInv, HandedOut
  <2>2. /\ store.last \in Nat /\ raft.committed \in Nat /\ RaftLast(raft, store) \in Nat
        /\ store.hs.commit \in Nat /\ store.hs.term \in Nat
    BY <1>1, Naturals
  <2>3. /\ raft.committed <= RaftLast(raft, store) /\ store.hs.commit <= store.last
        /\ store.hs.term <= raft.term /\ store.hs.commit <= raft.committed
        /\ raft.since <= raft.committed
    BY <1>1 DEF CommitInv, CommitInLog
  <2>4. CASE DOMAIN rd.ents = {}
    <3>1. store' = store
      BY <2>1, <2>4 DEF AppendEntries
    <3>2. RaftLast(raft, store) = store.last
      BY <1>1, <2>1, <2>4 DEF RaftLast, LastIndex, TurnInv, PendingSnapshot
    <3>3. CommitInLog'
      BY <1>1, <2>1, <2>3, <3>1, <3>2 DEF CommitInLog
    <3>4. FreshLog'
      BY <1>1, <2>1, <3>1 DEF CommitInv, FreshLog, Fresh, FirstIndex
    <3>5. HardStateGrows
      BY <2>2, <3>1 DEF HardStateGrows
    <3> QED BY <3>3, <3>4, <3>5 DEF CommitInv
  <2>5. CASE DOMAIN rd.ents # {}
    <3>1. PICK m : m = Max(DOMAIN rd.ents)
      OBVIOUS
    <3>2. PICK x : x = AppendEntries(store, rd.ents)
      OBVIOUS
    <3>3. /\ PartlyAppended(store, rd.ents, m, x) /\ store.last <= x.last /\ m <= x.last
      BY <1>1, <2>5, <3>1, <3>2, AppendedStore DEF TypeInv, ReadyType
    <3>4. LogTable(rd.ents) /\ m \in 1 .. MaxIndex /\ \A i \in DOMAIN rd.ents : i <= m
      BY <1>1, <2>5, <3>1, TableEnds DEF TypeInv, ReadyType
    <3>5. StoreType(x)
      BY <1>1, <3>2, <3>4, AppendType DEF TypeInv
    <3>6. x.last \in Nat /\ m \in Nat
      <4>1. x.last \in Nat
        BY <3>5, Bounds DEF StoreType
      <4> QED BY <3>4, <4>1, Bounds
    <3>7. RaftLast(raft, store) = m
      BY <2>1, <2>5, <3>1 DEF RaftLast
    <3>8. x.hs = store.hs /\ raft.committed <= x.last /\ store.hs.commit <= x.last
      BY <2>2, <2>3, <3>3, <3>6, <3>7 DEF PartlyAppended
    <3>9. CommitInLog'
      BY <1>1, <2>1, <2>3, <3>2, <3>8 DEF CommitInLog
    <3>10. m \in DOMAIN rd.ents
      BY <2>5, <3>1, <3>4, TableEnds
    <3>11. Fresh(store) => 1 \in DOMAIN x.entries /\ FirstIndex(x) = 1
      BY <1>1, <3>3, <3>5, <3>10, FreshAppend
    <3>12. FreshLog'
      BY <1>1, <2>1, <3>2, <3>8, <3>11 DEF CommitInv, FreshLog, Fresh
    <3>13. HardStateGrows
      BY <2>1, <2>2, <3>2, <3>8 DEF HardStateGrows
    <3> QED BY <3>9, <3>12, <3>13 DEF CommitInv
  <2> QED BY <2>4, <2>5
<1> QED BY <1>2, <1>3

LEMMA CommitHardState ==
  ASSUME NodeInv, CommitInv, WriteHardState
  PROVE  CommitInv' /\ HardStateGrows
<1>1. /\ TypeInv /\ TurnInv /\ pc = "hardstate" /\ pc' = "send" /\ raft' = raft /\ rd' = rd
      /\ status = "up" /\ status' = "up"
      /\ store' = IF rd.hasHs THEN SetHardState(store, rd.hs) ELSE store
  BY DEF WriteHardState, At, NodeInv
<1>2. rd.hs = HardState(raft) /\ rd.hasHs = (HardState(raft) # raft.prevHs)
  BY <1>1 DEF TurnInv, HandedOut
<1>3. /\ store.hs.term \in Nat /\ store.hs.commit \in Nat /\ raft.term \in Nat
      /\ raft.committed \in Nat
  BY <1>1, Naturals
<1>4. /\ store.hs.term <= raft.term /\ store.hs.commit <= raft.committed
      /\ raft.since <= raft.committed /\ raft.committed <= store.last
      /\ store.hs.commit <= store.last
  BY <1>1 DEF CommitInv, CommitInLog
<1>5. rd.hs.term = raft.term /\ rd.hs.commit = raft.committed
  BY <1>2 DEF HardState
<1>6. CASE rd.hasHs
  <2>1. /\ store'.hs = rd.hs /\ store'.last = store.last /\ store'.entries = store.entries
        /\ store'.snap = store.snap
    BY <1>1, <1>6 DEF SetHardState, TypeInv, StoreType
  <2>2. Fresh(store') => Fresh(store) /\ raft.committed = 0 /\ raft.term = 0
    BY <1>3, <1>4, <1>5, <2>1 DEF Fresh
  <2>3. FirstIndex(store') = FirstIndex(store)
    BY <2>1 DEF FirstIndex
  <2>4. CommitInLog'
    BY <1>1, <1>3, <1>4, <1>5, <2>1 DEF CommitInLog
  <2>5. FreshLog'
    BY <1>1, <2>1, <2>2, <2>3 DEF CommitInv, FreshLog
  <2>6. HardStateGrows
    BY <1>4, <1>3, <1>5, <2>1 DEF HardStateGrows
  <2> QED BY <2>4, <2>5, <2>6 DEF CommitInv
<1>7. CASE ~rd.hasHs
  <2>1. store' = store /\ raft.prevHs.term = raft.term /\ raft.prevHs.commit = raft.committed
    BY <1>1, <1>2, <1>5, <1>7
  <2>2. CommitInLog'
    BY <1>1, <1>4, <2>1 DEF CommitInLog
  <2>3. FreshLog'
    BY <1>1, <2>1 DEF CommitInv, FreshLog, Fresh, FirstIndex
  <2>4. HardStateGrows
    BY <1>3, <2>1 DEF HardStateGrows
  <2> QED BY <2>2, <2>3, <2>4 DEF CommitInv
<1> QED BY <1>6, <1>7

LEMMA CommitSend ==
  ASSUME NodeInv, CommitInv, SendPersisted
  PROVE  CommitInv' /\ HardStateGrows
<1>1. TypeInv /\ TurnInv
  BY DEF NodeInv
<1>2. PICK p : p = IF rd.hasHs THEN rd.hs ELSE raft.prevHs
  OBVIOUS
<1>3. /\ Advanced(p) /\ LogTable(rd'.committed) /\ status = "up" /\ status' = "up"
      /\ pc = "send" /\ store' = store
  BY <1>1, <1>2, SendOutcome
<1>4. /\ raft.committed \in Nat /\ store.last \in Nat /\ raft.since \in Nat /\ raft.applied \in Nat
      /\ store.hs.term \in Nat /\ store.hs.commit \in Nat /\ raft.term \in Nat
  BY <1>1, Naturals
<1>5. /\ store.hs.term <= raft.term /\ store.hs.commit <= raft.committed
      /\ raft.since <= raft.committed /\ raft.committed <= store.last
      /\ store.hs.commit <= store.last
  BY <1>1, <1>3 DEF CommitInv, CommitInLog
<1>6. PICK c \in Nat : c = raft'.committed /\ raft.committed <= c /\ c <= store.last
  BY <1>3, <1>4, <1>5 DEF Advanced
<1>7. raft'.since <= c
  <2>1. CASE DOMAIN rd'.committed = {}
    BY <1>3, <1>4, <1>5, <1>6, <2>1 DEF Advanced
  <2>2. CASE DOMAIN rd'.committed # {}
    <3>1. Max(DOMAIN rd'.committed) \in DOMAIN rd'.committed
      BY <1>3, <2>2, TableEnds
    <3> QED BY <1>3, <1>6, <2>2, <3>1 DEF Advanced
  <2> QED BY <2>1, <2>2
<1>8. raft'.term = raft.term /\ pc' \in {"lightcommit", "lightapply"}
  BY <1>3 DEF Advanced
<1>9. CommitInLog'
  BY <1>3, <1>4, <1>5, <1>6, <1>7, <1>8 DEF CommitInLog
<1>10. FreshLog'
  <2> SUFFICES ASSUME Fresh(store)
               PROVE  /\ DOMAIN rd'.committed \subseteq DOMAIN store.entries
                      /\ raft'.applied = 0 /\ raft'.prevHs.term = 0 /\ raft'.prevHs.commit = 0
                      /\ raft'.committed = 0 /\ raft'.term = 0
    BY <1>3 DEF CommitInv, FreshLog, FirstIndex, Fresh
  <2>1. /\ raft.committed = 0 /\ raft.term = 0 /\ raft.applied = 0
        /\ raft.prevHs.term = 0 /\ raft.prevHs.commit = 0
    BY <1>3 DEF CommitInv, FreshLog
  <2>2. raft.role # "leader" /\ raft.since = 0
    BY <1>1, <1>4, <1>5, <2>1 DEF TypeInv, RaftType
  <2>3. p.term = 0 /\ p.commit = 0
    BY <1>1, <1>2, <1>3, <2>1 DEF TurnInv, HandedOut, HardState
  <2>4. raft'.committed = 0 /\ raft'.term = 0 /\ raft'.prevHs.term = 0
    BY <1>3, <2>1, <2>2, <2>3 DEF Advanced
  <2>5. raft'.prevHs.commit = 0
    BY <1>3, <2>3, <2>4 DEF Advanced
  <2>6. raft'.applied = 0
    <3>1. Max({0, 0}) = 0
      BY MaxOfTwo
    <3> QED BY <1>3, <2>1, <2>2, <3>1 DEF Advanced
  <2>7. DOMAIN rd'.committed \subseteq DOMAIN store.entries
    BY <1>3 DEF Advanced
  <2> QED BY <2>4, <2>5, <2>6, <2>7
<1>11. HardStateGrows
  BY <1>3, <1>4 DEF HardStateGrows
<1> QED BY <1>9, <1>10, <1>11 DEF CommitInv

LEMMA CommitLight ==
  ASSUME NodeInv, CommitInv, WriteLightCommit
  PROVE  CommitInv' /\ HardStateGrows
<1>1. /\ TypeInv /\ TurnInv /\ pc = "lightcommit" /\ pc' = "lightapply" /\ raft' = raft /\ rd' = rd
      /\ status = "up" /\ status' = "up" /\ store' = SetHardStateCommit(store, rd.commit)
  BY DEF WriteLightCommit, At, NodeInv
<1>2. /\ store.hs.term \in Nat /\ store.hs.commit \in Nat /\ raft.committed \in Nat
  BY <1>1, Naturals
<1>3. /\ store.hs.term <= raft.term /\ store.hs.commit <= raft.committed
      /\ raft.since <= raft.committed /\ raft.committed <= store.last
      /\ store.hs.commit <= store.last /\ rd.commit = raft.committed
  BY <1>1 DEF CommitInv, CommitInLog, TurnInv, HandedOut
<1>4. /\ store'.last = store.last /\ store'.entries = store.entries /\ store'.snap = store.snap
      /\ store'.hs.term = store.hs.term /\ store'.hs.commit \in {store.hs.commit, raft.committed}
  BY <1>1, <1>3 DEF SetHardStateCommit, TypeInv, StoreType, StoredStates
<1>5. Fresh(store') => Fresh(store)
  BY <1>2, <1>3, <1>4 DEF Fresh
<1>6. FirstIndex(store') = FirstIndex(store)
  BY <1>4 DEF FirstIndex
<1>7. CommitInLog'
  BY <1>1, <1>2, <1>3, <1>4 DEF CommitInLog
<1>8. FreshLog'
  BY <1>1, <1>4, <1>5, <1>6 DEF CommitInv, FreshLog
<1>9. HardStateGrows
  BY <1>2, <1>3, <1>4 DEF HardStateGrows
<1> QED BY <1>7, <1>8, <1>9 DEF CommitInv

LEMMA CommitFinish ==
  ASSUME NodeInv, CommitInv, FinishLightApply
  PROVE  CommitInv' /\ HardStateGrows
<1>1. TypeInv /\ TurnInv
  BY DEF NodeInv
<1>2. /\ status = "up" /\ status' = "up" /\ pc = "lightapply" /\ pc' = "recv" /\ rd' = NoReady
      /\ raft'.term = raft.term /\ raft'.unst = raft.unst
      /\ raft'.snap = raft.snap /\ raft'.committed = raft.committed
      /\ raft'.since = raft.since /\ raft'.prevHs = raft.prevHs
      /\ raft'.applied = Max({raft.applied, raft.since}) /\ store' = store
  BY <1>1, FinishFacts
<1>3. DOMAIN raft.unst = {} /\ raft.snap = NoSnapshot
  BY <1>1, <1>2 DEF TurnInv, HandedOut, PendingSnapshot
<1>4. RaftLast(raft', store) = store.last
  BY <1>2, <1>3 DEF RaftLast, LastIndex
<1>5. CommitInLog'
  BY <1>2, <1>4 DEF CommitInv, CommitInLog
<1>6. DOMAIN rd'.committed = {}
  BY <1>2, NoEntriesTable DEF NoReady
<1>7. Fresh(store) => raft'.applied = 0
  <2> SUFFICES ASSUME Fresh(store) PROVE raft'.applied = 0
    OBVIOUS
  <2>1. raft.committed = 0 /\ raft.applied = 0
    BY <1>2 DEF CommitInv, FreshLog
  <2>2. raft.since = 0
    BY <1>1, <1>2, <2>1, Naturals DEF CommitInv, CommitInLog
  <2>3. Max({0, 0}) = 0
    BY MaxOfTwo
  <2> QED BY <1>2, <2>1, <2>2, <2>3
<1>8. FreshLog'
  BY <1>2, <1>6, <1>7 DEF CommitInv, FreshLog, Fresh, FirstIndex
<1>9. HardStateGrows
  BY <1>1, <1>2, Naturals DEF HardStateGrows
<1> QED BY <1>5, <1>8, <1>9 DEF CommitInv

LEMMA CommitCrash ==
  ASSUME SafeRestore, NodeInv, TypeInv', CommitInv, Crash
  PROVE  CommitInv' /\ HardStateGrows
<1>1. TypeInv /\ TurnInv /\ PowerOff /\ status = "up" /\ status' # "up"
  BY CrashStore DEF NodeInv
<1>2. Fresh(store) => FirstIndex(store) = 1 /\ (DOMAIN store.entries = {} => store.last = 0)
  BY DEF CommitInv, FreshLog
<1>3. CASE store' = store
  <2>1. FirstIndex(store)' = FirstIndex(store)
    BY <1>3
  <2> QED BY <1>1, <1>2, <1>3, <2>1, CommitOff
<1>4. CASE Backend # "heed" /\ pc = "restore"
  BY <1>1, <1>4 DEF TurnInv, HandedOut, PendingSnapshot, SafeRestore
<1>5. ASSUME pc = "apply", store'.last = store.last,
             NEW k \in DOMAIN rd.ents, PartlyAppended(store, rd.ents, k, store')
      PROVE  CommitInv' /\ HardStateGrows
  <2>1. StoreType(store')
    BY DEF TypeInv
  <2>2. Fresh(store) => 1 \in DOMAIN store'.entries /\ FirstIndex(store') = 1
    BY <1>1, <1>5, <2>1, FreshAppend
  <2>3. store'.hs = store.hs
    BY <1>5 DEF PartlyAppended
  <2> QED BY <1>1, <1>5, <2>2, <2>3, CommitOff
<1>6. ASSUME Thinned(store, store'), store'.snap = store.snap,
             \/ store'.entries = store.entries
             \/ \A j : j \in DOMAIN store'.entries <=> j \in DOMAIN store.entries /\ j >= raft.applied
      PROVE  CommitInv' /\ HardStateGrows
  <2>1. Fresh(store) => DOMAIN store'.entries = DOMAIN store.entries
    <3>1. CASE store'.entries = store.entries
      BY <3>1
    <3>2. CASE \A j : j \in DOMAIN store'.entries <=> j \in DOMAIN store.entries /\ j >= raft.applied
      <4>1. Fresh(store) => raft.applied = 0
        BY <1>1 DEF CommitInv, FreshLog
      <4>2. DOMAIN store.entries \subseteq Nat
        BY <1>1, Naturals
      <4> QED BY <3>2, <4>1, <4>2
    <3> QED BY <1>6, <3>1, <3>2
  <2>2. Fresh(store) => FirstIndex(store') = FirstIndex(store)
    BY <1>6, <2>1 DEF FirstIndex
  <2>3. store'.hs = store.hs /\ store'.last = store.last
    BY <1>6 DEF Thinned
  <2> QED BY <1>1, <1>2, <2>1, <2>2, <2>3, CommitOff
<1> QED BY <1>1, <1>3, <1>4, <1>5, <1>6, CrashStore

LEMMA InitCommit == Init => CommitInv
<1> SUFFICES ASSUME Init PROVE CommitInv
  OBVIOUS
<1>1. /\ store = EmptyStore /\ status = "down" /\ rd = NoReady
  BY DEF Init
<1>2. /\ store.hs.commit = 0 /\ store.last = 0 /\ DOMAIN store.entries = {} /\ store.snap.index = 0
  BY <1>1 DEF EmptyStore, DefaultHardState, DefaultSnapshot
<1>3. DOMAIN rd.committed = {}
  BY <1>1, NoEntriesTable DEF NoReady
<1> QED BY <1>1, <1>2, <1>3 DEF CommitInv, CommitInLog, FreshLog, FirstIndex

\* Every step keeps CommitInv, and lets the hard state only grow.
LEMMA NextCommit ==
  ASSUME SafeRestore, NodeInv, NodeInv', CommitInv, [Next]_vars
  PROVE  CommitInv' /\ HardStateGrows
<1>1. TypeInv /\ TypeInv'
  BY DEF NodeInv
<1>2. CASE Bootstrap
  BY <1>1, <1>2, CommitBootstrap
<1>3. CASE Receive
  BY <1>3, CommitReceive
<1>4. CASE OnReady
  BY <1>4, CommitTick, CommitRestore, CommitApply, CommitAppend, CommitHardState, CommitSend,
     CommitLight, CommitFinish DEF OnReady
<1>5. CASE Crash
  BY <1>1, <1>5, CommitCrash
<1>6. CASE Environment \/ UNCHANGED vars
  <2>1. UNCHANGED <<store, status, raft, pc, rd>>
    BY <1>6 DEF Environment, OtherLeader, OtherPropose, OtherCommit, volatile, vars
  <2>2. CommitInLog'
    BY <2>1 DEF CommitInv, CommitInLog, RaftLast, LastIndex
  <2>3. FreshLog'
    BY <2>1 DEF CommitInv, FreshLog, Fresh, FirstIndex
  <2>4. HardStateGrows
    BY <1>1, <2>1, Naturals DEF HardStateGrows
  <2> QED BY <2>2, <2>3, <2>4 DEF CommitInv
<1> QED BY <1>2, <1>3, <1>4, <1>5, <1>6 DEF Next

\* The stored term and the stored commit index never go back, through any
\* number of crashes and restarts, in every configuration in which no older
\* snapshot is written over the log: set_hard_state, set_hard_state_commit,
\* apply_snapshot and bootstrap only move them forward.
THEOREM HardStateNeverGoesBack ==
  ASSUME SafeRestore
  PROVE  Spec => HardStateMonotone
<1>1. Init => NodeInv /\ CommitInv
  BY InitNode, InitCommit
<1>2. (NodeInv /\ CommitInv) /\ [Next]_vars => (NodeInv /\ CommitInv)'
  BY NextNode, NextCommit
<1>3. (NodeInv /\ CommitInv) /\ [Next]_vars
        => [store'.hs.term >= store.hs.term /\ store'.hs.commit >= store.hs.commit]_vars
  BY NextNode, NextCommit DEF HardStateGrows
<1> QED BY <1>1, <1>2, <1>3, PTL DEF Spec, HardStateMonotone

-----------------------------------------------------------------------------
(* The log directory can be loaded *)

\* Configurations in which the stored log stays loadable: no snapshot is
\* written over the log, and HeedStorage, which loses the commit index of a
\* LightReady, does not compact.
SafeLog ==
  /\ ~BootstrapFromSnapshot /\ ~SnapshotMsg
  /\ \/ Backend = "rocksdb"
     \/ ~SnapshotInterval /\ ~SnapshotRpc /\ "conf" \notin Kinds

\* The table of the store s has no hole and starts at most one past the
\* stored commit.
Loads(s) ==
  /\ FirstIndex(s) <= s.hs.commit + 1
  /\ FirstIndex(s) .. s.last \subseteq DOMAIN s.entries
  /\ DOMAIN s.entries = {} => s.last = 0
  /\ s.snap.index <= s.last

\* The unstable entries have no hole and are not yet committed on disk.
Contiguous(f) == Min(DOMAIN f) .. Max(DOMAIN f) \subseteq DOMAIN f

GaplessUnstable ==
  pc \in {"recv", "tick", "apply"} /\ DOMAIN raft.unst # {} =>
    store.hs.commit < Min(DOMAIN raft.unst) /\ Contiguous(raft.unst)

\* RocksDBStorage stores the commit index before anything up to it is
\* reported as applied, so compaction stays below it.
AppliedIsStored ==
  Backend = "rocksdb" /\ status = "up" =>
    /\ raft.applied <= store.hs.commit
    /\ pc # "lightcommit" => raft.prevHs.commit <= store.hs.commit
    /\ pc \in {"send", "lightapply"} => raft.committed <= store.hs.commit

LoadInv ==
  /\ Loads(store) /\ \A i \in DOMAIN rd.committed : i <= store.last
  /\ GaplessUnstable /\ AppliedIsStored

LEMMA SafeLogRestores == SafeLog => SafeRestore
BY DEF SafeLog, SafeRestore

-----------------------------------------------------------------------------
(* The store *)

LEMMA FirstFacts ==
  ASSUME NEW s, StoreType(s)
  PROVE  /\ FirstIndex(s) \in Nat /\ s.last \in Nat /\ s.hs.commit \in Nat
         /\ s.snap.index \in Nat /\ DOMAIN s.entries \subseteq Nat
         /\ DOMAIN s.entries = {} => FirstIndex(s) = s.snap.index + 1
         /\ DOMAIN s.entries # {} =>
              FirstIndex(s) \in DOMAIN s.entries /\ \A i \in DOMAIN s.entries : FirstIndex(s) <= i
<1>1. s.last \in Nat /\ s.hs.commit \in Nat /\ s.snap.index \in Nat /\ DOMAIN s.entries \subseteq Nat
  <2>1. s.last \in Nat /\ s.snap.index \in Nat
    BY Bounds DEF StoreType, SnapshotType
  <2>2. s.hs.commit \in Nat
    BY Bounds DEF StoreType, StoredStates
  <2>3. DOMAIN s.entries \subseteq Nat
    BY Bounds DEF StoreType, LogTable
  <2> QED BY <2>1, <2>2, <2>3
<1>2. DOMAIN s.entries # {} =>
        FirstIndex(s) \in DOMAIN s.entries /\ \A i \in DOMAIN s.entries : FirstIndex(s) <= i
  BY TableEnds DEF FirstIndex, StoreType
<1>3. DOMAIN s.entries = {} => FirstIndex(s) = s.snap.index + 1
  BY DEF FirstIndex
<1>4. FirstIndex(s) \in Nat
  BY <1>1, <1>2, <1>3
<1> QED BY <1>1, <1>2, <1>3, <1>4

\* A first index is known by its place in the table.
LEMMA FirstIs ==
  ASSUME NEW s, StoreType(s), NEW n \in DOMAIN s.entries, \A i \in DOMAIN s.entries : n <= i
  PROVE  FirstIndex(s) = n
<1>1. FirstIndex(s) <= n /\ n <= FirstIndex(s) /\ FirstIndex(s) \in Nat /\ n \in Nat
  BY FirstFacts
<1> QED BY <1>1

\* Compaction up to an index that is not above the stored commit.
LEMMA CompactLoads ==
  ASSUME NEW s, NEW x, NEW n \in Nat, StoreType(s), StoreType(x), Loads(s),
         s.hs.commit <= s.last, n <= s.hs.commit, x.last = s.last, x.hs = s.hs,
         x.snap.index <= s.last,
         \A j : j \in DOMAIN x.entries <=> j \in DOMAIN s.entries /\ j >= n
  PROVE  Loads(x)
<1>1. PICK f \in Nat : f = FirstIndex(s)
  BY FirstFacts
<1>2. /\ s.last \in Nat /\ s.hs.commit \in Nat /\ x.snap.index \in Nat /\ DOMAIN s.entries \subseteq Nat
      /\ f <= s.hs.commit + 1 /\ f .. s.last \subseteq DOMAIN s.entries
      /\ DOMAIN s.entries = {} => s.last = 0
      /\ DOMAIN s.entries # {} => f \in DOMAIN s.entries /\ \A i \in DOMAIN s.entries : f <= i
  BY <1>1, FirstFacts DEF Loads
<1>3. CASE DOMAIN s.entries = {}
  <2>1. DOMAIN x.entries = {} /\ s.last = 0
    BY <1>2, <1>3
  <2>2. x.snap.index = 0
    BY <1>2, <2>1
  <2>3. FirstIndex(x) = 1
    BY <2>1, <2>2, FirstFacts
  <2>4. 1 .. 0 = {}
    OBVIOUS
  <2> QED BY <1>2, <2>1, <2>2, <2>3, <2>4 DEF Loads
<1>4. CASE DOMAIN s.entries # {} /\ n <= f
  <2>1. \A j : j \in DOMAIN x.entries <=> j \in DOMAIN s.entries
    BY <1>1, <1>2, <1>4
  <2>2. FirstIndex(x) = f
    BY <1>2, <1>4, <2>1, FirstIs
  <2> QED BY <1>2, <1>4, <2>1, <2>2 DEF Loads
<1>5. CASE DOMAIN s.entries # {} /\ ~(n <= f)
  <2>1. n \in f .. s.last
    BY <1>1, <1>2, <1>5
  <2>2. n \in DOMAIN x.entries
    BY <1>2, <2>1
  <2>3. FirstIndex(x) = n
    BY <2>2, FirstIs
  <2>4. n .. s.last \subseteq DOMAIN x.entries
    BY <1>1, <1>2, <1>5
  <2>5. n <= s.hs.commit + 1
    BY <1>2
  <2> QED BY <2>2, <2>3, <2>4, <2>5 DEF Loads
<1> QED BY <1>3, <1>4, <1>5

\* Entries that follow the stored commit are appended, all or up to k.
LEMMA AppendLoads ==
  ASSUME NEW s, NEW e, NEW x, NEW k \in DOMAIN e, StoreType(s), LogTable(e), StoreType(x),
         Loads(s), PartlyAppended(s, e, k, x), Contiguous(e),
         s.hs.commit < Min(DOMAIN e), Min(DOMAIN e) <= s.last + 1,
         x.last = s.last \/ (x.last = k /\ k = Max(DOMAIN e)), s.last <= x.last
  PROVE  Loads(x)
<1>1. PICK f \in Nat : f = FirstIndex(s)
  BY FirstFacts
<1>2. PICK lo, hi : lo = Min(DOMAIN e) /\ hi = Max(DOMAIN e)
  OBVIOUS
<1>3. /\ lo \in DOMAIN e /\ lo \in Nat /\ lo # 0 /\ hi \in Nat /\ k \in Nat /\ lo <= k /\ k <= hi
      /\ \A i \in DOMAIN e : lo <= i
  BY <1>2, TableEnds, Bounds DEF LogTable
<1>4. /\ s.last \in Nat /\ s.hs.commit \in Nat /\ s.snap.index \in Nat /\ DOMAIN s.entries \subseteq Nat
      /\ f <= s.hs.commit + 1 /\ f .. s.last \subseteq DOMAIN s.entries
      /\ s.snap.index <= s.last
      /\ DOMAIN s.entries = {} => s.last = 0
      /\ DOMAIN s.entries # {} => f \in DOMAIN s.entries /\ \A i \in DOMAIN s.entries : f <= i
  BY <1>1, FirstFacts DEF Loads
<1>5. /\ \A i : i \in DOMAIN x.entries <=> i \in DOMAIN s.entries \/ (i \in DOMAIN e /\ i <= k)
      /\ x.hs = s.hs /\ x.snap = s.snap
  BY DEF PartlyAppended
<1>6. lo .. hi \subseteq DOMAIN e /\ s.hs.commit < lo /\ lo <= s.last + 1 /\ lo \in DOMAIN x.entries
  BY <1>2, <1>3, <1>5 DEF Contiguous
<1>7. x.last \in Nat /\ (x.last = s.last \/ (x.last = k /\ k = hi))
  BY <1>2, FirstFacts
<1>8. FirstIndex(x) <= s.hs.commit + 1 /\ FirstIndex(x) .. x.last \subseteq DOMAIN x.entries
  <2>1. CASE DOMAIN s.entries = {}
    <3>1. s.last = 0 /\ lo = 1
      BY <1>3, <1>4, <1>6, <2>1
    <3>2. FirstIndex(x) = 1
      BY <1>3, <1>5, <1>6, <2>1, <3>1, FirstIs
    <3>3. 1 .. x.last \subseteq DOMAIN x.entries
      BY <1>3, <1>5, <1>6, <1>7, <3>1
    <3> QED BY <1>4, <3>2, <3>3
  <2>2. CASE DOMAIN s.entries # {}
    <3>1. f \in DOMAIN x.entries /\ \A i \in DOMAIN x.entries : f <= i
      <4>1. f <= lo
        BY <1>1, <1>3, <1>4, <1>6
      <4>2. \A i \in DOMAIN e : i \in Nat /\ f <= i
        BY <1>1, <1>3, <4>1, Bounds DEF LogTable
      <4> QED BY <1>4, <1>5, <2>2, <4>2
    <3>2. FirstIndex(x) = f
      BY <3>1, FirstIs
    <3>3. ASSUME NEW i \in f .. x.last PROVE i \in DOMAIN x.entries
      <4>1. i \in Nat
        BY <1>1, <1>7, <3>3
      <4>2. CASE i <= s.last
        BY <1>1, <1>4, <1>5, <3>3, <4>1, <4>2
      <4>3. CASE ~(i <= s.last)
        <5>1. x.last = k /\ k = hi /\ i <= k /\ lo <= i
          BY <1>1, <1>3, <1>4, <1>6, <1>7, <3>3, <4>1, <4>3
        <5>2. i \in DOMAIN e
          BY <1>3, <1>6, <4>1, <5>1
        <5> QED BY <1>5, <5>1, <5>2
      <4> QED BY <4>2, <4>3
    <3>4. f .. x.last \subseteq DOMAIN x.entries
      BY <3>3
    <3> QED BY <1>4, <3>2, <3>4
  <2> QED BY <2>1, <2>2
<1>9. x.snap.index <= x.last /\ DOMAIN x.entries # {}
  BY <1>4, <1>5, <1>6, <1>7
<1> QED BY <1>5, <1>8, <1>9 DEF Loads

\* A store with the same table and a newer hard state.
LEMMA SameLoads ==
  ASSUME NEW s, NEW x, StoreType(s), StoreType(x), Loads(s), x.entries = s.entries,
         x.snap = s.snap, x.last = s.last, s.hs.commit <= x.hs.commit
  PROVE  Loads(x)
<1>1. FirstIndex(x) = FirstIndex(s)
  BY DEF FirstIndex
<1>2. FirstIndex(s) \in Nat /\ s.hs.commit \in Nat /\ x.hs.commit \in Nat
  BY FirstFacts
<1>3. FirstIndex(x) <= x.hs.commit + 1
  BY <1>1, <1>2 DEF Loads
<1> QED BY <1>1, <1>3 DEF Loads

\* RawNode::new loads such a store, and bootstrap finds nothing to apply.
LEMMA LoadsIsLoaded ==
  ASSUME TypeInv, ~BootstrapFromSnapshot, Loads(store), store.hs.commit <= store.last
  PROVE  /\ ~NewPanics(BootStore) /\ BootStore.entries = store.entries
         /\ BootStore.last = store.last /\ BootStore.snap = store.snap
         /\ BootStore.hs.commit = store.hs.commit
<1>1. PICK b : b = BootStore
  OBVIOUS
<1>2. /\ StoreType(b) /\ b.entries = store.entries /\ b.snap = store.snap
      /\ FirstIndex(b) = FirstIndex(store)
      /\ \/ b = store /\ store.last # 0
         \/ /\ store.last = 0
            /\ b.last = store.snap.index /\ b.hs.commit = store.snap.index
  BY <1>1, BootStoreFacts DEF TypeInv
<1>3. /\ FirstIndex(store) \in Nat /\ store.last \in Nat /\ store.hs.commit \in Nat
      /\ store.snap.index \in Nat
  BY FirstFacts DEF TypeInv
<1>4. FirstIndex(store) <= store.hs.commit + 1 /\ store.snap.index <= store.last
  BY DEF Loads
<1>5. b.last = store.last /\ b.hs.commit = store.hs.commit
  BY <1>2, <1>3, <1>4
<1>6. ~NewPanics(b)
  BY <1>2, <1>3, <1>4, <1>5 DEF NewPanics
<1> QED BY <1>1, <1>2, <1>5, <1>6

-----------------------------------------------------------------------------
(* The steps *)

LEMMA LoadOff ==
  ASSUME PowerOff, status' # "up", Loads(store')
  PROVE  LoadInv'
<1>1. DOMAIN rd'.committed = {} /\ DOMAIN raft'.unst = {}
  BY OffRaftFacts, NoEntriesTable DEF PowerOff, NoReady
<1> QED BY <1>1 DEF LoadInv, GaplessUnstable, AppliedIsStored

LEMMA LoadHandled ==
  ASSUME LoadInv, Receiving, NEW q, Handled(q), q.applied = raft.applied, q.prevHs = raft.prevHs,
         DOMAIN q.unst # {} => store.hs.commit < Min(DOMAIN q.unst) /\ Contiguous(q.unst)
  PROVE  LoadInv'
<1>1. pc = "recv" /\ status = "up" /\ pc' = "tick" /\ raft' = q /\ UNCHANGED <<store, status, rd>>
  BY DEF Receiving, Handled
<1>2. GaplessUnstable'
  BY <1>1 DEF GaplessUnstable
<1>3. AppliedIsStored'
  BY <1>1 DEF LoadInv, AppliedIsStored
<1> QED BY <1>1, <1>2, <1>3 DEF LoadInv, Loads, FirstIndex

\* One more entry at the end.
LEMMA LeaderContiguous ==
  ASSUME NodeInv, CommitInv, LoadInv, pc = "recv", NEW q, RaftType(q),
         DOMAIN q.unst = DOMAIN raft.unst \cup {RaftLast(raft, store) + 1}
  PROVE  store.hs.commit < Min(DOMAIN q.unst) /\ Contiguous(q.unst)
<1>1. TypeInv /\ TurnInv /\ LogTable(raft.unst) /\ LogTable(q.unst) /\ DOMAIN q.unst # {}
  BY DEF NodeInv, TypeInv, RaftType
<1>2. store.last \in Nat /\ store.hs.commit \in Nat /\ store.hs.commit <= store.last
  BY <1>1, Naturals DEF CommitInv, CommitInLog
<1>3. CASE DOMAIN raft.unst = {}
  <2>1. RaftLast(raft, store) = store.last
    BY <1>1, <1>3 DEF RaftLast, LastIndex, TurnInv, PendingSnapshot
  <2>2. DOMAIN q.unst = {store.last + 1}
    BY <1>3, <2>1
  <2>3. Min(DOMAIN q.unst) = store.last + 1 /\ Max(DOMAIN q.unst) = store.last + 1
    BY <1>1, <2>2, MinOfOne
  <2>4. Contiguous(q.unst)
    BY <1>2, <2>2, <2>3 DEF Contiguous
  <2> QED BY <1>2, <2>3, <2>4
<1>4. CASE DOMAIN raft.unst # {}
  <2>1. PICK lo, hi : lo = Min(DOMAIN raft.unst) /\ hi = Max(DOMAIN raft.unst)
    OBVIOUS
  <2>2. /\ lo \in DOMAIN raft.unst /\ lo \in Nat /\ hi \in Nat
        /\ \A i \in DOMAIN raft.unst : lo <= i /\ i <= hi
    BY <1>1, <1>4, <2>1, TableEnds, Bounds
  <2>3. store.hs.commit < lo /\ lo .. hi \subseteq DOMAIN raft.unst
    BY <1>4, <2>1 DEF LoadInv, GaplessUnstable, Contiguous
  <2>4. \A i : i \in DOMAIN q.unst <=> i \in DOMAIN raft.unst \/ i = hi + 1
    BY <1>4, <2>1 DEF RaftLast
  <2>5. PICK m, n : m = Min(DOMAIN q.unst) /\ n = Max(DOMAIN q.unst)
    OBVIOUS
  <2>6. /\ m \in DOMAIN q.unst /\ n \in DOMAIN q.unst /\ m \in Nat /\ n \in Nat
        /\ \A i \in DOMAIN q.unst : m <= i /\ i <= n
    BY <1>1, <2>5, TableEnds, Bounds
  <2>7. m = lo /\ n = hi + 1
    BY <2>2, <2>4, <2>6
  <2>8. lo .. hi + 1 \subseteq DOMAIN q.unst
    BY <2>2, <2>3, <2>4
  <2> QED BY <2>3, <2>5, <2>7, <2>8 DEF Contiguous
<1> QED BY <1>3, <1>4

\* New entries of a leader.
LEMMA GrownContiguous ==
  ASSUME NodeInv, CommitInv, LoadInv, Receiving, NEW q, RaftType(q), NEW new, NEW last \in Index,
         Grown(q, new, last), DOMAIN new # {}
  PROVE  store.hs.commit < Min(DOMAIN q.unst) /\ Contiguous(q.unst)
<1>1. TypeInv /\ TurnInv /\ pc = "recv" /\ status = "up"
  BY DEF NodeInv, Receiving
<1>2. PICK lo : lo = Min(DOMAIN new)
  OBVIOUS
<1>3. /\ LogTable(new) /\ lo .. last \subseteq DOMAIN new /\ raft.committed < lo
      /\ lo <= RaftLast(raft, store) + 1
  BY <1>2 DEF Grown
<1>4. lo \in Nat /\ last \in Nat /\ \A i \in DOMAIN new : lo <= i
  BY <1>2, <1>3, TableEnds, Bounds
<1>5. PICK m : m = Min(DOMAIN q.unst)
  OBVIOUS
<1>6. /\ Max(DOMAIN q.unst) = last
      /\ m = lo \/ (DOMAIN raft.unst # {} /\ m = Min(DOMAIN raft.unst))
      /\ \A i : i \in DOMAIN q.unst <=> i \in DOMAIN new \/ (i \in DOMAIN raft.unst /\ i < lo)
  BY <1>1, <1>2, <1>5, GrownLog
<1>7. store.hs.commit <= raft.committed /\ store.hs.commit \in Nat /\ raft.committed \in Nat
  BY <1>1, Naturals DEF CommitInv, CommitInLog
<1>8. CASE m = lo
  <2>1. store.hs.commit < m
    BY <1>3, <1>4, <1>7, <1>8
  <2>2. m .. last \subseteq DOMAIN q.unst
    BY <1>3, <1>6, <1>8
  <2> QED BY <1>5, <1>6, <2>1, <2>2 DEF Contiguous
<1>9. CASE DOMAIN raft.unst # {} /\ m = Min(DOMAIN raft.unst)
  <2>1. PICK hi : hi = Max(DOMAIN raft.unst) /\ hi = RaftLast(raft, store)
    BY <1>9 DEF RaftLast
  <2>2. store.hs.commit < m /\ m .. hi \subseteq DOMAIN raft.unst
    BY <1>1, <1>9, <2>1 DEF LoadInv, GaplessUnstable, Contiguous
  <2>3. m \in Nat /\ hi \in Nat
    BY <1>1, <1>9, <2>1, TableEnds, Bounds DEF TypeInv, RaftType
  <2>4. ASSUME NEW i \in m .. last PROVE i \in DOMAIN q.unst
    <3>1. CASE lo <= i
      BY <1>3, <1>4, <1>6, <2>3, <2>4, <3>1
    <3>2. CASE ~(lo <= i)
      <4>1. i \in m .. hi /\ i < lo
        BY <1>3, <1>4, <2>1, <2>3, <2>4, <3>2
      <4> QED BY <1>6, <2>2, <4>1
    <3> QED BY <3>1, <3>2
  <2> QED BY <1>5, <1>6, <2>2, <2>4 DEF Contiguous
<1> QED BY <1>6, <1>8, <1>9

\* A step that compacts the stored table up to the applied index, or not.
LEMMA LoadThinned ==
  ASSUME SafeLog, TypeInv, TypeInv', CommitInv, LoadInv, status = "up", Thinned(store, store'),
         store'.snap.index <= store.last,
         \/ store'.entries = store.entries /\ store'.snap = store.snap
         \/ /\ \A j : j \in DOMAIN store'.entries <=> j \in DOMAIN store.entries /\ j >= raft.applied
            /\ Backend = "rocksdb"
  PROVE  Loads(store')
<1>1. /\ StoreType(store) /\ StoreType(store') /\ Loads(store) /\ store.hs.commit <= store.last
      /\ store'.last = store.last /\ store'.hs = store.hs /\ raft.applied \in Nat
      /\ store.hs.commit \in Nat
  BY Naturals DEF TypeInv, LoadInv, CommitInv, CommitInLog, Thinned
<1>2. CASE store'.entries = store.entries /\ store'.snap = store.snap
  BY <1>1, <1>2, SameLoads
<1>3. CASE /\ \A j : j \in DOMAIN store'.entries <=> j \in DOMAIN store.entries /\ j >= raft.applied
           /\ Backend = "rocksdb"
  <2>1. raft.applied <= store.hs.commit
    BY <1>3 DEF LoadInv, AppliedIsStored
  <2> QED BY <1>1, <1>3, <2>1, CompactLoads
<1> QED BY <1>2, <1>3

\* Only RocksDBStorage compacts in these configurations.
LEMMA Compacts ==
  ASSUME SafeLog, TypeInv,
         \/ SnapshotInterval \/ SnapshotRpc
         \/ \E i \in DOMAIN rd.committed : rd.committed[i].kind = "conf"
  PROVE  Backend = "rocksdb"
<1>1. \A i \in DOMAIN rd.committed : rd.committed[i].kind \in {"noop"} \cup Kinds
  BY DEF TypeInv, ReadyType, LogTable, LogEntry
<1> QED BY <1>1 DEF SafeLog

LEMMA LoadBootstrap ==
  ASSUME SafeLog, NodeInv, NodeInv', CommitInv, LoadInv, Bootstrap
  PROVE  LoadInv' /\ status' = "up"
<1>1. /\ TypeInv /\ TypeInv' /\ Loads(store) /\ ~BootstrapFromSnapshot
      /\ store.hs.commit <= store.last
  BY DEF NodeInv, LoadInv, SafeLog, CommitInv, CommitInLog
<1>2. PICK b : b = BootStore
  OBVIOUS
<1>3. /\ ~NewPanics(b) /\ b.entries = store.entries /\ b.last = store.last
      /\ b.snap = store.snap /\ b.hs.commit = store.hs.commit
  BY <1>1, <1>2, LoadsIsLoaded
<1>4. Started(b) /\ store' = b /\ status' = "up" /\ rd' = NoReady /\ pc' = "recv"
  BY <1>1, <1>2, <1>3, BootstrapFacts
<1>5. StoreType(b) /\ StoreType(store)
  BY <1>1, <1>4 DEF TypeInv
<1>6. /\ FirstIndex(b) \in Nat /\ b.hs.commit \in Nat /\ b.last \in Nat
      /\ b.hs.commit <= b.last
  BY <1>1, <1>3, <1>5, FirstFacts
<1>7. Loads(b)
  BY <1>1, <1>3, <1>5, <1>6, SameLoads
<1>8. DOMAIN rd'.committed = {}
  BY <1>4, NoEntriesTable DEF NoReady
<1>9. GaplessUnstable'
  <2>1. CASE raft'.unst = NoEntries
    BY <2>1, NoEntriesTable DEF GaplessUnstable
  <2>2. CASE DOMAIN raft'.unst = {b.last + 1}
    <3>1. LogTable(raft'.unst)
      BY <1>1 DEF TypeInv, RaftType
    <3>2. Min(DOMAIN raft'.unst) = b.last + 1 /\ Max(DOMAIN raft'.unst) = b.last + 1
      BY <2>2, <3>1, MinOfOne
    <3>3. Contiguous(raft'.unst)
      BY <1>6, <2>2, <3>2 DEF Contiguous
    <3>4. store'.hs.commit < Min(DOMAIN raft'.unst)
      BY <1>4, <1>6, <3>2
    <3> QED BY <3>3, <3>4 DEF GaplessUnstable
  <2> QED BY <1>4, <2>1, <2>2 DEF Started
<1>10. AppliedIsStored'
  <2>1. FirstIndex(b) - 1 <= b.hs.commit
    BY <1>6, <1>7 DEF Loads
  <2>2. raft'.applied = FirstIndex(b) - 1 /\ raft'.prevHs.commit \in {FirstIndex(b) - 1, b.hs.commit}
    BY <1>4 DEF Started
  <2> QED BY <1>4, <1>6, <2>1, <2>2 DEF AppliedIsStored
<1>11. Loads(store')
  BY <1>4, <1>7
<1>12. LoadInv'
  BY <1>8, <1>9, <1>10, <1>11 DEF LoadInv
<1> QED BY <1>4, <1>12

LEMMA LoadReceive ==
  ASSUME SafeLog, NodeInv, NodeInv', CommitInv, LoadInv, Receive
  PROVE  LoadInv' /\ status' = "up"
<1>1. /\ TypeInv /\ TypeInv' /\ TurnInv /\ TermInv /\ pc = "recv" /\ status = "up" /\ Receiving
  BY DEF NodeInv, Receive, Receiving, RecvNothing, RecvAppend, RecvSnapshot, RecvRequestVote,
         RecvVoteQuorum, Propose, RecvAckQuorum, Campaign, Demote, RpcCreateSnapshot
<1>2. DOMAIN raft.unst # {} => store.hs.commit < Min(DOMAIN raft.unst) /\ Contiguous(raft.unst)
  BY <1>1 DEF LoadInv, GaplessUnstable
<1>3. ASSUME NEW r, Handled(r), r.unst = raft.unst, r.applied = raft.applied, r.prevHs = raft.prevHs
      PROVE  LoadInv' /\ status' = "up"
  BY <1>1, <1>2, <1>3, LoadHandled DEF Handled
<1>4. CASE RecvNothing
  BY <1>3, <1>4 DEF RecvNothing
<1>5. CASE RecvAppend
  <2>2. ASSUME NEW q, Handled(q), Kept(q), q.unst = raft.unst PROVE LoadInv' /\ status' = "up"
    BY <1>3, <2>2 DEF Kept
  <2>3. ASSUME NEW q, Handled(q), Kept(q), NEW last \in Index, NEW new, Grown(q, new, last)
        PROVE  LoadInv' /\ status' = "up"
    <3>1. CASE DOMAIN new = {}
      BY <2>2, <2>3, <3>1 DEF Grown
    <3>2. CASE DOMAIN new # {}
      <4>1. store.hs.commit < Min(DOMAIN q.unst) /\ Contiguous(q.unst)
        BY <1>1, <2>3, <3>2, GrownContiguous DEF Kept
      <4> QED BY <1>1, <2>3, <4>1, LoadHandled DEF Kept, Handled
    <3> QED BY <3>1, <3>2
  <2> QED BY <1>1, <1>5, <2>2, <2>3, AppendOutcome
<1>6. CASE RecvSnapshot
  BY <1>6 DEF RecvSnapshot, SafeLog
<1>7. CASE RecvRequestVote
  <2>1. PICK r : Handled(r) /\ SameLog(raft, r)
    BY <1>1, <1>7, VoteRequest
  <2> QED BY <1>3, <2>1 DEF SameLog
<1>8. ASSUME NEW r, Handled(r), RaftType(r), r.applied = raft.applied, r.prevHs = raft.prevHs,
             DOMAIN r.unst = DOMAIN raft.unst \cup {RaftLast(raft, store) + 1}
      PROVE  LoadInv' /\ status' = "up"
  <2>1. store.hs.commit < Min(DOMAIN r.unst) /\ Contiguous(r.unst)
    BY <1>1, <1>8, LeaderContiguous
  <2> QED BY <1>1, <1>8, <2>1, LoadHandled DEF Handled
<1>9. CASE RecvVoteQuorum
  <2>1. PICK r : r = BecomeLeader(raft, store)
    OBVIOUS
  <2>2. /\ Handled(r) /\ raft.role = "candidate" /\ RaftLast(raft, store) < MaxIndex
    BY <1>9, <2>1 DEF RecvVoteQuorum
  <2>3. /\ RaftType(r) /\ r.applied = raft.applied /\ r.prevHs = raft.prevHs
        /\ DOMAIN r.unst = DOMAIN raft.unst \cup {RaftLast(raft, store) + 1}
    BY <1>1, <2>1, <2>2, BecomeLeaderType DEF TypeInv, RaftType
  <2> QED BY <1>8, <2>2, <2>3
<1>10. CASE Propose
  <2>1. PICK r : /\ Handled(r) /\ RaftType(r) /\ r.applied = raft.applied /\ r.prevHs = raft.prevHs
                 /\ DOMAIN r.unst = DOMAIN raft.unst \cup {RaftLast(raft, store) + 1}
    BY <1>1, <1>10, Proposal
  <2> QED BY <1>8, <2>1
<1>11. CASE RecvAckQuorum
  <2>1. PICK n \in Index : Handled([raft EXCEPT !.committed = n])
    BY <1>1, <1>11, AckQuorum
  <2>2. PICK r : r = [raft EXCEPT !.committed = n]
    OBVIOUS
  <2>3. r.unst = raft.unst /\ r.applied = raft.applied /\ r.prevHs = raft.prevHs
    BY <1>1, <2>2 DEF TypeInv, RaftType
  <2> QED BY <1>3, <2>1, <2>2, <2>3
<1>12. CASE Campaign
  <2>1. PICK r : r = BecomeCandidate(raft, Self)
    OBVIOUS
  <2>2. Handled(r) /\ SameLog(raft, r)
    BY <1>1, <1>12, <2>1, CandidateType DEF Campaign, TypeInv
  <2> QED BY <1>3, <2>2 DEF SameLog
<1>13. CASE Demote
  <2>1. PICK r : Handled(r) /\ SameLog(raft, r)
    BY <1>1, <1>13, Demotion
  <2> QED BY <1>3, <2>1 DEF SameLog
<1>14. CASE RpcCreateSnapshot
  <2>1. /\ Thinned(store, store') /\ store'.snap.index = store.last
        /\ \A j : j \in DOMAIN store'.entries <=> j \in DOMAIN store.entries /\ j >= raft.applied
        /\ pc' = "tick" /\ UNCHANGED <<status, raft, rd>> /\ SnapshotRpc
    BY <1>1, <1>14, RpcThins
  <2>2. Backend = "rocksdb" /\ store'.snap.index <= store.last
    BY <1>1, <2>1, Compacts, Naturals
  <2>3. Loads(store')
    BY <1>1, <2>1, <2>2, LoadThinned
  <2>4. store'.hs = store.hs /\ store'.last = store.last
    BY <2>1 DEF Thinned
  <2>5. GaplessUnstable' /\ AppliedIsStored'
    BY <1>1, <1>2, <2>1, <2>4 DEF GaplessUnstable, AppliedIsStored, LoadInv
  <2> QED BY <1>1, <2>1, <2>3, <2>4, <2>5 DEF LoadInv
<1> QED BY <1>4, <1>5, <1>6, <1>7, <1>9, <1>10, <1>11, <1>12, <1>13, <1>14 DEF Receive

LEMMA LoadTick ==
  ASSUME NodeInv, CommitInv, LoadInv, TickAndReady
  PROVE  LoadInv' /\ status' = "up"
<1>1. TypeInv /\ TurnInv /\ store' = store /\ status = "up" /\ status' = "up" /\ pc = "tick"
  BY TickFacts DEF NodeInv
<1>2. PICK r :
        /\ RaftType(r) /\ SameLog(raft, r)
        /\ \/ rd' = NoReady /\ raft' = r /\ pc' = "recv"
           \/ Taken(r, raft', rd') /\ pc' = IF r.snap # NoSnapshot THEN "restore" ELSE "apply"
  BY <1>1, TickFacts
<1>3. /\ raft'.unst = raft.unst /\ raft'.applied = raft.applied /\ raft'.prevHs = raft.prevHs
      /\ pc' \in {"recv", "restore", "apply"}
  BY <1>2 DEF Taken, SameLog
<1>4. GaplessUnstable' /\ AppliedIsStored'
  BY <1>1, <1>3 DEF LoadInv, GaplessUnstable, AppliedIsStored
<1>5. \A i \in DOMAIN rd'.committed : i <= store.last
  <2>1. CASE rd' = NoReady
    BY <2>1, NoEntriesTable DEF NoReady
  <2>2. CASE Taken(r, raft', rd')
    <3>1. rd'.committed = NextEntries(r, store) /\ r.unst = raft.unst /\ r.snap = raft.snap
      BY <1>2, <2>2 DEF Taken, SameLog
    <3>2. CASE r.snap # NoSnapshot
      BY <3>1, <3>2, NoEntriesTable DEF NextEntries
    <3>3. CASE r.snap = NoSnapshot
      <4>1. Persisted(r, store) <= store.last
        <5>1. CASE DOMAIN r.unst = {}
          <6>1. Persisted(r, store) = store.last
            BY <3>3, <5>1 DEF Persisted, RaftLast, LastIndex
          <6> QED BY <1>1, <6>1, Naturals
        <5>2. CASE DOMAIN r.unst # {}
          <6>1. Min(DOMAIN r.unst) <= store.last + 1 /\ Persisted(r, store) = Min(DOMAIN r.unst) - 1
            BY <1>1, <3>1, <5>2 DEF TurnInv, NoGap, Persisted
          <6>2. Min(DOMAIN r.unst) \in 1 .. MaxIndex /\ store.last \in Nat
            BY <1>1, <1>2, <5>2, TableEnds, Naturals DEF RaftType
          <6> QED BY <6>1, <6>2, Bounds
        <5> QED BY <5>1, <5>2
      <4>2. PICK p \in Nat : p = Persisted(r, store)
        BY <1>1, <1>2, PersistedType, Bounds DEF TypeInv
      <4>3. \A i \in DOMAIN rd'.committed : i \in DOMAIN store.entries /\ i <= p
        BY <1>1, <1>2, <3>1, <4>2, NextEntriesType DEF TypeInv
      <4>4. DOMAIN store.entries \subseteq Nat /\ store.last \in Nat
        BY <1>1, Naturals
      <4> QED BY <4>1, <4>2, <4>3, <4>4
    <3> QED BY <3>2, <3>3
  <2> QED BY <1>2, <2>1, <2>2
<1> QED BY <1>1, <1>4, <1>5 DEF LoadInv

LEMMA LoadApply ==
  ASSUME SafeLog, NodeInv, NodeInv', CommitInv, LoadInv, ApplyEntry
  PROVE  LoadInv' /\ status' = "up"
<1>1. TypeInv /\ TypeInv'
  BY DEF NodeInv
<1>2. PICK i \in DOMAIN rd.committed :
         /\ Thinned(store, store') /\ status = "up" /\ UNCHANGED <<status, raft, pc>>
         /\ DOMAIN rd'.committed \subseteq DOMAIN rd.committed
         /\ \/ store'.entries = store.entries /\ store'.snap = store.snap
            \/ /\ store'.snap.index = i
               /\ \A j : j \in DOMAIN store'.entries <=> j \in DOMAIN store.entries /\ j >= raft.applied
               /\ SnapshotInterval \/ rd.committed[i].kind = "conf"
  BY <1>1, ApplyThins
<1>3. store'.last = store.last /\ store'.hs = store.hs
  BY <1>2 DEF Thinned
<1>4. Loads(store')
  <2>1. CASE store'.entries = store.entries /\ store'.snap = store.snap
    <3>1. store'.snap.index <= store.last
      BY <2>1 DEF LoadInv, Loads
    <3> QED BY <1>1, <1>2, <2>1, <3>1, LoadThinned
  <2>2. CASE /\ store'.snap.index = i
             /\ \A j : j \in DOMAIN store'.entries <=> j \in DOMAIN store.entries /\ j >= raft.applied
             /\ SnapshotInterval \/ rd.committed[i].kind = "conf"
    <3>1. store'.snap.index <= store.last
      BY <2>2 DEF LoadInv
    <3>2. Backend = "rocksdb"
      BY <1>1, <2>2, Compacts
    <3> QED BY <1>1, <1>2, <2>2, <3>1, <3>2, LoadThinned
  <2> QED BY <1>2, <2>1, <2>2
<1>5. GaplessUnstable' /\ AppliedIsStored'
  BY <1>2, <1>3 DEF LoadInv, GaplessUnstable, AppliedIsStored
<1>6. \A j \in DOMAIN rd'.committed : j <= store'.last
  BY <1>2, <1>3 DEF LoadInv
<1> QED BY <1>2, <1>4, <1>5, <1>6 DEF LoadInv

\* append finds nothing to panic about.
LEMMA NoAppendPanic ==
  ASSUME NodeInv, LoadInv, pc = "apply"
  PROVE  ~AppendPanics(store, rd.ents)
<1>1. TypeInv /\ TurnInv /\ LogTable(rd.ents) /\ rd.ents = raft.unst
  BY DEF NodeInv, TypeInv, ReadyType, TurnInv, HandedOut
<1> SUFFICES ASSUME DOMAIN rd.ents # {}
             PROVE  FirstIndex(store) <= Min(DOMAIN rd.ents) /\ Min(DOMAIN rd.ents) <= store.last + 1
  <2>1. DOMAIN rd.ents # {} =>
          FirstIndex(store) \in Nat /\ Min(DOMAIN rd.ents) \in 1 .. MaxIndex /\ store.last \in Nat
    BY <1>1, FirstFacts, TableEnds DEF TypeInv
  <2> QED BY <2>1, Bounds DEF AppendPanics
<1>2. store.hs.commit < Min(DOMAIN rd.ents)
  BY <1>1 DEF LoadInv, GaplessUnstable
<1>3. Min(DOMAIN rd.ents) <= store.last + 1
  BY <1>1 DEF TurnInv, NoGap
<1>4. FirstIndex(store) <= store.hs.commit + 1
  BY DEF LoadInv, Loads
<1>5. FirstIndex(store) \in Nat /\ store.hs.commit \in Nat
  BY <1>1, FirstFacts DEF TypeInv
<1>6. Min(DOMAIN rd.ents) \in 1 .. MaxIndex
  BY <1>1, TableEnds
<1> QED BY <1>2, <1>3, <1>4, <1>5, <1>6, Bounds

LEMMA LoadAppend ==
  ASSUME NodeInv, NodeInv', CommitInv, LoadInv, AppendReady
  PROVE  LoadInv' /\ status' = "up"
<1>1. TypeInv /\ TypeInv' /\ TurnInv /\ pc = "apply" /\ status = "up" /\ DOMAIN rd.committed = {}
  BY DEF AppendReady, Applied, At, NodeInv
<1>2. /\ store' = AppendEntries(store, rd.ents) /\ pc' = "hardstate" /\ status' = "up"
      /\ raft' = raft /\ rd' = rd /\ rd.ents = raft.unst
  BY <1>1, NoAppendPanic DEF AppendReady, TurnInv, HandedOut
<1>3. Loads(store') /\ store'.hs = store.hs
  <2>1. CASE DOMAIN rd.ents = {}
    BY <1>2, <2>1 DEF AppendEntries, LoadInv
  <2>2. CASE DOMAIN rd.ents # {}
    <3>1. PICK m, x : m = Max(DOMAIN rd.ents) /\ x = AppendEntries(store, rd.ents)
      OBVIOUS
    <3>2. StoreType(store) /\ StoreType(x) /\ LogTable(rd.ents) /\ Loads(store)
      BY <1>1, <1>2, <3>1 DEF TypeInv, ReadyType, LoadInv
    <3>3. /\ PartlyAppended(store, rd.ents, m, x) /\ store.last <= x.last
          /\ x.last \in {store.last, m}
      BY <2>2, <3>1, <3>2, AppendedStore
    <3>4. m \in DOMAIN rd.ents
      BY <2>2, <3>1, <3>2, TableEnds
    <3>5. /\ store.hs.commit < Min(DOMAIN rd.ents) /\ Contiguous(rd.ents)
          /\ Min(DOMAIN rd.ents) <= store.last + 1
      BY <1>1, <1>2, <2>2 DEF LoadInv, GaplessUnstable, TurnInv, NoGap
    <3>6. Loads(x)
      BY <3>1, <3>2, <3>3, <3>4, <3>5, AppendLoads
    <3>7. x.hs = store.hs
      BY <3>3 DEF PartlyAppended
    <3> QED BY <1>2, <3>1, <3>6, <3>7
  <2> QED BY <2>1, <2>2
<1>4. GaplessUnstable' /\ AppliedIsStored'
  BY <1>1, <1>2, <1>3 DEF LoadInv, GaplessUnstable, AppliedIsStored
<1> QED BY <1>1, <1>2, <1>3, <1>4 DEF LoadInv

LEMMA LoadHardState ==
  ASSUME NodeInv, NodeInv', CommitInv, LoadInv, WriteHardState
  PROVE  LoadInv' /\ status' = "up"
<1>1. /\ TypeInv /\ TypeInv' /\ TurnInv /\ pc = "hardstate" /\ pc' = "send" /\ raft' = raft
      /\ rd' = rd /\ status = "up" /\ status' = "up"
      /\ store' = IF rd.hasHs THEN SetHardState(store, rd.hs) ELSE store
  BY DEF WriteHardState, At, NodeInv
<1>2. rd.hs = HardState(raft) /\ rd.hasHs = (HardState(raft) # raft.prevHs)
  BY <1>1 DEF TurnInv, HandedOut
<1>3. rd.hs.commit = raft.committed
  BY <1>2 DEF HardState
<1>4. /\ store.hs.commit \in Nat /\ raft.committed \in Nat /\ raft.applied \in Nat
      /\ raft.prevHs.commit \in Nat /\ store.hs.commit <= raft.committed
  BY <1>1, Naturals DEF CommitInv, CommitInLog
<1>5. /\ store'.entries = store.entries /\ store'.last = store.last /\ store'.snap = store.snap
      /\ store'.hs.commit = IF rd.hasHs THEN raft.committed ELSE store.hs.commit
  BY <1>1, <1>3 DEF SetHardState, TypeInv, StoreType
<1>6. store.hs.commit <= store'.hs.commit
  BY <1>4, <1>5
<1>7. Loads(store')
  BY <1>1, <1>5, <1>6, SameLoads DEF TypeInv, LoadInv
<1>8. ~rd.hasHs => raft.prevHs.commit = raft.committed
  BY <1>2, <1>3
<1>9. AppliedIsStored'
  <2> SUFFICES ASSUME Backend = "rocksdb"
               PROVE  /\ raft.applied <= store'.hs.commit /\ raft.prevHs.commit <= store'.hs.commit
                      /\ raft.committed <= store'.hs.commit
    BY <1>1 DEF AppliedIsStored
  <2>1. raft.applied <= store.hs.commit /\ raft.prevHs.commit <= store.hs.commit
    BY <1>1 DEF LoadInv, AppliedIsStored
  <2>2. CASE rd.hasHs
    BY <1>4, <1>5, <2>1, <2>2
  <2>3. CASE ~rd.hasHs
    BY <1>4, <1>5, <1>8, <2>1, <2>3
  <2> QED BY <2>2, <2>3
<1>10. GaplessUnstable'
  BY <1>1 DEF GaplessUnstable
<1>11. \A i \in DOMAIN rd'.committed : i <= store'.last
  BY <1>1, <1>5 DEF LoadInv
<1> QED BY <1>1, <1>7, <1>9, <1>10, <1>11 DEF LoadInv

LEMMA LoadSend ==
  ASSUME NodeInv, CommitInv, LoadInv, SendPersisted
  PROVE  LoadInv' /\ status' = "up"
<1>1. TypeInv /\ TurnInv
  BY DEF NodeInv
<1>2. PICK p : p = IF rd.hasHs THEN rd.hs ELSE raft.prevHs
  OBVIOUS
<1>3. /\ Advanced(p) /\ status = "up" /\ status' = "up" /\ pc = "send" /\ store' = store
  BY <1>1, <1>2, SendOutcome
<1>4. /\ raft.committed \in Nat /\ raft.since \in Nat /\ raft.applied \in Nat
      /\ store.hs.commit \in Nat /\ raft.since <= raft.committed
  BY <1>1, <1>3, Naturals DEF CommitInv, CommitInLog
<1>5. p.commit \in {raft.committed, raft.prevHs.commit}
  BY <1>1, <1>2, <1>3 DEF TurnInv, HandedOut, HardState
<1>6. AppliedIsStored'
  <2> SUFFICES ASSUME Backend = "rocksdb"
               PROVE  /\ raft'.applied <= store.hs.commit
                      /\ pc' # "lightcommit" =>
                           raft'.prevHs.commit <= store.hs.commit /\ raft'.committed <= store.hs.commit
    <3>1. pc' # "send"
      BY <1>3 DEF Advanced
    <3> QED BY <1>3, <3>1 DEF AppliedIsStored
  <2>1. /\ raft.applied <= store.hs.commit /\ raft.prevHs.commit <= store.hs.commit
        /\ raft.committed <= store.hs.commit
    BY <1>3 DEF LoadInv, AppliedIsStored
  <2>2. raft'.applied \in {raft.applied, raft.since}
    BY <1>3, <1>4, MaxOfTwo DEF Advanced
  <2>3. raft'.applied <= store.hs.commit
    BY <1>4, <2>1, <2>2
  <2>4. p.commit <= store.hs.commit /\ p.commit \in Nat
    BY <1>1, <1>4, <1>5, <2>1, Naturals
  <2>5. raft'.committed \in Nat
    BY <1>1, <1>3, <1>4, Naturals DEF Advanced
  <2>6. pc' # "lightcommit" => raft'.prevHs.commit = p.commit /\ raft'.committed <= p.commit
    BY <1>3 DEF Advanced
  <2> QED BY <1>4, <2>3, <2>4, <2>5, <2>6
<1>7. GaplessUnstable'
  BY <1>3, NoEntriesTable DEF Advanced, GaplessUnstable
<1>8. \A i \in DOMAIN rd'.committed : i <= store'.last
  BY <1>3 DEF Advanced
<1>9. Loads(store')
  BY <1>3 DEF LoadInv
<1> QED BY <1>3, <1>6, <1>7, <1>8, <1>9 DEF LoadInv

LEMMA LoadLight ==
  ASSUME NodeInv, NodeInv', CommitInv, LoadInv, WriteLightCommit
  PROVE  LoadInv' /\ status' = "up"
<1>1. /\ TypeInv /\ TypeInv' /\ TurnInv /\ pc = "lightcommit" /\ pc' = "lightapply" /\ raft' = raft
      /\ rd' = rd /\ status = "up" /\ status' = "up"
      /\ store' = SetHardStateCommit(store, rd.commit)
  BY DEF WriteLightCommit, At, NodeInv
<1>2. /\ store.hs.commit \in Nat /\ raft.committed \in Nat /\ raft.applied \in Nat
      /\ store.hs.commit <= raft.committed /\ rd.commit = raft.committed
      /\ raft.prevHs.commit = raft.committed
  BY <1>1, Naturals DEF CommitInv, CommitInLog, TurnInv, HandedOut
<1>3. /\ store'.entries = store.entries /\ store'.last = store.last /\ store'.snap = store.snap
      /\ store'.hs.commit = IF Backend = "heed" THEN store.hs.commit ELSE raft.committed
  BY <1>1, <1>2 DEF SetHardStateCommit, TypeInv, StoreType, StoredStates
<1>4. store.hs.commit <= store'.hs.commit
  BY <1>2, <1>3
<1>5. Loads(store')
  BY <1>1, <1>3, <1>4, SameLoads DEF TypeInv, LoadInv
<1>6. AppliedIsStored'
  BY <1>1, <1>2, <1>3 DEF LoadInv, AppliedIsStored
<1>7. GaplessUnstable'
  BY <1>1 DEF GaplessUnstable
<1>8. \A i \in DOMAIN rd'.committed : i <= store'.last
  BY <1>1, <1>3 DEF LoadInv
<1> QED BY <1>1, <1>5, <1>6, <1>7, <1>8 DEF LoadInv

LEMMA LoadFinish ==
  ASSUME NodeInv, CommitInv, LoadInv, FinishLightApply
  PROVE  LoadInv' /\ status' = "up"
<1>1. TypeInv /\ TurnInv
  BY DEF NodeInv
<1>2. /\ status = "up" /\ status' = "up" /\ pc = "lightapply" /\ pc' = "recv" /\ rd' = NoReady
      /\ raft'.unst = raft.unst /\ raft'.committed = raft.committed /\ raft'.prevHs = raft.prevHs
      /\ raft'.applied = Max({raft.applied, raft.since}) /\ store' = store
  BY <1>1, FinishFacts
<1>3. DOMAIN raft'.unst = {} /\ DOMAIN rd'.committed = {}
  BY <1>1, <1>2, NoEntriesTable DEF TurnInv, HandedOut, NoReady
<1>4. /\ raft.committed \in Nat /\ raft.since \in Nat /\ raft.applied \in Nat
      /\ store.hs.commit \in Nat /\ raft.since <= raft.committed
  BY <1>1, <1>2, Naturals DEF CommitInv, CommitInLog
<1>5. raft'.applied \in {raft.applied, raft.since}
  BY <1>2, <1>4, MaxOfTwo
<1>6. AppliedIsStored'
  <2> SUFFICES ASSUME Backend = "rocksdb"
               PROVE  raft'.applied <= store.hs.commit /\ raft.prevHs.commit <= store.hs.commit
    BY <1>2 DEF AppliedIsStored
  <2>1. /\ raft.applied <= store.hs.commit /\ raft.prevHs.commit <= store.hs.commit
        /\ raft.committed <= store.hs.commit
    BY <1>2 DEF LoadInv, AppliedIsStored
  <2> QED BY <1>4, <1>5, <2>1
<1>7. GaplessUnstable' /\ Loads(store')
  BY <1>2, <1>3 DEF GaplessUnstable, LoadInv
<1> QED BY <1>2, <1>3, <1>6, <1>7 DEF LoadInv

LEMMA LoadReady ==
  ASSUME SafeLog, NodeInv, NodeInv', CommitInv, LoadInv, OnReady
  PROVE  LoadInv' /\ status' = "up"
<1>1. ~RestoreSnapshot
  BY DEF RestoreSnapshot, At, NodeInv, TurnInv, HandedOut, PendingSnapshot, SafeLog
<1> QED BY <1>1, LoadTick, LoadApply, LoadAppend, LoadHardState, LoadSend, LoadLight, LoadFinish
       DEF OnReady

LEMMA LoadCrash ==
  ASSUME SafeLog, NodeInv, NodeInv', CommitInv, LoadInv, Crash
  PROVE  LoadInv' /\ status' = "down"
<1>1. TypeInv /\ TypeInv' /\ TurnInv /\ PowerOff /\ status = "up" /\ status' = "down"
  BY CrashStore DEF NodeInv
<1>2. SUFFICES Loads(store')
  BY <1>1, LoadOff
<1>3. CASE store' = store
  BY <1>3 DEF LoadInv
<1>4. CASE pc = "restore"
  BY <1>1, <1>4 DEF TurnInv, HandedOut, PendingSnapshot, SafeLog
<1>5. ASSUME pc = "apply", store'.last = store.last,
             NEW k \in DOMAIN rd.ents, PartlyAppended(store, rd.ents, k, store')
      PROVE  Loads(store')
  <2>1. /\ StoreType(store) /\ StoreType(store') /\ LogTable(rd.ents) /\ Loads(store)
        /\ rd.ents = raft.unst /\ DOMAIN rd.ents # {} /\ store.last <= store'.last
    BY <1>1, <1>5, Naturals DEF TypeInv, ReadyType, LoadInv, TurnInv, HandedOut
  <2>2. /\ store.hs.commit < Min(DOMAIN rd.ents) /\ Contiguous(rd.ents)
        /\ Min(DOMAIN rd.ents) <= store.last + 1
    BY <1>1, <1>5, <2>1 DEF LoadInv, GaplessUnstable, TurnInv, NoGap
  <2> QED BY <1>5, <2>1, <2>2, AppendLoads
<1>6. ASSUME Thinned(store, store'), store'.snap = store.snap,
             \/ store'.entries = store.entries
             \/ /\ \A j : j \in DOMAIN store'.entries <=>
                          j \in DOMAIN store.entries /\ j >= raft.applied
                /\ \/ SnapshotInterval \/ SnapshotRpc
                   \/ \E i \in DOMAIN rd.committed : rd.committed[i].kind = "conf"
      PROVE  Loads(store')
  <2>1. store'.snap.index <= store.last
    BY <1>6 DEF LoadInv, Loads
  <2>2. CASE store'.entries = store.entries
    BY <1>1, <1>6, <2>1, <2>2, LoadThinned
  <2>3. CASE /\ \A j : j \in DOMAIN store'.entries <=>
                       j \in DOMAIN store.entries /\ j >= raft.applied
             /\ \/ SnapshotInterval \/ SnapshotRpc
                \/ \E i \in DOMAIN rd.committed : rd.committed[i].kind = "conf"
    <3>1. Backend = "rocksdb"
      BY <1>1, <2>3, Compacts
    <3> QED BY <1>1, <1>6, <2>1, <2>3, <3>1, LoadThinned
  <2> QED BY <1>6, <2>2, <2>3
<1> QED BY <1>1, <1>3, <1>4, <1>5, <1>6, CrashStore

-----------------------------------------------------------------------------
(* The theorems *)

\* What is known of a node in these configurations.
SafeInv == NodeInv /\ CommitInv /\ LoadInv /\ status # "dead"

LEMMA InitSafe == Init => SafeInv
<1> SUFFICES ASSUME Init PROVE SafeInv
  OBVIOUS
<1>1. NodeInv /\ CommitInv
  BY InitNode, InitCommit
<1>2. store = EmptyStore /\ status = "down" /\ rd = NoReady /\ raft = OffRaft
  BY DEF Init
<1>3. /\ store.hs.commit = 0 /\ store.last = 0 /\ DOMAIN store.entries = {} /\ store.snap.index = 0
  BY <1>2 DEF EmptyStore, DefaultHardState, DefaultSnapshot
<1>4. FirstIndex(store) = 1 /\ 1 .. 0 = {}
  BY <1>3 DEF FirstIndex
<1>5. Loads(store)
  BY <1>3, <1>4 DEF Loads
<1>6. DOMAIN rd.committed = {} /\ DOMAIN raft.unst = {}
  BY <1>2, OffRaftFacts, NoEntriesTable DEF NoReady
<1>7. LoadInv
  BY <1>2, <1>5, <1>6 DEF LoadInv, GaplessUnstable, AppliedIsStored
<1> QED BY <1>1, <1>2, <1>7 DEF SafeInv

LEMMA NextSafe ==
  ASSUME SafeLog, SafeInv, [Next]_vars
  PROVE  SafeInv'
<1>1. NodeInv /\ CommitInv /\ LoadInv /\ status # "dead"
  BY DEF SafeInv
<1>2. NodeInv' /\ CommitInv'
  BY <1>1, NextNode, NextCommit, SafeLogRestores
<1>3. CASE Bootstrap
  BY <1>1, <1>2, <1>3, LoadBootstrap DEF SafeInv
<1>4. CASE Receive
  BY <1>1, <1>2, <1>4, LoadReceive DEF SafeInv
<1>5. CASE OnReady
  BY <1>1, <1>2, <1>5, LoadReady DEF SafeInv
<1>6. CASE Crash
  BY <1>1, <1>2, <1>6, LoadCrash DEF SafeInv
<1>7. CASE Environment \/ UNCHANGED vars
  <2>1. UNCHANGED <<store, status, raft, pc, rd>>
    BY <1>7 DEF Environment, OtherLeader, OtherPropose, OtherCommit, volatile, vars
  <2>2. LoadInv'
    BY <1>1, <2>1 DEF LoadInv, Loads, FirstIndex, GaplessUnstable, AppliedIsStored
  <2> QED BY <1>1, <1>2, <2>1, <2>2 DEF SafeInv
<1> QED BY <1>3, <1>4, <1>5, <1>6, <1>7 DEF Next

LEMMA SafeIsLoadable ==
  ASSUME SafeLog, SafeInv
  PROVE  Loadable
BY LoadsIsLoaded DEF SafeInv, NodeInv, LoadInv, CommitInv, CommitInLog, SafeLog, Loadable

\* At every instant, between any two writes of any operation, the log
\* directory is one RawNode::new can load, and no handler or storage operation
\* has panicked: the compacted prefix never passes the stored commit index, nor
\* that index the last one, and what on_ready appends continues the log.
THEOREM AlwaysRestartable ==
  ASSUME SafeLog
  PROVE  Spec => []Restartable
<1>1. SafeInv /\ [Next]_vars => SafeInv'
  BY NextSafe
<1>2. SafeInv => Restartable
  BY SafeIsLoadable DEF SafeInv, Restartable
<1> QED BY InitSafe, <1>1, <1>2, PTL DEF Spec
=============================================================================
