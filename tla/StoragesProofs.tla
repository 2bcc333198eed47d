--------------------------- MODULE StoragesProofs --------------------------
(***************************************************************************)
(* The calls of HeedStorage and RocksDBStorage, write by write and crash   *)
(* by crash, are steps of the storage RaftNode is written against, and a   *)
(* MemStorage given the same calls agrees with them.  For every Base,      *)
(* KeyLength and bound for which the padded keys sort as the indices do    *)
(* (KeysOrdered).                                                          *)
(*                                                                         *)
(* A table stands for the record View of it: the first part says what each *)
(* kind of write does to that record.  Progress relates what a call has    *)
(* made of the record it began with to the writes it has left; CallInv     *)
(* keeps it from Begin to Return, on the open transaction for heed, on the *)
(* tables themselves for RocksDB.  MemInv relates the visible record, the  *)
(* MemStorage and raft-rs's own indices; ArchiveInv follows the entries of *)
(* a compact of heed to the file they are archived in.                     *)
(***************************************************************************)
EXTENDS Storages, SetLemmas, FiniteSetTheorems

-----------------------------------------------------------------------------
(* Tables and the records they stand for *)

Indices == 1 .. MaxIndex

\* Every row of the table of entries is under the key of its index.
TableType(d) ==
  /\ d = [log |-> d.log, meta |-> d.meta]
  /\ d.log = [k \in DOMAIN d.log |-> d.log[k]]
  /\ \A k \in DOMAIN d.log :
       \E i \in Indices, t \in Nat : k = Key(i) /\ d.log[k] = [index |-> i, term |-> t]

\* The entries of the tables d, and the record they stand for.
Rows(d) == {i \in Indices : Key(i) \in DOMAIN d.log}

Record(entries, d) ==
  [entries |-> entries, last |-> Meta(d, "last_index", 0),
   hs |-> Meta(d, "hard_state", DefaultHardState), conf |-> Meta(d, "conf_state", 0),
   snap |-> Meta(d, "snapshot", DefaultSnapshot)]

LEMMA KeysDiffer ==
  ASSUME KeysOrdered, NEW i \in Indices, NEW j \in Indices, Key(i) = Key(j)
  PROVE  i = j
<1>1. i \in 0 .. MaxIndex + 1 /\ j \in 0 .. MaxIndex + 1 /\ i \in Nat /\ j \in Nat
  BY StoragesAssumption DEF Indices
<1>2. (Before(Key(i), Key(j)) <=> i < j) /\ (Before(Key(j), Key(i)) <=> j < i)
      /\ (Before(Key(i), Key(i)) <=> i < i)
  BY <1>1 DEF KeysOrdered
<1> QED BY <1>1, <1>2

LEMMA RowOf ==
  ASSUME KeysOrdered, NEW d, TableType(d), NEW i \in Rows(d)
  PROVE  d.log[Key(i)].index = i /\ d.log[Key(i)].term \in Nat
<1>1. PICK j \in Indices, t \in Nat :
           Key(i) = Key(j) /\ d.log[Key(i)] = [index |-> j, term |-> t]
  BY DEF TableType, Rows
<1>2. i = j
  BY <1>1, KeysDiffer DEF Rows
<1> QED BY <1>1, <1>2

LEMMA ViewRows ==
  ASSUME KeysOrdered, NEW d, TableType(d)
  PROVE  View(d) = Record([i \in Rows(d) |-> [term |-> d.log[Key(i)].term]], d)
<1> DEFINE held == {d.log[k].index : k \in DOMAIN d.log}
           row(i) == d.log[CHOOSE k \in DOMAIN d.log : d.log[k].index = i]
<1>1. \A k \in DOMAIN d.log : d.log[k].index \in Rows(d) /\ k = Key(d.log[k].index)
  BY DEF TableType, Rows
<1>2. held = Rows(d)
  <2>1. \A i \in Rows(d) : Key(i) \in DOMAIN d.log /\ d.log[Key(i)].index = i
    BY RowOf DEF Rows
  <2> QED BY <1>1, <2>1
<1>3. ASSUME NEW i \in Rows(d) PROVE row(i) = d.log[Key(i)]
  <2>1. Key(i) \in DOMAIN d.log /\ d.log[Key(i)].index = i
    BY RowOf DEF Rows
  <2>2. \A k \in DOMAIN d.log : d.log[k].index = i => k = Key(i)
    BY <1>1
  <2> QED BY <2>1, <2>2
<1>4. [i \in held |-> [term |-> row(i).term]] = [i \in Rows(d) |-> [term |-> d.log[Key(i)].term]]
  BY <1>2, <1>3
<1> QED BY <1>4 DEF View, Record

\* A put of an entry.
LEMMA PutEntryView ==
  ASSUME KeysOrdered, NEW d, TableType(d), NEW i \in Indices, NEW t \in Nat, NEW x,
         x = Written(d, PutEntry([index |-> i, term |-> t]))
  PROVE  /\ TableType(x)
         /\ View(x) = [View(d) EXCEPT !.entries = Put(@, i, [term |-> t])]
<1> DEFINE e == [index |-> i, term |-> t]
           f == [k \in DOMAIN d.log \cup {Key(i)} |-> IF k = Key(i) THEN e ELSE d.log[k]]
           g == [j \in Rows(d) |-> [term |-> d.log[Key(j)].term]]
<1>1. x = [log |-> f, meta |-> d.meta]
  <2>1. d = [log |-> d.log, meta |-> d.meta]
    BY DEF TableType
  <2>2. x = [d EXCEPT !["log"] = f]
    BY DEF Written, PutEntry
  <2> QED BY <2>1, <2>2
<1>2. TableType(x)
  <2>1. x.log = f /\ DOMAIN x.log = DOMAIN d.log \cup {Key(i)}
    BY <1>1
  <2>2. \A k \in DOMAIN x.log :
          \E j \in Indices, u \in Nat : k = Key(j) /\ x.log[k] = [index |-> j, term |-> u]
    <3> SUFFICES ASSUME NEW k \in DOMAIN x.log
                 PROVE  \E j \in Indices, u \in Nat : k = Key(j) /\ x.log[k] = [index |-> j, term |-> u]
      OBVIOUS
    <3>1. CASE k = Key(i)
      BY <2>1, <3>1
    <3>2. CASE k # Key(i)
      BY <2>1, <3>2 DEF TableType
    <3> QED BY <3>1, <3>2
  <2> QED BY <1>1, <2>1, <2>2 DEF TableType
<1>3. Rows(x) = Rows(d) \cup {i}
  BY <1>1, KeysDiffer DEF Rows
<1>4. [j \in Rows(x) |-> [term |-> x.log[Key(j)].term]] = Put(g, i, [term |-> t])
  <2>1. \A j \in Rows(x) : x.log[Key(j)].term = IF j = i THEN t ELSE d.log[Key(j)].term
    <3> SUFFICES ASSUME NEW j \in Rows(x)
                 PROVE  x.log[Key(j)].term = IF j = i THEN t ELSE d.log[Key(j)].term
      OBVIOUS
    <3>1. Key(j) \in DOMAIN f /\ x.log[Key(j)] = IF Key(j) = Key(i) THEN e ELSE d.log[Key(j)]
      BY <1>1 DEF Rows
    <3>2. Key(j) = Key(i) => j = i
      BY KeysDiffer DEF Rows
    <3> QED BY <3>1, <3>2
  <2>2. DOMAIN g = Rows(d) /\ \A j \in Rows(d) : g[j] = [term |-> d.log[Key(j)].term]
    OBVIOUS
  <2>3. Put(g, i, [term |-> t])
          = [j \in Rows(d) \cup {i} |-> IF j = i THEN [term |-> t] ELSE g[j]]
    BY DEF Put, PutAll
  <2> HIDE DEF g
  <2> QED BY <1>3, <2>1, <2>2, <2>3
<1>5. View(d) = Record(g, d) /\ View(x) = Record(Put(g, i, [term |-> t]), x)
  BY <1>2, <1>4, ViewRows
<1>6. \A key, default : Meta(x, key, default) = Meta(d, key, default)
  BY <1>1 DEF Meta
<1> HIDE DEF g
<1> QED BY <1>2, <1>5, <1>6 DEF Record

\* A put in the table of metadata.
MetaPut(s, key, v) ==
  CASE key = "last_index" -> [s EXCEPT !.last = v]
    [] key = "hard_state" -> [s EXCEPT !.hs = v]
    [] key = "conf_state" -> [s EXCEPT !.conf = v]
    [] key = "snapshot"   -> [s EXCEPT !.snap = v]

LEMMA PutMetaView ==
  ASSUME KeysOrdered, NEW d, TableType(d), NEW key, NEW v, NEW x, x = Written(d, PutMeta(key, v)),
         key \in {"last_index", "hard_state", "conf_state", "snapshot"}
  PROVE  TableType(x) /\ View(x) = MetaPut(View(d), key, v)
<1> DEFINE m == [k \in DOMAIN d.meta \cup {key} |-> IF k = key THEN v ELSE d.meta[k]]
           g == [j \in Rows(d) |-> [term |-> d.log[Key(j)].term]]
<1>1. x = [log |-> d.log, meta |-> m]
  <2>1. d = [log |-> d.log, meta |-> d.meta]
    BY DEF TableType
  <2>2. x = [d EXCEPT !["meta"] = m]
    BY DEF Written, PutMeta
  <2> QED BY <2>1, <2>2
<1>2. TableType(x) /\ Rows(x) = Rows(d) /\ x.log = d.log
  BY <1>1 DEF TableType, Rows
<1>3. View(d) = Record(g, d) /\ View(x) = Record(g, x)
  BY <1>2, ViewRows
<1>4. \A k, default : Meta(x, k, default) = IF k = key THEN v ELSE Meta(d, k, default)
  BY <1>1 DEF Meta
<1> HIDE DEF g, m
<1>5. CASE key = "last_index"
  BY <1>2, <1>3, <1>4, <1>5 DEF Record, MetaPut
<1>6. CASE key = "hard_state"
  BY <1>2, <1>3, <1>4, <1>6 DEF Record, MetaPut
<1>7. CASE key = "conf_state"
  BY <1>2, <1>3, <1>4, <1>7 DEF Record, MetaPut
<1>8. CASE key = "snapshot"
  BY <1>2, <1>3, <1>4, <1>8 DEF Record, MetaPut
<1> QED BY <1>5, <1>6, <1>7, <1>8

\* delete_range of the keys below the one of an index.
LEMMA DeleteBelowView ==
  ASSUME KeysOrdered, NEW d, TableType(d), NEW n \in Indices, NEW x,
         x = Written(d, DeleteBelow(Key(n)))
  PROVE  TableType(x) /\ View(x) = Compact(View(d), n)
<1> DEFINE f == Restrict(d.log, {k \in DOMAIN d.log : ~Before(k, Key(n))})
           g == [j \in Rows(d) |-> [term |-> d.log[Key(j)].term]]
<1>1. x = [log |-> f, meta |-> d.meta]
  <2>1. d = [log |-> d.log, meta |-> d.meta]
    BY DEF TableType
  <2>2. x = [d EXCEPT !.log = f]
    BY DEF Written, DeleteBelow
  <2> QED BY <2>1, <2>2
<1>2. /\ DOMAIN f = {k \in DOMAIN d.log : ~Before(k, Key(n))}
      /\ \A k \in DOMAIN f : f[k] = d.log[k]
      /\ f = [k \in DOMAIN f |-> f[k]]
  BY DEF Restrict
<1> HIDE DEF f
<1>3. TableType(x)
  <2>1. x.log = f /\ x.meta = d.meta
    BY <1>1
  <2>2. \A k \in DOMAIN x.log :
          \E j \in Indices, u \in Nat : k = Key(j) /\ x.log[k] = [index |-> j, term |-> u]
    BY <1>2, <2>1 DEF TableType
  <2> QED BY <1>1, <1>2, <2>1, <2>2 DEF TableType
<1>4. Rows(x) = {j \in Rows(d) : j >= n}
  <2>1. \A j \in Indices : Before(Key(j), Key(n)) <=> j < n
    BY StoragesAssumption DEF KeysOrdered, Indices
  <2>2. \A j \in Indices : j < n <=> ~(j >= n)
    BY StoragesAssumption DEF Indices
  <2> QED BY <1>1, <1>2, <2>1, <2>2 DEF Rows
<1>5. [j \in Rows(x) |-> [term |-> x.log[Key(j)].term]] = Restrict(g, {j \in DOMAIN g : j >= n})
  <2>1. \A j \in Rows(x) : j \in Rows(d) /\ x.log[Key(j)] = d.log[Key(j)]
    BY <1>1, <1>2, <1>4 DEF Rows
  <2> QED BY <1>4, <2>1 DEF Restrict
<1>6. View(d) = Record(g, d) /\ View(x) = Record(Restrict(g, {j \in DOMAIN g : j >= n}), x)
  BY <1>3, <1>5, ViewRows
<1>7. \A key, default : Meta(x, key, default) = Meta(d, key, default)
  BY <1>1 DEF Meta
<1> HIDE DEF g
<1> QED BY <1>3, <1>6, <1>7 DEF Record, Compact

-----------------------------------------------------------------------------
(* Calls *)

HardStateType == [term : Nat, vote : Nat, commit : 0 .. MaxIndex]

SnapshotType(x) ==
  /\ x = [index |-> x.index, term |-> x.term, data |-> x.data, conf |-> x.conf]
  /\ x.index \in 0 .. MaxIndex /\ x.term \in Nat /\ x.conf \in Nat

StoreType(s) ==
  /\ s = [entries |-> s.entries, last |-> s.last, hs |-> s.hs, conf |-> s.conf, snap |-> s.snap]
  /\ DOMAIN s.entries \subseteq Indices /\ s.entries = [i \in DOMAIN s.entries |-> s.entries[i]]
  /\ \A i \in DOMAIN s.entries : s.entries[i].term \in Nat
  /\ s.last \in 0 .. MaxIndex /\ s.hs \in HardStateType /\ s.conf \in Nat /\ SnapshotType(s.snap)

\* A batch of on_ready is a range of entries of one term.
IsBatch(e, lo, hi, t) == e = [i \in lo .. hi |-> [term |-> t]]

CallType(c) ==
  \/ c.op = "append" /\ \E lo \in Indices, hi \in 0 .. MaxIndex, t \in Nat : IsBatch(c.ents, lo, hi, t)
  \/ c.op = "set_hard_state" /\ c.hs \in HardStateType
  \/ c.op = "set_hard_state_commit" /\ c.commit \in 0 .. MaxIndex
  \/ c.op = "set_conf_state" /\ c.conf \in Nat
  \/ c.op = "create_snapshot" /\ SnapshotType(c.snap)
  \/ c.op = "apply_snapshot" /\ SnapshotType(c.snap)
  \/ c.op = "compact" /\ c.index \in Indices

LEMMA FirstIndexType ==
  ASSUME NEW s, StoreType(s)
  PROVE  FirstIndex(s) \in Nat
<1>1. DOMAIN s.entries \in SUBSET Nat /\ s.snap.index \in Nat
  BY StoragesAssumption DEF StoreType, SnapshotType, Indices
<1>2. CASE DOMAIN s.entries = {}
  BY <1>1, <1>2 DEF FirstIndex
<1>3. CASE DOMAIN s.entries # {}
  BY <1>1, <1>3, BoundedMin DEF FirstIndex
<1> QED BY <1>2, <1>3

\* The copies that the two instances of StorageCalls have of the operators.
LEMMA SameReads ==
  ASSUME NEW s
  PROVE  /\ Heed!FirstIndex(s) = FirstIndex(s) /\ Rocks!FirstIndex(s) = FirstIndex(s)
         /\ \A i : Heed!Term(s, i) = Term(s, i) /\ Rocks!Term(s, i) = Term(s, i)
<1>1. \A S : Heed!Min(S) = Min(S) /\ Rocks!Min(S) = Min(S)
  BY DEF Heed!Min, Rocks!Min, Min
<1>2. Heed!FirstIndex(s) = FirstIndex(s) /\ Rocks!FirstIndex(s) = FirstIndex(s)
  BY <1>1 DEF Heed!FirstIndex, Rocks!FirstIndex, FirstIndex
<1> QED BY <1>2 DEF Heed!Term, Rocks!Term, Term, Heed!Compacted, Rocks!Compacted, Compacted,
                    Heed!Unavailable, Rocks!Unavailable, Unavailable

LEMMA SameCalls ==
  ASSUME NEW s
  PROVE  Rocks!Calls(s) = Heed!Calls(s)
<1>1. Rocks!AppendCalls(s) = Heed!AppendCalls(s)
  BY SameReads DEF Rocks!AppendCalls, Heed!AppendCalls, Rocks!Batch, Heed!Batch, Rocks!Terms, Heed!Terms
<1>2. Rocks!HardStateCalls(s) = Heed!HardStateCalls(s)
  BY DEF Rocks!HardStateCalls, Heed!HardStateCalls, Rocks!Terms, Heed!Terms
<1>3. Rocks!SnapshotCalls(s) = Heed!SnapshotCalls(s)
  <2> DEFINE hset == {j \in s.snap.index + 1 .. s.last : Heed!Term(s, j) > 0}
             rset == {j \in s.snap.index + 1 .. s.last : Rocks!Term(s, j) > 0}
             hmade == {[op |-> "create_snapshot", snap |-> Heed!Snapshot(i, Heed!Term(s, i), s.conf)] : i \in hset}
             rmade == {[op |-> "create_snapshot", snap |-> Rocks!Snapshot(i, Rocks!Term(s, i), s.conf)] : i \in rset}
  <2>1. \A i, t, k : Heed!Snapshot(i, t, k) = Rocks!Snapshot(i, t, k)
    BY DEF Heed!Snapshot, Rocks!Snapshot
  <2>2. \A i : Heed!Term(s, i) = Rocks!Term(s, i)
    BY SameReads
  <2>3. hset = rset
    BY <2>2
  <2>4. \A i \in hset : Heed!Snapshot(i, Heed!Term(s, i), s.conf) = Rocks!Snapshot(i, Rocks!Term(s, i), s.conf)
    BY <2>1, <2>2
  <2>5. hmade = rmade
    <3> HIDE DEF hset, rset
    <3> QED BY <2>3, <2>4
  <2>6. Heed!Terms = Rocks!Terms
    BY DEF Heed!Terms, Rocks!Terms
  <2>7. {[op |-> "apply_snapshot", snap |-> Heed!Snapshot(i, t, c)] :
            i \in s.hs.commit + 1 .. MaxIndex, t \in Heed!Terms, c \in {MaxConf}}
          = {[op |-> "apply_snapshot", snap |-> Rocks!Snapshot(i, t, c)] :
               i \in s.hs.commit + 1 .. MaxIndex, t \in Rocks!Terms, c \in {MaxConf}}
    BY <2>1, <2>6
  <2> QED BY <2>5, <2>7 DEF Rocks!SnapshotCalls, Heed!SnapshotCalls
<1>4. Rocks!OtherCalls(s) = Heed!OtherCalls(s)
  BY DEF Rocks!OtherCalls, Heed!OtherCalls
<1> QED BY <1>1, <1>2, <1>3, <1>4 DEF Rocks!Calls, Heed!Calls

LEMMA CallTyped ==
  ASSUME NEW s, StoreType(s), NEW c \in Heed!Calls(s)
  PROVE  CallType(c)
<1>0. MaxIndex \in Nat /\ MaxTerm \in Nat /\ MaxConf \in Nat
  BY StoragesAssumption
<1>1. CASE c \in Heed!AppendCalls(s)
  <2>1. PICK lo \in FirstIndex(s) .. s.last + 1, hi \in 1 .. MaxIndex, t \in Heed!Terms :
             lo > s.hs.commit /\ c = [op |-> "append", ents |-> Heed!Batch(lo, hi, t)]
    BY <1>1, SameReads DEF Heed!AppendCalls
  <2>2. FirstIndex(s) \in Nat /\ s.last \in 0 .. MaxIndex /\ s.hs.commit \in 0 .. MaxIndex
    BY FirstIndexType DEF StoreType, HardStateType
  <2>3. lo \in Nat /\ 1 <= lo /\ lo <= MaxIndex + 1 /\ hi \in 0 .. MaxIndex /\ t \in Nat
    BY <1>0, <2>1, <2>2 DEF Heed!Terms
  <2>4. CASE lo <= MaxIndex
    BY <2>1, <2>3, <2>4 DEF CallType, IsBatch, Indices, Heed!Batch
  <2>5. CASE lo = MaxIndex + 1
    <3>1. lo .. hi = {} /\ Heed!Batch(lo, hi, t) = <<>>
      BY <1>0, <2>3, <2>5 DEF Heed!Batch
    <3> QED BY <1>1, <2>1, <3>1 DEF Heed!AppendCalls
  <2> QED BY <1>0, <2>3, <2>4, <2>5
<1>2. CASE c \in Heed!HardStateCalls(s)
  <2>1. s.hs.commit \in 0 .. MaxIndex
    BY DEF StoreType, HardStateType
  <2>2. CASE \E t \in Heed!Terms, k \in s.hs.commit .. MaxIndex :
               c = [op |-> "set_hard_state", hs |-> [term |-> t, vote |-> t, commit |-> k]]
    BY <1>0, <2>1, <2>2 DEF Heed!Terms, CallType, HardStateType
  <2>3. CASE \E k \in s.hs.commit .. MaxIndex : c = [op |-> "set_hard_state_commit", commit |-> k]
    BY <1>0, <2>1, <2>3 DEF CallType
  <2> QED BY <1>2, <2>2, <2>3 DEF Heed!HardStateCalls
<1>3. CASE c \in Heed!SnapshotCalls(s)
  <2>1. /\ s.hs.commit \in 0 .. MaxIndex /\ s.last \in 0 .. MaxIndex /\ s.conf \in Nat
        /\ SnapshotType(s.snap)
    BY DEF StoreType, HardStateType
  <2>2. CASE \E i \in s.snap.index + 1 .. s.last :
               Term(s, i) > 0 /\ c = [op |-> "create_snapshot", snap |-> Heed!Snapshot(i, Term(s, i), s.conf)]
    <3>1. PICK i \in s.snap.index + 1 .. s.last :
               Term(s, i) > 0 /\ c = [op |-> "create_snapshot", snap |-> Heed!Snapshot(i, Term(s, i), s.conf)]
      BY <2>2
    <3>2. s.snap.index \in 0 .. MaxIndex /\ s.snap.term \in Nat
      BY <2>1 DEF SnapshotType
    <3>3. Term(s, i) \in {s.snap.term, -1, -2} \cup {s.entries[j].term : j \in DOMAIN s.entries}
      BY DEF Term, Compacted, Unavailable
    <3>4. Term(s, i) \in Nat
      BY <3>1, <3>2, <3>3 DEF StoreType
    <3>5. i \in 0 .. MaxIndex
      BY <1>0, <2>1, <3>2
    <3> QED BY <2>1, <3>1, <3>4, <3>5 DEF CallType, SnapshotType, Heed!Snapshot
  <2>3. CASE \E i \in s.hs.commit + 1 .. MaxIndex, t \in Heed!Terms, k \in {MaxConf} :
               c = [op |-> "apply_snapshot", snap |-> Heed!Snapshot(i, t, k)]
    BY <1>0, <2>1, <2>3 DEF CallType, SnapshotType, Heed!Snapshot, Heed!Terms
  <2>4. CASE \E k \in 0 .. MaxConf : c = [op |-> "apply_snapshot", snap |-> [s.snap EXCEPT !.conf = k]]
    <3>1. PICK k \in 0 .. MaxConf : c = [op |-> "apply_snapshot", snap |-> [s.snap EXCEPT !.conf = k]]
      BY <2>4
    <3>2. [s.snap EXCEPT !.conf = k]
            = [index |-> s.snap.index, term |-> s.snap.term, data |-> s.snap.data, conf |-> k]
      BY <2>1 DEF SnapshotType
    <3> QED BY <1>0, <2>1, <3>1, <3>2 DEF CallType, SnapshotType
  <2>5. CASE \E i \in s.snap.index + 1 .. s.last :
               Heed!Term(s, i) > 0
               /\ c = [op |-> "create_snapshot", snap |-> Heed!Snapshot(i, Heed!Term(s, i), s.conf)]
    <3>1. PICK i \in s.snap.index + 1 .. s.last :
               Heed!Term(s, i) > 0
               /\ c = [op |-> "create_snapshot", snap |-> Heed!Snapshot(i, Heed!Term(s, i), s.conf)]
      BY <2>5
    <3>2. Heed!Term(s, i) = Term(s, i)
      BY SameReads
    <3>3. Term(s, i) > 0 /\ c = [op |-> "create_snapshot", snap |-> Heed!Snapshot(i, Term(s, i), s.conf)]
      BY <3>1, <3>2
    <3> QED BY <2>2, <3>3
  <2> QED BY <1>3, <2>3, <2>4, <2>5 DEF Heed!SnapshotCalls
<1>4. CASE c \in Heed!OtherCalls(s)
  <2>1. s.last \in 0 .. MaxIndex
    BY DEF StoreType
  <2> QED BY <1>0, <1>4, <2>1 DEF Heed!OtherCalls, CallType, Indices
<1> QED BY <1>1, <1>2, <1>3, <1>4 DEF Heed!Calls

-----------------------------------------------------------------------------
(* What a call has done so far *)

\* What a call does to the store when its writes are kept: what a returned
\* call of RocksDBStorage does, and what one of HeedStorage does unless it is
\* a set_hard_state_commit.
Effect(s, c) ==
  CASE c.op = "append"                -> AppendEntries(s, c.ents)
    [] c.op = "set_hard_state"        -> SetHardState(s, c.hs)
    [] c.op = "set_hard_state_commit" -> [s EXCEPT !.hs.commit = c.commit]
    [] c.op = "set_conf_state"        -> SetConfState(s, c.conf)
    [] c.op = "create_snapshot"       -> CreateSnapshot(s, c.snap.data, c.snap.index, c.snap.term)
    [] c.op = "apply_snapshot"        -> ApplySnapshot(s, c.snap)
    [] c.op = "compact"               -> Compact(s, c.index)

LEMMA SameWrites ==
  ASSUME NEW s
  PROVE  /\ \A e : Rocks!AppendEntries(s, e) = AppendEntries(s, e)
                   /\ Heed!AppendEntries(s, e) = AppendEntries(s, e)
         /\ \A snap : Rocks!ApplySnapshot(s, snap) = ApplySnapshot(s, snap)
                      /\ Heed!ApplySnapshot(s, snap) = ApplySnapshot(s, snap)
         /\ \A i : Rocks!Compact(s, i) = Compact(s, i) /\ Heed!Compact(s, i) = Compact(s, i)
<1>1. \A S : Rocks!Max(S) = Max(S) /\ Heed!Max(S) = Max(S)
  BY DEF Rocks!Max, Heed!Max, Max
<1>2. \A g, e : Rocks!PutAll(g, e) = PutAll(g, e) /\ Heed!PutAll(g, e) = PutAll(g, e)
  BY DEF Rocks!PutAll, Heed!PutAll, PutAll
<1>3. \A f, S : Rocks!Restrict(f, S) = Restrict(f, S) /\ Heed!Restrict(f, S) = Restrict(f, S)
  BY DEF Rocks!Restrict, Heed!Restrict, Restrict
<1>4. \A e : Rocks!AppendEntries(s, e) = AppendEntries(s, e)
             /\ Heed!AppendEntries(s, e) = AppendEntries(s, e)
  BY <1>1, <1>2 DEF Rocks!AppendEntries, Heed!AppendEntries, AppendEntries
<1>5. \A snap : Rocks!ApplySnapshot(s, snap) = ApplySnapshot(s, snap)
                /\ Heed!ApplySnapshot(s, snap) = ApplySnapshot(s, snap)
  BY DEF Rocks!ApplySnapshot, Heed!ApplySnapshot, ApplySnapshot,
         Rocks!SnapshotHardState, Heed!SnapshotHardState, SnapshotHardState
<1>6. \A i : Rocks!Compact(s, i) = Compact(s, i) /\ Heed!Compact(s, i) = Compact(s, i)
  BY <1>3 DEF Rocks!Compact, Heed!Compact, Compact
<1> QED BY <1>4, <1>5, <1>6

LEMMA SameEffects ==
  ASSUME NEW s, NEW c, CallType(c)
  PROVE  /\ Rocks!Done(s, c) = Effect(s, c)
         /\ Heed!Done(s, c) = IF HeedCommits(c) THEN Effect(s, c) ELSE s
<1>1. CASE c.op = "append"
  BY <1>1, SameWrites DEF Rocks!Done, Heed!Done, Effect, HeedCommits
<1>2. CASE c.op = "set_hard_state"
  BY <1>2 DEF Rocks!Done, Heed!Done, Effect, HeedCommits,
              Rocks!SetHardState, Heed!SetHardState, SetHardState
<1>3. CASE c.op = "set_hard_state_commit"
  BY <1>3 DEF Rocks!Done, Heed!Done, Effect, HeedCommits,
              Rocks!SetHardStateCommit, Heed!SetHardStateCommit
<1>4. CASE c.op = "set_conf_state"
  BY <1>4 DEF Rocks!Done, Heed!Done, Effect, HeedCommits,
              Rocks!SetConfState, Heed!SetConfState, SetConfState
<1>5. CASE c.op = "create_snapshot"
  BY <1>5 DEF Rocks!Done, Heed!Done, Effect, HeedCommits,
              Rocks!CreateSnapshot, Heed!CreateSnapshot, CreateSnapshot
<1>6. CASE c.op = "apply_snapshot"
  BY <1>6, SameWrites DEF Rocks!Done, Heed!Done, Effect, HeedCommits
<1>7. CASE c.op = "compact"
  BY <1>7, SameWrites DEF Rocks!Done, Heed!Done, Effect, HeedCommits
<1> QED BY <1>1, <1>2, <1>3, <1>4, <1>5, <1>6, <1>7 DEF CallType

\* The store s once the entries of a batch below index k are in.
Upto(s, e, k) == [s EXCEPT !.entries = PutAll(@, Slice(e, 0, k - 1))]

\* The writes of an append from the put of entry k on.
AppendLeft(e, hi, last, k) ==
  [n \in 1 .. hi - k + 2 |->
     IF n <= hi - k + 1 THEN PutEntry([index |-> k + n - 1, term |-> e[k + n - 1].term])
     ELSE PutMeta("last_index", last)]

\* One put in the table of metadata, pending or made.
OnePut(s, v, writes, key, value, done) ==
  \/ v = s /\ writes = <<PutMeta(key, value)>>
  \/ v = done /\ writes = <<>>

Appending(s, e, v, writes) ==
  \/ v = AppendEntries(s, e) /\ writes = <<>>
  \/ \E lo \in Indices, hi \in Indices, t \in Nat, k \in Indices \cup {MaxIndex + 1} :
       /\ IsBatch(e, lo, hi, t) /\ lo <= hi /\ lo <= k /\ k <= hi + 1
       /\ v = Upto(s, e, k) /\ writes = AppendLeft(e, hi, Max({s.last} \cup DOMAIN e), k)

\* The stores between the puts of apply_snapshot.
Applied1(s, snap) == [s EXCEPT !.hs = SnapshotHardState(s, snap)]
Applied2(s, snap) == [Applied1(s, snap) EXCEPT !.conf = snap.conf]
Applied3(s, snap) == [Applied2(s, snap) EXCEPT !.last = snap.index]

Applying(s, snap, v, writes) ==
  LET put1 == PutMeta("hard_state", SnapshotHardState(s, snap))
      put2 == PutMeta("conf_state", snap.conf)
      put3 == PutMeta("last_index", snap.index)
      put4 == PutMeta("snapshot", snap)
  IN  \/ v = s /\ writes = <<put1, put2, put3, put4>>
      \/ v = Applied1(s, snap) /\ writes = <<put2, put3, put4>>
      \/ v = Applied2(s, snap) /\ writes = <<put3, put4>>
      \/ v = Applied3(s, snap) /\ writes = <<put4>>
      \/ v = ApplySnapshot(s, snap) /\ writes = <<>>

Compacting(s, index, v, writes) ==
  \/ v = Compact(s, index) /\ writes = <<>>
  \/ v = s /\ writes = <<DeleteBelow(Key(index))>>
  \/ v = s /\ \E f, g : /\ f.table = "file" /\ g.table = "file"
                        /\ writes \in {<<f, g, DeleteBelow(Key(index))>>, <<g, DeleteBelow(Key(index))>>}

\* A call that began with the store s has made it v, and has these writes left.
Progress(s, c, v, writes) ==
  /\ c.op = "append" => Appending(s, c.ents, v, writes)
  /\ c.op = "set_hard_state" => OnePut(s, v, writes, "hard_state", c.hs, Effect(s, c))
  /\ c.op = "set_hard_state_commit" =>
       OnePut(s, v, writes, "hard_state", [s.hs EXCEPT !.commit = c.commit], Effect(s, c))
  /\ c.op = "set_conf_state" => OnePut(s, v, writes, "conf_state", c.conf, Effect(s, c))
  /\ c.op = "create_snapshot" =>
       OnePut(s, v, writes, "snapshot", [c.snap EXCEPT !.conf = s.conf], Effect(s, c))
  /\ c.op = "apply_snapshot" => Applying(s, c.snap, v, writes)
  /\ c.op = "compact" => Compacting(s, c.index, v, writes)

LEMMA BatchFacts ==
  ASSUME NEW e, NEW lo \in Indices, NEW hi \in Indices, NEW t \in Nat, IsBatch(e, lo, hi, t), lo <= hi
  PROVE  /\ DOMAIN e = lo .. hi /\ \A i \in lo .. hi : e[i] = [term |-> t]
         /\ Min(DOMAIN e) = lo /\ Cardinality(DOMAIN e) = hi - lo + 1
<1>1. lo \in Nat /\ hi \in Nat /\ DOMAIN e = lo .. hi /\ \A i \in lo .. hi : e[i] = [term |-> t]
  BY StoragesAssumption DEF Indices, IsBatch
<1>2. Min(DOMAIN e) = lo
  BY <1>1 DEF Min
<1>3. Cardinality(DOMAIN e) = hi - lo + 1
  BY <1>1, FS_Interval
<1> QED BY <1>1, <1>2, <1>3

\* The fields of the record that tables stand for.
LEMMA ViewFields ==
  ASSUME NEW d
  PROVE  /\ View(d).last = Meta(d, "last_index", 0)
         /\ View(d).hs = Meta(d, "hard_state", DefaultHardState)
         /\ View(d).conf = Meta(d, "conf_state", 0)
         /\ View(d).snap = Meta(d, "snapshot", DefaultSnapshot)
BY DEF View

LEMMA UptoStart ==
  ASSUME NEW s, StoreType(s), NEW e, NEW lo \in Indices, NEW hi \in Indices, NEW t \in Nat,
         IsBatch(e, lo, hi, t), lo <= hi
  PROVE  Upto(s, e, lo) = s
<1>1. DOMAIN e = lo .. hi
  BY DEF IsBatch
<1>2. lo \in Nat /\ hi \in Nat
  BY StoragesAssumption DEF Indices
<1>3. {i \in DOMAIN e : 0 <= i /\ i <= lo - 1} = {}
  BY <1>1, <1>2
<1>4. DOMAIN Slice(e, 0, lo - 1) = {}
  BY <1>3 DEF Slice, Restrict
<1>5. PutAll(s.entries, Slice(e, 0, lo - 1)) = s.entries
  BY <1>4 DEF PutAll, StoreType
<1> QED BY <1>5 DEF Upto, StoreType

\* An append has all its writes left when it begins.
LEMMA AppendBegins ==
  ASSUME NEW d, NEW c, CallType(c), c.op = "append", StoreType(View(d))
  PROVE  /\ Progress(View(d), c, View(d), HeedAppend(d, c.ents))
         /\ HeedAppend(d, c.ents) = RocksAppend(d, c.ents)
<1> DEFINE s == View(d)
           e == c.ents
           last == Max({s.last} \cup DOMAIN e)
<1>1. HeedAppend(d, e) = RocksAppend(d, e)
  BY DEF HeedAppend, RocksAppend, HeedLastIndex, RocksLastIndex
<1>2. PICK lo \in Indices, hi \in 0 .. MaxIndex, t \in Nat : IsBatch(e, lo, hi, t)
  BY DEF CallType
<1>3. lo \in Nat /\ hi \in Nat /\ 1 <= lo /\ lo <= MaxIndex /\ hi <= MaxIndex /\ MaxIndex \in Nat
  BY StoragesAssumption, <1>2 DEF Indices
<1>4. CASE lo > hi
  <2>1. DOMAIN e = {}
    BY <1>2, <1>3, <1>4 DEF IsBatch
  <2>2. HeedAppend(d, e) = <<>> /\ AppendEntries(s, e) = s
    BY <2>1 DEF HeedAppend, AppendEntries
  <2> QED BY <1>1, <2>2 DEF Progress, Appending
<1>5. CASE lo <= hi
  <2>1. hi \in Indices
    BY <1>3, <1>5 DEF Indices
  <2>2. /\ DOMAIN e = lo .. hi /\ Min(DOMAIN e) = lo /\ Cardinality(DOMAIN e) = hi - lo + 1
        /\ DOMAIN e # {}
    <3>1. DOMAIN e = lo .. hi /\ Min(DOMAIN e) = lo /\ Cardinality(DOMAIN e) = hi - lo + 1
      <4> HIDE DEF e
      <4> QED BY <1>2, <1>5, <2>1, BatchFacts
    <3>2. lo .. hi # {}
      BY <1>3, <1>5
    <3> QED BY <3>1, <3>2
  <2>3. HeedLastIndex(d) = s.last
    BY ViewFields DEF HeedLastIndex
  <2> DEFINE puts == [n \in 1 .. hi - lo + 1 |-> PutEntry([index |-> lo + n - 1, term |-> e[lo + n - 1].term])]
             put == PutMeta("last_index", last)
             row(n) == PutEntry([index |-> lo + n - 1, term |-> e[lo + n - 1].term])
  <2>4. HeedAppend(d, e) = puts \o <<put>>
    BY <2>2, <2>3 DEF HeedAppend
  <2>5. puts \o <<put>> = [n \in 1 .. hi - lo + 2 |-> IF n <= hi - lo + 1 THEN row(n) ELSE put]
    <3> DEFINE m == hi - lo + 1
    <3>1. m \in Nat /\ hi - lo + 2 = m + 1
      BY <1>3, <1>5
    <3>2. puts = [n \in 1 .. m |-> row(n)]
      OBVIOUS
    <3> HIDE DEF puts, put, row, m
    <3> USE <3>1
    <3>3. puts \in Seq(Range(puts)) /\ Len(puts) = m
      BY <3>2 DEF Range
    <3>4. \A n \in 1 .. m : puts[n] = row(n)
      BY <3>2
    <3>5. puts \o <<put>> = [n \in 1 .. m + 1 |-> IF n <= m THEN puts[n] ELSE put]
      BY <3>3
    <3>6. [n \in 1 .. m + 1 |-> IF n <= m THEN puts[n] ELSE put]
            = [n \in 1 .. m + 1 |-> IF n <= m THEN row(n) ELSE put]
      BY <3>4
    <3> QED BY <3>5, <3>6 DEF m
  <2>6. HeedAppend(d, e) = AppendLeft(e, hi, last, lo)
    BY <2>4, <2>5 DEF AppendLeft
  <2>7. Upto(s, e, lo) = s
    BY <1>2, <1>5, <2>1, UptoStart
  <2>8. lo \in Indices \cup {MaxIndex + 1} /\ lo <= lo /\ lo <= hi + 1
    BY <1>2, <1>3, <1>5
  <2>9. Appending(s, e, s, HeedAppend(d, e))
    BY <1>2, <1>5, <2>1, <2>6, <2>7, <2>8 DEF Appending
  <2> QED BY <1>1, <2>9 DEF Progress
<1> QED BY <1>3, <1>4, <1>5

LEMMA HardStateOfSnapshot ==
  ASSUME NEW s, StoreType(s), NEW snap, SnapshotType(snap)
  PROVE  [s.hs EXCEPT !.term = Max({@, snap.term}), !.commit = snap.index]
           = SnapshotHardState(s, snap)
<1>1. s.hs.term \in Nat /\ snap.term \in Nat
  BY DEF StoreType, HardStateType, SnapshotType
<1>2. Max({s.hs.term, snap.term}) = IF s.hs.term < snap.term THEN snap.term ELSE s.hs.term
  <2>1. /\ Max({s.hs.term, snap.term}) \in {s.hs.term, snap.term}
        /\ s.hs.term <= Max({s.hs.term, snap.term}) /\ snap.term <= Max({s.hs.term, snap.term})
    BY <1>1, MaxOfTwo
  <2> QED BY <1>1, <2>1
<1> QED BY <1>2 DEF SnapshotHardState

\* A call has made nothing and has all its writes left when it begins.
LEMMA CallBegins ==
  ASSUME NEW d, NEW c, CallType(c), StoreType(View(d))
  PROVE  /\ \A file, threshold : Progress(View(d), c, View(d), HeedWrites(d, c, file, threshold))
         /\ Progress(View(d), c, View(d), RocksWrites(d, c))
<1> DEFINE s == View(d)
<1>0. /\ HeedHardState(d) = s.hs /\ RocksHardState(d) = s.hs
      /\ HeedConfState(d) = s.conf /\ RocksConfState(d) = s.conf
  BY ViewFields DEF HeedHardState, RocksHardState, HeedConfState, RocksConfState
<1> HIDE DEF s
<1>1. CASE c.op = "append"
  BY <1>1, AppendBegins DEF HeedWrites, RocksWrites, s
<1>2. CASE c.op = "set_hard_state"
  BY <1>2 DEF HeedWrites, RocksWrites, s, Progress, OnePut, HeedSetHardState, RocksSetHardState
<1>3. CASE c.op = "set_hard_state_commit"
  BY <1>0, <1>3 DEF HeedWrites, RocksWrites, s, Progress, OnePut,
                    HeedSetHardStateCommit, RocksSetHardStateCommit
<1>4. CASE c.op = "set_conf_state"
  BY <1>4 DEF HeedWrites, RocksWrites, s, Progress, OnePut, HeedSetConfState, RocksSetConfState
<1>5. CASE c.op = "create_snapshot"
  BY <1>0, <1>5 DEF HeedWrites, RocksWrites, s, Progress, OnePut,
                    HeedCreateSnapshot, RocksCreateSnapshot
<1>6. CASE c.op = "apply_snapshot"
  <2>1. SnapshotType(c.snap)
    BY <1>6 DEF CallType
  <2>2. [s.hs EXCEPT !.term = Max({@, c.snap.term}), !.commit = c.snap.index]
          = SnapshotHardState(s, c.snap)
    BY <2>1, HardStateOfSnapshot DEF s
  <2>3. /\ \A file, threshold : HeedWrites(d, c, file, threshold) = HeedApplySnapshot(d, c.snap)
        /\ RocksWrites(d, c) = RocksApplySnapshot(d, c.snap)
    BY <1>6 DEF HeedWrites, RocksWrites
  <2> DEFINE writes == <<PutMeta("hard_state", SnapshotHardState(s, c.snap)),
                         PutMeta("conf_state", c.snap.conf),
                         PutMeta("last_index", c.snap.index), PutMeta("snapshot", c.snap)>>
  <2>4. HeedApplySnapshot(d, c.snap) = writes /\ RocksApplySnapshot(d, c.snap) = writes
    BY <1>0, <2>2 DEF HeedApplySnapshot, RocksApplySnapshot
  <2>5. Applying(s, c.snap, s, writes)
    BY DEF Applying
  <2> HIDE DEF writes
  <2> QED BY <1>6, <2>3, <2>4, <2>5 DEF Progress, s
<1>7. CASE c.op = "compact"
  <2>1. RocksWrites(d, c) = <<DeleteBelow(Key(c.index))>>
    BY <1>7 DEF RocksWrites, RocksCompact
  <2>2. ASSUME NEW file, NEW threshold
        PROVE  \E f, g : /\ f.table = "file" /\ g.table = "file"
                         /\ HeedWrites(d, c, file, threshold) = <<f, g, DeleteBelow(Key(c.index))>>
    <3> DEFINE f == [table |-> "file", value |-> ArchiveCut(file, Doomed(d, c.index))]
               g == [table |-> "file",
                     value |-> SaveCompactedEntries(file, Doomed(d, c.index), threshold)]
    <3>1. HeedWrites(d, c, file, threshold) = <<f, g, DeleteBelow(Key(c.index))>>
      BY <1>7 DEF HeedWrites, HeedCompact
    <3>2. f.table = "file" /\ g.table = "file"
      OBVIOUS
    <3> HIDE DEF f, g
    <3> QED BY <3>1, <3>2
  <2>3. \A file, threshold : Compacting(s, c.index, s, HeedWrites(d, c, file, threshold))
    BY <2>2 DEF Compacting
  <2>4. Compacting(s, c.index, s, RocksWrites(d, c))
    BY <2>1 DEF Compacting
  <2> QED BY <1>7, <2>3, <2>4 DEF Progress, s
<1> QED BY <1>1, <1>2, <1>3, <1>4, <1>5, <1>6, <1>7 DEF CallType

-----------------------------------------------------------------------------
(* A write of a call *)

\* The store after the writes left but one, and what is left then.
Advances(s, c, d, writes) ==
  IF Head(writes).table = "file"
  THEN Progress(s, c, View(d), Tail(writes))
  ELSE /\ TableType(Written(d, Head(writes)))
       /\ Progress(s, c, View(Written(d, Head(writes))), Tail(writes))

LEMMA NotFiles ==
  /\ \A e : PutEntry(e).table = "log"
  /\ \A key, v : PutMeta(key, v).table = "meta"
  /\ \A key : DeleteBelow(key).table = "range"
BY DEF PutEntry, PutMeta, DeleteBelow

LEMMA UptoNext ==
  ASSUME NEW s, StoreType(s), NEW e, NEW lo \in Indices, NEW hi \in Indices, NEW t \in Nat,
         IsBatch(e, lo, hi, t), NEW k \in lo .. hi
  PROVE  [Upto(s, e, k) EXCEPT !.entries = Put(@, k, [term |-> t])] = Upto(s, e, k + 1)
<1>1. /\ DOMAIN e = lo .. hi /\ \A i \in lo .. hi : e[i] = [term |-> t]
      /\ lo \in Nat /\ hi \in Nat /\ k \in Nat /\ lo >= 1
  BY StoragesAssumption DEF IsBatch, Indices
<1> DEFINE f == s.entries
           a == Slice(e, 0, k - 1)
           b == Slice(e, 0, (k + 1) - 1)
<1>2. DOMAIN a = lo .. k - 1 /\ \A i \in lo .. k - 1 : a[i] = [term |-> t]
  BY <1>1 DEF Slice, Restrict
<1>3. DOMAIN b = lo .. k /\ \A i \in lo .. k : b[i] = [term |-> t]
  BY <1>1 DEF Slice, Restrict
<1>4. Put(PutAll(f, a), k, [term |-> t]) = PutAll(f, b)
  <2> HIDE DEF a, b, f
  <2>1. PutAll(f, a) = [i \in DOMAIN f \cup (lo .. k - 1) |-> IF i \in lo .. k - 1 THEN [term |-> t] ELSE f[i]]
    BY <1>2 DEF PutAll
  <2>2. PutAll(f, b) = [i \in DOMAIN f \cup (lo .. k) |-> IF i \in lo .. k THEN [term |-> t] ELSE f[i]]
    BY <1>3 DEF PutAll
  <2>3. lo .. k = (lo .. k - 1) \cup {k}
    BY <1>1
  <2> DEFINE g == PutAll(f, a)
  <2>4. Put(g, k, [term |-> t]) = [i \in DOMAIN g \cup {k} |-> IF i = k THEN [term |-> t] ELSE g[i]]
    BY DEF Put, PutAll
  <2>5. DOMAIN g = DOMAIN f \cup (lo .. k - 1)
        /\ \A i \in DOMAIN g : g[i] = IF i \in lo .. k - 1 THEN [term |-> t] ELSE f[i]
    BY <2>1
  <2> HIDE DEF g
  <2>6. Put(g, k, [term |-> t]) = PutAll(f, b)
    BY <2>2, <2>3, <2>4, <2>5
  <2> QED BY <2>6 DEF g
<1> HIDE DEF a, b, f
<1>5. s = [entries |-> f, last |-> s.last, hs |-> s.hs, conf |-> s.conf, snap |-> s.snap]
  BY DEF StoreType, f
<1>6. /\ Upto(s, e, k) = [s EXCEPT !.entries = PutAll(@, a)]
      /\ Upto(s, e, k + 1) = [s EXCEPT !.entries = PutAll(@, b)]
  BY DEF Upto, a, b
<1>7. /\ Upto(s, e, k) = [entries |-> PutAll(f, a), last |-> s.last, hs |-> s.hs, conf |-> s.conf, snap |-> s.snap]
      /\ Upto(s, e, k + 1) = [entries |-> PutAll(f, b), last |-> s.last, hs |-> s.hs, conf |-> s.conf, snap |-> s.snap]
  BY <1>5, <1>6
<1> QED BY <1>4, <1>7

\* A put of an entry or of the last index in an append.
LEMMA AppendAdvances ==
  ASSUME KeysOrdered, NEW d, TableType(d), NEW s, StoreType(s), NEW c, CallType(c),
         c.op = "append", NEW writes, writes # <<>>, Progress(s, c, View(d), writes)
  PROVE  Advances(s, c, d, writes)
<1> DEFINE e == c.ents
           last == Max({s.last} \cup DOMAIN e)
<1>1. PICK lo \in Indices, hi \in Indices, t \in Nat, k \in Indices \cup {MaxIndex + 1} :
           /\ IsBatch(e, lo, hi, t) /\ lo <= hi /\ lo <= k /\ k <= hi + 1
           /\ View(d) = Upto(s, e, k) /\ writes = AppendLeft(e, hi, last, k)
  BY DEF Progress, Appending
<1>2. /\ DOMAIN e = lo .. hi /\ \A i \in lo .. hi : e[i] = [term |-> t]
      /\ lo \in Nat /\ hi \in Nat /\ k \in Nat /\ MaxIndex \in Nat /\ lo >= 1 /\ hi <= MaxIndex
  BY <1>1, StoragesAssumption DEF IsBatch, Indices
<1> HIDE DEF e, last
<1>3. CASE k <= hi
  <2> DEFINE put == PutEntry([index |-> k, term |-> e[k].term])
  <2>1. Head(writes) = put
    <3>1. 1 \in 1 .. hi - k + 2 /\ 1 <= hi - k + 1 /\ k + 1 - 1 = k /\ hi - k + 2 \in Nat
      BY <1>2, <1>3
    <3>2. writes[1] = put
      BY <1>1, <3>1 DEF AppendLeft
    <3> QED BY <3>2
  <2>2. Tail(writes) = AppendLeft(e, hi, last, k + 1)
    <3> DEFINE row(n) == IF n <= hi - k + 1 THEN PutEntry([index |-> k + n - 1, term |-> e[k + n - 1].term])
                         ELSE PutMeta("last_index", last)
    <3>1. writes = [n \in 1 .. hi - k + 2 |-> row(n)] /\ hi - k + 2 \in Nat
      BY <1>1, <1>2, <1>3 DEF AppendLeft
    <3> HIDE DEF row
    <3>2. Len(writes) = hi - k + 2 /\ \A n \in 1 .. hi - k + 2 : writes[n] = row(n)
      BY <3>1
    <3>3. Tail(writes) = [n \in 1 .. (hi - k + 2) - 1 |-> row(n + 1)]
      BY <1>2, <1>3, <3>1
    <3>4. (hi - k + 2) - 1 = hi - (k + 1) + 2
      BY <1>2
    <3>5. \A n \in 1 .. hi - (k + 1) + 2 :
            row(n + 1) = IF n <= hi - (k + 1) + 1
                         THEN PutEntry([index |-> (k + 1) + n - 1, term |-> e[(k + 1) + n - 1].term])
                         ELSE PutMeta("last_index", last)
      <4> TAKE n \in 1 .. hi - (k + 1) + 2
      <4>1. (n + 1 <= hi - k + 1 <=> n <= hi - (k + 1) + 1) /\ k + (n + 1) - 1 = (k + 1) + n - 1
        BY <1>2
      <4> QED BY <4>1 DEF row
    <3> QED BY <3>3, <3>4, <3>5 DEF AppendLeft
  <2>3. k \in lo .. hi /\ k \in Indices /\ e[k].term = t
    BY <1>1, <1>2, <1>3 DEF Indices
  <2> DEFINE x == Written(d, Head(writes))
  <2>4. TableType(x) /\ View(x) = [View(d) EXCEPT !.entries = Put(@, k, [term |-> t])]
    <3>1. x = Written(d, PutEntry([index |-> k, term |-> t]))
      BY <2>1, <2>3
    <3> HIDE DEF x
    <3> QED BY <2>3, <3>1, PutEntryView
  <2>5. View(x) = Upto(s, e, k + 1)
    <3> HIDE DEF x
    <3> QED BY <1>1, <2>3, <2>4, UptoNext
  <2>6. k + 1 \in Indices \cup {MaxIndex + 1} /\ lo <= k + 1 /\ k + 1 <= hi + 1
    BY <1>1, <1>2, <1>3 DEF Indices
  <2>7. Appending(s, e, View(x), Tail(writes))
    <3> HIDE DEF x
    <3> QED BY <1>1, <2>2, <2>5, <2>6 DEF Appending, last
  <2>8. Head(writes).table # "file"
    BY <2>1, NotFiles
  <2> QED BY <2>4, <2>7, <2>8 DEF Advances, Progress, e
<1>4. CASE k = hi + 1
  <2>1. writes = <<PutMeta("last_index", last)>>
    <3>1. hi - k + 2 = 1 /\ hi - k + 1 = 0
      BY <1>2, <1>4
    <3>2. AppendLeft(e, hi, last, k) = [n \in 1 .. 1 |-> PutMeta("last_index", last)]
      BY <3>1 DEF AppendLeft
    <3> QED BY <1>1, <3>2
  <2>2. Head(writes) = PutMeta("last_index", last) /\ Tail(writes) = <<>>
    BY <2>1
  <2> DEFINE x == Written(d, Head(writes))
  <2>3. TableType(x) /\ View(x) = [View(d) EXCEPT !.last = last]
    <3>1. x = Written(d, PutMeta("last_index", last))
      BY <2>2
    <3> HIDE DEF x
    <3>2. TableType(x) /\ View(x) = MetaPut(View(d), "last_index", last)
      BY <3>1, PutMetaView
    <3> QED BY <3>2 DEF MetaPut
  <2>4. Slice(e, 0, k - 1) = e
    <3>1. {i \in DOMAIN e : 0 <= i /\ i <= k - 1} = DOMAIN e
      BY <1>2, <1>4
    <3>2. e = [i \in DOMAIN e |-> e[i]]
      BY <1>1 DEF IsBatch
    <3> QED BY <3>1, <3>2 DEF Slice, Restrict
  <2>5. View(x) = AppendEntries(s, e)
    <3>1. lo \in DOMAIN e
      BY <1>1, <1>2
    <3>2. View(d) = [s EXCEPT !.entries = PutAll(@, e)]
      BY <1>1, <2>4 DEF Upto
    <3>3. AppendEntries(s, e) = [s EXCEPT !.entries = PutAll(@, e), !.last = last]
      BY <3>1 DEF AppendEntries, last
    <3> HIDE DEF x
    <3> QED BY <2>3, <3>2, <3>3 DEF StoreType
  <2>6. Appending(s, e, View(x), Tail(writes))
    BY <2>2, <2>5 DEF Appending
  <2>7. Head(writes).table # "file"
    BY <2>2, NotFiles
  <2> QED BY <2>3, <2>6, <2>7 DEF Advances, Progress, e
<1> QED BY <1>1, <1>2, <1>3, <1>4

\* The put of a call that makes one put in the table of metadata.
LEMMA OnePutAdvances ==
  ASSUME KeysOrdered, NEW d, TableType(d), NEW s, NEW writes, writes # <<>>, NEW key, NEW v,
         NEW done, OnePut(s, View(d), writes, key, v, done),
         key \in {"last_index", "hard_state", "conf_state", "snapshot"},
         NEW x, x = Written(d, Head(writes))
  PROVE  /\ Head(writes).table = "meta" /\ Tail(writes) = <<>>
         /\ TableType(x) /\ View(x) = MetaPut(s, key, v)
<1>1. View(d) = s /\ writes = <<PutMeta(key, v)>>
  BY DEF OnePut
<1>2. Head(writes) = PutMeta(key, v) /\ Tail(writes) = <<>>
  BY <1>1
<1>3. x = Written(d, PutMeta(key, v)) /\ Head(writes).table = "meta"
  BY <1>2, NotFiles
<1> QED BY <1>1, <1>2, <1>3, PutMetaView

LEMMA MetadataAdvances ==
  ASSUME KeysOrdered, NEW d, TableType(d), NEW s, StoreType(s), NEW c, CallType(c),
         c.op \in {"set_hard_state", "set_hard_state_commit", "set_conf_state", "create_snapshot"},
         NEW writes, writes # <<>>, Progress(s, c, View(d), writes)
  PROVE  Advances(s, c, d, writes)
<1> DEFINE x == Written(d, Head(writes))
<1>0. ASSUME NEW key \in {"last_index", "hard_state", "conf_state", "snapshot"}, NEW v,
             OnePut(s, View(d), writes, key, v, Effect(s, c)),
             MetaPut(s, key, v) = Effect(s, c)
      PROVE  /\ TableType(x) /\ Head(writes).table # "file"
             /\ OnePut(s, View(x), Tail(writes), key, v, Effect(s, c))
  <2>1. /\ Head(writes).table = "meta" /\ Tail(writes) = <<>>
        /\ TableType(x) /\ View(x) = MetaPut(s, key, v)
    <3> HIDE DEF x
    <3>1. x = Written(d, Head(writes))
      BY DEF x
    <3> QED BY <1>0, <3>1, OnePutAdvances
  <2> QED BY <1>0, <2>1 DEF OnePut
<1>1. CASE c.op = "set_hard_state"
  <2>1. MetaPut(s, "hard_state", c.hs) = Effect(s, c)
    BY <1>1 DEF MetaPut, Effect, SetHardState
  <2>2. OnePut(s, View(d), writes, "hard_state", c.hs, Effect(s, c))
    BY <1>1 DEF Progress
  <2> QED BY <1>0, <1>1, <2>1, <2>2 DEF Advances, Progress
<1>2. CASE c.op = "set_hard_state_commit"
  <2>1. MetaPut(s, "hard_state", [s.hs EXCEPT !.commit = c.commit]) = Effect(s, c)
    BY <1>2 DEF MetaPut, Effect
  <2>2. OnePut(s, View(d), writes, "hard_state", [s.hs EXCEPT !.commit = c.commit], Effect(s, c))
    BY <1>2 DEF Progress
  <2> QED BY <1>0, <1>2, <2>1, <2>2 DEF Advances, Progress
<1>3. CASE c.op = "set_conf_state"
  <2>1. MetaPut(s, "conf_state", c.conf) = Effect(s, c)
    BY <1>3 DEF MetaPut, Effect, SetConfState
  <2>2. OnePut(s, View(d), writes, "conf_state", c.conf, Effect(s, c))
    BY <1>3 DEF Progress
  <2> QED BY <1>0, <1>3, <2>1, <2>2 DEF Advances, Progress
<1>4. CASE c.op = "create_snapshot"
  <2>0. c.snap = [index |-> c.snap.index, term |-> c.snap.term, data |-> c.snap.data,
                  conf |-> c.snap.conf]
    BY <1>4 DEF CallType, SnapshotType
  <2>1. MetaPut(s, "snapshot", [c.snap EXCEPT !.conf = s.conf]) = Effect(s, c)
    BY <1>4, <2>0 DEF MetaPut, Effect, CreateSnapshot
  <2>2. OnePut(s, View(d), writes, "snapshot", [c.snap EXCEPT !.conf = s.conf], Effect(s, c))
    BY <1>4 DEF Progress
  <2> QED BY <1>0, <1>4, <2>1, <2>2 DEF Advances, Progress
<1> QED BY <1>1, <1>2, <1>3, <1>4

LEMMA SnapshotAdvances ==
  ASSUME KeysOrdered, NEW d, TableType(d), NEW s, StoreType(s), NEW c, CallType(c),
         c.op = "apply_snapshot", NEW writes, writes # <<>>, Progress(s, c, View(d), writes)
  PROVE  Advances(s, c, d, writes)
<1> DEFINE snap == c.snap
           x == Written(d, Head(writes))
           put1 == PutMeta("hard_state", SnapshotHardState(s, snap))
           put2 == PutMeta("conf_state", snap.conf)
           put3 == PutMeta("last_index", snap.index)
           put4 == PutMeta("snapshot", snap)
<1>0. Applying(s, snap, View(d), writes)
  BY DEF Progress
<1>1. ASSUME NEW key \in {"last_index", "hard_state", "conf_state", "snapshot"}, NEW v, NEW rest,
             Head(writes) = PutMeta(key, v), Tail(writes) = rest,
             Applying(s, snap, MetaPut(View(d), key, v), rest)
      PROVE  Advances(s, c, d, writes)
  <2>1. x = Written(d, PutMeta(key, v)) /\ Head(writes).table # "file"
    BY <1>1, NotFiles
  <2> HIDE DEF x
  <2>2. TableType(x) /\ View(x) = MetaPut(View(d), key, v)
    BY <2>1, PutMetaView
  <2>3. Applying(s, snap, View(x), Tail(writes))
    BY <1>1, <2>2
  <2> QED BY <2>1, <2>2, <2>3 DEF Advances, Progress, x
<1>2. CASE View(d) = s /\ writes = <<put1, put2, put3, put4>>
  <2> HIDE DEF put1, put2, put3, put4
  <2>1. Head(writes) = put1 /\ Tail(writes) = <<put2, put3, put4>>
    BY <1>2
  <2>2. MetaPut(View(d), "hard_state", SnapshotHardState(s, snap)) = Applied1(s, snap)
    BY <1>2 DEF MetaPut, Applied1
  <2>3. Applying(s, snap, Applied1(s, snap), <<put2, put3, put4>>)
    BY DEF Applying, put2, put3, put4
  <2> QED BY <1>1, <2>1, <2>2, <2>3 DEF put1
<1>3. CASE View(d) = Applied1(s, snap) /\ writes = <<put2, put3, put4>>
  <2> HIDE DEF put1, put2, put3, put4
  <2>1. Head(writes) = put2 /\ Tail(writes) = <<put3, put4>>
    BY <1>3
  <2>2. MetaPut(View(d), "conf_state", snap.conf) = Applied2(s, snap)
    BY <1>3 DEF MetaPut, Applied2
  <2>3. Applying(s, snap, Applied2(s, snap), <<put3, put4>>)
    BY DEF Applying, put3, put4
  <2> QED BY <1>1, <2>1, <2>2, <2>3 DEF put2
<1>4. CASE View(d) = Applied2(s, snap) /\ writes = <<put3, put4>>
  <2> HIDE DEF put1, put2, put3, put4
  <2>1. Head(writes) = put3 /\ Tail(writes) = <<put4>>
    BY <1>4
  <2>2. MetaPut(View(d), "last_index", snap.index) = Applied3(s, snap)
    BY <1>4 DEF MetaPut, Applied3
  <2>3. Applying(s, snap, Applied3(s, snap), <<put4>>)
    BY DEF Applying, put4
  <2> QED BY <1>1, <2>1, <2>2, <2>3 DEF put3
<1>5. CASE View(d) = Applied3(s, snap) /\ writes = <<put4>>
  <2> HIDE DEF put1, put2, put3, put4
  <2>1. Head(writes) = put4 /\ Tail(writes) = <<>>
    BY <1>5
  <2>2. MetaPut(View(d), "snapshot", snap) = [Applied3(s, snap) EXCEPT !.snap = snap]
    BY <1>5 DEF MetaPut
  <2>3. [Applied3(s, snap) EXCEPT !.snap = snap] = ApplySnapshot(s, snap)
    BY DEF Applied1, Applied2, Applied3, ApplySnapshot, StoreType
  <2>4. Applying(s, snap, ApplySnapshot(s, snap), <<>>)
    BY DEF Applying
  <2> QED BY <1>1, <2>1, <2>2, <2>3, <2>4 DEF put4
<1> QED BY <1>0, <1>2, <1>3, <1>4, <1>5 DEF Applying

LEMMA CompactAdvances ==
  ASSUME KeysOrdered, NEW d, TableType(d), NEW s, StoreType(s), NEW c, CallType(c),
         c.op = "compact", NEW writes, writes # <<>>, Progress(s, c, View(d), writes)
  PROVE  Advances(s, c, d, writes)
<1> DEFINE last == DeleteBelow(Key(c.index))
           x == Written(d, Head(writes))
<1>0. Compacting(s, c.index, View(d), writes) /\ c.index \in Indices
  BY DEF Progress, CallType
<1>1. CASE View(d) = s /\ writes = <<last>>
  <2>1. Head(writes) = last /\ Tail(writes) = <<>>
    BY <1>1
  <2>2. x = Written(d, DeleteBelow(Key(c.index))) /\ Head(writes).table # "file"
    BY <2>1, NotFiles
  <2> HIDE DEF x
  <2>3. TableType(x) /\ View(x) = Compact(s, c.index)
    BY <1>0, <1>1, <2>2, DeleteBelowView
  <2>4. Compacting(s, c.index, View(x), Tail(writes))
    BY <2>1, <2>3 DEF Compacting
  <2> QED BY <2>2, <2>3, <2>4 DEF Advances, Progress, x
<1>2. ASSUME NEW f, NEW g, f.table = "file", g.table = "file", View(d) = s,
             writes \in {<<f, g, last>>, <<g, last>>}
      PROVE  Advances(s, c, d, writes)
  <2> HIDE DEF last
  <2>1. CASE writes = <<f, g, last>>
    <3>1. Head(writes).table = "file" /\ Tail(writes) = <<g, last>>
      BY <1>2, <2>1
    <3>2. Compacting(s, c.index, View(d), Tail(writes))
      BY <1>2, <3>1 DEF Compacting, last
    <3> QED BY <3>1, <3>2 DEF Advances, Progress
  <2>2. CASE writes = <<g, last>>
    <3>1. Head(writes).table = "file" /\ Tail(writes) = <<last>>
      BY <1>2, <2>2
    <3>2. Compacting(s, c.index, View(d), Tail(writes))
      BY <1>2, <3>1 DEF Compacting, last
    <3> QED BY <3>1, <3>2 DEF Advances, Progress
  <2> QED BY <1>2, <2>1, <2>2
<1> QED BY <1>0, <1>1, <1>2 DEF Compacting

\* The next write of a call, whatever the call.
LEMMA CallAdvances ==
  ASSUME KeysOrdered, NEW d, TableType(d), NEW s, StoreType(s), NEW c, CallType(c),
         NEW writes, writes # <<>>, Progress(s, c, View(d), writes)
  PROVE  Advances(s, c, d, writes)
BY AppendAdvances, MetadataAdvances, SnapshotAdvances, CompactAdvances DEF CallType

-----------------------------------------------------------------------------
(* Where a call may end *)

LEMMA CallEnds ==
  ASSUME NEW s, NEW c, CallType(c), NEW v, Progress(s, c, v, <<>>)
  PROVE  v = Effect(s, c)
<1>1. CASE c.op = "append"
  <2>1. ASSUME NEW lo \in Indices, NEW hi \in Indices, NEW last, NEW k \in Indices \cup {MaxIndex + 1},
               k <= hi + 1
        PROVE  AppendLeft(c.ents, hi, last, k) # <<>>
    <3>1. 1 \in 1 .. hi - k + 2
      BY <2>1, StoragesAssumption DEF Indices
    <3>2. 1 \in DOMAIN AppendLeft(c.ents, hi, last, k)
      BY <3>1 DEF AppendLeft
    <3> QED BY <3>2
  <2>2. Appending(s, c.ents, v, <<>>)
    BY <1>1 DEF Progress
  <2> QED BY <1>1, <2>1, <2>2 DEF Appending, Effect
<1>2. CASE c.op \in {"set_hard_state", "set_hard_state_commit", "set_conf_state", "create_snapshot"}
  BY <1>2 DEF Progress, OnePut
<1>3. CASE c.op = "apply_snapshot"
  BY <1>3 DEF Progress, Applying, Effect
<1>4. CASE c.op = "compact"
  BY <1>4 DEF Progress, Compacting, Effect
<1> QED BY <1>1, <1>2, <1>3, <1>4 DEF CallType

LEMMA CallCut ==
  ASSUME NEW s, StoreType(s), NEW c, CallType(c), NEW v, NEW writes, Progress(s, c, v, writes)
  PROVE  v \in {s, Effect(s, c)} \cup Rocks!Torn(s, c)
<1>1. CASE c.op = "append"
  <2> DEFINE e == c.ents
  <2>1. Appending(s, e, v, writes)
    BY <1>1 DEF Progress
  <2>2. ASSUME NEW lo \in Indices, NEW hi \in Indices, NEW t \in Nat,
               NEW k \in Indices \cup {MaxIndex + 1},
               IsBatch(e, lo, hi, t), lo <= hi, lo <= k, k <= hi + 1, v = Upto(s, e, k)
        PROVE  v = s \/ v \in Rocks!Torn(s, c)
    <3>1. CASE k = lo
      BY <2>2, <3>1, UptoStart
    <3>2. CASE k # lo
      <4>1. k - 1 \in DOMAIN e
        BY <2>2, <3>2, StoragesAssumption DEF IsBatch, Indices
      <4>2. Rocks!Slice(e, 0, k - 1) = Slice(e, 0, k - 1)
        BY DEF Rocks!Slice, Slice, Rocks!Restrict, Restrict
      <4>3. \A g, f : Rocks!PutAll(g, f) = PutAll(g, f)
        BY DEF Rocks!PutAll, PutAll
      <4>4. v = [s EXCEPT !.entries = Rocks!PutAll(@, Rocks!Slice(e, 0, k - 1))]
        BY <2>2, <4>2, <4>3 DEF Upto
      <4>5. v \in Rocks!AppendTorn(s, e)
        BY <4>1, <4>4 DEF Rocks!AppendTorn
      <4> QED BY <1>1, <4>5 DEF Rocks!Torn
    <3> QED BY <3>1, <3>2
  <2> QED BY <1>1, <2>1, <2>2 DEF Appending, Effect
<1>2. CASE c.op \in {"set_hard_state", "set_hard_state_commit", "set_conf_state", "create_snapshot"}
  BY <1>2 DEF Progress, OnePut
<1>3. CASE c.op = "apply_snapshot"
  <2> DEFINE snap == c.snap
  <2>1. Rocks!SnapshotHardState(s, snap) = SnapshotHardState(s, snap)
    BY DEF Rocks!SnapshotHardState, SnapshotHardState
  <2>2. Rocks!Torn(s, c) = {Applied1(s, snap), Applied2(s, snap), Applied3(s, snap)}
    BY <1>3, <2>1 DEF Rocks!Torn, Rocks!ApplySnapshotTorn, Applied1, Applied2, Applied3
  <2> QED BY <1>3, <2>2 DEF Progress, Applying, Effect
<1>4. CASE c.op = "compact"
  BY <1>4 DEF Progress, Compacting, Effect
<1> QED BY <1>1, <1>2, <1>3, <1>4 DEF CallType

LEMMA UptoTyped ==
  ASSUME NEW s, StoreType(s), NEW e, NEW lo \in Indices, NEW hi \in Indices, NEW t \in Nat,
         IsBatch(e, lo, hi, t), NEW k
  PROVE  StoreType(Upto(s, e, k))
<1> DEFINE b == Slice(e, 0, k - 1)
           g == PutAll(s.entries, b)
<1>1. DOMAIN b \subseteq Indices /\ \A i \in DOMAIN b : b[i].term \in Nat
  BY StoragesAssumption DEF Slice, Restrict, IsBatch, Indices
<1> HIDE DEF b
<1>2. /\ DOMAIN g \subseteq Indices /\ g = [i \in DOMAIN g |-> g[i]]
      /\ \A i \in DOMAIN g : g[i].term \in Nat
  BY <1>1 DEF StoreType, PutAll
<1>3. Upto(s, e, k) = [entries |-> g, last |-> s.last, hs |-> s.hs, conf |-> s.conf, snap |-> s.snap]
  BY DEF Upto, StoreType, b
<1> HIDE DEF g
<1> QED BY <1>2, <1>3 DEF StoreType

LEMMA AppendTyped ==
  ASSUME NEW s, StoreType(s), NEW e, NEW lo \in Indices, NEW hi \in 0 .. MaxIndex, NEW t \in Nat,
         IsBatch(e, lo, hi, t)
  PROVE  StoreType(AppendEntries(s, e))
<1>1. CASE DOMAIN e = {}
  BY <1>1 DEF AppendEntries
<1>2. CASE DOMAIN e # {}
  <2> DEFINE g == PutAll(s.entries, e)
             last == Max({s.last} \cup DOMAIN e)
  <2>1. DOMAIN e \subseteq Indices /\ (\A i \in DOMAIN e : e[i].term \in Nat)
    BY StoragesAssumption DEF IsBatch, Indices
  <2>2. /\ DOMAIN g \subseteq Indices /\ g = [i \in DOMAIN g |-> g[i]]
        /\ \A i \in DOMAIN g : g[i].term \in Nat
    BY <2>1 DEF StoreType, PutAll
  <2>3. last \in 0 .. MaxIndex
    <3> DEFINE S == {s.last} \cup DOMAIN e
    <3>1. S \in SUBSET (0 .. MaxIndex) /\ S # {} /\ MaxIndex \in Nat
      BY <2>1, StoragesAssumption DEF StoreType, Indices
    <3> HIDE DEF S
    <3>2. Max(S) \in S
      BY <3>1, BoundedMax
    <3> QED BY <3>1, <3>2 DEF S
  <2>4. AppendEntries(s, e)
          = [entries |-> g, last |-> last, hs |-> s.hs, conf |-> s.conf, snap |-> s.snap]
    BY <1>2 DEF AppendEntries, StoreType
  <2> HIDE DEF g, last
  <2> QED BY <2>2, <2>3, <2>4 DEF StoreType
<1> QED BY <1>1, <1>2

LEMMA CompactTyped ==
  ASSUME NEW s, StoreType(s), NEW n
  PROVE  StoreType(Compact(s, n))
<1> DEFINE g == Restrict(s.entries, {i \in DOMAIN s.entries : i >= n})
<1>1. /\ DOMAIN g \subseteq Indices /\ g = [i \in DOMAIN g |-> g[i]]
      /\ \A i \in DOMAIN g : g[i].term \in Nat
  BY DEF StoreType, Restrict
<1>2. Compact(s, n) = [entries |-> g, last |-> s.last, hs |-> s.hs, conf |-> s.conf, snap |-> s.snap]
  BY DEF Compact, StoreType
<1> HIDE DEF g
<1> QED BY <1>1, <1>2 DEF StoreType

LEMMA SnapshotTyped ==
  ASSUME NEW s, StoreType(s), NEW snap, SnapshotType(snap)
  PROVE  /\ StoreType(Applied1(s, snap)) /\ StoreType(Applied2(s, snap))
         /\ StoreType(Applied3(s, snap)) /\ StoreType(ApplySnapshot(s, snap))
<1> DEFINE hs == SnapshotHardState(s, snap)
<1>1. hs \in HardStateType
  BY DEF StoreType, HardStateType, SnapshotType, SnapshotHardState
<1>2. /\ Applied1(s, snap) = [entries |-> s.entries, last |-> s.last, hs |-> hs, conf |-> s.conf, snap |-> s.snap]
      /\ Applied2(s, snap) = [entries |-> s.entries, last |-> s.last, hs |-> hs, conf |-> snap.conf, snap |-> s.snap]
      /\ Applied3(s, snap) = [entries |-> s.entries, last |-> snap.index, hs |-> hs, conf |-> snap.conf, snap |-> s.snap]
      /\ ApplySnapshot(s, snap) = [entries |-> s.entries, last |-> snap.index, hs |-> hs, conf |-> snap.conf, snap |-> snap]
  <2>0. s = [entries |-> s.entries, last |-> s.last, hs |-> s.hs, conf |-> s.conf, snap |-> s.snap]
    BY DEF StoreType
  <2> HIDE DEF hs
  <2>1. Applied1(s, snap) = [entries |-> s.entries, last |-> s.last, hs |-> hs, conf |-> s.conf, snap |-> s.snap]
    BY <2>0 DEF Applied1, hs
  <2>2. Applied2(s, snap) = [entries |-> s.entries, last |-> s.last, hs |-> hs, conf |-> snap.conf, snap |-> s.snap]
    BY <2>1 DEF Applied2
  <2>3. Applied3(s, snap) = [entries |-> s.entries, last |-> snap.index, hs |-> hs, conf |-> snap.conf, snap |-> s.snap]
    BY <2>2 DEF Applied3
  <2>4. ApplySnapshot(s, snap) = [entries |-> s.entries, last |-> snap.index, hs |-> hs, conf |-> snap.conf, snap |-> snap]
    <3>1. [Applied3(s, snap) EXCEPT !.snap = snap] = ApplySnapshot(s, snap)
      BY DEF Applied1, Applied2, Applied3, ApplySnapshot, StoreType
    <3> QED BY <2>3, <3>1
  <2> QED BY <2>1, <2>2, <2>3, <2>4
<1>3. snap.conf \in Nat /\ snap.index \in 0 .. MaxIndex
  BY DEF SnapshotType
<1> HIDE DEF hs
<1> QED BY <1>1, <1>2, <1>3 DEF StoreType

\* The store stays well formed, write after write.
LEMMA ProgressTyped ==
  ASSUME NEW s, StoreType(s), NEW c, CallType(c), NEW v, NEW writes, Progress(s, c, v, writes)
  PROVE  StoreType(v)
<1>1. CASE c.op = "append"
  <2>1. PICK lo \in Indices, hi \in 0 .. MaxIndex, t \in Nat : IsBatch(c.ents, lo, hi, t)
    BY <1>1 DEF CallType
  <2>2. StoreType(AppendEntries(s, c.ents))
    BY <2>1, AppendTyped
  <2>3. Appending(s, c.ents, v, writes)
    BY <1>1 DEF Progress
  <2>4. v = AppendEntries(s, c.ents)
        \/ \E i, j \in Indices, u \in Nat : \E k : IsBatch(c.ents, i, j, u) /\ v = Upto(s, c.ents, k)
    BY <2>3 DEF Appending
  <2> QED BY <2>2, <2>4, UptoTyped
<1>2. CASE c.op = "set_hard_state"
  <2>1. StoreType([s EXCEPT !.hs = c.hs])
    BY <1>2 DEF CallType, StoreType
  <2> QED BY <1>2, <2>1 DEF Progress, OnePut, Effect, SetHardState
<1>3. CASE c.op = "set_hard_state_commit"
  <2>1. [s.hs EXCEPT !.commit = c.commit] \in HardStateType
    BY <1>3 DEF CallType, StoreType, HardStateType
  <2>2. [s EXCEPT !.hs.commit = c.commit] = [s EXCEPT !.hs = [s.hs EXCEPT !.commit = c.commit]]
    OBVIOUS
  <2>3. StoreType([s EXCEPT !.hs = [s.hs EXCEPT !.commit = c.commit]])
    BY <2>1 DEF StoreType
  <2> QED BY <1>3, <2>2, <2>3 DEF Progress, OnePut, Effect
<1>4. CASE c.op = "set_conf_state"
  <2>1. StoreType([s EXCEPT !.conf = c.conf])
    BY <1>4 DEF CallType, StoreType
  <2> QED BY <1>4, <2>1 DEF Progress, OnePut, Effect, SetConfState
<1>5. CASE c.op = "create_snapshot"
  <2> DEFINE snap == [index |-> c.snap.index, term |-> c.snap.term, data |-> c.snap.data, conf |-> s.conf]
  <2>1. SnapshotType(snap)
    BY <1>5 DEF CallType, StoreType, SnapshotType
  <2>2. StoreType([s EXCEPT !.snap = snap])
    <3> HIDE DEF snap
    <3> QED BY <2>1 DEF StoreType
  <2> QED BY <1>5, <2>2 DEF Progress, OnePut, Effect, CreateSnapshot
<1>6. CASE c.op = "apply_snapshot"
  BY <1>6, SnapshotTyped DEF Progress, Applying, CallType
<1>7. CASE c.op = "compact"
  BY <1>7, CompactTyped DEF Progress, Compacting
<1> QED BY <1>1, <1>2, <1>3, <1>4, <1>5, <1>6, <1>7 DEF CallType

-----------------------------------------------------------------------------
(* The invariant and the two refinements *)

\* The tables are well formed, between two writes too; while a call runs, what
\* it began with and what it has made of it are known.
CallInv ==
  /\ engine \in {"heed", "rocksdb"}
  /\ TableType(db) /\ StoreType(View(db))
  /\ call = Idle => todo = <<>>
  /\ call # Idle =>
       /\ StoreType(View(before)) /\ call \in Heed!Calls(View(before))
       /\ engine = "heed" =>
            db = before /\ TableType(txn) /\ Progress(View(before), call, View(txn), todo)
       /\ engine = "rocksdb" => Progress(View(before), call, View(db), todo)

LEMMA EmptyView ==
  TableType(EmptyTables) /\ View(EmptyTables) = EmptyStore /\ StoreType(EmptyStore)
<1>1. DOMAIN EmptyTables.log = {} /\ EmptyTables.log = <<>> /\ EmptyTables.meta = <<>>
  BY DEF EmptyTables
<1>2. <<>> = [k \in DOMAIN <<>> |-> <<>>[k]]
  OBVIOUS
<1>3. TableType(EmptyTables)
  BY <1>1, <1>2 DEF TableType, EmptyTables
<1>4. \A key, default : Meta(EmptyTables, key, default) = default
  BY <1>1 DEF Meta
<1>5. View(EmptyTables) = EmptyStore
  <2> DEFINE held == {EmptyTables.log[k].index : k \in DOMAIN EmptyTables.log}
             row(i) == EmptyTables.log[CHOOSE k \in DOMAIN EmptyTables.log : EmptyTables.log[k].index = i]
  <2>1. held = {}
    BY <1>1
  <2>2. [i \in held |-> [term |-> row(i).term]] = <<>>
    <3> DEFINE g == [i \in held |-> [term |-> row(i).term]]
    <3>1. DOMAIN g = {} /\ g = [i \in DOMAIN g |-> g[i]]
      BY <2>1
    <3>2. DOMAIN <<>> = {}
      OBVIOUS
    <3> HIDE DEF g
    <3>3. g = <<>>
      BY <1>2, <3>1, <3>2
    <3> QED BY <3>3 DEF g
  <2> QED BY <1>4, <2>2 DEF View, EmptyStore
<1>6. StoreType(EmptyStore)
  BY <1>2, StoragesAssumption DEF StoreType, EmptyStore, DefaultHardState, DefaultSnapshot, NoVote,
                            HardStateType, SnapshotType
<1> QED BY <1>3, <1>5, <1>6

LEMMA CallsAreCalls ==
  ASSUME NEW c, CallType(c)
  PROVE  c # Idle
BY DEF CallType, Idle

LEMMA CallInvStep ==
  ASSUME KeysOrdered, CallInv, [Next]_vars
  PROVE  CallInv'
<1>1. CASE UNCHANGED vars
  <2>1. /\ engine' = engine /\ db' = db /\ call' = call /\ before' = before
        /\ txn' = txn /\ todo' = todo
    BY <1>1 DEF vars
  <2>2. View(db)' = View(db) /\ View(before)' = View(before) /\ View(txn)' = View(txn)
    BY <2>1
  <2> QED BY <2>1, <2>2 DEF CallInv
<1>2. ASSUME NEW c \in Heed!Calls(View(db)), Begin(c) PROVE CallInv'
  <2>1. /\ engine' = engine /\ db' = db /\ call' = c /\ before' = db /\ txn' = db
        /\ todo' = IF engine = "heed" THEN HeedWrites(db, c, archive, ArchiveThreshold)
                   ELSE RocksWrites(db, c)
    BY <1>2 DEF Begin
  <2>2. TableType(db) /\ StoreType(View(db)) /\ engine \in {"heed", "rocksdb"}
    BY DEF CallInv
  <2>3. CallType(c) /\ c # Idle
    BY <1>2, <2>2, CallTyped, CallsAreCalls
  <2>4. /\ Progress(View(db), c, View(db), HeedWrites(db, c, archive, ArchiveThreshold))
        /\ Progress(View(db), c, View(db), RocksWrites(db, c))
    BY <2>2, <2>3, CallBegins
  <2>5. View(db') = View(db) /\ View(before') = View(db) /\ View(txn') = View(db)
    BY <2>1
  <2> QED BY <1>2, <2>1, <2>2, <2>3, <2>4, <2>5 DEF CallInv
<1>3. CASE Write
  <2> DEFINE w == Head(todo)
             s == View(before)
  <2>1. /\ todo # <<>> /\ todo' = Tail(todo)
        /\ engine' = engine /\ call' = call /\ before' = before
    BY <1>3 DEF Write
  <2>2. call # Idle /\ engine \in {"heed", "rocksdb"}
    BY <2>1 DEF CallInv
  <2>3. StoreType(s) /\ call \in Heed!Calls(s) /\ CallType(call)
    BY <2>2, CallTyped DEF CallInv
  <2>4. View(before)' = View(before)
    BY <2>1
  <2>5. CASE engine = "heed"
    <3>1. TableType(db) /\ StoreType(View(db)) /\ db = before /\ TableType(txn)
          /\ Progress(s, call, View(txn), todo)
      BY <2>2, <2>5 DEF CallInv
    <3>2. Advances(s, call, txn, todo)
      BY <2>1, <2>3, <3>1, CallAdvances
    <3>3. db' = db /\ txn' = IF w.table = "file" THEN txn ELSE Written(txn, w)
      BY <1>3, <2>5 DEF Write
    <3>4. TableType(txn') /\ Progress(s, call, View(txn'), Tail(todo))
      BY <3>1, <3>2, <3>3 DEF Advances
    <3>5. View(db') = View(db) /\ View(txn)' = View(txn')
      BY <3>3
    <3> QED BY <2>1, <2>2, <2>3, <2>4, <2>5, <3>1, <3>3, <3>4, <3>5 DEF CallInv
  <2>6. CASE engine = "rocksdb"
    <3>1. TableType(db) /\ Progress(s, call, View(db), todo)
      BY <2>2, <2>6 DEF CallInv
    <3>2. Advances(s, call, db, todo)
      BY <2>1, <2>3, <3>1, CallAdvances
    <3>3. db' = IF w.table = "file" THEN db ELSE Written(db, w)
      BY <1>3, <2>6 DEF Write
    <3>4. TableType(db') /\ Progress(s, call, View(db'), Tail(todo))
      BY <3>1, <3>2, <3>3 DEF Advances
    <3>5. StoreType(View(db'))
      BY <2>3, <3>4, ProgressTyped
    <3> QED BY <2>1, <2>2, <2>3, <2>4, <2>6, <3>4, <3>5 DEF CallInv
  <2> QED BY <2>2, <2>5, <2>6
<1>4. CASE Return
  <2>1. /\ call # Idle /\ todo = <<>> /\ call' = Idle /\ todo' = todo /\ engine' = engine
        /\ db' = IF engine = "heed" /\ HeedCommits(call) THEN txn ELSE db
    BY <1>4 DEF Return
  <2>2. TableType(db') /\ StoreType(View(db'))
    <3>1. CASE engine = "heed" /\ HeedCommits(call)
      <4>1. StoreType(View(before)) /\ CallType(call) /\ TableType(txn)
            /\ Progress(View(before), call, View(txn), todo)
        BY <2>1, <3>1, CallTyped DEF CallInv
      <4>2. StoreType(View(txn))
        BY <4>1, ProgressTyped
      <4> QED BY <2>1, <3>1, <4>1, <4>2
    <3>2. CASE ~(engine = "heed" /\ HeedCommits(call))
      BY <2>1, <3>2 DEF CallInv
    <3> QED BY <3>1, <3>2
  <2> QED BY <2>1, <2>2 DEF CallInv
<1>5. CASE Crash
  <2>1. call' = Idle /\ todo' = <<>> /\ engine' = engine /\ db' = db
    BY <1>5 DEF Crash
  <2>2. View(db') = View(db)
    BY <2>1
  <2> QED BY <2>1, <2>2 DEF CallInv
<1> QED BY <1>1, <1>2, <1>3, <1>4, <1>5 DEF Next

LEMMA CallsTyped ==
  ASSUME KeysOrdered
  PROVE  Spec => []CallInv
<1>1. Init => CallInv
  BY EmptyView DEF Init, CallInv
<1>2. CallInv /\ [Next]_vars => CallInv'
  BY CallInvStep
<1> QED BY <1>1, <1>2, PTL DEF Spec

-----------------------------------------------------------------------------

\* A call that returns has made all its writes, and HeedStorage commits them.
LEMMA ReturnStep ==
  ASSUME CallInv, Return
  PROVE  Visible' = IF engine = "heed" THEN Heed!Done(View(before), call)
                    ELSE Rocks!Done(View(before), call)
<1> DEFINE s == View(before)
<1>1. /\ call # Idle /\ todo = <<>> /\ call' = Idle
      /\ db' = IF engine = "heed" /\ HeedCommits(call) THEN txn ELSE db
  BY DEF Return
<1>2. /\ Visible' = View(db') /\ CallType(call) /\ engine \in {"heed", "rocksdb"}
  BY <1>1, CallTyped DEF CallInv, Visible
<1>3. CASE engine = "heed" /\ HeedCommits(call)
  <2>1. View(txn) = Effect(s, call)
    BY <1>1, <1>2, <1>3, CallEnds DEF CallInv
  <2> QED BY <1>1, <1>2, <1>3, <2>1, SameEffects
<1>4. CASE engine = "heed" /\ ~HeedCommits(call)
  <2>1. db' = before
    BY <1>1, <1>4 DEF CallInv
  <2> QED BY <1>2, <1>4, <2>1, SameEffects
<1>5. CASE engine = "rocksdb"
  <2>1. View(db) = Effect(s, call)
    BY <1>1, <1>2, <1>5, CallEnds DEF CallInv
  <2> QED BY <1>1, <1>2, <1>5, <2>1, SameEffects
<1> QED BY <1>2, <1>3, <1>4, <1>5

\* What the calls do to the store that the program sees.
LEMMA VisibleStep ==
  ASSUME KeysOrdered, CallInv, [Next]_vars
  PROVE  /\ engine' = engine
         /\ \/ Visible' = Visible
            \/ \E c \in Heed!Calls(Visible) :
                 \/ Visible' = IF engine = "heed" THEN Heed!Done(Visible, c) ELSE Rocks!Done(Visible, c)
                 \/ engine = "rocksdb"
                    /\ Visible' \in {Rocks!Done(Visible, c)} \cup Rocks!Torn(Visible, c)
<1>0. engine' = engine
  BY DEF Next, Begin, Write, Return, Crash, vars
<1>1. CASE UNCHANGED vars
  <2>1. call' = call /\ db' = db /\ before' = before
    BY <1>1 DEF vars
  <2>2. View(db)' = View(db) /\ View(before)' = View(before)
    BY <2>1
  <2> QED BY <1>0, <2>1, <2>2 DEF Visible
<1>2. ASSUME NEW c \in Heed!Calls(View(db)), Begin(c) PROVE Visible' = Visible
  <2>1. call = Idle /\ call' = c /\ before' = db
    BY <1>2 DEF Begin
  <2>2. c # Idle
    BY <1>2, CallTyped, CallsAreCalls DEF CallInv
  <2>3. View(before)' = View(db)
    BY <2>1
  <2> QED BY <2>1, <2>2, <2>3 DEF Visible
<1>3. CASE Write
  <2>1. todo # <<>> /\ call' = call /\ before' = before
    BY <1>3 DEF Write
  <2>2. call # Idle
    BY <2>1 DEF CallInv
  <2>3. View(before)' = View(before)
    BY <2>1
  <2> QED BY <1>0, <2>1, <2>2, <2>3 DEF Visible
<1>4. CASE Return
  <2>1. Visible = View(before) /\ call \in Heed!Calls(View(before))
    BY <1>4 DEF Return, CallInv, Visible
  <2> QED BY <1>0, <1>4, <2>1, ReturnStep
<1>5. CASE Crash
  <2>1. call' = Idle /\ db' = db
    BY <1>5 DEF Crash
  <2>2. Visible' = View(db)
    BY <2>1 DEF Visible
  <2>3. CASE call = Idle
    BY <1>0, <2>2, <2>3 DEF Visible
  <2>4. CASE call # Idle /\ engine = "heed"
    BY <1>0, <2>2, <2>4 DEF Visible, CallInv
  <2>5. CASE call # Idle /\ engine = "rocksdb"
    <3> DEFINE s == View(before)
    <3>1. Visible = s /\ call \in Heed!Calls(s) /\ StoreType(s) /\ CallType(call)
          /\ Progress(s, call, View(db), todo)
      BY <2>5, CallTyped DEF CallInv, Visible
    <3>2. View(db) \in {s, Effect(s, call)} \cup Rocks!Torn(s, call)
      BY <3>1, CallCut
    <3>3. Rocks!Done(s, call) = Effect(s, call)
      BY <3>1, SameEffects
    <3> QED BY <1>0, <1>5, <2>2, <2>5, <3>1, <3>2, <3>3
  <2> QED BY <2>3, <2>4, <2>5 DEF CallInv
<1> QED BY <1>0, <1>1, <1>2, <1>3, <1>4, <1>5 DEF Next

\* Every call of HeedStorage takes effect when it returns or not at all: its
\* writes are in one LMDB transaction that the last statement commits, so a
\* crash between two of them shows nothing, whatever the file of compacted logs
\* holds by then, and set_hard_state_commit, which never commits, does nothing.
THEOREM HeedIsAtomic ==
  ASSUME KeysOrdered
  PROVE  Spec => HeedImplements
<1> DEFINE store == IF engine = "heed" THEN Visible ELSE EmptyStore
<1>1. Init => Heed!Init
  BY EmptyView DEF Init, Visible, Heed!Init, Heed!EmptyStore, EmptyStore, Heed!DefaultHardState,
                   DefaultHardState, Heed!DefaultSnapshot, DefaultSnapshot, Heed!NoVote, NoVote
<1>2. CallInv /\ [Next]_vars => [Heed!Next]_store
  <2> SUFFICES ASSUME CallInv, [Next]_vars, store' # store
               PROVE  Heed!Next
    OBVIOUS
  <2>1. engine' = engine
    BY VisibleStep
  <2>2. engine = "heed"
    BY <2>1
  <2>3. PICK c \in Heed!Calls(Visible) : Visible' = Heed!Done(Visible, c)
    BY <2>1, <2>2, VisibleStep
  <2> QED BY <2>1, <2>2, <2>3 DEF Heed!Next
<1> QED BY <1>1, <1>2, CallsTyped, PTL DEF Spec, HeedImplements, Heed!Spec

\* A call of RocksDBStorage takes effect when it returns; a crash in the middle
\* of one leaves the store as it was, as the call makes it, or one of the torn
\* stores that RaftNode recovers from, and nothing else: an append is torn
\* between two of its puts, a snapshot between its hard state, conf state, last
\* index and metadata, and no other call is torn.
THEOREM RocksTearsAsModelled ==
  ASSUME KeysOrdered
  PROVE  Spec => RocksImplements
<1> DEFINE store == IF engine = "rocksdb" THEN Visible ELSE EmptyStore
<1>1. Init => Rocks!Init
  BY EmptyView DEF Init, Visible, Rocks!Init, Rocks!EmptyStore, EmptyStore, Rocks!DefaultHardState,
                   DefaultHardState, Rocks!DefaultSnapshot, DefaultSnapshot, Rocks!NoVote, NoVote
<1>2. CallInv /\ [Next]_vars => [Rocks!Next]_store
  <2> SUFFICES ASSUME CallInv, [Next]_vars, store' # store
               PROVE  Rocks!Next
    OBVIOUS
  <2>1. engine' = engine
    BY VisibleStep
  <2>2. engine = "rocksdb"
    BY <2>1
  <2>3. PICK c \in Heed!Calls(Visible) : Visible' \in {Rocks!Done(Visible, c)} \cup Rocks!Torn(Visible, c)
    BY <2>1, <2>2, VisibleStep
  <2>4. c \in Rocks!Calls(Visible)
    BY <2>3, SameCalls
  <2> QED BY <2>1, <2>2, <2>3, <2>4 DEF Rocks!Next
<1> QED BY <1>1, <1>2, CallsTyped, PTL DEF Spec, RocksImplements, Rocks!Spec

-----------------------------------------------------------------------------
(* The in-memory storage *)

\* The entries first .. last of the store s, as MemStorageCore keeps them.
RowAt(s, i) == [index |-> i, term |-> s.entries[i].term]

Copied(s, first, last) == [n \in 1 .. last - first + 1 |-> RowAt(s, first + n - 1)]

MemShape(s, m, r, first) ==
  /\ m = [log |-> Copied(s, first, r.last), hs |-> m.hs, conf |-> s.conf,
          meta |-> m.meta, snap |-> m.snap]
  /\ r = [last |-> r.last, commit |-> r.commit]

MemBounds(s, m, r, first) ==
  /\ r.last \in Nat /\ r.commit \in Nat /\ r.commit <= r.last /\ r.last <= s.last
  /\ first \in Nat /\ 1 <= first /\ first <= r.commit + 1
  /\ m.meta.index \in Nat /\ m.meta.index < first
  /\ first > r.last => m.meta.index = r.last

\* The rows above what is committed have no gap: a snapshot which leaves
\* superseded rows behind does not move the first index past the one of m.
MemRows(s, r, first) ==
  /\ first .. r.last \subseteq DOMAIN s.entries
  /\ \A i \in DOMAIN s.entries : \A k \in r.commit + 1 .. i : k \in DOMAIN s.entries

MemSnapshot(s, r, first) ==
  /\ s.snap.index <= r.commit /\ (s.snap.index = 0 => s.snap.term = 0)
  /\ s.snap.index \in first .. r.last => s.snap.term = s.entries[s.snap.index].term

MemHardState(s, m, r) ==
  /\ m.hs = [term |-> s.hs.term, vote |-> s.hs.vote, commit |-> r.commit]
  /\ s.hs.commit <= r.commit /\ (engine = "rocksdb" => s.hs.commit = r.commit)

\* How a MemStorage m that holds the log from `first` on, and raft-rs's own
\* state r, are related to a store s given the same calls.
MemHolds(s, m, r, first) ==
  /\ MemShape(s, m, r, first) /\ MemBounds(s, m, r, first) /\ MemRows(s, r, first)
  /\ MemSnapshot(s, r, first) /\ MemHardState(s, m, r)

LEMMA EmptyFunction ==
  ASSUME NEW f, f = [x \in DOMAIN f |-> f[x]], DOMAIN f = {}
  PROVE  f = <<>>
<1>1. <<>> = [k \in DOMAIN <<>> |-> <<>>[k]] /\ DOMAIN <<>> = {}
  OBVIOUS
<1> QED BY <1>1

LEMMA CopiedFacts ==
  ASSUME NEW s, NEW first \in Nat, NEW last \in Nat, first <= last + 1
  PROVE  /\ first = last + 1 => Copied(s, first, last) = <<>>
         /\ first # last + 1 => Copied(s, first, last) # <<>>
         /\ Len(Copied(s, first, last)) = last - first + 1
         /\ \A n \in 1 .. last - first + 1 :
              Copied(s, first, last)[n] = RowAt(s, first + n - 1)
<1> DEFINE log == Copied(s, first, last)
           m == last - first + 1
           row(n) == RowAt(s, first + n - 1)
<1>1. m \in Nat /\ log = [n \in 1 .. m |-> row(n)]
  BY DEF Copied
<1> HIDE DEF m, row, log
<1>2. Len(log) = m /\ \A n \in 1 .. m : log[n] = row(n)
  BY <1>1
<1>3. (log = <<>>) <=> (m = 0)
  <2>1. CASE m = 0
    <3>1. DOMAIN log = {} /\ log = [n \in DOMAIN log |-> log[n]]
      BY <1>1, <2>1
    <3> QED BY <2>1, <3>1, EmptyFunction
  <2>2. CASE m # 0
    <3>1. Len(<<>>) = 0
      OBVIOUS
    <3> QED BY <1>2, <2>2, <3>1
  <2> QED BY <2>1, <2>2
<1>4. (m = 0) <=> (first = last + 1)
  BY DEF m
<1> QED BY <1>2, <1>3, <1>4 DEF m, row, log

LEMMA MemReads ==
  ASSUME NEW s, NEW m, NEW r, NEW first, MemHolds(s, m, r, first)
  PROVE  /\ MemFirstIndex(m) = first /\ MemLastIndex(m) = r.last
         /\ \A i \in first .. r.last : MemTerm(m, i) = s.entries[i].term
<1> DEFINE log == m.log
           last == r.last
<1>1. /\ log = Copied(s, first, last)
      /\ first \in Nat /\ last \in Nat /\ first <= last + 1 /\ 1 <= first
      /\ m.meta.index \in Nat /\ m.meta.index < first /\ (first > last => m.meta.index = last)
  <2>1. r.commit \in Nat /\ first <= r.commit + 1 /\ r.commit <= r.last
    BY DEF MemHolds, MemBounds
  <2> QED BY <2>1 DEF MemHolds, MemBounds, MemShape
<1> HIDE DEF log, last
<1>2. /\ first = last + 1 => log = <<>>
      /\ first # last + 1 => log # <<>>
      /\ Len(log) = last - first + 1
      /\ \A n \in 1 .. last - first + 1 :
           log[n] = RowAt(s, first + n - 1)
  <2>1. (first = last + 1 => log = <<>>) /\ (first # last + 1 => log # <<>>)
    BY <1>1, CopiedFacts
  <2>2. Len(log) = last - first + 1
    BY <1>1, CopiedFacts
  <2>3. \A n \in 1 .. last - first + 1 :
          log[n] = RowAt(s, first + n - 1)
    BY <1>1, CopiedFacts
  <2> QED BY <2>1, <2>2, <2>3
<1>3. CASE log = <<>>
  <2>1. MemFirstIndex(m) = first /\ MemLastIndex(m) = last
    BY <1>1, <1>2, <1>3 DEF MemFirstIndex, MemLastIndex, log
  <2>2. first .. last = {}
    BY <1>1, <1>2, <1>3
  <2> QED BY <2>1, <2>2 DEF last
<1>4. CASE log # <<>>
  <2>1. first <= last /\ 1 \in 1 .. last - first + 1 /\ Len(log) \in 1 .. last - first + 1
    BY <1>1, <1>2, <1>4
  <2>2. log[1].index = first /\ log[Len(log)].index = last
    <3>1. log[1].index = first + 1 - 1
      BY <1>2, <2>1 DEF RowAt
    <3>2. log[Len(log)].index = first + Len(log) - 1
      BY <1>2, <2>1 DEF RowAt
    <3>3. first + 1 - 1 = first /\ first + Len(log) - 1 = last
      BY <1>1, <1>2
    <3> QED BY <3>1, <3>2, <3>3
  <2>3. MemFirstIndex(m) = first /\ MemLastIndex(m) = last
    BY <1>4, <2>2 DEF MemFirstIndex, MemLastIndex, log
  <2>4. ASSUME NEW i \in first .. last PROVE MemTerm(m, i) = s.entries[i].term
    <3>1. i # m.meta.index /\ ~(i < first) /\ ~(i > last)
      BY <1>1
    <3>2. MemTerm(m, i) = log[i - first + 1].term
      BY <2>3, <3>1 DEF MemTerm, log
    <3>3. i - first + 1 \in 1 .. last - first + 1 /\ first + (i - first + 1) - 1 = i
      BY <1>1
    <3>4. log[i - first + 1] = RowAt(s, first + (i - first + 1) - 1)
      BY <1>2, <3>3
    <3> QED BY <3>2, <3>3, <3>4 DEF RowAt
  <2> QED BY <2>3, <2>4 DEF last
<1> QED BY <1>3, <1>4

\* What is known of the calls beside their types.
LEMMA CallFacts ==
  ASSUME NEW s, StoreType(s), NEW c \in Heed!Calls(s)
  PROVE  /\ c.op = "append" =>
              \E lo \in Indices, hi \in Indices, t \in Nat : IsBatch(c.ents, lo, hi, t) /\ lo <= hi
         /\ c.op = "create_snapshot" =>
              c.snap.index > s.snap.index /\ c.snap.term = Term(s, c.snap.index)
         /\ c.op = "apply_snapshot" =>
              c.snap.index > 0 \/ (s.last = 0 /\ c.snap.index = s.snap.index /\ c.snap.term = s.snap.term)
<1>0. MaxIndex \in Nat /\ s.snap.index \in Nat /\ s.hs.commit \in Nat /\ s.last \in Nat
  BY StoragesAssumption DEF StoreType, SnapshotType, HardStateType
<1>1. ASSUME c.op = "append"
      PROVE  \E lo \in Indices, hi \in Indices, t \in Nat : IsBatch(c.ents, lo, hi, t) /\ lo <= hi
  <2>0. c \in Heed!AppendCalls(s)
    BY <1>1 DEF Heed!Calls, Heed!HardStateCalls, Heed!SnapshotCalls, Heed!OtherCalls
  <2>1. PICK lo \in Indices, hi \in 0 .. MaxIndex, t \in Nat : IsBatch(c.ents, lo, hi, t)
    BY <1>1, CallTyped DEF CallType
  <2>2. c.ents # <<>> /\ c.ents = [i \in DOMAIN c.ents |-> c.ents[i]]
    <3>1. c # [op |-> "append", ents |-> <<>>]
      BY <2>0 DEF Heed!AppendCalls
    <3>2. \E e : c = [op |-> "append", ents |-> e]
      BY <2>0 DEF Heed!AppendCalls
    <3>3. c.ents = [i \in DOMAIN c.ents |-> c.ents[i]]
      BY <2>1 DEF IsBatch
    <3> QED BY <3>1, <3>2, <3>3
  <2>3. DOMAIN c.ents # {}
    BY <2>2, EmptyFunction
  <2>4. lo <= hi
    BY <1>0, <2>1, <2>3 DEF IsBatch, Indices
  <2> QED BY <1>0, <2>1, <2>4 DEF Indices
<1>2. ASSUME c.op = "create_snapshot"
      PROVE  c.snap.index > s.snap.index /\ c.snap.term = Term(s, c.snap.index)
  <2>0. c \in Heed!SnapshotCalls(s)
    BY <1>2 DEF Heed!Calls, Heed!HardStateCalls, Heed!AppendCalls, Heed!OtherCalls
  <2>1. PICK i \in s.snap.index + 1 .. s.last :
             c = [op |-> "create_snapshot", snap |-> Heed!Snapshot(i, Heed!Term(s, i), s.conf)]
    BY <1>2, <2>0 DEF Heed!SnapshotCalls
  <2>2. c.snap.index = i /\ c.snap.term = Heed!Term(s, i)
    BY <2>1 DEF Heed!Snapshot
  <2> QED BY <1>0, <2>2, SameReads
<1>3. ASSUME c.op = "apply_snapshot"
      PROVE  c.snap.index > 0 \/ (s.last = 0 /\ c.snap.index = s.snap.index /\ c.snap.term = s.snap.term)
  <2>0. c \in Heed!SnapshotCalls(s)
    BY <1>3 DEF Heed!Calls, Heed!HardStateCalls, Heed!AppendCalls, Heed!OtherCalls
  <2>1. \/ \E i \in s.hs.commit + 1 .. MaxIndex, t \in Heed!Terms, k \in {MaxConf} :
             c = [op |-> "apply_snapshot", snap |-> Heed!Snapshot(i, t, k)]
        \/ \E k \in 0 .. MaxConf :
             s.last = 0 /\ c = [op |-> "apply_snapshot", snap |-> [s.snap EXCEPT !.conf = k]]
    BY <1>3, <2>0 DEF Heed!SnapshotCalls
  <2>2. CASE \E i \in s.hs.commit + 1 .. MaxIndex, t \in Heed!Terms, k \in {MaxConf} :
               c = [op |-> "apply_snapshot", snap |-> Heed!Snapshot(i, t, k)]
    BY <1>0, <2>2 DEF Heed!Snapshot
  <2>3. CASE \E k \in 0 .. MaxConf :
               s.last = 0 /\ c = [op |-> "apply_snapshot", snap |-> [s.snap EXCEPT !.conf = k]]
    BY <2>3 DEF StoreType, SnapshotType
  <2> QED BY <2>1, <2>2, <2>3
<1> QED BY <1>1, <1>2, <1>3

LEMMA SameCopied ==
  ASSUME NEW s, NEW t, NEW first \in Nat, NEW last \in Nat,
         \A i \in first .. last : RowAt(s, i) = RowAt(t, i)
  PROVE  Copied(s, first, last) = Copied(t, first, last)
<1>1. \A n \in 1 .. last - first + 1 : RowAt(s, first + n - 1) = RowAt(t, first + n - 1)
  <2> TAKE n \in 1 .. last - first + 1
  <2>1. first + n - 1 \in first .. last
    OBVIOUS
  <2> QED BY <2>1
<1> QED BY <1>1 DEF Copied

\* A call that only changes the metadata.
LEMMA MemMetadata ==
  ASSUME NEW s, StoreType(s), NEW c \in Heed!Calls(s), Asked(c), NEW first,
         MemHolds(s, mem, raft, first),
         c.op \in {"set_hard_state", "set_conf_state", "create_snapshot"}
  PROVE  MemHolds(Effect(s, c), MemDone(mem, c), RaftAfter(c), first)
<1>0. CallType(c)
  BY CallTyped
<1>1. CASE c.op = "set_hard_state"
  <2> DEFINE t == [s EXCEPT !.hs = c.hs]
             n == [mem EXCEPT !.hs = c.hs]
             r == [raft EXCEPT !.commit = c.hs.commit]
  <2>1. Effect(s, c) = t /\ MemDone(mem, c) = n /\ RaftAfter(c) = r
    BY <1>1 DEF Effect, SetHardState, MemDone, MemSetHardState, RaftAfter
  <2>2. /\ c.hs.commit \in raft.commit .. raft.last /\ c.hs.commit \in Nat
        /\ c.hs = [term |-> c.hs.term, vote |-> c.hs.vote, commit |-> c.hs.commit]
    BY <1>0, <1>1, StoragesAssumption DEF Asked, CallType, HardStateType
  <2>3. /\ t.entries = s.entries /\ t.snap = s.snap /\ t.conf = s.conf /\ t.last = s.last /\ t.hs = c.hs
        /\ n = [log |-> mem.log, hs |-> c.hs, conf |-> mem.conf, meta |-> mem.meta, snap |-> mem.snap]
        /\ r = [last |-> raft.last, commit |-> c.hs.commit]
    BY DEF StoreType, MemHolds, MemShape
  <2>4. Copied(t, first, raft.last) = Copied(s, first, raft.last)
    BY <2>3 DEF Copied, RowAt
  <2> HIDE DEF t, n, r
  <2>5. MemShape(t, n, r, first)
    BY <2>3, <2>4 DEF MemHolds, MemShape
  <2>6. MemBounds(t, n, r, first)
    BY <2>2, <2>3 DEF MemHolds, MemBounds
  <2>7. MemRows(t, r, first)
    BY <2>2, <2>3 DEF MemHolds, MemRows, MemBounds
  <2>8. MemSnapshot(t, r, first)
    <3>1. s.snap.index \in Nat
      BY StoragesAssumption DEF StoreType, SnapshotType
    <3> QED BY <2>2, <2>3, <3>1 DEF MemHolds, MemSnapshot, MemBounds
  <2>9. MemHardState(t, n, r)
    BY <2>2, <2>3 DEF MemHardState
  <2> QED BY <2>1, <2>5, <2>6, <2>7, <2>8, <2>9 DEF MemHolds
<1>2. CASE c.op = "set_conf_state"
  <2> DEFINE t == [s EXCEPT !.conf = c.conf]
             n == [mem EXCEPT !.conf = c.conf]
  <2>1. Effect(s, c) = t /\ MemDone(mem, c) = n /\ RaftAfter(c) = raft
    BY <1>2 DEF Effect, SetConfState, MemDone, MemSetConfState, RaftAfter
  <2>2. /\ t.entries = s.entries /\ t.snap = s.snap /\ t.conf = c.conf /\ t.last = s.last /\ t.hs = s.hs
        /\ n = [log |-> mem.log, hs |-> mem.hs, conf |-> c.conf, meta |-> mem.meta, snap |-> mem.snap]
    BY DEF StoreType, MemHolds, MemShape
  <2>3. Copied(t, first, raft.last) = Copied(s, first, raft.last)
    BY <2>2 DEF Copied, RowAt
  <2> HIDE DEF t, n
  <2>4. MemShape(t, n, raft, first)
    BY <2>2, <2>3 DEF MemHolds, MemShape
  <2> QED BY <2>1, <2>2, <2>4 DEF MemHolds, MemBounds, MemRows, MemSnapshot, MemHardState
<1>3. CASE c.op = "create_snapshot"
  <2> DEFINE t == [s EXCEPT !.snap = [index |-> c.snap.index, term |-> c.snap.term,
                                      data |-> c.snap.data, conf |-> s.conf]]
             n == [mem EXCEPT !.snap = [c.snap EXCEPT !.conf = mem.conf]]
  <2>1. Effect(s, c) = t /\ MemDone(mem, c) = n /\ RaftAfter(c) = raft
    BY <1>3 DEF Effect, CreateSnapshot, MemDone, MemCreateSnapshot, RaftAfter
  <2>2. /\ t.entries = s.entries /\ t.conf = s.conf /\ t.last = s.last /\ t.hs = s.hs
        /\ t.snap.index = c.snap.index /\ t.snap.term = c.snap.term
        /\ n = [log |-> mem.log, hs |-> mem.hs, conf |-> mem.conf, meta |-> mem.meta, snap |-> n.snap]
    BY DEF StoreType, MemHolds, MemShape
  <2>3. Copied(t, first, raft.last) = Copied(s, first, raft.last)
    BY <2>2 DEF Copied, RowAt
  <2>4. /\ c.snap.index > s.snap.index /\ c.snap.term = Term(s, c.snap.index)
        /\ s.snap.index \in Nat /\ c.snap.index \in Nat /\ c.snap.index <= raft.commit
    BY <1>0, <1>3, CallFacts, StoragesAssumption DEF Asked, CallType, StoreType, SnapshotType
  <2>5. c.snap.index \in first .. raft.last => c.snap.term = s.entries[c.snap.index].term
    <3> SUFFICES ASSUME c.snap.index \in first .. raft.last
                 PROVE  c.snap.term = s.entries[c.snap.index].term
      OBVIOUS
    <3>1. c.snap.index \in DOMAIN s.entries /\ c.snap.index # s.snap.index
      BY <2>4 DEF MemHolds, MemRows
    <3> QED BY <2>4, <3>1 DEF Term
  <2> HIDE DEF t, n
  <2>6. MemShape(t, n, raft, first)
    BY <2>2, <2>3 DEF MemHolds, MemShape
  <2>7. MemSnapshot(t, raft, first)
    BY <2>2, <2>4, <2>5 DEF MemSnapshot
  <2> QED BY <2>1, <2>2, <2>6, <2>7 DEF MemHolds, MemBounds, MemRows, MemHardState
<1> QED BY <1>1, <1>2, <1>3

\* set_hard_state_commit, which HeedStorage forgets.
LEMMA MemCommits ==
  ASSUME NEW s, StoreType(s), NEW c \in Heed!Calls(s), Asked(c), NEW first,
         MemHolds(s, mem, raft, first), c.op = "set_hard_state_commit",
         NEW t, t = IF engine = "heed" THEN s ELSE Effect(s, c), engine \in {"heed", "rocksdb"}
  PROVE  MemHolds(t, MemDone(mem, c), RaftAfter(c), first)
<1> DEFINE n == [mem EXCEPT !.hs.commit = c.commit]
           r == [raft EXCEPT !.commit = c.commit]
<1>1. MemDone(mem, c) = n /\ RaftAfter(c) = r
  BY DEF MemDone, MemSetHardStateCommit, RaftAfter
<1>2. c.commit \in raft.commit .. raft.last /\ c.commit \in Nat
  BY CallTyped, StoragesAssumption DEF Asked, CallType
<1>3. mem.hs = [term |-> s.hs.term, vote |-> s.hs.vote, commit |-> raft.commit]
  BY DEF MemHolds, MemHardState
<1>4. /\ n.log = mem.log /\ n.conf = mem.conf /\ n.meta = mem.meta /\ n.snap = mem.snap
      /\ n.hs = [term |-> s.hs.term, vote |-> s.hs.vote, commit |-> c.commit]
      /\ n = [log |-> n.log, hs |-> n.hs, conf |-> n.conf, meta |-> n.meta, snap |-> n.snap]
  <2>1. n = [mem EXCEPT !.hs = [mem.hs EXCEPT !.commit = c.commit]]
    OBVIOUS
  <2>2. [mem.hs EXCEPT !.commit = c.commit]
          = [term |-> s.hs.term, vote |-> s.hs.vote, commit |-> c.commit]
    BY <1>3
  <2>3. mem = [log |-> mem.log, hs |-> mem.hs, conf |-> mem.conf, meta |-> mem.meta, snap |-> mem.snap]
    BY DEF MemHolds, MemShape
  <2> HIDE DEF n
  <2> QED BY <2>1, <2>2, <2>3
<1>5. r = [last |-> raft.last, commit |-> c.commit]
  BY DEF MemHolds, MemShape
<1>6. /\ t.entries = s.entries /\ t.snap = s.snap /\ t.conf = s.conf /\ t.last = s.last
      /\ t.hs.term = s.hs.term /\ t.hs.vote = s.hs.vote
      /\ t.hs.commit = IF engine = "heed" THEN s.hs.commit ELSE c.commit
  <2>1. CASE engine = "heed"
    BY <2>1
  <2>2. CASE engine # "heed"
    <3>1. t = [s EXCEPT !.hs = [s.hs EXCEPT !.commit = c.commit]]
      BY <2>2 DEF Effect
    <3>2. s.hs = [term |-> s.hs.term, vote |-> s.hs.vote, commit |-> s.hs.commit]
      BY DEF StoreType, HardStateType
    <3>3. [s.hs EXCEPT !.commit = c.commit] = [term |-> s.hs.term, vote |-> s.hs.vote, commit |-> c.commit]
      BY <3>2
    <3> QED BY <2>2, <3>1, <3>3 DEF StoreType
  <2> QED BY <2>1, <2>2
<1>7. Copied(t, first, raft.last) = Copied(s, first, raft.last)
  BY <1>6 DEF Copied, RowAt
<1>8. s.hs.commit <= c.commit
  BY <1>2, StoragesAssumption DEF MemHolds, MemHardState, MemBounds, StoreType, HardStateType
<1> HIDE DEF n, r
<1>9. MemShape(t, n, r, first)
  BY <1>4, <1>5, <1>6, <1>7 DEF MemHolds, MemShape
<1>10. MemBounds(t, n, r, first)
  BY <1>2, <1>4, <1>5, <1>6 DEF MemHolds, MemBounds
<1>11. MemRows(t, r, first)
  BY <1>2, <1>5, <1>6 DEF MemHolds, MemRows, MemBounds
<1>12. MemSnapshot(t, r, first)
  <2>1. s.snap.index \in Nat
    BY StoragesAssumption DEF StoreType, SnapshotType
  <2> QED BY <1>2, <1>5, <1>6, <2>1 DEF MemHolds, MemSnapshot, MemBounds
<1>13. MemHardState(t, n, r)
  BY <1>2, <1>4, <1>5, <1>6, <1>8 DEF MemHardState
<1> QED BY <1>1, <1>9, <1>10, <1>11, <1>12, <1>13 DEF MemHolds

LEMMA Joined ==
  ASSUME NEW m \in Nat, NEW k \in Nat, NEW a, NEW b,
         a = [n \in DOMAIN a |-> a[n]], b = [n \in DOMAIN b |-> b[n]],
         DOMAIN a = 1 .. m, DOMAIN b = 1 .. k
  PROVE  a \o b = [n \in 1 .. m + k |-> IF n <= m THEN a[n] ELSE b[n - m]]
<1> DEFINE S == {a[n] : n \in 1 .. m} \cup {b[n] : n \in 1 .. k}
<1>1. (\A n \in 1 .. m : a[n] \in S) /\ (\A n \in 1 .. k : b[n] \in S)
  OBVIOUS
<1> HIDE DEF S
<1>2. a \in [1 .. m -> S] /\ b \in [1 .. k -> S]
  BY <1>1
<1>3. a \in Seq(S) /\ b \in Seq(S) /\ Len(a) = m /\ Len(b) = k
  BY <1>2
<1>4. a = [n \in 1 .. m |-> a[n]] /\ b = [n \in 1 .. k |-> b[n]]
  OBVIOUS
<1>5. DOMAIN (a \o b) = 1 .. m + k /\ a \o b = [n \in 1 .. m + k |-> (a \o b)[n]]
  <2>1. a \o b \in Seq(S) /\ Len(a \o b) = m + k
    BY <1>3
  <2> DEFINE f == a \o b
  <2> HIDE DEF f
  <2>2. f \in Seq(S) /\ Len(f) = m + k
    BY <2>1 DEF f
  <2>3. DOMAIN f = 1 .. m + k /\ f = [n \in 1 .. m + k |-> f[n]]
    BY <2>2
  <2> QED BY <2>3 DEF f
<1>6. ASSUME NEW n \in 1 .. m + k PROVE (a \o b)[n] = IF n <= m THEN a[n] ELSE b[n - m]
  BY <1>3
<1> QED BY <1>5, <1>6

\* What MemStorageCore::append makes of the entries first .. last of s.
Extended(s, t, first, last, lo, hi) ==
  SubSeq(Copied(s, first, last), 1, lo - first) \o Copied(t, lo, hi)

\* An append cuts the log before the first new entry and extends it.
LEMMA CopiedAppend ==
  ASSUME NEW s, NEW t, NEW first \in Nat, NEW lo \in Nat, NEW hi \in Nat, NEW last \in Nat,
         first <= lo, lo <= hi, lo <= last + 1,
         \A i \in first .. lo - 1 : RowAt(t, i) = RowAt(s, i)
  PROVE  Extended(s, t, first, last, lo, hi) = Copied(t, first, hi)
<1> DEFINE log == Copied(s, first, last)
           new == Copied(t, lo, hi)
           kept == SubSeq(log, 1, lo - first)
           m == lo - first
           k == hi - lo + 1
<1>1. m \in Nat /\ k \in Nat /\ m <= last - first + 1 /\ hi - first + 1 = m + k
  OBVIOUS
<1>2. kept = [n \in 1 .. m |-> RowAt(t, first + n - 1)]
  <2>1. kept = [n \in 1 .. m |-> log[n]]
    <3> HIDE DEF log
    <3> QED BY <1>1
  <2>2. ASSUME NEW n \in 1 .. m PROVE log[n] = RowAt(t, first + n - 1)
    <3>1. n \in 1 .. last - first + 1 /\ first + n - 1 \in first .. lo - 1
      BY <1>1
    <3>2. log[n] = RowAt(s, first + n - 1)
      BY <3>1 DEF Copied
    <3> QED BY <3>1, <3>2
  <2> HIDE DEF kept, log
  <2> QED BY <2>1, <2>2
<1>3. new = [n \in 1 .. k |-> RowAt(t, lo + n - 1)]
  BY DEF Copied
<1> HIDE DEF kept, log, new
<1>4. kept \o new = [n \in 1 .. m + k |-> IF n <= m THEN kept[n] ELSE new[n - m]]
  <2>1. /\ kept = [n \in DOMAIN kept |-> kept[n]] /\ new = [n \in DOMAIN new |-> new[n]]
        /\ DOMAIN kept = 1 .. m /\ DOMAIN new = 1 .. k
    BY <1>2, <1>3
  <2>2. m \in Nat /\ k \in Nat
    BY <1>1
  <2> HIDE DEF m, k
  <2> QED BY <2>1, <2>2, Joined
<1>5. ASSUME NEW n \in 1 .. m + k
      PROVE  (IF n <= m THEN kept[n] ELSE new[n - m]) = RowAt(t, first + n - 1)
  <2>1. CASE n <= m
    BY <1>1, <1>2, <2>1
  <2>2. CASE ~(n <= m)
    <3>1. n - m \in 1 .. hi - lo + 1 /\ lo + (n - m) - 1 = first + n - 1
      BY <1>1, <2>2
    <3>2. new[n - m] = RowAt(t, lo + (n - m) - 1)
      BY <1>3, <3>1
    <3> QED BY <2>2, <3>1, <3>2
  <2> QED BY <2>1, <2>2
<1>6. kept \o new = [n \in 1 .. m + k |-> RowAt(t, first + n - 1)]
  BY <1>4, <1>5
<1>7. Copied(t, first, hi) = [n \in 1 .. m + k |-> RowAt(t, first + n - 1)]
  BY <1>1 DEF Copied
<1> QED BY <1>6, <1>7 DEF kept, log, new, Extended

LEMMA MemAppends ==
  ASSUME NEW s, StoreType(s), NEW c \in Heed!Calls(s), Asked(c), NEW first,
         MemHolds(s, mem, raft, first), c.op = "append"
  PROVE  MemHolds(Effect(s, c), MemDone(mem, c), RaftAfter(c), first)
<1> DEFINE e == c.ents
           t == Effect(s, c)
           n == MemDone(mem, c)
           r == RaftAfter(c)
<1>1. PICK lo \in Indices, hi \in Indices, u \in Nat : IsBatch(e, lo, hi, u) /\ lo <= hi
  BY CallFacts
<1>2. /\ DOMAIN e = lo .. hi /\ \A i \in lo .. hi : e[i] = [term |-> u]
      /\ Min(DOMAIN e) = lo /\ Cardinality(DOMAIN e) = hi - lo + 1
      /\ lo \in Nat /\ hi \in Nat /\ lo \in DOMAIN e
  <2> HIDE DEF e
  <2>1. /\ DOMAIN e = lo .. hi /\ \A i \in lo .. hi : e[i] = [term |-> u]
        /\ Min(DOMAIN e) = lo /\ Cardinality(DOMAIN e) = hi - lo + 1
    BY <1>1, BatchFacts
  <2>2. lo \in Nat /\ hi \in Nat /\ lo \in lo .. hi
    BY <1>1, StoragesAssumption DEF Indices
  <2> QED BY <2>1, <2>2
<1>3. Max(DOMAIN e) = hi
  BY <1>1, <1>2 DEF Max
<1>4. lo \in raft.commit + 1 .. raft.last + 1
  BY <1>2 DEF Asked
<1>5. /\ raft.last \in Nat /\ raft.commit \in Nat /\ raft.commit <= raft.last
      /\ first \in Nat /\ 1 <= first /\ first <= raft.commit + 1 /\ first <= lo
  BY <1>2, <1>4 DEF MemHolds, MemBounds
<1>6. t = [s EXCEPT !.entries = PutAll(@, e), !.last = Max({@} \cup DOMAIN e)]
  BY <1>2 DEF Effect, AppendEntries
<1>7. /\ t.entries = PutAll(s.entries, e) /\ t.last = Max({s.last} \cup DOMAIN e)
      /\ t.hs = s.hs /\ t.conf = s.conf /\ t.snap = s.snap
  BY <1>6 DEF StoreType
<1>8. hi <= t.last
  <2> DEFINE S == {s.last} \cup DOMAIN e
  <2>1. S \in SUBSET (0 .. MaxIndex) /\ hi \in S /\ MaxIndex \in Nat
    BY <1>1, <1>2, StoragesAssumption DEF StoreType, Indices
  <2> HIDE DEF S
  <2>2. \A y \in S : y <= Max(S)
    BY <2>1, BoundedMax
  <2> QED BY <1>7, <2>1, <2>2 DEF S
<1>9. r = [last |-> hi, commit |-> raft.commit]
  BY <1>3 DEF RaftAfter, MemHolds, MemShape
<1>10. n.log = Copied(t, first, hi) /\ n.hs = mem.hs /\ n.conf = mem.conf /\ n.meta = mem.meta
       /\ n = [log |-> n.log, hs |-> n.hs, conf |-> n.conf, meta |-> n.meta, snap |-> n.snap]
  <2> DEFINE new == [j \in 1 .. hi - lo + 1 |-> [index |-> lo + j - 1, term |-> e[lo + j - 1].term]]
             log == SubSeq(mem.log, 1, lo - first) \o new
  <2>1. MemFirstIndex(mem) = first
    BY MemReads
  <2>2. n = [mem EXCEPT !.log = log]
    BY <1>2, <2>1 DEF MemDone, MemAppend
  <2>3. new = Copied(t, lo, hi)
    <3> SUFFICES ASSUME NEW j \in 1 .. hi - lo + 1
                 PROVE  [index |-> lo + j - 1, term |-> e[lo + j - 1].term] = RowAt(t, lo + j - 1)
      BY DEF Copied
    <3> DEFINE i == lo + j - 1
    <3>1. i \in DOMAIN e
      BY <1>2
    <3> HIDE DEF i, t, e
    <3>2. t.entries[i] = e[i]
      BY <1>7, <3>1 DEF PutAll
    <3>3. [index |-> i, term |-> e[i].term] = RowAt(t, i)
      BY <3>2 DEF RowAt
    <3> QED BY <3>3 DEF i
  <2>4. \A i \in first .. lo - 1 : RowAt(t, i) = RowAt(s, i)
    <3> TAKE i \in first .. lo - 1
    <3>1. i \notin DOMAIN e /\ i \in first .. raft.last
      BY <1>2, <1>4, <1>5
    <3>2. i \in DOMAIN s.entries
      BY <3>1 DEF MemHolds, MemRows
    <3> HIDE DEF t, e
    <3> QED BY <1>7, <3>1, <3>2 DEF RowAt, PutAll
  <2>5. mem.log = Copied(s, first, raft.last)
    BY DEF MemHolds, MemShape
  <2>6. log = Copied(t, first, hi)
    <3> HIDE DEF new, t
    <3>1. SubSeq(Copied(s, first, raft.last), 1, lo - first) \o Copied(t, lo, hi) = Copied(t, first, hi)
      <4> DEFINE last == raft.last
      <4>1. /\ first \in Nat /\ lo \in Nat /\ hi \in Nat /\ last \in Nat
            /\ first <= lo /\ lo <= hi /\ lo <= last + 1
        BY <1>1, <1>2, <1>4, <1>5
      <4> HIDE DEF last
      <4>2. Extended(s, t, first, last, lo, hi) = Copied(t, first, hi)
        BY <2>4, <4>1, CopiedAppend
      <4> QED BY <4>2 DEF last, Extended
    <3> QED BY <2>3, <2>5, <3>1
  <2> HIDE DEF log, t
  <2> QED BY <2>2, <2>6 DEF MemHolds, MemShape
<1> HIDE DEF t, n, r
<1>11. MemShape(t, n, r, first)
  BY <1>7, <1>9, <1>10 DEF MemHolds, MemShape
<1>12. MemBounds(t, n, r, first)
  BY <1>1, <1>2, <1>4, <1>5, <1>8, <1>9, <1>10 DEF MemHolds, MemBounds
<1>13. DOMAIN t.entries = DOMAIN s.entries \cup (lo .. hi)
  BY <1>2, <1>7 DEF PutAll
<1>14. MemRows(t, r, first)
  <2>1. first .. hi \subseteq DOMAIN t.entries
    <3>1. \A i \in first .. hi : i \in first .. raft.last \/ i \in lo .. hi
      BY <1>2, <1>4, <1>5
    <3> QED BY <1>13, <3>1 DEF MemHolds, MemRows
  <2>2. ASSUME NEW i \in DOMAIN t.entries, NEW k \in raft.commit + 1 .. i
        PROVE  k \in DOMAIN t.entries
    <3>1. CASE i \in DOMAIN s.entries
      BY <1>13, <2>2, <3>1 DEF MemHolds, MemRows
    <3>2. CASE i \in lo .. hi
      <4>1. k \in first .. hi
        BY <1>2, <1>5, <3>2
      <4> QED BY <2>1, <4>1
    <3> QED BY <1>13, <3>1, <3>2
  <2> QED BY <1>9, <2>1, <2>2 DEF MemRows
<1>15. MemSnapshot(t, r, first)
  <2>1. s.snap.index <= raft.commit /\ s.snap.index \in Nat
    BY StoragesAssumption DEF MemHolds, MemSnapshot, StoreType, SnapshotType
  <2>2. ASSUME s.snap.index \in first .. hi PROVE s.snap.term = t.entries[s.snap.index].term
    <3>1. s.snap.index \in first .. raft.last /\ s.snap.index \notin DOMAIN e
      <4>1. s.snap.index < lo /\ s.snap.index <= raft.last
        BY <1>4, <1>5, <2>1
      <4>2. DOMAIN e = lo .. hi
        BY <1>2
      <4> QED BY <1>2, <1>5, <2>1, <2>2, <4>1, <4>2
    <3>2. s.snap.index \in DOMAIN s.entries
      BY <3>1 DEF MemHolds, MemRows
    <3>3. t.entries[s.snap.index] = s.entries[s.snap.index]
      BY <1>7, <3>1, <3>2 DEF PutAll
    <3> QED BY <3>1, <3>3 DEF MemHolds, MemSnapshot
  <2> QED BY <1>7, <1>9, <2>1, <2>2 DEF MemHolds, MemSnapshot
<1>16. MemHardState(t, n, r)
  BY <1>7, <1>9, <1>10 DEF MemHolds, MemHardState
<1> QED BY <1>11, <1>12, <1>14, <1>15, <1>16 DEF MemHolds, t, n, r

\* A compaction drops the entries before an index.
LEMMA CopiedCompact ==
  ASSUME NEW s, NEW first \in Nat, NEW index \in Nat, NEW last \in Nat,
         first <= index, index <= last
  PROVE  LET log == Copied(s, first, last)
         IN  SubSeq(log, index - first + 1, Len(log)) = Copied(s, index, last)
<1> DEFINE log == Copied(s, first, last)
<1>1. Len(log) = last - first + 1
  BY CopiedFacts
<1>2. \A n \in 1 .. last - first + 1 : log[n] = RowAt(s, first + n - 1)
  BY DEF Copied
<1> HIDE DEF log
<1>3. SubSeq(log, index - first + 1, Len(log)) = [n \in 1 .. last - index + 1 |-> log[n + (index - first)]]
  <2>1. Len(log) - (index - first + 1) + 1 = last - index + 1
    BY <1>1
  <2>2. SubSeq(log, index - first + 1, Len(log))
          = [n \in 1 .. Len(log) - (index - first + 1) + 1 |-> log[(index - first + 1) + n - 1]]
    BY <1>1
  <2>3. \A n \in Nat : (index - first + 1) + n - 1 = n + (index - first)
    OBVIOUS
  <2> QED BY <2>1, <2>2, <2>3
<1>4. ASSUME NEW n \in 1 .. last - index + 1
      PROVE  log[n + (index - first)] = RowAt(s, index + n - 1)
  <2>1. n + (index - first) \in 1 .. last - first + 1 /\ first + (n + (index - first)) - 1 = index + n - 1
    OBVIOUS
  <2>2. log[n + (index - first)] = RowAt(s, first + (n + (index - first)) - 1)
    BY <1>2, <2>1
  <2> QED BY <2>1, <2>2
<1>5. SubSeq(log, index - first + 1, Len(log)) = Copied(s, index, last)
  BY <1>3, <1>4 DEF Copied
<1> QED BY <1>5 DEF log

LEMMA MemCompacts ==
  ASSUME NEW s, StoreType(s), NEW c \in Heed!Calls(s), Asked(c), NEW first,
         MemHolds(s, mem, raft, first), c.op = "compact"
  PROVE  \E f : MemHolds(Effect(s, c), MemDone(mem, c), RaftAfter(c), f)
<1> DEFINE index == c.index
           t == Compact(s, index)
           n == MemDone(mem, c)
           f == IF index <= first THEN first ELSE index
<1>1. Effect(s, c) = t /\ RaftAfter(c) = raft /\ n = MemCompact(mem, index)
  BY DEF Effect, RaftAfter, MemDone
<1>2. index \in Nat /\ 1 <= index /\ index <= raft.commit
  BY CallTyped, StoragesAssumption DEF Asked, CallType, Indices
<1>3. /\ DOMAIN t.entries = {i \in DOMAIN s.entries : i >= index}
      /\ \A i \in DOMAIN t.entries : t.entries[i] = s.entries[i]
      /\ t.last = s.last /\ t.hs = s.hs /\ t.conf = s.conf /\ t.snap = s.snap
  BY DEF Compact, Restrict, StoreType
<1>4. /\ raft.last \in Nat /\ raft.commit \in Nat /\ raft.commit <= raft.last /\ first \in Nat
      /\ first <= raft.commit + 1 /\ 1 <= first
  BY DEF MemHolds, MemBounds
<1>5. f \in Nat /\ 1 <= f /\ first <= f /\ index <= f /\ f <= raft.commit + 1
      /\ (f > raft.last => f = first)
  BY <1>2, <1>4
<1>6. Copied(t, f, raft.last) = Copied(s, f, raft.last)
  <2>1. ASSUME NEW i \in f .. raft.last PROVE RowAt(t, i) = RowAt(s, i)
    <3>1. i \in DOMAIN t.entries
      BY <1>2, <1>3, <1>4, <1>5 DEF MemHolds, MemRows
    <3> HIDE DEF t
    <3> QED BY <1>3, <3>1 DEF RowAt
  <2> HIDE DEF f, t
  <2> QED BY <1>4, <1>5, <2>1, SameCopied
<1> HIDE DEF t
<1>7. /\ n.log = Copied(s, f, raft.last) /\ n.hs = mem.hs /\ n.conf = mem.conf /\ n.meta = mem.meta
      /\ n = [log |-> n.log, hs |-> n.hs, conf |-> n.conf, meta |-> n.meta, snap |-> n.snap]
  <2>1. MemFirstIndex(mem) = first
    BY MemReads
  <2>2. mem.log = Copied(s, first, raft.last)
        /\ mem = [log |-> mem.log, hs |-> mem.hs, conf |-> mem.conf, meta |-> mem.meta, snap |-> mem.snap]
    BY DEF MemHolds, MemShape
  <2>3. CASE index <= first
    <3>1. n = mem /\ f = first
      BY <1>1, <2>1, <2>3 DEF MemCompact
    <3> QED BY <2>2, <3>1
  <2>4. CASE ~(index <= first)
    <3> DEFINE log == SubSeq(mem.log, index - first + 1, Len(mem.log))
    <3>1. n = [mem EXCEPT !.log = log]
      BY <1>1, <2>1, <2>4 DEF MemCompact
    <3>2. log = Copied(s, index, raft.last)
      <4> DEFINE last == raft.last
                 i == c.index
      <4>1. i \in Nat /\ first \in Nat /\ last \in Nat /\ first <= i /\ i <= last
        BY <1>2, <1>4, <2>4
      <4> HIDE DEF i, last
      <4>2. SubSeq(Copied(s, first, last), i - first + 1, Len(Copied(s, first, last))) = Copied(s, i, last)
        BY <4>1, CopiedCompact
      <4> QED BY <2>2, <4>2 DEF i, last
    <3> HIDE DEF log, n
    <3> QED BY <2>2, <2>4, <3>1, <3>2
  <2> QED BY <2>3, <2>4
<1> HIDE DEF n, f, index
<1>8. MemShape(t, n, raft, f)
  BY <1>3, <1>6, <1>7 DEF MemHolds, MemShape
<1>9. MemBounds(t, n, raft, f)
  BY <1>3, <1>4, <1>5, <1>7 DEF MemHolds, MemBounds
<1>10. MemRows(t, raft, f)
  <2>1. f .. raft.last \subseteq DOMAIN t.entries
    BY <1>2, <1>3, <1>4, <1>5 DEF MemHolds, MemRows
  <2>2. ASSUME NEW i \in DOMAIN t.entries, NEW k \in raft.commit + 1 .. i PROVE k \in DOMAIN t.entries
    <3>1. k \in DOMAIN s.entries
      BY <1>3, <2>2 DEF MemHolds, MemRows
    <3> QED BY <1>2, <1>3, <1>4, <3>1
  <2> QED BY <2>1, <2>2 DEF MemRows
<1>11. MemSnapshot(t, raft, f)
  <2>1. ASSUME s.snap.index \in f .. raft.last PROVE s.snap.term = t.entries[s.snap.index].term
    <3>1. s.snap.index \in first .. raft.last
      BY <1>4, <1>5, <2>1
    <3>2. s.snap.index \in DOMAIN t.entries
      BY <1>2, <1>3, <1>4, <1>5, <2>1 DEF MemHolds, MemRows
    <3>3. s.snap.term = s.entries[s.snap.index].term
      BY <3>1 DEF MemHolds, MemSnapshot
    <3> QED BY <1>3, <3>2, <3>3
  <2> QED BY <1>3, <2>1 DEF MemHolds, MemSnapshot
<1>12. MemHardState(t, n, raft)
  BY <1>3, <1>7 DEF MemHolds, MemHardState
<1>13. MemHolds(t, n, raft, f)
  BY <1>8, <1>9, <1>10, <1>11, <1>12 DEF MemHolds
<1> QED BY <1>1, <1>13 DEF n

LEMMA MemRestores ==
  ASSUME NEW s, StoreType(s), NEW c \in Heed!Calls(s), Asked(c), NEW first,
         MemHolds(s, mem, raft, first), c.op = "apply_snapshot"
  PROVE  \E f : MemHolds(Effect(s, c), MemDone(mem, c), RaftAfter(c), f)
<1> DEFINE snap == c.snap
           t == ApplySnapshot(s, snap)
           n == MemApplySnapshot(mem, snap)
           r == [last |-> snap.index, commit |-> snap.index]
           hs == SnapshotHardState(s, snap)
<1>1. Effect(s, c) = t /\ RaftAfter(c) = r /\ MemDone(mem, c) = n
  BY DEF Effect, RaftAfter, MemDone
<1>2. /\ snap.index \in Nat /\ snap.term \in Nat /\ s.snap.index \in Nat /\ s.hs.term \in Nat
      /\ SnapshotType(snap)
  <2>1. SnapshotType(snap)
    BY CallTyped DEF CallType
  <2>2. snap.index \in Nat /\ snap.term \in Nat
    BY <2>1, StoragesAssumption DEF SnapshotType
  <2>3. s.snap.index \in Nat /\ s.hs.term \in Nat
    BY StoragesAssumption DEF SnapshotType, StoreType, HardStateType
  <2> QED BY <2>1, <2>2, <2>3
<1>3. /\ t.entries = s.entries /\ t.last = snap.index /\ t.hs = hs /\ t.conf = snap.conf
      /\ t.snap = snap
  BY DEF ApplySnapshot, StoreType
<1>4. /\ hs.term = IF s.hs.term < snap.term THEN snap.term ELSE s.hs.term
      /\ hs.vote = s.hs.vote /\ hs.commit = snap.index
  BY DEF SnapshotHardState, StoreType, HardStateType
<1>5. /\ raft.last \in Nat /\ raft.commit \in Nat /\ raft.commit <= raft.last /\ first \in Nat
      /\ first <= raft.commit + 1 /\ 1 <= first /\ raft.last <= s.last
      /\ raft = [last |-> raft.last, commit |-> raft.commit]
  BY DEF MemHolds, MemBounds, MemShape
<1>6. /\ mem = [log |-> mem.log, hs |-> mem.hs, conf |-> mem.conf, meta |-> mem.meta, snap |-> mem.snap]
      /\ mem.log = Copied(s, first, raft.last)
      /\ mem.hs = [term |-> s.hs.term, vote |-> s.hs.vote, commit |-> raft.commit]
  BY DEF MemHolds, MemShape, MemHardState
<1>7. MemFirstIndex(mem) = first
  BY MemReads
<1>8. snap.index > raft.commit \/ raft.last = 0
  BY DEF Asked
<1> HIDE DEF t, r, hs
<1>9. CASE snap.index = 0
  <2>1. s.last = 0 /\ s.snap.index = 0 /\ snap.term = s.snap.term
    BY <1>2, <1>9, CallFacts
  <2>2. snap.term = 0 /\ raft.last = 0 /\ raft.commit = 0 /\ r = raft /\ first = 1
    BY <1>2, <1>5, <1>9, <2>1 DEF MemHolds, MemSnapshot, r
  <2>3. n = [mem EXCEPT !.conf = snap.conf]
    BY <1>9 DEF MemApplySnapshot
  <2>4. /\ n.log = mem.log /\ n.hs = mem.hs /\ n.conf = snap.conf /\ n.meta = mem.meta
        /\ n = [log |-> n.log, hs |-> n.hs, conf |-> n.conf, meta |-> n.meta, snap |-> n.snap]
    <3> HIDE DEF n
    <3> QED BY <1>6, <2>3
  <2>5. Copied(t, first, raft.last) = Copied(s, first, raft.last)
    BY <1>3 DEF Copied, RowAt
  <2> HIDE DEF n
  <2>6. MemShape(t, n, r, first)
    BY <1>3, <1>5, <1>6, <2>2, <2>4, <2>5 DEF MemShape
  <2>7. MemBounds(t, n, r, first)
    BY <1>3, <1>9, <2>2, <2>4 DEF MemHolds, MemBounds
  <2>8. MemRows(t, r, first)
    BY <1>3, <2>2 DEF MemHolds, MemRows
  <2>9. MemSnapshot(t, r, first)
    BY <1>3, <1>9, <2>2 DEF MemSnapshot
  <2>10. MemHardState(t, n, r)
    <3>1. hs.term = s.hs.term
      BY <1>2, <1>4, <2>2
    <3> QED BY <1>3, <1>4, <1>6, <1>9, <2>2, <2>4, <3>1 DEF MemHardState
  <2>11. MemHolds(t, n, r, first)
    BY <2>6, <2>7, <2>8, <2>9, <2>10 DEF MemHolds
  <2> QED BY <1>1, <2>11
<1>10. CASE snap.index # 0
  <2>1. snap.index > raft.commit /\ ~(first > snap.index) /\ snap.index >= 1
    BY <1>2, <1>5, <1>8, <1>10
  <2>2. n = [mem EXCEPT !.meta = [index |-> snap.index, term |-> snap.term],
                        !.hs.term = Max({@, snap.term}), !.hs.commit = snap.index,
                        !.log = <<>>, !.conf = snap.conf]
    BY <1>7, <1>10, <2>1 DEF MemApplySnapshot
  <2>3. Max({s.hs.term, snap.term}) = hs.term
    <3>1. /\ Max({s.hs.term, snap.term}) \in {s.hs.term, snap.term}
          /\ s.hs.term <= Max({s.hs.term, snap.term}) /\ snap.term <= Max({s.hs.term, snap.term})
      BY <1>2, MaxOfTwo
    <3> QED BY <1>2, <1>4, <3>1
  <2>4. /\ n.log = <<>> /\ n.conf = snap.conf /\ n.meta.index = snap.index
        /\ n.hs = [term |-> hs.term, vote |-> s.hs.vote, commit |-> snap.index]
        /\ n = [log |-> n.log, hs |-> n.hs, conf |-> n.conf, meta |-> n.meta, snap |-> n.snap]
    <3> DEFINE meta == [index |-> snap.index, term |-> snap.term]
               h1 == [mem.hs EXCEPT !.term = Max({@, snap.term})]
               h2 == [h1 EXCEPT !.commit = snap.index]
    <3>1. h1 = [term |-> hs.term, vote |-> s.hs.vote, commit |-> raft.commit]
      BY <1>6, <2>3
    <3>2. h2 = [term |-> hs.term, vote |-> s.hs.vote, commit |-> snap.index]
      <4> HIDE DEF h1
      <4> QED BY <3>1
    <3>3. n = [[[[[mem EXCEPT !.meta = meta] EXCEPT !.hs = h1] EXCEPT !.hs = h2]
                 EXCEPT !.log = <<>>] EXCEPT !.conf = snap.conf]
      <4>1. [mem EXCEPT !.meta = meta].hs = mem.hs
        BY <1>6
      <4>2. [[mem EXCEPT !.meta = meta] EXCEPT !.hs = h1].hs = h1
        BY <1>6
      <4> HIDE DEF n
      <4> QED BY <2>2, <4>1, <4>2
    <3>4. [[[[[mem EXCEPT !.meta = meta] EXCEPT !.hs = h1] EXCEPT !.hs = h2]
             EXCEPT !.log = <<>>] EXCEPT !.conf = snap.conf]
            = [log |-> <<>>, hs |-> h2, conf |-> snap.conf, meta |-> meta, snap |-> mem.snap]
      <4> HIDE DEF h1, h2, meta
      <4> DEFINE m1 == [mem EXCEPT !.meta = meta]
                 m2 == [m1 EXCEPT !.hs = h1]
                 m3 == [m2 EXCEPT !.hs = h2]
                 m4 == [m3 EXCEPT !.log = <<>>]
      <4>1. m1 = [log |-> mem.log, hs |-> mem.hs, conf |-> mem.conf, meta |-> meta, snap |-> mem.snap]
        BY <1>6
      <4> HIDE DEF m1
      <4>2. m2 = [log |-> mem.log, hs |-> h1, conf |-> mem.conf, meta |-> meta, snap |-> mem.snap]
        BY <4>1
      <4> HIDE DEF m2
      <4>3. m3 = [log |-> mem.log, hs |-> h2, conf |-> mem.conf, meta |-> meta, snap |-> mem.snap]
        BY <4>2
      <4> HIDE DEF m3
      <4>4. m4 = [log |-> <<>>, hs |-> h2, conf |-> mem.conf, meta |-> meta, snap |-> mem.snap]
        BY <4>3
      <4> HIDE DEF m4
      <4>5. [m4 EXCEPT !.conf = snap.conf]
              = [log |-> <<>>, hs |-> h2, conf |-> snap.conf, meta |-> meta, snap |-> mem.snap]
        BY <4>4
      <4> QED BY <4>5 DEF m1, m2, m3, m4
    <3>5. n = [log |-> <<>>, hs |-> h2, conf |-> snap.conf, meta |-> meta, snap |-> mem.snap]
      BY <3>3, <3>4
    <3> HIDE DEF n, h1, h2
    <3> QED BY <3>2, <3>5
  <2> DEFINE f == snap.index + 1
  <2>5. r.last = snap.index /\ r.commit = snap.index /\ r = [last |-> r.last, commit |-> r.commit]
    BY DEF r
  <2>6. Copied(t, f, r.last) = <<>>
    <3> DEFINE i == c.snap.index
    <3>1. i + 1 \in Nat /\ i \in Nat /\ i + 1 <= i + 1
      BY <1>2
    <3> HIDE DEF i
    <3>2. Copied(t, i + 1, i) = <<>>
      BY <3>1, CopiedFacts
    <3> QED BY <2>5, <3>2 DEF i
  <2> HIDE DEF n
  <2>7. MemShape(t, n, r, f)
    BY <1>3, <2>4, <2>5, <2>6 DEF MemShape
  <2>8. MemBounds(t, n, r, f)
    BY <1>2, <1>3, <2>4, <2>5 DEF MemBounds
  <2>9. MemRows(t, r, f)
    <3>1. f .. r.last = {}
      BY <1>2, <2>5
    <3>2. ASSUME NEW i \in DOMAIN s.entries, NEW k \in r.commit + 1 .. i PROVE k \in DOMAIN s.entries
      <4>1. k \in raft.commit + 1 .. i
        BY <1>2, <1>5, <2>1, <2>5, StoragesAssumption DEF StoreType, Indices
      <4> QED BY <4>1 DEF MemHolds, MemRows
    <3> QED BY <1>3, <3>1, <3>2 DEF MemRows
  <2>10. MemSnapshot(t, r, f)
    BY <1>2, <1>3, <1>10, <2>5 DEF MemSnapshot
  <2>11. MemHardState(t, n, r)
    BY <1>2, <1>3, <1>4, <2>4, <2>5 DEF MemHardState
  <2>12. MemHolds(t, n, r, f)
    BY <2>7, <2>8, <2>9, <2>10, <2>11 DEF MemHolds
  <2> QED BY <1>1, <2>12
<1> QED BY <1>9, <1>10

\* Until a crash the relation holds between what the program sees of the store,
\* the MemStorage and raft-rs's state, and the call that runs is one raft-rs
\* asked for.
MemInv ==
  /\ crashes \in Nat
  /\ crashes = 0 =>
       /\ \E first : MemHolds(Visible, mem, raft, first)
       /\ call # Idle => Asked(call)

LEMMA MemInvInit ==
  ASSUME Init
  PROVE  MemInv
<1> DEFINE s == EmptyStore
<1>1. /\ Visible = s /\ crashes = 0 /\ call = Idle
      /\ raft = [last |-> 0, commit |-> 0] /\ mem = MemCreate
  BY EmptyView DEF Init, Visible
<1>2. /\ s.entries = <<>> /\ s.last = 0 /\ s.conf = 0
      /\ s.hs.term = 0 /\ s.hs.vote = 0 /\ s.hs.commit = 0 /\ s.snap.index = 0 /\ s.snap.term = 0
  BY DEF EmptyStore, DefaultHardState, DefaultSnapshot, NoVote
<1>3. DOMAIN s.entries = {}
  BY <1>2
<1> HIDE DEF s
<1>4. Copied(s, 1, 0) = <<>>
  BY CopiedFacts
<1>5. MemShape(s, mem, raft, 1)
  BY <1>1, <1>2, <1>4 DEF MemShape, MemCreate
<1>6. MemBounds(s, mem, raft, 1)
  BY <1>1, <1>2 DEF MemBounds, MemCreate
<1>7. MemRows(s, raft, 1)
  BY <1>1, <1>3 DEF MemRows
<1>8. MemSnapshot(s, raft, 1)
  BY <1>1, <1>2 DEF MemSnapshot
<1>9. MemHardState(s, mem, raft)
  BY <1>1, <1>2 DEF MemHardState, MemCreate, DefaultHardState, NoVote
<1>10. MemHolds(s, mem, raft, 1)
  BY <1>5, <1>6, <1>7, <1>8, <1>9 DEF MemHolds
<1> QED BY <1>1, <1>10 DEF MemInv

\* A call of raft-rs on both storages.
LEMMA MemFollows ==
  ASSUME NEW s, StoreType(s), NEW c \in Heed!Calls(s), Asked(c), NEW first,
         MemHolds(s, mem, raft, first), engine \in {"heed", "rocksdb"},
         NEW t, t = IF engine = "heed" THEN Heed!Done(s, c) ELSE Rocks!Done(s, c)
  PROVE  \E f : MemHolds(t, MemDone(mem, c), RaftAfter(c), f)
<1>1. CallType(c)
  BY CallTyped
<1>2. t = IF engine = "heed" /\ ~HeedCommits(c) THEN s ELSE Effect(s, c)
  BY <1>1, SameEffects
<1>3. CASE c.op = "set_hard_state_commit"
  <2>1. t = IF engine = "heed" THEN s ELSE Effect(s, c)
    BY <1>2, <1>3 DEF HeedCommits
  <2> QED BY <1>3, <2>1, MemCommits
<1>4. CASE c.op # "set_hard_state_commit"
  <2>1. t = Effect(s, c)
    BY <1>2, <1>4 DEF HeedCommits
  <2>2. CASE c.op \in {"set_hard_state", "set_conf_state", "create_snapshot"}
    BY <2>1, <2>2, MemMetadata
  <2>3. CASE c.op = "append"
    BY <2>1, <2>3, MemAppends
  <2>4. CASE c.op = "apply_snapshot"
    BY <2>1, <2>4, MemRestores
  <2>5. CASE c.op = "compact"
    BY <2>1, <2>5, MemCompacts
  <2> QED BY <1>1, <1>4, <2>2, <2>3, <2>4, <2>5 DEF CallType
<1> QED BY <1>3, <1>4

LEMMA MemInvStep ==
  ASSUME KeysOrdered, CallInv, MemInv, [Next]_vars
  PROVE  MemInv'
<1>1. CASE UNCHANGED vars
  <2>1. /\ crashes' = crashes /\ call' = call /\ mem' = mem /\ raft' = raft /\ db' = db
        /\ before' = before /\ engine' = engine
    BY <1>1 DEF vars
  <2>2. View(db)' = View(db) /\ View(before)' = View(before)
    BY <2>1
  <2>3. Visible' = Visible
    BY <2>1, <2>2 DEF Visible
  <2> QED BY <2>1, <2>3 DEF MemInv, MemHolds, MemShape, MemBounds, MemRows, MemSnapshot,
                            MemHardState, Asked
<1>2. ASSUME NEW c \in Heed!Calls(View(db)), Begin(c) PROVE MemInv'
  <2>1. /\ crashes' = crashes /\ call' = c /\ mem' = mem /\ raft' = raft /\ engine' = engine
        /\ call = Idle /\ before' = db /\ Asked(c)
    BY <1>2 DEF Begin
  <2>2. c # Idle
    BY <1>2, CallTyped, CallsAreCalls DEF CallInv
  <2>3. View(before)' = View(db)
    BY <2>1
  <2>4. Visible' = Visible
    BY <2>1, <2>2, <2>3 DEF Visible
  <2>5. Asked(call)'
    BY <2>1 DEF Asked
  <2>6. ASSUME NEW first, MemHolds(Visible, mem, raft, first)
        PROVE  MemHolds(Visible, mem, raft, first)'
    BY <2>1, <2>4, <2>6 DEF MemHolds, MemShape, MemBounds, MemRows, MemSnapshot, MemHardState
  <2> QED BY <2>1, <2>5, <2>6 DEF MemInv
<1>3. CASE Write
  <2>1. /\ crashes' = crashes /\ call' = call /\ mem' = mem /\ raft' = raft /\ engine' = engine
        /\ before' = before /\ todo # <<>>
    BY <1>3 DEF Write
  <2>2. call # Idle
    BY <2>1 DEF CallInv
  <2>3. View(before)' = View(before)
    BY <2>1
  <2>4. Visible' = Visible
    BY <2>1, <2>2, <2>3 DEF Visible
  <2>5. Asked(call) => Asked(call)'
    BY <2>1 DEF Asked
  <2>6. ASSUME NEW first, MemHolds(Visible, mem, raft, first)
        PROVE  MemHolds(Visible, mem, raft, first)'
    BY <2>1, <2>4, <2>6 DEF MemHolds, MemShape, MemBounds, MemRows, MemSnapshot, MemHardState
  <2> QED BY <2>1, <2>2, <2>5, <2>6 DEF MemInv
<1>4. CASE Return
  <2>1. /\ call # Idle /\ call' = Idle /\ crashes' = crashes /\ engine' = engine
        /\ raft' = RaftAfter(call) /\ mem' = IF crashes = 0 THEN MemDone(mem, call) ELSE mem
    BY <1>4 DEF Return
  <2> SUFFICES ASSUME crashes = 0
               PROVE  \E first : MemHolds(Visible, mem, raft, first)'
    BY <2>1 DEF MemInv
  <2> DEFINE s == View(before)
             t == IF engine = "heed" THEN Heed!Done(s, call) ELSE Rocks!Done(s, call)
  <2>2. /\ Visible = s /\ StoreType(s) /\ call \in Heed!Calls(s) /\ CallType(call)
        /\ engine \in {"heed", "rocksdb"}
    BY <2>1, CallTyped DEF CallInv, Visible
  <2>3. Visible' = t
    BY <1>4, <2>1, <2>2, ReturnStep
  <2>4. PICK first : MemHolds(s, mem, raft, first)
    BY <2>2 DEF MemInv
  <2>5. Asked(call)
    BY <2>1 DEF MemInv
  <2>6. PICK f : MemHolds(t, MemDone(mem, call), RaftAfter(call), f)
    <3> HIDE DEF s
    <3>1. t = IF engine = "heed" THEN Heed!Done(s, call) ELSE Rocks!Done(s, call)
      OBVIOUS
    <3> HIDE DEF t
    <3> QED BY <2>2, <2>4, <2>5, <3>1, MemFollows
  <2>7. MemHolds(Visible, mem, raft, f)'
    <3> HIDE DEF t
    <3> QED BY <2>1, <2>3, <2>6 DEF MemHolds, MemShape, MemBounds, MemRows, MemSnapshot, MemHardState
  <2> QED BY <2>7
<1>5. CASE Crash
  <2>1. crashes' = crashes + 1
    BY <1>5 DEF Crash
  <2> QED BY <2>1 DEF MemInv
<1> QED BY <1>1, <1>2, <1>3, <1>4, <1>5 DEF Next

LEMMA MemInvAgrees ==
  ASSUME CallInv, MemInv
  PROVE  MemAgrees
<1> SUFFICES ASSUME call = Idle, crashes = 0
             PROVE  LET s == View(db)
                    IN  /\ MemLastIndex(mem) = raft.last /\ raft.last <= LastIndex(s)
                        /\ FirstIndex(s) <= MemFirstIndex(mem)
                        /\ \A i \in MemFirstIndex(mem) .. MemLastIndex(mem) : MemTerm(mem, i) = Term(s, i)
                        /\ mem.conf = s.conf /\ mem.hs.term = s.hs.term /\ mem.hs.vote = s.hs.vote
                        /\ s.hs.commit <= mem.hs.commit /\ (engine = "rocksdb" => s.hs = mem.hs)
  BY DEF MemAgrees
<1> DEFINE s == View(db)
<1>1. PICK first : MemHolds(s, mem, raft, first)
  BY DEF MemInv, Visible
<1>2. StoreType(s)
  BY DEF CallInv
<1> HIDE DEF s
<1>3. /\ MemFirstIndex(mem) = first /\ MemLastIndex(mem) = raft.last
      /\ \A i \in first .. raft.last : MemTerm(mem, i) = s.entries[i].term
  BY <1>1, MemReads
<1>4. /\ raft.last \in Nat /\ raft.commit \in Nat /\ raft.commit <= raft.last /\ raft.last <= s.last
      /\ first \in Nat /\ first <= raft.commit + 1 /\ 1 <= first
  BY <1>1 DEF MemHolds, MemBounds
<1>5. s.snap.index \in Nat /\ s.snap.index <= raft.commit
  BY <1>1, <1>2, StoragesAssumption DEF MemHolds, MemSnapshot, StoreType, SnapshotType
<1>6. \A i \in first .. raft.last : i \in DOMAIN s.entries /\ Term(s, i) = s.entries[i].term
  <2> TAKE i \in first .. raft.last
  <2>1. i \in DOMAIN s.entries
    BY <1>1 DEF MemHolds, MemRows
  <2>2. i = s.snap.index => s.snap.term = s.entries[i].term
    BY <1>1 DEF MemHolds, MemSnapshot
  <2> QED BY <2>1, <2>2 DEF Term
<1>7. FirstIndex(s) <= first
  <2>1. CASE first <= raft.last
    <3>1. first \in DOMAIN s.entries /\ DOMAIN s.entries \in SUBSET Nat
      BY <1>2, <1>4, <1>6, <2>1, StoragesAssumption DEF StoreType, Indices
    <3> QED BY <3>1, BoundedMin DEF FirstIndex
  <2>2. CASE ~(first <= raft.last)
    <3>1. first = raft.commit + 1
      BY <1>4, <2>2
    <3>2. CASE DOMAIN s.entries = {}
      BY <1>4, <1>5, <3>1, <3>2 DEF FirstIndex
    <3>3. CASE DOMAIN s.entries # {}
      <4>1. DOMAIN s.entries \in SUBSET Nat
        BY <1>2, StoragesAssumption DEF StoreType, Indices
      <4>2. /\ Min(DOMAIN s.entries) \in DOMAIN s.entries /\ Min(DOMAIN s.entries) \in Nat
            /\ \A i \in DOMAIN s.entries : Min(DOMAIN s.entries) <= i
        BY <3>3, <4>1, BoundedMin
      <4>3. CASE Min(DOMAIN s.entries) <= raft.commit
        BY <1>4, <3>1, <3>3, <4>2, <4>3 DEF FirstIndex
      <4>4. CASE ~(Min(DOMAIN s.entries) <= raft.commit)
        <5>1. raft.commit + 1 \in raft.commit + 1 .. Min(DOMAIN s.entries)
          BY <1>4, <4>2, <4>4
        <5>2. raft.commit + 1 \in DOMAIN s.entries
          BY <1>1, <4>2, <5>1 DEF MemHolds, MemRows
        <5> QED BY <3>1, <3>3, <4>2, <5>2 DEF FirstIndex
      <4> QED BY <4>3, <4>4
    <3> QED BY <3>2, <3>3
  <2> QED BY <2>1, <2>2
<1>8. /\ mem.conf = s.conf /\ mem.hs.term = s.hs.term /\ mem.hs.vote = s.hs.vote
      /\ s.hs.commit <= mem.hs.commit /\ (engine = "rocksdb" => s.hs = mem.hs)
  <2>1. s.hs = [term |-> s.hs.term, vote |-> s.hs.vote, commit |-> s.hs.commit]
    BY <1>2 DEF StoreType, HardStateType
  <2>2. mem.hs = [term |-> s.hs.term, vote |-> s.hs.vote, commit |-> raft.commit]
        /\ s.hs.commit <= raft.commit /\ (engine = "rocksdb" => s.hs.commit = raft.commit)
    BY <1>1 DEF MemHolds, MemHardState
  <2>3. mem.conf = s.conf
    BY <1>1 DEF MemHolds, MemShape
  <2> QED BY <2>1, <2>2, <2>3
<1> QED BY <1>3, <1>4, <1>6, <1>7, <1>8 DEF LastIndex, s

\* Given the same calls, MemStorage (the storage of the tests) and a persistent
\* storage answer first_index, last_index, term, the conf state and the hard
\* state alike until a crash, except for the commit index that HeedStorage's
\* set_hard_state_commit forgets and for rows a persistent one keeps longer.
THEOREM MemStorageAgrees ==
  ASSUME KeysOrdered
  PROVE  Spec => []MemAgrees
<1>1. Init => MemInv
  BY MemInvInit
<1>2. CallInv /\ MemInv /\ [Next]_vars => MemInv'
  BY MemInvStep
<1>3. CallInv /\ MemInv => MemAgrees
  BY MemInvAgrees
<1> QED BY <1>1, <1>2, <1>3, CallsTyped, PTL DEF Spec

-----------------------------------------------------------------------------
(* The archive of compacted entries *)

LEMMA KeysFinite ==
  ASSUME NEW I, I \subseteq Indices
  PROVE  LET keys == {Key(i) : i \in I} IN IsFiniteSet(keys) /\ Cardinality(keys) \in Nat
<1> DEFINE keys == {Key(i) : i \in I}
<1>1. IsFiniteSet(1 .. MaxIndex)
  BY StoragesAssumption, FS_Interval
<1>2. IsFiniteSet(I)
  BY <1>1, FS_Subset DEF Indices
<1>3. [i \in I |-> Key(i)] \in Surjection(I, keys)
  BY DEF Surjection
<1>4. IsFiniteSet(keys)
  BY <1>2, <1>3, FS_Surjection
<1> QED BY <1>4, FS_CardinalityType

\* A set of keys of entries, in key order, has each of them.
LEMMA InOrderComplete ==
  ASSUME KeysOrdered, NEW I \in SUBSET Indices, NEW keys, keys = {Key(i) : i \in I}, NEW x \in keys
  PROVE  \E n \in 1 .. Cardinality(keys) : InOrder(keys)[n] = x
<1> DEFINE below(k) == {l \in keys : Before(l, k)}
           rank == [k \in keys |-> Cardinality(below(k))]
<1>1. IsFiniteSet(keys)
  BY KeysFinite
<1>2. \A k \in keys : IsFiniteSet(below(k)) /\ rank[k] \in Nat /\ rank[k] = Cardinality(below(k))
  BY <1>1, FS_Subset, FS_CardinalityType
<1>3. Cardinality(keys) \in Nat /\ \A k \in keys : rank[k] \in Nat
  BY <1>1, <1>2, FS_CardinalityType
<1>4. \A i, j \in I : (Before(Key(i), Key(j)) <=> i < j) /\ i \in Nat /\ j \in Nat
  <2>1. I \subseteq 0 .. MaxIndex + 1 /\ I \subseteq Nat
    BY StoragesAssumption DEF Indices
  <2> QED BY <2>1 DEF KeysOrdered
<1>5. \A k \in keys : k \notin below(k)
  BY <1>4
<1>6. ASSUME NEW k \in keys, NEW l \in keys, l \in below(k) PROVE rank[l] < rank[k]
  <2>1. below(l) \subseteq below(k)
    <3> SUFFICES ASSUME NEW m \in keys, Before(m, l) PROVE Before(m, k)
      OBVIOUS
    <3>1. PICK i \in I, j \in I, h \in I : k = Key(i) /\ l = Key(j) /\ m = Key(h)
      OBVIOUS
    <3>2. j < i /\ h < j
      BY <1>4, <1>6, <3>1
    <3>3. h < i
      BY <1>4, <3>2
    <3> QED BY <1>4, <3>1, <3>3
  <2>2. below(l) # below(k)
    BY <1>5, <1>6
  <2>3. rank[l] <= rank[k] /\ rank[l] # rank[k]
    <3> HIDE DEF below
    <3> QED BY <1>2, <2>1, <2>2, FS_Subset
  <2> HIDE DEF rank
  <2> QED BY <1>3, <2>3
<1>7. ASSUME NEW k \in keys, NEW l \in keys, rank[k] = rank[l] PROVE k = l
  <2>1. PICK i \in I, j \in I : k = Key(i) /\ l = Key(j)
    OBVIOUS
  <2>2. i < j => k \in below(l)
    BY <1>4, <2>1
  <2>3. j < i => l \in below(k)
    BY <1>4, <2>1
  <2>4. ~(rank[k] < rank[l]) /\ ~(rank[l] < rank[k])
    <3> HIDE DEF rank
    <3> QED BY <1>3, <1>7
  <2>5. ~(i < j) /\ ~(j < i)
    <3> HIDE DEF rank, below
    <3> QED BY <1>6, <2>2, <2>3, <2>4
  <2> QED BY <1>4, <2>1, <2>5
<1>8. rank[x] + 1 \in 1 .. Cardinality(keys)
  <2>1. below(x) \subseteq keys /\ below(x) # keys
    BY <1>5
  <2>2. rank[x] <= Cardinality(keys) /\ rank[x] # Cardinality(keys)
    <3> HIDE DEF below
    <3> QED BY <1>1, <2>1, FS_Subset
  <2> HIDE DEF rank
  <2> QED BY <1>3, <2>2
<1>9. InOrder(keys)[rank[x] + 1] = x
  <2> DEFINE n == rank[x] + 1
  <2>1. InOrder(keys)[n] = CHOOSE k \in keys : rank[k] = n - 1
    <3> HIDE DEF n
    <3> QED BY <1>8 DEF InOrder, n
  <2>2. rank[x] = n - 1
    <3> HIDE DEF rank
    <3> QED BY <1>3
  <2> HIDE DEF n, rank
  <2> QED BY <1>7, <2>1, <2>2 DEF n
<1> HIDE DEF rank
<1> QED BY <1>8, <1>9

\* A file of entries.
IsList(f) == f \in Seq(ToSet(f))

LEMMA Listed ==
  ASSUME NEW f, NEW n \in Nat, DOMAIN f = 1 .. n, f = [i \in 1 .. n |-> f[i]]
  PROVE  IsList(f)
<1>1. \A i \in 1 .. n : f[i] \in ToSet(f)
  BY DEF ToSet
<1> QED BY <1>1 DEF IsList

LEMMA ListsJoin ==
  ASSUME NEW f, IsList(f), NEW g, IsList(g)
  PROVE  IsList(f \o g) /\ ToSet(g) \subseteq ToSet(f \o g)
<1> DEFINE X == ToSet(f) \cup ToSet(g)
           h == f \o g
<1>1. f \in Seq(X) /\ g \in Seq(X)
  BY DEF IsList
<1>2. /\ Len(f) \in Nat /\ Len(g) \in Nat /\ DOMAIN g = 1 .. Len(g)
      /\ h \in Seq(X) /\ Len(h) = Len(f) + Len(g) /\ DOMAIN h = 1 .. Len(h)
      /\ h = [i \in 1 .. Len(h) |-> h[i]]
      /\ \A i \in 1 .. Len(g) : h[Len(f) + i] = g[i]
  <2> HIDE DEF X
  <2>1. h \in Seq(X) /\ Len(h) = Len(f) + Len(g)
    BY <1>1
  <2>2. \A i \in 1 .. Len(g) : h[Len(f) + i] = g[i]
    BY <1>1
  <2> HIDE DEF h
  <2> QED BY <1>1, <2>1, <2>2
<1> HIDE DEF h
<1>3. IsList(h)
  <2>1. Len(h) \in Nat
    BY <1>2
  <2> QED BY <1>2, <2>1, Listed
<1>4. \A i \in 1 .. Len(g) : Len(f) + i \in 1 .. Len(h)
  BY <1>2
<1>5. ToSet(g) \subseteq ToSet(h)
  BY <1>2, <1>4 DEF ToSet
<1> QED BY <1>3, <1>5 DEF h

\* The file f has every entry of the tables d below an index.
Covers(f, d, index) == \A i \in Rows(d) : i < index => d.log[Key(i)] \in ToSet(f)

LEMMA DoomedCovers ==
  ASSUME KeysOrdered, NEW d, TableType(d), NEW index \in Indices
  PROVE  IsList(Doomed(d, index)) /\ Covers(Doomed(d, index), d, index)
<1> DEFINE I == {i \in Rows(d) : i < index}
           keys == {k \in DOMAIN d.log : ~Before(k, <<>>) /\ Before(k, Key(index))}
           m == Cardinality(keys)
           batch == [n \in 1 .. m |-> d.log[InOrder(keys)[n]]]
<1>1. I \subseteq Indices /\ I \subseteq 0 .. MaxIndex + 1 /\ index \in 0 .. MaxIndex + 1
  BY StoragesAssumption DEF Rows, Indices
<1>2. keys = {Key(i) : i \in I}
  <2>1. \A k : ~Before(k, <<>>)
    BY DEF Before
  <2>2. \A k \in DOMAIN d.log : \E i \in Rows(d) : k = Key(i)
    BY DEF TableType, Rows
  <2>3. \A i \in Rows(d) : Key(i) \in DOMAIN d.log /\ (Before(Key(i), Key(index)) <=> i < index)
    <3>1. \A i \in Rows(d) : i \in 0 .. MaxIndex + 1
      BY StoragesAssumption DEF Rows, Indices
    <3>2. \A i \in Rows(d) : Before(Key(i), Key(index)) <=> i < index
      BY <1>1, <3>1 DEF KeysOrdered
    <3> QED BY <3>2 DEF Rows
  <2> QED BY <2>1, <2>2, <2>3
<1>3. Doomed(d, index) = batch /\ m \in Nat
  <2>1. Cardinality(keys) \in Nat
    BY <1>1, <1>2, KeysFinite
  <2>2. Len(InOrder(keys)) = m
    <3> HIDE DEF keys
    <3> QED BY <2>1 DEF InOrder
  <2> QED BY <2>1, <2>2 DEF Doomed, Scan
<1>4. IsList(batch)
  <2> HIDE DEF m
  <2> QED BY <1>3, Listed
<1>5. ASSUME NEW i \in Rows(d), i < index PROVE d.log[Key(i)] \in ToSet(batch)
  <2>1. Key(i) \in keys
    BY <1>2, <1>5
  <2>2. PICK n \in 1 .. m : InOrder(keys)[n] = Key(i)
    <3>1. I \in SUBSET Indices
      BY <1>1
    <3> HIDE DEF I, keys
    <3> QED BY <1>2, <2>1, <3>1, InOrderComplete, ZenonT(60)
  <2> HIDE DEF keys, m
  <2> QED BY <2>2 DEF ToSet
<1> HIDE DEF batch
<1> QED BY <1>3, <1>4, <1>5 DEF Covers

ToFile(f) == [table |-> "file", value |-> f]

\* A compact of HeedStorage: what is about to be deleted is on its way to the
\* file, and in it before the delete is the next write.
Archiving(d, index, file, writes) ==
  \/ \E f, g : /\ writes = <<ToFile(f), ToFile(g), DeleteBelow(Key(index))>>
               /\ IsList(f) /\ IsList(g) /\ Covers(g, d, index)
  \/ \E g : /\ writes = <<ToFile(g), DeleteBelow(Key(index))>>
            /\ IsList(g) /\ Covers(g, d, index)
  \/ writes \in {<<DeleteBelow(Key(index))>>, <<>>} /\ Covers(file, d, index)

ArchiveInv ==
  engine = "heed" =>
    /\ IsList(archive)
    /\ call # Idle /\ call.op = "compact" => Archiving(before, call.index, archive, todo)

LEMMA CompactArchives ==
  ASSUME KeysOrdered, NEW d, TableType(d), NEW index \in Indices, NEW file, IsList(file), NEW threshold
  PROVE  Archiving(d, index, file, HeedCompact(d, index, file, threshold))
<1> DEFINE batch == Doomed(d, index)
           f == ArchiveCut(file, batch)
           g == SaveCompactedEntries(file, batch, threshold)
<1>1. IsList(batch) /\ Covers(batch, d, index)
  BY DoomedCovers
<1>2. IsList(f)
  <2>1. IsList(<<>>)
    BY DEF IsList
  <2> QED BY <2>1 DEF ArchiveCut
<1>3. IsList(g) /\ Covers(g, d, index)
  <2> HIDE DEF batch
  <2>1. IsList(file \o batch) /\ ToSet(batch) \subseteq ToSet(file \o batch)
    BY <1>1, ListsJoin
  <2> QED BY <1>1, <2>1 DEF SaveCompactedEntries, Covers
<1>4. HeedCompact(d, index, file, threshold) = <<ToFile(f), ToFile(g), DeleteBelow(Key(index))>>
  BY DEF HeedCompact, ToFile
<1> HIDE DEF f, g
<1> QED BY <1>2, <1>3, <1>4 DEF Archiving

\* Only a compact writes to the file.
LEMMA NoFile ==
  ASSUME NEW s, NEW c, CallType(c), c.op # "compact", NEW v, NEW writes, writes # <<>>,
         Progress(s, c, v, writes)
  PROVE  Head(writes).table # "file"
<1>1. CASE c.op = "append"
  <2>1. ASSUME NEW lo \in Indices, NEW hi \in Indices, NEW last, NEW k \in Indices \cup {MaxIndex + 1},
               k <= hi + 1, writes = AppendLeft(c.ents, hi, last, k)
        PROVE  Head(writes).table # "file"
    <3>1. k \in Nat /\ hi \in Nat /\ 1 \in 1 .. hi - k + 2
      BY <2>1, StoragesAssumption DEF Indices
    <3>2. Head(writes) = writes[1]
      BY <2>1, <3>1 DEF AppendLeft
    <3>3. writes[1] = IF 1 <= hi - k + 1 THEN PutEntry([index |-> k + 1 - 1, term |-> c.ents[k + 1 - 1].term])
                      ELSE PutMeta("last_index", last)
      BY <2>1, <3>1 DEF AppendLeft
    <3> QED BY <3>2, <3>3, NotFiles
  <2> QED BY <1>1, <2>1 DEF Progress, Appending
<1>2. CASE c.op \in {"set_hard_state", "set_hard_state_commit", "set_conf_state", "create_snapshot"}
  <2>1. \A key, x : Head(<<PutMeta(key, x)>>) = PutMeta(key, x)
    OBVIOUS
  <2> QED BY <1>2, <2>1, NotFiles DEF Progress, OnePut
<1>3. CASE c.op = "apply_snapshot"
  <2>1. Applying(s, c.snap, v, writes)
    BY <1>3 DEF Progress
  <2>2. \E key, x : Head(writes) = PutMeta(key, x)
    BY <2>1 DEF Applying
  <2> QED BY <2>2, NotFiles
<1> QED BY <1>1, <1>2, <1>3 DEF CallType

LEMMA ArchiveInvStep ==
  ASSUME KeysOrdered, CallInv, ArchiveInv, [Next]_vars
  PROVE  ArchiveInv'
<1> SUFFICES ASSUME engine = "heed"
             PROVE  /\ IsList(archive')
                    /\ call' # Idle /\ call'.op = "compact" =>
                         Archiving(before', call'.index, archive', todo')
  BY DEF ArchiveInv, Next, Begin, Write, Return, Crash, vars
<1>1. CASE UNCHANGED vars
  BY <1>1 DEF vars, ArchiveInv
<1>2. ASSUME NEW c \in Heed!Calls(View(db)), Begin(c)
      PROVE  /\ IsList(archive')
             /\ call'.op = "compact" => Archiving(before', call'.index, archive', todo')
  <2>1. call' = c /\ before' = db /\ archive' = archive
        /\ todo' = HeedWrites(db, c, archive, ArchiveThreshold)
    BY <1>2 DEF Begin
  <2>2. CASE c.op = "compact"
    <3>1. c.index \in Indices
      BY <2>2, CallTyped DEF CallType, CallInv
    <3>2. todo' = HeedCompact(db, c.index, archive, ArchiveThreshold)
      BY <2>1, <2>2 DEF HeedWrites
    <3> QED BY <2>1, <3>1, <3>2, CompactArchives DEF CallInv, ArchiveInv
  <2> QED BY <2>1, <2>2 DEF ArchiveInv
<1>3. CASE Write
  <2> DEFINE w == Head(todo)
  <2>1. /\ todo # <<>> /\ todo' = Tail(todo) /\ call' = call /\ before' = before
        /\ archive' = IF w.table = "file" THEN w.value ELSE archive
    BY <1>3 DEF Write
  <2>2. call # Idle /\ CallType(call) /\ Progress(View(before), call, View(txn), todo)
    BY <2>1, CallTyped DEF CallInv
  <2>3. CASE call.op = "compact"
    <3> DEFINE delete == DeleteBelow(Key(call.index))
    <3>1. Archiving(before, call.index, archive, todo)
      BY <2>2, <2>3 DEF ArchiveInv
    <3>2. CASE \E f, g : /\ todo = <<ToFile(f), ToFile(g), delete>>
                         /\ IsList(f) /\ IsList(g) /\ Covers(g, before, call.index)
      <4>1. PICK f, g : /\ todo = <<ToFile(f), ToFile(g), delete>>
                        /\ IsList(f) /\ IsList(g) /\ Covers(g, before, call.index)
        BY <3>2
      <4>2. w = ToFile(f) /\ Tail(todo) = <<ToFile(g), delete>>
        BY <4>1
      <4>3. archive' = f
        BY <2>1, <4>2 DEF ToFile
      <4> QED BY <2>1, <4>1, <4>2, <4>3 DEF Archiving
    <3>3. CASE \E g : /\ todo = <<ToFile(g), delete>>
                      /\ IsList(g) /\ Covers(g, before, call.index)
      <4>1. PICK g : /\ todo = <<ToFile(g), delete>>
                     /\ IsList(g) /\ Covers(g, before, call.index)
        BY <3>3
      <4>2. w = ToFile(g) /\ Tail(todo) = <<delete>>
        BY <4>1
      <4>3. archive' = g
        BY <2>1, <4>2 DEF ToFile
      <4> QED BY <2>1, <4>1, <4>2, <4>3 DEF Archiving
    <3>4. CASE todo = <<delete>> /\ Covers(archive, before, call.index)
      <4>1. w = delete /\ Tail(todo) = <<>>
        BY <3>4
      <4>2. archive' = archive
        BY <2>1, <4>1, NotFiles
      <4> QED BY <2>1, <3>4, <4>1, <4>2 DEF Archiving, ArchiveInv
    <3> QED BY <2>1, <3>1, <3>2, <3>3, <3>4 DEF Archiving
  <2>4. CASE call.op # "compact"
    <3>1. w.table # "file"
      BY <2>1, <2>2, <2>4, NoFile
    <3> QED BY <2>1, <2>4, <3>1 DEF ArchiveInv
  <2> QED BY <2>3, <2>4
<1>4. CASE Return
  BY <1>4 DEF Return, ArchiveInv
<1>5. CASE Crash
  BY <1>5 DEF Crash, ArchiveInv
<1> QED BY <1>1, <1>2, <1>3, <1>4, <1>5 DEF Next

\* Only a compact takes rows out of the log.
LEMMA RowsStay ==
  ASSUME NEW s, NEW c, CallType(c), c.op # "compact"
  PROVE  DOMAIN s.entries \subseteq DOMAIN Effect(s, c).entries
<1>1. CASE c.op = "append"
  <2>1. DOMAIN s.entries \subseteq DOMAIN AppendEntries(s, c.ents).entries
    <3>1. DOMAIN s.entries \subseteq DOMAIN PutAll(s.entries, c.ents)
      BY DEF PutAll
    <3> QED BY <3>1 DEF AppendEntries
  <2> QED BY <1>1, <2>1 DEF Effect
<1>2. CASE c.op \in {"set_hard_state", "set_hard_state_commit", "set_conf_state", "create_snapshot"}
  BY <1>2 DEF Effect, SetHardState, SetConfState, CreateSnapshot
<1>3. CASE c.op = "apply_snapshot"
  <2>1. ApplySnapshot(s, c.snap).entries = s.entries
    BY DEF ApplySnapshot
  <2> QED BY <1>3, <2>1 DEF Effect
<1> QED BY <1>1, <1>2, <1>3 DEF CallType

LEMMA RowsOfView ==
  ASSUME KeysOrdered, NEW d, TableType(d)
  PROVE  /\ DOMAIN View(d).entries = Rows(d)
         /\ \A k \in DOMAIN d.log : \E i \in Rows(d) : k = Key(i)
<1>1. DOMAIN View(d).entries = Rows(d)
  BY ViewRows DEF Record
<1> QED BY <1>1 DEF TableType, Rows

LEMMA RowsAreArchived ==
  ASSUME KeysOrdered, CallInv, ArchiveInv, [Next]_vars, engine = "heed",
         NEW k \in DOMAIN db.log \ DOMAIN db'.log
  PROVE  db.log[k] \in ToSet(archive')
<1>1. Return /\ db' = txn
  BY DEF Next, Begin, Write, Return, Crash, vars
<1>2. /\ call # Idle /\ todo = <<>> /\ archive' = archive
      /\ db = before /\ TableType(db) /\ TableType(txn) /\ CallType(call)
      /\ Progress(View(db), call, View(txn), todo)
  BY <1>1, CallTyped DEF CallInv, Return
<1>3. View(txn) = Effect(View(db), call)
  BY <1>2, CallEnds
<1>4. PICK i \in Rows(db) : k = Key(i)
  BY <1>2, RowsOfView
<1>5. i \notin Rows(txn) /\ i \in Indices
  BY <1>1, <1>4 DEF Rows
<1>6. i \in DOMAIN View(db).entries /\ i \notin DOMAIN Effect(View(db), call).entries
  BY <1>2, <1>3, <1>4, <1>5, RowsOfView
<1>7. call.op = "compact"
  BY <1>2, <1>6, RowsStay
<1>8. i < call.index
  <2>1. i \notin DOMAIN Compact(View(db), call.index).entries
    BY <1>6, <1>7 DEF Effect
  <2>2. call.index \in Indices
    BY <1>2, <1>7 DEF CallType
  <2>3. ~(i >= call.index)
    BY <1>6, <2>1 DEF Compact, Restrict
  <2> QED BY <1>5, <2>2, <2>3, StoragesAssumption DEF Indices
<1>9. Archiving(db, call.index, archive, <<>>)
  BY <1>2, <1>7 DEF ArchiveInv
<1>10. Covers(archive, db, call.index)
  BY <1>9 DEF Archiving
<1> QED BY <1>2, <1>4, <1>8, <1>10 DEF Covers

\* compact of HeedStorage writes the entries it is about to delete to the file
\* of compacted logs before the transaction that deletes them commits, and no
\* other call deletes any: wherever the process dies, an entry is in the log or
\* was in the file when it left the log.
THEOREM CompactedIsArchived ==
  ASSUME KeysOrdered
  PROVE  Spec => CompactionArchivesFirst
<1>1. Init => ArchiveInv
  <2>1. IsList(<<>>)
    BY DEF IsList
  <2> QED BY <2>1 DEF Init, ArchiveInv
<1>2. CallInv /\ ArchiveInv /\ [Next]_vars => ArchiveInv'
  BY ArchiveInvStep
<1>3. CallInv /\ ArchiveInv /\ [Next]_vars =>
        [engine = "heed" => \A k \in DOMAIN db.log \ DOMAIN db'.log : db.log[k] \in ToSet(archive')]_vars
  BY RowsAreArchived
<1> QED BY <1>1, <1>2, <1>3, CallsTyped, PTL DEF Spec, CompactionArchivesFirst
=============================================================================
