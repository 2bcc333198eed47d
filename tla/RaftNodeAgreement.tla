-------------------------- MODULE RaftNodeAgreement ------------------------
(***************************************************************************)
(* Raft's own argument for one raftify node without snapshots: every log   *)
(* is a prefix of what the leaders wrote (so two logs with an entry of the *)
(* same term agree up to it), a later leader holds what earlier ones       *)
(* committed, and what the node acknowledged, persisted or handed to the   *)
(* state machine is what the cluster chose.                                *)
(*                                                                         *)
(* append of both backends leaves the keys above the last appended entry   *)
(* in place, which Raft forbids (the run stale_suffix_applied).  The       *)
(* theorems about a cluster are about TruncatingSpec, where this does not  *)
(* happen; a single node needs no such condition.                          *)
(***************************************************************************)
EXTENDS RaftNodeRestart, FiniteSetTheorems

NoSnapshots ==
  /\ ~BootstrapFromSnapshot /\ ~SnapshotMsg /\ ~SnapshotInterval /\ ~SnapshotRpc
  /\ "conf" \notin Kinds

\* The stored log, and the log of raft-rs: the unstable entries over it.
Stored(s) == [i \in 1 .. s.last |-> s.entries[i]]
Log(r, s) ==
  [i \in 1 .. RaftLast(r, s) |-> IF i \in DOMAIN r.unst THEN r.unst[i] ELSE s.entries[i]]

\* The logs l and m have the same entries up to n.
Agree(l, m, n) == \A i \in 1 .. n : i \in DOMAIN l /\ i \in DOMAIN m /\ l[i] = m[i]

\* Every entry of l, with all before it, comes from the log that the leader of
\* its term wrote; g[t] is that log.
Sourced(l, g) == \A i \in DOMAIN l : Agree(l, g[l[i].term], i)

\* A leader up to the given term committed the entries of l up to n.
Backed(l, g, c, term, n) == \E u \in Terms : u <= term /\ n <= c[u] /\ Agree(l, g[u], n)

\* l holds what was acknowledged, as far as the leader committed it or still can.
AckedIn(l, g, c, top, a) ==
  \A t \in Terms : \A i \in 1 .. a[t] :
    (t = top \/ i <= c[t]) => i \in DOMAIN l /\ i \in DOMAIN g[t] /\ l[i] = g[t][i]

-----------------------------------------------------------------------------
(* Logs *)

LEMMA AgreeLess ==
  ASSUME NEW l, NEW m, NEW n \in Nat, NEW k \in Nat, k <= n, Agree(l, m, n)
  PROVE  Agree(l, m, k)
BY DEF Agree

LEMMA AgreeSym ==
  ASSUME NEW l, NEW m, NEW n, Agree(l, m, n)
  PROVE  Agree(m, l, n)
BY DEF Agree

LEMMA AgreeTrans ==
  ASSUME NEW l, NEW m, NEW k, NEW n, Agree(l, m, n), Agree(m, k, n)
  PROVE  Agree(l, k, n)
BY DEF Agree

LEMMA AgreeSelf ==
  ASSUME NEW l, NEW n \in Nat, 1 .. n \subseteq DOMAIN l
  PROVE  Agree(l, l, n)
BY DEF Agree

\* Log matching: two logs with an entry of the same term agree up to it.
LEMMA Matching ==
  ASSUME NEW l, NEW m, NEW g, Sourced(l, g), Sourced(m, g),
         NEW i \in DOMAIN l, i \in DOMAIN m, l[i].term = m[i].term
  PROVE  Agree(l, m, i)
<1>1. Agree(l, g[l[i].term], i) /\ Agree(m, g[l[i].term], i)
  BY DEF Sourced
<1> QED BY <1>1, AgreeSym, AgreeTrans

LEMMA SourcedPrefix ==
  ASSUME NEW l, NEW m, NEW g, Sourced(l, g), NEW n \in Nat, DOMAIN m = 1 .. n, Agree(m, l, n)
  PROVE  Sourced(m, g)
<1> SUFFICES ASSUME NEW i \in DOMAIN m PROVE Agree(m, g[m[i].term], i)
  BY DEF Sourced
<1>1. i \in Nat /\ i <= n /\ i \in DOMAIN l /\ m[i] = l[i]
  BY DEF Agree
<1>2. Agree(m, l, i)
  BY <1>1, AgreeLess
<1>3. Agree(l, g[l[i].term], i)
  BY <1>1 DEF Sourced
<1> QED BY <1>1, <1>2, <1>3, AgreeTrans

\* A log and one more entry, which the leader of its term wrote at the end.
LEMMA SourcedOneMore ==
  ASSUME NEW l, NEW m, NEW g, NEW n \in Nat, DOMAIN m = 1 .. n + 1, Agree(m, l, n), Sourced(l, g),
         Agree(m, g[m[n + 1].term], n + 1)
  PROVE  Sourced(m, g)
<1> SUFFICES ASSUME NEW i \in DOMAIN m PROVE Agree(m, g[m[i].term], i)
  BY DEF Sourced
<1>1. CASE i = n + 1
  BY <1>1
<1>2. CASE i # n + 1
  <2>1. i \in 1 .. n /\ i \in Nat
    BY <1>2
  <2>2. i \in DOMAIN l /\ m[i] = l[i]
    BY <2>1 DEF Agree
  <2>3. Agree(l, g[l[i].term], i)
    BY <2>2 DEF Sourced
  <2>4. Agree(m, l, i)
    BY <2>1, AgreeLess
  <2> QED BY <2>2, <2>3, <2>4, AgreeTrans
<1> QED BY <1>1, <1>2

-----------------------------------------------------------------------------
(* The environment moves on *)

\* The logs h extend the logs g.
Extends(h, g) == \A t \in Terms : \A i \in DOMAIN g[t] : i \in DOMAIN h[t] /\ h[t][i] = g[t][i]

LEMMA AgreeGrows ==
  ASSUME NEW g, NEW h, Extends(h, g), NEW t \in Terms, NEW l, NEW n, Agree(l, g[t], n)
  PROVE  Agree(l, h[t], n)
BY DEF Agree, Extends

LEMMA SourcedGrows ==
  ASSUME NEW g, NEW h, Extends(h, g), NEW l, LogTable(l), Sourced(l, g)
  PROVE  Sourced(l, h)
<1> SUFFICES ASSUME NEW i \in DOMAIN l PROVE Agree(l, h[l[i].term], i)
  BY DEF Sourced
<1>1. l[i].term \in Terms
  BY Bounds DEF LogTable, LogEntry, Terms
<1> QED BY <1>1, AgreeGrows DEF Sourced

LEMMA BackedGrows ==
  ASSUME NEW g, NEW h, Extends(h, g), NEW c \in [Terms -> Nat], NEW d \in [Terms -> Nat],
         \A t \in Terms : c[t] <= d[t],
         NEW l, NEW term \in Nat, NEW n \in Nat, Backed(l, g, c, term, n)
  PROVE  Backed(l, h, d, term, n)
<1>1. PICK u \in Terms : u <= term /\ n <= c[u] /\ Agree(l, g[u], n)
  BY DEF Backed
<1>2. n <= d[u] /\ Agree(l, h[u], n)
  BY <1>1, AgreeGrows
<1> QED BY <1>1, <1>2 DEF Backed

\* A higher term, fewer entries, or another log that agrees up to there.
LEMMA BackedMoves ==
  ASSUME NEW g, NEW c \in [Terms -> Nat], NEW l, NEW m, NEW term \in Nat, NEW top \in Nat,
         NEW n \in Nat, NEW k \in Nat, Backed(l, g, c, term, n), term <= top, k <= n, Agree(m, l, k)
  PROVE  Backed(m, g, c, top, k)
<1>1. PICK u \in Terms : u <= term /\ n <= c[u] /\ Agree(l, g[u], n)
  BY DEF Backed
<1>2. u <= top /\ k <= c[u]
  BY <1>1, Bounds
<1>3. Agree(m, g[u], k)
  BY <1>1, AgreeLess, AgreeTrans
<1> QED BY <1>2, <1>3 DEF Backed

LEMMA AckedGrows ==
  ASSUME NEW g, NEW h, Extends(h, g), NEW c \in [Terms -> Nat], NEW d \in [Terms -> Nat],
         NEW top, NEW next, NEW a \in [Terms -> Nat], NEW l, AckedIn(l, g, c, top, a),
         \A t \in Terms : t # top /\ (t = next \/ d[t] # c[t]) => a[t] = 0
  PROVE  AckedIn(l, h, d, next, a)
<1> SUFFICES ASSUME NEW t \in Terms, NEW i \in 1 .. a[t], t = next \/ i <= d[t]
             PROVE  i \in DOMAIN l /\ i \in DOMAIN h[t] /\ l[i] = h[t][i]
  BY DEF AckedIn
<1>1. a[t] # 0 /\ i \in 1 .. a[t]
  OBVIOUS
<1>2. t = top \/ i <= c[t]
  BY <1>1
<1>3. i \in DOMAIN l /\ i \in DOMAIN g[t] /\ l[i] = g[t][i]
  BY <1>2 DEF AckedIn
<1> QED BY <1>3 DEF Extends

LEMMA AckedMoves ==
  ASSUME NEW g, NEW c, NEW top, NEW a, NEW l, NEW m, AckedIn(l, g, c, top, a),
         \A t \in Terms : \A i \in 1 .. a[t] :
           (t = top \/ i <= c[t]) => i \in DOMAIN m /\ m[i] = l[i]
  PROVE  AckedIn(m, g, c, top, a)
BY DEF AckedIn

-----------------------------------------------------------------------------
(* The two logs of the node *)

\* Nothing is compacted: the stored log starts at 1 and has no hole.
Whole(s) == s.snap = DefaultSnapshot /\ FirstIndex(s) = 1 /\ 1 .. s.last \subseteq DOMAIN s.entries

\* Unstable entries that continue the stored log.
Attached(r, s) ==
  /\ r.snap = NoSnapshot
  /\ DOMAIN r.unst # {} => Min(DOMAIN r.unst) <= s.last + 1 /\ Contiguous(r.unst)

LEMMA StoredShape ==
  ASSUME NEW s, StoreType(s), Whole(s)
  PROVE  /\ DOMAIN Stored(s) = 1 .. s.last /\ s.last \in Nat /\ LogTable(Stored(s))
         /\ \A i \in 1 .. s.last : Stored(s)[i] = s.entries[i]
<1>1. s.last \in Index /\ LogTable(s.entries) /\ 1 .. s.last \subseteq DOMAIN s.entries
  BY DEF StoreType, Whole
<1>2. DOMAIN Stored(s) = 1 .. s.last /\ \A i \in 1 .. s.last : Stored(s)[i] = s.entries[i]
  BY DEF Stored
<1>3. s.last \in Nat /\ 1 .. s.last \subseteq 1 .. MaxIndex
  BY <1>1, Bounds DEF Index
<1> QED BY <1>1, <1>2, <1>3 DEF LogTable

LEMMA NoUnstableLast ==
  ASSUME NEW r, NEW s, r.snap = NoSnapshot, DOMAIN r.unst = {}
  PROVE  RaftLast(r, s) = s.last
BY DEF RaftLast, LastIndex

LEMMA NoUnstable ==
  ASSUME NEW r, NEW s, r.snap = NoSnapshot, DOMAIN r.unst = {}
  PROVE  RaftLast(r, s) = s.last /\ Log(r, s) = Stored(s)
<1>1. RaftLast(r, s) = s.last
  BY NoUnstableLast
<1>2. Log(r, s) = [i \in 1 .. s.last |-> IF i \in DOMAIN r.unst THEN r.unst[i] ELSE s.entries[i]]
  BY <1>1 DEF Log
<1>3. \A i \in 1 .. s.last : (IF i \in DOMAIN r.unst THEN r.unst[i] ELSE s.entries[i]) = s.entries[i]
  OBVIOUS
<1> QED BY <1>1, <1>2, <1>3 DEF Stored

LEMMA LogShape ==
  ASSUME NEW r, NEW s, RaftType(r), StoreType(s), Whole(s), Attached(r, s)
  PROVE  /\ RaftLast(r, s) \in Nat /\ DOMAIN Log(r, s) = 1 .. RaftLast(r, s) /\ LogTable(Log(r, s))
         /\ \A i \in 1 .. RaftLast(r, s) :
              /\ i \in DOMAIN r.unst => Log(r, s)[i] = r.unst[i]
              /\ i \notin DOMAIN r.unst =>
                   Log(r, s)[i] = s.entries[i] /\ i \in 1 .. s.last /\ i \in DOMAIN s.entries
<1>1. /\ RaftLast(r, s) \in Index /\ LogTable(r.unst) /\ LogTable(s.entries) /\ s.last \in Nat
  BY RaftLastType, Bounds DEF RaftType, StoreType
<1>2. PICK n \in Nat : n = RaftLast(r, s) /\ n <= MaxIndex
  BY <1>1, Bounds DEF Index
<1>3. /\ DOMAIN Log(r, s) = 1 .. n
      /\ \A i \in 1 .. n : Log(r, s)[i] = IF i \in DOMAIN r.unst THEN r.unst[i] ELSE s.entries[i]
  BY <1>2 DEF Log
<1>4. ASSUME NEW i \in 1 .. n, i \notin DOMAIN r.unst PROVE i \in 1 .. s.last /\ i \in DOMAIN s.entries
  <2>1. CASE DOMAIN r.unst = {}
    BY <1>2, <1>4, <2>1, NoUnstableLast DEF Whole, Attached
  <2>2. CASE DOMAIN r.unst # {}
    <3>1. PICK lo \in Nat : lo = Min(DOMAIN r.unst) /\ lo <= s.last + 1 /\ lo .. n \subseteq DOMAIN r.unst
      BY <1>1, <1>2, <2>2, TableEnds, Bounds DEF Attached, Contiguous, RaftLast
    <3>2. i < lo
      BY <1>4, <3>1
    <3>3. i \in 1 .. s.last
      BY <1>1, <1>4, <3>1, <3>2
    <3> QED BY <3>3 DEF Whole
  <2> QED BY <2>1, <2>2
<1>5. LogTable(Log(r, s))
  <2>1. 1 .. n \subseteq 1 .. MaxIndex
    BY <1>2, Bounds
  <2>2. ASSUME NEW i \in 1 .. n PROVE Log(r, s)[i] \in LogEntry
    BY <1>1, <1>3, <1>4 DEF LogTable
  <2> QED BY <1>3, <2>1, <2>2 DEF LogTable
<1> QED BY <1>2, <1>3, <1>4, <1>5

\* raft-rs reads the terms of its log; 0 before the first and after the last.
LEMMA ReadTerm ==
  ASSUME NEW r, NEW s, StoreType(s), Whole(s), r.snap = NoSnapshot, DOMAIN r.unst = {}, NEW i \in Nat
  PROVE  RaftTerm(r, s, i) = IF i \in 1 .. s.last THEN s.entries[i].term ELSE 0
<1>1. RaftLast(r, s) = s.last /\ RaftFirst(r, s) = 1 /\ s.last \in Nat
  BY NoUnstable, StoredShape DEF RaftFirst, Whole
<1>2. s.snap.index = 0 /\ s.snap.term = 0
  BY DEF Whole, DefaultSnapshot
<1>3. i \in 1 .. s.last => i \in DOMAIN s.entries
  BY DEF Whole
<1>4. RaftTerm(r, s, i) = IF i > s.last THEN 0 ELSE Term(s, i)
  BY <1>1 DEF RaftTerm
<1>5. Term(s, i) = IF i = 0 THEN 0 ELSE IF i \in DOMAIN s.entries THEN s.entries[i].term
                   ELSE IF i < FirstIndex(s) THEN Compacted ELSE Unavailable
  BY <1>2 DEF Term
<1>6. CASE i > s.last
  BY <1>1, <1>4, <1>6
<1>7. CASE i = 0
  BY <1>1, <1>4, <1>5, <1>7
<1>8. CASE i \in 1 .. s.last
  BY <1>1, <1>3, <1>4, <1>5, <1>8
<1> QED BY <1>1, <1>6, <1>7, <1>8

\* What a Ready hands out: the entries that follow since, without a hole, as
\* far as they are committed and stored.
LEMMA NextExact ==
  ASSUME NEW r, NEW s, RaftType(r), StoreType(s), Whole(s), Attached(r, s)
  PROVE  \E hi \in Nat :
           /\ r.since <= hi /\ DOMAIN NextEntries(r, s) = r.since + 1 .. hi
           /\ SinceAfter(r, NextEntries(r, s)) = hi
           /\ \A i \in r.since + 1 .. hi :
                /\ NextEntries(r, s)[i] = s.entries[i] /\ i <= r.committed /\ i \in 1 .. s.last
                /\ i \notin DOMAIN r.unst
<1>1. /\ r.since \in Nat /\ r.committed \in Nat /\ s.last \in Nat /\ LogTable(r.unst)
      /\ LogTable(s.entries)
  BY Bounds DEF RaftType, StoreType
<1>2. Persisted(r, s) \in Nat /\ Persisted(r, s) <= s.last /\ \A i \in DOMAIN r.unst : Persisted(r, s) < i
  <2>1. CASE DOMAIN r.unst = {}
    BY <1>1, <2>1, NoUnstable DEF Persisted, Attached
  <2>2. CASE DOMAIN r.unst # {}
    <3>1. PICK lo \in Nat : lo = Min(DOMAIN r.unst) /\ lo <= s.last + 1 /\ lo # 0
      BY <1>1, <2>2, TableEnds, Bounds DEF Attached
    <3>2. \A i \in DOMAIN r.unst : i \in Nat /\ lo <= i
      BY <1>1, <2>2, <3>1, TableEnds, Bounds DEF LogTable
    <3>3. Persisted(r, s) = lo - 1
      BY <2>2, <3>1 DEF Persisted
    <3> QED BY <1>1, <3>1, <3>2, <3>3
  <2> QED BY <2>1, <2>2
<1>3. PICK p \in Nat : /\ p = Min({r.committed, Persisted(r, s)}) /\ p <= r.committed
                       /\ p <= Persisted(r, s)
  BY <1>1, <1>2, MinOfTwo
<1>4. Max({r.since + 1, FirstIndex(s)}) = r.since + 1
  <2>1. FirstIndex(s) = 1 /\ r.since + 1 \in Nat
    BY <1>1 DEF Whole
  <2>2. Max({r.since + 1, 1}) \in {r.since + 1, 1} /\ r.since + 1 <= Max({r.since + 1, 1})
    BY <2>1, MaxOfTwo
  <2> QED BY <1>1, <2>1, <2>2
<1>5. PICK e : e = NextEntries(r, s)
  OBVIOUS
<1>6. e = Slice(s.entries, r.since + 1, p + 1 - 1)
  BY <1>3, <1>4, <1>5 DEF NextEntries, Entries, Attached
<1>7. p + 1 - 1 = p
  BY <1>3
<1>8. /\ LogTable(e) /\ \A i : i \in DOMAIN e <=> i \in DOMAIN s.entries /\ r.since + 1 <= i /\ i <= p
      /\ \A i \in DOMAIN e : e[i] = s.entries[i]
  <2>1. LogTable(e) /\ \A i : i \in DOMAIN e <=> i \in DOMAIN s.entries /\ r.since + 1 <= i /\ i <= p
    BY <1>1, <1>6, <1>7, SliceTable
  <2>2. \A i \in DOMAIN e : e[i] = s.entries[i]
    BY <1>6, <2>1 DEF Slice, Restrict
  <2> QED BY <2>1, <2>2
<1>9. \A i : i \in DOMAIN e <=> i \in r.since + 1 .. p
  <2>1. \A i \in r.since + 1 .. p : i \in 1 .. s.last
    BY <1>1, <1>2, <1>3
  <2>2. \A i \in DOMAIN e : i \in Nat
    BY <1>8, Bounds DEF LogTable
  <2> QED BY <1>1, <1>3, <1>8, <2>1, <2>2 DEF Whole
<1>10. \A i \in r.since + 1 .. p : i <= r.committed /\ i \in 1 .. s.last /\ i \notin DOMAIN r.unst
  BY <1>1, <1>2, <1>3
<1>11. CASE p <= r.since
  <2>0. r.since + 1 .. p = {} /\ r.since + 1 .. r.since = {}
    BY <1>1, <1>3, <1>11
  <2>1. DOMAIN e = {} /\ r.since + 1 .. r.since = {}
    BY <1>9, <2>0
  <2>2. SinceAfter(r, e) = r.since
    BY <2>1 DEF SinceAfter
  <2>3. DOMAIN e = r.since + 1 .. r.since
    BY <2>1
  <2> QED BY <1>1, <1>5, <2>1, <2>2, <2>3
<1>12. CASE ~(p <= r.since)
  <2>1. DOMAIN e # {} /\ p \in DOMAIN e
    BY <1>1, <1>3, <1>9, <1>12
  <2>2. Max(DOMAIN e) = p
    BY <1>3, <1>8, <1>9, <2>1, TableEnds, Bounds
  <2>3. SinceAfter(r, e) = p
    BY <2>1, <2>2 DEF SinceAfter
  <2>4. DOMAIN e = r.since + 1 .. p
    BY <1>9
  <2>5. \A i \in r.since + 1 .. p : e[i] = s.entries[i]
    BY <1>8, <2>4
  <2>6. r.since <= p
    BY <1>1, <1>3, <1>12
  <2> QED BY <1>3, <1>5, <1>10, <2>3, <2>4, <2>5, <2>6
<1> QED BY <1>11, <1>12

-----------------------------------------------------------------------------
(* The turn of the loop *)

\* The first unstable entry is new: it follows the stored log or replaces an
\* entry of another term.
Deviates(u, s) ==
  LET lo == Min(DOMAIN u)
  IN  \/ lo = s.last + 1
      \/ ~Alone /\ lo \in 1 .. s.last /\ s.entries[lo].term # u[lo].term

NewUnstable ==
  /\ pc = "recv" /\ ~Alone => DOMAIN raft.unst = {}
  /\ pc \in {"recv", "tick", "apply"} /\ DOMAIN raft.unst # {} => Deviates(raft.unst, store)
  /\ pc \in {"hardstate", "send"} => Log(raft, store) = Stored(store)

\* raft-rs knows which term is stored, and a turn stores its own before it
\* sends.
StoredTerm ==
  status = "up" =>
    /\ pc # "send" => raft.prevHs.term = store.hs.term
    /\ pc \in {"send", "lightcommit", "lightapply"} => raft.term = store.hs.term

\* An acknowledgement is sent in the turn that made it.
AckShape ==
  /\ pc \notin {"apply", "hardstate", "send"} => rd.ackMsgs = {}
  /\ pc # "tick" => raft.ackMsgs = {}
  /\ raft.role = "leader" => raft.ackMsgs = {}

\* Between two turns everything handed out is applied.
AppliedShape ==
  /\ raft.applied <= raft.since
  /\ pc \in {"recv", "tick"} => raft.applied = raft.since /\ DOMAIN rd.committed = {}

LocalInv == Whole(store) /\ NewUnstable /\ StoredTerm /\ AckShape /\ AppliedShape

LEMMA NoSnapshotsSafe == NoSnapshots => SafeLog
BY BackendAssumption DEF NoSnapshots, SafeLog

LEMMA NodeAttached ==
  ASSUME NoSnapshots, SafeInv, pc \in {"recv", "tick", "apply", "lightcommit", "lightapply"}
  PROVE  Attached(raft, store)
<1>1. raft.snap = NoSnapshot
  BY DEF SafeInv, NodeInv, TurnInv, PendingSnapshot, NoSnapshots
<1>2. CASE pc \in {"recv", "tick", "apply"}
  BY <1>1, <1>2 DEF SafeInv, NodeInv, TurnInv, NoGap, LoadInv, GaplessUnstable, Attached
<1>3. CASE pc \in {"lightcommit", "lightapply"}
  BY <1>1, <1>3 DEF SafeInv, NodeInv, TurnInv, HandedOut, Attached
<1> QED BY <1>2, <1>3

\* The log of raft-rs at any point of the turn.
LEMMA NodeLogs ==
  ASSUME NoSnapshots, SafeInv, LocalInv
  PROVE  /\ TypeInv /\ raft.snap = NoSnapshot /\ store.last \in Nat
         /\ DOMAIN Stored(store) = 1 .. store.last /\ LogTable(Stored(store))
         /\ RaftLast(raft, store) \in Nat
         /\ DOMAIN Log(raft, store) = 1 .. RaftLast(raft, store) /\ LogTable(Log(raft, store))
         /\ \A i \in 1 .. store.last : Stored(store)[i] = store.entries[i]
<1>1. TypeInv /\ StoreType(store) /\ RaftType(raft) /\ Whole(store) /\ LoopType
  BY DEF SafeInv, NodeInv, TypeInv, LocalInv
<1>2. raft.snap = NoSnapshot
  BY DEF SafeInv, NodeInv, TurnInv, PendingSnapshot, NoSnapshots
<1>3. /\ DOMAIN Stored(store) = 1 .. store.last /\ store.last \in Nat /\ LogTable(Stored(store))
      /\ \A i \in 1 .. store.last : Stored(store)[i] = store.entries[i]
  BY <1>1, StoredShape
<1>4. pc # "restore"
  BY <1>2 DEF SafeInv, NodeInv, TurnInv, HandedOut
<1>5. RaftLast(raft, store) \in Nat /\ DOMAIN Log(raft, store) = 1 .. RaftLast(raft, store)
  BY <1>1, Naturals DEF Log
<1>6. CASE pc \in {"recv", "tick", "apply", "lightcommit", "lightapply"}
  BY <1>1, <1>2, <1>3, <1>5, <1>6, NodeAttached, LogShape
<1>7. CASE pc \in {"hardstate", "send"}
  BY <1>1, <1>2, <1>3, <1>5, <1>7 DEF LocalInv, NewUnstable
<1> QED BY <1>1, <1>4, <1>6, <1>7 DEF LoopType, Places

\* A node that starts a turn has no unstable entries unless it is alone.
LEMMA FollowerIsStored ==
  ASSUME NoSnapshots, SafeInv, LocalInv, pc = "recv", ~Alone
  PROVE  /\ DOMAIN raft.unst = {} /\ Log(raft, store) = Stored(store)
         /\ RaftLast(raft, store) = store.last /\ raft.ackMsgs = {}
<1>1. DOMAIN raft.unst = {} /\ raft.ackMsgs = {} /\ raft.snap = NoSnapshot
  BY NodeLogs DEF LocalInv, NewUnstable, AckShape
<1> QED BY <1>1, NoUnstable

-----------------------------------------------------------------------------
(* A message of a leader *)

\* new is what follows prev in e from the first entry that contradicts the log.
FromConflict(r, s, e, prev, last, new) ==
  \/ DOMAIN new = {} /\ \A i \in prev + 1 .. last : RaftTerm(r, s, i) = e[i].term
  \/ \E lo \in prev + 1 .. last :
       /\ DOMAIN new = lo .. last /\ \A i \in lo .. last : new[i] = e[i]
       /\ RaftTerm(r, s, lo) # e[lo].term
       /\ \A i \in prev + 1 .. lo - 1 : RaftTerm(r, s, i) = e[i].term

\* What Conflicting keeps of the entries after prev.
LEMMA ConflictExact ==
  ASSUME NEW r, NEW s, NEW e, NEW prev \in Nat, NEW last \in Nat, LogTable(e),
         \A i : i \in DOMAIN e <=> i \in prev + 1 .. last, NEW new, new = Conflicting(r, s, e)
  PROVE  FromConflict(r, s, e, prev, last, new)
<1> USE DEF FromConflict
<1> DEFINE bad == {i \in DOMAIN e : RaftTerm(r, s, i) # e[i].term}
<1>2. new = IF bad = {} THEN NoEntries ELSE Slice(e, Min(bad), Max(DOMAIN e))
  BY DEF Conflicting
<1>3. \A i \in prev + 1 .. last : i \in bad <=> RaftTerm(r, s, i) # e[i].term
  OBVIOUS
<1>4. bad \subseteq prev + 1 .. last
  OBVIOUS
<1> HIDE DEF bad
<1>5. CASE bad = {}
  BY <1>2, <1>3, <1>5, NoEntriesTable
<1>6. CASE bad # {}
  <2>1. PICK lo : lo = Min(bad)
    OBVIOUS
  <2>2. lo \in bad /\ \A i \in bad : lo <= i
    <3>1. bad \in SUBSET Nat
      BY <1>4
    <3> QED BY <1>6, <2>1, <3>1, BoundedMin
  <2>3. lo \in Nat /\ lo \in prev + 1 .. last
    BY <1>4, <2>2
  <2>4. Max(DOMAIN e) = last
    <3>1. last \in DOMAIN e /\ DOMAIN e # {}
      BY <2>3
    <3>2. Max(DOMAIN e) \in DOMAIN e /\ last <= Max(DOMAIN e)
      BY <3>1, TableEnds
    <3> QED BY <3>2
  <2>5. new = Slice(e, lo, last)
    BY <1>2, <1>6, <2>1, <2>4
  <2>6. \A i : i \in DOMAIN new <=> i \in DOMAIN e /\ lo <= i /\ i <= last
    BY <2>5, SliceTable
  <2>7. DOMAIN new = lo .. last
    <3>1. \A i : i \in DOMAIN new <=> i \in lo .. last
      BY <2>3, <2>6
    <3> QED BY <3>1
  <2>8. \A i \in lo .. last : new[i] = e[i]
    BY <2>5, <2>7 DEF Slice, Restrict
  <2>9. \A i \in prev + 1 .. lo - 1 : i \in prev + 1 .. last /\ i \notin bad
    BY <2>2, <2>3
  <2>10. RaftTerm(r, s, lo) # e[lo].term /\ \A i \in prev + 1 .. lo - 1 : RaftTerm(r, s, i) = e[i].term
    BY <1>3, <2>2, <2>3, <2>9
  <2> QED BY <2>3, <2>7, <2>8, <2>10
<1> QED BY <1>5, <1>6

LEMMA TruncateNothing ==
  ASSUME NEW u, NEW e, LogTable(u), LogTable(e), DOMAIN u = {}
  PROVE  LET x == TruncateAndAppend(u, e)
         IN  DOMAIN x = DOMAIN e /\ \A i \in DOMAIN e : x[i] = e[i]
<1>1. \A i : i \in DOMAIN TruncateAndAppend(u, e) <=> i \in DOMAIN e
  BY TruncateTable
<1>2. \A i \in DOMAIN e : TruncateAndAppend(u, e)[i] = e[i]
  BY DEF TruncateAndAppend, PutAll
<1> QED BY <1>1, <1>2

\* The acknowledgements HandleAppend makes.
Replies(r, s, prev, pt, e, last, commit, q) ==
  \/ /\ q.unst = r.unst /\ q.committed = r.committed
     /\ q.ackMsgs \subseteq r.ackMsgs \cup {<<r.term, r.committed>>}
  \/ /\ prev >= r.committed /\ RaftTerm(Following(r), s, prev) = pt
     /\ Appended(Following(r), s, e, last, commit, q)
     /\ q.ackMsgs = r.ackMsgs \cup {<<r.term, last>>}

LEMMA HandleAppendAcks ==
  ASSUME NEW r, NEW s, NEW prev \in Index, NEW pt, NEW e, NEW commit, RaftType(r), LogTable(e)
  PROVE  Replies(r, s, prev, pt, e, Max({prev} \cup DOMAIN e), commit,
                 HandleAppend(r, s, prev, pt, e, commit))
<1> DEFINE f    == Following(r)
           new  == Conflicting(f, s, e)
           last == Max({prev} \cup DOMAIN e)
           q    == HandleAppend(r, s, prev, pt, e, commit)
           un   == IF DOMAIN new = {} THEN f.unst ELSE TruncateAndAppend(f.unst, new)
           co   == Max({f.committed, Min({commit, last})})
<1>1. RaftType(f) /\ f.term = r.term /\ SameLog(r, f) /\ f.ackMsgs = r.ackMsgs
  BY FollowingType DEF Following, RaftType
<1>2. q = IF prev < f.committed
          THEN [f EXCEPT !.ackMsgs = @ \cup {<<f.term, f.committed>>}]
          ELSE IF RaftTerm(f, s, prev) # pt THEN f
          ELSE [f EXCEPT !.unst = un, !.committed = co, !.ackMsgs = @ \cup {<<f.term, last>>}]
  BY DEF HandleAppend, Following
<1>3. prev \in Nat /\ r.committed \in Nat
  BY Bounds DEF RaftType
<1>4. Appended(f, s, e, last, commit, q) <=> q.unst = un /\ q.committed = co
  BY DEF Appended
<1> HIDE DEF f, new, un, co, last, q
<1>5. CASE prev < f.committed
  BY <1>1, <1>2, <1>5 DEF SameLog, RaftType, q, last, Replies
<1>6. CASE ~(prev < f.committed) /\ RaftTerm(f, s, prev) # pt
  BY <1>1, <1>2, <1>6 DEF SameLog, RaftType, q, last, Replies
<1>7. CASE ~(prev < f.committed) /\ RaftTerm(f, s, prev) = pt
  <2>1. q = [f EXCEPT !.unst = un, !.committed = co, !.ackMsgs = @ \cup {<<f.term, last>>}]
    BY <1>2, <1>7
  <2>2. q.unst = un /\ q.committed = co /\ q.ackMsgs = r.ackMsgs \cup {<<r.term, last>>}
    BY <1>1, <2>1 DEF RaftType
  <2>3. prev >= r.committed
    BY <1>1, <1>3, <1>7 DEF SameLog
  <2> QED BY <1>4, <1>7, <2>2, <2>3 DEF f, last, q, Replies
<1> QED BY <1>5, <1>6, <1>7

\* The node takes a message of the leader of term t with the entries up to
\* last: its log matches that log up to m and has other entries after m.
Follows(t, m, last, q) ==
  /\ raft.committed <= m /\ m <= last /\ last <= Len(llog[t])
  /\ m # 0 => m \in 1 .. store.last /\ store.entries[m].term = llog[t][m].term
  /\ \/ m = last /\ q.unst = raft.unst
     \/ /\ m < last /\ DOMAIN q.unst = m + 1 .. last
        /\ \A i \in m + 1 .. last : q.unst[i] = llog[t][i]
        /\ m + 1 <= store.last => store.entries[m + 1].term # llog[t][m + 1].term
  /\ q.ackMsgs = {<<t, last>>}
  /\ \/ q.committed = raft.committed
     \/ raft.committed <= q.committed /\ q.committed <= lcommit[t] /\ q.committed <= last

LEMMA CommitMax ==
  ASSUME NEW a \in Nat, NEW b \in Nat, NEW c \in Nat, NEW n, n = Max({a, Min({b, c})})
  PROVE  n = a \/ (a <= n /\ n <= b /\ n <= c)
<1>1. PICK m \in Nat : m = Min({b, c}) /\ m <= b /\ m <= c
  BY MinOfTwo
<1>2. Max({a, m}) \in {a, m} /\ a <= Max({a, m})
  BY MaxOfTwo
<1> QED BY <1>1, <1>2

LEMMA AppendExact ==
  ASSUME NoSnapshots, SafeInv, LocalInv, RecvAppend
  PROVE  \E t \in Terms : \E q :
           /\ ~Alone /\ llog[t] # <<>> /\ raft.term <= t /\ Handled(q) /\ UNCHANGED env
           /\ Kept(q) /\ q.term = t /\ q.snap = NoSnapshot
           /\ \/ /\ q.unst = raft.unst /\ q.committed = raft.committed
                 /\ q.ackMsgs \subseteq {<<t, raft.committed>>}
              \/ \E m \in Nat, last \in Nat : Follows(t, m, last, q)
<1>1. /\ TypeInv /\ TermInv /\ StoreType(store) /\ RaftType(raft) /\ Whole(store)
      /\ pc = "recv" /\ ~Alone /\ LogsType
  BY AppendOutcome DEF SafeInv, NodeInv, TypeInv, LocalInv, RecvAppend, Receiving
<1>2. PICK t \in Terms \ mine, prev \in Index, last \in Index, commit \in Index :
        /\ llog[t] # <<>> /\ t >= raft.term
        /\ prev <= last /\ last <= Len(llog[t]) /\ commit <= last /\ commit <= lcommit[t]
        /\ AppendFrom(t, prev, IF prev = 0 THEN 0 ELSE llog[t][prev].term,
                      Slice(llog[t], prev + 1, last), commit)
  BY <1>1, AppendMessage
<1>3. /\ DOMAIN raft.unst = {} /\ raft.ackMsgs = {} /\ raft.snap = NoSnapshot
  BY <1>1, FollowerIsStored, NodeLogs
<1>4. /\ LogTable(llog[t]) /\ DOMAIN llog[t] = 1 .. Len(llog[t]) /\ Len(llog[t]) \in Nat
      /\ prev \in Nat /\ last \in Nat /\ commit \in Nat /\ t \in Nat /\ store.last \in Nat
      /\ raft.committed \in Nat /\ raft.term \in Nat
      /\ \A i \in DOMAIN llog[t] : llog[t][i].term \in Nat /\ llog[t][i].term # 0
  <2>1. LogTable(llog[t]) /\ DOMAIN llog[t] = 1 .. Len(llog[t]) /\ Len(llog[t]) \in Index
    BY <1>1, LogIsTable DEF LogsType
  <2>2. \A i \in DOMAIN llog[t] : llog[t][i].term \in Nat /\ llog[t][i].term # 0
    BY <2>1, Bounds DEF LogTable, LogEntry
  <2> QED BY <1>1, <2>1, <2>2, Bounds, Naturals
<1>5. PICK pt : pt = IF prev = 0 THEN 0 ELSE llog[t][prev].term
  OBVIOUS
<1>6. PICK r : r = StepDown(raft, t)
  OBVIOUS
<1>7. /\ RaftType(r) /\ r.term = t /\ r.unst = raft.unst /\ r.snap = NoSnapshot /\ r.ackMsgs = {}
      /\ r.committed = raft.committed /\ r.applied = raft.applied /\ r.since = raft.since
      /\ r.prevHs = raft.prevHs
  <2>1. RaftType(r) /\ r.term = t /\ SameLog(raft, r)
    BY <1>1, <1>2, <1>6, StepDownType
  <2>2. r.ackMsgs = raft.ackMsgs
    BY <1>1, <1>6 DEF StepDown, RaftType
  <2> QED BY <1>3, <2>1, <2>2 DEF SameLog
<1>8. PICK e : e = Slice(llog[t], prev + 1, last)
  OBVIOUS
<1>9. /\ LogTable(e) /\ \A i : i \in DOMAIN e <=> i \in prev + 1 .. last
      /\ \A i \in prev + 1 .. last : e[i] = llog[t][i] /\ i \in DOMAIN llog[t]
  <2>1. LogTable(e) /\ \A i : i \in DOMAIN e <=> i \in DOMAIN llog[t] /\ prev + 1 <= i /\ i <= last
    BY <1>4, <1>8, SliceTable
  <2>2. \A i : i \in DOMAIN e <=> i \in prev + 1 .. last
    BY <1>2, <1>4, <2>1
  <2>3. \A i \in DOMAIN e : e[i] = llog[t][i]
    BY <1>8, <2>1 DEF Slice, Restrict
  <2> QED BY <2>1, <2>2, <2>3
<1>10. PICK q : q = HandleAppend(r, store, prev, pt, e, commit)
  OBVIOUS
<1>11. Handled(q) /\ UNCHANGED env
  <2>1. ~AppendConflictPanics(r, store, prev, pt, e)
    BY <1>7, <1>9, NoConflictPanic
  <2> QED BY <1>2, <1>5, <1>6, <1>8, <1>10, <2>1 DEF AppendFrom
<1>12. Kept(q) /\ q.term = t /\ q.snap = NoSnapshot
  <2> DEFINE h == HandleAppend(r, store, prev, pt, e, commit)
  <2>1. /\ RaftType(h) /\ h.term = r.term /\ h.role = "follower"
        /\ h.snap = r.snap /\ h.applied = r.applied /\ h.since = r.since
        /\ h.prevHs = r.prevHs
        /\ \/ h.unst = r.unst /\ h.committed = r.committed
           \/ /\ prev >= r.committed /\ RaftTerm(Following(r), store, prev) = pt
              /\ Appended(Following(r), store, e, Max({prev} \cup DOMAIN e), commit, h)
    BY <1>7, <1>9, HandleAppendType
  <2>2. q = h
    BY <1>10
  <2> HIDE DEF h
  <2> QED BY <1>2, <1>4, <1>7, <2>1, <2>2 DEF Kept
<1>13. Max({prev} \cup DOMAIN e) = last
  <2>1. PICK n : n = Max({prev} \cup DOMAIN e)
    OBVIOUS
  <2>2. n \in {prev} \cup DOMAIN e /\ prev <= n /\ \A i \in DOMAIN e : i <= n
    BY <1>9, <2>1, TableMaxWith
  <2>3. n <= last /\ n \in Nat
    BY <1>2, <1>4, <1>9, <2>2
  <2>4. last = prev \/ last \in DOMAIN e
    BY <1>2, <1>4, <1>9
  <2>5. last <= n
    BY <1>4, <2>2, <2>3, <2>4
  <2>6. n = last
    BY <1>4, <2>3, <2>5
  <2> QED BY <2>1, <2>6
<1>14. CASE /\ q.unst = r.unst /\ q.committed = r.committed
            /\ q.ackMsgs \subseteq r.ackMsgs \cup {<<r.term, r.committed>>}
  <2>1. q.unst = raft.unst /\ q.committed = raft.committed /\ q.ackMsgs \subseteq {<<t, raft.committed>>}
    BY <1>7, <1>14
  <2> QED BY <1>1, <1>2, <1>4, <1>11, <1>12, <2>1
<1>15. CASE /\ prev >= r.committed /\ RaftTerm(Following(r), store, prev) = pt
            /\ Appended(Following(r), store, e, last, commit, q)
            /\ q.ackMsgs = r.ackMsgs \cup {<<r.term, last>>}
  <2>1. PICK f : f = Following(r)
    OBVIOUS
  <2>2. /\ f.unst = raft.unst /\ f.snap = NoSnapshot /\ f.committed = raft.committed /\ RaftType(f)
    BY <1>7, <2>1, FollowingType DEF SameLog
  <2>3. \A i \in Nat : RaftTerm(f, store, i) = IF i \in 1 .. store.last THEN store.entries[i].term ELSE 0
    BY <1>1, <1>3, <2>2, ReadTerm
  <2>4. ASSUME NEW i \in DOMAIN llog[t], RaftTerm(f, store, i) = llog[t][i].term
        PROVE  i \in 1 .. store.last /\ store.entries[i].term = llog[t][i].term
    BY <1>4, <2>3, <2>4
  <2>5. prev # 0 => prev \in 1 .. store.last /\ store.entries[prev].term = llog[t][prev].term
    BY <1>2, <1>4, <1>5, <1>15, <2>1, <2>4
  <2>6. PICK new : new = Conflicting(f, store, e)
    OBVIOUS
  <2>7. /\ q.unst = IF DOMAIN new = {} THEN raft.unst ELSE TruncateAndAppend(raft.unst, new)
        /\ q.committed = Max({raft.committed, Min({commit, last})})
        /\ q.ackMsgs = {<<t, last>>} /\ raft.committed <= prev
    BY <1>4, <1>7, <1>15, <2>1, <2>2, <2>6 DEF Appended
  <2>8. \/ q.committed = raft.committed
        \/ raft.committed <= q.committed /\ q.committed <= lcommit[t] /\ q.committed <= last
    <3>1. lcommit[t] \in Nat
      BY <1>1, Bounds DEF LogsType
    <3>2. q.committed = raft.committed
           \/ (raft.committed <= q.committed /\ q.committed <= commit /\ q.committed <= last)
      BY <1>4, <2>7, CommitMax
    <3>3. q.committed \in Nat
      BY <1>12, Bounds DEF Kept, RaftType
    <3> QED BY <1>2, <1>4, <3>1, <3>2, <3>3
  <2>9. CASE /\ DOMAIN new = {}
             /\ \A i \in prev + 1 .. last : RaftTerm(f, store, i) = e[i].term
    <3>1. last # 0 => last \in 1 .. store.last /\ store.entries[last].term = llog[t][last].term
      <4>1. CASE last = prev
        BY <2>5, <4>1
      <4>2. CASE last # prev
        <5>1. last \in prev + 1 .. last
          BY <1>2, <1>4, <4>2
        <5> QED BY <1>9, <2>4, <2>9, <5>1
      <4> QED BY <4>1, <4>2
    <3>2. Follows(t, last, last, q)
      BY <1>2, <1>4, <2>7, <2>8, <2>9, <3>1 DEF Follows
    <3> QED BY <1>1, <1>2, <1>4, <1>11, <1>12, <3>2
  <2>10. CASE \E lo \in prev + 1 .. last :
                /\ DOMAIN new = lo .. last /\ \A i \in lo .. last : new[i] = e[i]
                /\ RaftTerm(f, store, lo) # e[lo].term
                /\ \A i \in prev + 1 .. lo - 1 : RaftTerm(f, store, i) = e[i].term
    <3>1. PICK lo \in prev + 1 .. last :
                /\ DOMAIN new = lo .. last /\ \A i \in lo .. last : new[i] = e[i]
                /\ RaftTerm(f, store, lo) # e[lo].term
                /\ \A i \in prev + 1 .. lo - 1 : RaftTerm(f, store, i) = e[i].term
      BY <2>10
    <3>2. PICK m \in Nat : m = lo - 1 /\ m + 1 = lo /\ prev <= m /\ m < last
      BY <1>4, <3>1
    <3>3. m # 0 => m \in 1 .. store.last /\ store.entries[m].term = llog[t][m].term
      <4>1. CASE m = prev
        BY <2>5, <4>1
      <4>2. CASE m # prev
        <5>1. m \in prev + 1 .. last /\ m \in prev + 1 .. lo - 1
          BY <1>4, <3>2, <4>2
        <5> QED BY <1>9, <2>4, <3>1, <5>1
      <4> QED BY <4>1, <4>2
    <3>4. DOMAIN q.unst = lo .. last /\ \A i \in lo .. last : q.unst[i] = llog[t][i]
      <4>1. LogTable(new) /\ DOMAIN new # {} /\ LogTable(raft.unst)
        BY <1>1, <1>9, <2>6, <3>1, ConflictingTable DEF RaftType
      <4>2. q.unst = TruncateAndAppend(raft.unst, new)
        BY <2>7, <4>1
      <4>3. DOMAIN q.unst = lo .. last /\ \A i \in lo .. last : q.unst[i] = new[i]
        <5> DEFINE x == TruncateAndAppend(raft.unst, new)
        <5>1. DOMAIN x = DOMAIN new /\ \A i \in DOMAIN new : x[i] = new[i]
          BY <1>3, <4>1, TruncateNothing
        <5> HIDE DEF x
        <5>2. q.unst = x
          BY <4>2 DEF x
        <5> QED BY <3>1, <5>1, <5>2
      <4>4. \A i \in lo .. last : i \in prev + 1 .. last
        BY <1>4, <3>1
      <4> QED BY <1>9, <3>1, <4>3, <4>4
    <3>5. lo <= store.last => store.entries[lo].term # llog[t][lo].term
      BY <1>4, <1>9, <2>3, <3>1
    <3>6. raft.committed <= m
      BY <1>4, <2>7, <3>2
    <3>7. Follows(t, m, last, q)
      BY <1>2, <1>4, <2>7, <2>8, <3>2, <3>3, <3>4, <3>5, <3>6 DEF Follows
    <3> QED BY <1>1, <1>2, <1>4, <1>11, <1>12, <3>7
  <2>11. FromConflict(f, store, e, prev, last, new)
    <3>1. /\ prev \in Nat /\ last \in Nat /\ LogTable(e) /\ new = Conflicting(f, store, e)
          /\ \A i : i \in DOMAIN e <=> i \in prev + 1 .. last
      BY <1>4, <1>9, <2>6
    <3> QED BY ONLY <3>1, ConflictExact
  <2> QED BY <2>9, <2>10, <2>11 DEF FromConflict
<1>16. \/ /\ q.unst = r.unst /\ q.committed = r.committed
          /\ q.ackMsgs \subseteq r.ackMsgs \cup {<<r.term, r.committed>>}
       \/ /\ prev >= r.committed /\ RaftTerm(Following(r), store, prev) = pt
          /\ Appended(Following(r), store, e, last, commit, q)
          /\ q.ackMsgs = r.ackMsgs \cup {<<r.term, last>>}
  <2>1. Replies(r, store, prev, pt, e, last, commit, q)
    BY <1>7, <1>9, <1>10, <1>13, HandleAppendAcks
  <2> QED BY <2>1 DEF Replies
<1> QED BY <1>14, <1>15, <1>16

-----------------------------------------------------------------------------
(* The store is appended to *)

\* What the entries of the Ready replace is gone, and what is stored of the
\* log is a prefix of the log of raft-rs, also when the append is torn.
LEMMA PrefixKept ==
  ASSUME NoSnapshots, SafeInv, LocalInv, pc = "apply", Alone \/ Truncates,
         NEW k \in DOMAIN raft.unst, PartlyAppended(store, raft.unst, k, store')
  PROVE  /\ store.last <= RaftLast(raft, store)
         /\ \A i \in 1 .. store.last :
              i \in DOMAIN store'.entries /\ store'.entries[i] = Log(raft, store)[i]
         /\ \A i \in 1 .. store.hs.commit : store'.entries[i] = store.entries[i]
<1>1. /\ StoreType(store) /\ RaftType(raft) /\ Whole(store) /\ LogTable(raft.unst)
      /\ Attached(raft, store) /\ DOMAIN raft.unst # {}
  BY NodeAttached DEF SafeInv, NodeInv, TypeInv, LocalInv, RaftType
<1>2. /\ store.last \in Nat /\ store.hs.commit \in Nat /\ store.hs.commit <= store.last
  BY Naturals DEF SafeInv, NodeInv, CommitInv, CommitInLog
<1>3. PICK lo \in Nat : lo = Min(DOMAIN raft.unst)
  BY <1>1, TableEnds, Bounds
<1>4. /\ lo \in DOMAIN raft.unst /\ store.hs.commit < lo /\ lo <= RaftLast(raft, store)
      /\ \A i \in DOMAIN raft.unst : i \in Nat /\ lo <= i /\ i <= RaftLast(raft, store)
      /\ RaftLast(raft, store) \in Nat
  <2>1. \A i \in DOMAIN raft.unst : i \in Nat
    BY <1>1, Bounds DEF LogTable
  <2>2. RaftLast(raft, store) = Max(DOMAIN raft.unst)
    BY <1>1 DEF RaftLast
  <2>3. store.hs.commit < lo
    BY <1>1, <1>3 DEF SafeInv, LoadInv, GaplessUnstable
  <2> QED BY <1>1, <1>3, <2>1, <2>2, <2>3, TableEnds
<1>5. /\ \A i \in DOMAIN store.entries : i \in DOMAIN store'.entries
      /\ \A i \in 1 .. store.last : i \in DOMAIN store.entries
  BY <1>1 DEF PartlyAppended, Whole
<1>6. \A i \in 1 .. RaftLast(raft, store) :
        /\ i \in DOMAIN raft.unst => Log(raft, store)[i] = raft.unst[i]
        /\ i \notin DOMAIN raft.unst => Log(raft, store)[i] = store.entries[i]
  BY <1>1, LogShape
<1>7. \A i \in 1 .. store.last : i < lo => store'.entries[i] = store.entries[i]
  BY <1>2, <1>4, <1>5 DEF PartlyAppended
<1>8. \A i \in 1 .. store.hs.commit : store'.entries[i] = store.entries[i]
  BY <1>2, <1>4, <1>7
<1>9. CASE lo = store.last + 1
  <2>1. store.last <= RaftLast(raft, store)
    BY <1>2, <1>4, <1>9
  <2>2. ASSUME NEW i \in 1 .. store.last
        PROVE  i \in DOMAIN store'.entries /\ store'.entries[i] = Log(raft, store)[i]
    <3>1. i < lo /\ i \notin DOMAIN raft.unst /\ i \in 1 .. RaftLast(raft, store)
      BY <1>2, <1>4, <1>9, <2>1
    <3> QED BY <1>5, <1>6, <1>7, <3>1
  <2> QED BY <1>8, <2>1, <2>2
<1>10. CASE ~Alone /\ lo \in 1 .. store.last /\ store.entries[lo].term # raft.unst[lo].term
  <2>1. lo <= k /\ k \in Nat
    BY <1>4
  <2>2. store'.entries[lo] = raft.unst[lo] /\ store'.entries[lo] # store.entries[lo]
    BY <1>4, <1>5, <1>10, <2>1 DEF PartlyAppended
  <2>3. ASSUME NEW j \in lo .. store.last PROVE j \in DOMAIN raft.unst /\ store'.entries[j] = raft.unst[j]
    <3>1. j \in 1 .. store.last /\ j \in DOMAIN store.entries \cap DOMAIN store'.entries
          /\ lo \in DOMAIN store.entries \cap DOMAIN store'.entries
      BY <1>5, <1>10
    <3>2. store'.entries[j] # store.entries[j]
      BY <1>10, <2>2, <3>1 DEF Truncates
    <3> QED BY <3>1, <3>2 DEF PartlyAppended
  <2>4. store.last <= RaftLast(raft, store)
    <3>1. store.last \in lo .. store.last
      BY <1>2, <1>10
    <3> QED BY <1>4, <2>3, <3>1
  <2>5. ASSUME NEW i \in 1 .. store.last
        PROVE  i \in DOMAIN store'.entries /\ store'.entries[i] = Log(raft, store)[i]
    <3>1. i \in 1 .. RaftLast(raft, store) /\ i \in DOMAIN store'.entries
      BY <1>2, <1>4, <1>5, <2>4
    <3>2. CASE i < lo
      BY <1>4, <1>6, <1>7, <3>1, <3>2
    <3>3. CASE ~(i < lo)
      <4>1. i \in lo .. store.last
        BY <1>2, <3>3
      <4> QED BY <1>6, <2>3, <3>1, <4>1
    <3> QED BY <3>2, <3>3
  <2> QED BY <1>8, <2>4, <2>5
<1> QED BY <1>1, <1>3, <1>9, <1>10 DEF LocalInv, NewUnstable, Deviates

\* The store after a complete append is the log of raft-rs.
LEMMA AppendStores ==
  ASSUME NoSnapshots, SafeInv, LocalInv, AppendReady, Alone \/ Truncates
  PROVE  /\ pc = "apply" /\ pc' = "hardstate"
         /\ UNCHANGED <<status, raft, fsm, rd, env, net, crashes>>
         /\ store'.hs = store.hs /\ store'.snap = store.snap
         /\ store'.last = RaftLast(raft, store)
         /\ \A i \in DOMAIN store.entries : i \in DOMAIN store'.entries
         /\ \A i \in 1 .. store'.last :
              i \in DOMAIN store'.entries /\ store'.entries[i] = Log(raft, store)[i]
         /\ \A i \in 1 .. store.hs.commit : store'.entries[i] = store.entries[i]
<1>1. /\ NodeInv /\ LoadInv /\ TypeInv /\ StoreType(store) /\ RaftType(raft) /\ Whole(store)
      /\ LogTable(raft.unst) /\ pc = "apply" /\ rd.ents = raft.unst
  BY DEF SafeInv, NodeInv, TypeInv, TurnInv, HandedOut, LocalInv, RaftType, AppendReady, Applied, At
<1>2. /\ store' = AppendEntries(store, raft.unst) /\ pc' = "hardstate"
      /\ UNCHANGED <<status, raft, fsm, rd, env, net, crashes>>
  BY <1>1, NoAppendPanic DEF AppendReady
<1>3. Attached(raft, store) /\ store.last \in Nat /\ RaftLast(raft, store) \in Nat /\ store.hs.commit \in Nat
      /\ store.hs.commit <= store.last
  BY <1>1, NodeAttached, Naturals DEF SafeInv, CommitInv, CommitInLog
<1>4. \A i \in 1 .. RaftLast(raft, store) :
        /\ i \in DOMAIN raft.unst => Log(raft, store)[i] = raft.unst[i]
        /\ i \notin DOMAIN raft.unst =>
             Log(raft, store)[i] = store.entries[i] /\ i \in 1 .. store.last /\ i \in DOMAIN store.entries
  BY <1>1, <1>3, LogShape
<1>5. CASE DOMAIN raft.unst = {}
  <2>1. store' = store /\ store.last = RaftLast(raft, store)
    BY <1>2, <1>3, <1>5, NoUnstableLast DEF AppendEntries, Attached
  <2> QED BY <1>1, <1>2, <1>4, <1>5, <2>1
<1>6. CASE DOMAIN raft.unst # {}
  <2>1. PICK k \in Nat : k = Max(DOMAIN raft.unst) /\ k = RaftLast(raft, store) /\ k \in DOMAIN raft.unst
    BY <1>1, <1>6, TableEnds, Bounds DEF RaftLast
  <2>2. /\ PartlyAppended(store, raft.unst, k, store') /\ store.last <= store'.last
        /\ k <= store'.last /\ store'.last \in {store.last, k}
    <3>1. LET x == AppendEntries(store, raft.unst)
          IN  /\ PartlyAppended(store, raft.unst, Max(DOMAIN raft.unst), x) /\ store.last <= x.last
              /\ Max(DOMAIN raft.unst) <= x.last /\ x.last \in {store.last, Max(DOMAIN raft.unst)}
      BY <1>1, <1>6, AppendedStore
    <3> QED BY <1>2, <2>1, <3>1
  <2>3. /\ store.last <= k
        /\ \A i \in 1 .. store.last :
             i \in DOMAIN store'.entries /\ store'.entries[i] = Log(raft, store)[i]
        /\ \A i \in 1 .. store.hs.commit : store'.entries[i] = store.entries[i]
    BY <1>1, <2>1, <2>2, PrefixKept
  <2>4. store'.last = k
    BY <1>3, <2>1, <2>2, <2>3
  <2>5. ASSUME NEW i \in 1 .. k
        PROVE  i \in DOMAIN store'.entries /\ store'.entries[i] = Log(raft, store)[i]
    <3>1. CASE i <= store.last
      BY <1>3, <2>3, <3>1
    <3>2. CASE ~(i <= store.last)
      <4>1. i \in DOMAIN raft.unst /\ i <= k
        BY <1>3, <1>4, <2>1, <3>2
      <4>2. Log(raft, store)[i] = raft.unst[i]
        BY <1>4, <2>1, <4>1
      <4> QED BY <2>2, <4>1, <4>2 DEF PartlyAppended
    <3> QED BY <3>1, <3>2
  <2>6. store'.hs = store.hs /\ store'.snap = store.snap /\ \A i \in DOMAIN store.entries : i \in DOMAIN store'.entries
    BY <2>2 DEF PartlyAppended
  <2> QED BY <1>1, <1>2, <2>1, <2>3, <2>4, <2>5, <2>6
<1> QED BY <1>5, <1>6

\* What a crash leaves: the store, or a torn append of it.
LEMMA CrashLeaves ==
  ASSUME NoSnapshots, SafeInv, LocalInv, Crash, Alone \/ Truncates
  PROVE  /\ status = "up" /\ status' = "down" /\ PowerOff /\ UNCHANGED <<env, net>>
         /\ store'.hs = store.hs /\ store'.snap = store.snap /\ store'.last = store.last
         /\ \A i \in DOMAIN store.entries : i \in DOMAIN store'.entries
         /\ store'.entries = store.entries \/ 1 \in DOMAIN store'.entries
         /\ \A i \in 1 .. store.hs.commit : store'.entries[i] = store.entries[i]
         /\ \/ \A i \in 1 .. store.last : store'.entries[i] = store.entries[i]
            \/ /\ store.last <= RaftLast(raft, store)
               /\ \A i \in 1 .. store.last :
                    i \in DOMAIN store'.entries /\ store'.entries[i] = Log(raft, store)[i]
<1>1. /\ NodeInv /\ LoadInv /\ TypeInv /\ StoreType(store) /\ Whole(store) /\ LogTable(raft.unst)
  BY DEF SafeInv, NodeInv, TypeInv, LocalInv, RaftType
<1>2. /\ status = "up" /\ status' = "down" /\ PowerOff /\ UNCHANGED <<env, net>>
  BY <1>1, CrashFacts
<1>3. store.last \in Nat /\ store.hs.commit \in Nat /\ store.hs.commit <= store.last
  BY <1>1, Naturals DEF SafeInv, CommitInv, CommitInLog
<1>4. CASE store'.entries = store.entries /\ store'.hs = store.hs /\ store'.snap = store.snap
           /\ store'.last = store.last
  BY <1>2, <1>3, <1>4
<1>5. ASSUME pc = "apply", store'.last = store.last,
             NEW k \in DOMAIN rd.ents, PartlyAppended(store, rd.ents, k, store')
      PROVE  /\ store'.hs = store.hs /\ store'.snap = store.snap /\ store'.last = store.last
             /\ \A i \in DOMAIN store.entries : i \in DOMAIN store'.entries
             /\ 1 \in DOMAIN store'.entries
             /\ \A i \in 1 .. store.hs.commit : store'.entries[i] = store.entries[i]
             /\ store.last <= RaftLast(raft, store)
             /\ \A i \in 1 .. store.last :
                  i \in DOMAIN store'.entries /\ store'.entries[i] = Log(raft, store)[i]
  <2>1. rd.ents = raft.unst
    BY <1>1, <1>5 DEF NodeInv, TurnInv, HandedOut
  <2>2. /\ store.last <= RaftLast(raft, store)
        /\ \A i \in 1 .. store.last :
              i \in DOMAIN store'.entries /\ store'.entries[i] = Log(raft, store)[i]
        /\ \A i \in 1 .. store.hs.commit : store'.entries[i] = store.entries[i]
    BY <1>5, <2>1, PrefixKept
  <2>3. store'.hs = store.hs /\ store'.snap = store.snap /\ \A i \in DOMAIN store.entries : i \in DOMAIN store'.entries
    BY <1>5 DEF PartlyAppended
  <2>4. CASE DOMAIN store.entries # {}
    BY <1>1, <2>2, <2>3, <2>4, <1>5, FirstIsOne DEF Whole
  <2>5. CASE DOMAIN store.entries = {}
    <3>1. store.last = 0
      BY <1>1, <2>5 DEF LoadInv, Loads
    <3>2. PICK lo \in Nat : lo = Min(DOMAIN raft.unst) /\ lo <= 1 /\ lo # 0 /\ lo \in DOMAIN raft.unst /\ lo <= k
      BY <1>1, <1>3, <1>5, <2>1, <3>1, TableEnds, Bounds, NodeAttached DEF Attached
    <3>3. lo = 1
      BY <3>2
    <3> QED BY <1>5, <2>1, <2>2, <2>3, <3>2, <3>3 DEF PartlyAppended
  <2> QED BY <2>4, <2>5
<1>6. ~(pc = "restore")
  BY <1>1 DEF NodeInv, TurnInv, PendingSnapshot, HandedOut, NoSnapshots
<1>7. \A i \in DOMAIN rd.committed : rd.committed[i].kind # "conf"
  BY <1>1 DEF TypeInv, ReadyType, LogTable, LogEntry, NoSnapshots
<1>8. CASE Thinned(store, store') /\ store'.snap = store.snap /\ store'.entries = store.entries
  BY <1>2, <1>4, <1>8 DEF Thinned
<1>9. \/ store' = store
      \/ /\ pc = "apply" /\ store'.last = store.last
         /\ \E k \in DOMAIN rd.ents : PartlyAppended(store, rd.ents, k, store')
      \/ Thinned(store, store') /\ store'.snap = store.snap /\ store'.entries = store.entries
  BY <1>1, <1>6, <1>7, CrashStore DEF NoSnapshots
<1> QED BY <1>2, <1>4, <1>5, <1>8, <1>9

-----------------------------------------------------------------------------
(* One turn of the loop *)

\* Only MsgAppend makes an acknowledgement, and a Ready takes it.
LEMMA KeepsAcks ==
  ASSUME TypeInv,
         \/ RecvNothing \/ RecvRequestVote \/ RecvVoteQuorum \/ Propose \/ RecvAckQuorum \/ Campaign
         \/ Demote \/ SendPersisted \/ FinishLightApply
  PROVE  raft'.ackMsgs = raft.ackMsgs
<1>0. \A t : StepDown(raft, t).ackMsgs = raft.ackMsgs
  BY DEF StepDown, TypeInv, RaftType
<1>1. CASE RecvNothing
  BY <1>1 DEF RecvNothing, Handled
<1>2. CASE RecvRequestVote
  <2>1. PICK t \in 1 .. MaxTerm, c \in Candidates :
             \/ raft' = StepDown(raft, t)
             \/ raft' = GrantVote(StepDown(raft, t), c)
    BY <1>2 DEF RecvRequestVote, Handled
  <2>2. PICK r : r = StepDown(raft, t)
    OBVIOUS
  <2>3. RaftType(raft) /\ GrantVote(r, c).ackMsgs = r.ackMsgs
    BY DEF GrantVote, TypeInv
  <2> QED BY <1>0, <2>1, <2>2, <2>3
<1>3. CASE RecvVoteQuorum
  BY <1>3 DEF RecvVoteQuorum, Handled, BecomeLeader, AppendLeader
<1>4. CASE Propose
  BY <1>4 DEF Propose, Handled, AppendLeader
<1>5. CASE RecvAckQuorum
  BY <1>5 DEF RecvAckQuorum, Handled
<1>6. CASE Campaign
  BY <1>6 DEF Campaign, Handled, BecomeCandidate
<1>7. CASE Demote
  <2>1. PICK t, known : raft' = [StepDown(raft, t) EXCEPT !.role = "follower", !.lead = known]
    BY <1>7 DEF Demote, Handled
  <2>2. PICK r : r = StepDown(raft, t)
    OBVIOUS
  <2>3. [r EXCEPT !.role = "follower", !.lead = known].ackMsgs = r.ackMsgs
    OBVIOUS
  <2> QED BY <1>0, <2>1, <2>2, <2>3
<1>8. CASE SendPersisted
  BY <1>8 DEF SendPersisted, Advance, TakeLightReady
<1>9. CASE FinishLightApply
  BY <1>9 DEF FinishLightApply, AdvanceApply
<1> QED BY <1>1, <1>2, <1>3, <1>4, <1>5, <1>6, <1>7, <1>8, <1>9

LEMMA FreshAcks ==
  NoReady.ackMsgs = {} /\ OffRaft.ackMsgs = {} /\ OffRaft.applied = 0 /\ OffRaft.since = 0
    /\ DOMAIN NoReady.committed = {}
<1>1. FirstIndex(EmptyStore) = 1
  BY DEF FirstIndex, EmptyStore, DefaultSnapshot
<1> QED BY <1>1, NoEntriesTable DEF NoReady, OffRaft, NewRaft

LEMMA BootAcks ==
  ASSUME TypeInv, Bootstrap, status' = "up"
  PROVE  raft'.ackMsgs = {}
<1>1. RaftType(NewRaft(BootStore)) /\ NewRaft(BootStore).ackMsgs = {}
  BY BootStoreType, NewRaftType DEF TypeInv, NewRaft
<1>2. \/ raft' = NewRaft(BootStore)
      \/ raft' = BecomeLeader(BecomeCandidate(NewRaft(BootStore), Self), BootStore)
  BY DEF Bootstrap, Panic
<1>3. PICK n : n = NewRaft(BootStore)
  OBVIOUS
<1> QED BY <1>1, <1>2, <1>3 DEF BecomeLeader, BecomeCandidate, AppendLeader, RaftType

\* The acknowledgements of a Ready are those that were waiting.
LEMMA TickAcks ==
  ASSUME TypeInv, TickAndReady
  PROVE  /\ rd'.ackMsgs \subseteq raft.ackMsgs
         /\ raft'.ackMsgs = {} \/ (raft'.ackMsgs = raft.ackMsgs /\ raft'.role = "leader")
<1>1. PICK r \in TickOutcomes :
        IF HasReady(Ready(r, store))
        THEN rd' = Ready(r, store) /\ raft' = TakeReady(r, Ready(r, store))
        ELSE rd' = NoReady /\ raft' = r
  BY DEF TickAndReady
<1>2. RaftType(r) /\ r.ackMsgs = raft.ackMsgs
  <2>1. CASE r = raft
    BY <2>1 DEF TypeInv
  <2>2. CASE r = BecomeCandidate(raft, Self) /\ raft.term < MaxTerm
    BY <2>2, CandidateType DEF TypeInv, RaftType, BecomeCandidate
  <2> QED BY <1>1, <2>1, <2>2 DEF TickOutcomes
<1>3. PICK d : d = Ready(r, store)
  OBVIOUS
<1>4. d.ackMsgs = IF r.role = "leader" THEN {} ELSE r.ackMsgs
  BY <1>3 DEF Ready
<1>5. CASE HasReady(d)
  BY <1>1, <1>2, <1>3, <1>4, <1>5 DEF TakeReady, RaftType
<1>6. CASE ~HasReady(d)
  <2>1. d.ackMsgs = {} /\ rd' = NoReady /\ raft' = r
    BY <1>1, <1>3, <1>6 DEF HasReady
  <2> QED BY <1>2, <1>4, <2>1, FreshAcks
<1> QED BY <1>5, <1>6

\* The batch handed out continues the applied entries.
HandsOut(since, committed) ==
  /\ raft'.since \in Nat /\ since <= raft'.since /\ DOMAIN rd'.committed = since + 1 .. raft'.since
  /\ \A i \in since + 1 .. raft'.since :
       rd'.committed[i] = store.entries[i] /\ i <= committed /\ i \in 1 .. store.last

LEMMA TickHandsOut ==
  ASSUME NoSnapshots, SafeInv, LocalInv, TickAndReady
  PROVE  HandsOut(raft.since, raft.committed) /\ \A i \in DOMAIN rd'.committed : i \notin DOMAIN raft.unst
<1>1. /\ TypeInv /\ pc = "tick" /\ Whole(store) /\ StoreType(store)
  BY DEF SafeInv, NodeInv, TypeInv, LocalInv, TickAndReady, At
<1>2. Attached(raft, store)
  BY <1>1, NodeAttached
<1>3. PICK r :
        /\ RaftType(r) /\ SameLog(raft, r) /\ r.term >= raft.term
        /\ r.role = "leader" => raft.role = "leader" /\ r.term = raft.term
        /\ \/ /\ rd' = NoReady /\ raft' = r /\ pc' = "recv"
              /\ r.snap = NoSnapshot /\ DOMAIN r.unst = {}
           \/ /\ Taken(r, raft', rd') /\ RaftType(raft')
              /\ pc' = IF r.snap # NoSnapshot THEN "restore" ELSE "apply"
  BY <1>1, TickFacts
<1>4. Attached(r, store) /\ r.since = raft.since /\ r.committed = raft.committed /\ r.unst = raft.unst
  BY <1>2, <1>3 DEF SameLog, Attached
<1>5. CASE rd' = NoReady /\ raft' = r
  <2>1. raft.since \in Nat
    BY <1>1, Naturals
  <2>2. raft.since + 1 .. raft.since = {}
    BY <2>1
  <2> QED BY <1>4, <1>5, <2>1, <2>2, FreshAcks DEF HandsOut
<1>6. CASE Taken(r, raft', rd')
  <2>1. PICK hi \in Nat :
           /\ r.since <= hi /\ DOMAIN NextEntries(r, store) = r.since + 1 .. hi
           /\ SinceAfter(r, NextEntries(r, store)) = hi
           /\ \A i \in r.since + 1 .. hi :
                /\ NextEntries(r, store)[i] = store.entries[i] /\ i <= r.committed /\ i \in 1 .. store.last
                /\ i \notin DOMAIN r.unst
    BY <1>1, <1>3, <1>4, NextExact
  <2>2. rd'.committed = NextEntries(r, store) /\ raft'.since = hi
    BY <1>4, <1>6, <2>1 DEF Taken, Attached
  <2> QED BY <1>4, <2>1, <2>2 DEF HandsOut
<1> QED BY <1>3, <1>5, <1>6

LEMMA AdvanceEmpties ==
  ASSUME TypeInv
  PROVE  /\ Advance(raft, store, rd, Alone).unst = NoEntries
         /\ Advance(raft, store, rd, Alone).snap = NoSnapshot
         /\ Advance(raft, store, rd, Alone).since = raft.since
<1>1. Alone \in BOOLEAN
  BY DEF Alone
<1> DEFINE h == Advance(raft, store, rd, Alone)
<1>2. /\ h.term = raft.term /\ h.role = raft.role
      /\ h.unst = NoEntries /\ h.snap = NoSnapshot
      /\ h.prevHs = IF rd.hasHs THEN rd.hs ELSE raft.prevHs
      /\ h.since = raft.since /\ h.applied = Max({raft.applied, raft.since})
      /\ h.committed = IF Alone /\ raft.role = "leader" THEN store.last ELSE raft.committed
  BY <1>1, AdvanceType DEF TypeInv
<1> QED BY <1>2

LEMMA SendHandsOut ==
  ASSUME NoSnapshots, SafeInv, LocalInv, SendPersisted
  PROVE  HandsOut(raft.since, raft'.committed) /\ rd'.ackMsgs = {}
<1>1. /\ TypeInv /\ Whole(store) /\ StoreType(store) /\ RaftType(raft) /\ ReadyType(rd)
  BY DEF SafeInv, NodeInv, TypeInv, LocalInv
<1>2. PICK r, light :
           /\ r = Advance(raft, store, rd, Alone) /\ light = LightReady(r, store)
           /\ RaftType(r) /\ LogTable(light.committed) /\ light.commit \in Index
           /\ raft' = TakeLightReady(r, light) /\ RaftType(raft')
           /\ ReadyType(rd') /\ rd'.committed = light.committed /\ rd'.commit = light.commit
           /\ pc' = IF light.commit # 0 THEN "lightcommit" ELSE "lightapply"
           /\ lcommit' \in [Terms -> Index]
           /\ UNCHANGED <<store, status, fsm, llog, mine, crashes>>
  BY <1>1, SendFacts
<1>3. r.unst = NoEntries /\ r.snap = NoSnapshot /\ r.since = raft.since
  BY <1>1, <1>2, AdvanceEmpties
<1>4. raft'.committed = r.committed /\ raft'.since = SinceAfter(r, light.committed)
  BY <1>2, TakeLightReadyType
<1>5. light.committed = NextEntries(r, store)
  BY <1>2 DEF LightReady
<1>6. Attached(r, store)
  BY <1>3, NoEntriesTable DEF Attached
<1>7. PICK hi \in Nat :
         /\ r.since <= hi /\ DOMAIN NextEntries(r, store) = r.since + 1 .. hi
         /\ SinceAfter(r, NextEntries(r, store)) = hi
         /\ \A i \in r.since + 1 .. hi :
              /\ NextEntries(r, store)[i] = store.entries[i] /\ i <= r.committed /\ i \in 1 .. store.last
              /\ i \notin DOMAIN r.unst
  BY <1>1, <1>2, <1>6, NextExact
<1>8. rd'.ackMsgs = {}
  BY DEF SendPersisted, NoReady
<1> QED BY <1>2, <1>3, <1>4, <1>5, <1>7, <1>8 DEF HandsOut

\* What every handler keeps.
LEMMA LocalHandled ==
  ASSUME LocalInv, Receiving, NEW q, Handled(q), q.applied = raft.applied, q.since = raft.since,
         q.prevHs = raft.prevHs, DOMAIN q.unst # {} => Deviates(q.unst, store),
         q.role = "leader" => q.ackMsgs = {}
  PROVE  LocalInv'
<1>1. /\ pc = "recv" /\ pc' = "tick" /\ raft' = q /\ status = "up"
      /\ store' = store /\ rd' = rd /\ status' = status
  BY DEF Receiving, Handled
<1>2. Whole(store)'
  BY <1>1 DEF LocalInv
<1>3. NewUnstable'
  BY <1>1 DEF NewUnstable, Deviates
<1>4. StoredTerm' /\ AckShape' /\ AppliedShape'
  BY <1>1 DEF LocalInv, StoredTerm, AckShape, AppliedShape
<1> QED BY <1>2, <1>3, <1>4 DEF LocalInv

LEMMA LocalOff ==
  ASSUME PowerOff, status' # "up", Whole(store')
  PROVE  LocalInv'
<1>1. raft' = OffRaft /\ pc' = "recv" /\ rd' = NoReady
  BY DEF PowerOff
<1>2. NewUnstable' /\ StoredTerm' /\ AckShape' /\ AppliedShape'
  BY <1>1, OffRaftFacts, FreshAcks DEF NewUnstable, StoredTerm, AckShape, AppliedShape
<1> QED BY <1>2 DEF LocalInv

\* A leader appends at the end of its log.
LEMMA LeaderDeviates ==
  ASSUME NoSnapshots, SafeInv, LocalInv, pc = "recv", NEW q, RaftType(q),
         DOMAIN q.unst = DOMAIN raft.unst \cup {RaftLast(raft, store) + 1}
  PROVE  Deviates(q.unst, store)
<1>1. /\ TypeInv /\ LogTable(q.unst) /\ LogTable(raft.unst) /\ raft.snap = NoSnapshot
      /\ store.last \in Nat /\ RaftLast(raft, store) \in Nat
  BY NodeLogs DEF RaftType, TypeInv
<1>2. CASE DOMAIN raft.unst = {}
  <2>1. DOMAIN q.unst = {store.last + 1}
    BY <1>1, <1>2, NoUnstableLast
  <2> QED BY <1>1, <2>1, MinOfOne DEF Deviates
<1>3. CASE DOMAIN raft.unst # {}
  <2>1. Alone /\ Min(DOMAIN raft.unst) = store.last + 1
    BY <1>3 DEF LocalInv, NewUnstable, Deviates
  <2>2. PICK m \in Nat : /\ m = Min(DOMAIN q.unst) /\ m \in DOMAIN q.unst
                         /\ \A i \in DOMAIN q.unst : m <= i
    BY <1>1, <1>3, TableEnds, Bounds
  <2>3. store.last + 1 \in DOMAIN raft.unst /\ \A i \in DOMAIN raft.unst : i \in Nat /\ store.last + 1 <= i
    BY <1>1, <1>3, <2>1, TableEnds, Bounds DEF LogTable
  <2>4. store.last + 1 <= RaftLast(raft, store)
    BY <1>1, <1>3, <2>1, <2>3, TableEnds DEF RaftLast
  <2>5. m <= store.last + 1 /\ store.last + 1 <= m
    BY <1>1, <2>2, <2>3, <2>4
  <2>6. m = store.last + 1
    BY <1>1, <2>2, <2>5
  <2> QED BY <2>2, <2>6 DEF Deviates
<1> QED BY <1>2, <1>3

LEMMA LocalReceive ==
  ASSUME NoSnapshots, SafeInv, LocalInv, Receive
  PROVE  LocalInv'
<1>1. /\ TypeInv /\ TermInv /\ Receiving /\ pc = "recv" /\ RaftType(raft) /\ StoreType(store)
      /\ raft.ackMsgs = {} /\ (DOMAIN raft.unst # {} => Deviates(raft.unst, store))
      /\ store.last \in Nat
  <2>1. Receiving /\ pc = "recv"
    BY DEF Receive, RecvNothing, RecvAppend, RecvSnapshot, RecvRequestVote, RecvVoteQuorum, Propose,
           RecvAckQuorum, Campaign, Demote, RpcCreateSnapshot, Receiving
  <2> QED BY <2>1, Naturals DEF SafeInv, NodeInv, TypeInv, LocalInv, AckShape, NewUnstable
<1>2. ASSUME NEW q, Handled(q), raft'.ackMsgs = raft.ackMsgs, SameLog(raft, q)
      PROVE  LocalInv'
  <2>1. q.ackMsgs = {}
    BY <1>1, <1>2 DEF Handled
  <2> QED BY <1>1, <1>2, <2>1, LocalHandled DEF SameLog
<1>3. CASE RecvNothing
  BY <1>2, <1>3, <1>1, KeepsAcks DEF RecvNothing, SameLog
<1>4. CASE RecvAppend
  <2>1. PICK t, q :
           /\ t \in Terms /\ ~Alone /\ llog[t] # <<>> /\ raft.term <= t /\ Handled(q) /\ UNCHANGED env
           /\ Kept(q) /\ q.term = t /\ q.snap = NoSnapshot
           /\ \/ /\ q.unst = raft.unst /\ q.committed = raft.committed
                 /\ q.ackMsgs \subseteq {<<t, raft.committed>>}
              \/ \E m \in Nat, last \in Nat : Follows(t, m, last, q)
    BY <1>4, AppendExact
  <2>2. q.role # "leader" /\ q.applied = raft.applied /\ q.since = raft.since /\ q.prevHs = raft.prevHs
    BY <2>1 DEF Kept
  <2>3. DOMAIN q.unst # {} => Deviates(q.unst, store)
    <3>1. CASE q.unst = raft.unst
      BY <1>1, <3>1
    <3>2. ASSUME NEW m \in Nat, NEW last \in Nat, Follows(t, m, last, q), q.unst # raft.unst
          PROVE  Deviates(q.unst, store)
      <4>1. /\ m < last /\ DOMAIN q.unst = m + 1 .. last
            /\ \A i \in m + 1 .. last : q.unst[i] = llog[t][i]
            /\ m + 1 <= store.last => store.entries[m + 1].term # llog[t][m + 1].term
            /\ m # 0 => m <= store.last
        BY <1>1, <3>2 DEF Follows
      <4>2. Min(DOMAIN q.unst) = m + 1
        <5>1. LogTable(q.unst) /\ m + 1 \in DOMAIN q.unst
          BY <2>1, <4>1 DEF Kept, RaftType
        <5>2. Min(DOMAIN q.unst) \in DOMAIN q.unst /\ Min(DOMAIN q.unst) <= m + 1
          BY <5>1, TableEnds
        <5> QED BY <4>1, <5>2
      <4>3. CASE m + 1 <= store.last
        <5>1. m + 1 \in 1 .. store.last /\ m + 1 \in m + 1 .. last
          BY <1>1, <4>1, <4>3
        <5> QED BY <2>1, <4>1, <4>2, <4>3, <5>1 DEF Deviates
      <4>4. CASE ~(m + 1 <= store.last)
        <5>1. m + 1 = store.last + 1
          BY <1>1, <4>1, <4>4
        <5> QED BY <4>2, <5>1 DEF Deviates
      <4> QED BY <4>3, <4>4
    <3> QED BY <2>1, <3>1, <3>2
  <2> QED BY <1>1, <2>1, <2>2, <2>3, LocalHandled
<1>5. CASE RecvRequestVote
  BY <1>1, <1>2, <1>5, VoteRequest, KeepsAcks
<1>6. CASE RecvVoteQuorum
  <2>1. PICK q : q = BecomeLeader(raft, store)
    OBVIOUS
  <2>2. raft.role = "candidate" /\ raft.term # 0 /\ RaftLast(raft, store) < MaxIndex /\ Handled(q)
    BY <1>1, <1>6, <2>1 DEF RecvVoteQuorum, RaftType
  <2>3. /\ RaftType(q) /\ q.applied = raft.applied /\ q.since = raft.since /\ q.prevHs = raft.prevHs
        /\ DOMAIN q.unst = DOMAIN raft.unst \cup {RaftLast(raft, store) + 1}
    BY <1>1, <2>1, <2>2, BecomeLeaderType
  <2>4. q.ackMsgs = {}
    BY <1>1, <1>6, <2>2, KeepsAcks DEF Handled
  <2> QED BY <1>1, <2>2, <2>3, <2>4, LeaderDeviates, LocalHandled
<1>7. CASE Propose
  <2>1. PICK q :
           /\ Handled(q) /\ RaftType(q) /\ q.applied = raft.applied
           /\ q.since = raft.since /\ q.prevHs = raft.prevHs
           /\ DOMAIN q.unst = DOMAIN raft.unst \cup {RaftLast(raft, store) + 1}
    BY <1>1, <1>7, Proposal
  <2>2. q.ackMsgs = {}
    BY <1>1, <1>7, <2>1, KeepsAcks DEF Handled
  <2> QED BY <1>1, <2>1, <2>2, LeaderDeviates, LocalHandled
<1>8. CASE RecvAckQuorum
  <2>1. PICK n \in Index : Handled([raft EXCEPT !.committed = n])
    BY <1>1, <1>8, AckQuorum
  <2>2. PICK q : q = [raft EXCEPT !.committed = n]
    OBVIOUS
  <2>3. /\ q.applied = raft.applied /\ q.since = raft.since /\ q.prevHs = raft.prevHs
        /\ q.unst = raft.unst /\ q.ackMsgs = {}
    BY <1>1, <2>2 DEF RaftType
  <2> QED BY <1>1, <2>1, <2>2, <2>3, LocalHandled
<1>9. CASE Campaign
  <2>1. PICK q : q = BecomeCandidate(raft, Self)
    OBVIOUS
  <2>2. Handled(q) /\ raft.term < MaxTerm
    BY <1>9, <2>1 DEF Campaign
  <2>3. SameLog(raft, q)
    BY <1>1, <2>1, <2>2, CandidateType
  <2> QED BY <1>1, <1>2, <1>9, <2>2, <2>3, KeepsAcks
<1>10. CASE Demote
  BY <1>1, <1>2, <1>10, Demotion, KeepsAcks
<1>11. ~RecvSnapshot /\ ~RpcCreateSnapshot
  BY DEF RecvSnapshot, RpcCreateSnapshot, NoSnapshots
<1> QED BY <1>3, <1>4, <1>5, <1>6, <1>7, <1>8, <1>9, <1>10, <1>11 DEF Receive

LEMMA WholeMore ==
  ASSUME NEW s, NEW x, StoreType(s), StoreType(x), Whole(s), x.snap = s.snap, x.last \in Nat,
         DOMAIN s.entries \subseteq DOMAIN x.entries, 1 .. x.last \subseteq DOMAIN x.entries,
         x.entries = s.entries \/ 1 \in DOMAIN x.entries
  PROVE  Whole(x)
<1>1. CASE 1 \in DOMAIN x.entries
  BY <1>1, FirstIsOne DEF Whole
<1>2. CASE x.entries = s.entries
  BY <1>2 DEF Whole, FirstIndex
<1> QED BY <1>1, <1>2

\* A store with the same log.
SameStore(s, x) == x.entries = s.entries /\ x.last = s.last /\ x.snap = s.snap

LEMMA SameStoreLogs ==
  ASSUME NEW s, NEW x, SameStore(s, x)
  PROVE  /\ Stored(x) = Stored(s) /\ (Whole(s) => Whole(x))
         /\ \A r : RaftLast(r, x) = RaftLast(r, s) /\ Log(r, x) = Log(r, s)
         /\ \A u : Deviates(u, s) => Deviates(u, x)
<1>1. FirstIndex(x) = FirstIndex(s)
  BY DEF SameStore, FirstIndex
<1>2. \A r : RaftLast(r, x) = RaftLast(r, s)
  BY DEF SameStore, RaftLast, LastIndex
<1> QED BY <1>1, <1>2 DEF SameStore, Stored, Whole, Log, Deviates

\* The steps of on_ready that store the hard state.
WriteExact ==
  /\ store'.hs.commit \in {store.hs.commit, raft.committed}
  /\ \/ pc = "hardstate" /\ pc' = "send" /\ store'.hs.term = raft.term
     \/ pc = "lightcommit" /\ pc' = "lightapply" /\ store'.hs.term = store.hs.term

LEMMA WriteFacts ==
  ASSUME NoSnapshots, SafeInv, LocalInv, WriteHardState \/ WriteLightCommit
  PROVE  /\ SameStore(store, store') /\ WriteExact
         /\ UNCHANGED <<status, raft, fsm, rd, env, net, crashes>> /\ status = "up"
<1>1. /\ TypeInv /\ TurnInv /\ StoreType(store) /\ RaftType(raft) /\ ReadyType(rd)
  BY DEF SafeInv, NodeInv, TypeInv
<1>2. CASE WriteHardState
  <2>1. /\ pc = "hardstate" /\ pc' = "send" /\ status = "up"
        /\ UNCHANGED <<status, raft, fsm, rd, env, net, crashes>>
        /\ store' = IF rd.hasHs THEN SetHardState(store, rd.hs) ELSE store
        /\ rd.hs = HardState(raft) /\ rd.hasHs = (HardState(raft) # raft.prevHs)
    BY <1>1, <1>2 DEF WriteHardState, At, TurnInv, HandedOut
  <2>2. HardState(raft).term = raft.term /\ HardState(raft).commit = raft.committed
    BY DEF HardState
  <2>3. SameStore(store, store')
    BY <1>1, <2>1 DEF SameStore, SetHardState, StoreType
  <2>4. CASE rd.hasHs
    <3>1. store'.hs = rd.hs
      BY <1>1, <2>1, <2>4 DEF SetHardState, StoreType
    <3> QED BY <2>1, <2>2, <2>3, <3>1 DEF WriteExact
  <2>5. CASE ~rd.hasHs
    <3>1. store' = store /\ raft.prevHs.term = raft.term /\ raft.prevHs.commit = raft.committed
      BY <2>1, <2>2, <2>5
    <3>2. store.hs.term = raft.term
      BY <2>1, <3>1 DEF LocalInv, StoredTerm
    <3> QED BY <2>1, <2>3, <3>1, <3>2 DEF WriteExact
  <2> QED BY <2>4, <2>5
<1>3. CASE WriteLightCommit
  <2>1. /\ pc = "lightcommit" /\ pc' = "lightapply" /\ status = "up"
        /\ UNCHANGED <<status, raft, fsm, rd, env, net, crashes>>
        /\ store' = SetHardStateCommit(store, rd.commit) /\ rd.commit = raft.committed
    BY <1>1, <1>3 DEF WriteLightCommit, At, TurnInv, HandedOut
  <2>2. SameStore(store, store') /\ store'.hs.term = store.hs.term
        /\ store'.hs.commit \in {store.hs.commit, raft.committed}
    BY <1>1, <2>1 DEF SameStore, SetHardStateCommit, StoreType, StoredStates
  <2> QED BY <2>1, <2>2 DEF WriteExact
<1> QED BY <1>2, <1>3

LEMMA ApplyExact ==
  ASSUME NoSnapshots, TypeInv, ApplyEntry
  PROVE  /\ SameStore(store, store') /\ store'.hs = store.hs /\ status = "up"
         /\ pc \in {"apply", "lightapply"} /\ UNCHANGED <<status, raft, pc, env, net, crashes>>
         /\ \E i \in DOMAIN rd.committed :
              /\ \A j \in DOMAIN rd.committed : i <= j
              /\ rd' = [rd EXCEPT !.committed = Restrict(@, DOMAIN @ \ {i})]
              /\ fsm' = IF rd.committed[i].kind = "cmd" THEN Append(fsm, <<i, rd.committed[i].term>>)
                        ELSE fsm
<1>1. PICK i \in DOMAIN rd.committed :
        LET entry == rd.committed[i]
        IN  SkipEmptyEntry(i, entry) \/ ApplyNormalEntry(i, entry)
              \/ ApplyConfChangeEntry(i, entry) \/ ApplyLeaveJointEntry(i, entry)
  BY DEF ApplyEntry
<1>2. rd.committed[i] \in LogEntry /\ StoreType(store)
  BY DEF TypeInv, ReadyType, LogTable
<1>3. rd.committed[i].kind # "conf" /\ ~SnapshotInterval
  BY <1>2 DEF LogEntry, NoSnapshots
<1>4. /\ SameStore(store, store) /\ SameStore(store, SetConfState(store, i))
      /\ SetConfState(store, i).hs = store.hs
  BY <1>2 DEF SameStore, SetConfState, StoreType
<1>5. Applying(i) /\ EntryHandled(i)
  BY <1>1 DEF SkipEmptyEntry, ApplyNormalEntry, ApplyConfChangeEntry, ApplyLeaveJointEntry
<1>6. store' \in {store, SetConfState(store, i)}
  BY <1>1, <1>3 DEF SkipEmptyEntry, ApplyNormalEntry, ApplyConfChangeEntry, ApplyLeaveJointEntry
<1>7. fsm' = IF rd.committed[i].kind = "cmd" THEN Append(fsm, <<i, rd.committed[i].term>>) ELSE fsm
  BY <1>1, <1>3 DEF SkipEmptyEntry, ApplyNormalEntry, ApplyConfChangeEntry, ApplyLeaveJointEntry
<1> QED BY <1>4, <1>5, <1>6, <1>7 DEF Applying, EntryHandled

LEMMA LocalReady ==
  ASSUME NoSnapshots, SafeInv, TypeInv', LocalInv, OnReady, Alone \/ Truncates
  PROVE  LocalInv'
<1>1. /\ TypeInv /\ TurnInv /\ StoreType(store) /\ RaftType(raft) /\ ReadyType(rd) /\ Whole(store)
      /\ StoreType(store') /\ raft.snap = NoSnapshot
      /\ raft.since \in Nat /\ raft.applied \in Nat /\ raft.applied <= raft.since
  BY NodeLogs, Naturals DEF SafeInv, NodeInv, TypeInv, LocalInv, AppliedShape
<1>2. CASE TickAndReady
  <2>1. /\ status = "up" /\ pc = "tick" /\ UNCHANGED <<store, status, fsm, env, net, crashes>>
    BY <1>1, <1>2, TickFacts
  <2>2. PICK r :
          /\ RaftType(r) /\ SameLog(raft, r) /\ r.term >= raft.term
          /\ r.role = "leader" => raft.role = "leader" /\ r.term = raft.term
          /\ \/ /\ rd' = NoReady /\ raft' = r /\ pc' = "recv"
                /\ r.snap = NoSnapshot /\ DOMAIN r.unst = {}
             \/ /\ Taken(r, raft', rd') /\ RaftType(raft')
                /\ pc' = IF r.snap # NoSnapshot THEN "restore" ELSE "apply"
    BY <1>1, <1>2, TickFacts
  <2>3. /\ raft'.unst = raft.unst /\ raft'.applied = raft.applied /\ raft'.prevHs = raft.prevHs
        /\ pc' \in {"recv", "apply"} /\ (pc' = "recv" => DOMAIN raft.unst = {} /\ rd' = NoReady
                                                           /\ raft'.since = raft.since)
        /\ raft'.role = "leader" => raft.role = "leader"
    BY <1>1, <2>2 DEF SameLog, Taken
  <2>4. NewUnstable'
    BY <2>1, <2>3 DEF LocalInv, NewUnstable, Deviates
  <2>5. StoredTerm'
    BY <2>1, <2>3 DEF LocalInv, StoredTerm
  <2>6. AckShape'
    BY <1>1, <1>2, <2>1, <2>3, TickAcks, FreshAcks DEF LocalInv, AckShape
  <2>7. AppliedShape'
    <3>1. raft'.since \in Nat /\ raft.since <= raft'.since
      BY <1>2, TickHandsOut DEF HandsOut
    <3>2. raft.applied = raft.since
      BY <2>1 DEF LocalInv, AppliedShape
    <3> QED BY <1>1, <2>3, <3>1, <3>2, FreshAcks DEF AppliedShape
  <2> QED BY <1>1, <2>1, <2>4, <2>5, <2>6, <2>7 DEF LocalInv
<1>3. ~RestoreSnapshot
  BY <1>1 DEF RestoreSnapshot, At, TurnInv, HandedOut
<1>4. CASE ApplyEntry
  <2>1. /\ SameStore(store, store') /\ store'.hs = store.hs /\ status = "up"
        /\ pc \in {"apply", "lightapply"} /\ UNCHANGED <<status, raft, pc, env, net, crashes>>
    BY <1>1, <1>4, ApplyExact
  <2>2. rd'.ackMsgs = rd.ackMsgs
    <3>1. PICK i \in DOMAIN rd.committed : rd' = [rd EXCEPT !.committed = Restrict(@, DOMAIN @ \ {i})]
      BY <1>1, <1>4, ApplyExact
    <3> QED BY <1>1, <3>1 DEF ReadyType
  <2>3. Whole(store') /\ NewUnstable'
    BY <1>1, <2>1, SameStoreLogs DEF LocalInv, NewUnstable
  <2>4. StoredTerm' /\ AckShape' /\ AppliedShape'
    BY <2>1, <2>2 DEF LocalInv, StoredTerm, AckShape, AppliedShape
  <2> QED BY <2>3, <2>4 DEF LocalInv
<1>5. CASE AppendReady
  <2>1. /\ pc = "apply" /\ pc' = "hardstate"
        /\ UNCHANGED <<status, raft, fsm, rd, env, net, crashes>>
        /\ store'.hs = store.hs /\ store'.snap = store.snap
        /\ store'.last = RaftLast(raft, store)
        /\ \A i \in DOMAIN store.entries : i \in DOMAIN store'.entries
        /\ \A i \in 1 .. store'.last :
              i \in DOMAIN store'.entries /\ store'.entries[i] = Log(raft, store)[i]
    BY <1>5, AppendStores
  <2>2. /\ RaftLast(raft, store) \in Nat /\ Attached(raft, store)
        /\ \A i \in 1 .. RaftLast(raft, store) : i \in DOMAIN raft.unst => Log(raft, store)[i] = raft.unst[i]
    BY <1>1, <2>1, NodeAttached, LogShape
  <2>3. Whole(store')
    <3>1. store'.entries = store.entries \/ 1 \in DOMAIN store'.entries
      <4>1. CASE RaftLast(raft, store) = 0
        <5>1. DOMAIN raft.unst = {}
          <6>1. ASSUME DOMAIN raft.unst # {} PROVE FALSE
            <7>1. RaftLast(raft, store) = Max(DOMAIN raft.unst)
              BY <6>1 DEF RaftLast
            <7>2. Max(DOMAIN raft.unst) \in 1 .. MaxIndex
              BY <1>1, <6>1, TableEnds DEF RaftType
            <7> QED BY <4>1, <7>1, <7>2, Bounds
          <6> QED BY <6>1
        <5>2. rd.ents = raft.unst
          BY <1>1, <2>1 DEF TurnInv, HandedOut
        <5>3. store' = store
          BY <1>5, <5>1, <5>2 DEF AppendReady, AppendEntries, AppendPanics
        <5> QED BY <5>3
      <4>2. CASE RaftLast(raft, store) # 0
        <5>1. 1 \in 1 .. store'.last
          BY <2>1, <2>2, <4>2
        <5> QED BY <2>1, <5>1
      <4> QED BY <4>1, <4>2
    <3> QED BY <1>1, <2>1, <2>2, <3>1, WholeMore
  <2>4. Log(raft, store') = Stored(store')
    <3>1. RaftLast(raft, store') = store'.last
      BY <1>1, <2>1 DEF RaftLast, LastIndex
    <3>2. \A i \in 1 .. store'.last :
            (IF i \in DOMAIN raft.unst THEN raft.unst[i] ELSE store'.entries[i]) = store'.entries[i]
      BY <2>1, <2>2
    <3> QED BY <3>1, <3>2 DEF Log, Stored
  <2>5. NewUnstable' /\ StoredTerm' /\ AckShape' /\ AppliedShape'
    BY <2>1, <2>4 DEF LocalInv, NewUnstable, StoredTerm, AckShape, AppliedShape
  <2> QED BY <2>3, <2>5 DEF LocalInv
<1>6. CASE WriteHardState \/ WriteLightCommit
  <2>1. /\ SameStore(store, store') /\ WriteExact
        /\ UNCHANGED <<status, raft, fsm, rd, env, net, crashes>> /\ status = "up"
    BY <1>6, WriteFacts
  <2>2. pc = "hardstate" => Log(raft, store') = Stored(store')
    BY <2>1, SameStoreLogs DEF LocalInv, NewUnstable
  <2>3. Whole(store') /\ NewUnstable'
    BY <1>1, <2>1, <2>2, SameStoreLogs DEF NewUnstable, WriteExact
  <2>4. StoredTerm' /\ AckShape' /\ AppliedShape'
    BY <2>1 DEF WriteExact, LocalInv, StoredTerm, AckShape, AppliedShape
  <2> QED BY <2>3, <2>4 DEF LocalInv
<1>7. CASE SendPersisted
  <2> DEFINE p == IF rd.hasHs THEN rd.hs ELSE raft.prevHs
  <2>1. Advanced(p) /\ status = "up" /\ pc = "send" /\ UNCHANGED <<store, status>>
    BY <1>1, <1>7, SendOutcome
  <2>2. p.term = raft.term
    <3>1. HardState(raft).term = raft.term /\ rd.hs = HardState(raft) /\ rd.hasHs = (HardState(raft) # raft.prevHs)
      BY <1>1, <2>1 DEF TurnInv, HandedOut, HardState
    <3>2. CASE rd.hasHs
      BY <3>1, <3>2
    <3>3. CASE ~rd.hasHs
      BY <3>1, <3>3
    <3> QED BY <3>2, <3>3
  <2> HIDE DEF p
  <2>3. raft.term = store.hs.term
    BY <2>1 DEF LocalInv, StoredTerm
  <2>4. /\ raft'.term = raft.term /\ raft'.prevHs.term = raft.term /\ raft'.unst = NoEntries
        /\ raft'.applied = Max({raft.applied, raft.since}) /\ pc' \in {"lightcommit", "lightapply"}
    BY <2>1, <2>2 DEF Advanced
  <2>5. raft'.ackMsgs = {} /\ rd'.ackMsgs = {} /\ raft'.since \in Nat /\ raft.since <= raft'.since
    BY <1>1, <1>7, <2>1, KeepsAcks, SendHandsOut DEF HandsOut, LocalInv, AckShape
  <2>6. raft'.applied = raft.since
    BY <1>1, <2>4, MaxOfTwo
  <2>7. NewUnstable' /\ StoredTerm'
    BY <2>1, <2>3, <2>4, NoEntriesTable DEF NewUnstable, StoredTerm
  <2>8. AckShape' /\ AppliedShape'
    BY <2>4, <2>5, <2>6 DEF AckShape, AppliedShape
  <2> QED BY <1>1, <2>1, <2>7, <2>8 DEF LocalInv
<1>8. CASE FinishLightApply
  <2>1. /\ status = "up" /\ pc = "lightapply" /\ pc' = "recv" /\ rd' = NoReady
        /\ raft'.term = raft.term /\ raft'.role = raft.role /\ raft'.unst = raft.unst
        /\ raft'.since = raft.since /\ raft'.prevHs = raft.prevHs
        /\ raft'.applied = Max({raft.applied, raft.since})
        /\ UNCHANGED <<store, status, fsm, env, net, crashes>>
    BY <1>1, <1>8, FinishFacts
  <2>2. raft'.applied = raft.since /\ raft'.ackMsgs = {} /\ DOMAIN raft.unst = {}
    BY <1>1, <1>8, <2>1, MaxOfTwo, KeepsAcks DEF LocalInv, AckShape, TurnInv, HandedOut
  <2>3. NewUnstable' /\ StoredTerm'
    BY <2>1, <2>2 DEF LocalInv, NewUnstable, StoredTerm
  <2>4. AckShape' /\ AppliedShape'
    BY <1>1, <2>1, <2>2, FreshAcks DEF AckShape, AppliedShape
  <2> QED BY <1>1, <2>1, <2>3, <2>4 DEF LocalInv
<1> QED BY <1>2, <1>3, <1>4, <1>5, <1>6, <1>7, <1>8 DEF OnReady

\* A start without a stored snapshot reads the store and leaves it alone.
LEMMA BootExact ==
  ASSUME NoSnapshots, SafeInv, LocalInv, Bootstrap
  PROVE  /\ status = "down" /\ status' = "up" /\ rd' = NoReady /\ pc' = "recv" /\ Started(store')
         /\ raft'.ackMsgs = {} /\ fsm' = <<>> /\ UNCHANGED <<net, crashes>>
         /\ SameStore(store, store') /\ store'.hs.term = store.hs.term /\ store'.hs.commit = store.hs.commit
         /\ raft'.applied = 0 /\ raft'.since = 0
         /\ raft'.term = IF Alone THEN store.hs.term + 1 ELSE store.hs.term
         /\ raft'.committed = store.hs.commit
         /\ Alone => raft'.unst = Put(NoEntries, store.last + 1, Noop(raft'.term))
<1>1. /\ TypeInv /\ StoreType(store) /\ Loads(store) /\ Whole(store) /\ store.hs.commit <= store.last
      /\ ~BootstrapFromSnapshot /\ store.hs.term \in Nat /\ store.hs.commit \in Nat
  BY Naturals DEF SafeInv, NodeInv, TypeInv, LoadInv, CommitInv, CommitInLog, LocalInv, NoSnapshots
<1>2. PICK b : b = BootStore
  OBVIOUS
<1>3. /\ ~NewPanics(b) /\ b.entries = store.entries /\ b.last = store.last /\ b.snap = store.snap
      /\ b.hs.commit = store.hs.commit
  BY <1>1, <1>2, LoadsIsLoaded
<1>4. /\ Started(b) /\ store' = b /\ status' = "up" /\ rd' = NoReady /\ pc' = "recv"
  BY <1>1, <1>2, <1>3, BootstrapFacts
<1>5. status = "down" /\ fsm' = <<>> /\ UNCHANGED <<net, crashes>>
  BY <1>2, <1>3 DEF Bootstrap
<1>6. b.hs.term = store.hs.term
  <2>1. CASE b = store
    BY <2>1
  <2>2. CASE b = ApplySnapshot(store, store.snap)
    <3>1. SnapshotType(store.snap) /\ store.snap.term = 0
      BY <1>1 DEF StoreType, Whole, DefaultSnapshot
    <3>2. b.hs = SnapshotHardState(store, store.snap)
      BY <1>1, <2>2 DEF ApplySnapshot, StoreType
    <3>3. b.hs.term >= store.hs.term /\ b.hs.term \in {store.hs.term, 0}
      BY <1>1, <3>1, <3>2, SnapshotHardStateType
    <3> QED BY <1>1, <3>3
  <2> QED BY <1>2, <2>1, <2>2 DEF BootStore
<1>7. FirstIndex(b) = 1
  BY <1>1, <1>3 DEF FirstIndex, Whole
<1>8. raft'.applied = 0 /\ raft'.since = 0 /\ raft'.committed = store.hs.commit
  BY <1>3, <1>4, <1>7 DEF Started, DefaultHardState
<1>9. /\ raft'.term = IF Alone THEN store.hs.term + 1 ELSE store.hs.term
      /\ Alone => raft'.unst = Put(NoEntries, store.last + 1, Noop(raft'.term))
  <2>1. NewRaft(b).term = b.hs.term /\ RaftType(NewRaft(b)) /\ StoreType(b)
    BY <1>1, <1>2, BootStoreType, NewRaftType DEF NewRaft
  <2>2. CASE ~Alone
    <3>1. raft' = NewRaft(b)
      BY <1>2, <1>3, <2>2 DEF Bootstrap
    <3> QED BY <1>6, <2>1, <2>2, <3>1
  <2>3. CASE Alone
    <3>1. PICK r : r = BecomeLeader(BecomeCandidate(NewRaft(b), Self), b)
      OBVIOUS
    <3>2. raft' = r /\ r.term <= MaxTerm /\ b.last < MaxIndex
      BY <1>2, <1>3, <2>3, <3>1 DEF Bootstrap, LastIndex
    <3>3. PICK c : c = BecomeCandidate(NewRaft(b), Self)
      OBVIOUS
    <3>4. c.term = b.hs.term + 1
      BY <2>1, <3>3 DEF BecomeCandidate, RaftType
    <3>5. r.term = c.term
      BY <2>1, <3>1, <3>3 DEF BecomeLeader, AppendLeader, BecomeCandidate, RaftType
    <3>6. b.hs.term < MaxTerm
      BY <1>1, <1>6, <3>2, <3>4, <3>5, Bounds
    <3>7. LET n == NewRaft(b)
              x == BecomeLeader(BecomeCandidate(n, Self), b)
          IN  /\ RaftType(n) /\ RaftType(x) /\ x.term = b.hs.term + 1 /\ x.term # 0
              /\ x.role = "leader" /\ x.snap = NoSnapshot /\ x.committed = n.committed
              /\ x.applied = n.applied /\ x.since = n.since /\ x.prevHs = n.prevHs
              /\ DOMAIN x.unst = {b.last + 1}
              /\ x.unst = Put(NoEntries, b.last + 1, Noop(x.term))
      BY <1>1, <1>2, <3>2, <3>6, OwnTerm
    <3> QED BY <1>3, <1>6, <2>3, <3>1, <3>2, <3>7
  <2> QED BY <2>2, <2>3
<1>10. raft'.ackMsgs = {}
  BY <1>1, <1>4, BootAcks
<1> QED BY <1>3, <1>4, <1>5, <1>6, <1>8, <1>9, <1>10 DEF SameStore

LEMMA LocalBootstrap ==
  ASSUME NoSnapshots, SafeInv, TypeInv', LocalInv, Bootstrap
  PROVE  LocalInv'
<1>1. /\ status' = "up" /\ rd' = NoReady /\ pc' = "recv" /\ Started(store')
      /\ raft'.ackMsgs = {} /\ SameStore(store, store') /\ raft'.applied = 0 /\ raft'.since = 0
  BY BootExact
<1>2. Whole(store')
  BY <1>1, SameStoreLogs DEF LocalInv
<1>3. NewUnstable'
  <2>1. CASE ~Alone
    BY <1>1, <2>1, NoEntriesTable DEF Started, NewUnstable
  <2>2. CASE Alone
    <3>1. DOMAIN raft'.unst = {store'.last + 1} /\ LogTable(raft'.unst)
      BY <1>1, <2>2 DEF Started, TypeInv, RaftType
    <3>2. Min(DOMAIN raft'.unst) = store'.last + 1
      BY <3>1, MinOfOne
    <3> QED BY <1>1, <2>2, <3>2 DEF NewUnstable, Deviates
  <2> QED BY <2>1, <2>2
<1>4. StoredTerm'
  BY <1>1 DEF Started, StoredTerm
<1>5. AckShape' /\ AppliedShape'
  BY <1>1, FreshAcks DEF AckShape, AppliedShape
<1> QED BY <1>2, <1>3, <1>4, <1>5 DEF LocalInv

LEMMA LocalCrash ==
  ASSUME NoSnapshots, SafeInv, TypeInv', LocalInv, Crash, Alone \/ Truncates
  PROVE  LocalInv'
<1>1. /\ StoreType(store) /\ StoreType(store') /\ Whole(store) /\ store.last \in Nat
  BY Naturals DEF SafeInv, NodeInv, TypeInv, LocalInv
<1>2. /\ status' = "down" /\ PowerOff /\ store'.snap = store.snap /\ store'.last = store.last
      /\ \A i \in DOMAIN store.entries : i \in DOMAIN store'.entries
      /\ store'.entries = store.entries \/ 1 \in DOMAIN store'.entries
  BY CrashLeaves
<1>3. Whole(store')
  BY <1>1, <1>2, WholeMore DEF Whole
<1> QED BY <1>2, <1>3, LocalOff

LEMMA LocalInit == Init => LocalInv
<1> SUFFICES ASSUME Init PROVE LocalInv
  OBVIOUS
<1>1. store = EmptyStore /\ raft = OffRaft /\ pc = "recv" /\ rd = NoReady /\ status = "down"
  BY DEF Init
<1>2. Whole(store)
  BY <1>1 DEF Whole, EmptyStore, FirstIndex, DefaultSnapshot
<1> QED BY <1>1, <1>2, OffRaftFacts, FreshAcks
       DEF LocalInv, NewUnstable, StoredTerm, AckShape, AppliedShape

LEMMA LocalNext ==
  ASSUME NoSnapshots, SafeInv, SafeInv', LocalInv, [Next]_vars, Alone \/ Truncates
  PROVE  LocalInv'
<1>1. TypeInv'
  BY DEF SafeInv, NodeInv
<1>2. CASE UNCHANGED vars
  BY <1>2 DEF vars, LocalInv, NewUnstable, StoredTerm, AckShape, AppliedShape
<1>3. CASE Environment
  BY <1>3 DEF Environment, OtherLeader, OtherPropose, OtherCommit, volatile,
              LocalInv, NewUnstable, StoredTerm, AckShape, AppliedShape
<1> QED BY <1>1, <1>2, <1>3, LocalBootstrap, LocalReceive, LocalReady, LocalCrash DEF Next

-----------------------------------------------------------------------------
(* The state machine as the image of a log *)

UpTo(cmds, i) == {j \in cmds : j <= i}

LEMMA CommandsFinite ==
  ASSUME NEW l, NEW n \in Nat
  PROVE  /\ Commands(l, n) \subseteq 1 .. n /\ Commands(l, n) \subseteq Nat
         /\ IsFiniteSet(Commands(l, n)) /\ Cardinality(Commands(l, n)) \in Nat
<1>1. IsFiniteSet(1 .. n) /\ Commands(l, n) \in SUBSET (1 .. n)
  BY FS_Interval DEF Commands
<1> QED BY <1>1, FS_Subset, FS_CardinalityType

\* The k-th command of a set that has as many is one of the set.
LEMMA NthIsOne ==
  ASSUME NEW n \in Nat, NEW cmds \in SUBSET (1 .. n), IsFiniteSet(cmds),
         NEW k \in 1 .. Cardinality(cmds)
  PROVE  Nth(cmds, k) \in cmds
<1> DEFINE few == {i \in cmds : Cardinality(UpTo(cmds, i)) <= k}
<1>1. Cardinality(cmds) \in Nat /\ cmds # {} /\ k \in Nat /\ 1 <= k
  BY FS_CardinalityType, FS_EmptySet
<1>2. PICK m \in cmds : \A j \in cmds : m <= j
  <2>1. cmds \in SUBSET Nat
    OBVIOUS
  <2> QED BY <1>1, <2>1, BoundedMin
<1>3. UpTo(cmds, m) = {m}
  <2>1. \A j \in UpTo(cmds, m) : j \in Nat /\ m \in Nat /\ j <= m /\ m <= j
    BY <1>2 DEF UpTo
  <2>2. \A j \in UpTo(cmds, m) : j = m
    BY <2>1
  <2> QED BY <1>2, <2>2 DEF UpTo
<1>4. few # {} /\ few \in SUBSET (0 .. n)
  <2>1. Cardinality(UpTo(cmds, m)) = 1
    BY <1>3, FS_Singleton
  <2>2. m \in few
    BY <1>1, <1>2, <2>1
  <2>3. few \subseteq cmds /\ cmds \subseteq 0 .. n
    OBVIOUS
  <2> QED BY <2>2, <2>3
<1>5. Max(few) \in few
  BY <1>4, BoundedMax
<1>6. Nth(cmds, k) = Max(few)
  BY DEF Nth, UpTo
<1> QED BY <1>5, <1>6

LEMMA ImageShape ==
  ASSUME NEW l, NEW n \in Nat, NEW cmds, cmds = Commands(l, n)
  PROVE  /\ Cardinality(cmds) \in Nat /\ Len(Image(l, n)) = Cardinality(cmds)
         /\ \E T : Image(l, n) \in Seq(T)
         /\ \A k \in 1 .. Cardinality(cmds) : Image(l, n)[k] = <<Nth(cmds, k), l[Nth(cmds, k)].term>>
<1>1. PICK c \in Nat : c = Cardinality(cmds)
  BY CommandsFinite
<1>2. Image(l, n) = [k \in 1 .. c |-> <<Nth(cmds, k), l[Nth(cmds, k)].term>>]
  BY <1>1 DEF Image
<1>3. PICK T : T = {<<Nth(cmds, k), l[Nth(cmds, k)].term>> : k \in 1 .. c}
  OBVIOUS
<1>4. Image(l, n) \in [1 .. c -> T]
  BY <1>2, <1>3
<1>5. Image(l, n) \in Seq(T) /\ Len(Image(l, n)) = c
  BY <1>1, <1>4
<1>6. \A k \in 1 .. c : Image(l, n)[k] = <<Nth(cmds, k), l[Nth(cmds, k)].term>>
  BY <1>2
<1> QED BY <1>1, <1>5, <1>6

\* Two logs with the same entries up to n have the same image there.
LEMMA ImagePrefix ==
  ASSUME NEW l, NEW m, NEW n \in Nat, \A i \in 1 .. n : l[i] = m[i]
  PROVE  Image(l, n) = Image(m, n)
<1>1. PICK cmds : cmds = Commands(l, n)
  OBVIOUS
<1>2. cmds = Commands(m, n)
  BY <1>1 DEF Commands
<1>3. cmds \in SUBSET (1 .. n) /\ IsFiniteSet(cmds)
  BY <1>1, CommandsFinite
<1>4. \A k \in 1 .. Cardinality(cmds) : l[Nth(cmds, k)] = m[Nth(cmds, k)]
  BY <1>3, NthIsOne
<1> QED BY <1>1, <1>2, <1>4 DEF Image

LEMMA ImageEmpty ==
  ASSUME NEW l
  PROVE  Image(l, 0) = <<>>
<1>1. Commands(l, 0) = {}
  BY DEF Commands
<1>2. Cardinality(Commands(l, 0)) = 0
  BY <1>1, FS_EmptySet
<1>3. Len(Image(l, 0)) = 0 /\ \E T : Image(l, 0) \in Seq(T)
  BY <1>2, ImageShape
<1> QED BY <1>3

\* One more entry.
LEMMA ImageStep ==
  ASSUME NEW l, NEW n \in Nat
  PROVE  Image(l, n + 1) = IF l[n + 1].kind = "cmd" THEN Append(Image(l, n), <<n + 1, l[n + 1].term>>)
                           ELSE Image(l, n)
<1>1. PICK cmds : cmds = Commands(l, n)
  OBVIOUS
<1>2. PICK more : more = Commands(l, n + 1)
  OBVIOUS
<1>3. /\ cmds \in SUBSET (1 .. n) /\ IsFiniteSet(cmds) /\ Cardinality(cmds) \in Nat
      /\ more \in SUBSET (1 .. n + 1) /\ IsFiniteSet(more)
  BY <1>1, <1>2, CommandsFinite
<1>4. CASE l[n + 1].kind # "cmd"
  <2>1. more = cmds
    <3>1. \A i : i \in more <=> i \in cmds
      BY <1>1, <1>2, <1>4 DEF Commands
    <3> QED BY <3>1
  <2> QED BY <1>1, <1>2, <1>4, <2>1 DEF Image
<1>5. CASE l[n + 1].kind = "cmd"
  <2>1. PICK c \in Nat : c = Cardinality(cmds)
    BY <1>3
  <2>2. more = cmds \cup {n + 1}
    <3>1. \A i : i \in more <=> i \in cmds \cup {n + 1}
      BY <1>1, <1>2, <1>5 DEF Commands
    <3> QED BY <3>1
  <2>3. n + 1 \notin cmds /\ Cardinality(more) = c + 1
    BY <1>3, <2>1, <2>2, FS_AddElement
  <2>4. ASSUME NEW i \in cmds PROVE UpTo(more, i) = UpTo(cmds, i)
    <3>1. \A j : j \in UpTo(more, i) <=> j \in UpTo(cmds, i)
      BY <1>3, <2>2 DEF UpTo
    <3> QED BY <3>1
  <2>5. UpTo(more, n + 1) = more
    <3>1. \A j \in more : j <= n + 1
      BY <1>3
    <3> QED BY <3>1 DEF UpTo
  <2>6. ASSUME NEW k \in 1 .. c PROVE Nth(more, k) = Nth(cmds, k)
    <3>1. {i \in more : Cardinality(UpTo(more, i)) <= k} = {i \in cmds : Cardinality(UpTo(cmds, i)) <= k}
      <4>1. ~(Cardinality(UpTo(more, n + 1)) <= k)
        BY <2>1, <2>3, <2>5
      <4>2. \A i : i \in more /\ Cardinality(UpTo(more, i)) <= k <=> i \in cmds /\ Cardinality(UpTo(cmds, i)) <= k
        BY <2>2, <2>4, <4>1
      <4> QED BY <4>2
    <3> QED BY <3>1 DEF Nth, UpTo
  <2>7. Nth(more, c + 1) = n + 1
    <3>1. \A i \in more : Cardinality(UpTo(more, i)) <= c + 1
      <4> SUFFICES ASSUME NEW i \in more PROVE Cardinality(UpTo(more, i)) <= c + 1
        OBVIOUS
      <4>1. UpTo(more, i) \in SUBSET more
        BY DEF UpTo
      <4> QED BY <1>3, <2>3, <4>1, FS_Subset
    <3>2. {i \in more : Cardinality(UpTo(more, i)) <= c + 1} = more
      BY <3>1
    <3>3. Nth(more, c + 1) = Max(more)
      BY <3>2 DEF Nth, UpTo
    <3>4. Max(more) \in more /\ n + 1 <= Max(more)
      <4>1. more \in SUBSET (0 .. n + 1) /\ n + 1 \in more /\ n + 1 \in Nat
        BY <1>3, <2>2
      <4> QED BY <4>1, BoundedMax
    <3>5. Max(more) <= n + 1 /\ Max(more) \in Nat
      <4>1. \A i \in more : i <= n + 1 /\ i \in Nat
        BY <1>3
      <4> QED BY <3>4, <4>1
    <3> QED BY <3>3, <3>4, <3>5
  <2>8. /\ \E T : Image(l, n) \in Seq(T)
        /\ Len(Image(l, n)) = c
        /\ \A k \in 1 .. c : Image(l, n)[k] = <<Nth(cmds, k), l[Nth(cmds, k)].term>>
    BY <1>1, <2>1, ImageShape
  <2>9. Image(l, n + 1) = [k \in 1 .. c + 1 |-> <<Nth(more, k), l[Nth(more, k)].term>>]
    BY <1>2, <2>3 DEF Image
  <2>10. Append(Image(l, n), <<n + 1, l[n + 1].term>>) =
           [k \in 1 .. c + 1 |-> IF k = c + 1 THEN <<n + 1, l[n + 1].term>> ELSE Image(l, n)[k]]
    BY <2>8
  <2>11. \A k \in 1 .. c + 1 :
           <<Nth(more, k), l[Nth(more, k)].term>>
             = IF k = c + 1 THEN <<n + 1, l[n + 1].term>> ELSE Image(l, n)[k]
    <3> SUFFICES ASSUME NEW k \in 1 .. c + 1
                 PROVE  <<Nth(more, k), l[Nth(more, k)].term>>
                          = IF k = c + 1 THEN <<n + 1, l[n + 1].term>> ELSE Image(l, n)[k]
      OBVIOUS
    <3>1. CASE k = c + 1
      BY <2>7, <3>1
    <3>2. CASE k # c + 1
      <4>1. k \in 1 .. c
        BY <2>1, <3>2
      <4> QED BY <2>6, <2>8, <3>2, <4>1
    <3> QED BY <3>1, <3>2
  <2> QED BY <1>5, <2>9, <2>10, <2>11
<1> QED BY <1>4, <1>5

-----------------------------------------------------------------------------
(* The state machine, from what the node takes for committed *)

\* What the node takes for committed is chosen, and its log has it.
ChosenInv ==
  /\ lcommit[LastTerm] <= Len(llog[LastTerm]) /\ raft.committed <= lcommit[LastTerm]
  /\ Agree(Log(raft, store), llog[LastTerm], raft.committed)

\* What is chosen stays chosen.
ChosenGrows ==
  /\ lcommit[LastTerm] <= lcommit'[LastTerm']
  /\ Agree(llog'[LastTerm'], llog[LastTerm], lcommit[LastTerm])

\* The state machine is the image of the chosen entries handed out so far,
\* except those of the batch that is being applied.
FsmInv ==
  /\ \E n \in Nat : /\ n <= raft.since /\ DOMAIN rd.committed = n + 1 .. raft.since
                    /\ fsm = Image(llog[LastTerm], n)
  /\ \A i \in DOMAIN rd.committed : rd.committed[i] = llog[LastTerm][i]
  /\ pc \in {"hardstate", "send"} => DOMAIN rd.committed = {}

LEMMA SinceChosen ==
  ASSUME SafeInv, ChosenInv
  PROVE  /\ raft.since \in Nat /\ lcommit[LastTerm] \in Nat /\ raft.since <= lcommit[LastTerm]
         /\ raft.committed \in Nat
<1>1. /\ TypeInv /\ raft.since \in Nat /\ raft.committed \in Nat /\ lcommit[LastTerm] \in Nat
  BY Naturals, LastTermType, Bounds DEF SafeInv, NodeInv, TypeInv, LogsType
<1>2. CASE status = "up"
  BY <1>1, <1>2 DEF SafeInv, CommitInv, CommitInLog, ChosenInv
<1>3. CASE status # "up"
  BY <1>1, <1>3, FreshAcks DEF TypeInv, LoopType
<1> QED BY <1>1, <1>2, <1>3

LEMMA SinceStays ==
  ASSUME SafeInv, ChosenInv, ChosenGrows
  PROVE  /\ \A i \in 1 .. raft.since : llog'[LastTerm'][i] = llog[LastTerm][i]
         /\ \A n \in Nat : n <= raft.since => Image(llog'[LastTerm'], n) = Image(llog[LastTerm], n)
<1>1. \A i \in 1 .. raft.since : llog'[LastTerm'][i] = llog[LastTerm][i]
  BY SinceChosen DEF ChosenGrows, Agree
<1>2. ASSUME NEW n \in Nat, n <= raft.since PROVE Image(llog'[LastTerm'], n) = Image(llog[LastTerm], n)
  <2>1. \A i \in 1 .. n : llog'[LastTerm'][i] = llog[LastTerm][i]
    BY <1>1, <1>2, SinceChosen
  <2> QED BY <2>1, ImagePrefix
<1> QED BY <1>1, <1>2

LEMMA FsmKept ==
  ASSUME SafeInv, ChosenInv, ChosenGrows, FsmInv, rd'.committed = rd.committed, raft'.since = raft.since,
         fsm' = fsm, pc' \in {"hardstate", "send"} => DOMAIN rd.committed = {}
  PROVE  FsmInv'
<1>1. PICK n \in Nat : /\ n <= raft.since /\ DOMAIN rd.committed = n + 1 .. raft.since
                       /\ fsm = Image(llog[LastTerm], n)
  BY DEF FsmInv
<1>2. \A i \in DOMAIN rd.committed : i \in 1 .. raft.since /\ rd.committed[i] = llog[LastTerm][i]
  BY <1>1, SinceChosen DEF FsmInv
<1>3. fsm' = Image(llog'[LastTerm'], n)
  BY <1>1, SinceStays
<1>4. \A i \in DOMAIN rd.committed : rd.committed[i] = llog'[LastTerm'][i]
  BY <1>2, SinceStays
<1> QED BY <1>1, <1>3, <1>4 DEF FsmInv

LEMMA FsmReset ==
  ASSUME fsm' = <<>>, rd' = NoReady, raft'.since = 0, pc' = "recv"
  PROVE  FsmInv'
<1>1. DOMAIN rd'.committed = {} /\ 0 + 1 .. 0 = {}
  BY FreshAcks
<1>2. fsm' = Image(llog'[LastTerm'], 0)
  BY ImageEmpty
<1> QED BY <1>1, <1>2 DEF FsmInv

\* Nothing is being applied: all that was handed out is in the state machine.
LEMMA AllApplied ==
  ASSUME FsmInv, raft.since \in Nat, DOMAIN rd.committed = {}
  PROVE  fsm = Image(llog[LastTerm], raft.since)
<1>1. PICK n \in Nat : /\ n <= raft.since /\ DOMAIN rd.committed = n + 1 .. raft.since
                       /\ fsm = Image(llog[LastTerm], n)
  BY DEF FsmInv
<1>2. n = raft.since
  <2>1. ASSUME n # raft.since PROVE FALSE
    <3>1. n + 1 \in n + 1 .. raft.since
      BY <1>1, <2>1
    <3> QED BY <1>1, <3>1
  <2> QED BY <2>1
<1> QED BY <1>1, <1>2

\* A Ready or LightReady hands out a batch.
LEMMA FsmHandOut ==
  ASSUME NoSnapshots, SafeInv, SafeInv', LocalInv', ChosenInv, ChosenInv', ChosenGrows, FsmInv,
         NEW committed, HandsOut(raft.since, committed), committed = raft'.committed,
         DOMAIN rd.committed = {}, \A i \in DOMAIN rd'.committed : i \notin DOMAIN raft'.unst,
         fsm' = fsm, store' = store, pc' \notin {"hardstate", "send"}
  PROVE  FsmInv'
<1>1. fsm' = Image(llog'[LastTerm'], raft.since)
  BY SinceChosen, SinceStays, AllApplied
<1>2. ASSUME NEW i \in DOMAIN rd'.committed PROVE rd'.committed[i] = llog'[LastTerm'][i]
  <2>1. /\ rd'.committed[i] = store'.entries[i] /\ i <= raft'.committed /\ i \in Nat /\ 1 <= i
        /\ raft'.committed \in Nat
    <3>1. raft'.committed \in Nat /\ raft.since \in Nat
      <4>1. TypeInv'
        BY DEF SafeInv, NodeInv
      <4> QED BY <4>1, SinceChosen, Bounds DEF TypeInv, RaftType
    <3> QED BY <3>1 DEF HandsOut
  <2>2. i \in 1 .. raft'.committed
    BY <2>1
  <2>3. i \in DOMAIN Log(raft', store') /\ Log(raft', store')[i] = llog'[LastTerm'][i]
    BY <2>2 DEF ChosenInv, Agree
  <2>4. i \in 1 .. RaftLast(raft', store')
    BY <2>3 DEF Log
  <2>5. Log(raft', store')[i] = store'.entries[i]
    BY <2>4 DEF Log
  <2> QED BY <2>1, <2>3, <2>5
<1>3. DOMAIN rd'.committed = raft.since + 1 .. raft'.since /\ raft.since <= raft'.since /\ raft.since \in Nat
  BY SinceChosen DEF HandsOut
<1> QED BY <1>1, <1>2, <1>3 DEF FsmInv

LEMMA FsmApply ==
  ASSUME NoSnapshots, SafeInv, ChosenInv, ChosenGrows, FsmInv, ApplyEntry
  PROVE  FsmInv'
<1>1. TypeInv /\ ReadyType(rd) /\ raft.since \in Nat
  BY SinceChosen DEF SafeInv, NodeInv, TypeInv
<1>2. PICK i \in DOMAIN rd.committed :
        /\ \A j \in DOMAIN rd.committed : i <= j
        /\ rd' = [rd EXCEPT !.committed = Restrict(@, DOMAIN @ \ {i})]
        /\ fsm' = IF rd.committed[i].kind = "cmd" THEN Append(fsm, <<i, rd.committed[i].term>>)
                  ELSE fsm
  BY <1>1, ApplyExact
<1>3. UNCHANGED <<raft, pc>> /\ pc \in {"apply", "lightapply"}
  BY <1>1, ApplyExact
<1>4. PICK n \in Nat : /\ n <= raft.since /\ DOMAIN rd.committed = n + 1 .. raft.since
                       /\ fsm = Image(llog[LastTerm], n)
  BY DEF FsmInv
<1>5. i = n + 1 /\ n + 1 <= raft.since
  <2>1. n + 1 \in DOMAIN rd.committed
    BY <1>1, <1>2, <1>4
  <2> QED BY <1>1, <1>2, <1>4, <2>1
<1>6. rd.committed[i] = llog[LastTerm][n + 1]
  BY <1>5 DEF FsmInv
<1>7. fsm' = Image(llog[LastTerm], n + 1)
  <2>1. Image(llog[LastTerm], n + 1) =
          IF llog[LastTerm][n + 1].kind = "cmd"
          THEN Append(Image(llog[LastTerm], n), <<n + 1, llog[LastTerm][n + 1].term>>)
          ELSE Image(llog[LastTerm], n)
    BY ImageStep
  <2> QED BY <1>2, <1>4, <1>5, <1>6, <2>1
<1>8. fsm' = Image(llog'[LastTerm'], n + 1)
  BY <1>5, <1>7, SinceStays
<1>9. rd'.committed = Restrict(rd.committed, DOMAIN rd.committed \ {i})
  BY <1>1, <1>2 DEF ReadyType
<1>10. /\ DOMAIN rd'.committed = (n + 1) + 1 .. raft.since
       /\ \A j \in DOMAIN rd'.committed : j \in 1 .. raft.since /\ rd'.committed[j] = llog[LastTerm][j]
  <2>1. DOMAIN rd'.committed = DOMAIN rd.committed \ {i}
    BY <1>9 DEF Restrict
  <2>2. \A j \in DOMAIN rd'.committed : rd'.committed[j] = rd.committed[j]
    BY <1>9 DEF Restrict
  <2>3. \A j : j \in DOMAIN rd'.committed <=> j \in (n + 1) + 1 .. raft.since
    BY <1>1, <1>4, <1>5, <2>1
  <2>4. \A j \in DOMAIN rd'.committed : j \in 1 .. raft.since /\ rd'.committed[j] = llog[LastTerm][j]
    BY <1>1, <1>4, <2>1, <2>2, <2>3 DEF FsmInv
  <2> QED BY <2>3, <2>4
<1>11. \A j \in DOMAIN rd'.committed : rd'.committed[j] = llog'[LastTerm'][j]
  BY <1>10, SinceStays
<1> QED BY <1>3, <1>5, <1>8, <1>10, <1>11 DEF FsmInv

\* A handler hands nothing out.
LEMMA HandlersKeep ==
  ASSUME NoSnapshots, SafeInv, LocalInv, Receive
  PROVE  /\ Receiving /\ pc' = "tick" /\ raft'.since = raft.since
         /\ UNCHANGED <<store, status, fsm, rd, net, crashes>>
<1>1. TypeInv /\ TermInv /\ RaftType(raft) /\ StoreType(store) /\ ~RecvSnapshot /\ ~RpcCreateSnapshot
  BY DEF SafeInv, NodeInv, TypeInv, RecvSnapshot, RpcCreateSnapshot, NoSnapshots
<1>2. Receiving
  BY DEF Receive, RecvNothing, RecvAppend, RecvSnapshot, RecvRequestVote, RecvVoteQuorum, Propose,
         RecvAckQuorum, Campaign, Demote, RpcCreateSnapshot
<1>3. \E q : Handled(q) /\ q.since = raft.since
  <2>1. CASE RecvNothing
    BY <2>1 DEF RecvNothing
  <2>2. CASE RecvAppend
    BY <1>1, <2>2, AppendOutcome DEF Kept
  <2>3. CASE RecvRequestVote
    BY <1>1, <2>3, VoteRequest DEF SameLog
  <2>4. CASE RecvVoteQuorum
    <3>1. /\ raft.role = "candidate" /\ raft.term # 0 /\ RaftLast(raft, store) < MaxIndex
          /\ Handled(BecomeLeader(raft, store))
      BY <1>1, <2>4 DEF RecvVoteQuorum, RaftType
    <3> QED BY <1>1, <3>1, BecomeLeaderType
  <2>5. CASE Propose
    BY <1>1, <2>5, Proposal
  <2>6. CASE RecvAckQuorum
    <3>1. PICK n \in Index : Handled([raft EXCEPT !.committed = n])
      BY <1>1, <2>6, AckQuorum
    <3>2. [raft EXCEPT !.committed = n].since = raft.since
      BY <1>1 DEF RaftType
    <3> QED BY <3>1, <3>2
  <2>7. CASE Campaign
    <3>1. Handled(BecomeCandidate(raft, Self)) /\ raft.term < MaxTerm
      BY <2>7 DEF Campaign
    <3> QED BY <1>1, <3>1, CandidateType DEF SameLog
  <2>8. CASE Demote
    BY <1>1, <2>8, Demotion DEF SameLog
  <2> QED BY <1>1, <2>1, <2>2, <2>3, <2>4, <2>5, <2>6, <2>7, <2>8 DEF Receive
<1> QED BY <1>2, <1>3 DEF Handled

LEMMA FsmNext ==
  ASSUME NoSnapshots, SafeInv, SafeInv', LocalInv, LocalInv', ChosenInv, ChosenInv', ChosenGrows, FsmInv,
         [Next]_vars, Alone \/ Truncates
  PROVE  FsmInv'
<1>1. TypeInv /\ raft.since \in Nat /\ RaftType(raft) /\ StoreType(store)
  BY SinceChosen DEF SafeInv, NodeInv, TypeInv
<1>2. CASE Receive
  BY <1>2, HandlersKeep, FsmKept
<1>3. CASE Bootstrap
  BY <1>3, BootExact, FsmReset
<1>4. CASE Crash
  <2>1. PowerOff
    BY <1>1, <1>4, CrashFacts
  <2> QED BY <2>1, FsmReset, FreshAcks DEF PowerOff
<1>5. CASE TickAndReady
  <2>1. /\ pc = "tick" /\ fsm' = fsm /\ store' = store /\ pc' \notin {"hardstate", "send"}
        /\ raft'.committed = raft.committed /\ raft'.unst = raft.unst
    BY <1>1, <1>5, TickFacts DEF SameLog, Taken
  <2>2. DOMAIN rd.committed = {}
    BY <2>1 DEF LocalInv, AppliedShape
  <2> QED BY <1>5, <2>1, <2>2, TickHandsOut, FsmHandOut
<1>6. CASE ApplyEntry
  BY <1>6, FsmApply
<1>7. CASE AppendReady
  <2>1. pc' = "hardstate" /\ UNCHANGED <<raft, fsm, rd>>
    BY <1>7, AppendStores
  <2>2. DOMAIN rd.committed = {}
    BY <1>7 DEF AppendReady, Applied
  <2> QED BY <2>1, <2>2, FsmKept
<1>8. CASE WriteHardState \/ WriteLightCommit
  <2>1. UNCHANGED <<raft, fsm, rd>> /\ WriteExact
    BY <1>8, WriteFacts
  <2>2. pc' \in {"hardstate", "send"} => pc \in {"hardstate", "send"}
    BY <2>1 DEF WriteExact
  <2> QED BY <2>1, <2>2, FsmKept DEF FsmInv
<1>9. CASE SendPersisted
  <2>1. /\ pc = "send" /\ fsm' = fsm /\ store' = store /\ pc' \notin {"hardstate", "send"}
        /\ DOMAIN raft'.unst = {}
    BY <1>1, <1>9, SendOutcome, NoEntriesTable DEF Advanced
  <2>2. DOMAIN rd.committed = {}
    BY <2>1 DEF FsmInv
  <2> QED BY <1>9, <2>1, <2>2, SendHandsOut, FsmHandOut
<1>10. CASE FinishLightApply
  <2>1. DOMAIN rd.committed = {}
    BY <1>10 DEF FinishLightApply, Applied
  <2>2. rd' = NoReady /\ raft'.since = raft.since /\ fsm' = fsm /\ pc' = "recv"
    BY <1>1, <1>10, FinishFacts
  <2>3. fsm' = Image(llog'[LastTerm'], raft.since)
    BY <1>1, <2>1, <2>2, AllApplied, SinceStays
  <2>4. DOMAIN rd'.committed = {} /\ raft.since + 1 .. raft.since = {}
    BY <1>1, <2>2, FreshAcks
  <2> QED BY <1>1, <2>2, <2>3, <2>4 DEF FsmInv
<1>11. ~RestoreSnapshot
  <2>1. raft.snap = NoSnapshot /\ HandedOut
    BY NodeLogs DEF SafeInv, NodeInv, TurnInv
  <2> QED BY <2>1 DEF RestoreSnapshot, At, HandedOut
<1>12. CASE Environment
  <2>1. UNCHANGED <<fsm, rd, raft, pc>>
    BY <1>12 DEF Environment, OtherLeader, OtherPropose, OtherCommit, volatile
  <2> QED BY <2>1, FsmKept DEF FsmInv
<1>13. CASE UNCHANGED vars
  BY <1>13, FsmKept DEF FsmInv, vars
<1> QED BY <1>2, <1>3, <1>4, <1>5, <1>6, <1>7, <1>8, <1>9, <1>10, <1>11, <1>12, <1>13 DEF Next, OnReady

LEMMA InitFsm == Init => FsmInv
<1> SUFFICES ASSUME Init PROVE FsmInv
  OBVIOUS
<1>1. fsm = <<>> /\ DOMAIN rd.committed = {} /\ raft.since = 0 /\ pc = "recv"
  BY FreshAcks DEF Init
<1>2. fsm = Image(llog[LastTerm], 0) /\ 0 + 1 .. 0 = {}
  BY <1>1, ImageEmpty
<1> QED BY <1>1, <1>2 DEF FsmInv

\* The chosen log, and that the state machine is an image of it.
LEMMA ChosenShape ==
  ASSUME TypeInv, lcommit[LastTerm] <= Len(llog[LastTerm])
  PROVE  /\ Len(Chosen) = lcommit[LastTerm] /\ lcommit[LastTerm] \in Nat
         /\ \A i \in 1 .. lcommit[LastTerm] : Chosen[i] = llog[LastTerm][i]
<1>1. /\ LogType(llog[LastTerm]) /\ lcommit[LastTerm] \in Nat /\ LastTerm \in Terms
      /\ DOMAIN llog[LastTerm] = 1 .. Len(llog[LastTerm]) /\ Len(llog[LastTerm]) \in Nat
  BY LastTermType, Bounds, LogIsTable DEF TypeInv, LogsType
<1>2. lcommit[LastTerm] \in 0 .. Len(llog[LastTerm])
  BY <1>1
<1>3. Len(Chosen) = lcommit[LastTerm]
  BY <1>1, <1>2, FirstEntries DEF Chosen
<1>4. \A i \in 1 .. lcommit[LastTerm] : Chosen[i] = llog[LastTerm][i]
  BY <1>1, <1>2 DEF Chosen, Slice, Restrict
<1> QED BY <1>1, <1>3, <1>4

LEMMA FsmHolds ==
  ASSUME SafeInv, LocalInv, ChosenInv, FsmInv
  PROVE  FsmFollowsChosen
<1>1. TypeInv /\ lcommit[LastTerm] <= Len(llog[LastTerm])
  BY DEF SafeInv, NodeInv, ChosenInv
<1>2. /\ raft.since \in Nat /\ Len(Chosen) \in Nat /\ raft.since <= Len(Chosen)
      /\ \A i \in 1 .. Len(Chosen) : Chosen[i] = llog[LastTerm][i]
  BY <1>1, SinceChosen, ChosenShape
<1>3. ASSUME NEW n \in Nat, n <= raft.since PROVE Image(llog[LastTerm], n) = Image(Chosen, n)
  <2>1. \A i \in 1 .. n : llog[LastTerm][i] = Chosen[i]
    BY <1>2, <1>3
  <2> QED BY <2>1, ImagePrefix
<1>4. \E n \in 0 .. Len(Chosen) : fsm = Image(Chosen, n)
  <2>1. PICK n \in Nat : n <= raft.since /\ fsm = Image(llog[LastTerm], n)
    BY DEF FsmInv
  <2>2. n \in 0 .. Len(Chosen) /\ fsm = Image(Chosen, n)
    BY <1>2, <1>3, <2>1
  <2> QED BY <2>2
<1>5. ASSUME Receiving PROVE fsm = Image(Chosen, raft.applied)
  <2>1. raft.applied = raft.since /\ DOMAIN rd.committed = {}
    BY <1>5 DEF Receiving, LocalInv, AppliedShape
  <2> QED BY <1>2, <1>3, <2>1, AllApplied
<1> QED BY <1>4, <1>5 DEF FsmFollowsChosen

-----------------------------------------------------------------------------
(* The log a leader records *)

LEMMA LastTermIs ==
  ASSUME NEW f, NEW t \in Terms, t = 0 \/ f[t] # <<>>, \A u \in Terms : f[u] # <<>> => u <= t
  PROVE  Max({u \in Terms : u = 0 \/ f[u] # <<>>}) = t
<1> DEFINE S == {u \in Terms : u = 0 \/ f[u] # <<>>}
<1>1. MaxTerm \in Nat /\ S \in SUBSET (0 .. MaxTerm) /\ t \in S /\ t \in Nat /\ 0 <= t
  BY Bounds DEF Terms
<1>2. \A u \in S : u <= t /\ u \in Nat
  BY <1>1
<1> HIDE DEF S
<1>3. Max(S) \in S /\ t <= Max(S)
  BY <1>1, BoundedMax
<1>4. PICK m : m = Max(S)
  OBVIOUS
<1>5. m \in Nat /\ t \in Nat /\ t <= m /\ m <= t
  BY <1>1, <1>2, <1>3, <1>4
<1> QED BY <1>4, <1>5 DEF S

LEMMA LastTermNext ==
  ASSUME NEW t \in Terms, t = 0 \/ llog'[t] # <<>>, \A u \in Terms : llog'[u] # <<>> => u <= t
  PROVE  LastTerm' = t
<1>1. Max({u \in Terms : u = 0 \/ llog'[u] # <<>>}) = t
  BY LastTermIs
<1> QED BY <1>1 DEF LastTerm

\* The newest term has a log, unless there is none at all.
LEMMA LastTermHas == LastTerm = 0 \/ llog[LastTerm] # <<>>
<1> DEFINE S == {u \in Terms : u = 0 \/ llog[u] # <<>>}
<1>1. MaxTerm \in Nat /\ S \in SUBSET (0 .. MaxTerm) /\ 0 \in S
  BY Bounds DEF Terms
<1> HIDE DEF S
<1>2. Max(S) \in S
  BY <1>1, BoundedMax
<1> QED BY <1>2 DEF LastTerm, S

\* Over a whole store a node records its own log.
LEMMA OwnIsLog ==
  ASSUME NEW r, NEW l, RaftType(r), StoreType(store), Whole(store), Attached(r, store)
  PROVE  OwnLog(r, l) = Log(r, store)
<1>1. ASSUME NEW i \in 1 .. RaftLast(r, store), i \notin DOMAIN r.unst
      PROVE  i \in DOMAIN store.entries
  BY <1>1, LogShape
<1> QED BY <1>1 DEF OwnLog, Log

\* One entry is appended at the end of the log.
LEMMA LogOneMore ==
  ASSUME NEW r, NEW q, NEW s, NEW e, RaftType(r), RaftType(q), StoreType(s), Whole(s),
         Attached(r, s), q.unst = Put(r.unst, RaftLast(r, s) + 1, e), q.snap = r.snap,
         Min(DOMAIN q.unst) <= s.last + 1, Contiguous(q.unst)
  PROVE  /\ Attached(q, s) /\ RaftLast(q, s) = RaftLast(r, s) + 1
         /\ DOMAIN Log(q, s) = 1 .. RaftLast(r, s) + 1
         /\ Log(q, s)[RaftLast(r, s) + 1] = e /\ Agree(Log(q, s), Log(r, s), RaftLast(r, s))
<1> DEFINE n == RaftLast(r, s)
<1>1. /\ n \in Nat /\ DOMAIN Log(r, s) = 1 .. n
      /\ LogTable(r.unst) /\ LogTable(q.unst)
  BY LogShape DEF RaftType
<1>2. /\ DOMAIN q.unst = DOMAIN r.unst \cup {n + 1} /\ q.unst[n + 1] = e
      /\ \A i \in DOMAIN r.unst : i # n + 1 => q.unst[i] = r.unst[i]
  BY DEF Put, PutAll
<1>3. \A i \in DOMAIN r.unst : i \in Nat /\ i <= n
  <2>1. ASSUME NEW i \in DOMAIN r.unst PROVE i \in Nat /\ i <= n
    <3>1. n = Max(DOMAIN r.unst)
      BY DEF RaftLast
    <3> QED BY <1>1, <3>1, TableEnds, Bounds DEF LogTable
  <2> QED BY <2>1
<1>4. Attached(q, s)
  BY DEF Attached
<1>5. RaftLast(q, s) = n + 1
  <2>1. /\ Max(DOMAIN q.unst) \in DOMAIN q.unst /\ n + 1 <= Max(DOMAIN q.unst)
        /\ RaftLast(q, s) = Max(DOMAIN q.unst)
    BY <1>1, <1>2, TableEnds DEF RaftLast
  <2> QED BY <1>1, <1>2, <1>3, <2>1
<1>6. DOMAIN Log(q, s) = 1 .. n + 1
  BY <1>5 DEF Log
<1>7. Log(q, s)[n + 1] = e
  BY <1>1, <1>2, <1>5 DEF Log
<1>8. ASSUME NEW i \in 1 .. n PROVE Log(q, s)[i] = Log(r, s)[i]
  <2>1. i \in 1 .. n + 1 /\ i # n + 1
    BY <1>1
  <2> QED BY <1>2, <1>3, <1>5, <2>1 DEF Log
<1>9. Agree(Log(q, s), Log(r, s), n)
  BY <1>1, <1>6, <1>8 DEF Agree
<1> QED BY <1>4, <1>5, <1>6, <1>7, <1>9

\* A log of a leader is its own entries in index order.
LEMMA LeaderLogs ==
  ASSUME TypeInv, NEW t \in Terms
  PROVE  /\ LogTable(llog[t]) /\ DOMAIN llog[t] = 1 .. Len(llog[t]) /\ Len(llog[t]) \in Nat
         /\ lcommit[t] \in Nat /\ LogType(llog[t]) /\ (llog[t] = <<>> => Len(llog[t]) = 0)
  BY LogIsTable, Bounds DEF TypeInv, LogsType

\* raft_log of a leader after it records a proposal or its empty entry.
LEMMA RecordedLog ==
  ASSUME NoSnapshots, SafeInv, LocalInv, Receiving, NEW q, NEW e, NEW l, RaftType(q),
         q.unst = Put(raft.unst, RaftLast(raft, store) + 1, e), q.snap = raft.snap,
         DOMAIN q.unst = DOMAIN raft.unst \cup {RaftLast(raft, store) + 1}
  PROVE  /\ OwnLog(q, l) = Log(q, store)
         /\ DOMAIN Log(q, store) = 1 .. RaftLast(raft, store) + 1
         /\ RaftLast(q, store) = RaftLast(raft, store) + 1
         /\ Log(q, store)[RaftLast(raft, store) + 1] = e
         /\ Agree(Log(q, store), Log(raft, store), RaftLast(raft, store))
<1>1. /\ RaftType(raft) /\ StoreType(store) /\ Whole(store) /\ pc = "recv"
      /\ TypeInv /\ TurnInv /\ NodeInv /\ CommitInv /\ LoadInv
  BY DEF SafeInv, NodeInv, TypeInv, LocalInv, Receiving
<1>2. Attached(raft, store)
  BY <1>1, NodeAttached
<1>3. Min(DOMAIN q.unst) <= store.last + 1
  BY <1>1, LeaderGap
<1>4. Contiguous(q.unst)
  BY <1>1, LeaderContiguous
<1>5. Attached(q, store)
  BY <1>1, <1>2, <1>3, <1>4, LogOneMore
<1> QED BY <1>1, <1>2, <1>3, <1>4, <1>5, LogOneMore, OwnIsLog

-----------------------------------------------------------------------------
(* A single node *)

\* The newest leader is this node, and the log directory keeps what it has
\* committed: after a crash it goes on with that.
SingleInv ==
  /\ lcommit[LastTerm] <= Len(llog[LastTerm]) /\ store.hs.commit <= lcommit[LastTerm]
  /\ Agree(Stored(store), llog[LastTerm], lcommit[LastTerm])
  /\ LastTerm <= store.hs.term + 1
  /\ status = "up" =>
       /\ raft.role = "leader" /\ raft.term = LastTerm /\ raft.committed <= lcommit[LastTerm]
       /\ llog[LastTerm] = Log(raft, store)

\* The newest leader stays the newest.
LEMMA SameLastTerm ==
  ASSUME TypeInv, UNCHANGED llog
  PROVE  LastTerm' = LastTerm
  BY DEF LastTerm

\* Neither the leader nor its commit index changes.
LEMMA SingleStays ==
  ASSUME SafeInv, SingleInv, UNCHANGED <<llog, lcommit>>, store'.hs.commit <= lcommit[LastTerm],
         Agree(Stored(store'), llog[LastTerm], lcommit[LastTerm]), LastTerm <= store'.hs.term + 1,
         status' = "up" => /\ raft'.role = "leader" /\ raft'.term = LastTerm
                           /\ raft'.committed <= lcommit[LastTerm]
                           /\ llog[LastTerm] = Log(raft', store')
  PROVE  SingleInv' /\ ChosenGrows
<1>1. TypeInv
  BY DEF SafeInv, NodeInv
<1>2. LastTerm' = LastTerm /\ LastTerm \in Terms /\ lcommit[LastTerm] \in Nat
  BY <1>1, SameLastTerm, LastTermType, LeaderLogs
<1>3. SingleInv'
  BY <1>2 DEF SingleInv
<1>4. DOMAIN llog[LastTerm] = 1 .. Len(llog[LastTerm]) /\ Len(llog[LastTerm]) \in Nat
  BY <1>1, <1>2, LeaderLogs
<1>5. 1 .. lcommit[LastTerm] \subseteq DOMAIN llog[LastTerm]
  BY <1>2, <1>4 DEF SingleInv
<1>6. Agree(llog[LastTerm], llog[LastTerm], lcommit[LastTerm])
  BY <1>2, <1>5, AgreeSelf
<1> QED BY <1>2, <1>3, <1>6 DEF ChosenGrows

\* Neither does the log.
LEMMA SingleQuiet ==
  ASSUME SafeInv, SingleInv, UNCHANGED <<llog, lcommit, status>>, store'.hs.commit <= lcommit[LastTerm],
         Stored(store') = Stored(store), store'.hs.term >= store.hs.term, TypeInv',
         status = "up", raft'.role = raft.role, raft'.term = raft.term, raft'.committed = raft.committed,
         Log(raft', store') = Log(raft, store)
  PROVE  SingleInv' /\ ChosenGrows
<1>1. store.hs.term \in Nat /\ store'.hs.term \in Nat /\ LastTerm \in Nat
  BY LastTermMax, Bounds, Naturals DEF SafeInv, NodeInv, TypeInv, StoreType, StoredStates
<1>2. LastTerm <= store'.hs.term + 1
  BY <1>1 DEF SingleInv
<1> QED BY <1>2, SingleStays DEF SingleInv

LEMMA SingleBootstrap ==
  ASSUME NoSnapshots, Alone, SafeInv, SafeInv', LocalInv, SingleInv, Bootstrap
  PROVE  SingleInv' /\ ChosenGrows
<1>1. /\ TypeInv /\ RaftType(raft') /\ StoreType(store) /\ Whole(store) /\ TypeInv'
      /\ store.last \in Nat /\ store.hs.term \in Nat /\ store.hs.commit \in Nat
      /\ DOMAIN Stored(store) = 1 .. store.last
      /\ \A i \in 1 .. store.last : Stored(store)[i] = store.entries[i]
  BY Naturals, NodeLogs DEF SafeInv, NodeInv, TypeInv, LocalInv
<1>2. PICK r : r = raft'
  OBVIOUS
<1>3. /\ SameStore(store, store') /\ store'.hs.term = store.hs.term /\ store'.hs.commit = store.hs.commit
      /\ r.term = store.hs.term + 1 /\ r.committed = store.hs.commit /\ Started(store')
      /\ r.unst = Put(NoEntries, store.last + 1, Noop(r.term))
  BY <1>2, BootExact
<1>4. r.snap = NoSnapshot /\ r.role = "leader" /\ DOMAIN r.unst = {store.last + 1} /\ RecordLeader(r)
  BY <1>2, <1>3 DEF Started, SameStore
<1>5. Attached(r, store) /\ RaftLast(r, store) = store.last + 1
  <2>1. LogTable(r.unst)
    BY <1>1, <1>2 DEF RaftType
  <2>2. Min(DOMAIN r.unst) = store.last + 1 /\ Max(DOMAIN r.unst) = store.last + 1
    BY <1>4, <2>1, MinOfOne
  <2>3. store.last + 1 .. store.last + 1 \subseteq DOMAIN r.unst
    BY <1>1, <1>4
  <2>4. Attached(r, store)
    <3>1. store.last + 1 <= store.last + 1
      BY <1>1
    <3>2. Contiguous(r.unst)
      BY <2>2, <2>3 DEF Contiguous
    <3> QED BY <1>4, <2>2, <3>1, <3>2 DEF Attached
  <2>5. RaftLast(r, store) = store.last + 1
    BY <1>4, <2>2 DEF RaftLast
  <2> QED BY <2>4, <2>5
<1>6. /\ DOMAIN Log(r, store) = 1 .. store.last + 1
      /\ \A i \in 1 .. store.last : Log(r, store)[i] = Stored(store)[i]
  <2>1. DOMAIN Log(r, store) = 1 .. store.last + 1
    BY <1>5 DEF Log
  <2>2. ASSUME NEW i \in 1 .. store.last PROVE Log(r, store)[i] = Stored(store)[i]
    <3>1. i \in 1 .. store.last + 1 /\ i \notin DOMAIN r.unst
      BY <1>1, <1>4
    <3> QED BY <1>1, <1>5, <3>1 DEF Log
  <2> QED BY <2>1, <2>2
<1>7. OwnLog(r, llog[LastTerm]) = Log(r, store) /\ r.term \in Terms
  BY <1>1, <1>2, <1>5, OwnIsLog DEF RaftType
<1>8. /\ llog' = [llog EXCEPT ![r.term] = Log(r, store)]
      /\ lcommit' = [lcommit EXCEPT ![r.term] = lcommit[LastTerm]]
  BY <1>4, <1>7 DEF RecordLeader
<1>9. llog'[r.term] = Log(r, store) /\ lcommit'[r.term] = lcommit[LastTerm]
  BY <1>1, <1>7, <1>8 DEF TypeInv, LogsType
<1>10. LastTerm' = r.term
  <2>1. Log(r, store) # <<>>
    <3>1. 1 \in DOMAIN Log(r, store)
      BY <1>1, <1>6
    <3> QED BY <3>1
  <2>2. ASSUME NEW u \in Terms, llog'[u] # <<>> PROVE u <= r.term
    <3>1. CASE u = r.term
      BY <3>1, Bounds
    <3>2. CASE u # r.term
      <4>1. llog'[u] = llog[u]
        BY <1>1, <1>8, <3>2 DEF TypeInv, LogsType
      <4>2. u <= LastTerm /\ LastTerm \in Nat /\ u \in Nat
        BY <2>2, <4>1, LastTermMax, Bounds
      <4> QED BY <1>1, <1>3, <4>2 DEF SingleInv
    <3> QED BY <3>1, <3>2
  <2> QED BY <1>7, <1>9, <2>1, <2>2, LastTermIs DEF LastTerm
<1>11. /\ lcommit[LastTerm] \in Nat /\ lcommit[LastTerm] <= store.last
       /\ Agree(Stored(store), llog[LastTerm], lcommit[LastTerm])
  <2>1. lcommit[LastTerm] \in Nat
    BY <1>1, LastTermType, LeaderLogs
  <2>2. CASE lcommit[LastTerm] = 0
    BY <1>1, <2>1, <2>2 DEF SingleInv
  <2>3. CASE lcommit[LastTerm] # 0
    <3>1. lcommit[LastTerm] \in 1 .. lcommit[LastTerm]
      BY <2>1, <2>3
    <3>2. lcommit[LastTerm] \in DOMAIN Stored(store)
      BY <3>1 DEF SingleInv, Agree
    <3> QED BY <1>1, <2>1, <3>2 DEF SingleInv
  <2> QED BY <2>2, <2>3
<1>12. Agree(Log(r, store), Stored(store), lcommit[LastTerm])
  BY <1>1, <1>6, <1>11 DEF Agree
<1>13. Agree(Log(r, store), llog[LastTerm], lcommit[LastTerm])
  BY <1>11, <1>12, AgreeTrans
<1>14. ChosenGrows
  BY <1>9, <1>10, <1>11, <1>13 DEF ChosenGrows
<1>15. Stored(store') = Stored(store) /\ Log(r, store') = Log(r, store)
  BY <1>3, SameStoreLogs
<1>16. Len(llog'[LastTerm']) = store.last + 1
  <2>1. /\ DOMAIN llog'[LastTerm'] = 1 .. store.last + 1 /\ \E T : llog'[LastTerm'] \in Seq(T)
    <3>1. llog'[r.term] \in Seq(LogEntry)
      BY <1>1, <1>7 DEF TypeInv, LogsType, LogType
    <3> QED BY <1>6, <1>9, <1>10, <3>1
  <2>2. DOMAIN llog'[LastTerm'] = 1 .. Len(llog'[LastTerm']) /\ Len(llog'[LastTerm']) \in Nat
    BY <2>1
  <2> QED BY <1>1, <2>1, <2>2
<1>17. SingleInv'
  <2>1. lcommit'[LastTerm'] <= Len(llog'[LastTerm']) /\ store'.hs.commit <= lcommit'[LastTerm']
    BY <1>1, <1>3, <1>9, <1>10, <1>11, <1>16 DEF SingleInv
  <2>2. Agree(Stored(store'), llog'[LastTerm'], lcommit'[LastTerm'])
    BY <1>9, <1>10, <1>12, <1>15, AgreeSym
  <2>3. LastTerm' <= store'.hs.term + 1
    BY <1>1, <1>3, <1>10
  <2>4. /\ raft'.role = "leader" /\ raft'.term = LastTerm' /\ raft'.committed <= lcommit'[LastTerm']
        /\ llog'[LastTerm'] = Log(raft', store')
    BY <1>2, <1>3, <1>4, <1>9, <1>10, <1>15, <2>1
  <2> QED BY <2>1, <2>2, <2>3, <2>4 DEF SingleInv
<1> QED BY <1>14, <1>17

LEMMA SinglePropose ==
  ASSUME NoSnapshots, Alone, SafeInv, SafeInv', LocalInv, SingleInv, Propose
  PROVE  SingleInv' /\ ChosenGrows
<1>1. /\ TypeInv /\ RaftType(raft) /\ StoreType(store) /\ Receiving /\ status = "up" /\ TypeInv'
      /\ RaftLast(raft, store) \in Nat /\ DOMAIN Log(raft, store) = 1 .. RaftLast(raft, store)
  BY NodeLogs DEF SafeInv, NodeInv, TypeInv, Propose, Receiving
<1>2. PICK r : \E e \in LogEntry :
           /\ raft.role = "leader" /\ RaftLast(raft, store) < MaxIndex
           /\ e.term = raft.term /\ r = AppendLeader(raft, store, e) /\ Handled(r)
           /\ RaftType(r) /\ r.term = raft.term /\ r.role = "leader"
           /\ r.snap = raft.snap /\ r.committed = raft.committed /\ r.applied = raft.applied
           /\ r.since = raft.since /\ r.prevHs = raft.prevHs
           /\ r.unst = Put(raft.unst, RaftLast(raft, store) + 1, e)
           /\ DOMAIN r.unst = DOMAIN raft.unst \cup {RaftLast(raft, store) + 1}
           /\ llog' = [llog EXCEPT ![raft.term] = OwnLog(r, llog[raft.term])]
  BY <1>1, Proposal
<1>3. PICK l : l = Log(r, store)
  OBVIOUS
<1>4. /\ OwnLog(r, llog[raft.term]) = l /\ DOMAIN l = 1 .. RaftLast(raft, store) + 1
      /\ Agree(l, Log(raft, store), RaftLast(raft, store))
  BY <1>1, <1>2, <1>3, RecordedLog
<1>5. /\ raft' = r /\ store' = store /\ status' = status /\ lcommit' = lcommit
      /\ llog' = [llog EXCEPT ![LastTerm] = l] /\ raft.term = LastTerm /\ LastTerm \in Terms
  BY <1>1, <1>2, <1>4, LastTermType DEF Handled, Propose, SingleInv
<1>6. llog'[LastTerm] = l /\ \A u \in Terms \ {LastTerm} : llog'[u] = llog[u]
  BY <1>1, <1>5 DEF TypeInv, LogsType
<1>7. LastTerm' = LastTerm
  <2>1. l # <<>>
    <3>1. 1 \in DOMAIN l
      BY <1>1, <1>4
    <3> QED BY <3>1
  <2>2. \A u \in Terms : llog'[u] # <<>> => u <= LastTerm
    <3>1. LastTerm <= LastTerm
      BY LastTermMax
    <3> QED BY <1>6, <3>1, LastTermMax
  <2> QED BY <1>5, <1>6, <2>1, <2>2, LastTermNext
<1>8. /\ lcommit[LastTerm] \in Nat /\ lcommit[LastTerm] <= RaftLast(raft, store)
      /\ llog[LastTerm] = Log(raft, store)
  <2>1. llog[LastTerm] = Log(raft, store) /\ lcommit[LastTerm] <= Len(llog[LastTerm])
    BY <1>1 DEF SingleInv
  <2>2. /\ DOMAIN llog[LastTerm] = 1 .. Len(llog[LastTerm]) /\ Len(llog[LastTerm]) \in Nat
        /\ lcommit[LastTerm] \in Nat
    BY <1>1, <1>5, LeaderLogs
  <2> QED BY <1>1, <2>1, <2>2
<1>9. Agree(l, llog[LastTerm], lcommit[LastTerm])
  BY <1>1, <1>4, <1>8, AgreeLess
<1>10. ChosenGrows
  BY <1>5, <1>6, <1>7, <1>8, <1>9 DEF ChosenGrows
<1>11. Agree(Stored(store), l, lcommit[LastTerm])
  BY <1>9, AgreeSym, AgreeTrans DEF SingleInv
<1>12. Len(l) = RaftLast(raft, store) + 1
  <2>1. l \in Seq(LogEntry)
    BY <1>1, <1>5, <1>6 DEF TypeInv, LogsType, LogType
  <2>2. DOMAIN l = 1 .. Len(l) /\ Len(l) \in Nat
    BY <2>1
  <2> QED BY <1>1, <1>4, <2>2
<1>13. lcommit[LastTerm] <= Len(l)
  BY <1>1, <1>8, <1>12
<1>14. SingleInv'
  BY <1>1, <1>2, <1>3, <1>5, <1>6, <1>7, <1>11, <1>13 DEF SingleInv
<1> QED BY <1>10, <1>14

LEMMA AdvanceSingle ==
  ASSUME TypeInv
  PROVE  /\ Advance(raft, store, rd, Alone).term = raft.term
         /\ Advance(raft, store, rd, Alone).committed =
              IF Alone /\ raft.role = "leader" THEN store.last ELSE raft.committed
<1>1. Alone \in BOOLEAN
  BY DEF Alone
<1> DEFINE h == Advance(raft, store, rd, Alone)
<1>2. /\ h.term = raft.term /\ h.role = raft.role
      /\ h.unst = NoEntries /\ h.snap = NoSnapshot
      /\ h.prevHs = IF rd.hasHs THEN rd.hs ELSE raft.prevHs
      /\ h.since = raft.since /\ h.applied = Max({raft.applied, raft.since})
      /\ h.committed = IF Alone /\ raft.role = "leader" THEN store.last ELSE raft.committed
  BY <1>1, AdvanceType DEF TypeInv
<1> QED BY <1>2

LEMMA SingleSend ==
  ASSUME NoSnapshots, Alone, SafeInv, SafeInv', LocalInv, SingleInv, SendPersisted
  PROVE  SingleInv' /\ ChosenGrows
<1>1. /\ TypeInv /\ TypeInv' /\ store.last \in Nat /\ LastTerm \in Terms /\ RaftType(raft) /\ StoreType(store)
      /\ DOMAIN Stored(store) = 1 .. store.last
  BY NodeLogs, LastTermType DEF SafeInv, NodeInv, TypeInv
<1>2. /\ pc = "send" /\ status = "up" /\ status' = status /\ store' = store /\ llog' = llog
      /\ raft'.term = raft.term /\ raft'.role = raft.role /\ raft'.unst = NoEntries
      /\ raft'.snap = NoSnapshot
      /\ raft'.committed = IF Alone /\ raft.role = "leader" THEN store.last ELSE raft.committed
  BY <1>1, SendOutcome DEF Advanced
<1>3. raft.role = "leader" /\ raft.term = LastTerm /\ llog[LastTerm] = Stored(store)
  BY <1>2 DEF SingleInv, LocalInv, NewUnstable
<1>4. raft'.committed = store.last /\ Log(raft', store') = Stored(store)
  BY <1>2, <1>3, NoEntriesTable, NoUnstable
<1>5. /\ Len(llog[LastTerm]) = store.last /\ lcommit[LastTerm] \in Nat
      /\ lcommit[LastTerm] <= store.last
  <2>1. /\ DOMAIN llog[LastTerm] = 1 .. Len(llog[LastTerm]) /\ Len(llog[LastTerm]) \in Nat
        /\ lcommit[LastTerm] \in Nat
    BY <1>1, LeaderLogs
  <2> QED BY <1>1, <1>3, <2>1 DEF SingleInv
<1>6. lcommit'[LastTerm] = store.last
  <2>1. PICK r : /\ r = Advance(raft, store, rd, Alone)
                 /\ lcommit' = [lcommit EXCEPT ![r.term] = Max({@, r.committed})]
    BY DEF SendPersisted
  <2>2. r.term = raft.term /\ r.committed = store.last
    BY <1>1, <1>3, <2>1, AdvanceSingle
  <2>3. lcommit'[LastTerm] = Max({lcommit[LastTerm], store.last})
    BY <1>1, <1>3, <2>1, <2>2 DEF TypeInv, LogsType
  <2>4. Max({lcommit[LastTerm], store.last}) = store.last
    BY <1>1, <1>5, MaxOfTwo
  <2> QED BY <2>3, <2>4
<1>7. LastTerm' = LastTerm
  BY <1>1, <1>2, SameLastTerm
<1>8. Agree(Stored(store), Stored(store), store.last) /\ Agree(Stored(store), Stored(store), lcommit[LastTerm])
  BY <1>1, <1>5, AgreeSelf, AgreeLess
<1>9. ChosenGrows
  BY <1>2, <1>3, <1>5, <1>6, <1>7, <1>8 DEF ChosenGrows
<1>10. store.hs.commit <= store.last /\ LastTerm <= store.hs.term + 1
  BY DEF SafeInv, CommitInv, CommitInLog, SingleInv
<1>11. store.last <= store.last
  BY <1>1
<1>12. SingleInv'
  BY <1>2, <1>3, <1>4, <1>5, <1>6, <1>7, <1>8, <1>10, <1>11 DEF SingleInv
<1> QED BY <1>9, <1>12

LEMMA SingleCrash ==
  ASSUME NoSnapshots, Alone, SafeInv, SafeInv', LocalInv, SingleInv, Crash
  PROVE  SingleInv' /\ ChosenGrows
<1>1. /\ TypeInv /\ LastTerm \in Terms /\ store.last \in Nat /\ lcommit[LastTerm] \in Nat
      /\ DOMAIN Stored(store) = 1 .. store.last
      /\ \A i \in 1 .. store.last : Stored(store)[i] = store.entries[i]
  BY NodeLogs, LastTermType, LeaderLogs
<1>2. /\ status = "up" /\ status' = "down" /\ UNCHANGED env /\ store'.hs = store.hs /\ store'.last = store.last
      /\ \/ \A i \in 1 .. store.last : store'.entries[i] = store.entries[i]
         \/ \A i \in 1 .. store.last : store'.entries[i] = Log(raft, store)[i]
  BY CrashLeaves
<1>3. llog[LastTerm] = Log(raft, store) /\ Agree(Stored(store), llog[LastTerm], lcommit[LastTerm])
  BY <1>2 DEF SingleInv
<1>4. lcommit[LastTerm] <= store.last
  <2>1. CASE lcommit[LastTerm] # 0
    <3>1. lcommit[LastTerm] \in 1 .. lcommit[LastTerm]
      BY <1>1, <2>1
    <3> QED BY <1>1, <1>3, <3>1 DEF Agree
  <2> QED BY <1>1, <2>1
<1>5. Agree(Stored(store'), llog[LastTerm], lcommit[LastTerm])
  <2>1. DOMAIN Stored(store') = 1 .. store.last /\ \A i \in 1 .. store.last : Stored(store')[i] = store'.entries[i]
    BY <1>2 DEF Stored
  <2>2. ASSUME NEW i \in 1 .. lcommit[LastTerm]
        PROVE  /\ i \in DOMAIN Stored(store') /\ i \in DOMAIN llog[LastTerm]
               /\ Stored(store')[i] = llog[LastTerm][i]
    <3>1. i \in 1 .. store.last
      BY <1>1, <1>4
    <3>2. i \in DOMAIN llog[LastTerm] /\ store.entries[i] = llog[LastTerm][i]
      BY <1>1, <1>3, <3>1 DEF Agree
    <3> QED BY <1>2, <1>3, <2>1, <3>1, <3>2
  <2> QED BY <2>2 DEF Agree
<1> QED BY <1>2, <1>5, SingleStays DEF SingleInv, env

LEMMA SingleReady ==
  ASSUME NoSnapshots, Alone, SafeInv, SafeInv', LocalInv, SingleInv, OnReady, HardStateGrows
  PROVE  SingleInv' /\ ChosenGrows
<1>1. /\ TypeInv /\ LastTerm \in Terms /\ store.last \in Nat /\ store.hs.commit <= lcommit[LastTerm]
      /\ TypeInv' /\ RaftType(raft) /\ StoreType(store)
  BY NodeLogs, LastTermType DEF SafeInv, NodeInv, TypeInv, SingleInv
<1>2. store.hs.term <= store.hs.term /\ store'.hs.term >= store.hs.term
  BY <1>1, Naturals DEF HardStateGrows
<1>3. CASE TickAndReady
  <2>1. /\ status = "up" /\ UNCHANGED <<store, status, env>>
        /\ raft'.unst = raft.unst /\ raft'.snap = raft.snap /\ raft'.committed = raft.committed
    BY <1>1, <1>3, TickFacts DEF SameLog, Taken
  <2>2. raft'.role = raft.role /\ raft'.term = raft.term
    <3>1. raft' = raft \/ raft' = TakeReady(raft, Ready(raft, store))
      BY <1>3 DEF TickAndReady, TickOutcomes
    <3>2. ReadyType(Ready(raft, store))
      BY <1>1, ReadyHasType
    <3> QED BY <1>1, <3>1, <3>2, TakeReadyType
  <2>3. Log(raft', store') = Log(raft, store)
    <3>1. RaftLast(raft', store) = RaftLast(raft, store)
      BY <2>1, SameReads
    <3> QED BY <2>1, <3>1 DEF Log
  <2> QED BY <1>1, <1>2, <2>1, <2>2, <2>3, SingleQuiet DEF env
<1>4. CASE ApplyEntry
  <2>1. SameStore(store, store') /\ store'.hs = store.hs /\ status = "up" /\ UNCHANGED <<status, raft, env>>
    BY <1>1, <1>4, ApplyExact
  <2> QED BY <1>1, <1>2, <2>1, SameStoreLogs, SingleQuiet DEF env
<1>5. CASE AppendReady
  <2>1. /\ pc = "apply" /\ UNCHANGED <<status, raft, env>> /\ store'.hs = store.hs
        /\ store'.last = RaftLast(raft, store)
        /\ \A i \in 1 .. store'.last : store'.entries[i] = Log(raft, store)[i]
    BY <1>5, AppendStores
  <2>2. status = "up" /\ pc' = "hardstate"
    BY <1>5, AppendStores DEF AppendReady, Applied, At
  <2>3. Stored(store') = Log(raft, store)
    BY <2>1 DEF Stored, Log
  <2>4. /\ lcommit[LastTerm] \in Nat /\ lcommit[LastTerm] <= RaftLast(raft, store)
        /\ llog[LastTerm] = Log(raft, store)
    <3>1. llog[LastTerm] = Log(raft, store) /\ lcommit[LastTerm] <= Len(llog[LastTerm])
      BY <2>2 DEF SingleInv
    <3>2. /\ DOMAIN llog[LastTerm] = 1 .. Len(llog[LastTerm]) /\ Len(llog[LastTerm]) \in Nat
          /\ lcommit[LastTerm] \in Nat
      BY <1>1, LeaderLogs
    <3>3. RaftLast(raft, store) \in Nat /\ DOMAIN Log(raft, store) = 1 .. RaftLast(raft, store)
      BY NodeLogs
    <3> QED BY <3>1, <3>2, <3>3
  <2>5. Agree(Stored(store'), llog[LastTerm], lcommit[LastTerm])
    <3>1. 1 .. lcommit[LastTerm] \subseteq DOMAIN Log(raft, store)
      BY <2>4, NodeLogs
    <3> QED BY <2>3, <2>4, <3>1, AgreeSelf
  <2>6. Log(raft', store') = Log(raft, store)
    <3>1. DOMAIN raft.unst # {} => RaftLast(raft, store') = RaftLast(raft, store)
      BY DEF RaftLast
    <3>2. DOMAIN raft.unst = {} => RaftLast(raft, store') = store'.last
      BY NodeLogs, NoUnstableLast
    <3>3. RaftLast(raft, store') = RaftLast(raft, store)
      BY <2>1, <3>1, <3>2
    <3>4. \A i \in 1 .. RaftLast(raft, store) : i \notin DOMAIN raft.unst =>
            store'.entries[i] = store.entries[i]
      BY <2>1 DEF Log
    <3> QED BY <2>1, <3>3, <3>4 DEF Log
  <2> QED BY <2>1, <2>2, <2>4, <2>5, <2>6, SingleStays DEF SingleInv, env
<1>6. CASE WriteHardState \/ WriteLightCommit
  <2>1. SameStore(store, store') /\ WriteExact /\ UNCHANGED <<status, raft, env>> /\ status = "up"
    BY <1>6, WriteFacts
  <2>2. store'.hs.commit <= lcommit[LastTerm]
    BY <1>1, <2>1 DEF WriteExact, SingleInv
  <2> QED BY <1>1, <1>2, <2>1, <2>2, SameStoreLogs, SingleQuiet DEF env
<1>7. CASE SendPersisted
  BY <1>7, SingleSend
<1>8. CASE FinishLightApply
  <2>1. /\ status = "up" /\ UNCHANGED <<store, status, env>> /\ raft'.term = raft.term /\ raft'.role = raft.role
        /\ raft'.unst = raft.unst /\ raft'.snap = raft.snap /\ raft'.committed = raft.committed
    BY <1>1, <1>8, FinishFacts
  <2>2. Log(raft', store') = Log(raft, store)
    <3>1. RaftLast(raft', store) = RaftLast(raft, store)
      BY <2>1, SameReads
    <3> QED BY <2>1, <3>1 DEF Log
  <2> QED BY <1>1, <1>2, <2>1, <2>2, SingleQuiet DEF env
<1>9. ~RestoreSnapshot
  <2>1. raft.snap = NoSnapshot /\ HandedOut
    BY NodeLogs DEF SafeInv, NodeInv, TurnInv
  <2> QED BY <2>1 DEF RestoreSnapshot, At, HandedOut
<1> QED BY <1>3, <1>4, <1>5, <1>6, <1>7, <1>8, <1>9 DEF OnReady

LEMMA SingleNext ==
  ASSUME NoSnapshots, Alone, SafeInv, SafeInv', LocalInv, SingleInv, [Next]_vars
  PROVE  SingleInv' /\ ChosenGrows
<1>1. /\ TypeInv /\ LastTerm \in Terms /\ store.hs.commit <= lcommit[LastTerm] /\ TermInv /\ TypeInv'
      /\ NodeInv /\ NodeInv' /\ CommitInv /\ LastTerm <= store.hs.term + 1
      /\ Agree(Stored(store), llog[LastTerm], lcommit[LastTerm])
  BY NodeLogs, LastTermType DEF SafeInv, NodeInv, SingleInv
<1>2. HardStateGrows
  BY <1>1, NextCommit, NoSnapshotsSafe, SafeLogRestores
<1>3. CASE Receive
  <2>1. status = "up" /\ raft.role = "leader"
    BY <1>3, HandlersKeep DEF Receiving, SingleInv
  <2>2. CASE RecvNothing
    BY <1>1, <2>1, <2>2, SingleStays DEF RecvNothing, Handled, env, SingleInv
  <2>3. ~RecvAppend /\ ~RecvSnapshot /\ ~RpcCreateSnapshot /\ ~RecvVoteQuorum
    BY <1>1, <2>1, AppendOutcome DEF RecvSnapshot, RpcCreateSnapshot, NoSnapshots, RecvVoteQuorum
  <2>4. ~RecvRequestVote
    <3>1. Candidates = {}
      BY NodeAssumption DEF Alone
    <3> QED BY <3>1 DEF RecvRequestVote
  <2>5. ~RecvAckQuorum /\ ~Campaign /\ ~Demote
    BY DEF RecvAckQuorum, Campaign, Demote
  <2> QED BY <1>3, <2>2, <2>3, <2>4, <2>5, SinglePropose DEF Receive
<1>4. ~Environment
  <2>1. ~OtherLeader
    BY DEF OtherLeader
  <2>2. ASSUME LastTerm \notin mine PROVE llog[LastTerm] = <<>>
    BY <1>1, <2>2 DEF TermInv
  <2>3. ~OtherPropose
    BY <2>2 DEF OtherPropose
  <2>4. ~OtherCommit
    <3>1. ASSUME llog[LastTerm] = <<>> PROVE lcommit[LastTerm] + 1 .. Len(llog[LastTerm]) = {}
      <4>1. lcommit[LastTerm] \in Nat /\ Len(llog[LastTerm]) = 0
        BY <1>1, <3>1, LeaderLogs
      <4> QED BY <4>1
    <3> QED BY <2>2, <3>1 DEF OtherCommit
  <2> QED BY <2>1, <2>3, <2>4 DEF Environment
<1>5. CASE UNCHANGED vars
  BY <1>1, <1>5, SingleStays DEF vars, SingleInv
<1> QED BY <1>2, <1>3, <1>4, <1>5, SingleBootstrap, SingleReady, SingleCrash DEF Next

LEMMA InitSingle == Init => SingleInv
<1> SUFFICES ASSUME Init PROVE SingleInv
  OBVIOUS
<1>1. \A t \in Terms : llog[t] = <<>> /\ lcommit[t] = 0
  BY DEF Init
<1>2. LastTerm = 0
  BY <1>1, LastTermHas, LastTermType
<1>3. llog[LastTerm] = <<>> /\ lcommit[LastTerm] = 0 /\ status = "down" /\ store.hs.commit = 0 /\ store.hs.term = 0
  BY <1>1, LastTermType DEF Init, EmptyStore, DefaultHardState
<1>4. Agree(Stored(store), llog[LastTerm], 0)
  BY DEF Agree
<1> QED BY <1>2, <1>3, <1>4 DEF SingleInv

LEMMA OffCommitted == OffRaft.committed = 0 /\ OffRaft.term = 0
<1>1. EmptyStore.hs = DefaultHardState /\ FirstIndex(EmptyStore) = 1 /\ EmptyStore.hs.term = 0
  BY DEF EmptyStore, FirstIndex, DefaultSnapshot, DefaultHardState
<1> QED BY <1>1 DEF OffRaft, NewRaft

LEMMA SingleChosen ==
  ASSUME SafeInv, SingleInv
  PROVE  ChosenInv
<1>1. /\ TypeInv /\ LastTerm \in Terms /\ lcommit[LastTerm] \in Nat /\ raft.committed \in Nat
      /\ DOMAIN llog[LastTerm] = 1 .. Len(llog[LastTerm]) /\ Len(llog[LastTerm]) \in Nat
  BY LastTermType, LeaderLogs, Naturals DEF SafeInv, NodeInv
<1>2. CASE status = "up"
  <2>1. raft.committed <= lcommit[LastTerm] /\ llog[LastTerm] = Log(raft, store)
    BY <1>2 DEF SingleInv
  <2>2. 1 .. raft.committed \subseteq DOMAIN llog[LastTerm]
    BY <1>1, <2>1 DEF SingleInv
  <2>3. Agree(llog[LastTerm], llog[LastTerm], raft.committed)
    BY <1>1, <2>2, AgreeSelf
  <2> QED BY <2>1, <2>3 DEF ChosenInv, SingleInv
<1>3. CASE status # "up"
  <2>1. raft.committed = 0
    BY <1>1, <1>3, OffCommitted DEF TypeInv, LoopType
  <2>2. Agree(Log(raft, store), llog[LastTerm], 0)
    BY DEF Agree
  <2> QED BY <1>1, <2>1, <2>2 DEF ChosenInv, SingleInv
<1> QED BY <1>2, <1>3

-----------------------------------------------------------------------------
(* The logs of the leaders of a cluster *)

\* Every leader has what an earlier leader committed, and every entry of its
\* log comes, with all before it, from the leader of the term of that entry.
LeaderInv ==
  /\ \A t \in Terms : Sourced(llog[t], llog)
  /\ \A t \in Terms : llog[t] = <<>> => lcommit[t] = 0
  /\ \A t, u \in Terms : u <= t /\ llog[t] # <<>> =>
       lcommit[u] <= lcommit[t] /\ Agree(llog[t], llog[u], lcommit[u])

\* The logs grow, and a leader commits nothing more once there is a newer one.
LeadersMove ==
  /\ Extends(llog', llog) /\ \A t \in Terms : lcommit[t] <= lcommit'[t]
  /\ \A t \in Terms : t # LastTerm /\ (t = LastTerm' \/ lcommit'[t] # lcommit[t]) => llog[t] = <<>>

\* The newest leader has everything committed.
LEMMA NewestHasAll ==
  ASSUME TypeInv, LeaderInv, NEW u \in Terms
  PROVE  /\ lcommit[u] \in Nat /\ lcommit[LastTerm] \in Nat /\ lcommit[u] <= lcommit[LastTerm]
         /\ Agree(llog[LastTerm], llog[u], lcommit[u])
<1>1. lcommit[u] \in Nat /\ lcommit[LastTerm] \in Nat /\ LastTerm \in Terms /\ LastTerm \in Nat /\ u \in Nat
  BY LeaderLogs, LastTermMax, Bounds
<1>2. CASE llog[u] = <<>>
  <2>1. lcommit[u] = 0
    BY <1>2 DEF LeaderInv
  <2> QED BY <1>1, <2>1 DEF Agree
<1>3. CASE llog[u] # <<>>
  <2>1. u <= LastTerm /\ u # 0
    BY <1>3, LastTermMax DEF TypeInv, LogsType
  <2>2. llog[LastTerm] # <<>>
    BY <1>1, <2>1, LastTermHas
  <2> QED BY <1>1, <2>1, <2>2 DEF LeaderInv
<1> QED BY <1>2, <1>3

LEMMA CommittedInLog ==
  ASSUME TypeInv, LeaderInv, NEW t \in Terms
  PROVE  lcommit[t] <= Len(llog[t]) /\ Agree(llog[t], llog[t], lcommit[t])
<1>1. lcommit[t] \in Nat /\ DOMAIN llog[t] = 1 .. Len(llog[t]) /\ Len(llog[t]) \in Nat /\ t \in Nat
  BY LeaderLogs, Bounds
<1>2. CASE lcommit[t] = 0
  BY <1>1, <1>2 DEF Agree
<1>3. CASE lcommit[t] # 0
  <2>1. llog[t] # <<>> /\ t <= t
    BY <1>1, <1>3 DEF LeaderInv
  <2>2. Agree(llog[t], llog[t], lcommit[t])
    BY <2>1 DEF LeaderInv
  <2>3. lcommit[t] \in 1 .. lcommit[t]
    BY <1>1, <1>3
  <2>4. lcommit[t] \in DOMAIN llog[t]
    BY <2>2, <2>3 DEF Agree
  <2> QED BY <1>1, <2>2, <2>4
<1> QED BY <1>2, <1>3

LEMMA SelfExtends ==
  ASSUME NEW g
  PROVE  Extends(g, g)
BY DEF Extends

LEMMA LeadersStay ==
  ASSUME TypeInv, LeaderInv, UNCHANGED <<llog, lcommit>>
  PROVE  LeaderInv' /\ LeadersMove /\ ChosenGrows /\ LastTerm' = LastTerm
<1>1. LastTerm' = LastTerm /\ LastTerm \in Terms
  BY SameLastTerm, LastTermType
<1>2. LeaderInv'
  BY DEF LeaderInv
<1>3. \A t \in Terms : lcommit[t] \in Nat
  BY LeaderLogs
<1>4. LeadersMove
  BY <1>1, <1>3, SelfExtends DEF LeadersMove
<1>5. ChosenGrows
  BY <1>1, <1>3, CommittedInLog DEF ChosenGrows
<1> QED BY <1>1, <1>2, <1>4, <1>5

\* A new leader, with a log that holds everything committed.
LEMMA NewLeader ==
  ASSUME TypeInv, TypeInv', LeaderInv, NEW t \in Terms, t > LastTerm, NEW q, NEW l, NEW n \in Nat,
         DOMAIN q = 1 .. n + 1, q[n + 1].term = t, Agree(q, l, n), Sourced(l, llog),
         Agree(q, llog[LastTerm], lcommit[LastTerm]),
         llog' = [llog EXCEPT ![t] = q], lcommit' = [lcommit EXCEPT ![t] = lcommit[LastTerm]]
  PROVE  LeaderInv' /\ LeadersMove /\ ChosenGrows /\ LastTerm' = t
<1>1. /\ LastTerm \in Terms /\ LastTerm \in Nat /\ t \in Nat /\ \A u \in Terms : lcommit[u] \in Nat
      /\ Terms \subseteq Nat
  BY LastTermMax, Bounds, LeaderLogs
<1>2. llog[t] = <<>> /\ lcommit[t] = 0
  BY <1>1, LastTermMax DEF LeaderInv
<1>3. /\ llog'[t] = q /\ lcommit'[t] = lcommit[LastTerm]
      /\ \A u \in Terms : u # t => llog'[u] = llog[u] /\ lcommit'[u] = lcommit[u]
  BY DEF TypeInv, LogsType
<1>4. q # <<>>
  <2>1. 1 \in DOMAIN q
    OBVIOUS
  <2> QED BY <2>1
<1>5. LastTerm' = t
  <2>1. \A u \in Terms : llog'[u] # <<>> => u <= t
    <3> SUFFICES ASSUME NEW u \in Terms, llog'[u] # <<>> PROVE u <= t
      OBVIOUS
    <3>1. CASE u = t
      BY <1>1, <3>1
    <3>2. CASE u # t
      BY <1>1, <1>3, <3>2, LastTermMax
    <3> QED BY <3>1, <3>2
  <2> QED BY <1>3, <1>4, <2>1, LastTermNext
<1>6. Extends(llog', llog)
  BY <1>2, <1>3 DEF Extends
<1>7. LeadersMove
  BY <1>1, <1>2, <1>3, <1>5, <1>6 DEF LeadersMove
<1>8. ChosenGrows
  BY <1>1, <1>3, <1>5 DEF ChosenGrows
<1>9. LogTable(q) /\ \A u \in Terms : LogTable(llog[u])
  <2>1. LogType(q)
    BY <1>3 DEF TypeInv, LogsType
  <2> QED BY <2>1, LogIsTable, LeaderLogs
<1>10. ASSUME NEW u \in Terms PROVE Sourced(llog'[u], llog')
  <2>1. CASE u # t
    BY <1>3, <1>6, <1>9, <2>1, SourcedGrows DEF LeaderInv
  <2>2. CASE u = t
    <3>1. PICK p : p = [i \in 1 .. n |-> q[i]]
      OBVIOUS
    <3>2. DOMAIN p = 1 .. n /\ Agree(p, l, n) /\ Agree(q, p, n)
      BY <3>1 DEF Agree
    <3>3. Sourced(p, llog) /\ LogTable(p)
      BY <1>9, <3>1, <3>2, SourcedPrefix DEF LogTable
    <3>4. Sourced(p, llog')
      BY <1>6, <3>3, SourcedGrows
    <3>5. Agree(q, llog'[q[n + 1].term], n + 1)
      <4>1. Agree(q, q, n + 1) /\ llog'[q[n + 1].term] = q
        BY <1>3, AgreeSelf
      <4> QED BY <4>1
    <3>6. Sourced(q, llog')
      BY <3>2, <3>4, <3>5, SourcedOneMore
    <3> QED BY <1>3, <2>2, <3>6
  <2> QED BY <2>1, <2>2
<1>11. ASSUME NEW u \in Terms, llog'[u] = <<>> PROVE lcommit'[u] = 0
  BY <1>3, <1>4, <1>11 DEF LeaderInv
<1>12. ASSUME NEW v \in Terms, NEW u \in Terms, u <= v, llog'[v] # <<>>
       PROVE  lcommit'[u] <= lcommit'[v] /\ Agree(llog'[v], llog'[u], lcommit'[u])
  <2>1. CASE v # t
    <3>1. u # t
      BY <1>1, <1>3, <1>12, <2>1, LastTermMax
    <3> QED BY <1>3, <1>12, <2>1, <3>1 DEF LeaderInv
  <2>2. CASE v = t /\ u = t
    <3>1. 1 .. lcommit[LastTerm] \subseteq DOMAIN q
      BY DEF Agree
    <3>2. Agree(q, q, lcommit[LastTerm])
      BY <1>1, <3>1, AgreeSelf
    <3> QED BY <1>1, <1>3, <2>2, <3>2
  <2>3. CASE v = t /\ u # t
    <3>1. lcommit[u] <= lcommit[LastTerm] /\ Agree(llog[LastTerm], llog[u], lcommit[u])
      BY NewestHasAll
    <3>2. Agree(q, llog[LastTerm], lcommit[u])
      BY <1>1, <3>1, AgreeLess
    <3>3. Agree(q, llog[u], lcommit[u])
      BY <3>1, <3>2, AgreeTrans
    <3> QED BY <1>3, <2>3, <3>1, <3>3
  <2> QED BY <2>1, <2>2, <2>3
<1>13. LeaderInv'
  BY <1>10, <1>11, <1>12 DEF LeaderInv
<1> QED BY <1>5, <1>7, <1>8, <1>13

\* A leader, the newest or an older one, appends an entry of its term.
LEMMA LeaderAppends ==
  ASSUME TypeInv, TypeInv', LeaderInv, NEW t \in Terms, llog[t] # <<>>, NEW q,
         DOMAIN q = 1 .. Len(llog[t]) + 1, q[Len(llog[t]) + 1].term = t,
         Agree(q, llog[t], Len(llog[t])), llog' = [llog EXCEPT ![t] = q], lcommit' = lcommit
  PROVE  LeaderInv' /\ LeadersMove /\ ChosenGrows /\ LastTerm' = LastTerm
<1>1. /\ LastTerm \in Terms /\ LastTerm \in Nat /\ t \in Nat /\ \A u \in Terms : lcommit[u] \in Nat
      /\ DOMAIN llog[t] = 1 .. Len(llog[t]) /\ Len(llog[t]) \in Nat /\ t <= LastTerm
  BY LastTermMax, Bounds, LeaderLogs
<1>2. llog'[t] = q /\ \A u \in Terms : u # t => llog'[u] = llog[u]
  BY DEF TypeInv, LogsType
<1>3. q # <<>>
  <2>1. 1 \in DOMAIN q
    BY <1>1
  <2> QED BY <2>1
<1>4. \A u \in Terms : llog'[u] # <<>> <=> llog[u] # <<>>
  BY <1>2, <1>3
<1>5. LastTerm' = LastTerm
  BY <1>1, <1>4, LastTermHas, LastTermMax, LastTermNext
<1>6. Extends(llog', llog)
  BY <1>1, <1>2 DEF Extends, Agree
<1>7. LeadersMove
  BY <1>1, <1>5, <1>6 DEF LeadersMove
<1>8. ASSUME NEW v \in Terms, NEW u \in Terms, u <= v, llog'[v] # <<>>
       PROVE  lcommit[u] <= lcommit[v] /\ Agree(llog'[v], llog'[u], lcommit[u])
  <2>1. lcommit[u] <= lcommit[v] /\ Agree(llog[v], llog[u], lcommit[u])
    BY <1>4, <1>8 DEF LeaderInv
  <2>2. Agree(llog[v], llog'[u], lcommit[u])
    BY <1>6, <2>1, AgreeGrows
  <2>3. Agree(llog'[u], llog'[v], lcommit[u])
    <3>1. Agree(llog'[u], llog[v], lcommit[u])
      BY <2>2, AgreeSym
    <3> QED BY <1>6, <3>1, AgreeGrows
  <2> QED BY <2>1, <2>3, AgreeSym
<1>9. ChosenGrows
  <2>1. Agree(llog[LastTerm], llog[LastTerm], lcommit[LastTerm])
    BY <1>1, CommittedInLog
  <2>2. Agree(llog[LastTerm], llog'[LastTerm], lcommit[LastTerm])
    BY <1>1, <1>6, <2>1, AgreeGrows
  <2>3. Agree(llog'[LastTerm], llog[LastTerm], lcommit[LastTerm])
    BY <2>2, AgreeSym
  <2> QED BY <1>1, <1>5, <2>3 DEF ChosenGrows
<1>10. \A u \in Terms : LogTable(llog[u])
  BY LeaderLogs
<1>11. ASSUME NEW u \in Terms PROVE Sourced(llog'[u], llog')
  <2>1. Sourced(llog[u], llog')
    BY <1>6, <1>10, SourcedGrows DEF LeaderInv
  <2>2. CASE u # t
    BY <1>2, <2>1, <2>2
  <2>3. CASE u = t
    <3>1. Agree(q, llog'[q[Len(llog[t]) + 1].term], Len(llog[t]) + 1)
      <4>1. Agree(q, q, Len(llog[t]) + 1) /\ llog'[q[Len(llog[t]) + 1].term] = q
        BY <1>1, <1>2, AgreeSelf
      <4> QED BY <4>1
    <3>2. Sourced(q, llog')
      BY <1>1, <2>1, <2>3, <3>1, SourcedOneMore
    <3> QED BY <1>2, <2>3, <3>2
  <2> QED BY <2>2, <2>3
<1>12. LeaderInv'
  BY <1>4, <1>8, <1>11 DEF LeaderInv
<1> QED BY <1>5, <1>7, <1>9, <1>12

\* The newest leader commits more of its log.
LEMMA LeaderCommits ==
  ASSUME TypeInv, TypeInv', LeaderInv, NEW n \in Nat, lcommit[LastTerm] <= n, n <= Len(llog[LastTerm]),
         llog' = llog, lcommit' = [lcommit EXCEPT ![LastTerm] = n]
  PROVE  LeaderInv' /\ LeadersMove /\ ChosenGrows /\ LastTerm' = LastTerm
<1>1. /\ LastTerm \in Terms /\ LastTerm \in Nat /\ \A u \in Terms : lcommit[u] \in Nat
      /\ DOMAIN llog[LastTerm] = 1 .. Len(llog[LastTerm]) /\ Len(llog[LastTerm]) \in Nat
  BY LastTermMax, LeaderLogs
<1>2. lcommit'[LastTerm] = n /\ \A u \in Terms : u # LastTerm => lcommit'[u] = lcommit[u]
  BY <1>1 DEF TypeInv, LogsType
<1>3. LastTerm' = LastTerm
  BY SameLastTerm
<1>4. LeadersMove
  BY <1>1, <1>2, <1>3, SelfExtends DEF LeadersMove
<1>5. ChosenGrows
  BY <1>1, <1>2, <1>3, CommittedInLog DEF ChosenGrows
<1>6. ASSUME NEW v \in Terms, llog[v] = <<>> PROVE lcommit'[v] = 0
  <2>1. CASE v = LastTerm
    <3>1. Len(llog[LastTerm]) = 0
      BY <1>1, <1>6, <2>1, LeaderLogs
    <3> QED BY <1>2, <2>1, <3>1
  <2>2. CASE v # LastTerm
    BY <1>2, <1>6, <2>2 DEF LeaderInv
  <2> QED BY <2>1, <2>2
<1>7. ASSUME NEW v \in Terms, NEW u \in Terms, u <= v, llog[v] # <<>>
      PROVE  lcommit'[u] <= lcommit'[v] /\ Agree(llog[v], llog[u], lcommit'[u])
  <2>1. v <= LastTerm /\ v \in Nat /\ u \in Nat
    BY <1>7, LastTermMax, Bounds
  <2>2. CASE u = LastTerm
    <3>1. v = LastTerm
      BY <1>1, <1>7, <2>1, <2>2
    <3>2. 1 .. n \subseteq DOMAIN llog[LastTerm]
      BY <1>1
    <3>3. Agree(llog[LastTerm], llog[LastTerm], n)
      BY <3>2, AgreeSelf
    <3> QED BY <1>2, <2>2, <3>1, <3>3
  <2>3. CASE u # LastTerm
    <3>1. lcommit[u] <= lcommit[v] /\ Agree(llog[v], llog[u], lcommit[u])
      BY <1>7 DEF LeaderInv
    <3>2. lcommit[v] <= lcommit'[v] /\ lcommit'[v] \in Nat
      BY <1>1, <1>2
    <3> QED BY <1>1, <1>2, <2>3, <3>1, <3>2
  <2> QED BY <2>2, <2>3
<1>8. LeaderInv'
  BY <1>6, <1>7 DEF LeaderInv
<1> QED BY <1>3, <1>4, <1>5, <1>8

-----------------------------------------------------------------------------
(* What the log of one node holds *)

\* A log of the node, stored or in memory, in the term and with the commit
\* index n: its entries come from leaders, what it takes for committed some
\* leader has committed, and what the node acknowledged is there.
Held(l, g, c, top, a, term, n) ==
  Sourced(l, g) /\ Backed(l, g, c, term, n) /\ AckedIn(l, g, c, top, a)

\* The same log in a higher term, with a smaller commit index.
LEMMA HeldRaises ==
  ASSUME NEW g, NEW c \in [Terms -> Nat], NEW top, NEW a, NEW l, NEW term \in Nat, NEW newTerm \in Nat,
         NEW n \in Nat, NEW k \in Nat, term <= newTerm, k <= n, Held(l, g, c, top, a, term, n)
  PROVE  Held(l, g, c, top, a, newTerm, k)
<1>1. PICK u \in Terms : u <= term /\ n <= c[u] /\ Agree(l, g[u], n)
  BY DEF Held, Backed
<1>2. u <= newTerm /\ k <= c[u] /\ Agree(l, g[u], k)
  BY <1>1, Bounds, AgreeLess
<1> QED BY <1>2 DEF Held, Backed

\* The leaders move on.
LEMMA HeldMoves ==
  ASSUME NEW g, NEW h, Extends(h, g), NEW c \in [Terms -> Nat], NEW d \in [Terms -> Nat],
         \A t \in Terms : c[t] <= d[t], NEW top, NEW next, NEW a \in [Terms -> Nat],
         \A t \in Terms : t # top /\ (t = next \/ d[t] # c[t]) => a[t] = 0,
         NEW l, LogTable(l), NEW term \in Nat, NEW n \in Nat, Held(l, g, c, top, a, term, n)
  PROVE  Held(l, h, d, next, a, term, n)
<1>1. Sourced(l, h)
  BY SourcedGrows DEF Held
<1>2. Backed(l, h, d, term, n)
  BY BackedGrows DEF Held
<1>3. AckedIn(l, h, d, next, a)
  BY AckedGrows DEF Held
<1> QED BY <1>1, <1>2, <1>3 DEF Held

\* A log that continues l, with entries that come from leaders.
LEMMA HeldLonger ==
  ASSUME NEW g, NEW c \in [Terms -> Nat], NEW top, NEW a, NEW l, NEW m, NEW k \in Nat, DOMAIN l = 1 .. k,
         Agree(m, l, k), Sourced(m, g), NEW term \in Nat, NEW n \in Nat, n <= k,
         Held(l, g, c, top, a, term, n)
  PROVE  Held(m, g, c, top, a, term, n)
<1>1. Agree(m, l, n)
  BY AgreeLess
<1>2. Backed(m, g, c, term, n)
  <2>1. Backed(l, g, c, term, n) /\ term <= term /\ n <= n
    BY DEF Held
  <2> QED BY <1>1, <2>1, BackedMoves
<1>3. \A i \in DOMAIN l : i \in DOMAIN m /\ m[i] = l[i]
  BY DEF Agree
<1>4. AckedIn(m, g, c, top, a)
  BY <1>3 DEF AckedIn, Held
<1> QED BY <1>2, <1>4 DEF Held

-----------------------------------------------------------------------------
(* A node of a cluster *)

\* An acknowledgement that waits for persistence names a leader, and the log
\* of the node agrees with the log of that leader up to its index.
Owed(a) ==
  /\ a[1] \in Terms /\ a[2] \in Nat /\ a[1] <= raft.term /\ llog[a[1]] # <<>>
  /\ Agree(Log(raft, store), llog[a[1]], a[2])

AckTerms ==
  acks \in [Terms -> Nat] /\ \A t \in Terms : acks[t] # 0 => t <= store.hs.term /\ llog[t] # <<>>

HeldInv ==
  /\ Held(Stored(store), llog, lcommit, LastTerm, acks, store.hs.term, store.hs.commit)
  /\ Held(Log(raft, store), llog, lcommit, LastTerm, acks, raft.term, raft.committed)

OwnLeader == raft.role = "leader" => raft.term \in mine /\ llog[raft.term] = Log(raft, store)

AcksOwed == \A a \in raft.ackMsgs \cup rd.ackMsgs : Owed(a)

ClusterInv == LeaderInv /\ AckTerms /\ HeldInv /\ OwnLeader /\ AcksOwed

LEMMA ClusterTypes ==
  ASSUME NoSnapshots, SafeInv, LocalInv
  PROVE  /\ TypeInv /\ lcommit \in [Terms -> Nat] /\ LastTerm \in Terms /\ LastTerm \in Nat
         /\ store.hs.term \in Nat /\ store.hs.commit \in Nat /\ raft.term \in Nat /\ raft.committed \in Nat
         /\ store.last \in Nat /\ RaftLast(raft, store) \in Nat /\ raft.term \in Terms
         /\ LogTable(Stored(store)) /\ LogTable(Log(raft, store))
         /\ DOMAIN Stored(store) = 1 .. store.last
         /\ DOMAIN Log(raft, store) = 1 .. RaftLast(raft, store)
         /\ store.hs.commit <= store.last
<1>1. TypeInv
  BY DEF SafeInv, NodeInv
<1>2. lcommit \in [Terms -> Nat] /\ raft.term \in Terms
  BY <1>1, Bounds DEF TypeInv, LogsType, RaftType
<1>3. store.hs.commit <= store.last
  BY DEF SafeInv, CommitInv, CommitInLog
<1> QED BY <1>1, <1>2, <1>3, LastTermMax, Naturals, NodeLogs

LEMMA NextTyped ==
  ASSUME SafeInv'
  PROVE  /\ TypeInv' /\ lcommit' \in [Terms -> Nat] /\ raft'.term \in Nat /\ raft'.term \in Terms
         /\ raft'.committed \in Nat /\ store'.hs.term \in Nat /\ store'.hs.commit \in Nat
<1>1. TypeInv'
  BY DEF SafeInv, NodeInv
<1> QED BY <1>1, Bounds DEF TypeInv, LogsType, RaftType, StoreType, StoredStates

\* The log l stays held while the leaders move on.
LEMMA HeldStays ==
  ASSUME NoSnapshots, SafeInv, SafeInv', LocalInv, ClusterInv, LeadersMove, NEW l, LogTable(l),
         NEW term \in Nat, NEW n \in Nat, Held(l, llog, lcommit, LastTerm, acks, term, n)
  PROVE  Held(l, llog', lcommit', LastTerm', acks, term, n)
<1>1. /\ Extends(llog', llog) /\ \A t \in Terms : lcommit[t] <= lcommit'[t]
      /\ lcommit \in [Terms -> Nat] /\ lcommit' \in [Terms -> Nat] /\ acks \in [Terms -> Nat]
  BY ClusterTypes, NextTyped DEF LeadersMove, ClusterInv, AckTerms
<1>2. \A t \in Terms : t # LastTerm /\ (t = LastTerm' \/ lcommit'[t] # lcommit[t]) => acks[t] = 0
  BY DEF LeadersMove, ClusterInv, AckTerms
<1>3. PICK g, h, c, d, top, next, a : /\ g = llog /\ h = llog' /\ c = lcommit /\ d = lcommit'
                                      /\ top = LastTerm /\ next = LastTerm' /\ a = acks
  OBVIOUS
<1>4. Held(l, h, d, next, a, term, n)
  <2>1. /\ Extends(h, g) /\ \A t \in Terms : c[t] <= d[t]
        /\ c \in [Terms -> Nat] /\ d \in [Terms -> Nat] /\ a \in [Terms -> Nat]
    BY <1>1, <1>3
  <2>2. \A t \in Terms : t # top /\ (t = next \/ d[t] # c[t]) => a[t] = 0
    BY <1>2, <1>3
  <2>3. Held(l, g, c, top, a, term, n)
    BY <1>3
  <2> QED BY <2>1, <2>2, <2>3, HeldMoves
<1> QED BY <1>3, <1>4

LEMMA AckTermsStay ==
  ASSUME TypeInv, AckTerms, LeadersMove, acks' = acks, store'.hs.term >= store.hs.term,
         store.hs.term \in Nat, store'.hs.term \in Nat
  PROVE  AckTerms'
<1>1. ASSUME NEW t \in Terms, acks[t] # 0 PROVE t <= store'.hs.term /\ llog'[t] # <<>>
  <2>1. t <= store.hs.term /\ llog[t] # <<>> /\ t \in Nat
    BY <1>1, Bounds DEF AckTerms
  <2>2. 1 \in DOMAIN llog[t]
    <3>1. LogType(llog[t]) /\ DOMAIN llog[t] = 1 .. Len(llog[t]) /\ Len(llog[t]) \in Nat
      BY LeaderLogs
    <3>2. Len(llog[t]) # 0
      BY <2>1, <3>1 DEF LogType
    <3> QED BY <3>1, <3>2
  <2>3. 1 \in DOMAIN llog'[t]
    BY <2>2 DEF LeadersMove, Extends
  <2> QED BY <2>1, <2>3
<1> QED BY <1>1 DEF AckTerms

\* Neither log of the node changes.
LEMMA ClusterKept ==
  ASSUME NoSnapshots, SafeInv, SafeInv', LocalInv, ClusterInv, LeaderInv', LeadersMove, acks' = acks,
         Stored(store') = Stored(store), Log(raft', store') = Log(raft, store),
         store'.hs.term = store.hs.term, store'.hs.commit = store.hs.commit,
         raft.term <= raft'.term, raft'.committed = raft.committed,
         raft'.role = "leader" => /\ raft.role = "leader" /\ raft'.term = raft.term
                                  /\ raft.term \in mine' /\ llog'[raft.term] = llog[raft.term],
         raft'.ackMsgs \cup rd'.ackMsgs \subseteq raft.ackMsgs \cup rd.ackMsgs
  PROVE  ClusterInv'
<1>1. HeldInv'
  <2>1. Held(Stored(store), llog', lcommit', LastTerm', acks, store.hs.term, store.hs.commit)
    BY ClusterTypes, HeldStays DEF ClusterInv, HeldInv
  <2>2. Held(Log(raft, store), llog', lcommit', LastTerm', acks, raft.term, raft.committed)
    BY ClusterTypes, HeldStays DEF ClusterInv, HeldInv
  <2>3. PICK l, n : l = Log(raft, store) /\ n = raft.committed
    OBVIOUS
  <2>4. Held(l, llog', lcommit', LastTerm', acks, raft'.term, n)
    <3>1. n \in Nat /\ n <= n /\ Held(l, llog', lcommit', LastTerm', acks, raft.term, n)
      BY <2>2, <2>3, ClusterTypes
    <3> QED BY <3>1, ClusterTypes, NextTyped, HeldRaises
  <2> QED BY <2>1, <2>3, <2>4 DEF HeldInv
<1>2. AckTerms'
  <2>1. store'.hs.term >= store.hs.term /\ store.hs.term \in Nat /\ store'.hs.term \in Nat /\ TypeInv
    BY ClusterTypes
  <2> QED BY <2>1, AckTermsStay DEF ClusterInv
<1>3. OwnLeader'
  BY DEF ClusterInv, OwnLeader
<1>4. AcksOwed'
  <2> SUFFICES ASSUME NEW a \in raft'.ackMsgs \cup rd'.ackMsgs PROVE Owed(a)'
    BY DEF AcksOwed
  <2>1. Owed(a)
    BY DEF ClusterInv, AcksOwed
  <2>2. a[1] \in Terms /\ a[2] \in Nat /\ a[1] <= raft'.term
    <3>1. a[1] \in Terms /\ a[1] \in Nat /\ a[1] <= raft.term /\ a[2] \in Nat
      BY <2>1, Bounds DEF Owed
    <3>2. raft.term \in Nat /\ raft'.term \in Nat
      BY ClusterTypes, NextTyped
    <3> QED BY <3>1, <3>2
  <2>3. Agree(Log(raft, store), llog'[a[1]], a[2])
    BY <2>1, AgreeGrows DEF Owed, LeadersMove
  <2>4. llog'[a[1]] # <<>>
    <3>1. LogType(llog[a[1]]) /\ DOMAIN llog[a[1]] = 1 .. Len(llog[a[1]]) /\ Len(llog[a[1]]) \in Nat
      BY <2>1, ClusterTypes, LeaderLogs DEF Owed
    <3>2. Len(llog[a[1]]) # 0
      BY <2>1, <3>1 DEF LogType, Owed
    <3>3. 1 \in DOMAIN llog'[a[1]]
      BY <2>1, <3>1, <3>2 DEF LeadersMove, Extends, Owed
    <3> QED BY <3>3
  <2> QED BY <2>2, <2>3, <2>4 DEF Owed
<1> QED BY <1>1, <1>2, <1>3, <1>4 DEF ClusterInv

LEMMA LogKept ==
  ASSUME raft'.unst = raft.unst, raft'.snap = raft.snap, store' = store
  PROVE  Log(raft', store') = Log(raft, store) /\ Stored(store') = Stored(store)
<1>1. RaftLast(raft', store) = RaftLast(raft, store)
  BY SameReads
<1> QED BY <1>1 DEF Log

LEMMA ClusterQuiet ==
  ASSUME NoSnapshots, SafeInv, SafeInv', LocalInv, ClusterInv, UNCHANGED <<env, acks>>,
         Stored(store') = Stored(store), Log(raft', store') = Log(raft, store),
         store'.hs = store.hs, raft.term <= raft'.term, raft'.committed = raft.committed,
         raft'.role = "leader" => raft.role = "leader" /\ raft'.term = raft.term,
         raft'.ackMsgs \cup rd'.ackMsgs \subseteq raft.ackMsgs \cup rd.ackMsgs
  PROVE  ClusterInv' /\ ChosenGrows
<1>1. TypeInv /\ LeaderInv /\ llog' = llog /\ lcommit' = lcommit /\ mine' = mine /\ acks' = acks
  BY ClusterTypes DEF ClusterInv, env
<1>2. LeaderInv' /\ LeadersMove /\ ChosenGrows
  BY <1>1, LeadersStay
<1>3. raft'.role = "leader" => /\ raft.role = "leader" /\ raft'.term = raft.term
                               /\ raft.term \in mine' /\ llog'[raft.term] = llog[raft.term]
  BY <1>1 DEF ClusterInv, OwnLeader
<1> QED BY <1>1, <1>2, <1>3, ClusterKept

\* Handlers that leave the log and the commit index alone.
LEMMA ClusterHandled ==
  ASSUME NoSnapshots, SafeInv, SafeInv', LocalInv, ClusterInv, NEW q, Handled(q), UNCHANGED env,
         SameLog(raft, q), raft.term <= q.term, q.ackMsgs = raft.ackMsgs,
         q.role = "leader" => raft.role = "leader" /\ q.term = raft.term
  PROVE  ClusterInv' /\ ChosenGrows
<1>1. raft' = q /\ store' = store /\ rd' = rd /\ acks' = acks
  BY DEF Handled, net
<1>2. Log(raft', store') = Log(raft, store) /\ Stored(store') = Stored(store)
  BY <1>1, LogKept DEF SameLog
<1> QED BY <1>1, <1>2, ClusterQuiet DEF SameLog

LEMMA ClusterQuietReceive ==
  ASSUME NoSnapshots, SafeInv, SafeInv', LocalInv, ClusterInv,
         RecvNothing \/ RecvRequestVote \/ Campaign \/ Demote
  PROVE  ClusterInv' /\ ChosenGrows
<1>1. TypeInv /\ RaftType(raft) /\ raft.term \in Nat /\ raft'.ackMsgs = raft.ackMsgs
  <2>1. TypeInv
    BY ClusterTypes
  <2> QED BY <2>1, ClusterTypes, KeepsAcks DEF TypeInv
<1>2. CASE RecvNothing
  <2>1. Handled(raft) /\ UNCHANGED env /\ SameLog(raft, raft) /\ raft.term <= raft.term
    BY <1>1, <1>2 DEF RecvNothing, SameLog
  <2> QED BY <2>1, ClusterHandled
<1>3. CASE RecvRequestVote
  <2>1. PICK r : /\ Handled(r) /\ RaftType(r) /\ SameLog(raft, r) /\ r.term >= raft.term
                 /\ r.role \in {"follower", raft.role} /\ (r.term > raft.term => r.role = "follower")
                 /\ UNCHANGED env
    BY <1>1, <1>3, VoteRequest
  <2>2. r.term \in Nat /\ r.ackMsgs = raft.ackMsgs
    BY <1>1, <2>1, Bounds DEF RaftType, Handled
  <2>3. /\ r.role = "leader" => raft.role = "leader" /\ r.term = raft.term
        /\ raft.term <= r.term
    BY <1>1, <2>1, <2>2
  <2> QED BY <2>1, <2>2, <2>3, ClusterHandled
<1>4. CASE Campaign
  <2>1. PICK q : q = BecomeCandidate(raft, Self)
    OBVIOUS
  <2>2. Handled(q) /\ raft.term < MaxTerm /\ UNCHANGED env
    BY <1>4, <2>1 DEF Campaign
  <2>3. SameLog(raft, q) /\ q.role = "candidate" /\ q.term = raft.term + 1
    BY <1>1, <2>1, <2>2, CandidateType
  <2>4. raft.term <= q.term /\ q.ackMsgs = raft.ackMsgs
    BY <1>1, <2>2, <2>3 DEF Handled
  <2> QED BY <2>2, <2>3, <2>4, ClusterHandled
<1>5. CASE Demote
  <2>1. PICK r : /\ Handled(r) /\ RaftType(r) /\ SameLog(raft, r) /\ r.term >= raft.term
                 /\ r.role = "follower"
    BY <1>1, <1>5, Demotion
  <2>2. raft.term <= r.term /\ r.ackMsgs = raft.ackMsgs /\ UNCHANGED env
    BY <1>1, <1>5, <2>1, Bounds DEF RaftType, Handled, Demote
  <2> QED BY <2>1, <2>2, ClusterHandled
<1> QED BY <1>2, <1>3, <1>4, <1>5

LEMMA ClusterQuietReady ==
  ASSUME NoSnapshots, SafeInv, SafeInv', LocalInv, LocalInv', ClusterInv,
         TickAndReady \/ ApplyEntry \/ FinishLightApply
  PROVE  ClusterInv' /\ ChosenGrows
<1>1. TypeInv /\ raft.term \in Nat /\ RaftType(raft) /\ RaftType(raft') /\ ReadyType(rd)
  <2>1. TypeInv
    BY ClusterTypes
  <2> QED BY <2>1, ClusterTypes, NextTyped DEF TypeInv
<1>2. CASE TickAndReady
  <2>1. PICK r :
          /\ RaftType(r) /\ SameLog(raft, r) /\ r.term >= raft.term
          /\ r.role = "leader" => raft.role = "leader" /\ r.term = raft.term
          /\ \/ raft' = r
             \/ Taken(r, raft', rd')
    BY <1>1, <1>2, TickFacts
  <2>2. /\ raft'.unst = raft.unst /\ raft'.snap = raft.snap /\ raft'.committed = raft.committed
        /\ raft'.term = r.term /\ raft'.role = r.role
    BY <2>1 DEF SameLog, Taken
  <2>3. raft.term <= raft'.term
    BY <1>1, <2>1, <2>2, Bounds DEF RaftType
  <2>4. UNCHANGED <<store, env, acks>>
    BY <1>1, <1>2, TickFacts DEF net
  <2>5. raft'.ackMsgs \cup rd'.ackMsgs \subseteq raft.ackMsgs \cup rd.ackMsgs
    BY <1>1, <1>2, TickAcks
  <2> QED BY <2>1, <2>2, <2>3, <2>4, <2>5, LogKept, ClusterQuiet
<1>3. CASE ApplyEntry
  <2>1. /\ SameStore(store, store') /\ store'.hs = store.hs /\ UNCHANGED <<raft, env, acks>>
        /\ \E i \in DOMAIN rd.committed : rd' = [rd EXCEPT !.committed = Restrict(@, DOMAIN @ \ {i})]
    BY <1>1, <1>3, ApplyExact DEF net
  <2>2. rd'.ackMsgs = rd.ackMsgs
    BY <1>1, <2>1 DEF ReadyType
  <2>3. Stored(store') = Stored(store) /\ Log(raft', store') = Log(raft, store) /\ raft.term <= raft'.term
    BY <1>1, <2>1, SameStoreLogs
  <2> QED BY <2>1, <2>2, <2>3, ClusterQuiet
<1>4. CASE FinishLightApply
  <2>1. /\ rd' = NoReady /\ raft'.term = raft.term /\ raft'.role = raft.role /\ raft'.unst = raft.unst
        /\ raft'.snap = raft.snap /\ raft'.committed = raft.committed /\ UNCHANGED <<store, env, acks>>
    BY <1>1, <1>4, FinishFacts DEF net
  <2>2. raft'.ackMsgs = raft.ackMsgs /\ rd'.ackMsgs = {} /\ raft.term <= raft'.term
    BY <1>1, <1>4, <2>1, KeepsAcks, FreshAcks
  <2> QED BY <2>1, <2>2, LogKept, ClusterQuiet
<1> QED BY <1>2, <1>3, <1>4

\* What the node takes for committed is in the log of any newer leader.
LEMMA CommittedElsewhere ==
  ASSUME NoSnapshots, SafeInv, LocalInv, ClusterInv, NEW t \in Terms, raft.term <= t, llog[t] # <<>>
  PROVE  Agree(Log(raft, store), llog[t], raft.committed)
<1>1. PICK u \in Terms : u <= raft.term /\ raft.committed <= lcommit[u] /\ Agree(Log(raft, store), llog[u], raft.committed)
  BY DEF ClusterInv, HeldInv, Held, Backed
<1>2. u <= t /\ lcommit[u] \in Nat /\ raft.committed \in Nat
  BY <1>1, ClusterTypes, Bounds
<1>3. Agree(llog[t], llog[u], lcommit[u])
  BY <1>2 DEF ClusterInv, LeaderInv
<1>4. Agree(llog[u], llog[t], raft.committed)
  BY <1>1, <1>2, <1>3, AgreeLess, AgreeSym
<1> QED BY <1>1, <1>4, AgreeTrans

\* The log after the entries m + 1 .. last of the leader of term t.
LEMMA FollowedLog ==
  ASSUME NoSnapshots, SafeInv, LocalInv, ClusterInv, pc = "recv", ~Alone, NEW t \in Terms, NEW m \in Nat,
         NEW last \in Nat, NEW q, RaftType(q), q.snap = NoSnapshot, Follows(t, m, last, q)
  PROVE  /\ Agree(Log(raft, store), llog[t], m) /\ Agree(Log(q, store), llog[t], last)
         /\ \/ Log(q, store) = Log(raft, store)
            \/ /\ DOMAIN Log(q, store) = 1 .. last /\ m < last
               /\ m + 1 <= store.last => store.entries[m + 1].term # llog[t][m + 1].term
         /\ Agree(Log(q, store), Log(raft, store), m)
<1>1. /\ DOMAIN raft.unst = {} /\ Log(raft, store) = Stored(store) /\ RaftLast(raft, store) = store.last
      /\ raft.snap = NoSnapshot /\ store.last \in Nat /\ DOMAIN Stored(store) = 1 .. store.last
      /\ \A i \in 1 .. store.last : Stored(store)[i] = store.entries[i]
  BY FollowerIsStored, NodeLogs
<1>2. /\ DOMAIN llog[t] = 1 .. Len(llog[t]) /\ Len(llog[t]) \in Nat
      /\ m <= last /\ last <= Len(llog[t])
      /\ m # 0 => m \in 1 .. store.last /\ store.entries[m].term = llog[t][m].term
  BY ClusterTypes, LeaderLogs DEF Follows
<1>3. Agree(Stored(store), llog[t], m)
  <2>1. CASE m = 0
    BY <2>1 DEF Agree
  <2>2. CASE m # 0
    <3>1. /\ m \in DOMAIN Stored(store) /\ m \in DOMAIN llog[t]
          /\ Stored(store)[m].term = llog[t][m].term
      BY <1>1, <1>2, <2>2
    <3>2. Sourced(Stored(store), llog) /\ Sourced(llog[t], llog)
      BY DEF ClusterInv, HeldInv, Held, LeaderInv
    <3> QED BY <3>1, <3>2, Matching
  <2> QED BY <2>1, <2>2
<1>4. 1 .. m \subseteq DOMAIN Stored(store)
  BY <1>3 DEF Agree
<1>5. CASE m = last /\ q.unst = raft.unst
  <2>1. Log(q, store) = Stored(store)
    BY <1>1, <1>5, NoUnstable
  <2>2. Agree(Stored(store), Stored(store), m)
    BY <1>4, AgreeSelf
  <2> QED BY <1>1, <1>3, <1>5, <2>1, <2>2
<1>6. CASE ~(m = last /\ q.unst = raft.unst)
  <2>1. /\ m < last /\ DOMAIN q.unst = m + 1 .. last
        /\ \A i \in m + 1 .. last : q.unst[i] = llog[t][i]
        /\ m + 1 <= store.last => store.entries[m + 1].term # llog[t][m + 1].term
    BY <1>6 DEF Follows
  <2>2. RaftLast(q, store) = last
    <3>1. LogTable(q.unst) /\ last \in DOMAIN q.unst
      BY <2>1 DEF RaftType
    <3>2. Max(DOMAIN q.unst) \in DOMAIN q.unst /\ last <= Max(DOMAIN q.unst)
      BY <3>1, TableEnds
    <3>3. Max(DOMAIN q.unst) = last
      BY <2>1, <3>2
    <3> QED BY <3>1, <3>3 DEF RaftLast
  <2>3. DOMAIN Log(q, store) = 1 .. last
    BY <2>2 DEF Log
  <2>4. ASSUME NEW i \in 1 .. last PROVE Log(q, store)[i] = IF i <= m THEN Stored(store)[i] ELSE llog[t][i]
    <3>1. CASE i <= m
      <4>1. i \notin DOMAIN q.unst /\ i \in 1 .. store.last
        BY <1>1, <1>4, <2>1, <3>1
      <4> QED BY <1>1, <2>2, <3>1, <4>1 DEF Log
    <3>2. CASE ~(i <= m)
      <4>1. i \in m + 1 .. last
        BY <3>2
      <4> QED BY <2>1, <2>2, <3>2, <4>1 DEF Log
    <3> QED BY <3>1, <3>2
  <2>5. Agree(Log(q, store), Stored(store), m)
    BY <1>4, <2>1, <2>3, <2>4 DEF Agree
  <2>6. Agree(Log(q, store), llog[t], last)
    BY <1>2, <1>3, <2>1, <2>3, <2>4 DEF Agree
  <2> QED BY <1>1, <1>3, <2>1, <2>3, <2>5, <2>6
<1> QED BY <1>5, <1>6

\* A follower that takes over entries of a leader keeps what it acknowledged.
LEMMA FollowedHolds ==
  ASSUME NoSnapshots, SafeInv, LocalInv, ClusterInv, pc = "recv", ~Alone, status = "up", NEW t \in Terms,
         NEW m \in Nat, NEW last \in Nat, NEW q, RaftType(q), q.snap = NoSnapshot, raft.term <= t,
         llog[t] # <<>>, q.term = t, Follows(t, m, last, q)
  PROVE  Held(Log(q, store), llog, lcommit, LastTerm, acks, t, q.committed)
<1>1. PICK l, p : l = Log(raft, store) /\ p = Log(q, store)
  OBVIOUS
<1>2. /\ Agree(l, llog[t], m) /\ Agree(p, llog[t], last) /\ Agree(p, l, m)
      /\ \/ p = l
         \/ /\ DOMAIN p = 1 .. last /\ m < last
            /\ m + 1 <= store.last => store.entries[m + 1].term # llog[t][m + 1].term
  BY <1>1, FollowedLog
<1>3. /\ Held(l, llog, lcommit, LastTerm, acks, raft.term, raft.committed) /\ raft.term \in Nat
      /\ raft.committed \in Nat /\ lcommit \in [Terms -> Nat] /\ t \in Nat /\ q.committed \in Nat
      /\ Sourced(llog[t], llog) /\ l = Stored(store) /\ store.last \in Nat
      /\ DOMAIN l = 1 .. store.last /\ \A i \in 1 .. store.last : l[i] = store.entries[i]
  BY <1>1, ClusterTypes, FollowerIsStored, NodeLogs, Bounds
     DEF ClusterInv, HeldInv, RaftType, LeaderInv
<1>4. /\ raft.committed <= m
      /\ \/ q.committed = raft.committed
         \/ q.committed <= lcommit[t] /\ q.committed <= last
  BY DEF Follows
<1>5. Sourced(p, llog)
  <2>1. CASE p = l
    BY <1>3, <2>1 DEF Held
  <2>2. CASE DOMAIN p = 1 .. last
    BY <1>2, <1>3, <2>2, SourcedPrefix
  <2> QED BY <1>2, <2>1, <2>2
<1>6. Backed(p, llog, lcommit, t, q.committed)
  <2>1. CASE q.committed = raft.committed
    <3>1. Agree(p, l, raft.committed)
      BY <1>2, <1>3, <1>4, AgreeLess
    <3>2. raft.committed <= raft.committed /\ Backed(l, llog, lcommit, raft.term, raft.committed)
      BY <1>3 DEF Held
    <3> QED BY <1>3, <2>1, <3>1, <3>2, BackedMoves
  <2>2. CASE q.committed <= lcommit[t] /\ q.committed <= last
    <3>1. Agree(p, llog[t], q.committed) /\ t <= t
      BY <1>2, <1>3, <2>2, AgreeLess
    <3> QED BY <2>2, <3>1 DEF Backed
  <2> QED BY <1>4, <2>1, <2>2
<1>7. AckedIn(p, llog, lcommit, LastTerm, acks)
  <2>1. CASE p = l
    BY <1>3, <2>1 DEF Held
  <2>2. CASE p # l
    <3>1. ASSUME NEW u \in Terms, NEW i \in 1 .. acks[u], u = LastTerm \/ i <= lcommit[u]
          PROVE  i \in DOMAIN p /\ p[i] = l[i]
      <4>1. i \in DOMAIN l /\ i \in DOMAIN llog[u] /\ l[i] = llog[u][i]
        BY <1>3, <3>1 DEF Held, AckedIn
      <4>2. u <= t /\ u \in Nat /\ i \in Nat /\ i \in 1 .. i
        <5>1. acks[u] \in Nat /\ acks[u] # 0
          BY <3>1 DEF ClusterInv, AckTerms
        <5>2. u <= store.hs.term /\ store.hs.term \in Nat /\ u \in Nat
          BY <5>1, ClusterTypes, Bounds DEF ClusterInv, AckTerms
        <5>3. store.hs.term <= raft.term /\ raft.term <= t /\ raft.term \in Nat /\ t \in Nat
          BY <1>3 DEF SafeInv, CommitInv, CommitInLog
        <5>4. u <= t /\ u \in Nat
          BY <5>2, <5>3
        <5>5. i \in Nat /\ 1 <= i
          BY <3>1, <5>1
        <5> QED BY <5>4, <5>5
      <4>3. i \in DOMAIN llog[t] /\ llog[t][i] = l[i]
        <5>1. CASE u = LastTerm
          <6>1. t <= LastTerm /\ LastTerm \in Nat
            BY LastTermMax
          <6>2. t = u
            BY <1>3, <4>2, <5>1, <6>1
          <6> QED BY <4>1, <6>2
        <5>2. CASE i <= lcommit[u]
          <6>1. Agree(llog[t], llog[u], lcommit[u])
            BY <4>2 DEF ClusterInv, LeaderInv
          <6>2. i \in 1 .. lcommit[u]
            BY <1>3, <4>2, <5>2
          <6> QED BY <4>1, <6>1, <6>2 DEF Agree
        <5> QED BY <3>1, <5>1, <5>2
      <4>4. Agree(l, llog[t], i)
        <5>1. Sourced(l, llog)
          BY <1>3 DEF Held
        <5> QED BY <1>3, <4>1, <4>3, <5>1, Matching
      <4>5. i <= m
        <5>1. ASSUME ~(i <= m) PROVE FALSE
          <6>1. m + 1 \in 1 .. i /\ m + 1 \in 1 .. store.last
            BY <1>3, <4>1, <4>2, <5>1
          <6>2. l[m + 1] = llog[t][m + 1] /\ l[m + 1] = store.entries[m + 1]
            BY <1>3, <4>4, <6>1 DEF Agree
          <6>3. store.entries[m + 1].term # llog[t][m + 1].term
            BY <1>2, <2>2, <6>1
          <6> QED BY <6>2, <6>3
        <5> QED BY <5>1
      <4>6. i \in 1 .. m
        BY <4>2, <4>5
      <4> QED BY <1>2, <4>6 DEF Agree
    <3>2. AckedIn(l, llog, lcommit, LastTerm, acks)
      BY <1>3 DEF Held
    <3> QED BY <3>1, <3>2, AckedMoves
  <2> QED BY <2>1, <2>2
<1> QED BY <1>1, <1>5, <1>6, <1>7 DEF Held

LEMMA ClusterAppend ==
  ASSUME NoSnapshots, ~Alone, SafeInv, SafeInv', LocalInv, ClusterInv, RecvAppend
  PROVE  ClusterInv' /\ ChosenGrows
<1>1. PICK t, q :
           /\ t \in Terms /\ llog[t] # <<>> /\ raft.term <= t /\ Handled(q) /\ UNCHANGED env
           /\ Kept(q) /\ q.term = t /\ q.snap = NoSnapshot
           /\ \/ /\ q.unst = raft.unst /\ q.committed = raft.committed
                 /\ q.ackMsgs \subseteq {<<t, raft.committed>>}
              \/ \E m \in Nat, last \in Nat : Follows(t, m, last, q)
  BY AppendExact
<1>2. /\ status = "up" /\ pc = "recv" /\ raft' = q /\ store' = store /\ rd' = rd /\ acks' = acks
      /\ llog' = llog /\ lcommit' = lcommit /\ rd.ackMsgs = {} /\ t \in Nat
      /\ RaftType(q) /\ q.role = "follower" /\ raft.snap = NoSnapshot
  BY <1>1, NodeLogs, Bounds DEF RecvAppend, Receiving, Handled, net, env, LocalInv, AckShape, Kept
<1>3. TypeInv /\ LeaderInv /\ raft.committed \in Nat /\ raft.term \in Nat /\ lcommit \in [Terms -> Nat]
  BY ClusterTypes DEF ClusterInv
<1>4. LeaderInv' /\ LeadersMove /\ ChosenGrows /\ LastTerm' = LastTerm
  BY <1>2, <1>3, LeadersStay
<1>5. /\ Held(Log(q, store), llog, lcommit, LastTerm, acks, t, q.committed)
      /\ \A a \in q.ackMsgs : a[1] = t /\ a[2] \in Nat /\ Agree(Log(q, store), llog[t], a[2])
  <2>1. CASE /\ q.unst = raft.unst /\ q.committed = raft.committed
             /\ q.ackMsgs \subseteq {<<t, raft.committed>>}
    <3>1. Log(q, store) = Log(raft, store)
      <4>1. raft'.unst = raft.unst /\ raft'.snap = raft.snap
        BY <1>1, <1>2, <2>1
      <4> QED BY <1>2, <4>1, LogKept
    <3>2. PICK l, n : l = Log(raft, store) /\ n = raft.committed
      OBVIOUS
    <3>3. Held(l, llog, lcommit, LastTerm, acks, raft.term, n) /\ n <= n /\ n \in Nat
      BY <1>3, <3>2 DEF ClusterInv, HeldInv
    <3>4. Held(l, llog, lcommit, LastTerm, acks, t, n)
      BY <1>1, <1>2, <1>3, <3>3, HeldRaises
    <3>5. Agree(l, llog[t], n)
      BY <1>1, <3>2, CommittedElsewhere
    <3> QED BY <1>3, <2>1, <3>1, <3>2, <3>4, <3>5
  <2>2. ASSUME NEW m \in Nat, NEW last \in Nat, Follows(t, m, last, q)
        PROVE  /\ Held(Log(q, store), llog, lcommit, LastTerm, acks, t, q.committed)
               /\ \A a \in q.ackMsgs : a[1] = t /\ a[2] \in Nat /\ Agree(Log(q, store), llog[t], a[2])
    <3>1. Held(Log(q, store), llog, lcommit, LastTerm, acks, t, q.committed)
      BY <1>1, <1>2, <2>2, FollowedHolds
    <3>2. Agree(Log(q, store), llog[t], last)
      BY <1>1, <1>2, <2>2, FollowedLog
    <3>3. q.ackMsgs = {<<t, last>>}
      BY <2>2 DEF Follows
    <3> QED BY <3>1, <3>2, <3>3
  <2> QED BY <1>1, <2>1, <2>2
<1>6. HeldInv'
  BY <1>1, <1>2, <1>4, <1>5 DEF HeldInv, ClusterInv
<1>7. AckTerms' /\ OwnLeader'
  BY <1>2 DEF ClusterInv, AckTerms, OwnLeader
<1>8. AcksOwed'
  <2> SUFFICES ASSUME NEW a \in raft'.ackMsgs \cup rd'.ackMsgs PROVE Owed(a)'
    BY DEF AcksOwed
  <2>1. a[1] = t /\ a[2] \in Nat /\ Agree(Log(q, store), llog[t], a[2]) /\ t <= t
    BY <1>2, <1>5
  <2> QED BY <1>1, <1>2, <2>1 DEF Owed
<1> QED BY <1>4, <1>6, <1>7, <1>8 DEF ClusterInv

LEMMA StoredIsLog ==
  ASSUME NoSnapshots, SafeInv, LocalInv, AppendReady, Truncates
  PROVE  Stored(store') = Log(raft, store) /\ Log(raft', store') = Log(raft, store)
<1>1. /\ raft' = raft /\ store'.last = RaftLast(raft, store)
      /\ \A i \in 1 .. store'.last : store'.entries[i] = Log(raft, store)[i]
  BY AppendStores
<1>2. Stored(store') = Log(raft, store)
  BY <1>1 DEF Stored, Log
<1>3. RaftLast(raft, store') = RaftLast(raft, store)
  <2>1. CASE DOMAIN raft.unst # {}
    BY <2>1 DEF RaftLast
  <2>2. CASE DOMAIN raft.unst = {}
    BY <1>1, <2>2, NodeLogs, NoUnstableLast
  <2> QED BY <2>1, <2>2
<1>4. \A i \in 1 .. RaftLast(raft, store) : i \notin DOMAIN raft.unst => store'.entries[i] = store.entries[i]
  BY <1>1 DEF Log
<1> QED BY <1>1, <1>2, <1>3, <1>4 DEF Log

LEMMA ClusterAppendReady ==
  ASSUME NoSnapshots, SafeInv, SafeInv', LocalInv, ClusterInv, AppendReady, Truncates
  PROVE  ClusterInv' /\ ChosenGrows
<1>1. /\ UNCHANGED <<raft, rd, env, acks, status>> /\ store'.hs = store.hs /\ status = "up"
      /\ \A i \in 1 .. store.hs.commit : store'.entries[i] = store.entries[i]
  BY AppendStores DEF net, AppendReady, Applied, At
<1>2. Stored(store') = Log(raft, store) /\ Log(raft', store') = Log(raft, store)
  BY StoredIsLog
<1>3. /\ TypeInv /\ LeaderInv /\ llog' = llog /\ lcommit' = lcommit /\ mine' = mine
  BY <1>1, ClusterTypes DEF ClusterInv, env
<1>4. LeaderInv' /\ LeadersMove /\ ChosenGrows /\ LastTerm' = LastTerm
  BY <1>3, LeadersStay
<1>5. PICK s, l, n : s = Stored(store) /\ l = Log(raft, store) /\ n = store.hs.commit
  OBVIOUS
<1>6. Agree(l, s, n)
  <2>1. pc = "apply" /\ status = "up"
    BY AppendStores DEF AppendReady, Applied, At
  <2>2. n \in Nat /\ n <= store.last /\ n <= RaftLast(raft, store)
    <3>1. n <= raft.committed /\ raft.committed <= RaftLast(raft, store)
      BY <1>5, <2>1 DEF SafeInv, CommitInv, CommitInLog
    <3> QED BY <1>5, <3>1, ClusterTypes
  <2>3. ASSUME NEW i \in 1 .. n PROVE i \in DOMAIN l /\ i \in DOMAIN s /\ l[i] = s[i]
    <3>1. i \in 1 .. store.last /\ i \in 1 .. RaftLast(raft, store)
      BY <2>2, ClusterTypes
    <3>2. i \in DOMAIN l /\ i \in DOMAIN s /\ s[i] = store.entries[i]
      BY <1>5, <3>1, NodeLogs
    <3>3. l[i] = store'.entries[i]
      BY <1>5, <3>1, AppendStores
    <3> QED BY <1>1, <1>5, <3>2, <3>3
  <2> QED BY <2>3 DEF Agree
<1>7. Held(l, llog, lcommit, LastTerm, acks, store.hs.term, n)
  <2>1. /\ Held(s, llog, lcommit, LastTerm, acks, store.hs.term, n)
        /\ Held(l, llog, lcommit, LastTerm, acks, raft.term, raft.committed)
        /\ n \in Nat /\ n <= n /\ store.hs.term \in Nat /\ store.hs.term <= store.hs.term
        /\ lcommit \in [Terms -> Nat]
    BY <1>5, ClusterTypes DEF ClusterInv, HeldInv
  <2>2. Backed(l, llog, lcommit, store.hs.term, n)
    BY <1>6, <2>1, BackedMoves DEF Held
  <2> QED BY <2>1, <2>2 DEF Held
<1>8. HeldInv'
  BY <1>1, <1>2, <1>3, <1>4, <1>5, <1>7 DEF HeldInv, ClusterInv
<1>9. AckTerms' /\ OwnLeader' /\ AcksOwed'
  BY <1>1, <1>2, <1>3 DEF ClusterInv, AckTerms, OwnLeader, AcksOwed, Owed
<1> QED BY <1>4, <1>8, <1>9 DEF ClusterInv

\* What a stopped node has left is what the store holds.
LEMMA StoppedHolds ==
  ASSUME NoSnapshots, SafeInv, LocalInv, ClusterInv, Crash, Truncates
  PROVE  Held(Stored(store'), llog, lcommit, LastTerm, acks, store.hs.term, store.hs.commit)
<1>1. /\ status = "up" /\ store'.last = store.last
      /\ \A i \in 1 .. store.hs.commit : store'.entries[i] = store.entries[i]
      /\ \/ \A i \in 1 .. store.last : store'.entries[i] = store.entries[i]
         \/ /\ store.last <= RaftLast(raft, store)
            /\ \A i \in 1 .. store.last : store'.entries[i] = Log(raft, store)[i]
  BY CrashLeaves
<1>2. PICK s, l, x, n, k, m : /\ s = Stored(store) /\ l = Log(raft, store) /\ x = Stored(store')
                              /\ n = store.hs.commit /\ k = store.last /\ m = RaftLast(raft, store)
  OBVIOUS
<1>3. /\ DOMAIN s = 1 .. k /\ DOMAIN l = 1 .. m /\ DOMAIN x = 1 .. k /\ n \in Nat /\ k \in Nat /\ m \in Nat
      /\ n <= k /\ lcommit \in [Terms -> Nat] /\ store.hs.term \in Nat
      /\ \A i \in 1 .. k : s[i] = store.entries[i] /\ x[i] = store'.entries[i]
  BY <1>1, <1>2, ClusterTypes, NodeLogs DEF Stored
<1>4. /\ Held(s, llog, lcommit, LastTerm, acks, store.hs.term, n)
      /\ Held(l, llog, lcommit, LastTerm, acks, raft.term, raft.committed)
  BY <1>2 DEF ClusterInv, HeldInv
<1>5. Agree(x, s, n)
  <2>1. \A i \in 1 .. n : i \in 1 .. k
    BY <1>3
  <2> QED BY <1>1, <1>2, <1>3, <2>1 DEF Agree
<1>6. Agree(x, s, k) \/ (k <= m /\ Agree(x, l, k))
  <2>1. CASE \A i \in 1 .. store.last : store'.entries[i] = store.entries[i]
    BY <1>2, <1>3, <2>1 DEF Agree
  <2>2. CASE /\ store.last <= RaftLast(raft, store)
             /\ \A i \in 1 .. store.last : store'.entries[i] = Log(raft, store)[i]
    <3>1. \A i \in 1 .. k : i \in 1 .. m
      BY <1>2, <1>3, <2>2
    <3> QED BY <1>2, <1>3, <2>2, <3>1 DEF Agree
  <2> QED BY <1>1, <2>1, <2>2
<1>7. Sourced(x, llog)
  BY <1>3, <1>4, <1>6, SourcedPrefix DEF Held
<1>8. Backed(x, llog, lcommit, store.hs.term, n)
  <2>1. n <= n /\ store.hs.term <= store.hs.term
    BY <1>3
  <2> QED BY <1>3, <1>4, <1>5, <2>1, BackedMoves DEF Held
<1>9. AckedIn(x, llog, lcommit, LastTerm, acks)
  <2>1. ASSUME NEW t \in Terms, NEW i \in 1 .. acks[t], t = LastTerm \/ i <= lcommit[t]
        PROVE  i \in DOMAIN x /\ i \in DOMAIN llog[t] /\ x[i] = llog[t][i]
    <3>1. /\ i \in DOMAIN s /\ i \in DOMAIN llog[t] /\ s[i] = llog[t][i]
          /\ i \in DOMAIN l /\ l[i] = llog[t][i]
      BY <1>4, <2>1 DEF Held, AckedIn
    <3> QED BY <1>3, <1>6, <3>1 DEF Agree
  <2> QED BY <2>1 DEF AckedIn
<1>10. Held(x, llog, lcommit, LastTerm, acks, store.hs.term, n)
  BY <1>7, <1>8, <1>9 DEF Held
<1> QED BY <1>2, <1>10

\* The node starts, or is off, with the log it has stored.
LEMMA ClusterRestart ==
  ASSUME NoSnapshots, SafeInv, SafeInv', LocalInv, ClusterInv, UNCHANGED <<env, acks>>,
         store'.hs.term = store.hs.term, store'.hs.commit = store.hs.commit,
         Held(Stored(store'), llog, lcommit, LastTerm, acks, store.hs.term, store.hs.commit),
         raft'.snap = NoSnapshot, DOMAIN raft'.unst = {}, raft'.role # "leader",
         raft'.ackMsgs = {}, rd'.ackMsgs = {},
         \/ raft'.term = store.hs.term /\ raft'.committed = store.hs.commit
         \/ raft'.term = 0 /\ raft'.committed = 0
  PROVE  ClusterInv' /\ ChosenGrows
<1>1. TypeInv /\ LeaderInv /\ llog' = llog /\ lcommit' = lcommit /\ mine' = mine /\ acks' = acks
  BY ClusterTypes DEF ClusterInv, env
<1>2. LeaderInv' /\ LeadersMove /\ ChosenGrows /\ LastTerm' = LastTerm
  BY <1>1, LeadersStay
<1>3. Log(raft', store') = Stored(store')
  BY NoUnstable
<1>4. Held(Stored(store'), llog, lcommit, LastTerm, acks, raft'.term, raft'.committed)
  <2>1. CASE raft'.term = 0 /\ raft'.committed = 0
    <3>1. PICK x : x = Stored(store')
      OBVIOUS
    <3>2. Backed(x, llog, lcommit, 0, 0)
      <4>1. 0 \in Terms /\ lcommit[0] \in Nat
        BY Bounds, ClusterTypes DEF Terms
      <4>2. Agree(x, llog[0], 0)
        BY DEF Agree
      <4>3. 0 <= 0 /\ 0 <= lcommit[0]
        BY <4>1
      <4> QED BY <4>1, <4>2, <4>3 DEF Backed
    <3> QED BY <2>1, <3>1, <3>2 DEF Held
  <2> QED BY <2>1
<1>5. HeldInv'
  BY <1>1, <1>2, <1>3, <1>4 DEF HeldInv
<1>6. AckTerms' /\ OwnLeader' /\ AcksOwed'
  BY <1>1 DEF ClusterInv, AckTerms, OwnLeader, AcksOwed
<1> QED BY <1>2, <1>5, <1>6 DEF ClusterInv

LEMMA ClusterCrash ==
  ASSUME NoSnapshots, SafeInv, SafeInv', LocalInv, ClusterInv, Crash, Truncates
  PROVE  ClusterInv' /\ ChosenGrows
<1>1. PowerOff /\ UNCHANGED <<env, acks>> /\ store'.hs = store.hs
  BY CrashLeaves DEF net
<1>2. /\ raft'.snap = NoSnapshot /\ DOMAIN raft'.unst = {} /\ raft'.role # "leader"
      /\ raft'.ackMsgs = {} /\ rd'.ackMsgs = {} /\ raft'.term = 0 /\ raft'.committed = 0
  BY <1>1, OffRaftFacts, FreshAcks, OffCommitted DEF PowerOff
<1> QED BY <1>1, <1>2, StoppedHolds, ClusterRestart

LEMMA ClusterBootstrap ==
  ASSUME NoSnapshots, ~Alone, SafeInv, SafeInv', LocalInv, ClusterInv, Bootstrap
  PROVE  ClusterInv' /\ ChosenGrows
<1>1. /\ rd' = NoReady /\ Started(store') /\ raft'.ackMsgs = {} /\ UNCHANGED acks
      /\ SameStore(store, store') /\ store'.hs.term = store.hs.term /\ store'.hs.commit = store.hs.commit
      /\ raft'.term = store.hs.term /\ raft'.committed = store.hs.commit
  BY BootExact DEF net
<1>2. /\ raft'.snap = NoSnapshot /\ DOMAIN raft'.unst = {} /\ raft'.role # "leader" /\ UNCHANGED env
      /\ rd'.ackMsgs = {}
  BY <1>1, NoEntriesTable, FreshAcks DEF Started
<1>3. Held(Stored(store'), llog, lcommit, LastTerm, acks, store.hs.term, store.hs.commit)
  BY <1>1, SameStoreLogs DEF ClusterInv, HeldInv
<1> QED BY <1>1, <1>2, <1>3, ClusterRestart

\* The hard state catches up with what the node holds.
LEMMA ClusterWrite ==
  ASSUME NoSnapshots, SafeInv, SafeInv', LocalInv, ClusterInv, WriteHardState \/ WriteLightCommit
  PROVE  ClusterInv' /\ ChosenGrows
<1>1. /\ SameStore(store, store') /\ WriteExact /\ UNCHANGED <<raft, rd, env, acks>> /\ status = "up"
  BY WriteFacts DEF net
<1>2. /\ TypeInv /\ LeaderInv /\ llog' = llog /\ lcommit' = lcommit /\ mine' = mine /\ acks' = acks
      /\ store.hs.term \in Nat /\ store'.hs.term \in Nat /\ store'.hs.commit \in Nat /\ raft.term \in Nat
      /\ raft.committed \in Nat /\ store.hs.commit \in Nat /\ lcommit \in [Terms -> Nat]
  BY <1>1, ClusterTypes, NextTyped DEF ClusterInv, env
<1>3. LeaderInv' /\ LeadersMove /\ ChosenGrows /\ LastTerm' = LastTerm
  BY <1>2, LeadersStay
<1>4. Stored(store') = Stored(store) /\ Log(raft', store') = Log(raft, store)
  BY <1>1, SameStoreLogs
<1>5. /\ Log(raft, store) = Stored(store) /\ store'.hs.term = raft.term
      /\ store.hs.term <= raft.term /\ store.hs.commit <= raft.committed
  <2>1. store.hs.term <= raft.term /\ store.hs.commit <= raft.committed
    BY <1>1 DEF SafeInv, CommitInv, CommitInLog
  <2>2. CASE pc = "hardstate"
    BY <1>1, <2>1, <2>2 DEF WriteExact, LocalInv, NewUnstable
  <2>3. CASE pc = "lightcommit"
    <3>1. raft.snap = NoSnapshot /\ DOMAIN raft.unst = {}
      BY <2>3, NodeLogs DEF SafeInv, NodeInv, TurnInv, HandedOut
    <3>2. raft.term = store.hs.term
      BY <1>1, <2>3 DEF LocalInv, StoredTerm
    <3> QED BY <1>1, <2>1, <2>3, <3>1, <3>2, NoUnstable DEF WriteExact
  <2> QED BY <1>1, <2>2, <2>3 DEF WriteExact
<1>6. Held(Stored(store), llog, lcommit, LastTerm, acks, store'.hs.term, store'.hs.commit)
  <2>1. PICK l, n, k : l = Log(raft, store) /\ n = raft.committed /\ k = store'.hs.commit
    OBVIOUS
  <2>2. k <= n /\ k \in Nat /\ n \in Nat /\ raft.term <= store'.hs.term
    BY <1>1, <1>2, <1>5, <2>1 DEF WriteExact
  <2>3. Held(l, llog, lcommit, LastTerm, acks, raft.term, n)
    BY <2>1 DEF ClusterInv, HeldInv
  <2>4. Held(l, llog, lcommit, LastTerm, acks, store'.hs.term, k)
    BY <1>2, <2>2, <2>3, HeldRaises
  <2> QED BY <1>5, <2>1, <2>4
<1>7. HeldInv'
  BY <1>1, <1>2, <1>3, <1>4, <1>6 DEF HeldInv, ClusterInv
<1>8. AckTerms'
  <2>1. store'.hs.term >= store.hs.term
    BY <1>2, <1>5
  <2> QED BY <1>2, <1>3, <2>1, AckTermsStay DEF ClusterInv
<1>9. OwnLeader' /\ AcksOwed'
  BY <1>1, <1>2, <1>4 DEF ClusterInv, OwnLeader, AcksOwed, Owed
<1> QED BY <1>3, <1>7, <1>8, <1>9 DEF ClusterInv

\* What leaves on_ready after persistence is held by the store.
LEMMA SentAcks ==
  ASSUME NoSnapshots, SafeInv, LocalInv, ClusterInv, SendPersisted, NEW t \in Terms
  PROVE  /\ acks'[t] \in Nat
         /\ \/ acks'[t] = acks[t]
            \/ \E a \in rd.ackMsgs : a[1] = t /\ a[2] = acks'[t] /\ Owed(a)
<1>1. acks'[t] = Max({acks[t]} \cup {a[2] : a \in {b \in rd.ackMsgs : b[1] = t}})
  BY DEF SendPersisted
<1> DEFINE S == {acks[t]} \cup {a[2] : a \in {b \in rd.ackMsgs : b[1] = t}}
           n == acks[t] + RaftLast(raft, store)
<1>2. acks[t] \in Nat /\ RaftLast(raft, store) \in Nat /\ \A a \in rd.ackMsgs : Owed(a)
  BY ClusterTypes DEF ClusterInv, AckTerms, AcksOwed
<1>3. ASSUME NEW a \in rd.ackMsgs PROVE a[2] \in 0 .. n
  <2>1. a[2] \in Nat /\ Agree(Log(raft, store), llog[a[1]], a[2])
    BY <1>2 DEF Owed
  <2>2. CASE a[2] # 0
    <3>1. a[2] \in 1 .. a[2]
      BY <2>1, <2>2
    <3>2. a[2] \in 1 .. RaftLast(raft, store)
      BY <2>1, <3>1, ClusterTypes DEF Agree
    <3> QED BY <1>2, <2>1, <3>2
  <2> QED BY <1>2, <2>1, <2>2
<1>4. S \in SUBSET (0 .. n) /\ S # {} /\ n \in Nat
  BY <1>2, <1>3
<1>5. Max(S) \in S
  BY <1>4, BoundedMax
<1>6. acks'[t] = acks[t] \/ \E a \in rd.ackMsgs : a[1] = t /\ a[2] = acks'[t]
  BY <1>1, <1>5
<1> QED BY <1>2, <1>6 DEF Owed

LEMMA ClusterSend ==
  ASSUME NoSnapshots, ~Alone, SafeInv, SafeInv', LocalInv, LocalInv', ClusterInv, SendPersisted
  PROVE  ClusterInv' /\ ChosenGrows
<1>1. TypeInv /\ LeaderInv /\ raft.term \in Nat
  BY ClusterTypes DEF ClusterInv
<1>2. /\ pc = "send" /\ status = "up" /\ UNCHANGED <<store, llog, mine>>
      /\ raft'.term = raft.term /\ raft'.role = raft.role /\ raft'.unst = NoEntries
      /\ raft'.snap = NoSnapshot /\ raft'.committed = raft.committed
  BY <1>1, SendOutcome DEF Advanced
<1>3. lcommit' = lcommit
  BY DEF SendPersisted
<1>4. /\ LeaderInv' /\ LeadersMove /\ ChosenGrows /\ LastTerm' = LastTerm
  BY <1>1, <1>2, <1>3, LeadersStay
<1>5. Log(raft, store) = Stored(store) /\ Log(raft', store') = Stored(store) /\ raft.term = store.hs.term
  <2>1. Log(raft, store) = Stored(store) /\ raft.term = store.hs.term
    BY <1>2 DEF LocalInv, NewUnstable, StoredTerm
  <2>2. Log(raft', store') = Stored(store)
    BY <1>2, NoEntriesTable, NoUnstable
  <2> QED BY <2>1, <2>2
<1>6. raft'.ackMsgs = {} /\ rd'.ackMsgs = {}
  BY <1>1, <1>2, KeepsAcks, SendHandsOut DEF LocalInv, AckShape
<1>7. PICK l : l = Stored(store)
  OBVIOUS
<1>8. AckedIn(l, llog, lcommit, LastTerm, acks')
  <2>1. ASSUME NEW t \in Terms, NEW i \in 1 .. acks'[t], t = LastTerm \/ i <= lcommit[t]
        PROVE  i \in DOMAIN l /\ i \in DOMAIN llog[t] /\ l[i] = llog[t][i]
    <3>1. CASE acks'[t] = acks[t]
      BY <1>7, <2>1, <3>1 DEF ClusterInv, HeldInv, Held, AckedIn
    <3>2. CASE \E a \in rd.ackMsgs : a[1] = t /\ a[2] = acks'[t] /\ Owed(a)
      BY <1>5, <1>7, <2>1, <3>2 DEF Owed, Agree
    <3> QED BY <3>1, <3>2, SentAcks
  <2> QED BY <2>1 DEF AckedIn
<1>9. HeldInv'
  <2>1. /\ Held(l, llog, lcommit, LastTerm, acks', store.hs.term, store.hs.commit)
        /\ Held(l, llog, lcommit, LastTerm, acks', raft.term, raft.committed)
    BY <1>5, <1>7, <1>8 DEF ClusterInv, HeldInv, Held
  <2> QED BY <1>2, <1>3, <1>4, <1>5, <1>7, <2>1 DEF HeldInv
<1>10. AckTerms'
  <2>1. acks' \in [Terms -> Nat]
    <3>1. DOMAIN acks' = Terms /\ acks' = [t \in Terms |-> acks'[t]]
      BY DEF SendPersisted
    <3> QED BY <3>1, SentAcks
  <2>2. ASSUME NEW t \in Terms, acks'[t] # 0 PROVE t <= store.hs.term /\ llog[t] # <<>>
    <3>1. CASE acks'[t] = acks[t]
      BY <2>2, <3>1 DEF ClusterInv, AckTerms
    <3>2. CASE \E a \in rd.ackMsgs : a[1] = t /\ a[2] = acks'[t] /\ Owed(a)
      BY <1>5, <3>2 DEF Owed
    <3> QED BY <3>1, <3>2, SentAcks
  <2> QED BY <1>2, <2>1, <2>2 DEF AckTerms
<1>11. OwnLeader' /\ AcksOwed'
  BY <1>2, <1>5, <1>6 DEF ClusterInv, OwnLeader, AcksOwed
<1> QED BY <1>4, <1>9, <1>10, <1>11 DEF ClusterInv

\* The node records one more entry of its own term e, as the leader of that term.
LEMMA ClusterLeads ==
  ASSUME NoSnapshots, SafeInv, SafeInv', LocalInv, ClusterInv, Receiving, NEW q, Handled(q),
         LeaderInv', LeadersMove, q.ackMsgs = {}, q.term = raft.term, q.committed = raft.committed,
         q.term \in mine', llog'[q.term] = Log(q, store),
         Agree(Log(q, store), Log(raft, store), RaftLast(raft, store))
  PROVE  ClusterInv'
<1>1. /\ raft' = q /\ store' = store /\ rd' = rd /\ acks' = acks /\ pc = "recv" /\ status = "up"
      /\ rd.ackMsgs = {} /\ q.term \in Terms
  BY ClusterTypes DEF Handled, net, Receiving, LocalInv, AckShape
<1>2. PICK l, m, n, k : /\ l = Log(raft, store) /\ m = Log(q, store) /\ n = raft.committed
                        /\ k = RaftLast(raft, store)
  OBVIOUS
<1>3. /\ DOMAIN l = 1 .. k /\ k \in Nat /\ n \in Nat /\ n <= k /\ LogTable(l) /\ Agree(m, l, k)
      /\ Held(l, llog, lcommit, LastTerm, acks, raft.term, n) /\ raft.term \in Nat
      /\ lcommit' \in [Terms -> Nat]
  <2>1. n <= k
    BY <1>1, <1>2 DEF SafeInv, CommitInv, CommitInLog
  <2> QED BY <1>2, <2>1, ClusterTypes, NextTyped DEF ClusterInv, HeldInv
<1>4. Held(l, llog', lcommit', LastTerm', acks, raft.term, n)
  BY <1>3, HeldStays
<1>5. Sourced(m, llog')
  BY <1>1, <1>2 DEF LeaderInv
<1>6. Held(m, llog', lcommit', LastTerm', acks, raft.term, n)
  BY <1>3, <1>4, <1>5, HeldLonger
<1>7. Held(Stored(store), llog', lcommit', LastTerm', acks, store.hs.term, store.hs.commit)
  BY ClusterTypes, HeldStays DEF ClusterInv, HeldInv
<1>8. HeldInv'
  BY <1>1, <1>2, <1>6, <1>7 DEF HeldInv
<1>9. AckTerms'
  <2>1. /\ store'.hs.term >= store.hs.term /\ store.hs.term \in Nat /\ store'.hs.term \in Nat /\ TypeInv
    BY <1>1, ClusterTypes
  <2> QED BY <1>1, <2>1, AckTermsStay DEF ClusterInv
<1>10. OwnLeader' /\ AcksOwed'
  BY <1>1 DEF OwnLeader, AcksOwed
<1> QED BY <1>8, <1>9, <1>10 DEF ClusterInv

LEMMA ClusterVoteQuorum ==
  ASSUME NoSnapshots, SafeInv, SafeInv', LocalInv, ClusterInv, RecvVoteQuorum
  PROVE  ClusterInv' /\ ChosenGrows
<1>1. /\ TypeInv /\ TypeInv' /\ LeaderInv /\ RaftType(raft) /\ StoreType(store) /\ Receiving
      /\ raft.role = "candidate" /\ raft.term > LastTerm /\ RaftLast(raft, store) < MaxIndex
      /\ raft.term # 0 /\ raft.term \in Terms /\ pc = "recv"
  <2>1. TypeInv /\ TypeInv' /\ LeaderInv /\ raft.term \in Terms
    BY ClusterTypes, NextTyped DEF ClusterInv
  <2> QED BY <2>1 DEF RecvVoteQuorum, Receiving, TypeInv, RaftType
<1>2. PICK q : q = BecomeLeader(raft, store)
  OBVIOUS
<1>3. HasChosen(OwnLog(q, llog[LastTerm])) /\ Handled(q) /\ RecordLeader(q)
  BY <1>2 DEF RecvVoteQuorum
<1>4. /\ RaftType(q) /\ q.term = raft.term /\ q.snap = raft.snap /\ q.committed = raft.committed
      /\ q.unst = Put(raft.unst, RaftLast(raft, store) + 1, Noop(raft.term))
      /\ DOMAIN q.unst = DOMAIN raft.unst \cup {RaftLast(raft, store) + 1}
  BY <1>1, <1>2, BecomeLeaderType
<1>5. PICK l, m, n : l = Log(raft, store) /\ m = Log(q, store) /\ n = RaftLast(raft, store)
  OBVIOUS
<1>6. /\ OwnLog(q, llog[LastTerm]) = m /\ DOMAIN m = 1 .. n + 1 /\ m[n + 1] = Noop(raft.term)
      /\ Agree(m, l, n)
  BY <1>1, <1>4, <1>5, RecordedLog
<1>7. /\ llog' = [llog EXCEPT ![raft.term] = m] /\ mine' = mine \cup {raft.term}
      /\ lcommit' = [lcommit EXCEPT ![raft.term] = lcommit[LastTerm]]
  BY <1>3, <1>4, <1>6 DEF RecordLeader
<1>8. llog'[raft.term] = m
  BY <1>1, <1>7 DEF TypeInv, LogsType
<1>9. Agree(m, llog[LastTerm], lcommit[LastTerm])
  <2>1. /\ lcommit[LastTerm] <= Len(llog[LastTerm]) /\ LastTerm \in Terms
        /\ Agree(llog[LastTerm], llog[LastTerm], lcommit[LastTerm])
    BY <1>1, LastTermType, CommittedInLog
  <2>2. /\ Len(Chosen) = lcommit[LastTerm] /\ lcommit[LastTerm] \in Nat
        /\ \A i \in 1 .. lcommit[LastTerm] : Chosen[i] = llog[LastTerm][i]
    BY <1>1, <2>1, ChosenShape
  <2>3. Len(m) = n + 1 /\ n \in Nat
    <3>1. DOMAIN m = 1 .. Len(m) /\ Len(m) \in Nat /\ n \in Nat
      <4>1. LogType(llog'[raft.term])
        BY <1>1 DEF TypeInv, LogsType
      <4> QED BY <1>5, <1>8, <4>1, ClusterTypes DEF LogType
    <3> QED BY <1>6, <3>1
  <2>4. lcommit[LastTerm] <= n + 1 /\ \A i \in 1 .. lcommit[LastTerm] : m[i] = Chosen[i]
    BY <1>3, <1>6, <2>2, <2>3 DEF HasChosen
  <2>5. ASSUME NEW i \in 1 .. lcommit[LastTerm]
        PROVE  i \in DOMAIN m /\ i \in DOMAIN llog[LastTerm] /\ m[i] = llog[LastTerm][i]
    <3>1. i \in 1 .. n + 1
      BY <2>2, <2>3, <2>4
    <3> QED BY <1>6, <2>1, <2>2, <2>4, <3>1 DEF Agree
  <2> QED BY <2>5 DEF Agree
<1>10. LeaderInv' /\ LeadersMove /\ ChosenGrows
  <2>1. m[n + 1].term = raft.term /\ n \in Nat /\ Sourced(l, llog)
    BY <1>5, <1>6, ClusterTypes DEF Noop, ClusterInv, HeldInv, Held
  <2> QED BY <1>1, <1>6, <1>7, <1>9, <2>1, NewLeader
<1>11. q.ackMsgs = {}
  BY <1>1, <1>3, KeepsAcks DEF Handled, LocalInv, AckShape
<1>12. ClusterInv'
  BY <1>1, <1>3, <1>4, <1>5, <1>6, <1>7, <1>8, <1>10, <1>11, ClusterLeads
<1> QED BY <1>10, <1>12

LEMMA ClusterPropose ==
  ASSUME NoSnapshots, SafeInv, SafeInv', LocalInv, ClusterInv, Propose
  PROVE  ClusterInv' /\ ChosenGrows
<1>1. /\ TypeInv /\ TypeInv' /\ LeaderInv /\ RaftType(raft) /\ StoreType(store) /\ Receiving
      /\ raft.term \in Terms /\ pc = "recv"
  <2>1. TypeInv /\ TypeInv' /\ LeaderInv /\ raft.term \in Terms
    BY ClusterTypes, NextTyped DEF ClusterInv
  <2> QED BY <2>1 DEF Propose, Receiving, TypeInv
<1>2. PICK q : \E e \in LogEntry :
           /\ raft.role = "leader" /\ RaftLast(raft, store) < MaxIndex
           /\ e.term = raft.term /\ q = AppendLeader(raft, store, e) /\ Handled(q)
           /\ RaftType(q) /\ q.term = raft.term /\ q.role = "leader"
           /\ q.snap = raft.snap /\ q.committed = raft.committed /\ q.applied = raft.applied
           /\ q.since = raft.since /\ q.prevHs = raft.prevHs
           /\ q.unst = Put(raft.unst, RaftLast(raft, store) + 1, e)
           /\ DOMAIN q.unst = DOMAIN raft.unst \cup {RaftLast(raft, store) + 1}
           /\ llog' = [llog EXCEPT ![raft.term] = OwnLog(q, llog[raft.term])]
  BY <1>1, Proposal
<1>3. PICK l, m, n : l = Log(raft, store) /\ m = Log(q, store) /\ n = RaftLast(raft, store)
  OBVIOUS
<1>4. /\ OwnLog(q, llog[raft.term]) = m /\ DOMAIN m = 1 .. n + 1 /\ m[n + 1].term = raft.term
      /\ Agree(m, l, n)
  BY <1>1, <1>2, <1>3, RecordedLog
<1>5. llog' = [llog EXCEPT ![raft.term] = m] /\ lcommit' = lcommit /\ mine' = mine
  BY <1>2, <1>4 DEF Propose
<1>6. llog'[raft.term] = m /\ llog[raft.term] = l /\ raft.term \in mine /\ llog[raft.term] # <<>>
  BY <1>1, <1>2, <1>3, <1>5 DEF TypeInv, LogsType, ClusterInv, OwnLeader, SafeInv, NodeInv, TermInv
<1>7. Len(llog[raft.term]) = n
  <2>1. DOMAIN llog[raft.term] = 1 .. Len(llog[raft.term]) /\ Len(llog[raft.term]) \in Nat
    BY <1>1, LeaderLogs
  <2> QED BY <1>3, <1>6, <2>1, ClusterTypes
<1>8. LeaderInv' /\ LeadersMove /\ ChosenGrows
  BY <1>1, <1>4, <1>5, <1>6, <1>7, LeaderAppends
<1>9. q.ackMsgs = {}
  BY <1>1, <1>2, KeepsAcks DEF Handled, LocalInv, AckShape
<1>10. ClusterInv'
  BY <1>1, <1>2, <1>3, <1>4, <1>5, <1>6, <1>8, <1>9, ClusterLeads
<1> QED BY <1>8, <1>10

LEMMA ClusterAckQuorum ==
  ASSUME NoSnapshots, SafeInv, SafeInv', LocalInv, ClusterInv, RecvAckQuorum
  PROVE  ClusterInv' /\ ChosenGrows
<1>1. /\ TypeInv /\ TypeInv' /\ LeaderInv /\ RaftType(raft) /\ Receiving /\ pc = "recv" /\ status = "up"
      /\ raft.role = "leader" /\ raft.term = LastTerm /\ LastTerm \in Terms /\ raft.term \in Nat
      /\ lcommit \in [Terms -> Nat] /\ lcommit' \in [Terms -> Nat] /\ RaftLast(raft, store) \in Nat
  <2>1. TypeInv /\ TypeInv' /\ LeaderInv
    BY ClusterTypes, NextTyped DEF ClusterInv
  <2> QED BY <2>1, ClusterTypes, NextTyped DEF RecvAckQuorum, Receiving, TypeInv
<1>2. PICK n \in raft.committed + 1 .. RaftLast(raft, store) :
        /\ Handled([raft EXCEPT !.committed = n])
        /\ lcommit' = [lcommit EXCEPT ![raft.term] = Max({@, n})]
  BY DEF RecvAckQuorum
<1>3. /\ raft'.committed = n /\ raft'.term = raft.term /\ raft'.role = raft.role
      /\ raft'.unst = raft.unst /\ raft'.snap = raft.snap
      /\ store' = store /\ rd' = rd /\ acks' = acks /\ llog' = llog /\ mine' = mine
  BY <1>1, <1>2 DEF Handled, net, RaftType, RecvAckQuorum
<1>4. n \in Nat /\ n <= RaftLast(raft, store)
  <2>1. raft.committed \in Nat
    BY ClusterTypes
  <2> QED BY <1>1, <1>2, <2>1
<1>5. PICK l, k : l = Log(raft, store) /\ k = Max({lcommit[LastTerm], n})
  OBVIOUS
<1>6. lcommit[LastTerm] \in Nat /\ k \in Nat /\ lcommit[LastTerm] <= k /\ n <= k /\ k \in {lcommit[LastTerm], n}
  BY <1>1, <1>4, <1>5, MaxOfTwo
<1>7. /\ llog[LastTerm] = l /\ Len(llog[LastTerm]) = RaftLast(raft, store)
      /\ raft.term \in mine /\ lcommit[LastTerm] <= Len(llog[LastTerm])
  <2>1. llog[LastTerm] = l /\ raft.term \in mine
    BY <1>1, <1>5 DEF ClusterInv, OwnLeader
  <2>2. DOMAIN llog[LastTerm] = 1 .. Len(llog[LastTerm]) /\ Len(llog[LastTerm]) \in Nat
    BY <1>1, LeaderLogs
  <2>3. DOMAIN l = 1 .. RaftLast(raft, store)
    BY <1>5, ClusterTypes
  <2> QED BY <1>1, <2>1, <2>2, <2>3, CommittedInLog
<1>8. lcommit' = [lcommit EXCEPT ![LastTerm] = k] /\ k <= Len(llog[LastTerm])
  BY <1>1, <1>2, <1>4, <1>5, <1>6, <1>7
<1>9. LeaderInv' /\ LeadersMove /\ ChosenGrows /\ LastTerm' = LastTerm
  BY <1>1, <1>3, <1>6, <1>8, LeaderCommits
<1>10. Log(raft', store') = l /\ Stored(store') = Stored(store)
  BY <1>3, <1>5, LogKept
<1>11. Held(l, llog', lcommit', LastTerm', acks, raft.term, n)
  <2>1. Held(l, llog', lcommit', LastTerm', acks, raft.term, raft.committed)
    BY <1>5, <1>9, ClusterTypes, HeldStays DEF ClusterInv, HeldInv
  <2>2. Agree(l, llog'[LastTerm], n)
    <3>1. 1 .. n \subseteq DOMAIN l
      BY <1>1, <1>4, <1>5, ClusterTypes
    <3> QED BY <1>3, <1>4, <1>7, <3>1, AgreeSelf
  <2>3. n <= lcommit'[LastTerm] /\ LastTerm <= raft.term
    BY <1>1, <1>6, <1>8
  <2>4. Backed(l, llog', lcommit', raft.term, n)
    BY <1>1, <2>2, <2>3 DEF Backed
  <2> QED BY <2>1, <2>4 DEF Held
<1>12. Held(Stored(store), llog', lcommit', LastTerm', acks, store.hs.term, store.hs.commit)
  BY <1>9, ClusterTypes, HeldStays DEF ClusterInv, HeldInv
<1>13. HeldInv'
  BY <1>3, <1>10, <1>11, <1>12 DEF HeldInv
<1>14. AckTerms' /\ OwnLeader'
  BY <1>1, <1>3, <1>7, <1>10 DEF AckTerms, OwnLeader, ClusterInv
<1>15. AcksOwed'
  <2>1. raft'.ackMsgs = {} /\ rd'.ackMsgs = {}
    BY <1>1, <1>3, KeepsAcks DEF LocalInv, AckShape
  <2> QED BY <2>1 DEF AcksOwed
<1> QED BY <1>9, <1>13, <1>14, <1>15 DEF ClusterInv

\* The other nodes move; this one does not.
LEMMA ClusterOthers ==
  ASSUME NoSnapshots, SafeInv, SafeInv', LocalInv, ClusterInv, LeaderInv', LeadersMove,
         UNCHANGED <<store, volatile, mine, net>>, NEW t \in Terms, raft.role = "leader" => raft.term # t,
         \A u \in Terms : u # t => llog'[u] = llog[u]
  PROVE  ClusterInv'
<1>1. raft' = raft /\ rd' = rd /\ store' = store /\ acks' = acks /\ mine' = mine
  BY DEF volatile, net
<1>2. raft.role = "leader" => raft.term \in mine' /\ llog'[raft.term] = llog[raft.term]
  BY <1>1, ClusterTypes DEF ClusterInv, OwnLeader
<1>3. raft.term <= raft.term
  BY ClusterTypes
<1> QED BY <1>1, <1>2, <1>3, ClusterKept

LEMMA OthersLead ==
  ASSUME NoSnapshots, SafeInv, SafeInv', LocalInv, ClusterInv, OtherLeader
  PROVE  ClusterInv' /\ ChosenGrows
<1>1. TypeInv /\ TypeInv' /\ LeaderInv /\ LastTerm \in Terms /\ LastTerm \in Nat /\ MaxTerm \in Nat
  BY ClusterTypes, NextTyped, Bounds DEF ClusterInv
<1>2. PICK t \in LastTerm + 1 .. MaxTerm, u \in 0 .. LastTerm :
        \E n \in 0 .. Min({Len(llog[u]), MaxIndex - 1}) :
          /\ HasChosen(Slice(llog[u], 1, n))
          /\ llog' = [llog EXCEPT ![t] = Put(Slice(llog[u], 1, n), n + 1, Noop(t))]
          /\ lcommit' = [lcommit EXCEPT ![t] = lcommit[LastTerm]]
  BY DEF OtherLeader
<1>3. t \in Terms /\ u \in Terms /\ t > LastTerm /\ t # 0
  BY <1>1, <1>2 DEF Terms
<1>4. PICK g : g = llog[u]
  OBVIOUS
<1>5. LogType(g) /\ DOMAIN g = 1 .. Len(g) /\ Len(g) \in Nat
  BY <1>1, <1>3, <1>4, LeaderLogs
<1>6. PICK n \in 0 .. Min({Len(g), MaxIndex - 1}) :
          /\ HasChosen(Slice(g, 1, n))
          /\ llog' = [llog EXCEPT ![t] = Put(Slice(g, 1, n), n + 1, Noop(t))]
          /\ lcommit' = [lcommit EXCEPT ![t] = lcommit[LastTerm]]
  BY <1>2, <1>4
<1>7. n \in Nat /\ n <= Len(g)
  <2>1. Min({Len(g), MaxIndex - 1}) \in Int /\ Min({Len(g), MaxIndex - 1}) <= Len(g)
    <3>1. Len(g) \in Int /\ MaxIndex - 1 \in Int
      BY <1>5, Bounds
    <3> QED BY <3>1, MinOfIntegers
  <2> QED BY <1>5, <1>6, <2>1
<1>8. PICK l, q : l = Slice(g, 1, n) /\ q = Put(l, n + 1, Noop(t))
  OBVIOUS
<1>9. DOMAIN l = 1 .. n /\ Len(l) = n /\ \A i \in 1 .. n : l[i] = g[i]
  <2>1. DOMAIN l = 1 .. n /\ \A i \in 1 .. n : l[i] = g[i]
    BY <1>5, <1>7, <1>8 DEF Slice, Restrict
  <2>2. Len(l) = n
    BY <1>5, <1>7, <1>8, FirstEntries
  <2> QED BY <2>1, <2>2
<1>10. DOMAIN q = 1 .. n + 1 /\ q[n + 1].term = t /\ \A i \in 1 .. n : q[i] = l[i]
  <2>1. DOMAIN q = 1 .. n + 1
    BY <1>7, <1>8, <1>9 DEF Put, PutAll
  <2> QED BY <1>7, <1>8, <1>9, <2>1 DEF Put, PutAll, Noop
<1>11. Agree(q, g, n) /\ Sourced(g, llog)
  <2>1. \A i \in 1 .. n : i \in 1 .. n + 1 /\ i \in 1 .. Len(g)
    BY <1>5, <1>7
  <2> QED BY <1>1, <1>3, <1>4, <1>5, <1>9, <1>10, <2>1 DEF Agree, LeaderInv
<1>12. Agree(q, llog[LastTerm], lcommit[LastTerm])
  <2>1. /\ lcommit[LastTerm] <= Len(llog[LastTerm])
        /\ Agree(llog[LastTerm], llog[LastTerm], lcommit[LastTerm])
    BY <1>1, CommittedInLog
  <2>2. /\ Len(Chosen) = lcommit[LastTerm] /\ lcommit[LastTerm] \in Nat
        /\ \A i \in 1 .. lcommit[LastTerm] : Chosen[i] = llog[LastTerm][i]
    BY <1>1, <2>1, ChosenShape
  <2>3. lcommit[LastTerm] <= n /\ \A i \in 1 .. lcommit[LastTerm] : l[i] = Chosen[i]
    BY <1>6, <1>8, <1>9, <2>2 DEF HasChosen
  <2>4. ASSUME NEW i \in 1 .. lcommit[LastTerm]
        PROVE  i \in DOMAIN q /\ i \in DOMAIN llog[LastTerm] /\ q[i] = llog[LastTerm][i]
    <3>1. i \in 1 .. n /\ i \in 1 .. n + 1
      BY <1>7, <2>2, <2>3
    <3> QED BY <1>10, <2>1, <2>2, <2>3, <3>1 DEF Agree
  <2> QED BY <2>4 DEF Agree
<1>13. LeaderInv' /\ LeadersMove /\ ChosenGrows
  BY <1>1, <1>3, <1>6, <1>7, <1>8, <1>10, <1>11, <1>12, NewLeader
<1>14. (raft.role = "leader" => raft.term # t) /\ \A v \in Terms : v # t => llog'[v] = llog[v]
  <2>1. llog[t] = <<>>
    BY <1>1, <1>3, LastTermMax, Bounds
  <2> QED BY <1>1, <1>6, <2>1 DEF TypeInv, LogsType, SafeInv, NodeInv, TermInv
<1>15. UNCHANGED <<store, volatile, mine, net>>
  BY DEF OtherLeader
<1>16. ClusterInv'
  BY <1>3, <1>13, <1>14, <1>15, ClusterOthers
<1> QED BY <1>13, <1>16

LEMMA OthersPropose ==
  ASSUME NoSnapshots, SafeInv, SafeInv', LocalInv, ClusterInv, OtherPropose
  PROVE  ClusterInv' /\ ChosenGrows
<1>1. /\ TypeInv /\ TypeInv' /\ LeaderInv /\ LastTerm \in Terms /\ LastTerm \notin mine
      /\ llog[LastTerm] # <<>> /\ lcommit' = lcommit /\ UNCHANGED <<store, volatile, mine, net>>
  BY ClusterTypes, NextTyped DEF ClusterInv, OtherPropose
<1>2. PICK e, q :
        /\ e.term = LastTerm /\ q = Put(llog[LastTerm], Len(llog[LastTerm]) + 1, e)
        /\ llog' = [llog EXCEPT ![LastTerm] = q]
  BY <1>1, OtherProposeLog
<1>3. PICK g, n : g = llog[LastTerm] /\ n = Len(llog[LastTerm])
  OBVIOUS
<1>4. DOMAIN g = 1 .. n /\ n \in Nat
  BY <1>1, <1>3, LeaderLogs
<1>5. DOMAIN q = 1 .. n + 1 /\ q[n + 1].term = LastTerm /\ Agree(q, g, n)
  <2>1. q = Put(g, n + 1, e)
    BY <1>2, <1>3
  <2>2. DOMAIN q = 1 .. n + 1
    BY <1>4, <2>1 DEF Put, PutAll
  <2>3. q[n + 1] = e /\ \A i \in 1 .. n : q[i] = g[i]
    BY <1>4, <2>1, <2>2 DEF Put, PutAll
  <2>4. \A i \in 1 .. n : i \in 1 .. n + 1
    BY <1>4
  <2> QED BY <1>2, <1>4, <2>2, <2>3, <2>4 DEF Agree
<1>6. LeaderInv' /\ LeadersMove /\ ChosenGrows
  BY <1>1, <1>2, <1>3, <1>5, LeaderAppends
<1>7. (raft.role = "leader" => raft.term # LastTerm) /\ \A v \in Terms : v # LastTerm => llog'[v] = llog[v]
  BY <1>1, <1>2 DEF TypeInv, LogsType, ClusterInv, OwnLeader
<1>8. ClusterInv'
  BY <1>1, <1>6, <1>7, ClusterOthers
<1> QED BY <1>6, <1>8

LEMMA OthersCommit ==
  ASSUME NoSnapshots, SafeInv, SafeInv', LocalInv, ClusterInv, OtherCommit
  PROVE  ClusterInv' /\ ChosenGrows
<1>1. /\ TypeInv /\ TypeInv' /\ LeaderInv /\ LastTerm \in Terms /\ LastTerm \notin mine
      /\ llog' = llog /\ UNCHANGED <<store, volatile, mine, net>>
  BY ClusterTypes, NextTyped DEF ClusterInv, OtherCommit
<1>2. PICK n \in lcommit[LastTerm] + 1 .. Len(llog[LastTerm]) :
        lcommit' = [lcommit EXCEPT ![LastTerm] = n]
  BY DEF OtherCommit
<1>3. n \in Nat /\ lcommit[LastTerm] <= n /\ n <= Len(llog[LastTerm])
  <2>1. lcommit[LastTerm] \in Nat /\ Len(llog[LastTerm]) \in Nat
    BY <1>1, LeaderLogs
  <2> QED BY <1>2, <2>1
<1>4. LeaderInv' /\ LeadersMove /\ ChosenGrows
  BY <1>1, <1>2, <1>3, LeaderCommits
<1>5. (raft.role = "leader" => raft.term # LastTerm) /\ \A v \in Terms : v # LastTerm => llog'[v] = llog[v]
  BY <1>1 DEF ClusterInv, OwnLeader
<1>6. ClusterInv'
  BY <1>1, <1>4, <1>5, ClusterOthers
<1> QED BY <1>4, <1>6

LEMMA ClusterReady ==
  ASSUME NoSnapshots, ~Alone, SafeInv, SafeInv', LocalInv, LocalInv', ClusterInv, OnReady, Truncates
  PROVE  ClusterInv' /\ ChosenGrows
<1>1. ~RestoreSnapshot
  <2>1. raft.snap = NoSnapshot /\ HandedOut
    BY NodeLogs DEF SafeInv, NodeInv, TurnInv
  <2> QED BY <2>1 DEF RestoreSnapshot, At, HandedOut
<1>2. CASE TickAndReady \/ ApplyEntry \/ FinishLightApply
  BY <1>2, ClusterQuietReady
<1>3. CASE AppendReady
  BY <1>3, ClusterAppendReady
<1>4. CASE WriteHardState \/ WriteLightCommit
  BY <1>4, ClusterWrite
<1>5. CASE SendPersisted
  BY <1>5, ClusterSend
<1> QED BY <1>1, <1>2, <1>3, <1>4, <1>5 DEF OnReady

LEMMA ClusterReceive ==
  ASSUME NoSnapshots, ~Alone, SafeInv, SafeInv', LocalInv, ClusterInv, Receive
  PROVE  ClusterInv' /\ ChosenGrows
<1>1. ~RecvSnapshot /\ ~RpcCreateSnapshot
  BY DEF RecvSnapshot, RpcCreateSnapshot, NoSnapshots
<1>2. CASE RecvNothing \/ RecvRequestVote \/ Campaign \/ Demote
  BY <1>2, ClusterQuietReceive
<1>3. CASE RecvAppend
  BY <1>3, ClusterAppend
<1>4. CASE RecvVoteQuorum
  BY <1>4, ClusterVoteQuorum
<1>5. CASE Propose
  BY <1>5, ClusterPropose
<1>6. CASE RecvAckQuorum
  BY <1>6, ClusterAckQuorum
<1> QED BY <1>1, <1>2, <1>3, <1>4, <1>5, <1>6 DEF Receive

LEMMA ClusterNext ==
  ASSUME NoSnapshots, ~Alone, SafeInv, SafeInv', LocalInv, LocalInv', ClusterInv, [Next]_vars, Truncates
  PROVE  ClusterInv' /\ ChosenGrows
<1>1. CASE Bootstrap
  BY <1>1, ClusterBootstrap
<1>2. CASE Receive
  BY <1>2, ClusterReceive
<1>3. CASE OnReady
  BY <1>3, ClusterReady
<1>4. CASE Crash
  BY <1>4, ClusterCrash
<1>5. CASE Environment
  BY <1>5, OthersLead, OthersPropose, OthersCommit DEF Environment
<1>6. CASE UNCHANGED vars
  <2>1. UNCHANGED <<env, acks>> /\ store' = store /\ raft' = raft /\ rd' = rd /\ raft.term <= raft.term
    BY <1>6, ClusterTypes DEF vars, env
  <2> QED BY <2>1, ClusterQuiet
<1> QED BY <1>1, <1>2, <1>3, <1>4, <1>5, <1>6 DEF Next

LEMMA InitCluster == Init => ClusterInv
<1> SUFFICES ASSUME Init PROVE ClusterInv
  OBVIOUS
<1>1. /\ \A t \in Terms : llog[t] = <<>> /\ lcommit[t] = 0 /\ acks[t] = 0
      /\ acks = [t \in Terms |-> 0] /\ raft = OffRaft /\ store = EmptyStore /\ rd = NoReady
  BY DEF Init
<1>2. LeaderInv
  BY <1>1 DEF LeaderInv, Sourced
<1>3. AckTerms /\ OwnLeader /\ AcksOwed
  BY <1>1, OffRaftFacts, FreshAcks DEF AckTerms, OwnLeader, AcksOwed
<1>4. Log(raft, store) = Stored(store) /\ store.last = 0 /\ store.hs.term = 0 /\ store.hs.commit = 0
      /\ raft.term = 0 /\ raft.committed = 0
  BY <1>1, OffRaftFacts, OffCommitted, NoUnstable DEF EmptyStore, DefaultHardState
<1>5. Held(Stored(store), llog, lcommit, LastTerm, acks, 0, 0)
  <2>1. DOMAIN Stored(store) = {}
    BY <1>4 DEF Stored
  <2>2. 0 \in Terms /\ lcommit[0] = 0
    BY <1>1, Bounds DEF Terms
  <2>3. Agree(Stored(store), llog[0], 0) /\ 0 <= 0
    BY DEF Agree
  <2>4. AckedIn(Stored(store), llog, lcommit, LastTerm, acks)
    BY <1>1 DEF AckedIn
  <2> QED BY <2>1, <2>2, <2>3, <2>4 DEF Held, Sourced, Backed
<1>6. HeldInv
  BY <1>4, <1>5 DEF HeldInv
<1> QED BY <1>2, <1>3, <1>6 DEF ClusterInv

LEMMA ClusterChosen ==
  ASSUME NoSnapshots, SafeInv, LocalInv, ClusterInv
  PROVE  ChosenInv
<1>1. TypeInv /\ LeaderInv /\ LastTerm \in Terms /\ raft.committed \in Nat
  BY ClusterTypes DEF ClusterInv
<1>2. PICK l, n : l = Log(raft, store) /\ n = raft.committed
  OBVIOUS
<1>3. PICK u \in Terms : n <= lcommit[u] /\ Agree(l, llog[u], n)
  BY <1>2 DEF ClusterInv, HeldInv, Held, Backed
<1>4. /\ lcommit[u] \in Nat /\ lcommit[LastTerm] \in Nat /\ lcommit[u] <= lcommit[LastTerm]
      /\ Agree(llog[LastTerm], llog[u], lcommit[u])
  BY <1>1, NewestHasAll
<1>5. Agree(l, llog[LastTerm], n)
  <2>1. Agree(llog[LastTerm], llog[u], n)
    BY <1>1, <1>2, <1>3, <1>4, AgreeLess
  <2> QED BY <1>3, <2>1, AgreeSym, AgreeTrans
<1>6. lcommit[LastTerm] <= Len(llog[LastTerm]) /\ n <= lcommit[LastTerm]
  BY <1>1, <1>2, <1>3, <1>4, CommittedInLog
<1> QED BY <1>2, <1>5, <1>6 DEF ChosenInv

LEMMA ClusterAcked ==
  ASSUME NoSnapshots, SafeInv, LocalInv, ClusterInv
  PROVE  AckedDurable
<1>1. TypeInv /\ LeaderInv /\ LastTerm \in Terms /\ lcommit \in [Terms -> Nat] /\ acks \in [Terms -> Nat]
  BY ClusterTypes DEF ClusterInv, AckTerms
<1>2. ASSUME NEW t \in Terms, NEW i \in 1 .. Min({acks[t], lcommit[t]}) PROVE Holds(Chosen, i)
  <2>1. i \in Nat /\ i \in 1 .. acks[t] /\ i \in 1 .. lcommit[t]
    <3>1. acks[t] \in Nat /\ lcommit[t] \in Nat
      BY <1>1
    <3>2. /\ Min({acks[t], lcommit[t]}) \in Nat /\ Min({acks[t], lcommit[t]}) <= acks[t]
          /\ Min({acks[t], lcommit[t]}) <= lcommit[t]
      BY <3>1, MinOfTwo
    <3> QED BY <3>1, <3>2
  <2>2. i \in DOMAIN Stored(store) /\ Stored(store)[i] = llog[t][i]
    <3>1. i <= lcommit[t]
      BY <1>1, <2>1
    <3> QED BY <2>1, <3>1 DEF ClusterInv, HeldInv, Held, AckedIn
  <2>3. lcommit[t] <= lcommit[LastTerm] /\ llog[LastTerm][i] = llog[t][i]
    BY <1>1, <2>1, NewestHasAll DEF Agree
  <2>4. i \in 1 .. lcommit[LastTerm]
    BY <1>1, <2>1, <2>3
  <2>5. Chosen[i] = llog[LastTerm][i]
    BY <1>1, <2>4, CommittedInLog, ChosenShape
  <2>6. i \in DOMAIN store.entries /\ store.entries[i] = Stored(store)[i]
    BY <2>2, NodeLogs DEF LocalInv, Whole
  <2> QED BY <2>2, <2>3, <2>5, <2>6 DEF Holds
<1> QED BY <1>2 DEF AckedDurable

-----------------------------------------------------------------------------
(* The agreement theorems *)

\* A single node acknowledges nothing.
NoAcks == rd.ackMsgs = {} /\ \A t \in Terms : acks[t] = 0

LEMMA NoAcksNext ==
  ASSUME NoSnapshots, Alone, SafeInv, LocalInv, SingleInv, NoAcks, [Next]_vars
  PROVE  NoAcks'
<1>1. TypeInv /\ ReadyType(rd)
  BY NodeLogs DEF TypeInv
<1>2. CASE Bootstrap
  BY <1>2, BootExact, FreshAcks DEF net, NoAcks
<1>3. CASE Receive
  BY <1>3, HandlersKeep DEF net, NoAcks
<1>4. CASE TickAndReady
  <2>1. raft.ackMsgs = {}
    BY <1>4 DEF TickAndReady, At, SingleInv, LocalInv, AckShape
  <2> QED BY <1>1, <1>4, <2>1, TickAcks DEF TickAndReady, net, NoAcks
<1>5. ~RestoreSnapshot
  <2>1. raft.snap = NoSnapshot /\ HandedOut
    BY NodeLogs DEF SafeInv, NodeInv, TurnInv
  <2> QED BY <2>1 DEF RestoreSnapshot, At, HandedOut
<1>6. CASE ApplyEntry
  <2>1. \E i \in DOMAIN rd.committed : rd' = [rd EXCEPT !.committed = Restrict(@, DOMAIN @ \ {i})]
    BY <1>1, <1>6, ApplyExact
  <2>2. rd'.ackMsgs = rd.ackMsgs /\ acks' = acks
    BY <1>1, <1>6, <2>1, ApplyExact DEF ReadyType, net
  <2> QED BY <2>2 DEF NoAcks
<1>7. CASE AppendReady
  BY <1>7, AppendStores DEF net, NoAcks
<1>8. CASE WriteHardState \/ WriteLightCommit
  BY <1>8, WriteFacts DEF net, NoAcks
<1>9. CASE SendPersisted
  <2>1. rd'.ackMsgs = {}
    BY <1>9, SendHandsOut
  <2>2. ASSUME NEW t \in Terms PROVE acks'[t] = 0
    <3>1. acks'[t] = Max({acks[t]} \cup {a[2] : a \in {b \in rd.ackMsgs : b[1] = t}})
      BY <1>9 DEF SendPersisted
    <3>2. {acks[t]} \cup {a[2] : a \in {b \in rd.ackMsgs : b[1] = t}} = {0}
      BY DEF NoAcks
    <3>3. Max({0}) = 0
      BY MaxOfTwo
    <3> QED BY <3>1, <3>2, <3>3
  <2> QED BY <2>1, <2>2 DEF NoAcks
<1>10. CASE FinishLightApply
  BY <1>10, FreshAcks DEF FinishLightApply, net, NoAcks
<1>11. CASE Crash
  BY <1>11, FreshAcks DEF Crash, PowerOff, net, NoAcks
<1>12. CASE Environment
  BY <1>12 DEF Environment, OtherLeader, OtherPropose, OtherCommit, volatile, net, NoAcks
<1>13. CASE UNCHANGED vars
  BY <1>13 DEF vars, NoAcks
<1> QED BY <1>2, <1>3, <1>4, <1>5, <1>6, <1>7, <1>8, <1>9, <1>10, <1>11, <1>12, <1>13 DEF Next, OnReady

AgreementInv ==
  /\ SafeInv /\ LocalInv
  /\ Alone => SingleInv /\ NoAcks
  /\ ~Alone => ClusterInv

LEMMA AgreementChosen ==
  ASSUME NoSnapshots
  PROVE  AgreementInv => ChosenInv
BY SingleChosen, ClusterChosen DEF AgreementInv

LEMMA AgreementInit == Init => AgreementInv /\ FsmInv
<1> SUFFICES ASSUME Init PROVE AgreementInv /\ FsmInv
  OBVIOUS
<1>1. NoAcks
  BY FreshAcks DEF Init, NoAcks
<1> QED BY <1>1, InitSafe, LocalInit, InitFsm, InitSingle, InitCluster DEF AgreementInv

\* The logs agree after the step, and then the state machine follows them.
LEMMA AgreementNext ==
  ASSUME NoSnapshots, AgreementInv, FsmInv, [Next]_vars, Alone \/ Truncates
  PROVE  AgreementInv' /\ (ChosenInv' => FsmInv')
<1>1. SafeInv /\ LocalInv /\ ChosenInv
  BY AgreementChosen DEF AgreementInv
<1>2. SafeInv'
  BY <1>1, NoSnapshotsSafe, NextSafe
<1>3. LocalInv'
  BY <1>1, <1>2, LocalNext
<1>4. AgreementInv' /\ ChosenGrows
  <2>1. CASE Alone
    <3>1. SingleInv /\ NoAcks
      BY <2>1 DEF AgreementInv
    <3>2. SingleInv' /\ ChosenGrows /\ NoAcks'
      BY <1>1, <1>2, <2>1, <3>1, SingleNext, NoAcksNext
    <3> QED BY <1>2, <1>3, <2>1, <3>2 DEF AgreementInv
  <2>2. CASE ~Alone
    <3>1. ClusterInv
      BY <2>2 DEF AgreementInv
    <3>2. ClusterInv' /\ ChosenGrows
      BY <1>1, <1>2, <1>3, <2>2, <3>1, ClusterNext
    <3> QED BY <1>2, <1>3, <2>2, <3>2 DEF AgreementInv
  <2> QED BY <2>1, <2>2
<1>5. ASSUME ChosenInv' PROVE FsmInv'
  BY <1>1, <1>2, <1>3, <1>4, <1>5, FsmNext
<1> QED BY <1>4, <1>5

LEMMA AgreementHolds ==
  ASSUME NoSnapshots
  PROVE  AgreementInv /\ FsmInv => FsmFollowsChosen /\ AckedDurable
<1> SUFFICES ASSUME AgreementInv, FsmInv PROVE FsmFollowsChosen /\ AckedDurable
  OBVIOUS
<1>1. FsmFollowsChosen
  BY AgreementChosen, FsmHolds DEF AgreementInv
<1>2. CASE Alone
  <2>1. \A t \in Terms : acks[t] = 0 /\ lcommit[t] \in Nat
    BY <1>2, NodeLogs, LeaderLogs DEF AgreementInv, NoAcks
  <2>2. ASSUME NEW t \in Terms PROVE 1 .. Min({acks[t], lcommit[t]}) = {}
    <3>1. Min({0, lcommit[t]}) \in Nat /\ Min({0, lcommit[t]}) <= 0
      BY <2>1, MinOfTwo
    <3> QED BY <2>1, <3>1
  <2>3. AckedDurable
    BY <2>2 DEF AckedDurable
  <2> QED BY <1>1, <2>3
<1>3. CASE ~Alone
  BY <1>1, <1>3, ClusterAcked DEF AgreementInv
<1> QED BY <1>2, <1>3

\* The state machine of a single node without snapshots holds, at every
\* instant and through every crash and replay, exactly the committed commands
\* up to some index in log order, and at the receive point of `run` those up
\* to raft.applied.
THEOREM SingleNodeApplies ==
  ASSUME NoSnapshots, Alone
  PROVE  Spec => []FsmFollowsChosen
<1>1. AgreementInv /\ FsmInv /\ [Next]_vars => AgreementInv' /\ (ChosenInv' => FsmInv')
  BY AgreementNext
<1>2. AgreementInv => ChosenInv
  BY AgreementChosen
<1>3. AgreementInv /\ FsmInv => FsmFollowsChosen
  BY AgreementHolds
<1> QED BY AgreementInit, <1>1, <1>2, <1>3, PTL DEF Spec

\* A step of a node of a cluster that leaves nothing of a replaced suffix behind.
LEMMA AgreementStep ==
  ASSUME NoSnapshots
  PROVE  AgreementInv /\ FsmInv /\ [Next /\ Truncates]_vars
           => AgreementInv' /\ (ChosenInv' => FsmInv')
<1>1. UNCHANGED vars => Truncates
  BY DEF vars, Truncates
<1> QED BY <1>1, AgreementNext

\* The same for a node of any cluster, as long as store.append leaves no entry
\* of a replaced suffix above the entries that replace it (TruncatingSpec).
THEOREM EveryNodeApplies ==
  ASSUME NoSnapshots
  PROVE  TruncatingSpec => []FsmFollowsChosen
<1>1. AgreementInv => ChosenInv
  BY AgreementChosen
<1>2. AgreementInv /\ FsmInv => FsmFollowsChosen
  BY AgreementHolds
<1> QED BY AgreementInit, AgreementStep, <1>1, <1>2, PTL DEF TruncatingSpec

\* Under the same condition, what on_ready acknowledged to a leader that
\* committed it is in the log directory at every instant.
THEOREM AcknowledgedStays ==
  ASSUME NoSnapshots
  PROVE  TruncatingSpec => []AckedDurable
<1>1. AgreementInv => ChosenInv
  BY AgreementChosen
<1>2. AgreementInv /\ FsmInv => AckedDurable
  BY AgreementHolds
<1> QED BY AgreementInit, AgreementStep, <1>1, <1>2, PTL DEF TruncatingSpec
=============================================================================
