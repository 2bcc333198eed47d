--------------------------- MODULE RaftNodeProofs --------------------------
(***************************************************************************)
(* The type invariant of RaftNode, for every configuration: what every     *)
(* operator of the storage and of RawNode makes of arguments of the right  *)
(* type.  The types are tighter than TypeOK: indices are bounded, so that  *)
(* the sets Max and Min are taken of have one, entries have a term that is *)
(* not 0, so that no entry of a leader looks like a missing one, and the   *)
(* logs of the leaders are sequences.                                      *)
(*                                                                         *)
(* Then OneVotePerTerm, for every set of voters, both storage backends,    *)
(* every number of crashes, and with every kind of snapshot enabled.  Its  *)
(* inductive invariant says what each layer remembers of the votes that    *)
(* left the node: the store alone (a crash leaves nothing else), the       *)
(* running RawNode, and the Ready between them.                            *)
(***************************************************************************)
EXTENDS RaftNode, SetLemmas, TLAPS

Index    == 0 .. MaxIndex
Voters   == Others \cup {Self, NoVote}
LogEntry == [term : 1 .. MaxTerm, kind : {"noop"} \cup Kinds]

LogTable(f) == DOMAIN f \subseteq 1 .. MaxIndex /\ \A i \in DOMAIN f : f[i] \in LogEntry

StoredStates == [term : Terms, vote : Voters, commit : Index]

SnapshotType(x) ==
  /\ DOMAIN x = {"index", "term", "data", "conf"}
  /\ x.index \in Index /\ x.term \in Terms /\ x.conf \in Index

StoreType(s) ==
  /\ DOMAIN s = {"entries", "last", "hs", "conf", "snap"}
  /\ LogTable(s.entries) /\ s.last \in Index /\ s.hs \in StoredStates
  /\ s.conf \in Index /\ SnapshotType(s.snap)

RaftType(r) ==
  /\ DOMAIN r = {"term", "vote", "role", "lead", "unst", "snap", "committed",
                 "applied", "since", "prevHs", "voteMsgs", "ackMsgs"}
  /\ r.term \in Terms /\ r.vote \in Voters
  /\ r.role \in {"follower", "candidate", "leader"} /\ r.lead \in BOOLEAN
  /\ r.role # "follower" => r.term # 0
  /\ LogTable(r.unst) /\ SnapshotType(r.snap)
  /\ r.committed \in Index /\ r.applied \in Index /\ r.since \in Index
  /\ r.prevHs \in StoredStates

ReadyType(d) ==
  /\ DOMAIN d = {"snap", "ents", "hasHs", "hs", "committed", "voteMsgs", "ackMsgs", "commit"}
  /\ LogTable(d.ents) /\ LogTable(d.committed) /\ d.hs \in StoredStates
  /\ d.hasHs \in BOOLEAN /\ SnapshotType(d.snap) /\ d.commit \in Index

LogType(l) == l \in Seq(LogEntry) /\ Len(l) <= MaxIndex

LogsType ==
  /\ DOMAIN llog = Terms /\ \A t \in Terms : LogType(llog[t])
  /\ llog[0] = <<>>
  /\ lcommit \in [Terms -> Index] /\ mine \subseteq Terms

Places ==
  {"recv", "tick", "restore", "apply", "hardstate", "send", "lightcommit", "lightapply"}

LoopType ==
  /\ status \in {"up", "down", "dead"} /\ pc \in Places /\ crashes \in 0 .. MaxCrashes
  /\ status # "up" => raft = OffRaft /\ rd = NoReady /\ pc = "recv" /\ fsm = <<>>

TypeInv ==
  StoreType(store) /\ RaftType(raft) /\ ReadyType(rd) /\ LogsType /\ LoopType

-----------------------------------------------------------------------------
(* Numbers and tables *)

LEMMA Bounds == MaxIndex \in Nat /\ MaxTerm \in Nat /\ Terms \subseteq Nat /\ Index \subseteq Nat
BY NodeAssumption DEF Terms, Index

\* Where Max and Min are taken of the indices of a table.
LEMMA TableEnds ==
  ASSUME NEW f, LogTable(f), DOMAIN f # {}
  PROVE  /\ Max(DOMAIN f) \in DOMAIN f /\ Min(DOMAIN f) \in DOMAIN f
         /\ Max(DOMAIN f) \in 1 .. MaxIndex /\ Min(DOMAIN f) \in 1 .. MaxIndex
         /\ \A i \in DOMAIN f : Min(DOMAIN f) <= i /\ i <= Max(DOMAIN f)
<1>1. /\ MaxIndex \in Nat /\ DOMAIN f \in SUBSET (0 .. MaxIndex) /\ DOMAIN f \in SUBSET Nat
      /\ DOMAIN f \subseteq 1 .. MaxIndex
  BY Bounds DEF LogTable
<1>2. Max(DOMAIN f) \in DOMAIN f /\ \A i \in DOMAIN f : i <= Max(DOMAIN f)
  BY <1>1, BoundedMax
<1>3. Min(DOMAIN f) \in DOMAIN f /\ \A i \in DOMAIN f : Min(DOMAIN f) <= i
  BY <1>1, BoundedMin
<1> QED BY <1>1, <1>2, <1>3

\* The same with one more index, as append and RawNode take it.
LEMMA TableMaxWith ==
  ASSUME NEW f, LogTable(f), NEW n \in Index
  PROVE  /\ Max({n} \cup DOMAIN f) \in Index /\ n <= Max({n} \cup DOMAIN f)
         /\ Max({n} \cup DOMAIN f) \in {n} \cup DOMAIN f
         /\ \A i \in DOMAIN f : i <= Max({n} \cup DOMAIN f)
<1> DEFINE S == {n} \cup DOMAIN f
<1>1. MaxIndex \in Nat /\ S \in SUBSET (0 .. MaxIndex) /\ S # {} /\ n \in S
  BY Bounds DEF LogTable, Index
<1> HIDE DEF S
<1>2. Max(S) \in S /\ \A y \in S : y <= Max(S)
  BY <1>1, BoundedMax
<1> QED BY <1>1, <1>2 DEF S, Index

LEMMA NoEntriesTable == LogTable(NoEntries) /\ DOMAIN NoEntries = {}
BY DEF LogTable, NoEntries

LEMMA PutAllTable ==
  ASSUME NEW g, NEW e, LogTable(g), LogTable(e)
  PROVE  LogTable(PutAll(g, e)) /\ DOMAIN PutAll(g, e) = DOMAIN g \cup DOMAIN e
BY DEF LogTable, PutAll

LEMMA PutTable ==
  ASSUME NEW g, NEW i \in 1 .. MaxIndex, NEW e \in LogEntry, LogTable(g)
  PROVE  LogTable(Put(g, i, e)) /\ DOMAIN Put(g, i, e) = DOMAIN g \cup {i}
<1> DEFINE h == [j \in {i} |-> e]
<1>1. LogTable(h) /\ DOMAIN h = {i}
  BY DEF LogTable
<1> HIDE DEF h
<1> QED BY <1>1, PutAllTable DEF Put, h

LEMMA RestrictTable ==
  ASSUME NEW g, NEW S \in SUBSET DOMAIN g, LogTable(g)
  PROVE  LogTable(Restrict(g, S)) /\ DOMAIN Restrict(g, S) = S
BY DEF LogTable, Restrict

LEMMA SliceTable ==
  ASSUME NEW g, NEW lo, NEW hi, LogTable(g)
  PROVE  /\ LogTable(Slice(g, lo, hi))
         /\ \A i : i \in DOMAIN Slice(g, lo, hi) <=> i \in DOMAIN g /\ lo <= i /\ i <= hi
BY RestrictTable DEF Slice

-----------------------------------------------------------------------------
(* The storage *)

LEMMA FirstIndexType ==
  ASSUME NEW s, StoreType(s)
  PROVE  FirstIndex(s) \in 1 .. MaxIndex + 1 /\ FirstIndex(s) - 1 \in Index
<1>1. CASE DOMAIN s.entries = {}
  <2>1. s.snap.index \in 0 .. MaxIndex
    BY DEF StoreType, SnapshotType, Index
  <2> QED BY <1>1, <2>1, Bounds DEF FirstIndex, Index
<1>2. CASE DOMAIN s.entries # {}
  <2>1. Min(DOMAIN s.entries) \in 1 .. MaxIndex
    BY <1>2, TableEnds DEF StoreType
  <2> QED BY <1>2, <2>1, Bounds DEF FirstIndex, Index
<1> QED BY <1>1, <1>2

LEMMA CompactType ==
  ASSUME NEW s, NEW n, StoreType(s)
  PROVE  /\ StoreType(Compact(s, n))
         /\ DOMAIN Compact(s, n).entries = {i \in DOMAIN s.entries : i >= n}
<1>1. LogTable(Restrict(s.entries, {i \in DOMAIN s.entries : i >= n}))
  BY RestrictTable DEF StoreType
<1> QED BY <1>1, RestrictTable DEF StoreType, Compact

LEMMA AppendType ==
  ASSUME NEW s, NEW e, StoreType(s), LogTable(e)
  PROVE  StoreType(AppendEntries(s, e))
<1>1. LogTable(PutAll(s.entries, e)) /\ Max({s.last} \cup DOMAIN e) \in Index
  BY PutAllTable, TableMaxWith DEF StoreType
<1> QED BY <1>1 DEF AppendEntries, StoreType

LEMMA AppendTornType ==
  ASSUME NEW s, NEW e, StoreType(s), LogTable(e), NEW x \in AppendTorn(s, e)
  PROVE  StoreType(x)
<1>1. CASE Backend = "heed"
  BY <1>1 DEF AppendTorn
<1>2. CASE Backend # "heed"
  <2>1. PICK k \in DOMAIN e : x = [s EXCEPT !.entries = PutAll(@, Slice(e, 0, k))]
    BY <1>2 DEF AppendTorn
  <2>2. LogTable(PutAll(s.entries, Slice(e, 0, k)))
    BY PutAllTable, SliceTable DEF StoreType
  <2> QED BY <2>1, <2>2 DEF StoreType
<1> QED BY <1>1, <1>2

LEMMA ConfType ==
  ASSUME NEW s, NEW c \in Index, StoreType(s)
  PROVE  StoreType(SetConfState(s, c))
BY DEF StoreType, SetConfState

LEMMA CreateSnapshotType ==
  ASSUME NEW s, NEW d, NEW i \in Index, NEW t \in Terms, StoreType(s)
  PROVE  StoreType(CreateSnapshot(s, d, i, t))
<1> DEFINE x == [index |-> i, term |-> t, data |-> d, conf |-> s.conf]
<1>1. SnapshotType(x)
  BY DEF SnapshotType, StoreType
<1> HIDE DEF x
<1> QED BY <1>1 DEF CreateSnapshot, StoreType, x

LEMMA MakeSnapshotType ==
  ASSUME NEW s, NEW d, NEW i \in Index, NEW t \in Terms, StoreType(s)
  PROVE  StoreType(MakeSnapshot(s, d, i, t))
BY CompactType, CreateSnapshotType DEF MakeSnapshot

LEMMA SnapshotHardStateType ==
  ASSUME NEW s, NEW x, StoreType(s), SnapshotType(x)
  PROVE  LET h == SnapshotHardState(s, x)
         IN  /\ h \in StoredStates /\ h.commit = x.index /\ h.vote = s.hs.vote
             /\ h.term >= s.hs.term /\ h.term \in {s.hs.term, x.term}
<1>1. s.hs \in StoredStates /\ x.index \in Index /\ x.term \in Terms
  BY DEF StoreType, SnapshotType
<1>2. s.hs.term \in Terms /\ s.hs.term \in Nat /\ x.term \in Nat
  BY <1>1, Bounds DEF StoredStates
<1>3. PICK t \in Terms : t = (IF s.hs.term < x.term THEN x.term ELSE s.hs.term)
  BY <1>1, <1>2
<1>4. SnapshotHardState(s, x) = [s.hs EXCEPT !.term = t, !.commit = x.index]
  BY <1>3 DEF SnapshotHardState
<1>5. t >= s.hs.term /\ t \in {s.hs.term, x.term}
  BY <1>2, <1>3
<1>6. LET h == SnapshotHardState(s, x)
      IN  h \in StoredStates /\ h.commit = x.index /\ h.vote = s.hs.vote /\ h.term = t
  BY <1>1, <1>4 DEF StoredStates
<1> QED BY <1>5, <1>6

LEMMA ApplySnapshotType ==
  ASSUME NEW s, NEW x, StoreType(s), SnapshotType(x)
  PROVE  StoreType(ApplySnapshot(s, x))
<1>1. SnapshotHardState(s, x) \in StoredStates
  BY SnapshotHardStateType
<1> QED BY <1>1 DEF StoreType, ApplySnapshot, SnapshotType

LEMMA ApplySnapshotTornType ==
  ASSUME NEW s, NEW x, StoreType(s), SnapshotType(x), NEW y \in ApplySnapshotTorn(s, x)
  PROVE  StoreType(y)
<1> DEFINE h  == SnapshotHardState(s, x)
           s1 == [s  EXCEPT !.hs = h]
           s2 == [s1 EXCEPT !.conf = x.conf]
           s3 == [s2 EXCEPT !.last = x.index]
<1>1. y \in {s1, s2, s3}
  BY DEF ApplySnapshotTorn
<1>2. h \in StoredStates /\ x.conf \in Index /\ x.index \in Index
  BY SnapshotHardStateType DEF SnapshotType
<1> HIDE DEF h
<1>3. StoreType(s1)
  BY <1>2 DEF StoreType
<1> HIDE DEF s1
<1>4. StoreType(s2)
  BY <1>2, <1>3 DEF StoreType
<1> HIDE DEF s2
<1>5. StoreType(s3)
  BY <1>2, <1>4 DEF StoreType
<1> QED BY <1>1, <1>3, <1>4, <1>5

LEMMA BootStoreType ==
  ASSUME StoreType(store)
  PROVE  StoreType(BootStore)
BY ApplySnapshotType DEF BootStore, StoreType

LEMMA SetHardStateType ==
  ASSUME NEW s, NEW h \in StoredStates, StoreType(s)
  PROVE  StoreType(SetHardState(s, h))
BY DEF StoreType, SetHardState

LEMMA SetHardStateCommitType ==
  ASSUME NEW s, NEW n \in Index, StoreType(s)
  PROVE  StoreType(SetHardStateCommit(s, n))
BY DEF StoreType, SetHardStateCommit, StoredStates

-----------------------------------------------------------------------------
(* RawNode *)

LEMMA HardStateType ==
  ASSUME NEW r, RaftType(r)
  PROVE  HardState(r) \in StoredStates
BY DEF RaftType, HardState, StoredStates

LEMMA RaftLastType ==
  ASSUME NEW r, NEW s, RaftType(r), StoreType(s)
  PROVE  RaftLast(r, s) \in Index
<1>1. CASE DOMAIN r.unst # {}
  <2>1. Max(DOMAIN r.unst) \in 1 .. MaxIndex
    BY <1>1, TableEnds DEF RaftType
  <2> QED BY <1>1, <2>1, Bounds DEF RaftLast, Index
<1>2. CASE DOMAIN r.unst = {}
  BY <1>2 DEF RaftLast, LastIndex, RaftType, StoreType, SnapshotType
<1> QED BY <1>1, <1>2

LEMMA NoSnapshotType == SnapshotType(NoSnapshot)
BY Bounds DEF NoSnapshot, DefaultSnapshot, SnapshotType, Index, Terms

LEMMA NewRaftType ==
  ASSUME NEW s, StoreType(s)
  PROVE  RaftType(NewRaft(s))
<1>1. PICK f \in Index : f = FirstIndex(s) - 1
  BY FirstIndexType
<1>2. s.hs \in StoredStates /\ s.hs.term \in Terms /\ s.hs.vote \in Voters /\ s.hs.commit \in Index
  BY DEF StoreType, StoredStates
<1>3. PICK c \in Index : c = (IF s.hs = DefaultHardState THEN FirstIndex(s) - 1 ELSE s.hs.commit)
  BY <1>1, <1>2
<1>4. [term |-> s.hs.term, vote |-> s.hs.vote, commit |-> c] \in StoredStates
  BY <1>2 DEF StoredStates
<1>5. 0 \in Index
  BY Bounds DEF Index
<1>6. NewRaft(s) =
        [term |-> s.hs.term, vote |-> s.hs.vote, role |-> "follower", lead |-> FALSE,
         unst |-> NoEntries, snap |-> NoSnapshot, committed |-> c, applied |-> f, since |-> 0,
         prevHs |-> [term |-> s.hs.term, vote |-> s.hs.vote, commit |-> c],
         voteMsgs |-> {}, ackMsgs |-> {}]
  BY <1>1, <1>3 DEF NewRaft
<1> QED BY <1>2, <1>4, <1>5, <1>6, NoSnapshotType, NoEntriesTable DEF RaftType

LEMMA EmptyStoreType == StoreType(EmptyStore)
<1>1. 0 \in Index /\ 0 \in Terms /\ NoVote \in Voters
  BY Bounds DEF Index, Terms, Voters
<1>2. DefaultHardState \in StoredStates
  BY <1>1 DEF DefaultHardState, StoredStates
<1>3. LogTable(<<>>)
  BY DEF LogTable
<1> QED BY <1>1, <1>2, <1>3, NoSnapshotType DEF EmptyStore, StoreType, NoSnapshot

LEMMA NoReadyType == ReadyType(NoReady)
<1>1. 0 \in Index /\ DefaultHardState \in StoredStates
  BY Bounds, EmptyStoreType DEF Index, EmptyStore, StoreType
<1> QED BY <1>1, NoSnapshotType, NoEntriesTable DEF ReadyType, NoReady

LEMMA OffRaftType == RaftType(OffRaft)
BY EmptyStoreType, NewRaftType DEF OffRaft

\* r and q have the same log, and the same of it is committed and applied.
SameLog(r, q) ==
  /\ q.unst = r.unst /\ q.snap = r.snap /\ q.committed = r.committed
  /\ q.applied = r.applied /\ q.since = r.since /\ q.prevHs = r.prevHs

LEMMA StepDownType ==
  ASSUME NEW r, NEW t \in Terms, RaftType(r), t >= r.term
  PROVE  LET q == StepDown(r, t)
         IN  /\ RaftType(q) /\ q.term = t
             /\ SameLog(r, q) /\ q.role \in {"follower", r.role}
<1>1. NoVote \in Voters /\ r.term \in Nat /\ t \in Nat
  BY Bounds DEF Voters, RaftType
<1>2. CASE t > r.term
  BY <1>1, <1>2 DEF StepDown, RaftType, SameLog
<1>3. CASE t = r.term
  BY <1>1, <1>3 DEF StepDown, SameLog
<1> QED BY <1>1, <1>2, <1>3

LEMMA CandidateType ==
  ASSUME NEW r, RaftType(r), r.term < MaxTerm
  PROVE  LET q == BecomeCandidate(r, Self)
         IN  /\ RaftType(q) /\ q.term = r.term + 1 /\ q.role = "candidate"
             /\ SameLog(r, q)
<1>1. Self \in Voters /\ r.term + 1 \in Terms /\ r.term + 1 # 0
  BY Bounds DEF Voters, RaftType, Terms
<1> QED BY <1>1 DEF BecomeCandidate, RaftType, SameLog

LEMMA AppendLeaderType ==
  ASSUME NEW r, NEW s, NEW e \in LogEntry, RaftType(r), StoreType(s), RaftLast(r, s) < MaxIndex
  PROVE  /\ RaftType(AppendLeader(r, s, e))
         /\ DOMAIN AppendLeader(r, s, e).unst = DOMAIN r.unst \cup {RaftLast(r, s) + 1}
<1>1. PICK n \in 1 .. MaxIndex : n = RaftLast(r, s) + 1
  BY RaftLastType, Bounds DEF Index
<1>2. LogTable(Put(r.unst, n, e)) /\ DOMAIN Put(r.unst, n, e) = DOMAIN r.unst \cup {n}
  BY PutTable DEF RaftType
<1>3. AppendLeader(r, s, e) = [r EXCEPT !.unst = Put(r.unst, n, e)]
  BY <1>1 DEF AppendLeader
<1> QED BY <1>1, <1>2, <1>3 DEF RaftType

\* Taking over a term changes the role and adds one entry.
Leading(r) == [r EXCEPT !.role = "leader", !.lead = TRUE]

LEMMA LeadingType ==
  ASSUME NEW r, NEW s, RaftType(r), r.term # 0
  PROVE  /\ RaftType(Leading(r)) /\ RaftLast(Leading(r), s) = RaftLast(r, s)
         /\ [term |-> r.term, kind |-> "noop"] \in LogEntry
         /\ Leading(r).unst = r.unst /\ Leading(r).term = r.term
BY Bounds DEF RaftType, Leading, RaftLast, LogEntry, Terms

LEMMA BecomeLeaderType ==
  ASSUME NEW r, NEW s, RaftType(r), r.term # 0, StoreType(s), RaftLast(r, s) < MaxIndex
  PROVE  LET q == BecomeLeader(r, s)
         IN  /\ RaftType(q) /\ q.term = r.term /\ q.role = "leader"
             /\ q.snap = r.snap /\ q.committed = r.committed
             /\ q.applied = r.applied /\ q.since = r.since /\ q.prevHs = r.prevHs
             /\ q.unst = Put(r.unst, RaftLast(r, s) + 1, Noop(r.term))
             /\ DOMAIN q.unst = DOMAIN r.unst \cup {RaftLast(r, s) + 1}
<1> DEFINE e == [term |-> r.term, kind |-> "noop"]
           l == Leading(r)
           q == AppendLeader(l, s, e)
<1>1. RaftType(l) /\ RaftLast(l, s) = RaftLast(r, s) /\ e \in LogEntry /\ l.unst = r.unst
  BY LeadingType
<1>2. BecomeLeader(r, s) = q /\ e = Noop(r.term)
  BY DEF BecomeLeader, Leading, Noop
<1>3. /\ l.term = r.term /\ l.role = "leader" /\ l.snap = r.snap /\ l.committed = r.committed
      /\ l.applied = r.applied /\ l.since = r.since /\ l.prevHs = r.prevHs
  BY DEF Leading, RaftType
<1> HIDE DEF e, l
<1>4. RaftType(q) /\ DOMAIN q.unst = DOMAIN r.unst \cup {RaftLast(r, s) + 1}
  BY <1>1, AppendLeaderType
<1>5. /\ q.term = l.term /\ q.role = l.role /\ q.snap = l.snap /\ q.committed = l.committed
      /\ q.applied = l.applied /\ q.since = l.since /\ q.prevHs = l.prevHs
      /\ q.unst = Put(l.unst, RaftLast(l, s) + 1, e)
  BY <1>1 DEF AppendLeader, RaftType
<1> HIDE DEF q
<1> QED BY <1>1, <1>2, <1>3, <1>4, <1>5

LEMMA GrantVoteType ==
  ASSUME NEW r, NEW c \in Candidates, RaftType(r)
  PROVE  LET q == GrantVote(r, c)
         IN  RaftType(q) /\ q.term = r.term /\ q.role = r.role /\ SameLog(r, q)
<1>1. c \in Voters
  BY NodeAssumption DEF Voters
<1> QED BY <1>1 DEF GrantVote, RaftType, SameLog

LEMMA ConflictingTable ==
  ASSUME NEW r, NEW s, NEW e, LogTable(e)
  PROVE  LogTable(Conflicting(r, s, e)) /\ DOMAIN Conflicting(r, s, e) \subseteq DOMAIN e
<1> DEFINE bad == {i \in DOMAIN e : RaftTerm(r, s, i) # e[i].term}
<1>0. PICK lo, hi : lo = Min(bad) /\ hi = Max(DOMAIN e)
  OBVIOUS
<1> DEFINE cut == Slice(e, lo, hi)
<1>1. LogTable(cut) /\ DOMAIN cut \subseteq DOMAIN e
  BY SliceTable
<1>2. Conflicting(r, s, e) = IF bad = {} THEN NoEntries ELSE cut
  BY <1>0 DEF Conflicting
<1> HIDE DEF bad, cut
<1> QED BY <1>1, <1>2, NoEntriesTable

LEMMA TruncateTable ==
  ASSUME NEW u, NEW e, LogTable(u), LogTable(e)
  PROVE  /\ LogTable(TruncateAndAppend(u, e))
         /\ \A i : i \in DOMAIN TruncateAndAppend(u, e) <=>
                   i \in DOMAIN e \/ (i \in DOMAIN u /\ 0 <= i /\ i <= Min(DOMAIN e) - 1)
<1>0. PICK lo, hi : lo = 0 /\ hi = Min(DOMAIN e) - 1
  OBVIOUS
<1> DEFINE kept == Slice(u, lo, hi)
<1>1. /\ LogTable(kept)
      /\ \A i : i \in DOMAIN kept <=> i \in DOMAIN u /\ 0 <= i /\ i <= Min(DOMAIN e) - 1
  BY <1>0, SliceTable
<1>2. TruncateAndAppend(u, e) = PutAll(kept, e)
  BY <1>0 DEF TruncateAndAppend
<1> HIDE DEF kept
<1>3. LogTable(PutAll(kept, e)) /\ DOMAIN PutAll(kept, e) = DOMAIN kept \cup DOMAIN e
  BY <1>1, PutAllTable
<1> QED BY <1>1, <1>2, <1>3

\* The node r as a follower that knows its leader.
Following(r) == [r EXCEPT !.role = "follower", !.lead = TRUE]

LEMMA FollowingType ==
  ASSUME NEW r, RaftType(r)
  PROVE  LET q == Following(r)
         IN  RaftType(q) /\ q.term = r.term /\ q.role = "follower" /\ SameLog(r, q)
BY DEF Following, RaftType, SameLog

\* MsgAppend: either the log stays, or it gets the new entries and the commit
\* index follows the leader's.
Appended(r, s, e, last, commit, q) ==
  /\ q.unst = IF DOMAIN Conflicting(r, s, e) = {} THEN r.unst
              ELSE TruncateAndAppend(r.unst, Conflicting(r, s, e))
  /\ q.committed = Max({r.committed, Min({commit, last})})

LEMMA HandleAppendType ==
  ASSUME NEW r, NEW s, NEW prev \in Index, NEW prevTerm, NEW e, NEW commit \in Index,
         RaftType(r), LogTable(e)
  PROVE  LET q == HandleAppend(r, s, prev, prevTerm, e, commit)
         IN  /\ RaftType(q) /\ q.term = r.term /\ q.role = "follower"
             /\ q.snap = r.snap /\ q.applied = r.applied /\ q.since = r.since
             /\ q.prevHs = r.prevHs
             /\ \/ q.unst = r.unst /\ q.committed = r.committed
                \/ /\ prev >= r.committed /\ RaftTerm(Following(r), s, prev) = prevTerm
                   /\ Appended(Following(r), s, e, Max({prev} \cup DOMAIN e), commit, q)
<1> DEFINE f    == Following(r)
           new  == Conflicting(f, s, e)
           last == Max({prev} \cup DOMAIN e)
           un   == IF DOMAIN new = {} THEN f.unst ELSE TruncateAndAppend(f.unst, new)
           co   == Max({f.committed, Min({commit, last})})
           q    == HandleAppend(r, s, prev, prevTerm, e, commit)
<1>1. RaftType(f) /\ f.term = r.term /\ f.role = "follower" /\ SameLog(r, f)
  BY FollowingType
<1>2. LogTable(un)
  BY <1>1, ConflictingTable, TruncateTable DEF RaftType
<1>3. co \in Index
  <2>1. last \in Index /\ f.committed \in Index /\ Index \subseteq Nat
    BY <1>1, TableMaxWith, Bounds DEF RaftType
  <2> HIDE DEF last, f
  <2>2. Min({commit, last}) \in Index
    BY <2>1, MinOfTwo
  <2> QED BY <2>1, <2>2, MaxOfTwo
<1>4. q = IF prev < f.committed
          THEN [f EXCEPT !.ackMsgs = @ \cup {<<f.term, f.committed>>}]
          ELSE IF RaftTerm(f, s, prev) # prevTerm THEN f
          ELSE [f EXCEPT !.unst = un, !.committed = co, !.ackMsgs = @ \cup {<<f.term, last>>}]
  BY DEF HandleAppend, Following
<1>5. (~(prev < f.committed) /\ RaftTerm(f, s, prev) = prevTerm) \/ q = f
        \/ q = [f EXCEPT !.ackMsgs = @ \cup {<<f.term, f.committed>>}]
  BY <1>4
<1>6. prev \in Nat /\ r.committed \in Nat
  BY Bounds DEF RaftType
<1>7. Appended(f, s, e, last, commit, q) <=> q.unst = un /\ q.committed = co
  BY DEF Appended
<1> HIDE DEF f, new, last, un, co, q
<1>8. CASE q = f
  BY <1>1, <1>8 DEF SameLog, q
<1>9. CASE q = [f EXCEPT !.ackMsgs = @ \cup {<<f.term, f.committed>>}]
  BY <1>1, <1>9 DEF SameLog, RaftType, q
<1>10. CASE ~(prev < f.committed) /\ RaftTerm(f, s, prev) = prevTerm
  <2>1. q = [f EXCEPT !.unst = un, !.committed = co, !.ackMsgs = @ \cup {<<f.term, last>>}]
    BY <1>4, <1>10
  <2>2. /\ RaftType(q) /\ q.term = f.term /\ q.role = "follower"
        /\ q.snap = f.snap /\ q.applied = f.applied /\ q.since = f.since
        /\ q.prevHs = f.prevHs /\ q.unst = un /\ q.committed = co
    BY <1>1, <1>2, <1>3, <2>1 DEF RaftType
  <2>3. Appended(f, s, e, last, commit, q)
    BY <1>7, <2>2
  <2> QED BY <1>1, <1>6, <1>10, <2>2, <2>3 DEF SameLog, f, last, q
<1> QED BY <1>5, <1>8, <1>9, <1>10

LEMMA HandleSnapshotType ==
  ASSUME NEW r, NEW s, NEW x, RaftType(r), SnapshotType(x)
  PROVE  LET q == HandleSnapshot(r, s, x)
         IN  /\ RaftType(q) /\ q.term = r.term /\ q.role = "follower"
             /\ q.applied = r.applied /\ q.since = r.since /\ q.prevHs = r.prevHs
             /\ \/ q.unst = r.unst /\ q.snap = r.snap /\ q.committed = r.committed
                \/ /\ q.unst = r.unst /\ q.snap = r.snap /\ q.committed = x.index
                   /\ x.index >= r.committed
                   /\ RaftTerm(Following(r), s, x.index) = x.term
                \/ /\ q.unst = NoEntries /\ q.snap = x /\ q.committed = x.index
                   /\ x.index >= r.committed
<1> DEFINE f == Following(r)
           q == HandleSnapshot(r, s, x)
<1>1. RaftType(f) /\ f.term = r.term /\ f.role = "follower" /\ SameLog(r, f)
  BY FollowingType
<1>2. /\ x.index \in Index /\ x.index \in Nat /\ f.committed \in Nat
  BY <1>1, Bounds DEF SnapshotType, RaftType
<1>3. \/ q = [f EXCEPT !.ackMsgs = @ \cup {<<f.term, f.committed>>}]
      \/ /\ x.index >= f.committed /\ RaftTerm(f, s, x.index) = x.term
         /\ q = [f EXCEPT !.committed = x.index, !.ackMsgs = @ \cup {<<f.term, x.index>>}]
      \/ /\ x.index >= f.committed
         /\ q = [f EXCEPT !.unst = NoEntries, !.snap = x, !.committed = x.index,
                          !.ackMsgs = @ \cup {<<f.term, x.index>>}]
  BY <1>2 DEF HandleSnapshot, Following
<1> HIDE DEF f, q
<1>4. CASE q = [f EXCEPT !.ackMsgs = @ \cup {<<f.term, f.committed>>}]
  BY <1>1, <1>4 DEF SameLog, RaftType, q
<1>5. CASE /\ x.index >= f.committed /\ RaftTerm(f, s, x.index) = x.term
           /\ q = [f EXCEPT !.committed = x.index, !.ackMsgs = @ \cup {<<f.term, x.index>>}]
  <2>1. /\ RaftType(q) /\ q.term = f.term /\ q.role = f.role /\ q.unst = f.unst
        /\ q.snap = f.snap /\ q.committed = x.index /\ q.applied = f.applied
        /\ q.since = f.since /\ q.prevHs = f.prevHs
    BY <1>1, <1>2, <1>5 DEF RaftType
  <2> QED BY <1>1, <1>5, <2>1 DEF SameLog, q, f
<1>6. CASE /\ x.index >= f.committed
           /\ q = [f EXCEPT !.unst = NoEntries, !.snap = x, !.committed = x.index,
                            !.ackMsgs = @ \cup {<<f.term, x.index>>}]
  <2>1. /\ RaftType(q) /\ q.term = f.term /\ q.role = f.role /\ q.unst = NoEntries
        /\ q.snap = x /\ q.committed = x.index /\ q.applied = f.applied
        /\ q.since = f.since /\ q.prevHs = f.prevHs
    BY <1>1, <1>2, <1>6, NoEntriesTable DEF RaftType
  <2> QED BY <1>1, <1>6, <2>1 DEF SameLog, q, f
<1> QED BY <1>3, <1>4, <1>5, <1>6

-----------------------------------------------------------------------------
(* The Ready protocol *)

LEMMA PersistedType ==
  ASSUME NEW r, NEW s, RaftType(r), StoreType(s)
  PROVE  Persisted(r, s) \in Index
<1>1. CASE DOMAIN r.unst # {}
  <2>1. Min(DOMAIN r.unst) \in 1 .. MaxIndex
    BY <1>1, TableEnds DEF RaftType
  <2> QED BY <1>1, <2>1, Bounds DEF Persisted, Index
<1>2. CASE DOMAIN r.unst = {}
  BY <1>2, RaftLastType DEF Persisted
<1> QED BY <1>1, <1>2

\* What is handed out is in the table, committed and persisted.
LEMMA NextEntriesType ==
  ASSUME NEW r, NEW s, RaftType(r), StoreType(s)
  PROVE  /\ LogTable(NextEntries(r, s))
         /\ \A i \in DOMAIN NextEntries(r, s) :
              i \in DOMAIN s.entries /\ i <= r.committed /\ i <= Persisted(r, s)
<1> DEFINE lo  == Max({r.since + 1, FirstIndex(s)})
           hi  == Min({r.committed, Persisted(r, s)})
<1>1. LogTable(s.entries) /\ DOMAIN s.entries \subseteq Nat
  BY Bounds DEF StoreType, LogTable
<1>2. r.committed \in Nat /\ Persisted(r, s) \in Nat
  BY Bounds, PersistedType DEF RaftType
<1>3. hi \in Nat /\ hi <= r.committed /\ hi <= Persisted(r, s)
  BY <1>2, MinOfTwo
<1>0. PICK a, b : a = lo /\ b = (hi + 1) - 1
  OBVIOUS
<1> DEFINE cut == Slice(s.entries, a, b)
<1>4. NextEntries(r, s) = IF r.snap # NoSnapshot THEN NoEntries ELSE cut
  BY <1>0 DEF NextEntries, Entries
<1>6. b = hi
  BY <1>0, <1>3
<1> HIDE DEF lo, hi
<1>5. LogTable(cut) /\ \A i : i \in DOMAIN cut <=> i \in DOMAIN s.entries /\ a <= i /\ i <= b
  BY <1>1, SliceTable
<1> HIDE DEF cut
<1> QED BY <1>1, <1>2, <1>3, <1>4, <1>5, <1>6, NoEntriesTable

LEMMA SinceAfterType ==
  ASSUME NEW r, NEW e, RaftType(r), LogTable(e)
  PROVE  SinceAfter(r, e) \in Index
<1>1. CASE DOMAIN e = {}
  BY <1>1 DEF SinceAfter, RaftType
<1>2. CASE DOMAIN e # {}
  <2>1. Max(DOMAIN e) \in 1 .. MaxIndex
    BY <1>2, TableEnds
  <2> QED BY <1>2, <2>1, Bounds DEF SinceAfter, Index
<1> QED BY <1>1, <1>2

LEMMA ReadyHasType ==
  ASSUME NEW r, NEW s, RaftType(r), StoreType(s)
  PROVE  ReadyType(Ready(r, s))
<1>1. 0 \in Index /\ HasHardState(r) \in BOOLEAN
  BY Bounds DEF Index, HasHardState
<1> QED BY <1>1, NextEntriesType, HardStateType DEF Ready, ReadyType, RaftType

LEMMA TakeReadyType ==
  ASSUME NEW r, NEW d, RaftType(r), ReadyType(d)
  PROVE  LET q == TakeReady(r, d)
         IN  /\ RaftType(q) /\ q.term = r.term /\ q.vote = r.vote /\ q.role = r.role
             /\ q.unst = r.unst /\ q.snap = r.snap /\ q.committed = r.committed
             /\ q.applied = r.applied /\ q.prevHs = r.prevHs
             /\ q.since = IF d.snap # NoSnapshot THEN d.snap.index
                          ELSE SinceAfter(r, d.committed)
<1>1. PICK n \in Index : n = (IF d.snap # NoSnapshot THEN d.snap.index
                              ELSE SinceAfter(r, d.committed))
  BY SinceAfterType DEF ReadyType, SnapshotType
<1>2. TakeReady(r, d) = [r EXCEPT !.since = n, !.voteMsgs = {}, !.ackMsgs = {}]
  BY <1>1 DEF TakeReady
<1> QED BY <1>1, <1>2 DEF RaftType

LEMMA AdvanceType ==
  ASSUME NEW r, NEW s, NEW d, NEW alone \in BOOLEAN, RaftType(r), StoreType(s), ReadyType(d)
  PROVE  LET q == Advance(r, s, d, alone)
         IN  /\ RaftType(q) /\ q.term = r.term /\ q.vote = r.vote /\ q.role = r.role
             /\ q.unst = NoEntries /\ q.snap = NoSnapshot
             /\ q.prevHs = IF d.hasHs THEN d.hs ELSE r.prevHs
             /\ q.since = r.since /\ q.applied = Max({r.applied, r.since})
             /\ q.committed = IF alone /\ r.role = "leader" THEN s.last ELSE r.committed
<1>1. PICK h \in StoredStates : h = (IF d.hasHs THEN d.hs ELSE r.prevHs)
  BY DEF ReadyType, RaftType
<1> DEFINE r1 == [r EXCEPT !.unst = NoEntries, !.snap = NoSnapshot, !.prevHs = h]
<1>2. /\ RaftType(r1) /\ r1.term = r.term /\ r1.vote = r.vote /\ r1.role = r.role
      /\ r1.unst = NoEntries /\ r1.snap = NoSnapshot /\ r1.prevHs = h
      /\ r1.since = r.since /\ r1.applied = r.applied /\ r1.committed = r.committed
  BY NoEntriesTable, NoSnapshotType DEF RaftType
<1>3. PICK a \in Index : a = Max({r.applied, r.since})
  <2>1. r.applied \in Nat /\ r.since \in Nat /\ r.applied \in Index /\ r.since \in Index
    BY Bounds DEF RaftType
  <2> QED BY <2>1, MaxOfTwo
<1>4. RaftLast(r1, s) = s.last
  BY <1>2, NoEntriesTable DEF RaftLast, LastIndex
<1>5. PICK c \in Index : c = (IF alone /\ r.role = "leader" THEN s.last ELSE r.committed)
  BY DEF RaftType, StoreType
<1>6. Advance(r, s, d, alone) = [r1 EXCEPT !.applied = a, !.committed = c]
  BY <1>1, <1>2, <1>3, <1>4, <1>5 DEF Advance
<1> HIDE DEF r1
<1> QED BY <1>1, <1>2, <1>3, <1>5, <1>6 DEF RaftType

LEMMA LightReadyType ==
  ASSUME NEW r, NEW s, RaftType(r), StoreType(s)
  PROVE  LET d == LightReady(r, s)
         IN  LogTable(d.committed) /\ d.commit \in Index
<1>1. 0 \in Index
  BY Bounds DEF Index
<1> QED BY <1>1, NextEntriesType DEF LightReady, RaftType

LEMMA TakeLightReadyType ==
  ASSUME NEW r, NEW d, RaftType(r), LogTable(d.committed), d.commit \in Index
  PROVE  LET q == TakeLightReady(r, d)
         IN  /\ RaftType(q) /\ q.term = r.term /\ q.vote = r.vote /\ q.role = r.role
             /\ q.unst = r.unst /\ q.snap = r.snap /\ q.committed = r.committed
             /\ q.applied = r.applied /\ q.since = SinceAfter(r, d.committed)
             /\ q.prevHs.commit = IF d.commit # 0 THEN d.commit ELSE r.prevHs.commit
<1>1. PICK n \in Index : n = SinceAfter(r, d.committed)
  BY SinceAfterType
<1>2. PICK c \in Index : c = (IF d.commit # 0 THEN d.commit ELSE r.prevHs.commit)
  BY DEF RaftType, StoredStates
<1> DEFINE h == [r.prevHs EXCEPT !.commit = c]
<1>3. h \in StoredStates /\ h.commit = c
  BY DEF RaftType, StoredStates
<1>4. TakeLightReady(r, d) = [r EXCEPT !.since = n, !.prevHs = h]
  BY <1>1, <1>2 DEF TakeLightReady, RaftType
<1> HIDE DEF h
<1>5. PICK q : q = [r EXCEPT !.since = n, !.prevHs = h]
  OBVIOUS
<1>6. /\ RaftType(q) /\ q.term = r.term /\ q.vote = r.vote /\ q.role = r.role
      /\ q.unst = r.unst /\ q.snap = r.snap /\ q.committed = r.committed
      /\ q.applied = r.applied /\ q.since = n /\ q.prevHs = h
  BY <1>3, <1>5 DEF RaftType
<1> QED BY <1>1, <1>2, <1>3, <1>4, <1>5, <1>6

LEMMA AdvanceApplyType ==
  ASSUME NEW r, RaftType(r)
  PROVE  LET q == AdvanceApply(r)
         IN  /\ RaftType(q) /\ q.term = r.term /\ q.vote = r.vote /\ q.role = r.role
             /\ q.unst = r.unst /\ q.snap = r.snap /\ q.committed = r.committed
             /\ q.since = r.since /\ q.prevHs = r.prevHs
             /\ q.applied = Max({r.applied, r.since})
<1>1. r.applied \in Nat /\ r.since \in Nat /\ r.applied \in Index /\ r.since \in Index
  BY Bounds DEF RaftType
<1>2. Max({r.applied, r.since}) \in Index
  BY <1>1, MaxOfTwo
<1> QED BY <1>2 DEF AdvanceApply, RaftType

-----------------------------------------------------------------------------
(* The logs of the leaders *)

\* A table without a gap from 1 is a sequence.
LEMMA TableIsLog ==
  ASSUME NEW n \in Index, NEW f, f = [i \in 1 .. n |-> f[i]], \A i \in 1 .. n : f[i] \in LogEntry
  PROVE  LogType(f) /\ Len(f) = n
<1>1. n \in Nat /\ n <= MaxIndex
  BY Bounds DEF Index
<1>2. f \in [1 .. n -> LogEntry]
  OBVIOUS
<1>3. f \in Seq(LogEntry) /\ Len(f) = n
  BY <1>1, <1>2
<1> QED BY <1>1, <1>3 DEF LogType

LEMMA LogIsTable ==
  ASSUME NEW l, LogType(l)
  PROVE  /\ LogTable(l) /\ DOMAIN l = 1 .. Len(l) /\ Len(l) \in Index
         /\ l = [i \in 1 .. Len(l) |-> l[i]]
<1>1. /\ DOMAIN l = 1 .. Len(l) /\ Len(l) \in Nat /\ Len(l) <= MaxIndex
      /\ \A i \in 1 .. Len(l) : l[i] \in LogEntry
  BY DEF LogType
<1>2. l = [i \in 1 .. Len(l) |-> l[i]]
  BY DEF LogType
<1> QED BY <1>1, <1>2, Bounds DEF LogTable, Index

LEMMA OwnLogType ==
  ASSUME NEW r, NEW l, RaftType(r), r.term # 0, StoreType(store), LogType(l)
  PROVE  LogType(OwnLog(r, l)) /\ Len(OwnLog(r, l)) = RaftLast(r, store)
<1>1. PICK n \in Index : n = RaftLast(r, store)
  BY RaftLastType
<1>2. LogTable(r.unst) /\ LogTable(store.entries) /\ LogTable(l)
  BY LogIsTable DEF RaftType, StoreType
<1>3. Noop(r.term) \in LogEntry
  BY Bounds DEF RaftType, Noop, LogEntry, Terms
<1> DEFINE f == OwnLog(r, l)
<1>4. f = [i \in 1 .. n |-> IF i \in DOMAIN r.unst THEN r.unst[i]
                            ELSE IF i \in DOMAIN store.entries THEN store.entries[i]
                            ELSE IF i \in DOMAIN l THEN l[i]
                            ELSE Noop(r.term)]
  BY <1>1 DEF OwnLog
<1> HIDE DEF f
<1>5. f = [i \in 1 .. n |-> f[i]] /\ \A i \in 1 .. n : f[i] \in LogEntry
  BY <1>2, <1>3, <1>4 DEF LogTable
<1>6. LogType(f) /\ Len(f) = n
  BY <1>5, TableIsLog
<1> QED BY <1>1, <1>6 DEF f

\* One more entry at the end of a log.
LEMMA PutLast ==
  ASSUME NEW l, LogType(l), Len(l) < MaxIndex, NEW e \in LogEntry
  PROVE  LET q == Put(l, Len(l) + 1, e)
         IN  LogType(q) /\ Len(q) = Len(l) + 1 /\ q # <<>>
<1>1. PICK n \in 1 .. MaxIndex : n = Len(l) + 1 /\ n \in Index
  BY LogIsTable, Bounds DEF Index
<1> DEFINE q == Put(l, n, e)
<1>2. LogTable(l) /\ DOMAIN l = 1 .. Len(l) /\ Len(l) \in Nat
  BY LogIsTable, Bounds
<1>3. LogTable(q) /\ DOMAIN q = DOMAIN l \cup {n}
  BY <1>2, PutTable
<1>4. DOMAIN q = 1 .. n
  <2>1. n \in Nat /\ 1 .. n = (1 .. Len(l)) \cup {n}
    BY <1>1, <1>2
  <2> QED BY <1>2, <1>3, <2>1
<1>5. q = [i \in DOMAIN q |-> q[i]]
  BY DEF Put, PutAll
<1> HIDE DEF q
<1>6. q = [i \in 1 .. n |-> q[i]] /\ \A i \in 1 .. n : q[i] \in LogEntry
  BY <1>3, <1>4, <1>5 DEF LogTable
<1>7. LogType(q) /\ Len(q) = n
  BY <1>1, <1>6, TableIsLog
<1>8. q # <<>>
  BY <1>1, <1>7
<1> QED BY <1>1, <1>7, <1>8 DEF q

LEMMA FirstEntries ==
  ASSUME NEW l, LogType(l), NEW n \in 0 .. Len(l)
  PROVE  LogType(Slice(l, 1, n)) /\ Len(Slice(l, 1, n)) = n
<1> DEFINE q == Slice(l, 1, n)
<1>1. LogTable(l) /\ DOMAIN l = 1 .. Len(l) /\ Len(l) \in Index /\ Len(l) \in Nat
  BY LogIsTable, Bounds
<1>2. LogTable(q) /\ \A i : i \in DOMAIN q <=> i \in DOMAIN l /\ 1 <= i /\ i <= n
  BY <1>1, SliceTable
<1>3. DOMAIN q = 1 .. n /\ n \in Index
  <2>1. n \in Nat /\ n <= Len(l) /\ n \in Index
    BY <1>1, Bounds DEF Index
  <2>2. \A i : i \in DOMAIN q <=> i \in 1 .. n
    <3> HIDE DEF q
    <3> QED BY <1>1, <1>2, <2>1
  <2> HIDE DEF q
  <2> QED BY <2>1, <2>2
<1>4. q = [i \in DOMAIN q |-> q[i]]
  BY DEF Slice, Restrict
<1> HIDE DEF q
<1>5. q = [i \in 1 .. n |-> q[i]] /\ \A i \in 1 .. n : q[i] \in LogEntry
  BY <1>2, <1>3, <1>4 DEF LogTable
<1> QED BY <1>3, <1>5, TableIsLog DEF q

LEMMA LastTermType == LastTerm \in Terms
<1> DEFINE S == {t \in Terms : t = 0 \/ llog[t] # <<>>}
<1>1. MaxTerm \in Nat /\ S \in SUBSET (0 .. MaxTerm) /\ 0 \in S
  BY NodeAssumption DEF Terms
<1> HIDE DEF S
<1>2. Max(S) \in S
  BY <1>1, BoundedMax
<1> QED BY <1>2 DEF LastTerm, S

LEMMA SetLog ==
  ASSUME LogsType, NEW t \in Terms, NEW l, t # 0, LogType(l), llog' = [llog EXCEPT ![t] = l],
         lcommit' \in [Terms -> Index], mine' \subseteq Terms
  PROVE  LogsType'
<1>1. 0 \in Terms
  BY Bounds DEF Terms
<1> QED BY <1>1 DEF LogsType

LEMMA RecordLeaderType ==
  ASSUME TypeInv, NEW r, RaftType(r), r.term # 0, RecordLeader(r)
  PROVE  LogsType'
<1>1. LastTerm \in Terms /\ LogType(llog[LastTerm]) /\ lcommit[LastTerm] \in Index /\ r.term \in Terms
  BY LastTermType DEF TypeInv, LogsType, RaftType
<1>2. LogType(OwnLog(r, llog[LastTerm]))
  BY <1>1, OwnLogType DEF TypeInv
<1>3. lcommit' \in [Terms -> Index] /\ mine' \subseteq Terms
  BY <1>1 DEF RecordLeader, TypeInv, LogsType
<1> QED BY <1>1, <1>2, <1>3, SetLog DEF RecordLeader, TypeInv

-----------------------------------------------------------------------------
(* Steps, grouped by what they may change *)

LEMMA SameLogs ==
  ASSUME LogsType, UNCHANGED env
  PROVE  LogsType'
BY DEF LogsType, env

LEMMA UpStep ==
  ASSUME TypeInv, status' = "up", crashes' = crashes, pc' \in Places, StoreType(store'),
         RaftType(raft'), ReadyType(rd'), LogsType'
  PROVE  TypeInv'
BY DEF TypeInv, LoopType

LEMMA HandledStep ==
  ASSUME TypeInv, Receiving, NEW r, RaftType(r), Handled(r), LogsType'
  PROVE  TypeInv'
BY UpStep DEF TypeInv, Receiving, Handled, Places

LEMMA DownStep ==
  ASSUME TypeInv, PowerOff, status' \in {"down", "dead"}, crashes' \in 0 .. MaxCrashes,
         StoreType(store'), UNCHANGED env
  PROVE  TypeInv'
<1>1. LogsType'
  BY SameLogs DEF TypeInv
<1>2. RaftType(raft') /\ ReadyType(rd')
  BY OffRaftType, NoReadyType DEF PowerOff
<1> QED BY <1>1, <1>2 DEF TypeInv, LoopType, PowerOff, Places

LEMMA PanicStep ==
  ASSUME TypeInv, Panic
  PROVE  TypeInv'
BY DownStep DEF Panic, TypeInv, LoopType

-----------------------------------------------------------------------------
(* One lemma per action *)

\* A single node that starts becomes leader of the next term.
LEMMA OwnTerm ==
  ASSUME StoreType(store), NEW b, b = BootStore, b.hs.term < MaxTerm, b.last < MaxIndex
  PROVE  LET n == NewRaft(b)
             r == BecomeLeader(BecomeCandidate(n, Self), b)
         IN  /\ RaftType(n) /\ RaftType(r) /\ r.term = b.hs.term + 1 /\ r.term # 0
             /\ r.role = "leader" /\ r.snap = NoSnapshot /\ r.committed = n.committed
             /\ r.applied = n.applied /\ r.since = n.since /\ r.prevHs = n.prevHs
             /\ DOMAIN r.unst = {b.last + 1}
             /\ r.unst = Put(NoEntries, b.last + 1, Noop(r.term))
<1> DEFINE n == NewRaft(b)
           c == BecomeCandidate(n, Self)
           r == BecomeLeader(c, b)
<1>1. StoreType(b) /\ RaftType(n) /\ n.term = b.hs.term /\ n.unst = NoEntries /\ n.snap = NoSnapshot
  BY BootStoreType, NewRaftType DEF NewRaft
<1> HIDE DEF n
<1>2. /\ RaftType(c) /\ c.term = b.hs.term + 1 /\ c.unst = NoEntries /\ c.snap = NoSnapshot
      /\ SameLog(n, c)
  BY <1>1, CandidateType DEF SameLog
<1>3. c.term # 0
  <2>1. b.hs.term \in Terms
    BY <1>1 DEF StoreType, StoredStates
  <2>2. b.hs.term \in Nat
    BY <2>1, Bounds
  <2> HIDE DEF c
  <2> QED BY <1>2, <2>2
<1> HIDE DEF c
<1>4. RaftLast(c, b) = b.last /\ DOMAIN c.unst = {}
  BY <1>2, NoEntriesTable DEF RaftLast, LastIndex
<1>5. /\ RaftType(r) /\ r.term = c.term /\ r.role = "leader"
      /\ r.snap = c.snap /\ r.committed = c.committed
      /\ r.applied = c.applied /\ r.since = c.since /\ r.prevHs = c.prevHs
      /\ r.unst = Put(c.unst, b.last + 1, Noop(c.term))
      /\ DOMAIN r.unst = {b.last + 1}
  BY <1>1, <1>2, <1>3, <1>4, BecomeLeaderType
<1> HIDE DEF r
<1> QED BY <1>1, <1>2, <1>3, <1>5 DEF SameLog, n, c, r

LEMMA BootstrapStep ==
  ASSUME TypeInv, Bootstrap
  PROVE  TypeInv'
<1>1. CASE NewPanics(BootStore)
  BY <1>1, PanicStep DEF Bootstrap
<1>2. CASE ~NewPanics(BootStore)
  <2>1. PICK b : b = BootStore /\ StoreType(b)
    BY BootStoreType DEF TypeInv
  <2>2. /\ status' = "up" /\ store' = b /\ rd' = NoReady /\ pc' = "recv" /\ crashes' = crashes
    BY <1>2, <2>1 DEF Bootstrap
  <2>3. CASE Alone
    <3>1. PICK r : r = BecomeLeader(BecomeCandidate(NewRaft(b), Self), b)
      OBVIOUS
    <3>2. r.term <= MaxTerm /\ b.last < MaxIndex /\ raft' = r /\ RecordLeader(r)
      BY <1>2, <2>1, <2>3, <3>1 DEF Bootstrap, LastIndex
    <3>3. b.hs.term < MaxTerm
      <4>1. b.hs.term \in Nat /\ r.term = b.hs.term + 1
        BY <2>1, <3>1, Bounds DEF StoreType, StoredStates, BecomeLeader, AppendLeader,
           BecomeCandidate, NewRaft
      <4> QED BY <3>2, <4>1, Bounds
    <3>4. RaftType(r) /\ r.term # 0
      BY <2>1, <3>1, <3>2, <3>3, OwnTerm DEF TypeInv
    <3>5. LogsType'
      BY <3>2, <3>4, RecordLeaderType
    <3> QED BY <2>1, <2>2, <3>2, <3>4, <3>5, UpStep, NoReadyType DEF Places
  <2>4. CASE ~Alone
    <3>1. raft' = NewRaft(b) /\ UNCHANGED env
      BY <1>2, <2>1, <2>4 DEF Bootstrap
    <3>2. RaftType(raft') /\ LogsType'
      BY <2>1, <3>1, NewRaftType, SameLogs DEF TypeInv
    <3> QED BY <2>1, <2>2, <3>2, UpStep, NoReadyType DEF Places
  <2> QED BY <2>3, <2>4
<1> QED BY <1>1, <1>2

LEMMA RecvNothingStep ==
  ASSUME TypeInv, RecvNothing
  PROVE  TypeInv'
BY HandledStep, SameLogs DEF RecvNothing, TypeInv

\* The message of RecvAppend, and what becomes of the node that handles it.
AppendFrom(t, prev, prevTerm, ents, commit) ==
  IF AppendConflictPanics(StepDown(raft, t), store, prev, prevTerm, ents)
  THEN Panic
  ELSE /\ Handled(HandleAppend(StepDown(raft, t), store, prev, prevTerm, ents, commit))
       /\ UNCHANGED env

LEMMA AppendMessage ==
  ASSUME TypeInv, RecvAppend
  PROVE  \E t \in Terms \ mine, prev \in Index, last \in Index, commit \in Index :
           /\ llog[t] # <<>> /\ t >= raft.term
           /\ prev <= last /\ last <= Len(llog[t]) /\ commit <= last /\ commit <= lcommit[t]
           /\ AppendFrom(t, prev, IF prev = 0 THEN 0 ELSE llog[t][prev].term,
                         Slice(llog[t], prev + 1, last), commit)
<1>1. PICK t \in Terms \ mine :
        /\ llog[t] # <<>> /\ t >= raft.term
        /\ \E prev \in 0 .. Len(llog[t]) : \E last \in prev .. Len(llog[t]) :
           \E commit \in 0 .. Min({lcommit[t], last}) :
             AppendFrom(t, prev, IF prev = 0 THEN 0 ELSE llog[t][prev].term,
                        Slice(llog[t], prev + 1, last), commit)
  BY DEF RecvAppend, AppendFrom
<1>2. PICK prev \in 0 .. Len(llog[t]) : \E last \in prev .. Len(llog[t]) :
        \E commit \in 0 .. Min({lcommit[t], last}) :
             AppendFrom(t, prev, IF prev = 0 THEN 0 ELSE llog[t][prev].term,
                        Slice(llog[t], prev + 1, last), commit)
  BY <1>1
<1>3. PICK last \in prev .. Len(llog[t]) : \E commit \in 0 .. Min({lcommit[t], last}) :
             AppendFrom(t, prev, IF prev = 0 THEN 0 ELSE llog[t][prev].term,
                        Slice(llog[t], prev + 1, last), commit)
  BY <1>2
<1>4. PICK commit \in 0 .. Min({lcommit[t], last}) :
             AppendFrom(t, prev, IF prev = 0 THEN 0 ELSE llog[t][prev].term,
                        Slice(llog[t], prev + 1, last), commit)
  BY <1>3
<1>5. Len(llog[t]) \in Nat /\ Len(llog[t]) <= MaxIndex /\ lcommit[t] \in Nat
  <2>1. LogType(llog[t]) /\ lcommit[t] \in Index
    BY DEF TypeInv, LogsType
  <2>2. Len(llog[t]) \in Index
    BY <2>1, LogIsTable
  <2> QED BY <2>1, <2>2, Bounds DEF Index
<1>6. prev \in Index /\ last \in Index /\ last \in Nat /\ prev <= last /\ last <= Len(llog[t])
  BY <1>5, Bounds DEF Index
<1>7. commit \in Index /\ commit <= last /\ commit <= lcommit[t]
  <2>1. /\ Min({lcommit[t], last}) \in Nat /\ Min({lcommit[t], last}) <= last
        /\ Min({lcommit[t], last}) <= lcommit[t]
    BY <1>5, <1>6, MinOfTwo
  <2> QED BY <1>5, <1>6, <2>1, Bounds DEF Index
<1> QED BY <1>1, <1>4, <1>6, <1>7

LEMMA RecvAppendStep ==
  ASSUME TypeInv, RecvAppend
  PROVE  TypeInv'
<1>1. PICK t \in Terms \ mine, prev \in Index, last \in Index, commit \in Index :
           /\ llog[t] # <<>> /\ t >= raft.term
           /\ prev <= last /\ last <= Len(llog[t]) /\ commit <= last
           /\ AppendFrom(t, prev, IF prev = 0 THEN 0 ELSE llog[t][prev].term,
                         Slice(llog[t], prev + 1, last), commit)
  BY AppendMessage
<1>2. PICK pt, e : pt = (IF prev = 0 THEN 0 ELSE llog[t][prev].term) /\ e = Slice(llog[t], prev + 1, last)
  OBVIOUS
<1> DEFINE r == StepDown(raft, t)
           q == HandleAppend(r, store, prev, pt, e, commit)
<1>3. Panic \/ (Handled(q) /\ UNCHANGED env)
  BY <1>1, <1>2 DEF AppendFrom
<1>4. LogTable(e)
  BY <1>2, SliceTable, LogIsTable DEF TypeInv, LogsType
<1>5. RaftType(r)
  BY <1>1, StepDownType DEF TypeInv
<1> HIDE DEF r
<1>6. RaftType(q)
  BY <1>4, <1>5, HandleAppendType
<1> HIDE DEF q
<1>7. Receiving
  BY DEF RecvAppend
<1>8. UNCHANGED env => LogsType'
  BY SameLogs DEF TypeInv
<1> QED BY <1>3, <1>6, <1>7, <1>8, PanicStep, HandledStep

LEMMA ConfImageType ==
  ASSUME NEW l, NEW n \in Index
  PROVE  ConfImage(l, n) \in Index
<1> DEFINE S == {0} \cup {i \in 1 .. n : l[i].kind \in {"conf", "leave"}}
<1>1. MaxIndex \in Nat /\ S \in SUBSET (0 .. MaxIndex) /\ S # {}
  BY Bounds DEF Index
<1>2. ConfImage(l, n) = Max(S)
  BY DEF ConfImage
<1> HIDE DEF S
<1>3. Max(S) \in S
  BY <1>1, BoundedMax
<1> QED BY <1>1, <1>2, <1>3 DEF Index

\* The snapshot of the leader of term t at index n.
Sent(t, n) ==
  [index |-> n, term |-> llog[t][n].term, data |-> Image(llog[t], n), conf |-> ConfImage(llog[t], n)]

LEMMA SnapshotMessage ==
  ASSUME TypeInv, RecvSnapshot
  PROVE  \E t \in Terms \ mine, n \in Index :
           /\ llog[t] # <<>> /\ t >= raft.term /\ n \in DOMAIN llog[t]
           /\ SnapshotType(Sent(t, n)) /\ Sent(t, n).term = llog[t][n].term /\ Sent(t, n).index = n
           /\ Handled(HandleSnapshot(StepDown(raft, t), store, Sent(t, n)))
           /\ UNCHANGED env
<1>1. PICK t \in Terms \ mine :
        /\ llog[t] # <<>> /\ t >= raft.term
        /\ \E n \in DOMAIN llog[t] :
             Handled(HandleSnapshot(StepDown(raft, t), store, Sent(t, n)))
  BY DEF RecvSnapshot, Sent
<1>2. PICK n \in DOMAIN llog[t] : Handled(HandleSnapshot(StepDown(raft, t), store, Sent(t, n)))
  BY <1>1
<1>3. LogTable(llog[t])
  BY LogIsTable DEF TypeInv, LogsType
<1>4. n \in Index /\ llog[t][n].term \in Terms
  BY <1>3, Bounds DEF LogTable, LogEntry, Index, Terms
<1>5. SnapshotType(Sent(t, n)) /\ Sent(t, n).term = llog[t][n].term /\ Sent(t, n).index = n
  BY <1>4, ConfImageType DEF SnapshotType, Sent
<1> QED BY <1>1, <1>2, <1>4, <1>5 DEF RecvSnapshot

LEMMA RecvSnapshotStep ==
  ASSUME TypeInv, RecvSnapshot
  PROVE  TypeInv'
<1>1. PICK t \in Terms \ mine, n \in Index :
           /\ llog[t] # <<>> /\ t >= raft.term /\ n \in DOMAIN llog[t]
           /\ SnapshotType(Sent(t, n)) /\ Sent(t, n).term = llog[t][n].term /\ Sent(t, n).index = n
           /\ Handled(HandleSnapshot(StepDown(raft, t), store, Sent(t, n)))
           /\ UNCHANGED env
  BY SnapshotMessage
<1>2. RaftType(StepDown(raft, t))
  BY <1>1, StepDownType DEF TypeInv
<1>3. RaftType(HandleSnapshot(StepDown(raft, t), store, Sent(t, n)))
  BY <1>1, <1>2, HandleSnapshotType
<1> QED BY <1>1, <1>3, HandledStep, SameLogs DEF TypeInv, RecvSnapshot

\* What a vote request of candidate c makes of the node.
LEMMA VoteRequest ==
  ASSUME TypeInv, RecvRequestVote
  PROVE  \E r : /\ Handled(r) /\ RaftType(r) /\ SameLog(raft, r) /\ r.term >= raft.term
                /\ r.role \in {"follower", raft.role} /\ (r.term > raft.term => r.role = "follower")
                /\ UNCHANGED env
<1>1. PICK t \in 1 .. MaxTerm, c \in Candidates, upToDate \in BOOLEAN :
        /\ t >= raft.term
        /\ LET r == StepDown(raft, t)
           IN  Handled(IF upToDate /\ CanVote(r, c) THEN GrantVote(r, c) ELSE r)
  BY DEF RecvRequestVote
<1> DEFINE r == StepDown(raft, t)
<1>2. Handled(r) \/ Handled(GrantVote(r, c))
  BY <1>1
<1>3. t \in Terms /\ raft.term \in Nat
  BY Bounds DEF Terms, TypeInv, RaftType
<1>4. /\ RaftType(r) /\ r.term = t /\ SameLog(raft, r) /\ r.role \in {"follower", raft.role}
      /\ (t > raft.term => r.role = "follower")
  <2>1. RaftType(r) /\ r.term = t /\ SameLog(raft, r) /\ r.role \in {"follower", raft.role}
    BY <1>1, <1>3, StepDownType DEF TypeInv
  <2>2. t > raft.term => r.role = "follower"
    BY DEF StepDown, TypeInv, RaftType
  <2> QED BY <2>1, <2>2
<1> HIDE DEF r
<1>5. LET q == GrantVote(r, c)
      IN  RaftType(q) /\ q.term = r.term /\ q.role = r.role /\ SameLog(r, q)
  BY <1>4, GrantVoteType
<1>6. SameLog(raft, GrantVote(r, c))
  BY <1>4, <1>5 DEF SameLog
<1>7. UNCHANGED env
  BY DEF RecvRequestVote
<1> QED BY <1>1, <1>2, <1>4, <1>5, <1>6, <1>7

LEMMA RecvRequestVoteStep ==
  ASSUME TypeInv, RecvRequestVote
  PROVE  TypeInv'
BY VoteRequest, HandledStep, SameLogs DEF TypeInv, RecvRequestVote

LEMMA RecvVoteQuorumStep ==
  ASSUME TypeInv, RecvVoteQuorum
  PROVE  TypeInv'
<1>1. PICK r : r = BecomeLeader(raft, store)
  OBVIOUS
<1>2. /\ Receiving /\ Handled(r) /\ RecordLeader(r)
      /\ raft.role = "candidate" /\ RaftLast(raft, store) < MaxIndex
  BY <1>1 DEF RecvVoteQuorum
<1>3. RaftType(r) /\ r.term # 0
  BY <1>1, <1>2, BecomeLeaderType DEF TypeInv, RaftType
<1> QED BY <1>2, <1>3, HandledStep, RecordLeaderType

LEMMA ProposalEntry ==
  ASSUME TypeInv, raft.role = "leader", NEW k \in Kinds
  PROVE  [term |-> raft.term, kind |-> k] \in LogEntry
BY Bounds DEF TypeInv, RaftType, LogEntry, Terms

\* What a proposal makes of the leader.
LEMMA Proposal ==
  ASSUME TypeInv, Propose
  PROVE  \E r : \E e \in LogEntry :
           /\ raft.role = "leader" /\ RaftLast(raft, store) < MaxIndex
           /\ e.term = raft.term /\ r = AppendLeader(raft, store, e) /\ Handled(r)
           /\ RaftType(r) /\ r.term = raft.term /\ r.role = "leader"
           /\ r.snap = raft.snap /\ r.committed = raft.committed /\ r.applied = raft.applied
           /\ r.since = raft.since /\ r.prevHs = raft.prevHs
           /\ r.unst = Put(raft.unst, RaftLast(raft, store) + 1, e)
           /\ DOMAIN r.unst = DOMAIN raft.unst \cup {RaftLast(raft, store) + 1}
           /\ llog' = [llog EXCEPT ![raft.term] = OwnLog(r, llog[raft.term])]
<1>1. PICK k \in Kinds :
        LET r == AppendLeader(raft, store, [term |-> raft.term, kind |-> k])
        IN  Handled(r) /\ llog' = [llog EXCEPT ![raft.term] = OwnLog(r, @)]
  BY DEF Propose
<1>2. raft.role = "leader" /\ RaftLast(raft, store) < MaxIndex
  BY DEF Propose
<1>3. PICK e \in LogEntry : e = [term |-> raft.term, kind |-> k]
  BY <1>2, ProposalEntry
<1>4. e.term = raft.term
  BY <1>3
<1>5. PICK r : r = AppendLeader(raft, store, e)
  OBVIOUS
<1>6. Handled(r) /\ llog' = [llog EXCEPT ![raft.term] = OwnLog(r, llog[raft.term])]
  BY <1>1, <1>3, <1>5
<1>7. RaftType(r) /\ DOMAIN r.unst = DOMAIN raft.unst \cup {RaftLast(raft, store) + 1}
  BY <1>2, <1>5, AppendLeaderType DEF TypeInv
<1>8. /\ r.term = raft.term /\ r.role = "leader"
      /\ r.snap = raft.snap /\ r.committed = raft.committed /\ r.applied = raft.applied
      /\ r.since = raft.since /\ r.prevHs = raft.prevHs
      /\ r.unst = Put(raft.unst, RaftLast(raft, store) + 1, e)
  BY <1>2, <1>5 DEF AppendLeader, TypeInv, RaftType
<1> QED BY <1>2, <1>4, <1>5, <1>6, <1>7, <1>8

LEMMA ProposeStep ==
  ASSUME TypeInv, Propose
  PROVE  TypeInv'
<1>1. PICK r : /\ raft.role = "leader" /\ Handled(r) /\ RaftType(r) /\ r.term = raft.term
               /\ llog' = [llog EXCEPT ![raft.term] = OwnLog(r, llog[raft.term])]
  BY Proposal
<1>2. raft.term \in Terms /\ raft.term # 0 /\ LogType(llog[raft.term])
  BY <1>1 DEF TypeInv, RaftType, LogsType
<1>3. LogType(OwnLog(r, llog[raft.term]))
  BY <1>1, <1>2, OwnLogType DEF TypeInv
<1>4. lcommit' \in [Terms -> Index] /\ mine' \subseteq Terms
  BY DEF Propose, TypeInv, LogsType
<1>5. LogsType'
  BY <1>1, <1>2, <1>3, <1>4, SetLog DEF TypeInv
<1> QED BY <1>1, <1>5, HandledStep DEF Propose

LEMMA AckQuorum ==
  ASSUME TypeInv, RecvAckQuorum
  PROVE  \E n \in Index :
           /\ raft.committed < n /\ n <= RaftLast(raft, store)
           /\ Handled([raft EXCEPT !.committed = n]) /\ RaftType([raft EXCEPT !.committed = n])
           /\ lcommit' \in [Terms -> Index] /\ UNCHANGED <<llog, mine>>
<1>1. PICK n \in raft.committed + 1 .. RaftLast(raft, store) :
        /\ Handled([raft EXCEPT !.committed = n])
        /\ lcommit' = [lcommit EXCEPT ![raft.term] = Max({@, n})]
  BY DEF RecvAckQuorum
<1>2. raft.committed \in Nat /\ RaftLast(raft, store) \in Index /\ raft.term \in Terms
  BY RaftLastType, Bounds DEF TypeInv, RaftType
<1>3. n \in Index /\ n \in Nat /\ raft.committed < n /\ n <= RaftLast(raft, store)
  BY <1>2, Bounds DEF Index
<1>4. RaftType([raft EXCEPT !.committed = n])
  BY <1>3 DEF TypeInv, RaftType
<1>5. lcommit[raft.term] \in Index /\ lcommit[raft.term] \in Nat /\ lcommit \in [Terms -> Index]
  BY <1>2, Bounds DEF TypeInv, LogsType
<1>6. PICK m \in Index : m = Max({lcommit[raft.term], n})
  BY <1>3, <1>5, MaxOfTwo
<1>7. lcommit' = [lcommit EXCEPT ![raft.term] = m]
  BY <1>1, <1>6
<1>8. lcommit' \in [Terms -> Index]
  BY <1>5, <1>7
<1> QED BY <1>1, <1>3, <1>4, <1>8 DEF RecvAckQuorum

LEMMA RecvAckQuorumStep ==
  ASSUME TypeInv, RecvAckQuorum
  PROVE  TypeInv'
<1>1. PICK n \in Index :
           /\ Handled([raft EXCEPT !.committed = n]) /\ RaftType([raft EXCEPT !.committed = n])
           /\ lcommit' \in [Terms -> Index] /\ UNCHANGED <<llog, mine>>
  BY AckQuorum
<1>2. LogsType'
  BY <1>1 DEF TypeInv, LogsType
<1> QED BY <1>1, <1>2, HandledStep DEF RecvAckQuorum

LEMMA CampaignStep ==
  ASSUME TypeInv, Campaign
  PROVE  TypeInv'
<1>1. RaftType(BecomeCandidate(raft, Self)) /\ LogsType'
  BY CandidateType, SameLogs DEF TypeInv, Campaign
<1> QED BY <1>1, HandledStep DEF Campaign

\* What Demote makes of the node.
LEMMA Demotion ==
  ASSUME TypeInv, Demote
  PROVE  \E r : /\ Handled(r) /\ RaftType(r) /\ SameLog(raft, r) /\ r.term >= raft.term
                /\ r.role = "follower"
<1>1. PICK t \in raft.term .. MaxTerm, known \in BOOLEAN :
        Handled([StepDown(raft, t) EXCEPT !.role = "follower", !.lead = known])
  BY DEF Demote
<1>2. t \in Terms /\ t >= raft.term
  BY Bounds DEF TypeInv, RaftType, Terms
<1> DEFINE r == StepDown(raft, t)
           q == [r EXCEPT !.role = "follower", !.lead = known]
<1>3. RaftType(r) /\ r.term = t /\ SameLog(raft, r)
  BY <1>2, StepDownType DEF TypeInv
<1> HIDE DEF r
<1>4. RaftType(q) /\ q.term = t /\ q.role = "follower" /\ SameLog(raft, q)
  BY <1>3 DEF RaftType, SameLog
<1>5. Handled(q)
  BY <1>1 DEF r
<1> HIDE DEF q
<1> QED BY <1>2, <1>4, <1>5

LEMMA DemoteStep ==
  ASSUME TypeInv, Demote
  PROVE  TypeInv'
BY Demotion, HandledStep, SameLogs DEF TypeInv, Demote

LEMMA RpcCreateSnapshotStep ==
  ASSUME TypeInv, RpcCreateSnapshot
  PROVE  TypeInv'
<1>1. store.last \in Index /\ store.hs.term \in Terms
  BY DEF TypeInv, StoreType, StoredStates
<1>2. StoreType(store')
  BY <1>1, MakeSnapshotType DEF TypeInv, RpcCreateSnapshot, LastIndex
<1>3. LogsType'
  BY SameLogs DEF TypeInv, RpcCreateSnapshot
<1>4. status' = "up" /\ pc' \in Places /\ UNCHANGED <<raft, rd, crashes>>
  BY DEF RpcCreateSnapshot, Receiving, Places
<1> QED BY <1>2, <1>3, <1>4, UpStep DEF TypeInv

LEMMA TickAndReadyStep ==
  ASSUME TypeInv, TickAndReady
  PROVE  TypeInv'
<1>1. PICK r \in TickOutcomes :
        LET new == Ready(r, store)
        IN  IF HasReady(new)
            THEN /\ rd' = new /\ raft' = TakeReady(r, new)
                 /\ pc' = IF new.snap # NoSnapshot THEN "restore" ELSE "apply"
            ELSE rd' = NoReady /\ raft' = r /\ pc' = "recv"
  BY DEF TickAndReady
<1>2. RaftType(r)
  BY CandidateType DEF TickOutcomes, TypeInv
<1>3. PICK new : new = Ready(r, store)
  OBVIOUS
<1>4. ReadyType(new)
  BY <1>2, <1>3, ReadyHasType DEF TypeInv
<1>5. RaftType(TakeReady(r, new))
  BY <1>2, <1>4, TakeReadyType
<1>6. RaftType(raft') /\ ReadyType(rd') /\ pc' \in Places
  BY <1>1, <1>2, <1>3, <1>4, <1>5, NoReadyType DEF Places
<1>7. LogsType' /\ status' = "up" /\ UNCHANGED <<store, crashes>>
  BY SameLogs DEF TickAndReady, At, TypeInv
<1> QED BY <1>6, <1>7, UpStep DEF TypeInv

LEMMA RestoreSnapshotStep ==
  ASSUME TypeInv, RestoreSnapshot
  PROVE  TypeInv'
<1>1. StoreType(store')
  BY ApplySnapshotType DEF TypeInv, ReadyType, RestoreSnapshot
<1>2. LogsType' /\ status' = "up" /\ pc' = "apply" /\ UNCHANGED <<raft, rd, crashes>>
  BY SameLogs DEF RestoreSnapshot, At, TypeInv
<1> QED BY <1>1, <1>2, UpStep DEF TypeInv, Places

\* What applying the entry at index i leaves in the store.
AppliedStores(i, entry) ==
  {store, SetConfState(store, i), MakeSnapshot(store, fsm', i, entry.term),
   MakeSnapshot(SetConfState(store, i), fsm, i, entry.term)}

LEMMA ApplyEntryFacts ==
  ASSUME TypeInv, ApplyEntry
  PROVE  \E i \in DOMAIN rd.committed :
           /\ i \in Index /\ rd.committed[i] \in LogEntry
           /\ store' \in AppliedStores(i, rd.committed[i])
           /\ store' = store \/ (store' = SetConfState(store, i) /\ rd.committed[i].kind = "leave")
                \/ (store' = MakeSnapshot(store, fsm', i, rd.committed[i].term) /\ SnapshotInterval)
                \/ (/\ store' = MakeSnapshot(SetConfState(store, i), fsm, i, rd.committed[i].term)
                    /\ rd.committed[i].kind = "conf")
           /\ rd' = [rd EXCEPT !.committed = Restrict(@, DOMAIN @ \ {i})]
           /\ ReadyType(rd') /\ DOMAIN rd'.committed \subseteq DOMAIN rd.committed
           /\ status = "up" /\ pc \in {"apply", "lightapply"}
           /\ UNCHANGED <<status, raft, pc, env, net, crashes>>
<1>1. PICK i \in DOMAIN rd.committed :
        LET entry == rd.committed[i]
        IN  SkipEmptyEntry(i, entry) \/ ApplyNormalEntry(i, entry)
              \/ ApplyConfChangeEntry(i, entry) \/ ApplyLeaveJointEntry(i, entry)
  BY DEF ApplyEntry
<1>2. PICK entry : entry = rd.committed[i]
  OBVIOUS
<1>3. LogTable(rd.committed)
  BY DEF TypeInv, ReadyType
<1>4. i \in Index /\ entry \in LogEntry
  BY <1>2, <1>3, Bounds DEF LogTable, Index
<1>5. Applying(i) /\ EntryHandled(i)
  BY <1>1 DEF SkipEmptyEntry, ApplyNormalEntry, ApplyConfChangeEntry, ApplyLeaveJointEntry
<1>6. \/ store' = store
      \/ store' = SetConfState(store, i) /\ entry.kind = "leave"
      \/ store' = MakeSnapshot(store, fsm', i, entry.term) /\ SnapshotInterval
      \/ store' = MakeSnapshot(SetConfState(store, i), fsm, i, entry.term) /\ entry.kind = "conf"
  BY <1>1, <1>2 DEF SkipEmptyEntry, ApplyNormalEntry, ApplyConfChangeEntry, ApplyLeaveJointEntry
<1> DEFINE left == Restrict(rd.committed, DOMAIN rd.committed \ {i})
<1>7. LogTable(left) /\ DOMAIN left \subseteq DOMAIN rd.committed
  BY <1>3, RestrictTable
<1>8. rd' = [rd EXCEPT !.committed = left]
  BY <1>5 DEF EntryHandled
<1> HIDE DEF left
<1>9. ReadyType(rd') /\ rd'.committed = left
  BY <1>7, <1>8 DEF TypeInv, ReadyType
<1>10. store' \in AppliedStores(i, entry)
  BY <1>6 DEF AppliedStores
<1>11. /\ status = "up" /\ pc \in {"apply", "lightapply"}
       /\ UNCHANGED <<status, raft, pc, env, net, crashes>>
       /\ rd' = [rd EXCEPT !.committed = Restrict(@, DOMAIN @ \ {i})]
  BY <1>5 DEF Applying, EntryHandled
<1> QED BY <1>2, <1>4, <1>6, <1>7, <1>9, <1>10, <1>11

LEMMA AppliedStoresType ==
  ASSUME TypeInv, NEW i \in Index, NEW entry \in LogEntry, NEW s \in AppliedStores(i, entry)
  PROVE  StoreType(s)
<1>1. entry.term \in Terms
  BY Bounds DEF LogEntry, Terms
<1>2. StoreType(store) /\ StoreType(SetConfState(store, i))
  BY ConfType DEF TypeInv
<1>3. /\ StoreType(MakeSnapshot(store, fsm', i, entry.term))
      /\ StoreType(MakeSnapshot(SetConfState(store, i), fsm, i, entry.term))
  BY <1>1, <1>2, MakeSnapshotType
<1> QED BY <1>2, <1>3 DEF AppliedStores

LEMMA ApplyEntryStep ==
  ASSUME TypeInv, ApplyEntry
  PROVE  TypeInv'
<1>1. /\ StoreType(store') /\ ReadyType(rd') /\ status = "up"
      /\ UNCHANGED <<status, raft, pc, env, crashes>>
  BY ApplyEntryFacts, AppliedStoresType
<1>2. LogsType'
  BY <1>1, SameLogs DEF TypeInv
<1> QED BY <1>1, <1>2, UpStep DEF TypeInv, LoopType

LEMMA AppendReadyStep ==
  ASSUME TypeInv, AppendReady
  PROVE  TypeInv'
<1>1. CASE AppendPanics(store, rd.ents)
  BY <1>1, PanicStep DEF AppendReady
<1>2. CASE ~AppendPanics(store, rd.ents)
  <2>1. StoreType(store')
    BY <1>2, AppendType DEF AppendReady, TypeInv, ReadyType
  <2>2. LogsType' /\ status' = "up" /\ pc' = "hardstate" /\ UNCHANGED <<raft, rd, crashes>>
    BY <1>2, SameLogs DEF AppendReady, Applied, At, TypeInv
  <2> QED BY <2>1, <2>2, UpStep DEF TypeInv, Places
<1> QED BY <1>1, <1>2

LEMMA WriteHardStateStep ==
  ASSUME TypeInv, WriteHardState
  PROVE  TypeInv'
<1>1. StoreType(store')
  BY SetHardStateType DEF WriteHardState, TypeInv, ReadyType
<1>2. LogsType' /\ status' = "up" /\ pc' = "send" /\ UNCHANGED <<raft, rd, crashes>>
  BY SameLogs DEF WriteHardState, At, TypeInv
<1> QED BY <1>1, <1>2, UpStep DEF TypeInv, Places

\* advance, its LightReady, and the state machine's second batch.
LEMMA SendFacts ==
  ASSUME TypeInv, SendPersisted
  PROVE  \E r, light :
           /\ r = Advance(raft, store, rd, Alone) /\ light = LightReady(r, store)
           /\ RaftType(r) /\ LogTable(light.committed) /\ light.commit \in Index
           /\ raft' = TakeLightReady(r, light) /\ RaftType(raft')
           /\ ReadyType(rd') /\ rd'.committed = light.committed /\ rd'.commit = light.commit
           /\ pc' = IF light.commit # 0 THEN "lightcommit" ELSE "lightapply"
           /\ lcommit' \in [Terms -> Index]
           /\ UNCHANGED <<store, status, fsm, llog, mine, crashes>>
<1>1. PICK r, light : r = Advance(raft, store, rd, Alone) /\ light = LightReady(r, store)
  OBVIOUS
<1>2. /\ raft' = TakeLightReady(r, light)
      /\ rd' = [NoReady EXCEPT !.committed = light.committed, !.commit = light.commit]
      /\ lcommit' = IF Alone THEN [lcommit EXCEPT ![r.term] = Max({@, r.committed})]
                    ELSE lcommit
      /\ pc' = IF light.commit # 0 THEN "lightcommit" ELSE "lightapply"
      /\ UNCHANGED <<store, status, fsm, llog, mine, crashes>>
  BY <1>1 DEF SendPersisted
<1>3. Alone \in BOOLEAN
  BY DEF Alone
<1>4. RaftType(r)
  BY <1>1, <1>3, AdvanceType DEF TypeInv
<1>5. LogTable(light.committed) /\ light.commit \in Index
  BY <1>1, <1>4, LightReadyType DEF TypeInv
<1>6. RaftType(raft')
  BY <1>2, <1>4, <1>5, TakeLightReadyType
<1>7. ReadyType(rd') /\ rd'.committed = light.committed /\ rd'.commit = light.commit
  BY <1>2, <1>5, NoReadyType DEF ReadyType
<1>8. lcommit' \in [Terms -> Index]
  <2>1. r.term \in Terms /\ r.committed \in Index /\ r.committed \in Nat
    BY <1>4, Bounds DEF RaftType
  <2>2. /\ lcommit \in [Terms -> Index] /\ lcommit[r.term] \in Index /\ lcommit[r.term] \in Nat
    BY <2>1, Bounds DEF TypeInv, LogsType
  <2>3. PICK m \in Index : m = Max({lcommit[r.term], r.committed})
    BY <2>1, <2>2, MaxOfTwo
  <2>4. lcommit' = IF Alone THEN [lcommit EXCEPT ![r.term] = m] ELSE lcommit
    BY <1>2, <2>3
  <2> QED BY <2>2, <2>4
<1> QED BY <1>1, <1>2, <1>4, <1>5, <1>6, <1>7, <1>8

LEMMA SendPersistedStep ==
  ASSUME TypeInv, SendPersisted
  PROVE  TypeInv'
<1>1. /\ RaftType(raft') /\ ReadyType(rd') /\ pc' \in {"lightcommit", "lightapply"}
      /\ lcommit' \in [Terms -> Index] /\ UNCHANGED <<store, status, llog, mine, crashes>>
  BY SendFacts
<1>2. LogsType' /\ status' = "up"
  BY <1>1 DEF TypeInv, LogsType, SendPersisted, At
<1> QED BY <1>1, <1>2, UpStep DEF TypeInv, Places

LEMMA WriteLightCommitStep ==
  ASSUME TypeInv, WriteLightCommit
  PROVE  TypeInv'
<1>1. StoreType(store')
  BY SetHardStateCommitType DEF WriteLightCommit, TypeInv, ReadyType
<1>2. LogsType' /\ status' = "up" /\ pc' = "lightapply" /\ UNCHANGED <<raft, rd, crashes>>
  BY SameLogs DEF WriteLightCommit, At, TypeInv
<1> QED BY <1>1, <1>2, UpStep DEF TypeInv, Places

LEMMA FinishLightApplyStep ==
  ASSUME TypeInv, FinishLightApply
  PROVE  TypeInv'
<1>1. RaftType(raft') /\ ReadyType(rd')
  BY AdvanceApplyType, NoReadyType DEF FinishLightApply, TypeInv
<1>2. LogsType' /\ status' = "up" /\ pc' = "recv" /\ UNCHANGED <<store, crashes>>
  BY SameLogs DEF FinishLightApply, Applied, At, TypeInv
<1> QED BY <1>1, <1>2, UpStep DEF TypeInv, Places

\* What a crash leaves: the store, or a torn write of what was next.
TornStores ==
  {store} \cup {s \in ApplySnapshotTorn(store, rd.snap) : pc = "restore"}
    \cup {s \in AppendTorn(store, rd.ents) : Applied("apply")}

TornApplies(i) ==
  {SetConfState(store, i), Compact(SetConfState(store, i), raft.applied),
   Compact(store, raft.applied)}

LEMMA CrashFacts ==
  ASSUME TypeInv, Crash
  PROVE  /\ status = "up" /\ status' = "down" /\ crashes' \in 0 .. MaxCrashes
         /\ PowerOff /\ UNCHANGED <<env, net>>
         /\ \/ store' \in TornStores
            \/ /\ store' = Compact(store, raft.applied)
               /\ SnapshotInterval \/ SnapshotRpc
            \/ \E i \in DOMAIN rd.committed :
                 /\ i \in Index /\ store' \in TornApplies(i)
                 /\ rd.committed[i].kind = "conf"
<1>1. crashes' \in 0 .. MaxCrashes
  BY NodeAssumption DEF Crash, TypeInv, LoopType
<1>2. store' = store \/ TornWrite
  BY DEF Crash
<1>3. CASE store' = store
  BY <1>1, <1>3 DEF Crash, TornStores
<1>4. CASE TornWrite
  <2>1. CASE pc = "restore" /\ store' \in ApplySnapshotTorn(store, rd.snap)
    BY <1>1, <2>1 DEF Crash, TornStores
  <2>2. CASE Applied("apply") /\ store' \in AppendTorn(store, rd.ents)
    BY <1>1, <2>2 DEF Crash, TornStores
  <2>3. ASSUME NEW i \in DOMAIN rd.committed, TornApply(i, rd.committed[i].kind)
        PROVE  \/ store' = Compact(store, raft.applied) /\ SnapshotInterval
               \/ i \in Index /\ store' \in TornApplies(i) /\ rd.committed[i].kind = "conf"
    <3>1. i \in Index
      BY Bounds DEF TypeInv, ReadyType, LogTable, Index
    <3> QED BY <2>3, <3>1 DEF TornApply, TornSnapshot, TornApplies
  <2>4. CASE SnapshotRpc /\ TornSnapshot(store)
    BY <1>1, <2>4 DEF Crash, TornSnapshot
  <2> QED BY <1>1, <1>4, <2>1, <2>2, <2>3, <2>4 DEF TornWrite, Crash
<1> QED BY <1>2, <1>3, <1>4

LEMMA TornStoresType ==
  ASSUME TypeInv, NEW s \in TornStores
  PROVE  StoreType(s)
BY ApplySnapshotTornType, AppendTornType DEF TornStores, TypeInv, ReadyType

LEMMA TornAppliesType ==
  ASSUME TypeInv, NEW i \in Index, NEW s \in TornApplies(i)
  PROVE  StoreType(s)
<1>1. StoreType(store) /\ StoreType(SetConfState(store, i))
  BY ConfType DEF TypeInv
<1> QED BY <1>1, CompactType DEF TornApplies

LEMMA CrashStep ==
  ASSUME TypeInv, Crash
  PROVE  TypeInv'
<1>1. StoreType(Compact(store, raft.applied))
  BY CompactType DEF TypeInv
<1>2. StoreType(store')
  BY <1>1, CrashFacts, TornStoresType, TornAppliesType
<1> QED BY <1>2, CrashFacts, DownStep

\* Another node that wins an election adds a log with a last entry of its term.
LEMMA OtherLeaderLog ==
  ASSUME TypeInv, OtherLeader
  PROVE  \E t \in Terms, u \in Terms : \E l, q :
           /\ t > LastTerm /\ u <= LastTerm /\ t # 0
           /\ LogType(l) /\ LogType(q) /\ q # <<>> /\ q = Put(l, Len(l) + 1, Noop(t))
           /\ \E n \in 0 .. Len(llog[u]) : l = Slice(llog[u], 1, n)
           /\ llog' = [llog EXCEPT ![t] = q]
<1>1. PICK t \in LastTerm + 1 .. MaxTerm, u \in 0 .. LastTerm :
        \E n \in 0 .. Min({Len(llog[u]), MaxIndex - 1}) :
          llog' = [llog EXCEPT ![t] = Put(Slice(llog[u], 1, n), n + 1, Noop(t))]
  BY DEF OtherLeader
<1>2. LastTerm \in Nat /\ LastTerm <= MaxTerm /\ MaxTerm \in Nat
  BY LastTermType, Bounds DEF Terms
<1>3. t \in Terms /\ u \in Terms /\ t > LastTerm /\ u <= LastTerm /\ t # 0
  BY <1>2 DEF Terms
<1>4. PICK n \in 0 .. Min({Len(llog[u]), MaxIndex - 1}) :
          llog' = [llog EXCEPT ![t] = Put(Slice(llog[u], 1, n), n + 1, Noop(t))]
  BY <1>1
<1>5. LogType(llog[u])
  BY <1>3 DEF TypeInv, LogsType
<1>6. Len(llog[u]) \in Nat
  BY <1>5, LogIsTable, Bounds
<1>7. n \in 0 .. Len(llog[u]) /\ n < MaxIndex
  <2>1. MaxIndex - 1 \in Int /\ Len(llog[u]) \in Int
    BY <1>6, Bounds
  <2>2. PICK m \in Int : m = Min({Len(llog[u]), MaxIndex - 1}) /\ m <= Len(llog[u]) /\ m <= MaxIndex - 1
    BY <2>1, MinOfIntegers
  <2> QED BY <1>6, <2>2, Bounds
<1>8. PICK l : l = Slice(llog[u], 1, n)
  OBVIOUS
<1>9. LogType(l) /\ Len(l) = n
  BY <1>5, <1>7, <1>8, FirstEntries
<1>10. Noop(t) \in LogEntry
  BY <1>3, Bounds DEF Noop, LogEntry, Terms
<1>11. PICK q : q = Put(l, Len(l) + 1, Noop(t))
  OBVIOUS
<1>12. LogType(q) /\ q # <<>>
  BY <1>7, <1>9, <1>10, <1>11, PutLast
<1>13. llog' = [llog EXCEPT ![t] = q]
  BY <1>4, <1>8, <1>9, <1>11
<1> QED BY <1>3, <1>7, <1>8, <1>9, <1>11, <1>12, <1>13

LEMMA OtherProposeLog ==
  ASSUME TypeInv, OtherPropose
  PROVE  \E q : \E e \in LogEntry :
           /\ LastTerm # 0 /\ LogType(q) /\ q # <<>> /\ e.term = LastTerm
           /\ q = Put(llog[LastTerm], Len(llog[LastTerm]) + 1, e)
           /\ llog' = [llog EXCEPT ![LastTerm] = q]
<1>1. PICK k \in Kinds :
        llog' = [llog EXCEPT ![LastTerm] =
                   Put(@, Len(@) + 1, [term |-> LastTerm, kind |-> k])]
  BY DEF OtherPropose
<1>2. LastTerm \in Terms /\ LastTerm # 0 /\ Len(llog[LastTerm]) < MaxIndex
  BY LastTermType DEF OtherPropose, TypeInv, LogsType
<1>3. PICK e \in LogEntry : e = [term |-> LastTerm, kind |-> k]
  <2>1. PICK t \in 1 .. MaxTerm : t = LastTerm
    BY <1>2, Bounds DEF Terms
  <2>2. [term |-> t, kind |-> k] \in LogEntry
    BY DEF LogEntry
  <2> QED BY <2>1, <2>2
<1>4. e.term = LastTerm
  BY <1>3
<1>5. LogType(llog[LastTerm])
  BY <1>2 DEF TypeInv, LogsType
<1>6. PICK q : q = Put(llog[LastTerm], Len(llog[LastTerm]) + 1, e)
  OBVIOUS
<1>7. LogType(q) /\ q # <<>>
  BY <1>2, <1>5, <1>6, PutLast
<1>8. llog' = [llog EXCEPT ![LastTerm] = q]
  BY <1>1, <1>3, <1>6
<1> QED BY <1>2, <1>4, <1>6, <1>7, <1>8

LEMMA EnvironmentStep ==
  ASSUME TypeInv, Environment
  PROVE  TypeInv'
<1>1. UNCHANGED <<store, status, volatile, mine, net, crashes>>
  BY DEF Environment, OtherLeader, OtherPropose, OtherCommit
<1>2. LogsType'
  <2>1. CASE OtherLeader
    <3>1. LastTerm \in Terms
      BY LastTermType
    <3>2. lcommit' \in [Terms -> Index]
      BY <2>1, <3>1 DEF OtherLeader, TypeInv, LogsType
    <3>3. PICK t \in Terms : \E q : t # 0 /\ LogType(q) /\ llog' = [llog EXCEPT ![t] = q]
      BY <2>1, OtherLeaderLog
    <3>4. PICK q : t # 0 /\ LogType(q) /\ llog' = [llog EXCEPT ![t] = q]
      BY <3>3
    <3> QED BY <1>1, <3>2, <3>4, SetLog DEF TypeInv, LogsType
  <2>2. CASE OtherPropose
    <3>1. PICK q : LastTerm # 0 /\ LogType(q) /\ llog' = [llog EXCEPT ![LastTerm] = q]
      BY <2>2, OtherProposeLog
    <3>2. lcommit' \in [Terms -> Index]
      BY <2>2 DEF OtherPropose, TypeInv, LogsType
    <3> QED BY <1>1, <3>1, <3>2, LastTermType, SetLog DEF TypeInv, LogsType
  <2>3. CASE OtherCommit
    <3>1. LastTerm \in Terms /\ LogType(llog[LastTerm]) /\ lcommit[LastTerm] \in Nat
      BY LastTermType, Bounds DEF TypeInv, LogsType
    <3>2. PICK n \in lcommit[LastTerm] + 1 .. Len(llog[LastTerm]) :
            lcommit' = [lcommit EXCEPT ![LastTerm] = n]
      BY <2>3 DEF OtherCommit
    <3>3. Len(llog[LastTerm]) \in Index
      BY <3>1, LogIsTable
    <3>4. n \in Index
      BY <3>1, <3>3, Bounds DEF Index
    <3>5. UNCHANGED <<llog, mine>>
      BY <2>3 DEF OtherCommit
    <3> QED BY <3>2, <3>4, <3>5 DEF TypeInv, LogsType
  <2> QED BY <2>1, <2>2, <2>3 DEF Environment
<1> QED BY <1>1, <1>2 DEF TypeInv, LoopType, volatile

-----------------------------------------------------------------------------
(* The theorem *)

LEMMA InitTypes == Init => TypeInv
<1> SUFFICES ASSUME Init PROVE TypeInv
  OBVIOUS
<1>1. 0 \in Index /\ 0 \in Terms /\ crashes \in 0 .. MaxCrashes
  BY Bounds, NodeAssumption DEF Init, Index, Terms
<1>2. LogType(<<>>)
  BY Bounds DEF LogType
<1>3. LogsType
  BY <1>1, <1>2 DEF Init, LogsType
<1> QED BY <1>1, <1>3, EmptyStoreType, OffRaftType, NoReadyType DEF Init, TypeInv, LoopType, Places

LEMMA NextTypes == TypeInv /\ [Next]_vars => TypeInv'
<1> SUFFICES ASSUME TypeInv, [Next]_vars PROVE TypeInv'
  OBVIOUS
<1>1. CASE Receive
  BY <1>1, RecvNothingStep, RecvAppendStep, RecvSnapshotStep, RecvRequestVoteStep,
     RecvVoteQuorumStep, ProposeStep, RecvAckQuorumStep, CampaignStep, DemoteStep,
     RpcCreateSnapshotStep DEF Receive
<1>2. CASE OnReady
  BY <1>2, TickAndReadyStep, RestoreSnapshotStep, ApplyEntryStep, AppendReadyStep,
     WriteHardStateStep, SendPersistedStep, WriteLightCommitStep, FinishLightApplyStep
     DEF OnReady
<1>3. CASE UNCHANGED vars
  <2>1. LogsType'
    BY <1>3, SameLogs DEF vars, env, TypeInv
  <2> QED BY <1>3, <2>1 DEF vars, TypeInv, LoopType
<1> QED BY <1>1, <1>2, <1>3, BootstrapStep, CrashStep, EnvironmentStep DEF Next

LEMMA TypesSuffice ==
  ASSUME TypeInv
  PROVE  TypeOK
<1>1. \A f : LogTable(f) => IsTable(f)
  BY Bounds, NodeAssumption DEF LogTable, LogEntry, IsTable, Entry
<1>2. \A x : SnapshotType(x) => IsSnapshot(x)
  BY Bounds DEF SnapshotType, IsSnapshot
<1>3. \A h : h \in StoredStates => h \in HardStates
  <2>1. Voters \subseteq Nat /\ Index \subseteq Int /\ Terms \subseteq Nat
    BY Bounds, NodeAssumption DEF Voters, NoVote
  <2> QED BY <2>1 DEF StoredStates, HardStates
<1>4. store.last \in Nat /\ store.conf \in Nat /\ rd.commit \in Nat
  BY Bounds DEF TypeInv, StoreType, ReadyType
<1>5. raft.committed \in Nat /\ raft.applied \in Nat /\ raft.since \in Nat
  BY Bounds DEF TypeInv, RaftType
<1> QED BY <1>1, <1>2, <1>3, <1>4, <1>5
       DEF TypeOK, TypeInv, StoreType, RaftType, ReadyType, LogsType, LoopType, Places, Voters

LEMMA TypesInvariant == Spec => []TypeInv
BY InitTypes, NextTypes, PTL DEF Spec

\* Every variable keeps its type and a node that is not running has nothing
\* volatile, with either backend and whatever the configuration: in
\* particular no index or term leaves its bound, and Max and Min are only
\* taken of sets that have one.
THEOREM TypesHold == Spec => []TypeOK
BY TypesInvariant, TypesSuffice, PTL

-----------------------------------------------------------------------------
(* Votes *)

(* Shapes: only what the argument needs, the terms and the record fields. *)

TermsOf(f) == \A i \in DOMAIN f : f[i].term \in Nat

HardStateOK(h) == DOMAIN h = {"term", "vote", "commit"} /\ h.term \in Nat

SnapshotOK(x) == x.term \in Nat

StoreOK(s) ==
  /\ DOMAIN s = {"entries", "last", "hs", "conf", "snap"}
  /\ HardStateOK(s.hs) /\ SnapshotOK(s.snap) /\ TermsOf(s.entries)

IsVote(v) == v[1] \in Nat /\ v[2] # NoVote

RaftOK(r) ==
  /\ DOMAIN r = {"term", "vote", "role", "lead", "unst", "snap", "committed",
                 "applied", "since", "prevHs", "voteMsgs", "ackMsgs"}
  /\ r.term \in Nat /\ HardStateOK(r.prevHs) /\ SnapshotOK(r.snap) /\ TermsOf(r.unst)
  /\ \A v \in r.voteMsgs : IsVote(v)

ReadyOK(d) ==
  /\ DOMAIN d = {"snap", "ents", "hasHs", "hs", "committed", "voteMsgs", "ackMsgs", "commit"}
  /\ d.hasHs \in BOOLEAN
  /\ HardStateOK(d.hs) /\ SnapshotOK(d.snap) /\ TermsOf(d.ents) /\ TermsOf(d.committed)
  /\ \A v \in d.voteMsgs : IsVote(v)

EnvOK == DOMAIN llog = Terms /\ \A t \in Terms : TermsOf(llog[t])

Shapes ==
  /\ StoreOK(store) /\ RaftOK(raft) /\ ReadyOK(rd) /\ EnvOK
  /\ \A v \in votes : IsVote(v)

(* What a hard state or a RawNode remembers of a vote: it cannot vote in   *)
(* that term again, except for the same candidate.                         *)
Remembers(h, v) == v[1] < h.term \/ (v[1] = h.term /\ v[2] = h.vote)

StoreRemembers == \A v \in votes : Remembers(store.hs, v)

RaftRemembers ==
  status = "up" => \A v \in votes \cup raft.voteMsgs \cup rd.voteMsgs : Remembers(raft, v)

\* The hard state RawNode counts as stored: the one it handed out last, or,
\* when the messages are about to leave, the one this Ready carries.
VoteHandedOut == IF pc = "send" /\ rd.hasHs THEN rd.hs ELSE raft.prevHs

\* h is g, as far as votes go, or of an older term.
NotNewer(h, g) == h.term < g.term \/ (h.term = g.term /\ h.vote = g.vote)

VoteHandedOutStored == status = "up" => NotNewer(VoteHandedOut, store.hs)

\* Inside on_ready the Ready carries the hard state, or it did not change.
ReadyCarries ==
  (status = "up" /\ pc \in {"restore", "apply", "hardstate", "send"}) =>
    /\ rd.hs.term = raft.term /\ rd.hs.vote = raft.vote
    /\ ~rd.hasHs => raft.prevHs.term = raft.term /\ raft.prevHs.vote = raft.vote

(* No two votes of one term, counting those that still wait in RawNode or  *)
(* in the Ready.                                                           *)
VotesAgree(v, w) == v[1] = w[1] => v[2] = w[2]

Promised == votes \cup raft.voteMsgs \cup rd.voteMsgs

PromisesAgree ==
  /\ OneVotePerTerm
  /\ status = "up" => \A v, w \in Promised : VotesAgree(v, w)

VoteInv ==
  /\ Shapes /\ StoreRemembers /\ RaftRemembers /\ VoteHandedOutStored /\ ReadyCarries
  /\ PromisesAgree

-----------------------------------------------------------------------------
(* Tables *)

LEMMA PutAllTerms ==
  ASSUME NEW g, NEW e, TermsOf(g), TermsOf(e)
  PROVE  TermsOf(PutAll(g, e))
BY DEF TermsOf, PutAll

LEMMA PutTerms ==
  ASSUME NEW g, NEW i, NEW e, TermsOf(g), e.term \in Nat
  PROVE  TermsOf(Put(g, i, e))
BY DEF TermsOf, PutAll, Put

LEMMA SliceTerms ==
  ASSUME NEW g, NEW lo, NEW hi, TermsOf(g)
  PROVE  TermsOf(Slice(g, lo, hi))
BY DEF TermsOf, Slice, Restrict

LEMMA RestrictTerms ==
  ASSUME NEW g, NEW S \in SUBSET DOMAIN g, TermsOf(g)
  PROVE  TermsOf(Restrict(g, S))
BY DEF TermsOf, Restrict

-----------------------------------------------------------------------------
(* Storage operations: shapes, and what they do to the hard state *)

LEMMA CompactStore ==
  ASSUME NEW s, NEW i, StoreOK(s)
  PROVE  StoreOK(Compact(s, i)) /\ Compact(s, i).hs = s.hs
BY DEF StoreOK, Compact, TermsOf, Restrict

LEMMA AppendStore ==
  ASSUME NEW s, NEW e, StoreOK(s), TermsOf(e)
  PROVE  StoreOK(AppendEntries(s, e)) /\ AppendEntries(s, e).hs = s.hs
BY PutAllTerms DEF StoreOK, AppendEntries

LEMMA AppendTornStore ==
  ASSUME NEW s, NEW e, StoreOK(s), TermsOf(e), NEW x \in AppendTorn(s, e)
  PROVE  StoreOK(x) /\ x.hs = s.hs
<1>1. CASE Backend = "heed"
  BY <1>1 DEF AppendTorn
<1>2. CASE Backend # "heed"
  <2>1. PICK k \in DOMAIN e : x = [s EXCEPT !.entries = PutAll(@, Slice(e, 0, k))]
    BY <1>2 DEF AppendTorn
  <2>2. TermsOf(PutAll(s.entries, Slice(e, 0, k)))
    BY PutAllTerms, SliceTerms DEF StoreOK
  <2> QED BY <2>1, <2>2 DEF StoreOK
<1> QED BY <1>1, <1>2

LEMMA ConfStore ==
  ASSUME NEW s, NEW c, StoreOK(s)
  PROVE  StoreOK(SetConfState(s, c)) /\ SetConfState(s, c).hs = s.hs
BY DEF StoreOK, SetConfState

LEMMA CreateSnapshotStore ==
  ASSUME NEW s, NEW d, NEW i, NEW t \in Nat, StoreOK(s)
  PROVE  StoreOK(CreateSnapshot(s, d, i, t)) /\ CreateSnapshot(s, d, i, t).hs = s.hs
BY DEF StoreOK, CreateSnapshot, SnapshotOK

LEMMA MakeSnapshotStore ==
  ASSUME NEW s, NEW d, NEW i, NEW t \in Nat, StoreOK(s)
  PROVE  StoreOK(MakeSnapshot(s, d, i, t)) /\ MakeSnapshot(s, d, i, t).hs = s.hs
BY CompactStore, CreateSnapshotStore DEF MakeSnapshot

\* apply_snapshot may raise the stored term and then keeps the vote.
Raised(h, g) ==
  HardStateOK(g) /\ g.vote = h.vote /\ g.term >= h.term

LEMMA SnapshotHardStateRaised ==
  ASSUME NEW s, NEW x, StoreOK(s), SnapshotOK(x)
  PROVE  Raised(s.hs, SnapshotHardState(s, x))
BY DEF StoreOK, SnapshotOK, SnapshotHardState, Raised, HardStateOK

LEMMA ApplySnapshotStore ==
  ASSUME NEW s, NEW x, StoreOK(s), SnapshotOK(x)
  PROVE  StoreOK(ApplySnapshot(s, x)) /\ Raised(s.hs, ApplySnapshot(s, x).hs)
BY SnapshotHardStateRaised DEF StoreOK, ApplySnapshot, Raised

LEMMA ApplySnapshotTornStore ==
  ASSUME NEW s, NEW x, StoreOK(s), SnapshotOK(x), NEW y \in ApplySnapshotTorn(s, x)
  PROVE  StoreOK(y) /\ Raised(s.hs, y.hs)
<1> DEFINE h  == SnapshotHardState(s, x)
           s1 == [s  EXCEPT !.hs = h]
           s2 == [s1 EXCEPT !.conf = x.conf]
           s3 == [s2 EXCEPT !.last = x.index]
<1>1. Backend # "heed" /\ y \in {s1, s2, s3}
  BY DEF ApplySnapshotTorn
<1>2. Raised(s.hs, h)
  BY SnapshotHardStateRaised
<1> HIDE DEF h
<1>3. /\ StoreOK(s1) /\ s1.hs = h
      /\ StoreOK(s2) /\ s2.hs = h
      /\ StoreOK(s3) /\ s3.hs = h
  BY <1>2 DEF StoreOK, Raised
<1> QED BY <1>1, <1>2, <1>3

-----------------------------------------------------------------------------
(* RawNode: q follows from r by handling messages and ticks.  It forgets   *)
(* no vote, and what it newly promises it remembers.                       *)

Evolves(r, q) ==
  /\ RaftOK(q)
  /\ q.prevHs = r.prevHs
  /\ \A v : (IsVote(v) /\ Remembers(r, v)) => Remembers(q, v)
  /\ \A v \in q.voteMsgs : v \in r.voteMsgs \/ Remembers(q, v)
  /\ \A v \in q.voteMsgs \ r.voteMsgs : \A w :
       (IsVote(w) /\ Remembers(r, w)) \/ w \in q.voteMsgs \ r.voteMsgs => VotesAgree(v, w)

LEMMA EvolvesRefl ==
  ASSUME NEW r, RaftOK(r)
  PROVE  Evolves(r, r)
BY DEF Evolves, RaftOK

LEMMA EvolvesTrans ==
  ASSUME NEW r, NEW q, NEW z, RaftOK(r), Evolves(r, q), Evolves(q, z)
  PROVE  Evolves(r, z)
<1>1. \A v : (IsVote(v) /\ Remembers(r, v)) => Remembers(z, v)
  BY DEF Evolves
<1>2. \A v \in z.voteMsgs : v \in r.voteMsgs \/ Remembers(z, v)
  BY DEF Evolves, RaftOK
<1>3. ASSUME NEW v \in z.voteMsgs \ r.voteMsgs, NEW w,
             (IsVote(w) /\ Remembers(r, w)) \/ w \in z.voteMsgs \ r.voteMsgs
      PROVE  VotesAgree(v, w)
  <2>1. CASE v \notin q.voteMsgs
    <3>1. (IsVote(w) /\ Remembers(q, w)) \/ w \in z.voteMsgs \ q.voteMsgs
      BY <1>3 DEF Evolves, RaftOK
    <3> QED BY <2>1, <3>1 DEF Evolves
  <2>2. CASE v \in q.voteMsgs
    <3>1. IsVote(v) /\ Remembers(q, v)
      BY <1>3, <2>2 DEF Evolves, RaftOK
    <3>2. CASE w \in z.voteMsgs \ q.voteMsgs
      BY <3>1, <3>2 DEF Evolves, VotesAgree
    <3>3. CASE (IsVote(w) /\ Remembers(r, w)) \/ w \in q.voteMsgs \ r.voteMsgs
      BY <1>3, <2>2, <3>3 DEF Evolves
    <3> QED BY <1>3, <3>2, <3>3
  <2> QED BY <2>1, <2>2
<1> QED BY <1>1, <1>2, <1>3 DEF Evolves

\* A change that leaves the term, the vote and the vote messages alone.
SameVoter(r, q) ==
  RaftOK(q) /\ q.term = r.term /\ q.vote = r.vote /\ q.voteMsgs = r.voteMsgs
    /\ q.prevHs = r.prevHs

LEMMA SameVoterEvolves ==
  ASSUME NEW r, NEW q, RaftOK(r), SameVoter(r, q)
  PROVE  Evolves(r, q)
BY DEF Evolves, SameVoter, Remembers

LEMMA StepDownEvolves ==
  ASSUME NEW r, NEW t \in Nat, RaftOK(r)
  PROVE  Evolves(r, StepDown(r, t))
<1>1. CASE t > r.term
  <2> DEFINE q == StepDown(r, t)
  <2>1. RaftOK(q) /\ q.term = t /\ q.prevHs = r.prevHs /\ q.voteMsgs = r.voteMsgs
    BY <1>1 DEF StepDown, RaftOK
  <2> HIDE DEF q
  <2> QED BY <1>1, <2>1 DEF Evolves, Remembers, RaftOK, IsVote, q
<1>2. CASE ~(t > r.term)
  BY <1>2, EvolvesRefl DEF StepDown
<1> QED BY <1>1, <1>2

LEMMA CandidateEvolves ==
  ASSUME NEW r, RaftOK(r)
  PROVE  Evolves(r, BecomeCandidate(r, Self))
<1> DEFINE q == BecomeCandidate(r, Self)
<1>1. /\ q.term = r.term + 1 /\ q.vote = Self /\ q.prevHs = r.prevHs
      /\ q.voteMsgs = r.voteMsgs \cup {<<r.term + 1, Self>>}
      /\ q.snap = r.snap /\ q.unst = r.unst /\ DOMAIN q = DOMAIN r
  BY DEF BecomeCandidate, RaftOK
<1>2. IsVote(<<r.term + 1, Self>>) /\ Remembers(q, <<r.term + 1, Self>>)
  BY <1>1, NodeAssumption DEF IsVote, Remembers, RaftOK
<1> HIDE DEF q
<1>3. RaftOK(q)
  BY <1>1, <1>2 DEF RaftOK
<1>4. \A v : (IsVote(v) /\ Remembers(r, v)) => Remembers(q, v)
  BY <1>1 DEF Remembers, RaftOK, IsVote
<1>5. \A v \in q.voteMsgs : v \in r.voteMsgs \/ Remembers(q, v)
  BY <1>1, <1>2
<1>6. ASSUME NEW v \in q.voteMsgs \ r.voteMsgs, NEW w,
             (IsVote(w) /\ Remembers(r, w)) \/ w \in q.voteMsgs \ r.voteMsgs
      PROVE  VotesAgree(v, w)
  <2>1. v = <<r.term + 1, Self>>
    BY <1>1
  <2>2. CASE w \in q.voteMsgs \ r.voteMsgs
    BY <1>1, <2>1, <2>2 DEF VotesAgree
  <2>3. CASE IsVote(w) /\ Remembers(r, w)
    BY <2>1, <2>3 DEF VotesAgree, IsVote, Remembers, RaftOK
  <2> QED BY <1>6, <2>2, <2>3
<1> QED BY <1>1, <1>3, <1>4, <1>5, <1>6 DEF Evolves, q

LEMMA GrantVoteEvolves ==
  ASSUME NEW r, NEW c, RaftOK(r), c # NoVote, CanVote(r, c)
  PROVE  Evolves(r, GrantVote(r, c))
<1> DEFINE q == GrantVote(r, c)
<1>1. /\ q.term = r.term /\ q.vote = c /\ q.prevHs = r.prevHs
      /\ q.voteMsgs = r.voteMsgs \cup {<<r.term, c>>}
      /\ q.snap = r.snap /\ q.unst = r.unst /\ DOMAIN q = DOMAIN r
  BY DEF GrantVote, RaftOK
<1>2. IsVote(<<r.term, c>>) /\ Remembers(q, <<r.term, c>>)
  BY <1>1 DEF IsVote, Remembers, RaftOK
<1> HIDE DEF q
<1>3. RaftOK(q)
  BY <1>1, <1>2 DEF RaftOK
<1>4. r.vote = c \/ r.vote = NoVote
  BY DEF CanVote
<1>5. \A v : (IsVote(v) /\ Remembers(r, v)) => Remembers(q, v)
  BY <1>1, <1>4 DEF Remembers, IsVote
<1>6. \A v \in q.voteMsgs : v \in r.voteMsgs \/ Remembers(q, v)
  BY <1>1, <1>2
<1>7. ASSUME NEW v \in q.voteMsgs \ r.voteMsgs, NEW w,
             (IsVote(w) /\ Remembers(r, w)) \/ w \in q.voteMsgs \ r.voteMsgs
      PROVE  VotesAgree(v, w)
  <2>1. v = <<r.term, c>>
    BY <1>1
  <2>2. CASE w \in q.voteMsgs \ r.voteMsgs
    BY <1>1, <2>1, <2>2 DEF VotesAgree
  <2>3. CASE IsVote(w) /\ Remembers(r, w)
    BY <1>4, <2>1, <2>3 DEF VotesAgree, IsVote, Remembers, RaftOK
  <2> QED BY <1>7, <2>2, <2>3
<1> QED BY <1>1, <1>3, <1>5, <1>6, <1>7 DEF Evolves, q

LEMMA AppendLeaderEvolves ==
  ASSUME NEW r, NEW s, NEW e, RaftOK(r), e.term \in Nat
  PROVE  SameVoter(r, AppendLeader(r, s, e))
<1>1. TermsOf(Put(r.unst, RaftLast(r, s) + 1, e))
  BY PutTerms DEF RaftOK
<1> QED BY <1>1 DEF AppendLeader, SameVoter, RaftOK

LEMMA BecomeLeaderEvolves ==
  ASSUME NEW r, NEW s, RaftOK(r)
  PROVE  SameVoter(r, BecomeLeader(r, s))
<1> DEFINE q == [r EXCEPT !.role = "leader", !.lead = TRUE]
           e == [term |-> r.term, kind |-> "noop"]
<1>1. SameVoter(r, q) /\ e.term \in Nat
  BY DEF SameVoter, RaftOK
<1>2. BecomeLeader(r, s) = AppendLeader(q, s, e)
  BY DEF BecomeLeader
<1> HIDE DEF q, e
<1>3. SameVoter(q, AppendLeader(q, s, e))
  BY <1>1, AppendLeaderEvolves DEF SameVoter
<1> QED BY <1>1, <1>2, <1>3 DEF SameVoter

LEMMA ConflictingTerms ==
  ASSUME NEW r, NEW s, NEW e, TermsOf(e)
  PROVE  TermsOf(Conflicting(r, s, e))
<1>1. TermsOf(NoEntries)
  BY DEF TermsOf, NoEntries
<1> QED BY <1>1, SliceTerms DEF Conflicting

LEMMA TruncateTerms ==
  ASSUME NEW u, NEW e, TermsOf(u), TermsOf(e)
  PROVE  TermsOf(TruncateAndAppend(u, e))
BY SliceTerms, PutAllTerms DEF TruncateAndAppend

LEMMA HandleAppendEvolves ==
  ASSUME NEW r, NEW s, NEW prev, NEW prevTerm, NEW e, NEW commit,
         RaftOK(r), TermsOf(e)
  PROVE  SameVoter(r, HandleAppend(r, s, prev, prevTerm, e, commit))
<1> DEFINE r1  == [r EXCEPT !.role = "follower", !.lead = TRUE]
           new == Conflicting(r1, s, e)
           un  == IF DOMAIN new = {} THEN r1.unst ELSE TruncateAndAppend(r1.unst, new)
<1>1. SameVoter(r, r1)
  BY DEF SameVoter, RaftOK
<1>2. TermsOf(un)
  BY <1>1, ConflictingTerms, TruncateTerms DEF SameVoter, RaftOK
<1>3. \A a : SameVoter(r1, [r1 EXCEPT !.ackMsgs = a])
  <2> HIDE DEF r1
  <2> QED BY <1>1 DEF SameVoter, RaftOK
<1>4. SameVoter(r1, HandleAppend(r, s, prev, prevTerm, e, commit))
  <2>1. CASE prev < r1.committed
    BY <1>3, <2>1 DEF HandleAppend
  <2>2. CASE ~(prev < r1.committed) /\ RaftTerm(r1, s, prev) # prevTerm
    BY <1>1, <2>2 DEF HandleAppend, SameVoter
  <2>3. CASE ~(prev < r1.committed) /\ RaftTerm(r1, s, prev) = prevTerm
    <3> DEFINE last == Max({prev} \cup DOMAIN e)
               c    == Max({r1.committed, Min({commit, last})})
               a    == r1.ackMsgs \cup {<<r1.term, last>>}
    <3>1. HandleAppend(r, s, prev, prevTerm, e, commit)
            = [r1 EXCEPT !.unst = un, !.committed = c, !.ackMsgs = a]
      BY <2>3 DEF HandleAppend
    <3> HIDE DEF r1, un, c, a
    <3>2. SameVoter(r1, [r1 EXCEPT !.unst = un, !.committed = c, !.ackMsgs = a])
      BY <1>1, <1>2 DEF SameVoter, RaftOK
    <3> QED BY <3>1, <3>2
  <2> QED BY <2>1, <2>2, <2>3
<1> QED BY <1>1, <1>4 DEF SameVoter

LEMMA HandleSnapshotEvolves ==
  ASSUME NEW r, NEW s, NEW x, RaftOK(r), SnapshotOK(x)
  PROVE  SameVoter(r, HandleSnapshot(r, s, x))
<1>1. TermsOf(NoEntries)
  BY DEF TermsOf, NoEntries
<1> QED BY <1>1 DEF HandleSnapshot, SameVoter, RaftOK

-----------------------------------------------------------------------------
(* The logs of the leaders *)

LEMMA LastTermNumber == LastTerm \in Terms
<1> DEFINE S == {t \in Terms : t = 0 \/ llog[t] # <<>>}
<1>1. MaxTerm \in Nat /\ S \in SUBSET (0 .. MaxTerm) /\ 0 \in S
  BY NodeAssumption DEF Terms
<1> HIDE DEF S
<1>2. Max(S) \in S
  BY <1>1, BoundedMax
<1> QED BY <1>2 DEF LastTerm, S

LEMMA OwnLogTerms ==
  ASSUME EnvOK, StoreOK(store), NEW r, RaftOK(r), NEW t \in Terms
  PROVE  TermsOf(OwnLog(r, llog[t]))
<1>1. TermsOf(llog[t]) /\ TermsOf(r.unst) /\ TermsOf(store.entries)
  BY DEF EnvOK, StoreOK, RaftOK
<1>2. Noop(r.term).term \in Nat
  BY DEF Noop, RaftOK
<1> QED BY <1>1, <1>2 DEF OwnLog, TermsOf

LEMMA PutLog ==
  ASSUME EnvOK, NEW t, NEW l, TermsOf(l), llog' = [llog EXCEPT ![t] = l]
  PROVE  EnvOK'
BY DEF EnvOK, Terms

-----------------------------------------------------------------------------
(* Steps, grouped by what they do to the votes *)

LEMMA RaisedRemembers ==
  ASSUME NEW h, NEW g, NEW v, HardStateOK(h), Raised(h, g), IsVote(v), Remembers(h, v)
  PROVE  Remembers(g, v)
BY DEF HardStateOK, Raised, IsVote, Remembers

LEMMA OffShapes == RaftOK(OffRaft) /\ ReadyOK(NoReady)
BY DEF OffRaft, NewRaft, EmptyStore, RaftOK, ReadyOK, NoReady, DefaultHardState,
       HardStateOK, NoSnapshot, DefaultSnapshot, SnapshotOK, NoEntries, TermsOf

\* The process ends: only the store has to remember.
LEMMA DownInv ==
  ASSUME VoteInv, PowerOff, status' # "up", UNCHANGED <<llog, votes>>,
         StoreOK(store)', Raised(store.hs, store'.hs)
  PROVE  VoteInv'
<1>1. Shapes'
  BY OffShapes DEF VoteInv, Shapes, PowerOff, EnvOK, StoreOK
<1>2. StoreRemembers'
  BY RaisedRemembers DEF VoteInv, Shapes, StoreOK, StoreRemembers
<1> QED BY <1>1, <1>2 DEF VoteInv, RaftRemembers, VoteHandedOutStored, ReadyCarries,
                         PromisesAgree, OneVotePerTerm

LEMMA RaisedRefl ==
  ASSUME StoreOK(store)
  PROVE  Raised(store.hs, store.hs)
BY DEF StoreOK, Raised, HardStateOK

LEMMA PanicInv ==
  ASSUME VoteInv, Panic
  PROVE  VoteInv'
<1>1. StoreOK(store)' /\ Raised(store.hs, store'.hs)
  BY RaisedRefl DEF VoteInv, Shapes, Panic, StoreOK
<1> QED BY <1>1, DownInv DEF Panic, env, net

\* A handler of the event loop changes raw_node only.
LEMMA HandledInv ==
  ASSUME VoteInv, Receiving, NEW r, Evolves(raft, r), Handled(r), EnvOK'
  PROVE  VoteInv'
<1> USE DEF VoteInv, Receiving, Handled, net
<1>1. Shapes'
  BY DEF Shapes, Evolves, StoreOK, ReadyOK
<1>2. StoreRemembers'
  BY DEF StoreRemembers
<1>3. RaftRemembers'
  BY DEF RaftRemembers, Evolves, Shapes, ReadyOK, RaftOK
<1>4. VoteHandedOutStored'
  BY DEF VoteHandedOutStored, VoteHandedOut, Evolves
<1>5. ReadyCarries'
  BY DEF ReadyCarries
<1>6. PromisesAgree'
  <2> SUFFICES ASSUME status = "up", NEW v \in Promised', NEW w \in Promised'
               PROVE  VotesAgree(v, w)
    BY DEF PromisesAgree, OneVotePerTerm
  <2>1. \A x \in Promised : IsVote(x) /\ Remembers(raft, x)
    BY DEF Shapes, RaftOK, ReadyOK, RaftRemembers, Promised
  <2>2. \A x \in Promised' : x \in Promised \/ x \in r.voteMsgs \ raft.voteMsgs
    BY DEF Promised
  <2>3. \A x \in r.voteMsgs \ raft.voteMsgs : \A y \in Promised' : VotesAgree(x, y)
    BY <2>1, <2>2 DEF Evolves
  <2> QED BY <2>2, <2>3 DEF PromisesAgree, VotesAgree
<1> QED BY <1>1, <1>2, <1>3, <1>4, <1>5, <1>6

\* A step that stores something else than the hard state, or works off an
\* entry of the Ready.
LEMMA QuietInv ==
  ASSUME VoteInv, UNCHANGED <<status, votes>>, EnvOK',
         StoreOK(store)', store'.hs.term = store.hs.term, store'.hs.vote = store.hs.vote,
         SameVoter(raft, raft'), ReadyOK(rd)', rd'.voteMsgs \subseteq rd.voteMsgs,
         pc # "send", pc' # "send",
         pc' \in {"restore", "apply", "hardstate"} =>
           pc \in {"restore", "apply", "hardstate"} /\ rd'.hs = rd.hs /\ rd'.hasHs = rd.hasHs
  PROVE  VoteInv'
<1> USE DEF VoteInv, SameVoter
<1>1. Shapes'
  BY DEF Shapes
<1>2. StoreRemembers'
  BY DEF StoreRemembers, Remembers
<1>3. RaftRemembers'
  BY DEF RaftRemembers, Remembers
<1>4. VoteHandedOutStored'
  BY DEF VoteHandedOutStored, VoteHandedOut, NotNewer
<1>5. ReadyCarries'
  BY DEF ReadyCarries
<1>6. PromisesAgree'
  BY DEF PromisesAgree, OneVotePerTerm, Promised
<1> QED BY <1>1, <1>2, <1>3, <1>4, <1>5, <1>6

-----------------------------------------------------------------------------
(* Bootstrap and the handlers *)

LEMMA NewRaftVoter ==
  ASSUME NEW s, StoreOK(s)
  PROVE  /\ RaftOK(NewRaft(s)) /\ NewRaft(s).voteMsgs = {}
         /\ NewRaft(s).term = s.hs.term /\ NewRaft(s).vote = s.hs.vote
         /\ NotNewer(NewRaft(s).prevHs, s.hs)
BY DEF StoreOK, HardStateOK, NewRaft, RaftOK, NoSnapshot, DefaultSnapshot, SnapshotOK,
       NoEntries, TermsOf, NotNewer

LEMMA BootStoreRaised ==
  ASSUME StoreOK(store)
  PROVE  StoreOK(BootStore) /\ Raised(store.hs, BootStore.hs)
BY RaisedRefl, ApplySnapshotStore DEF BootStore, StoreOK

LEMMA BootstrapInv ==
  ASSUME VoteInv, Bootstrap
  PROVE  VoteInv'
<1> DEFINE b == BootStore
<1>1. CASE NewPanics(BootStore)
  BY <1>1, PanicInv DEF Bootstrap
<1>2. CASE ~NewPanics(BootStore)
  <2>1. /\ status' = "up" /\ store' = b /\ rd' = NoReady /\ pc' = "recv"
        /\ votes' = votes
    BY <1>2 DEF Bootstrap, net
  <2>2. StoreOK(b) /\ Raised(store.hs, b.hs)
    BY BootStoreRaised DEF VoteInv, Shapes
  <2>3. EnvOK' /\ Evolves(NewRaft(b), raft')
    <3>1. CASE Alone
      <4> DEFINE c == BecomeCandidate(NewRaft(b), Self)
                 r == BecomeLeader(c, b)
      <4>1. raft' = r /\ llog' = [llog EXCEPT ![r.term] = OwnLog(r, llog[LastTerm])]
        BY <1>2, <3>1 DEF Bootstrap, RecordLeader
      <4>2. Evolves(NewRaft(b), c)
        BY <2>2, NewRaftVoter, CandidateEvolves
      <4> HIDE DEF b, c
      <4>3. RaftOK(c) /\ SameVoter(c, r) /\ Evolves(c, r) /\ RaftOK(r)
        BY <4>2, BecomeLeaderEvolves, SameVoterEvolves DEF Evolves
      <4> HIDE DEF r
      <4>4. Evolves(NewRaft(b), r)
        BY <2>2, <4>2, <4>3, EvolvesTrans, NewRaftVoter
      <4>5. EnvOK'
        BY <4>1, <4>3, OwnLogTerms, LastTermNumber, PutLog DEF VoteInv, Shapes
      <4> QED BY <4>1, <4>4, <4>5
    <3>2. CASE ~Alone
      <4>1. raft' = NewRaft(b) /\ llog' = llog
        BY <1>2, <3>2 DEF Bootstrap, env
      <4> QED BY <2>2, <4>1, NewRaftVoter, EvolvesRefl DEF VoteInv, Shapes, EnvOK
    <3> QED BY <3>1, <3>2
  <2> HIDE DEF b
  <2>4. \A v \in votes : IsVote(v) /\ Remembers(b.hs, v)
    BY <2>2, RaisedRemembers DEF VoteInv, Shapes, StoreRemembers, StoreOK
  <2>5. Shapes'
    BY <2>1, <2>2, <2>3, <2>4, OffShapes DEF Shapes, Evolves
  <2>6. StoreRemembers'
    BY <2>1, <2>4 DEF StoreRemembers
  <2>7. RaftRemembers'
    <3>1. \A v \in votes : Remembers(NewRaft(b), v)
      BY <2>2, <2>4, NewRaftVoter DEF Remembers
    <3>2. NoReady.voteMsgs = {}
      BY DEF NoReady
    <3> QED BY <2>1, <2>2, <2>3, <2>4, <3>1, <3>2, NewRaftVoter DEF Evolves, RaftRemembers
  <2>8. VoteHandedOutStored' /\ ReadyCarries'
    BY <2>1, <2>2, <2>3, NewRaftVoter DEF Evolves, VoteHandedOutStored, VoteHandedOut, ReadyCarries
  <2>9. PromisesAgree'
    <3>1. Promised' = votes \cup raft'.voteMsgs
      BY <2>1 DEF Promised, NoReady
    <3>2. \A v \in votes : Remembers(NewRaft(b), v)
      BY <2>2, <2>4, NewRaftVoter DEF Remembers
    <3>3. \A x \in raft'.voteMsgs : \A y \in Promised' : VotesAgree(x, y)
      BY <2>2, <2>3, <2>4, <3>1, <3>2, NewRaftVoter DEF Evolves, VotesAgree
    <3> QED BY <2>1, <3>1, <3>3 DEF VoteInv, PromisesAgree, OneVotePerTerm, VotesAgree
  <2> QED BY <2>5, <2>6, <2>7, <2>8, <2>9 DEF VoteInv
<1> QED BY <1>1, <1>2

LEMMA RecvNothingInv ==
  ASSUME VoteInv, RecvNothing
  PROVE  VoteInv'
<1>1. Evolves(raft, raft) /\ EnvOK'
  BY EvolvesRefl DEF VoteInv, Shapes, RecvNothing, env, EnvOK
<1> QED BY <1>1, HandledInv DEF RecvNothing

LEMMA RecvAppendInv ==
  ASSUME VoteInv, RecvAppend
  PROVE  VoteInv'
<1>1. PICK t \in Terms : \E prev, last, commit :
        LET r        == StepDown(raft, t)
            prevTerm == IF prev = 0 THEN 0 ELSE llog[t][prev].term
            ents     == Slice(llog[t], prev + 1, last)
        IN  IF AppendConflictPanics(r, store, prev, prevTerm, ents)
            THEN Panic
            ELSE /\ Handled(HandleAppend(r, store, prev, prevTerm, ents, commit))
                 /\ UNCHANGED env
  BY DEF RecvAppend
<1> DEFINE r == StepDown(raft, t)
<1>2. PICK prev, last, commit :
        LET prevTerm == IF prev = 0 THEN 0 ELSE llog[t][prev].term
            ents     == Slice(llog[t], prev + 1, last)
        IN  IF AppendConflictPanics(r, store, prev, prevTerm, ents)
            THEN Panic
            ELSE /\ Handled(HandleAppend(r, store, prev, prevTerm, ents, commit))
                 /\ UNCHANGED env
  BY <1>1
<1> DEFINE prevTerm == IF prev = 0 THEN 0 ELSE llog[t][prev].term
           ents     == Slice(llog[t], prev + 1, last)
           q        == HandleAppend(r, store, prev, prevTerm, ents, commit)
<1>3. Panic \/ (Handled(q) /\ UNCHANGED env)
  BY <1>2
<1>4. TermsOf(ents)
  BY SliceTerms DEF VoteInv, Shapes, EnvOK
<1>5. Evolves(raft, r) /\ RaftOK(r) /\ RaftOK(raft)
  BY StepDownEvolves, NodeAssumption DEF VoteInv, Shapes, Terms, Evolves
<1> HIDE DEF r, prevTerm, ents
<1>6. Evolves(r, q)
  BY <1>4, <1>5, HandleAppendEvolves, SameVoterEvolves
<1> HIDE DEF q
<1>7. Evolves(raft, q)
  BY <1>5, <1>6, EvolvesTrans
<1>8. ASSUME UNCHANGED env PROVE EnvOK'
  BY <1>8 DEF VoteInv, Shapes, EnvOK, env
<1> QED BY <1>3, <1>7, <1>8, HandledInv, PanicInv DEF RecvAppend

LEMMA RecvSnapshotInv ==
  ASSUME VoteInv, RecvSnapshot
  PROVE  VoteInv'
<1>1. PICK t \in Terms : \E n \in DOMAIN llog[t] :
        Handled(HandleSnapshot(StepDown(raft, t), store,
                    [index |-> n, term |-> llog[t][n].term,
                     data |-> Image(llog[t], n), conf |-> ConfImage(llog[t], n)]))
  BY DEF RecvSnapshot
<1>2. PICK n \in DOMAIN llog[t] :
        Handled(HandleSnapshot(StepDown(raft, t), store,
                    [index |-> n, term |-> llog[t][n].term,
                     data |-> Image(llog[t], n), conf |-> ConfImage(llog[t], n)]))
  BY <1>1
<1> DEFINE r == StepDown(raft, t)
           x == [index |-> n, term |-> llog[t][n].term,
                 data |-> Image(llog[t], n), conf |-> ConfImage(llog[t], n)]
<1>3. SnapshotOK(x)
  BY <1>2 DEF VoteInv, Shapes, EnvOK, TermsOf, SnapshotOK
<1>4. Evolves(raft, r) /\ RaftOK(r) /\ RaftOK(raft)
  BY StepDownEvolves, NodeAssumption DEF VoteInv, Shapes, Terms, Evolves
<1>5. Handled(HandleSnapshot(r, store, x))
  BY <1>2
<1> HIDE DEF r, x
<1>6. Evolves(r, HandleSnapshot(r, store, x))
  BY <1>3, <1>4, HandleSnapshotEvolves, SameVoterEvolves
<1>7. Evolves(raft, HandleSnapshot(r, store, x))
  BY <1>4, <1>6, EvolvesTrans
<1>8. EnvOK'
  BY DEF VoteInv, Shapes, EnvOK, env, RecvSnapshot
<1> QED BY <1>5, <1>7, <1>8, HandledInv DEF RecvSnapshot

LEMMA RecvRequestVoteInv ==
  ASSUME VoteInv, RecvRequestVote
  PROVE  VoteInv'
<1>1. PICK t \in 1 .. MaxTerm, c \in Candidates, upToDate \in BOOLEAN :
        Handled(IF upToDate /\ CanVote(StepDown(raft, t), c)
                THEN GrantVote(StepDown(raft, t), c) ELSE StepDown(raft, t))
  BY DEF RecvRequestVote
<1> DEFINE r == StepDown(raft, t)
<1>2. Evolves(raft, r) /\ RaftOK(r) /\ RaftOK(raft) /\ c # NoVote
  BY StepDownEvolves, NodeAssumption DEF VoteInv, Shapes, Evolves
<1>3. (Handled(GrantVote(r, c)) /\ CanVote(r, c)) \/ Handled(r)
  BY <1>1
<1> HIDE DEF r
<1>4. CanVote(r, c) => Evolves(raft, GrantVote(r, c))
  BY <1>2, GrantVoteEvolves, EvolvesTrans
<1>5. EnvOK'
  BY DEF VoteInv, Shapes, EnvOK, env, RecvRequestVote
<1> QED BY <1>2, <1>3, <1>4, <1>5, HandledInv DEF RecvRequestVote

LEMMA RecvVoteQuorumInv ==
  ASSUME VoteInv, RecvVoteQuorum
  PROVE  VoteInv'
<1> DEFINE r == BecomeLeader(raft, store)
<1>1. Receiving /\ Handled(r) /\ llog' = [llog EXCEPT ![r.term] = OwnLog(r, llog[LastTerm])]
  BY DEF RecvVoteQuorum, RecordLeader
<1>2. Evolves(raft, r) /\ RaftOK(r)
  BY BecomeLeaderEvolves, SameVoterEvolves DEF VoteInv, Shapes, Evolves
<1> HIDE DEF r
<1>3. EnvOK'
  BY <1>1, <1>2, OwnLogTerms, LastTermNumber, PutLog DEF VoteInv, Shapes
<1> QED BY <1>1, <1>2, <1>3, HandledInv

LEMMA ProposeInv ==
  ASSUME VoteInv, Propose
  PROVE  VoteInv'
<1>1. PICK k \in Kinds :
        LET r == AppendLeader(raft, store, [term |-> raft.term, kind |-> k])
        IN  Handled(r) /\ llog' = [llog EXCEPT ![raft.term] = OwnLog(r, @)]
  BY DEF Propose
<1> DEFINE e == [term |-> raft.term, kind |-> k]
           r == AppendLeader(raft, store, e)
<1>2. Handled(r) /\ llog' = [llog EXCEPT ![raft.term] = OwnLog(r, @)]
  BY <1>1
<1>3. e.term \in Nat /\ RaftOK(raft)
  BY DEF VoteInv, Shapes, RaftOK
<1> HIDE DEF e
<1>4. Evolves(raft, r) /\ RaftOK(r)
  BY <1>3, AppendLeaderEvolves, SameVoterEvolves DEF Evolves
<1> HIDE DEF r
<1>5. EnvOK'
  <2>1. CASE raft.term \in Terms
    <3>1. llog' = [llog EXCEPT ![raft.term] = OwnLog(r, llog[raft.term])]
      BY <1>2
    <3> QED BY <1>4, <2>1, <3>1, OwnLogTerms, PutLog DEF VoteInv, Shapes
  <2>2. CASE raft.term \notin Terms
    BY <1>2, <2>2 DEF VoteInv, Shapes, EnvOK
  <2> QED BY <2>1, <2>2
<1> QED BY <1>2, <1>4, <1>5, HandledInv DEF Propose

LEMMA RecvAckQuorumInv ==
  ASSUME VoteInv, RecvAckQuorum
  PROVE  VoteInv'
<1>1. PICK n : Handled([raft EXCEPT !.committed = n])
  BY DEF RecvAckQuorum
<1>2. SameVoter(raft, [raft EXCEPT !.committed = n])
  BY DEF VoteInv, Shapes, SameVoter, RaftOK
<1>3. Evolves(raft, [raft EXCEPT !.committed = n])
  BY <1>2, SameVoterEvolves DEF VoteInv, Shapes
<1>4. EnvOK'
  BY DEF VoteInv, Shapes, EnvOK, RecvAckQuorum
<1> QED BY <1>1, <1>3, <1>4, HandledInv DEF RecvAckQuorum

LEMMA CampaignInv ==
  ASSUME VoteInv, Campaign
  PROVE  VoteInv'
<1>1. Evolves(raft, BecomeCandidate(raft, Self)) /\ EnvOK'
  BY CandidateEvolves DEF VoteInv, Shapes, EnvOK, env, Campaign
<1> QED BY <1>1, HandledInv DEF Campaign

LEMMA DemoteInv ==
  ASSUME VoteInv, Demote
  PROVE  VoteInv'
<1>1. PICK t \in raft.term .. MaxTerm, known \in BOOLEAN :
        Handled([StepDown(raft, t) EXCEPT !.role = "follower", !.lead = known])
  BY DEF Demote
<1> DEFINE r == StepDown(raft, t)
           q == [r EXCEPT !.role = "follower", !.lead = known]
<1>2. RaftOK(raft) /\ Handled(q)
  BY <1>1 DEF VoteInv, Shapes
<1>3. t \in Nat
  BY NodeAssumption DEF VoteInv, Shapes, RaftOK
<1>4. Evolves(raft, r) /\ RaftOK(r)
  BY <1>2, <1>3, StepDownEvolves DEF Evolves
<1> HIDE DEF r
<1>5. SameVoter(r, q)
  BY <1>4 DEF SameVoter, RaftOK
<1> HIDE DEF q
<1>6. Evolves(raft, q)
  BY <1>2, <1>4, <1>5, SameVoterEvolves, EvolvesTrans
<1>7. EnvOK'
  BY DEF VoteInv, Shapes, EnvOK, env, Demote
<1> QED BY <1>2, <1>6, <1>7, HandledInv DEF Demote

LEMMA SameVoterRefl ==
  ASSUME VoteInv
  PROVE  SameVoter(raft, raft)
BY DEF VoteInv, Shapes, SameVoter

LEMMA RpcCreateSnapshotInv ==
  ASSUME VoteInv, RpcCreateSnapshot
  PROVE  VoteInv'
<1> DEFINE s == MakeSnapshot(store, fsm, LastIndex(store), store.hs.term)
<1>1. store' = s /\ pc = "recv" /\ pc' = "tick" /\ UNCHANGED <<status, raft, rd, llog, votes>>
  BY DEF RpcCreateSnapshot, Receiving, env, net
<1>2. StoreOK(s) /\ s.hs = store.hs
  BY MakeSnapshotStore DEF VoteInv, Shapes, StoreOK, HardStateOK
<1> HIDE DEF s
<1>3. EnvOK' /\ ReadyOK(rd)' /\ SameVoter(raft, raft')
  BY <1>1, SameVoterRefl DEF VoteInv, Shapes, EnvOK, ReadyOK
<1> QED BY <1>1, <1>2, <1>3, QuietInv

-----------------------------------------------------------------------------
(* on_ready *)

LEMMA NextEntriesTerms ==
  ASSUME NEW r, NEW s, StoreOK(s)
  PROVE  TermsOf(NextEntries(r, s))
<1>1. TermsOf(NoEntries)
  BY DEF TermsOf, NoEntries
<1>2. \A lo, hi : TermsOf(Entries(s, lo, hi))
  BY SliceTerms DEF Entries, StoreOK
<1> QED BY <1>1, <1>2 DEF NextEntries

LEMMA ReadyShape ==
  ASSUME NEW r, NEW s, RaftOK(r), StoreOK(s)
  PROVE  ReadyOK(Ready(r, s))
<1>1. TermsOf(NextEntries(r, s))
  BY NextEntriesTerms
<1>2. HasHardState(r) \in BOOLEAN
  BY DEF HasHardState
<1> QED BY <1>1, <1>2 DEF Ready, ReadyOK, RaftOK, HardState, HardStateOK

LEMMA TickAndReadyInv ==
  ASSUME VoteInv, TickAndReady
  PROVE  VoteInv'
<1>1. PICK r \in TickOutcomes :
        LET new == Ready(r, store)
        IN  IF HasReady(new)
            THEN /\ rd' = new
                 /\ raft' = TakeReady(r, new)
                 /\ pc' = IF new.snap # NoSnapshot THEN "restore" ELSE "apply"
            ELSE rd' = NoReady /\ raft' = r /\ pc' = "recv"
  BY DEF TickAndReady
<1> DEFINE new == Ready(r, store)
<1>2. status = "up" /\ UNCHANGED <<store, status, llog, votes>>
  BY DEF TickAndReady, At, env, net
<1>3. Evolves(raft, r) /\ RaftOK(raft) /\ RaftOK(r) /\ StoreOK(store)
  BY CandidateEvolves, EvolvesRefl DEF TickOutcomes, VoteInv, Shapes, Evolves
<1>4. \A v \in votes \cup r.voteMsgs : IsVote(v) /\ Remembers(r, v)
  BY <1>2, <1>3 DEF VoteInv, Shapes, RaftRemembers, Evolves, RaftOK
<1>5. EnvOK' /\ StoreRemembers' /\ StoreOK(store)' /\ \A v \in votes' : IsVote(v)
  BY <1>2 DEF VoteInv, Shapes, EnvOK, StoreRemembers, StoreOK
<1>6. NotNewer(r.prevHs, store.hs)
  BY <1>2, <1>3 DEF VoteInv, VoteHandedOutStored, VoteHandedOut, Evolves, TickAndReady, At
<1>7. \A v, w \in votes \cup r.voteMsgs : VotesAgree(v, w)
  <2>1. \A x \in votes \cup raft.voteMsgs : IsVote(x) /\ Remembers(raft, x) /\ x \in Promised
    BY <1>2 DEF VoteInv, Shapes, RaftOK, RaftRemembers, Promised
  <2>2. \A x \in r.voteMsgs \ raft.voteMsgs : \A y \in votes \cup r.voteMsgs : VotesAgree(x, y)
    BY <1>3, <2>1 DEF Evolves
  <2> QED BY <1>2, <2>1, <2>2 DEF VoteInv, PromisesAgree, VotesAgree
<1>8. CASE HasReady(new)
  <2>1. rd' = new /\ raft' = TakeReady(r, new) /\ pc' \in {"restore", "apply"}
    BY <1>1, <1>8
  <2>2. ReadyOK(new)
    BY <1>3, ReadyShape
  <2>3. RaftOK(raft') /\ raft'.term = r.term /\ raft'.vote = r.vote
          /\ raft'.prevHs = r.prevHs /\ raft'.voteMsgs = {}
    BY <1>3, <2>1 DEF TakeReady, RaftOK
  <2>4. /\ new.voteMsgs \subseteq r.voteMsgs
        /\ new.hs.term = r.term /\ new.hs.vote = r.vote
        /\ ~new.hasHs => r.prevHs.term = r.term /\ r.prevHs.vote = r.vote
    <3>1. new.voteMsgs \subseteq r.voteMsgs /\ new.hs = HardState(r)
      BY DEF Ready
    <3>2. new.hasHs = HasHardState(r)
      BY Zenon DEF Ready
    <3>3. ~HasHardState(r) => r.prevHs = HardState(r)
      BY DEF HasHardState
    <3>4. HardState(r).term = r.term /\ HardState(r).vote = r.vote
      BY DEF HardState
    <3> HIDE DEF new
    <3> QED BY <3>1, <3>2, <3>3, <3>4
  <2> HIDE DEF new
  <2>5. Shapes'
    BY <1>5, <2>1, <2>2, <2>3 DEF Shapes
  <2>6. RaftRemembers'
    BY <1>2, <1>4, <2>1, <2>3, <2>4 DEF RaftRemembers, Remembers
  <2>7. VoteHandedOutStored' /\ ReadyCarries'
    BY <1>2, <1>6, <2>1, <2>3, <2>4 DEF VoteHandedOutStored, VoteHandedOut, ReadyCarries
  <2>8. PromisesAgree'
    BY <1>2, <1>7, <2>1, <2>3, <2>4 DEF VoteInv, PromisesAgree, OneVotePerTerm, Promised
  <2> QED BY <1>5, <2>5, <2>6, <2>7, <2>8 DEF VoteInv
<1>9. CASE ~HasReady(new)
  <2>1. rd' = NoReady /\ raft' = r /\ pc' = "recv" /\ NoReady.voteMsgs = {}
    BY <1>1, <1>9 DEF NoReady
  <2>2. Shapes'
    BY <1>3, <1>5, <2>1, OffShapes DEF Shapes
  <2>3. RaftRemembers'
    BY <1>2, <1>4, <2>1 DEF RaftRemembers
  <2>4. VoteHandedOutStored' /\ ReadyCarries'
    BY <1>2, <1>6, <2>1 DEF VoteHandedOutStored, VoteHandedOut, ReadyCarries
  <2>5. PromisesAgree'
    BY <1>2, <1>7, <2>1 DEF VoteInv, PromisesAgree, OneVotePerTerm, Promised
  <2> QED BY <1>5, <2>2, <2>3, <2>4, <2>5 DEF VoteInv
<1> QED BY <1>8, <1>9

LEMMA RestoreSnapshotInv ==
  ASSUME VoteInv, RestoreSnapshot
  PROVE  VoteInv'
<1> DEFINE s == ApplySnapshot(store, rd.snap)
<1>1. /\ store' = s /\ pc = "restore" /\ pc' = "apply" /\ status = "up"
      /\ UNCHANGED <<status, raft, rd, llog, votes>>
  BY DEF RestoreSnapshot, At, env, net
<1>2. StoreOK(s) /\ Raised(store.hs, s.hs) /\ HardStateOK(store.hs)
  BY ApplySnapshotStore DEF VoteInv, Shapes, ReadyOK, StoreOK
<1> HIDE DEF s
<1>3. Shapes'
  BY <1>1, <1>2 DEF VoteInv, Shapes, EnvOK, ReadyOK, RaftOK
<1>4. StoreRemembers'
  BY <1>1, <1>2, RaisedRemembers DEF VoteInv, Shapes, StoreRemembers
<1>5. RaftRemembers'
  BY <1>1 DEF VoteInv, RaftRemembers
<1>6. VoteHandedOutStored'
  BY <1>1, <1>2 DEF VoteInv, Shapes, RaftOK, HardStateOK, VoteHandedOutStored, VoteHandedOut, NotNewer,
                    Raised
<1>7. ReadyCarries' /\ PromisesAgree'
  BY <1>1 DEF VoteInv, ReadyCarries, PromisesAgree, OneVotePerTerm, Promised
<1> QED BY <1>3, <1>4, <1>5, <1>6, <1>7 DEF VoteInv

LEMMA ApplyEntryInv ==
  ASSUME VoteInv, ApplyEntry
  PROVE  VoteInv'
<1>1. PICK i \in DOMAIN rd.committed :
        \/ SkipEmptyEntry(i, rd.committed[i]) \/ ApplyNormalEntry(i, rd.committed[i])
        \/ ApplyConfChangeEntry(i, rd.committed[i]) \/ ApplyLeaveJointEntry(i, rd.committed[i])
  BY DEF ApplyEntry
<1> DEFINE e == rd.committed[i]
           c == Restrict(rd.committed, DOMAIN rd.committed \ {i})
<1>2. e.term \in Nat /\ TermsOf(c) /\ StoreOK(store) /\ ReadyOK(rd)
  BY RestrictTerms DEF VoteInv, Shapes, ReadyOK, TermsOf
<1>3. EntryHandled(i) /\ Applying(i)
  BY <1>1 DEF SkipEmptyEntry, ApplyNormalEntry, ApplyConfChangeEntry, ApplyLeaveJointEntry
<1>4. rd' = [rd EXCEPT !.committed = c] /\ UNCHANGED <<status, raft, pc, llog, votes>>
  BY <1>3 DEF EntryHandled, env, net
<1>5. StoreOK(store') /\ store'.hs = store.hs
  <2> HIDE DEF e
  <2>1. CASE SkipEmptyEntry(i, e)
    BY <1>2, <2>1 DEF SkipEmptyEntry
  <2>2. CASE ApplyNormalEntry(i, e)
    BY <1>2, <2>2, MakeSnapshotStore DEF ApplyNormalEntry
  <2>3. CASE ApplyConfChangeEntry(i, e)
    BY <1>2, <2>3, MakeSnapshotStore, ConfStore DEF ApplyConfChangeEntry
  <2>4. CASE ApplyLeaveJointEntry(i, e)
    BY <1>2, <2>4, ConfStore DEF ApplyLeaveJointEntry
  <2> QED BY <1>1, <2>1, <2>2, <2>3, <2>4 DEF e
<1> HIDE DEF c
<1>6. /\ ReadyOK(rd') /\ rd'.hs = rd.hs /\ rd'.hasHs = rd.hasHs
      /\ rd'.voteMsgs = rd.voteMsgs
  BY <1>2, <1>4 DEF ReadyOK
<1>7. EnvOK' /\ SameVoter(raft, raft') /\ pc # "send"
  BY <1>3, <1>4, SameVoterRefl DEF VoteInv, Shapes, EnvOK, Applying
<1> QED BY <1>4, <1>5, <1>6, <1>7, QuietInv

LEMMA AppendReadyInv ==
  ASSUME VoteInv, AppendReady
  PROVE  VoteInv'
<1>1. CASE AppendPanics(store, rd.ents)
  BY <1>1, PanicInv DEF AppendReady
<1>2. CASE ~AppendPanics(store, rd.ents)
  <2> DEFINE s == AppendEntries(store, rd.ents)
  <2>1. /\ store' = s /\ pc = "apply" /\ pc' = "hardstate"
        /\ UNCHANGED <<status, raft, rd, llog, votes>>
    BY <1>2 DEF AppendReady, Applied, At, env, net
  <2>2. StoreOK(s) /\ s.hs = store.hs
    BY AppendStore DEF VoteInv, Shapes, ReadyOK
  <2> HIDE DEF s
  <2>3. EnvOK' /\ ReadyOK(rd)' /\ SameVoter(raft, raft')
    BY <2>1, SameVoterRefl DEF VoteInv, Shapes, EnvOK, ReadyOK
  <2> QED BY <2>1, <2>2, <2>3, QuietInv
<1> QED BY <1>1, <1>2

LEMMA WriteHardStateInv ==
  ASSUME VoteInv, WriteHardState
  PROVE  VoteInv'
<1>1. /\ pc = "hardstate" /\ pc' = "send" /\ status = "up"
      /\ UNCHANGED <<status, raft, rd, llog, votes>>
      /\ store' = IF rd.hasHs THEN SetHardState(store, rd.hs) ELSE store
  BY DEF WriteHardState, At, env, net
<1>2. /\ StoreOK(store) /\ ReadyOK(rd) /\ rd.hasHs \in BOOLEAN
      /\ rd.hs.term = raft.term /\ rd.hs.vote = raft.vote
      /\ \A v \in votes : Remembers(raft, v)
  BY <1>1 DEF VoteInv, Shapes, ReadyOK, ReadyCarries, RaftRemembers
<1>3. /\ StoreOK(store')
      /\ rd.hasHs => store'.hs = rd.hs
      /\ ~rd.hasHs => store' = store
  BY <1>1, <1>2 DEF SetHardState, StoreOK, ReadyOK
<1>4. Shapes'
  BY <1>1, <1>3 DEF VoteInv, Shapes, EnvOK, RaftOK, ReadyOK
<1>5. StoreRemembers'
  BY <1>1, <1>2, <1>3 DEF VoteInv, StoreRemembers, Remembers
<1>6. RaftRemembers' /\ ReadyCarries' /\ PromisesAgree'
  BY <1>1 DEF VoteInv, RaftRemembers, ReadyCarries, PromisesAgree, OneVotePerTerm, Promised
<1>7. VoteHandedOutStored'
  BY <1>1, <1>2, <1>3 DEF VoteInv, VoteHandedOutStored, VoteHandedOut, NotNewer
<1> QED BY <1>4, <1>5, <1>6, <1>7 DEF VoteInv

LEMMA AdvanceVoter ==
  ASSUME NEW r, NEW s, NEW d, NEW alone, RaftOK(r), ReadyOK(d)
  PROVE  LET q == Advance(r, s, d, alone)
         IN  /\ RaftOK(q) /\ q.term = r.term /\ q.vote = r.vote /\ q.voteMsgs = r.voteMsgs
             /\ q.prevHs = IF d.hasHs THEN d.hs ELSE r.prevHs
<1> DEFINE h  == IF d.hasHs THEN d.hs ELSE r.prevHs
           r1 == [r EXCEPT !.unst = NoEntries, !.snap = NoSnapshot, !.prevHs = h]
<1>1. HardStateOK(h) /\ TermsOf(NoEntries) /\ SnapshotOK(NoSnapshot)
  BY DEF ReadyOK, RaftOK, TermsOf, NoEntries, NoSnapshot, DefaultSnapshot, SnapshotOK
<1>2. PICK a, c : Advance(r, s, d, alone) = [r1 EXCEPT !.applied = a, !.committed = c]
  BY DEF Advance
<1> HIDE DEF h
<1>3. /\ RaftOK(r1) /\ r1.term = r.term /\ r1.vote = r.vote /\ r1.voteMsgs = r.voteMsgs
      /\ r1.prevHs = h
  BY <1>1 DEF RaftOK
<1> HIDE DEF r1
<1>4. LET q == [r1 EXCEPT !.applied = a, !.committed = c]
      IN  /\ RaftOK(q) /\ q.term = r.term /\ q.vote = r.vote /\ q.voteMsgs = r.voteMsgs
          /\ q.prevHs = h
  BY <1>3 DEF RaftOK
<1> QED BY <1>2, <1>4 DEF h

LEMMA LightVoter ==
  ASSUME NEW r, NEW l, RaftOK(r)
  PROVE  LET q == TakeLightReady(r, l)
         IN  /\ RaftOK(q) /\ q.term = r.term /\ q.vote = r.vote /\ q.voteMsgs = r.voteMsgs
             /\ q.prevHs.term = r.prevHs.term /\ q.prevHs.vote = r.prevHs.vote
BY DEF TakeLightReady, RaftOK, HardStateOK

LEMMA SendPersistedInv ==
  ASSUME VoteInv, SendPersisted
  PROVE  VoteInv'
<1> DEFINE r     == Advance(raft, store, rd, Alone)
           light == LightReady(r, store)
           q     == TakeLightReady(r, light)
           d     == [NoReady EXCEPT !.committed = light.committed, !.commit = light.commit]
<1>1. /\ pc = "send" /\ pc' \in {"lightcommit", "lightapply"} /\ status = "up"
      /\ UNCHANGED <<store, status, llog>>
      /\ votes' = votes \cup rd.voteMsgs /\ raft' = q /\ rd' = d
  BY DEF SendPersisted, At
<1>2. RaftOK(raft) /\ ReadyOK(rd) /\ StoreOK(store) /\ rd.hasHs \in BOOLEAN
  BY DEF VoteInv, Shapes, ReadyOK
<1>3. /\ RaftOK(q) /\ q.term = raft.term /\ q.vote = raft.vote
      /\ q.voteMsgs = raft.voteMsgs
      /\ q.prevHs.term = VoteHandedOut.term /\ q.prevHs.vote = VoteHandedOut.vote
  <2>1. /\ RaftOK(r) /\ r.term = raft.term /\ r.vote = raft.vote
        /\ r.voteMsgs = raft.voteMsgs
        /\ r.prevHs = VoteHandedOut
    BY <1>1, <1>2, AdvanceVoter DEF VoteHandedOut
  <2> HIDE DEF r, light
  <2> QED BY <2>1, LightVoter
<1>4. TermsOf(light.committed)
  BY <1>2, NextEntriesTerms DEF LightReady
<1> HIDE DEF q, light
<1>5. ReadyOK(d) /\ d.voteMsgs = {}
  BY <1>4, OffShapes DEF ReadyOK, NoReady
<1> HIDE DEF d
<1>6. \A v \in votes \cup raft.voteMsgs \cup rd.voteMsgs : IsVote(v) /\ Remembers(raft, v)
  BY <1>1 DEF VoteInv, Shapes, ReadyOK, RaftOK, RaftRemembers
<1>7. NotNewer(VoteHandedOut, store.hs)
  BY <1>1 DEF VoteInv, VoteHandedOutStored
<1>8. VoteHandedOut.term = raft.term /\ VoteHandedOut.vote = raft.vote
  BY <1>1, <1>2 DEF VoteInv, ReadyCarries, VoteHandedOut
<1>9. Shapes'
  BY <1>1, <1>2, <1>3, <1>5, <1>6 DEF VoteInv, Shapes, EnvOK
<1>10. StoreRemembers'
  <2>1. \A v \in votes \cup rd.voteMsgs : Remembers(store.hs, v)
    BY <1>2, <1>6, <1>7, <1>8
       DEF Remembers, NotNewer, IsVote, StoreOK, HardStateOK, RaftOK
  <2> QED BY <1>1, <2>1 DEF StoreRemembers
<1>11. RaftRemembers'
  BY <1>1, <1>3, <1>5, <1>6 DEF RaftRemembers, Remembers
<1>12. VoteHandedOutStored' /\ ReadyCarries'
  <2>1. NotNewer(q.prevHs, store.hs)
    BY <1>3, <1>7 DEF NotNewer
  <2>2. VoteHandedOut' = q.prevHs
    BY <1>1 DEF VoteHandedOut
  <2> QED BY <1>1, <2>1, <2>2 DEF VoteHandedOutStored, ReadyCarries
<1>13. PromisesAgree'
  BY <1>1, <1>3, <1>5 DEF VoteInv, PromisesAgree, OneVotePerTerm, Promised, VotesAgree
<1> QED BY <1>9, <1>10, <1>11, <1>12, <1>13 DEF VoteInv

LEMMA WriteLightCommitInv ==
  ASSUME VoteInv, WriteLightCommit
  PROVE  VoteInv'
<1> DEFINE s == SetHardStateCommit(store, rd.commit)
<1>1. /\ store' = s /\ pc = "lightcommit" /\ pc' = "lightapply"
      /\ UNCHANGED <<status, raft, rd, llog, votes>>
  BY DEF WriteLightCommit, At, env, net
<1>2. StoreOK(s) /\ s.hs.term = store.hs.term /\ s.hs.vote = store.hs.vote
  BY DEF VoteInv, Shapes, StoreOK, HardStateOK, SetHardStateCommit
<1> HIDE DEF s
<1>3. EnvOK' /\ ReadyOK(rd)' /\ SameVoter(raft, raft')
  BY <1>1, SameVoterRefl DEF VoteInv, Shapes, EnvOK, ReadyOK
<1> QED BY <1>1, <1>2, <1>3, QuietInv

LEMMA FinishLightApplyInv ==
  ASSUME VoteInv, FinishLightApply
  PROVE  VoteInv'
<1>1. /\ raft' = AdvanceApply(raft) /\ rd' = NoReady /\ pc = "lightapply" /\ pc' = "recv"
      /\ UNCHANGED <<store, status, llog, votes>>
  BY DEF FinishLightApply, Applied, At, env, net
<1>2. SameVoter(raft, AdvanceApply(raft))
  BY DEF VoteInv, Shapes, RaftOK, SameVoter, AdvanceApply
<1>3. EnvOK' /\ StoreOK(store)' /\ ReadyOK(rd)' /\ rd'.voteMsgs = {}
  BY <1>1, OffShapes DEF VoteInv, Shapes, EnvOK, StoreOK, ReadyOK, NoReady
<1> QED BY <1>1, <1>2, <1>3, QuietInv

-----------------------------------------------------------------------------
(* Crashes and the other nodes *)

LEMMA TornRaised ==
  ASSUME VoteInv, TornWrite
  PROVE  StoreOK(store') /\ Raised(store.hs, store'.hs)
<1>0. /\ StoreOK(store) /\ SnapshotOK(rd.snap) /\ TermsOf(rd.ents)
      /\ Raised(store.hs, store.hs)
  BY RaisedRefl DEF VoteInv, Shapes, ReadyOK
<1>1. CASE store' \in ApplySnapshotTorn(store, rd.snap)
  BY <1>0, <1>1, ApplySnapshotTornStore
<1>2. CASE store' \in AppendTorn(store, rd.ents)
  BY <1>0, <1>2, AppendTornStore
<1>3. ASSUME NEW s, StoreOK(s), s.hs = store.hs, TornSnapshot(s)
      PROVE  StoreOK(store') /\ Raised(store.hs, store'.hs)
  BY <1>0, <1>3, CompactStore DEF TornSnapshot
<1>4. ASSUME NEW i, TornApply(i, rd.committed[i].kind)
      PROVE  StoreOK(store') /\ Raised(store.hs, store'.hs)
  BY <1>0, <1>3, <1>4, ConfStore DEF TornApply
<1> QED BY <1>0, <1>1, <1>2, <1>3, <1>4 DEF TornWrite

LEMMA CrashInv ==
  ASSUME VoteInv, Crash
  PROVE  VoteInv'
<1>1. StoreOK(store') /\ Raised(store.hs, store'.hs)
  <2>1. CASE store' = store
    BY <2>1, RaisedRefl DEF VoteInv, Shapes
  <2>2. CASE TornWrite
    BY <2>2, TornRaised
  <2> QED BY <2>1, <2>2 DEF Crash
<1> QED BY <1>1, DownInv DEF Crash, env, net

LEMMA EnvironmentInv ==
  ASSUME VoteInv, Environment
  PROVE  VoteInv'
<1>1. UNCHANGED <<store, status, raft, pc, rd, votes>> /\ pc = "recv"
  BY DEF Environment, OtherLeader, OtherPropose, OtherCommit, volatile, net
<1>2. LastTerm \in Nat /\ LastTerm <= MaxTerm /\ MaxTerm \in Nat
  BY LastTermNumber, NodeAssumption DEF Terms
<1>3. EnvOK'
  <2>1. CASE OtherLeader
    <3>1. PICK t \in LastTerm + 1 .. MaxTerm, u \in 0 .. LastTerm : \E n :
            llog' = [llog EXCEPT ![t] = Put(Slice(llog[u], 1, n), n + 1, Noop(t))]
      BY <2>1 DEF OtherLeader
    <3>2. PICK n : llog' = [llog EXCEPT ![t] = Put(Slice(llog[u], 1, n), n + 1, Noop(t))]
      BY <3>1
    <3>3. TermsOf(llog[u]) /\ Noop(t).term \in Nat
      BY <1>2 DEF VoteInv, Shapes, EnvOK, Terms, Noop
    <3>4. TermsOf(Put(Slice(llog[u], 1, n), n + 1, Noop(t)))
      BY <3>3, SliceTerms, PutTerms
    <3> QED BY <3>2, <3>4, PutLog DEF VoteInv, Shapes
  <2>2. CASE OtherPropose
    <3> DEFINE l == llog[LastTerm]
    <3>1. PICK k \in Kinds :
            llog' = [llog EXCEPT ![LastTerm] =
                       Put(@, Len(@) + 1, [term |-> LastTerm, kind |-> k])]
      BY <2>2 DEF OtherPropose
    <3>2. TermsOf(l) /\ LastTerm \in DOMAIN llog
      BY LastTermNumber DEF VoteInv, Shapes, EnvOK
    <3>3. TermsOf(Put(l, Len(l) + 1, [term |-> LastTerm, kind |-> k]))
      BY <1>2, <3>2, PutTerms
    <3> QED BY <3>1, <3>2, <3>3, PutLog DEF VoteInv, Shapes
  <2>3. CASE OtherCommit
    BY <2>3 DEF OtherCommit, VoteInv, Shapes, EnvOK
  <2> QED BY <2>1, <2>2, <2>3 DEF Environment
<1>4. SameVoter(raft, raft') /\ StoreOK(store)' /\ ReadyOK(rd)'
  BY <1>1, SameVoterRefl DEF VoteInv, Shapes, StoreOK, ReadyOK
<1> QED BY <1>1, <1>3, <1>4, QuietInv

-----------------------------------------------------------------------------
(* The theorem *)

LEMMA InitInv == Init => VoteInv
<1> SUFFICES ASSUME Init PROVE VoteInv
  OBVIOUS
<1>1. Shapes
  BY OffShapes DEF Init, Shapes, EnvOK, EmptyStore, StoreOK, DefaultHardState, HardStateOK,
                   DefaultSnapshot, SnapshotOK, TermsOf
<1> QED BY <1>1 DEF Init, VoteInv, StoreRemembers, RaftRemembers, VoteHandedOutStored, ReadyCarries,
                    PromisesAgree, OneVotePerTerm

LEMMA NextInv == VoteInv /\ [Next]_vars => VoteInv'
<1> SUFFICES ASSUME VoteInv, [Next]_vars PROVE VoteInv'
  OBVIOUS
<1>1. CASE Bootstrap
  BY <1>1, BootstrapInv
<1>2. CASE Receive
  BY <1>2, RecvNothingInv, RecvAppendInv, RecvSnapshotInv, RecvRequestVoteInv,
     RecvVoteQuorumInv, ProposeInv, RecvAckQuorumInv, CampaignInv, DemoteInv,
     RpcCreateSnapshotInv
  DEF Receive
<1>3. CASE OnReady
  BY <1>3, TickAndReadyInv, RestoreSnapshotInv, ApplyEntryInv, AppendReadyInv,
     WriteHardStateInv, SendPersistedInv, WriteLightCommitInv, FinishLightApplyInv
  DEF OnReady
<1>4. CASE Crash
  BY <1>4, CrashInv
<1>5. CASE Environment
  BY <1>5, EnvironmentInv
<1>6. CASE UNCHANGED vars
  BY <1>6 DEF vars, VoteInv, Shapes, EnvOK, StoreRemembers, RaftRemembers, VoteHandedOutStored,
              VoteHandedOut, ReadyCarries, PromisesAgree, OneVotePerTerm, Promised
<1> QED BY <1>1, <1>2, <1>3, <1>4, <1>5, <1>6 DEF Next

\* A node never casts two votes in one term, across any number of crashes in
\* the middle of any storage operation, for both backends: on_ready stores the
\* hard state before it sends the persisted messages, and neither
\* apply_snapshot nor bootstrap makes the stored term or vote forget.
THEOREM VotesSurviveCrashes == Spec => []OneVotePerTerm
<1>1. VoteInv => OneVotePerTerm
  BY DEF VoteInv, PromisesAgree
<1> QED BY InitInv, NextInv, <1>1, PTL DEF Spec
=============================================================================
