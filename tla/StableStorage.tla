--------------------------- MODULE StableStorage ---------------------------
(***************************************************************************)
(* The StableStorage trait of raftify and its two persistent               *)
(* implementations, HeedStorage (LMDB) and RocksDBStorage, as operators on *)
(* the durable state of one node.  A store is a record                     *)
(*                                                                         *)
(*   entries  a function from log indices to entries (a key-value table:   *)
(*            nothing forces its domain to be an interval)                 *)
(*   last     the separately stored LAST_INDEX_KEY                         *)
(*   hs       the hard state [term, vote, commit]                          *)
(*   conf     the conf state, named by the index of the entry that set it  *)
(*   snap     the one stored snapshot [index, term, data, conf]            *)
(*                                                                         *)
(* HeedStorage runs every operation in one LMDB transaction.               *)
(* RocksDBStorage writes the same keys with separate puts, so a crash in   *)
(* the middle of an operation leaves a proper prefix of its writes: the    *)
(* operators named ...Torn give those intermediate stores.                 *)
(***************************************************************************)
EXTENDS Integers, Functions, FiniteSetsExt

CONSTANT Backend      \* which StableStorage implementation: "heed" or "rocksdb"

ASSUME BackendAssumption == Backend \in {"heed", "rocksdb"}

NoVote == 0

DefaultHardState == [term |-> 0, vote |-> NoVote, commit |-> 0]

\* Snapshot::default(): what an empty store answers, and what a node that
\* boots for the first time applies (with the initial voters, conf 0).
DefaultSnapshot == [index |-> 0, term |-> 0, data |-> <<>>, conf |-> 0]

EmptyStore ==
  [entries |-> <<>>, last |-> 0, hs |-> DefaultHardState, conf |-> 0,
   snap |-> DefaultSnapshot]

\* The entries of the table g with an index satisfying lo <= i <= hi.
Slice(g, lo, hi) == Restrict(g, {i \in DOMAIN g : lo <= i /\ i <= hi})

\* The table g after a put of every entry of the table e.
PutAll(g, e) ==
  [i \in DOMAIN g \cup DOMAIN e |-> IF i \in DOMAIN e THEN e[i] ELSE g[i]]

\* The table g with one more entry, at index i.
Put(g, i, entry) == PutAll(g, [j \in {i} |-> entry])

-----------------------------------------------------------------------------
(* Reads *)

\* first_index: the smallest key of the table, or one past the snapshot.
FirstIndex(s) ==
  IF DOMAIN s.entries = {} THEN s.snap.index + 1 ELSE Min(DOMAIN s.entries)

LastIndex(s) == s.last

\* The two errors of Storage::term.
Compacted   == -1
Unavailable == -2

\* term: the snapshot's index is asked first, then the table.
Term(s, i) ==
  IF i = s.snap.index THEN s.snap.term
  ELSE IF i \in DOMAIN s.entries THEN s.entries[i].term
  ELSE IF i < FirstIndex(s) THEN Compacted
  ELSE Unavailable

\* entries(low, high) without a size limit: a range query, which skips the
\* indices the table does not hold.  Callers keep low >= FirstIndex(s).
Entries(s, low, high) == Slice(s.entries, low, high - 1)

-----------------------------------------------------------------------------
(* Writes *)

\* Mutants of append: it loses the write; the last entry is not counted in
\* LAST_INDEX_KEY.
AppendEntriesLost(s, e) == s

AppendEntriesShortLast(s, e) ==
  IF DOMAIN e = {} THEN s
  ELSE [s EXCEPT !.entries = PutAll(@, e), !.last = Max({@, Max(DOMAIN e) - 1})]

\* append: the entries are put over whatever the table holds; the keys above
\* the last appended entry are left in place and last never decreases.
AppendEntries(s, e) ==
  IF DOMAIN e = {} THEN s
  ELSE [s EXCEPT !.entries = PutAll(@, e), !.last = Max({@} \cup DOMAIN e)]

\* The logger.fatal conditions of append, which panic.  Only HeedStorage
\* looks at the first index.
AppendPanics(s, e) ==
  /\ DOMAIN e # {}
  /\ \/ Backend = "heed" /\ FirstIndex(s) > Min(DOMAIN e)
     \/ s.last + 1 < Min(DOMAIN e)

\* RocksDB puts the entries one by one and the last index at the end.
AppendTorn(s, e) ==
  IF Backend = "heed" THEN {}
  ELSE {[s EXCEPT !.entries = PutAll(@, Slice(e, 0, k))] : k \in DOMAIN e}

\* compact: delete the range of keys below index.
Compact(s, index) ==
  [s EXCEPT !.entries = Restrict(@, {i \in DOMAIN @ : i >= index})]

\* Mutant of set_hard_state: the transaction is not committed.
SetHardStateLost(s, hs) == s

SetHardState(s, hs) == [s EXCEPT !.hs = hs]

\* Mutant of set_hard_state_commit: no backend commits the transaction.
SetHardStateCommitLost(s, commit) == s

\* set_hard_state_commit: HeedStorage opens a write transaction that it never
\* commits, so LMDB aborts it and the store does not change.
SetHardStateCommit(s, commit) ==
  IF Backend = "heed" THEN s ELSE [s EXCEPT !.hs.commit = commit]

SetConfState(s, conf) == [s EXCEPT !.conf = conf]

\* create_snapshot: the conf state is the stored one, index and term are the
\* caller's.
CreateSnapshot(s, data, index, term) ==
  [s EXCEPT !.snap = [index |-> index, term |-> term, data |-> data,
                      conf |-> s.conf]]

\* Mutant of apply_snapshot: the stored term is overwritten without a
\* comparison.
SnapshotHardStateReset(s, snap) ==
  [s.hs EXCEPT !.term = snap.term, !.commit = snap.index]

\* The hard state apply_snapshot writes: it keeps the stored vote.
SnapshotHardState(s, snap) ==
  [s.hs EXCEPT !.term = IF @ < snap.term THEN snap.term ELSE @,
               !.commit = snap.index]

\* apply_snapshot: hard state, conf state, last index and snapshot, in this
\* order.  The table of entries is not touched, and the check that would
\* refuse an outdated snapshot is commented out in the code.
ApplySnapshot(s, snap) ==
  [s EXCEPT !.hs = SnapshotHardState(s, snap), !.conf = snap.conf,
            !.last = snap.index, !.snap = snap]

ApplySnapshotTorn(s, snap) ==
  IF Backend = "heed" THEN {}
  ELSE LET s1 == [s  EXCEPT !.hs = SnapshotHardState(s, snap)]
           s2 == [s1 EXCEPT !.conf = snap.conf]
           s3 == [s2 EXCEPT !.last = snap.index]
       IN  {s1, s2, s3}
=============================================================================
