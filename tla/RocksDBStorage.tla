--------------------------- MODULE RocksDBStorage --------------------------
(***************************************************************************)
(* RocksDBStorage: every call of the trait takes the write lock and makes  *)
(* the writes below with separate put_cf / delete_range_cf calls, each of  *)
(* them durable by itself.                                                 *)
(***************************************************************************)
EXTENDS KeyValueTables, StableStorage

RocksHardState(db) == Meta(db, "hard_state", DefaultHardState)
RocksConfState(db) == Meta(db, "conf_state", 0)
RocksSnapshot(db)  == Meta(db, "snapshot", DefaultSnapshot)
RocksLastIndex(db) == Meta(db, "last_index", 0)

\* first_index decodes the first value of the table.
RocksFirstIndex(db) ==
  IF DOMAIN db.log = {} THEN RocksSnapshot(db).index + 1
  ELSE db.log[SortedKeys(db)[1]].index

RocksTerm(db, i) ==
  IF i = RocksSnapshot(db).index THEN RocksSnapshot(db).term
  ELSE IF Key(i) \in DOMAIN db.log THEN db.log[Key(i)].term
  ELSE IF i < RocksFirstIndex(db) THEN Compacted
  ELSE Unavailable

\* entries(low, high): a get for every index, the missing ones are skipped.
RocksEntries(db, low, high) ==
  LET present == SelectSeq([n \in 1 .. high - low |-> low + n - 1],
                           LAMBDA i : Key(i) \in DOMAIN db.log)
  IN  [n \in DOMAIN present |-> db.log[Key(present[n])]]

RocksAllEntries(db) == [n \in DOMAIN SortedKeys(db) |-> db.log[SortedKeys(db)[n]]]

RocksInitialState(db) == [hs |-> RocksHardState(db), conf |-> RocksConfState(db)]

-----------------------------------------------------------------------------
(* The writes of one call, in the order the code makes them *)

\* Mutant: LAST_INDEX_KEY is put before the entries.
RocksAppendLastFirst(db, e) ==
  <<PutMeta("last_index", Max({RocksLastIndex(db)} \cup DOMAIN e))>>
    \o [n \in 1 .. Cardinality(DOMAIN e) |->
          LET i == Min(DOMAIN e) + n - 1 IN PutEntry([index |-> i, term |-> e[i].term])]

RocksAppend(db, e) ==
  IF DOMAIN e = {} THEN <<>>
  ELSE [n \in 1 .. Cardinality(DOMAIN e) |->
          LET i == Min(DOMAIN e) + n - 1 IN PutEntry([index |-> i, term |-> e[i].term])]
       \o <<PutMeta("last_index", Max({RocksLastIndex(db)} \cup DOMAIN e))>>

RocksSetHardState(db, hs) == <<PutMeta("hard_state", hs)>>

RocksSetHardStateCommit(db, c) ==
  <<PutMeta("hard_state", [RocksHardState(db) EXCEPT !.commit = c])>>

RocksSetConfState(db, conf) == <<PutMeta("conf_state", conf)>>

RocksCreateSnapshot(db, snap) ==
  <<PutMeta("snapshot", [snap EXCEPT !.conf = RocksConfState(db)])>>

RocksApplySnapshot(db, snap) ==
  <<PutMeta("hard_state",
            [RocksHardState(db) EXCEPT !.term = Max({@, snap.term}), !.commit = snap.index]),
    PutMeta("conf_state", snap.conf), PutMeta("last_index", snap.index),
    PutMeta("snapshot", snap)>>

\* delete_range_cf from the key of index 0.
RocksCompact(db, index) == <<DeleteBelow(Key(index))>>

RocksWrites(db, c) ==
  CASE c.op = "append"                -> RocksAppend(db, c.ents)
    [] c.op = "set_hard_state"        -> RocksSetHardState(db, c.hs)
    [] c.op = "set_hard_state_commit" -> RocksSetHardStateCommit(db, c.commit)
    [] c.op = "set_conf_state"        -> RocksSetConfState(db, c.conf)
    [] c.op = "create_snapshot"       -> RocksCreateSnapshot(db, c.snap)
    [] c.op = "apply_snapshot"        -> RocksApplySnapshot(db, c.snap)
    [] c.op = "compact"               -> RocksCompact(db, c.index)
=============================================================================
