---------------------------- MODULE HeedStorage ----------------------------
(***************************************************************************)
(* HeedStorage: every call of the trait takes the write lock, opens one    *)
(* LMDB write transaction, makes the writes below in it and commits it.    *)
(* The operators named Heed... are the reads and the writes of one call on *)
(* the tables of the log directory.                                        *)
(***************************************************************************)
EXTENDS KeyValueTables, StableStorage

HeedHardState(db) == Meta(db, "hard_state", DefaultHardState)
HeedConfState(db) == Meta(db, "conf_state", 0)
HeedSnapshot(db)  == Meta(db, "snapshot", DefaultSnapshot)
HeedLastIndex(db) == Meta(db, "last_index", 0)

\* first_index parses the first key of the table.
HeedFirstIndex(db) ==
  IF DOMAIN db.log = {} THEN HeedSnapshot(db).index + 1
  ELSE Parse(SortedKeys(db)[1])

\* term: the snapshot first, then a get of the key.
HeedTerm(db, i) ==
  IF i = HeedSnapshot(db).index THEN HeedSnapshot(db).term
  ELSE IF Key(i) \in DOMAIN db.log THEN db.log[Key(i)].term
  ELSE IF i < HeedFirstIndex(db) THEN Compacted
  ELSE Unavailable

\* entries(low, high): one range scan over the keys.
HeedEntries(db, low, high) == Scan(db, Key(low), Key(high))

HeedAllEntries(db) == [n \in DOMAIN SortedKeys(db) |-> db.log[SortedKeys(db)[n]]]

HeedInitialState(db) == [hs |-> HeedHardState(db), conf |-> HeedConfState(db)]

-----------------------------------------------------------------------------
(* The writes of one call, in the order the code makes them *)

\* Mutant: LAST_INDEX_KEY is set to the last appended entry.
HeedAppendResets(db, e) ==
  [n \in 1 .. Cardinality(DOMAIN e) |->
     LET i == Min(DOMAIN e) + n - 1 IN PutEntry([index |-> i, term |-> e[i].term])]
    \o <<PutMeta("last_index", Max(DOMAIN e))>>

HeedAppend(db, e) ==
  IF DOMAIN e = {} THEN <<>>
  ELSE [n \in 1 .. Cardinality(DOMAIN e) |->
          LET i == Min(DOMAIN e) + n - 1 IN PutEntry([index |-> i, term |-> e[i].term])]
       \o <<PutMeta("last_index", Max({HeedLastIndex(db)} \cup DOMAIN e))>>

HeedSetHardState(db, hs) == <<PutMeta("hard_state", hs)>>

HeedSetHardStateCommit(db, c) ==
  <<PutMeta("hard_state", [HeedHardState(db) EXCEPT !.commit = c])>>

HeedSetConfState(db, conf) == <<PutMeta("conf_state", conf)>>

HeedCreateSnapshot(db, snap) ==
  <<PutMeta("snapshot", [snap EXCEPT !.conf = HeedConfState(db)])>>

HeedApplySnapshot(db, snap) ==
  <<PutMeta("hard_state",
            [HeedHardState(db) EXCEPT !.term = Max({@, snap.term}), !.commit = snap.index]),
    PutMeta("conf_state", snap.conf), PutMeta("last_index", snap.index),
    PutMeta("snapshot", snap)>>

\* The entries that compact(index) is about to delete.
Doomed(db, index) == Scan(db, <<>>, Key(index))

\* append_compacted_logs reads the file, cuts it to length zero ...
ArchiveCut(file, batch) == IF batch = <<>> THEN file ELSE <<>>

\* Mutant: a file over the threshold is left as it is.
SaveCompactedEntriesSkips(file, batch, threshold) ==
  IF Len(file) > threshold THEN file ELSE file \o batch

\* ... and writes back the old contents and the new batch.  A file over the
\* threshold has been removed by save_compacted_entries before, even when the
\* batch is empty.
SaveCompactedEntries(file, batch, threshold) ==
  IF Len(file) > threshold THEN batch ELSE file \o batch

\* compact, with save_compacted_logs set: the file is rewritten before the
\* range of keys below index is deleted.
HeedCompact(db, index, file, threshold) ==
  LET batch == Doomed(db, index)
  IN  <<[table |-> "file", value |-> ArchiveCut(file, batch)],
        [table |-> "file", value |-> SaveCompactedEntries(file, batch, threshold)],
        DeleteBelow(Key(index))>>

HeedWrites(db, c, file, threshold) ==
  CASE c.op = "append"                -> HeedAppend(db, c.ents)
    [] c.op = "set_hard_state"        -> HeedSetHardState(db, c.hs)
    [] c.op = "set_hard_state_commit" -> HeedSetHardStateCommit(db, c.commit)
    [] c.op = "set_conf_state"        -> HeedSetConfState(db, c.conf)
    [] c.op = "create_snapshot"       -> HeedCreateSnapshot(db, c.snap)
    [] c.op = "apply_snapshot"        -> HeedApplySnapshot(db, c.snap)
    [] c.op = "compact"               -> HeedCompact(db, c.index, file, threshold)

\* The call ends with writer.commit(); set_hard_state_commit has no commit, so
\* its transaction is aborted when `writer` is dropped.
HeedCommits(c) == c.op # "set_hard_state_commit"
=============================================================================
