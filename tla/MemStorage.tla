----------------------------- MODULE MemStorage ----------------------------
(***************************************************************************)
(* MemStorage of raftify: raft-rs's MemStorageCore (external, `core`) and  *)
(* a snapshot of its own.  A mem store is a record                         *)
(*   log      the entries, a sequence of [index, term]                     *)
(*   hs, conf the raft state                                               *)
(*   meta     the snapshot metadata of the core, [index, term]             *)
(*   snap     MemStorage.snapshot                                          *)
(***************************************************************************)
EXTENDS StableStorage, Sequences

MemCreate ==
  [log |-> <<>>, hs |-> DefaultHardState, conf |-> 0,
   meta |-> [index |-> 0, term |-> 0], snap |-> DefaultSnapshot]

\* MemStorageCore: first_index, last_index, term.
MemFirstIndex(m) == IF m.log = <<>> THEN m.meta.index + 1 ELSE m.log[1].index
MemLastIndex(m)  == IF m.log = <<>> THEN m.meta.index ELSE m.log[Len(m.log)].index

MemTerm(m, i) ==
  IF i = m.meta.index THEN m.meta.term
  ELSE IF i < MemFirstIndex(m) THEN Compacted
  ELSE IF i > MemLastIndex(m) THEN Unavailable
  ELSE m.log[i - MemFirstIndex(m) + 1].term

\* Mutant: append extends the log without cutting it.
MemAppendKeepsTail(m, e) ==
  [m EXCEPT !.log = @ \o [n \in 1 .. Cardinality(DOMAIN e) |->
     LET i == Min(DOMAIN e) + n - 1 IN [index |-> i, term |-> e[i].term]]]

\* MemStorageCore::append drops the entries from the first new one on.
MemAppend(m, e) ==
  IF DOMAIN e = {} THEN m
  ELSE [m EXCEPT !.log =
          SubSeq(@, 1, Min(DOMAIN e) - MemFirstIndex(m))
            \o [n \in 1 .. Cardinality(DOMAIN e) |->
                  LET i == Min(DOMAIN e) + n - 1 IN [index |-> i, term |-> e[i].term]]]

MemSetHardState(m, hs) == [m EXCEPT !.hs = hs]

MemSetHardStateCommit(m, c) == [m EXCEPT !.hs.commit = c]

MemSetConfState(m, conf) == [m EXCEPT !.conf = conf]

\* create_snapshot: the core's own snapshot with the caller's index and term;
\* it is kept beside the core.
MemCreateSnapshot(m, snap) == [m EXCEPT !.snap = [snap EXCEPT !.conf = m.conf]]

\* apply_snapshot: an empty snapshot sets the conf state only.  Another one
\* goes to the core, which refuses it when it is older than the log and
\* clears the log; MemStorage.snapshot is left alone.
MemApplySnapshot(m, snap) ==
  IF snap.index = 0 THEN [m EXCEPT !.conf = snap.conf]
  ELSE IF MemFirstIndex(m) > snap.index THEN m
  ELSE [m EXCEPT !.meta = [index |-> snap.index, term |-> snap.term],
                 !.hs.term = Max({@, snap.term}), !.hs.commit = snap.index,
                 !.log = <<>>, !.conf = snap.conf]

\* MemStorageCore::compact ignores an index it has already dropped.
MemCompact(m, index) ==
  IF index <= MemFirstIndex(m) THEN m
  ELSE [m EXCEPT !.log = SubSeq(@, index - MemFirstIndex(m) + 1, Len(@))]

MemDone(m, c) ==
  CASE c.op = "append"                -> MemAppend(m, c.ents)
    [] c.op = "set_hard_state"        -> MemSetHardState(m, c.hs)
    [] c.op = "set_hard_state_commit" -> MemSetHardStateCommit(m, c.commit)
    [] c.op = "set_conf_state"        -> MemSetConfState(m, c.conf)
    [] c.op = "create_snapshot"       -> MemCreateSnapshot(m, c.snap)
    [] c.op = "apply_snapshot"        -> MemApplySnapshot(m, c.snap)
    [] c.op = "compact"               -> MemCompact(m, c.index)
=============================================================================
