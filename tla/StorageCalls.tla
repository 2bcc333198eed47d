---------------------------- MODULE StorageCalls ---------------------------
(***************************************************************************)
(* What a StableStorage promises to the node: each call of the trait is    *)
(* one step on the record `store` of StableStorage, or, when the process   *)
(* dies in the middle of a call, one of the torn stores of that module.    *)
(* This is the interface RaftNode is written against; Storages shows that  *)
(* the two key-value implementations provide it.                           *)
(***************************************************************************)
EXTENDS StableStorage, Sequences

CONSTANTS
  MaxIndex,      \* bound: longest log
  MaxTerm,       \* bound: highest term
  MaxConf        \* bound: conf states are 0 .. MaxConf

VARIABLE store

Terms == 1 .. MaxTerm

\* A batch of entries lo .. hi of one term, as on_ready passes it to append.
Batch(lo, hi, t) == [i \in lo .. hi |-> [term |-> t]]

Snapshot(i, t, c) == [index |-> i, term |-> t, data |-> <<i>>, conf |-> c]

AppendCalls(s) ==
  {[op |-> "append", ents |-> Batch(lo, hi, t)] :
     lo \in {i \in FirstIndex(s) .. s.last + 1 : i > s.hs.commit /\ i > s.snap.index},
     hi \in 1 .. MaxIndex, t \in {u \in Terms : u >= s.hs.term}}
    \ {[op |-> "append", ents |-> <<>>]}

\* One vote per term is enough to see it kept or lost.
HardStateCalls(s) ==
  {[op |-> "set_hard_state", hs |-> [term |-> t, vote |-> t, commit |-> c]] :
     t \in {u \in Terms : u >= s.hs.term}, c \in s.hs.commit .. MaxIndex}
  \cup {[op |-> "set_hard_state_commit", commit |-> c] : c \in s.hs.commit .. MaxIndex}

SnapshotCalls(s) ==
  {[op |-> "create_snapshot", snap |-> Snapshot(i, Term(s, i), s.conf)] :
     i \in {j \in s.snap.index + 1 .. s.last : Term(s, j) > 0}}
  \cup {[op |-> "apply_snapshot", snap |-> Snapshot(i, t, c)] :
     i \in s.hs.commit + 1 .. MaxIndex, t \in Terms, c \in {MaxConf}}
  \cup {[op |-> "apply_snapshot", snap |-> [s.snap EXCEPT !.conf = c]] :
     c \in {k \in 0 .. MaxConf : s.last = 0}}

OtherCalls(s) ==
  {[op |-> "set_conf_state", conf |-> c] : c \in 0 .. MaxConf}
  \cup {[op |-> "compact", index |-> i] : i \in 1 .. s.last}

\* The calls a node makes: it appends above what is committed, without a gap.
Calls(s) ==
  AppendCalls(s) \cup HardStateCalls(s) \cup SnapshotCalls(s) \cup OtherCalls(s)

\* What a completed call does.
Done(s, c) ==
  CASE c.op = "append"                -> AppendEntries(s, c.ents)
    [] c.op = "set_hard_state"        -> SetHardState(s, c.hs)
    [] c.op = "set_hard_state_commit" -> SetHardStateCommit(s, c.commit)
    [] c.op = "set_conf_state"        -> SetConfState(s, c.conf)
    [] c.op = "create_snapshot"       ->
         CreateSnapshot(s, c.snap.data, c.snap.index, c.snap.term)
    [] c.op = "apply_snapshot"        -> ApplySnapshot(s, c.snap)
    [] c.op = "compact"               -> Compact(s, c.index)

\* What a call the process did not survive may leave.
Torn(s, c) ==
  CASE c.op = "append"         -> AppendTorn(s, c.ents)
    [] c.op = "apply_snapshot" -> ApplySnapshotTorn(s, c.snap)
    [] OTHER                   -> {}

Init == store = EmptyStore

Next == \E c \in Calls(store) : store' \in {Done(store, c)} \cup Torn(store, c)

Spec == Init /\ [][Next]_store
=============================================================================
