-------------------------- MODULE KeyValueTables ---------------------------
(***************************************************************************)
(* The two tables that LMDB and RocksDB keep for a log directory: the      *)
(* entries, under the key that format_entry_key_string makes of an index   *)
(* (its digits, padded with zeros to ENTRY_KEY_LENGTH), and the metadata.  *)
(* Both engines sort keys as byte strings.  A write is a record            *)
(*   [table, key, value], or [table |-> "range", key] for a delete_range   *)
(* of every key before `key`.                                              *)
(***************************************************************************)
EXTENDS Integers, Sequences, SequencesExt

CONSTANTS Base,         \* digits are 0 .. Base - 1 (ten in the code)
          KeyLength     \* ENTRY_KEY_LENGTH (ten in the code)

ASSUME KeyAssumption == Base \in Nat \ {0, 1} /\ KeyLength \in Nat

\* index.to_string()
Digits[i \in Nat] ==
  IF i < Base THEN <<i>> ELSE Append(Digits[i \div Base], i % Base)

\* entry_key.parse::<u64>()
Parse(key) == FoldLeft(LAMBDA n, d : n * Base + d, 0, key)

\* Mutant: the key is the plain decimal string.
FormatUnpadded(key) == Digits[Parse(key)]

\* {:0width$}: at least KeyLength digits, more when the index needs them.
FormatEntryKeyString(key) ==
  LET d == Digits[Parse(key)]
  IN  [k \in 1 .. KeyLength - Len(d) |-> 0] \o d

Key(i) == FormatEntryKeyString(Digits[i])

\* Byte-string order: the first difference decides, a prefix comes first.
Before(k, l) ==
  \E n \in 0 .. Len(k) :
    /\ n <= Len(l) /\ \A j \in 1 .. n : k[j] = l[j]
    /\ \/ n = Len(k) /\ n < Len(l)
       \/ n < Len(k) /\ n < Len(l) /\ k[n + 1] < l[n + 1]

-----------------------------------------------------------------------------

EmptyTables == [log |-> <<>>, meta |-> <<>>]

\* get: the value stored under a metadata key, or the type's default.
Meta(db, key, default) == IF key \in DOMAIN db.meta THEN db.meta[key] ELSE default

PutEntry(e)      == [table |-> "log", key |-> Key(e.index), value |-> e]
PutMeta(key, v)  == [table |-> "meta", key |-> key, value |-> v]
DeleteBelow(key) == [table |-> "range", key |-> key]

\* The tables after one write.
Written(db, w) ==
  IF w.table = "range"
  THEN [db EXCEPT !.log = Restrict(@, {k \in DOMAIN @ : ~Before(k, w.key)})]
  ELSE [db EXCEPT ![w.table] = [k \in DOMAIN @ \cup {w.key} |->
                                  IF k = w.key THEN w.value ELSE @[k]]]

\* Keys in the order an iterator returns them: the n-th has n - 1 before it.
InOrder(keys) ==
  [n \in 1 .. Cardinality(keys) |->
     CHOOSE k \in keys : Cardinality({l \in keys : Before(l, k)}) = n - 1]

SortedKeys(db) == InOrder(DOMAIN db.log)

\* The values under the keys of a range, in key order.
Scan(db, low, high) ==
  LET keys == {k \in DOMAIN db.log : ~Before(k, low) /\ Before(k, high)}
      sorted == InOrder(keys)
  IN  [n \in 1 .. Len(sorted) |-> db.log[sorted[n]]]
=============================================================================
