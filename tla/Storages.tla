------------------------------ MODULE Storages -----------------------------
(***************************************************************************)
(* The storage implementations at work.  One thread makes the calls of     *)
(* StorageCalls on a log directory that HeedStorage or RocksDBStorage      *)
(* keeps, write by write, and the process may die between two writes; a    *)
(* MemStorage is given the same calls.  The write lock (wl) is held from   *)
(* Begin to Return: readers wait for it, so reads are compared when `call` *)
(* is Idle.                                                                *)
(***************************************************************************)
EXTENDS HeedStorage, RocksDBStorage, MemStorage

CONSTANTS
  MaxIndex, MaxTerm, MaxConf,   \* bounds, see StorageCalls
  MaxCalls,                     \* bound: number of calls
  MaxCrashes,                   \* bound: number of crashes
  ArchiveThreshold              \* Config.compacted_log_size_threshold

ASSUME StoragesAssumption ==
  MaxIndex \in Nat /\ MaxTerm \in Nat /\ MaxConf \in Nat /\ MaxCalls \in Nat /\ MaxCrashes \in Nat

VARIABLES
  engine,      \* "heed" or "rocksdb"
  db,          \* the tables on disk
  call,        \* the call that holds the write lock, or Idle
  before,      \* history: the tables when the call began
  txn,         \* heed: the tables inside the open transaction
  todo,        \* the writes the call still has to make
  archive,     \* heed: the file of compacted entries
  raft,        \* raft-rs's own [last, commit], read from the store at a start
  mem,         \* a MemStorage given the same calls, until a crash
  calls, crashes

vars == <<engine, db, call, before, txn, todo, archive, raft, mem, calls, crashes>>

Idle == [op |-> "none"]

\* The tables as a record of StableStorage.
View(d) ==
  LET held == {d.log[k].index : k \in DOMAIN d.log}
      row(i) == d.log[CHOOSE k \in DOMAIN d.log : d.log[k].index = i]
  IN  [entries |-> [i \in held |-> [term |-> row(i).term]],
       last |-> Meta(d, "last_index", 0),
       hs   |-> Meta(d, "hard_state", DefaultHardState),
       conf |-> Meta(d, "conf_state", 0),
       snap |-> Meta(d, "snapshot", DefaultSnapshot)]

\* What the rest of the program can see: nothing of a call before it returns.
Visible == IF call = Idle THEN View(db) ELSE View(before)

Heed == INSTANCE StorageCalls WITH
  Backend <- "heed", store <- IF engine = "heed" THEN Visible ELSE EmptyStore

Rocks == INSTANCE StorageCalls WITH
  Backend <- "rocksdb", store <- IF engine = "rocksdb" THEN Visible ELSE EmptyStore

-----------------------------------------------------------------------------

Init ==
  /\ engine \in {"heed", "rocksdb"}
  /\ db = EmptyTables /\ before = EmptyTables /\ txn = EmptyTables
  /\ call = Idle /\ todo = <<>> /\ archive = <<>>
  /\ raft = [last |-> 0, commit |-> 0] /\ mem = MemCreate
  /\ calls = 0 /\ crashes = 0

\* What raft-rs asks for, in terms of its own log: it appends behind what is
\* committed, commits what it has, compacts and snapshots what is committed.
Asked(c) ==
  CASE c.op = "append" -> Min(DOMAIN c.ents) \in raft.commit + 1 .. raft.last + 1
    [] c.op = "set_hard_state" -> c.hs.commit \in raft.commit .. raft.last
    [] c.op = "set_hard_state_commit" -> c.commit \in raft.commit .. raft.last
    [] c.op = "create_snapshot" -> c.snap.index <= raft.commit
    [] c.op = "apply_snapshot" -> c.snap.index > raft.commit \/ raft.last = 0
    [] c.op = "compact" -> c.index <= raft.commit
    [] OTHER -> TRUE

RaftAfter(c) ==
  CASE c.op = "append" -> [raft EXCEPT !.last = Max(DOMAIN c.ents)]
    [] c.op = "set_hard_state" -> [raft EXCEPT !.commit = c.hs.commit]
    [] c.op = "set_hard_state_commit" -> [raft EXCEPT !.commit = c.commit]
    [] c.op = "apply_snapshot" -> [last |-> c.snap.index, commit |-> c.snap.index]
    [] OTHER -> raft

\* The write lock is taken; heed opens its transaction.
Begin(c) ==
  /\ call = Idle /\ calls < MaxCalls /\ raft.commit <= raft.last
  /\ c \in Heed!Calls(View(db)) /\ Asked(c)
  /\ call' = c /\ before' = db /\ txn' = db /\ calls' = calls + 1
  /\ todo' = IF engine = "heed" THEN HeedWrites(db, c, archive, ArchiveThreshold)
             ELSE RocksWrites(db, c)
  /\ UNCHANGED <<engine, db, archive, raft, mem, crashes>>

\* The next write of the call: to a file at once, to the tables inside heed's
\* transaction or, for RocksDB, on disk.
Write ==
  /\ todo # <<>> /\ todo' = Tail(todo)
  /\ LET w == Head(todo)
     IN  \/ w.table = "file" /\ archive' = w.value /\ UNCHANGED <<db, txn>>
         \/ w.table # "file" /\ engine = "heed"
            /\ txn' = Written(txn, w) /\ UNCHANGED <<db, archive>>
         \/ w.table # "file" /\ engine = "rocksdb"
            /\ db' = Written(db, w) /\ UNCHANGED <<txn, archive>>
  /\ UNCHANGED <<engine, call, before, raft, mem, calls, crashes>>

Return ==
  /\ call # Idle /\ todo = <<>>
  /\ db' = IF engine = "heed" /\ HeedCommits(call) THEN txn ELSE db
  /\ call' = Idle /\ raft' = RaftAfter(call)
  /\ mem' = IF crashes = 0 THEN MemDone(mem, call) ELSE mem
  /\ before' = EmptyTables /\ txn' = EmptyTables
  /\ UNCHANGED <<engine, todo, archive, calls, crashes>>

\* The process dies and starts again: an open transaction is gone, raft-rs
\* reads its state from the store, a MemStorage starts empty.
Crash ==
  /\ crashes < MaxCrashes /\ crashes' = crashes + 1
  /\ call' = Idle /\ todo' = <<>> /\ before' = EmptyTables /\ txn' = EmptyTables
  /\ raft' = [last |-> View(db).last, commit |-> View(db).hs.commit]
  /\ mem' = MemCreate
  /\ UNCHANGED <<engine, db, archive, calls>>

Next ==
  \/ \E c \in Heed!Calls(View(db)) : Begin(c)
  \/ Write
  \/ Return
  \/ Crash

Spec == Init /\ [][Next]_vars

-----------------------------------------------------------------------------
(* Properties *)

\* Both engines sort the entries by the bytes of their keys: with the padding
\* of format_entry_key_string that is the order of the indices, as long as no
\* index needs more digits than the padding gives.
KeysOrdered == \A i, j \in 0 .. MaxIndex + 1 : Before(Key(i), Key(j)) <=> i < j

\* The calls of HeedStorage, write by write in a transaction, with crashes
\* anywhere, are steps of the storage the node is written against: a call
\* takes effect when it returns or not at all.
HeedImplements == Heed!Spec

\* The same for RocksDBStorage, where a crash may also leave one of the torn
\* stores of StableStorage, and nothing else.
RocksImplements == Rocks!Spec

\* The entries of a table of StableStorage in index order.
Listing(f) ==
  LET order == SetToSortSeq(DOMAIN f, <)
  IN  [n \in DOMAIN order |-> [index |-> order[n], term |-> f[order[n]].term]]

\* What the Storage trait answers from the tables is what StableStorage says of
\* them: the byte order of the padded keys is the order of the indices, so a
\* range scan, a first key and a get per index all agree.
ReadsAgree ==
  /\ KeysOrdered
  /\ call = Idle =>
       LET s == View(db)
           ranges == {r \in (FirstIndex(s) .. MaxIndex + 1) \X (1 .. MaxIndex + 1) :
                        r[1] <= r[2]}
       IN  IF engine = "heed"
           THEN /\ HeedFirstIndex(db) = FirstIndex(s) /\ HeedLastIndex(db) = LastIndex(s)
                /\ \A i \in 0 .. MaxIndex + 1 : HeedTerm(db, i) = Term(s, i)
                /\ \A r \in ranges : HeedEntries(db, r[1], r[2]) = Listing(Entries(s, r[1], r[2]))
                /\ HeedAllEntries(db) = Listing(s.entries)
                /\ HeedInitialState(db) = [hs |-> s.hs, conf |-> s.conf]
                /\ HeedSnapshot(db) = s.snap
           ELSE /\ RocksFirstIndex(db) = FirstIndex(s) /\ RocksLastIndex(db) = LastIndex(s)
                /\ \A i \in 0 .. MaxIndex + 1 : RocksTerm(db, i) = Term(s, i)
                /\ \A r \in ranges : RocksEntries(db, r[1], r[2]) = Listing(Entries(s, r[1], r[2]))
                /\ RocksAllEntries(db) = Listing(s.entries)
                /\ RocksInitialState(db) = [hs |-> s.hs, conf |-> s.conf]
                /\ RocksSnapshot(db) = s.snap

\* Until a crash, a persistent store agrees with a MemStorage given the same
\* calls on every entry the latter holds, on the conf state, the term and the
\* vote; it may hold more (what an append or a snapshot has superseded), and
\* HeedStorage may lag with the commit index.
MemAgrees ==
  call = Idle /\ crashes = 0 =>
    LET s == View(db)
    IN  /\ MemLastIndex(mem) = raft.last /\ raft.last <= LastIndex(s)
        /\ FirstIndex(s) <= MemFirstIndex(mem)
        /\ \A i \in MemFirstIndex(mem) .. MemLastIndex(mem) : MemTerm(mem, i) = Term(s, i)
        /\ mem.conf = s.conf /\ mem.hs.term = s.hs.term /\ mem.hs.vote = s.hs.vote
        /\ s.hs.commit <= mem.hs.commit /\ (engine = "rocksdb" => s.hs = mem.hs)

\* Whenever rows disappear from the entry table of HeedStorage, the file of
\* compacted logs holds them: it is written before the transaction commits.
CompactionArchivesFirst ==
  [][engine = "heed" =>
       \A k \in DOMAIN db.log \ DOMAIN db'.log : db.log[k] \in ToSet(archive')]_vars
=============================================================================
