# A TLA+ model of raftify

raftify is a Rust library that turns an application state machine into a
replicated one. It drives the Raft implementation of raft-rs: it owns the event
loop, the storage, the transport (gRPC), the client requests and the
membership of the cluster. This directory models the parts of raftify whose
correctness depends on the order of steps, on crashes and on other nodes, checks
them with TLC on small instances, and proves the most important safety properties with
TLAPS for every value of the constants: a node never votes twice in a term, its stored
hard state never goes back, a node restarts after every crash, its state machine follows the
committed log and what it acknowledged stays, the answers given to clients and to joining
processes are true as long as the first leader stays, and nobody is left waiting by a loop that
has ended. A refinement, also proved, connects the two levels at which storage
is described.

raft-rs is a git submodule whose files are not part of the repository. It is
modelled from how raftify uses it and marked external in `PROJECT.json`.

Paths below are relative to `src/raftify/src/`.

## 1. Inventory

| Component | State | Operations | Interacts with |
|---|---|---|---|
| Event loop, `raft_node/mod.rs` (`RaftNodeCore`) | `raw_node`, `fsm`, `peers`, `response_seq`, `response_senders`, `should_exit`, `last_snapshot_created` | `bootstrap`, `run`, `on_ready`, `handle_committed_*`, `make_snapshot`, the `handle_*_msg` families | raft-rs, storage and state machine by calls; servers and handles by channels with a oneshot per request; peers by gRPC |
| Storage, `storage/heed_storage`, `storage/rocksdb_storage` | table of entries, last index, hard state, conf state, one snapshot | `append`, `compact`, `set_hard_state`, `set_hard_state_commit`, `set_conf_state`, `create_snapshot`, `apply_snapshot`, and the reads raft-rs makes | called by the event loop and by raft-rs |
| raft-rs (`RawNode`), external | term, vote, role, log, commit and applied index | `step`, `tick`, `propose`, `ready`, `advance`, `advance_apply` | called by the event loop |
| Server, `raft_server.rs` | none | `propose`, `change_config`, `request_id`, `send_message`, `create_snapshot`, `set_peers`, ... | sends to the event loop and waits for the answer; forwards to the leader's server |
| Handle, `raft_node/mod.rs` (`RaftNode`) | none | the same requests from inside the process | the event loop |
| Peers, `peers.rs`, `peer.rs` | address, role and client of every node | `add_peer`, `reserve_id`, `connect`, `replace` | shared by the event loop and the tasks that send messages, behind a mutex |
| Bootstrapper, `raft_bootstrapper.rs` | the two channels | `bootstrap`, `run`, `request_id` | creates the node and the server |
| Configuration, messages, formatting, errors | plain data | | |
| Python binding, command line tool, harness, examples | | | users of the library |

What is hard to test in this code, with the lines where it bites, is the list
"hazards" of `PROJECT.json`. In short:

* **Crashes between durable writes.** A turn of the loop makes up to six
  separate durable writes; RocksDB makes several puts for one of them; snapshots
  are a compaction followed by a write. A restart has to make sense of every
  prefix. What makes the node correct: what it promised to others (votes,
  acknowledgements) is stored before the promise leaves; the log directory is
  always loadable; the state machine after a restart is again a prefix of the
  committed log.
* **Overwriting.** A new leader replaces a conflicting suffix; storage,
  raft-rs's unstable log and the stored commit index must agree about it.
* **Snapshots** come from four places (interval, conf change, RPC, leader) and
  are labelled by their maker; a label is only right if index, term, image and
  configuration belong together.
* **Answers.** A request is answered when its entry is applied, by a number the
  entry carries. The number has to lead to the right request whatever node
  applies the entry and whatever life of the process gave the number out; the
  receiver may be gone; every call should return.
* **Joining** reserves an id in one request and uses it in another, with a snapshot,
  a timeout, a retry or an election between the two. Correct: ids are unique, a voter is
  reached at its own address, a join that succeeded is committed, every join ends.
* **Waiting.** The loop, its callers, the gRPC handlers and one task per message share
  three bounded channels and a mutex; the loop also waits for other nodes while it
  handles a request. Correct: nobody waits for ever, and when the loop ends, by `?` or by
  a panic, everybody is released and the server stops.
* **Key-value tables.** The log is a table under formatted keys; its order, its ranges
  and its first index depend on the byte order of those keys. Correct: both engines,
  write by write and crash by crash, are the store the node relies on.

## 2. Modules

| Module | Models | Lines |
|---|---|---|
| `StableStorage` | the store a node relies on, as operators on a record | `heed_storage/mod.rs`, `rocksdb_storage/mod.rs` |
| `StorageCalls` | the abstract specification of a storage: one call of the trait, one step (or a torn store, when the process dies) | `storage/mod.rs` |
| `KeyValueTables` | the tables of LMDB and RocksDB, formatted keys and their order | `*/codec.rs` |
| `HeedStorage`, `RocksDBStorage` | the reads and the single writes of each call on the tables | the same files |
| `MemStorage` | the in-memory storage | `inmemory_storage/mod.rs` |
| `Storages` | the three at work, write by write, with crashes; the refinement | |
| `RawNode` | the raft-rs calls of the loop, for one node, as operators on a record (external) | |
| `RaftNode` | one node: bootstrap, event loop, `on_ready`, crashes and restarts, in an environment of other nodes | `raft_node/mod.rs` |
| `Requests` | client requests across nodes: servers, forwarding, sequence numbers, answers | `raft_server.rs`, `raft_node/mod.rs` |
| `Peers` | the peers map | `peers.rs` |
| `Membership` | joining, leaving and what a conf change does to every node's peers map and configuration | `raft_bootstrapper.rs`, `raft_node/mod.rs`, `raft_server.rs` |
| `EventLoop` | one process: callers, handlers, channels, loop, send tasks, mutex, `Raft::run` | `raft_node/mod.rs`, `raft_server.rs`, `raft_bootstrapper.rs` |
| `RaftNodeProofs` | types of `RaftNode`, what each operator makes of them, and the proof about votes | |
| `RaftNodeRestart` | extends it: the stored hard state never goes back, the stored log is always loadable | |
| `RaftNodeAgreement` | extends it: log matching, leader completeness, the state machine and the acknowledgements | |
| `RequestsProofs`, `EventLoopProofs`, `MembershipProofs` | inductive invariants and theorems about the three | |
| `StoragesProofs` | the refinement of `Storages`, the archive of compacted entries, and `MemStorage` beside a persistent store | |
| `SetLemmas` | maxima and minima of bounded sets of integers | |
| `MC*` | the modules TLC is run on | |

How they fit together: `RaftNode` extends `StableStorage` and `RawNode` and calls the
operators of the store; `Storages` shows that the two engines provide them;
`Requests`, `Membership` and `EventLoop` are three views of several nodes or of one
process in which Raft is an environment, because what they ask (which answer, which
address, who waits) does not depend on what is in the log.

### StableStorage

A store is `[entries, last, hs, conf, snap]`. `entries` is a function whose
domain can be any set of indices, because the code keeps a key-value table and a
separately stored last index, and nothing forces the two to agree. `Backend`
selects the places where the two implementations differ: `HeedStorage` runs an
operation in one LMDB transaction, and checks the first index in `append`;
`RocksDBStorage` writes with separate puts, so `AppendTorn` and
`ApplySnapshotTorn` give the stores a crash can leave. `SetHardStateCommit` does
nothing for heed: the write transaction at `heed_storage/mod.rs:88` is
never committed.

`max_size` of `entries` is left out: raft-rs asks again for what it did not get.

### Storages

`Storages` keeps the tables (`db`) as the engines do: entries under the digits of
`format_entry_key_string`, metadata under their names. A call begins when it takes the
write lock, makes its writes one after the other (heed inside a transaction, RocksDB on
disk, the archive in a file of its own) and returns; `Crash` may come between any two.
Readers wait for the lock, so the rest of the program sees `Visible`, the tables outside a
call. `Heed` and `Rocks` are instances of `StorageCalls` in which `store` is the record
that `View` reads out of the visible tables:

* `HeedImplements` and `RocksImplements` say that each call, write by write, is one step of
  `StorageCalls` when it returns, and that a crash leaves the store before, the store after or,
  for RocksDB only, one of `AppendTorn` and `ApplySnapshotTorn`: the list of torn stores
  that `RaftNode` uses is complete;
* `ReadsAgree` says that what `first_index`, `term`, `entries`, `all_entries` and
  `initial_state` make of the tables is what `StableStorage` makes of the record, and that
  the padded keys sort as the indices do (`KeysOrdered`). Indices
  with more than `KeyLength` digits sort wrongly (`Before`); with ten digits `entries(low, high)` is
  right up to `high` = 10^10 - 1;
* `MemAgrees` says that a `MemStorage` given the same calls answers the same, and
  `CompactionArchivesFirst` that an entry is in the archive before it leaves the log of heed.

Which calls are made follows raft-rs (`Asked`): it appends behind what is
committed and compacts and snapshots what is committed.

### RaftNode

`pc` is the place in one turn of `run`; there is one action for each durable
operation, so that a crash can fall between any two:

| `pc` | action | code |
|---|---|---|
| `recv` | `RecvNothing`, `RecvAppend`, `RecvSnapshot`, `RecvRequestVote`, `RecvVoteQuorum`, `RecvAckQuorum`, `Propose`, `Campaign`, `Demote`, `RpcCreateSnapshot` | the `select!` and its handlers |
| `tick` | `TickAndReady` | `tick`, `has_ready`, `ready` |
| `restore` | `RestoreSnapshot` | `fsm.restore`, `apply_snapshot` |
| `apply` | `ApplyEntry` for each entry, then `AppendReady` | `handle_committed_entries`, `append` |
| `hardstate` | `WriteHardState` | `set_hard_state` |
| `send` | `SendPersisted` | persisted messages, `advance` |
| `lightcommit` | `WriteLightCommit` | `set_hard_state_commit` |
| `lightapply` | `ApplyEntry`, then `FinishLightApply` | second batch, `advance_apply` |

`Crash` stops the process anywhere, before the operation that is next or, by
`TornWrite`, inside it. `Bootstrap` starts it again from the store alone.

The rest of the cluster is an environment that obeys Raft: `llog[t]` is the log
of the leader of term `t`, `lcommit[t]` its commit index. A received message is
any message such a leader could have sent, so messages may be lost, repeated and
reordered, which is what one spawned task per message gives. `Chosen` is what the
cluster has committed; the properties compare the node with it. The state machine is the
sequence of `<<index, term>>` of the commands applied to it, and its snapshot
data is that sequence: two state machines are equal exactly when the same
commands were applied in the same order.

`votes` and `acks` are ghosts that record what has left the node.

### Requests

Several nodes, each with its event loop's part in answering requests. Consensus is
external here: `boss` is the leader of the newest term, `log` the committed
entries, `tail` what `boss` has beyond them. A deposed leader goes on believing
in itself until `Learn`. A call records the server that waits for it (`at`),
whether it was forwarded, and its result. An entry carries the number
(`ctx`) its proposer gave it and the request it came from (`req`, a ghost that
the code does not have: the properties need it, no action but `Outcome`, which
needs the kind of the entry, reads it).

### Membership

A process is named by its address. It goes through `new`, `asking`, `ticket`, `booted`,
`added`, `joining`, `waiting` and `member`, or ends (`dead`), in the order in which
`spawn_and_join_extra_node` of the harness and the dynamic-members example make the calls.
`peers` is the map of its `RaftNodeCore`, `conf` its applied voters. A committed change is
applied by each node on its own: peers map first, then the configuration, then a snapshot
and the compaction that goes with it, so that a node that is behind gets a snapshot. A
snapshot carries the configuration and not the peers map. The node that proposed the change
answers; when the server has given up, it panics. `Serial` keeps processes from joining at the same
time, so that what goes wrong then goes wrong without a race.

### EventLoop

`pc` is the place of the loop (`top`, `lock`, `connect`, `join`, `own`, `ready`,
`conf`, `mixed`, `answer`, `ended`, `panicked`). A call goes through `sending`, `waiting` and
`returned`; `redirected` is a `WrongLeader` answer it follows, to wait there without a timeout, and
`gone` says that the receiver was dropped while the node still has the sender: by the timeout of
`change_config`, by a client that goes away, or by a future of a method of the handle that is
dropped (a timeout or a `select!` around it, a cancelled coroutine). The oneshot sender of a call is in a request
in its channel, in `filed` (`response_senders`) or with the request in hand (`cur`);
`LoopStops` drops the senders in these three places and wakes nobody else, so whether the end of
the loop reaches everybody is a question about all the other actions. Requests that a handler cannot digest
are kinds of their own (`MalformedRequestMsg`), because they panic: a join without a ticket
(`mod.rs:750`) or with an address that cannot be parsed (`mod.rs:762`, `raft_client.rs:15`), a change
with more addresses than changes or fewer (`confchange_request.rs:14`), an id asked for an address that
is none (`peers.rs:150`). A committed entry carries a number, and the sender filed under it may
be of any kind and of any caller, since every node numbers its own. The mutex is the queue of those that
asked for it: tokio's mutex is fair. The loop takes it to apply a conf change and a second time to
answer a join. A send task locks it, may connect while it holds it, and reports a failure
through a channel back to the loop. What a handler finds (leader or not, what commits,
whether a connection succeeds) is chosen freely, and so is whether a `?` in it ends the loop.

## 3. Properties and runs

Passing runs:

| Run | Instance | Shows |
|---|---|---|
| `node_crash` | RocksDB, 3 voters, 1 other candidate, 2 terms, 3 entries, 1 crash | `AckedDurable`, `FsmFollowsChosen`, `Restartable`, `OneVotePerTerm`, `HardStateMonotone` |
| `node_snapshots` | heed, 2 terms, a new leader that lacks an entry, conf changes, snapshots by interval and from the leader | `FsmFollowsChosen`, `SnapshotMatchesLabel`, `HardStateMonotone` |
| `node_single` | RocksDB, 1 node, every kind of entry, snapshots by interval and RPC, 3 terms, 4 entries, 2 crashes, fair | `TypeOK`, `Restartable`, `CommittedIsApplied` |
| `requests` | 2 nodes, 2 proposals, 1 conf change, 1 election, 1 restart, 1 timeout, fair | `AckedProposals`, `AckedChanges`, `EveryCallReturns` |
| `storages` | both engines and `MemStorage`, 4 calls, 3 entries, 2 terms, 1 crash, digits 0..2 in keys of 2 | `HeedImplements`, `RocksImplements`, `ReadsAgree`, `MemAgrees`, `CompactionArchivesFirst` |
| `membership` | 3 processes, 3 changes, 1 removal, 1 election, 1 retry, fair | `TypeOK`, `VotersAtTheirAddress`, `JoinedIsCommitted`, `JoinEnds` |
| `event_loop` | 1 caller of the handle (`add_peer`, `join_cluster`, a malformed join, `quit`), 1 gRPC handler (`set_peers`, `propose`, `change_config`), the node's own, 1 send task, channels of 1, fair | `PanicsForACause`, `EndReleasesAll`, `NothingHangs`, `ServerStopsWithRun` |

In `node_crash` a new leader has everything the one before it wrote; in `node_snapshots` it may
lack one entry, and there are two terms, so nothing is left behind an overwritten entry for a third leader
to match. With more of both the run `stale_suffix_applied` below fails. `TruncatingSpec`
says that what is left behind is all that stands in the way: it keeps the steps in which `append`, when it
replaces a stored entry, also replaces every entry the old log had above it (`Truncates`). It is the
hypothesis of two theorems (section 4). Behaviours in which the interesting steps happen satisfy it: with
the constants of `node_crash`, `MaxRollback = 2` and no other candidate it has 1.7 million states, in
which leaders overwrite up to two entries and a crash falls anywhere, and TLC finds `FsmFollowsChosen` and
`AckedDurable` satisfied.

Runs in which the code contradicts its documentation or its tests (the quotes are
under "findings" in `PROJECT.json`):

| Run | What happens |
|---|---|
| `heed_lost_commit` | A single heed node commits an entry and makes a snapshot, which compacts the log. The commit index was never stored, so `RawNode::new` finds it below the first index and panics at the next start. |
| `stale_suffix_applied` | A node of five has entries 1 to 3 of leader 1, uncommitted. Leader 2 overwrites entry 2; `append` leaves entry 3 in the table and `last` where it was. Leader 3, which has the log of leader 1, begins with entry 3 as the previous one. The node has it, with the right term, and so takes its entry 2 for equal; when leader 3 commits it applies the entry of leader 2 in place of the committed one. Nothing crashes. |
| `fsm_not_restored` | A node makes a snapshot and restarts. `bootstrap` does not restore the state machine, so only the commands after the compaction are applied. |
| `ack_leader_change` | Nodes 1 and 2 each propose their entry number 0. Node 1 loses the leadership, applies the entry of node 2 and answers its own lost proposal with success. |
| `duplicate_ids` | A process joins with the peers of its ticket, without itself. It gets its own change in a snapshot, or is elected before it applies it, becomes the leader and reserves its own id for the next process. |

More disagreements of the same kind were met; each needs only a
change of constants to reproduce:

* `CreateSnapshot` during replication stores the image of the applied prefix under the last
  index of the log (`mod.rs:1341`): `SnapshotMatchesLabel` in `node_snapshots` with `SnapshotRpc = TRUE`.
* A crash inside RocksDB's `apply_snapshot` of a leader's snapshot leaves a store that cannot be loaded
  (`rocksdb_storage/mod.rs:323`): `Restartable` in `node_crash` with `SnapshotMsg = TRUE`.
* A crash between `compact` and `create_snapshot` (`mod.rs:661`) leaves neither the entries
  nor a snapshot: `AckedDurable` in `node_crash` with `SnapshotInterval = TRUE`.
* `bootstrap_from_snapshot` without a stored snapshot (`mod.rs:584`): `Restartable` in `node_single`
  with `BootstrapFromSnapshot = TRUE`.
* A server that forwarded a `change_config` reports success whatever the leader answered
  (`raft_server.rs:259`): `AckedChanges` leaves forwarded calls out for that reason, and
  `JoinedIsCommitted` the time after an election; both fail without the exception.
* The restart of a node that numbers from 0 again (`mod.rs:590`) has the effect of
  `ack_leader_change` on a single node (2 elections, 1 restart).
* An answer whose receiver was dropped panics the loop, be it a gRPC handler that timed out
  (`mod.rs:942`, `response_sender.rs:34`) or a dropped future of the handle (`mod.rs:806`, 1086). So do a
  malformed request (`mod.rs:750`, `confchange_request.rs:15`), a committed change that both adds and
  removes nodes (`mod.rs:931`), and a follower that has no address for its leader (`mod.rs:1030`): these are the
  four causes `PanicsForACause` allows.
* A node that joins waits in its event loop for another node without a timeout, and one that joins through its
  own server with a full channel waits for ever (`mod.rs:772`): the states `LoopWaits`, which
  `NothingHangs` excepts.
* A forwarded `propose` waits for the leader's commit without a timeout (`raft_server.rs:337`), which
  may never come; it keeps the graceful shutdown of the server from ending: `ServerStopsWithRun` excepts it.

**Why the bounds are enough.** One conflict needs two terms; an overwrite that leaves something
behind needs an entry below the conflict, the conflicting entry and one after it (three entries); that what
is left matches a later log needs a third term and its entry. `stale_suffix_applied` lets the node only
follow and only the last leader commit (`OnlyFollows`): a bound of the search, since a violation found
within it is one. A
vote that is forgotten needs a crash, and a second candidate in the same term; the theorem covers
any number of both. A snapshot that loses something needs a command before and an entry after it.
Wrong answers need two requests, two nodes and one number; a lost answer needs one. A torn store
needs one crash, and what it may contradict is made by three calls before it (a log, a commit index,
a snapshot); with digits 0..2 the index 3 is the first of two digits, and the third entry is the
first whose unpadded key would sort wrongly. An id given twice needs a joined leader and one more
process. Two parties that wait for each other need one slot in each channel, one task with the mutex
and one caller; more of them only make longer queues. The kinds of requests `event_loop` has are one
of each way through the loop: answered at once, under the mutex, with a connection, filed, waiting for another
node, and malformed; the one-way requests and the other kinds take the same steps, and the theorems
of section 4 are about all of them. The bounds are constants, named in the
modules, and every passing run stays below one and a half million states.

**Deadlock** is checked in `node_crash`, `node_snapshots` and
`node_single`. In the runs of `Requests`, `Storages`, `Membership` and `EventLoop` the system stops when
every call has been made and has returned.

**Fairness.** `RaftNode!FairSpec` assumes weak fairness of the loop's own steps (a timeout
of the channels, and everything in `on_ready`): the loop is one task of the tokio
runtime whose `select!` always times out. Nothing is assumed about messages, crashes or
the other nodes. `Requests!FairSpec` assumes that a running loop handles a request in its
channel and applies what is committed, that a node hears of the leader, and that
the leader's entries commit while a majority is running. It assumes no election and no timeout.
`Membership` assumes that running loops and servers take their steps, that a leader with a
quorum commits and that the timer of `change_config` fires. `EventLoop` assumes that tokio
runs each caller, the loop within a turn, each task, `Raft::run` and the server's shutdown (weak
fairness of each as a whole, so nothing is said about which outcome it has), and strong fairness of
each branch of the `select!`, which picks at random among the channels that are ready. It
assumes no call, no commit, no client that goes away, and no answer of another node: a redirected call
(`FollowRedirect`), a join (`JoinAnswered`) and a message on its way (`Transmit`) may wait for ever.

**Mutants.** Every property of every passing run has a mutant: a definition with a
plausible bug (a lost write, a last index that is one short, `return` for `continue`, a
sequence number that is not advanced), kept next to the definition it
replaces, under which TLC finds the property violated.

## 4. Proofs

| Theorem | Module | States | Hypothesis |
|---|---|---|---|
| `VotesSurviveCrashes` | `RaftNodeProofs` | `[]OneVotePerTerm` | none |
| `TypesHold` | `RaftNodeProofs` | `[]TypeOK` | none |
| `HardStateNeverGoesBack` | `RaftNodeRestart` | `HardStateMonotone` | `SafeRestore` |
| `AlwaysRestartable` | `RaftNodeRestart` | `[]Restartable` | `SafeLog` |
| `SingleNodeApplies` | `RaftNodeAgreement` | `[]FsmFollowsChosen` | `NoSnapshots`, `Alone` |
| `EveryNodeApplies` | `RaftNodeAgreement` | `[]FsmFollowsChosen` | `NoSnapshots`, `TruncatingSpec` |
| `AcknowledgedStays` | `RaftNodeAgreement` | `[]AckedDurable` | `NoSnapshots`, `TruncatingSpec` |
| `OneLeaderAnswersTruly` | `RequestsProofs` | `[](elections <= 1 => AckedProposals)` | none |
| `OneLeaderChangesTruly` | `RequestsProofs` | `[](elections <= 1 => AckedChanges)` | none |
| `NobodyWaitsForAStoppedLoop` | `EventLoopProofs` | `[]EndReleasesAll` | none |
| `NoOtherPanic` | `EventLoopProofs` | `[]PanicsForACause` | none |
| `TypesHold` | `MembershipProofs` | `[]TypeOK` | none |
| `JoinsAreCommitted` | `MembershipProofs` | `[]JoinedIsCommitted` | none |
| `VotersWhereExpected` | `MembershipProofs` | `[]VotersAtTheirAddress` | none |
| `HeedIsAtomic` | `StoragesProofs` | `HeedImplements` | `KeysOrdered` |
| `RocksTearsAsModelled` | `StoragesProofs` | `RocksImplements` | `KeysOrdered` |
| `CompactedIsArchived` | `StoragesProofs` | `CompactionArchivesFirst` | `KeysOrdered` |
| `MemStorageAgrees` | `StoragesProofs` | `[]MemAgrees` | `KeysOrdered` |

Each is about every behaviour of the component's `Spec`, or of `TruncatingSpec` where the table says
so. "None" means none beyond the named assumptions on the constants (`BackendAssumption`,
`NodeAssumption`, `RequestsAssumption`, `MembershipAssumption`, `EventLoopAssumption`,
`StoragesAssumption`), which TLC evaluates in the runs.

### Votes

`RaftNodeProofs` proves

    THEOREM VotesSurviveCrashes == Spec => []OneVotePerTerm

for any backend, any set of voters and candidates, any bounds and any options, so for any
number of crashes, torn writes, snapshots and received messages. The assumptions
are `BackendAssumption` and `NodeAssumption`, which TLC evaluates in the runs.

A vote leaves the node in `SendPersisted`, while the vote itself was decided when the
message was handled, several steps earlier, and is remembered in up to four places: the
volatile `raft`, the `Ready` in hand, the hard state raft-rs believes stored
(`prevHs`) and the store. The inductive invariant `VoteInv` relates them:

* `Shapes`: the parts of the state the argument reads have the shape they should have;
* `StoreRemembers`: for every vote that has left, the stored term is later, or it is
  that term and the stored vote is that candidate;
* `RaftRemembers`: while the node runs, `raft` is not behind the store;
* `VoteHandedOutStored`: what raft-rs believes stored is stored, or is in the `Ready` in hand
  and is written before the messages of that `Ready` leave;
* `ReadyCarries`: the votes in the `Ready` in hand agree with its hard state or, when it
  has none, with the stored one;
* `PromisesAgree`: votes of `raft` that are waiting for the next `Ready` agree with
  `raft`'s own term and vote.

`OneVotePerTerm` alone is not inductive: a state in which a vote has left and the
store does not know it satisfies it, and the next crash leads to a second vote.
`StoreRemembers` at every instant needs the order of `on_ready` (hard state, then
messages), and the fact that no write takes the hard state back: `append`, torn or not, does not
touch it, `apply_snapshot` keeps the vote and never lowers the term. The
proof has one step for each action; the facts about storage and raft-rs operators
are lemmas before it.

### Types, hard state and restart of a node

`RaftNodeProofs` proves `TypeOK` from `TypeInv`, which is tighter: every index is bounded, since
`Max` and `Min` are taken of sets of indices and say nothing of a set that has
none; entries have a term that is not 0; the logs of the leaders are sequences. One lemma
for each operator of `StableStorage` and `RawNode` says what it makes of arguments of
these types.

`RaftNodeRestart` proves

    THEOREM HardStateNeverGoesBack == ASSUME SafeRestore PROVE Spec => HardStateMonotone

The write of a hard state may lower the stored commit index unless raft-rs is ahead of the
store, and whether it is depends on where the turn stands. The invariant has three
parts for every configuration and one that needs the hypothesis:

* `TypeInv`, as above;
* `TurnInv`: while a `Ready` is handled raft-rs still is what the `Ready` says
  (`HandedOut`), the unstable entries continue the stored ones (`NoGap`), and a snapshot
  that waits to be restored has replaced them (`PendingSnapshot`);
* `TermInv`: no log has an entry of a later term than there has been an election for, so a
  new leader's entries are told apart from old ones;
* `CommitInv`: the commit index of raft-rs is in its log, in the stored one once the entries
  of the turn are appended, and not behind the stored commit index (`CommitInLog`); a log
  with no hard state stored yet is complete (`FreshLog`), because raft-rs then takes the commit
  index from the first index of the log.

`SafeRestore` excludes two configurations in which `bootstrap` does write an older
commit index: `bootstrap_from_snapshot` applies the stored snapshot, which may be older than the
stored commit index; and a crash inside RocksDB's `apply_snapshot` of a leader's snapshot can leave
the new commit index without the new snapshot and without entries, and the next start, which finds an
empty log, applies the old snapshot and takes the index back. The second was found when the proof of
`Bootstrap` failed without `FreshLog`.

The second theorem of the module is

    THEOREM AlwaysRestartable == ASSUME SafeLog PROVE Spec => []Restartable

The part of `Restartable` about the store (`Loadable`) says that `RawNode::new` finds the stored
commit index between the first index of the log minus one and the last one, at every instant, so
also between `compact` and `create_snapshot`, or in the middle of an append. The invariant adds
`LoadInv`: the table of entries has no hole and starts at most one past the stored commit (`Loads`),
the unstable entries have no hole and lie beyond the stored commit (`GaplessUnstable`), and RocksDB
has stored the commit index before anything up to it counts as applied (`AppliedIsStored`), which is
what keeps a compaction below the stored commit. `Loadable` alone is not inductive: a commit index
that raft-rs has reported as applied and the store does not have is harmless until the next snapshot
compacts beyond it. The other part says that nothing panics: `RawNode::new`, the check of the first
index in heed's `append`, and raft-rs's refusal to overwrite a committed entry. The last can never
fire (`NoConflictPanic`): a message that starts below the commit index is answered without looking
at its entries, so a conflict lies above it.

`SafeLog` is `SafeRestore` without snapshots from a leader, for RocksDB, and for heed without
compactions. Each restriction is needed: heed loses the commit index of a `LightReady`, and the
first compaction then makes the store unloadable (the run `heed_lost_commit`); a torn RocksDB
`apply_snapshot` and `bootstrap_from_snapshot` fail as listed in section 3. The runs `node_crash`
and `node_single` satisfy `SafeLog`: TLC checks `Restartable` there for one and two crashes, the
theorem holds for any number of nodes, crashes, terms and entries.

### Agreement

`RaftNodeAgreement` proves

    THEOREM SingleNodeApplies == ASSUME NoSnapshots, Alone PROVE Spec => []FsmFollowsChosen
    THEOREM EveryNodeApplies  == ASSUME NoSnapshots PROVE TruncatingSpec => []FsmFollowsChosen
    THEOREM AcknowledgedStays == ASSUME NoSnapshots PROVE TruncatingSpec => []AckedDurable

for both backends, any voters, candidates, terms and log lengths, and any number of crashes, torn
writes and lost, repeated or reordered messages. They are Raft's own argument, carried through the
places where the code keeps a log: the table of the store, the unstable entries of raft-rs over it
(`Log`), and the batch of committed entries in hand.

* `LocalInv` says where the turn stands: the table is whole from 1 to the last index; the unstable
  entries begin one past the stored log or at an entry they contradict, and are stored before
  `hardstate`; acknowledgements are sent in the turn that made them, after its term is stored;
  between two turns everything handed out is applied.
* `Sourced`: every entry of every log comes, with all before it, from the log of the leader
  of its term. So two logs with an entry of the same term agree up to it (`Matching`), which
  is the log matching property.
* `LeaderInv`: a leader's log holds what earlier leaders committed (leader completeness).
* `Held` is what a log of the node has, the stored one with the stored term and commit and the one
  in memory with raft-rs's: it is `Sourced`; some leader up to its term committed what it takes for
  committed (`Backed`); and it holds what was acknowledged, as far as that leader committed it, or
  all of it while that leader is the newest and may still commit it (`AckedIn`). `AckedDurable`
  alone is not inductive, since a leader may commit later what was acknowledged earlier.
* `AcksOwed`: an acknowledgement that waits for the entries to be stored is already true of the log in
  memory; `OwnLeader`: a node that leads has the log of its term.
* `SingleInv` replaces them for a single node: no one else leads, the newest leader is this node,
  and after a crash it goes on with what the store has. A leader never overwrites, so nothing
  need be assumed about truncation.
* `ChosenInv` follows: the log of the node agrees with the chosen one up to its commit index.
  `FsmInv` says that the state machine is the image of the chosen entries handed out so far, except
  those of the batch in hand; it needs `ChosenInv` after the step, and what is chosen to stay chosen
  (`ChosenGrows`).

Two conditions bound these theorems. `Truncates` excludes the steps in which `append` leaves entries
of a replaced suffix in the table, because after them the log of the node and then its state
machine are wrong: that is the run `stale_suffix_applied`. The proof needs it in one place only,
where the stored log after an append has to be `Sourced` again. `NoSnapshots` excludes the snapshots
and compactions, after which a restarted node has an empty state machine (`fsm_not_restored`) and a
crash can leave neither entries nor snapshot. The run `node_crash`
satisfies `NoSnapshots`.

`Image` is the sequence of the commands of a prefix. Its k-th command is written as a maximum
(`Nth`), so that "one more entry" is a lemma about the cardinality of sets (`ImageStep`) and needs
no induction.

### Answers

`RequestsProofs` proves

    THEOREM OneLeaderAnswersTruly == Spec => [](elections <= 1 => AckedProposals)
    THEOREM OneLeaderChangesTruly == Spec => [](elections <= 1 => AckedChanges)

for any set of nodes and requests and any number of restarts, timeouts and panics. After a
second election they are false: that is the run `ack_leader_change`. The inductive invariant
`AckInv`, which holds until then, says why one leader is enough:

* `OnlyBossFiles`: only the elected node, in the life in which it was elected, leads and
  has senders on file, so one counter gives out every number there is (`NothingBefore`
  says the same of the time before the election);
* `EntriesFiled`: every entry carries a number below the leader's `response_seq`, and a
  sender still filed under that number is the sender of the entry's own request. The
  first half is what makes the second inductive: a new request is filed under a
  number no entry has;
* `AnswersBacked`: a success that counts has an entry of its request in the log.

When the leader restarts or panics, `boss` becomes `NoLeader` and its senders are gone;
its entries stay in the log, but nobody has a sender they could be mistaken for.

### Waiting

`EventLoopProofs` proves `EndReleasesAll` and `PanicsForACause` for any number of
callers, handlers, tasks and peers, all kinds of requests and channels of any capacity. Both are about where
the oneshot sender of each caller is. The inductive invariant `LoopInv` says:

* `SendersKept`: the sender of every pending call, one whose caller waits or has dropped the receiver,
  is in its channel, on file or in hand. Since the end of the loop drops just these, everybody is
  released; a handler that put a sender away elsewhere would break it (the mutant
  `DropRequestRetries`);
* `QueueOK`: a channel has a request once, and none that is filed or in hand, and no one is on file and in
  hand, so a request is answered once, and an unwrap that fails is one whose
  caller has left;
* the loop works for a caller where its place says so and only for a request of a kind that leads there, so a
  panic over a malformed request or a mixed change is one of those `CauseOfPanic` names;
* whoever connects holds the mutex (`TasksConnect`, `LoopConnects`), so a peer a task
  has looked up stays in the map meanwhile.

### Joining

`MembershipProofs` proves three invariants of `Membership` for any set of processes and any number of
changes, removals, elections, timeouts, retries and restarts. The type invariant needs only
itself and `Asks` (whoever waits for another process has its address). The other two speak of the time
of the first leader, and `MemberInv` says what is true then:

* `FirstOK`, `ChangesOK`: the first leader has at most one change under way, proposed or committed
  and not applied, and every change adds an id other than its own;
* `OthersOK`: the request of another process is at the first leader and was not forwarded; while the
  process waits, the change under way is its own; as a member it has one in the log. So the answer to
  an older, timed-out request cannot be taken for a later one;
* `OneJoins`, `AddressInv`: when processes join one after the other, the leader's map has every
  process at most once, under the id it has or is about to take, a ticket names an id
  that is free, and every voter is in the map. The part about tickets is what keeps a later
  `add_peer` from moving a voter to another address.

After an election both fail, as section 3 says.

### Storages

`StoragesProofs` proves

    THEOREM HeedIsAtomic         == ASSUME KeysOrdered PROVE Spec => HeedImplements
    THEOREM RocksTearsAsModelled == ASSUME KeysOrdered PROVE Spec => RocksImplements
    THEOREM CompactedIsArchived  == ASSUME KeysOrdered PROVE Spec => CompactionArchivesFirst
    THEOREM MemStorageAgrees     == ASSUME KeysOrdered PROVE Spec => []MemAgrees

for any number of calls, entries, terms and crashes. The first two are the link between the engines
and everything proved about `RaftNode`, which uses the operators of `StableStorage`.

`KeysOrdered` says that, up to one past the largest index, one key is before another in byte
order exactly when its index is smaller. It is a fact about `Base`, `KeyLength` and `MaxIndex`, false
as soon as an index has more than `KeyLength` digits. TLC evaluates it as part of `ReadsAgree` with
the digits, the padding and the indices of the run, which include an index of one digit and one of
two. What `Digits` computes for every index needs induction over a recursive function,
so it stays a hypothesis.

* A table stands for the record `View` of it. One lemma for each kind of write (`PutEntryView`,
  `PutMetaView`, `DeleteBelowView`) says what it does to that record; distinct indices have distinct
  keys, so a row is found under the key of its own index (`TableType`).
* `Progress` relates the record a call began with, what the call has made of it, and the list of
  writes it has left. It holds when the list is made (`CallBegins`), after each write
  (`CallAdvances`), gives the effect of the call when the list is empty (`CallEnds`), and otherwise the
  store before or a torn one (`CallCut`), which is the refinement of a crash.
* `CallInv` carries it from `Begin` to `Return`: for heed on the open transaction, with the tables on
  disk still those of the beginning; for RocksDB on the tables themselves. A step of the refinement
  alone cannot be proved, since what a crash leaves depends on the writes already made.
* `ArchiveInv` follows the entries of a compact: on their way to the file, and in it before the
  delete is the next write. `InOrderComplete` says that a scan in key order misses no key: the number
  of keys before a key is different for each and below their number.
* `MemInv` says that `MemStorage` holds the entries `first .. raft.last` of the visible record, in
  order, for some `first` that is at most one past raft-rs's commit index. `MemAgrees` is not
  inductive: `MemStorage` drops what an append or a snapshot supersedes, a persistent store keeps those
  rows, and `FirstIndex` is the smallest row there is. `MemRows` says that the rows above the commit
  index have no gap, so a snapshot that leaves superseded rows behind does not move the first index past
  that of `MemStorage`; and `Asked` limits the calls to what raft-rs asks for, an append behind the
  commit index and at most one past the end.

### Only model-checked

* Liveness (`CommittedIsApplied`, `EveryCallReturns`, `JoinEnds`, `NothingHangs`,
  `ServerStopsWithRun`): fairness and `ENABLED` are out of the prover's reach.
* `ReadsAgree`, with `KeysOrdered`: `Digits`, `Parse` (a fold over the digits) and the `SelectSeq` and
  `SortSeq` of the two listings are recursive or not defined for the prover.
* `SnapshotMatchesLabel`, and `FsmFollowsChosen` with snapshots (`node_snapshots`): the argument of
  `RaftNodeAgreement` would have to be made for logs whose prefix is only in a snapshot, and with
  heed alone, where a single transaction applies a snapshot.

## 5. Not modelled

* Learners, and the joint configuration of a join with several tickets: `Membership` has one
  change at a time. In `RaftNode` a conf change sets the stored conf state and takes a
  snapshot; it does not change the set of voters of the environment.
* The first node of a dynamic cluster that restarts and makes itself leader without
  votes while the others have a leader (`mod.rs:595`); `Bootstrap` does this for a
  single node only. It needs several whole nodes in one model, which is beyond TLC with
  the detail `RaftNode` has.
* `Demote` to a term the node has left; leader transfer is a `Campaign` at its target.
* Payloads: what the read-only requests answer, the contents of commands, TLS, logging,
  formatting, the configuration and its validation. `max_size` of `entries`.
* The crash of a server that only forwarded a call.
* In `EventLoop`: panics inside raft-rs, the log store, the state machine and the reading of TLS files, which are
  supposed to return errors; more than one change in an entry, and so several waits for the mutex in a row. The
  index `addrs[cc_idx]` (`mod.rs:859`, 871) cannot be out of range, because an uneven change has already
  panicked in `confchange_request.rs:15` at the node that would propose it.
* The error `Compacted` of `entries` below the first index, which raft-rs does not ask for, and the error of
  `MemStorage::apply_snapshot` for a snapshot that is out of date (the model leaves the storage as the
  code does, without the error).
* `bootstrap_peers` (`raft_node/bootstrap.rs`), `replace_entries` and `open_readonly` of the
  storages: not called by the node.
* The Python binding and the command line tool (wrappers without state), the web server of the
  examples, the harness apart from the order in which it joins nodes.

## 6. Plan

1. Done: `StableStorage`, `RawNode`, `RaftNode`, its runs and the theorem about votes;
   `Requests`, its runs and the theorem about answers.
2. Done: the storages below `StableStorage` and the refinement; `Membership`; `EventLoop`.
3. Done: proofs of the invariants of `EventLoop`, `Membership` and `Requests`, of the type
   invariant and of `HardStateMonotone` of `RaftNode`, and of the loadable log.
4. Done: `Restartable` for a node among others; log matching and leader completeness, and from
   them `FsmFollowsChosen` and `AckedDurable` without snapshots.
5. Done: the refinement of `Storages`, the archive and `MemStorage`, as far as the keys in use are
   ordered like the indices.
6. Left: agreement with compaction and snapshots, for `SnapshotMatchesLabel`.
