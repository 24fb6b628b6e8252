# Verification of zumic

TLA+ models of the stateful parts of zumic (the crate in `src/src`), TLC
configurations that check them on small instances, and TLAPS proofs of what
holds for every size.  Paths below are relative to `src/src` unless they start
with `docs/` or are `README.md`, which means the repository's.

`PROJECT.json` lists the components, the runs, the source lines behind every
definition, the hazards of the code, the disagreements found and the theorems.

1. The system and its modules
2. How the models correspond to the code
3. What TLC checks
4. What is proved
5. What does not hold
6. What is left out

## 1. The system and its modules

zumic is a key-value server in the manner of Redis.  `main.rs` starts a
single-threaded tokio runtime with a `LocalSet`: the accept loop and one task
for each connection take turns, and a command runs without awaiting.  Other
threads are the flusher of the append-only file (AOF), the compaction worker and
the cluster's rebalancer.  The stores, the broker and the slot manager are
`Sync` library types with `&self` methods: the models also let several threads
call them, and say where that matters.

| Part | Source | Modules | Hard behaviour |
|---|---|---|---|
| Persistent store | `engine/persistent.rs`, `engine/sharding.rs` | `PersistentStore`, `AofRecords` | order of log and index, two-shard locks, failing appends, crash |
| AOF: format and replay | `engine/aof.rs`, `engine/aof_integrity.rs` | `AofReplay` | torn tails, damaged cells, search for the next record |
| AOF: log, rewrite, repair | same | `AofLog`, `AofRecords` | crash between flushes, repair by stale counters |
| Snapshots, compaction, recovery | `engine/compaction.rs`, `engine/recovery.rs` | `Compaction` | file replaced under a writer, lost wake-ups, snapshots that mix moments |
| Slot manager, advanced rebalancer | `engine/slot_manager.rs`, `engine/rebalancer.rs` | `SlotManager` | two locks taken one after the other, plans older than the table |
| Cluster store | `engine/cluster.rs` | `Cluster` | routing that is stale when used, drop |
| In-memory store | `engine/memory.rs` | `MemoryStore` | several map accesses in one call |
| Server, connections | `network/server.rs`, `connection.rs`, `main.rs` | `Server` | shutdown against every point of a connection |
| Requests, registry, admin | `network/connection.rs`, `connection_state.rs`, `connection_registry.rs`, `admin_commands.rs` | `Requests` | two dispatchers over one store, counters on every path |
| Sessions and tokens | `auth/session`, `auth/tokens.rs` | `Sessions` | limit, expiry and revocation between two lock sections |
| Access control | `auth/acl.rs`, `auth/manager.rs` | `Access` | order of rules, failures that race, users half configured |
| Logging | `logging` | `Logging` | rotation by two threads, clean-up beside the appender, nested read locks |
| Commands | `command` | `Commands` | read-modify-write over values of every type |
| Maps | `database/dict`, `smarthash`, `intset`, `skiplist` | `Dict`, `SmartHash`, `QuickList` (integer set), `SkipList`; abstract: `AbstractMap`, `KeyValue` | incremental rehash, change of representation, relinking |
| Shared skip lists | `database/skiplist/concurrent.rs`, `sharded.rs` | `SharedLists` | a counter beside many locks |
| Lists | `database/quicklist`, `listpack` | `QuickList`; abstract: `AbstractList` | position index, gaps, element lengths |
| Geo index | `database/geo` | `GeoSet` | three indexes of one set |
| HyperLogLog | `database/hll` | `Hll` | registers across byte boundaries, promotion |
| Strings | `database/sds` | `Sds` | inline and heap, integers at their limits |
| Expiry, streams | `database/expire`, `stream` | `Timed` | stale heap entries, a wall clock that goes back |
| Wire protocol, messages | `network/zsp`, `pubsub/zsp_integration.rs` | `Zsp` | input cut anywhere |
| Client and its handler | `client`, `network/connection.rs` | `Exchange` | late answers after a timeout, frames in pieces |
| Dump format | `engine/zdb` | `Zdb` | files cut short, readers and writers of several versions |
| Broker | `pubsub/broker.rs` | `Broker` | two maps, check then act, a lock held across a removal |
| Subscribers | `pubsub/subscriber.rs` | `Subscriber` | lag, filters, timeouts, errors half way, starvation |

### Interactions

A connection hands a command to the engine, which delegates to one of three
stores.  The persistent store writes its log through `AofLog` and fills its
index from it at the start.  The compaction manager reads the same index and
replaces the file that `AofLog` writes.  The cluster store asks the slot manager
for the shard of a key; the rebalancer changes the slot manager's table; each
shard is an in-memory store, which also holds the sessions.  The broker creates
the channels from which subscribers read.  As shipped, the server initialises
neither the compaction manager nor the advanced rebalancer, and PUBLISH and
SUBSCRIBE are stubs: those parts are library code with tests of their own, and
are modelled as such.

Modules that compose others: `Cluster` extends `SlotManager`; `PersistentStore`,
`AofLog` and `Compaction` use the log of `AofRecords`; `Exchange` runs the codec
of `Zsp` on both sides of a socket; `Sessions` has the store's session map.
Where a module needs only the result of another, it takes the result that the
other one shows: `AofLog` uses that replay passes over damaged records
(`AofReplay`), `SharedLists` that a skip list is a map (`SkipList`).

### Files

| Files | Content |
|---|---|
| a component's module | constants, variables, `Init`, one action for each operation or critical section, `Next`, the specification, the properties |
| `MC*.tla` with a `.cfg` | the instances for TLC |
| `ReplayTheorems`, `*Proofs.tla` | theorems and proofs |

Every MC module but `MCPersistentStore` has a variable `part`, chosen in the
initial state: a behaviour follows one component and the variables of the others
do not change.  They share no step, so such a run is several model checks in one.
`broker_publish` runs `Broker` by itself.

A definition whose name extends that of the definition below it (`ReceivedOver`
before `Received`) is a faulty variant of it, which no specification uses;
`PROJECT.json` pairs every property with a variant that violates it.

## 2. How the models correspond to the code

A step is what one thread or task does between two points where another can
come between: a critical section, an access to a concurrent map, or the code
between two awaits.  Each module's header says what its steps are and how data
is abstracted.  The main correspondences:

**AofRecords.**  The records of the log and what replay computes: each key ends
up with what the last record about it says.  A log is its file, the records in
the `BufWriter` and `pending_ops`; `Appended` gives the results an append may
have under each `SyncPolicy`.  With `Always` the buffer is flushed when
`batch_size` operations are pending.  `BufWriter` may write out earlier, so an
append has two results.

**PersistentStore.**  `data` is the union of the shards' maps, `keyCount` the
`key_count` of every shard, `aof` the log, `aofLock`, `shardLock` and `poisoned`
the locks that are held while another one is taken, `pc`, `recs`, `kv` and
`args` what each thread carries from one critical section to the next.  `set`
and `mset` append their records first (`Set`, `Mset`, `AppendRec`) and change
the shards afterwards (`Apply`, one shard at a time).  All other operations
change the shards first and append afterwards: `Del`, `Sadd`, `GeoAdd`, `Srem`,
`Spop` (with `DropKey` as the second write section of an emptied set),
`RenameOneShard`, `LockFirst` and `LockSecond` for the two locks of
`with_two_shards_write`, `NxFetch` and `NxRead` for the second read of
`renamenx`.  `Flushdb` and `ClearShard` model `flushdb`, `Flusher` the thread of
`SyncPolicy::EverySec`, `Crash` and `Restart` the loss of memory and the orderly
drop, each followed by `new`.  A crash is a crash of the process: `flush` is not
`fsync`, and what the operating system has is kept.

**AofReplay, AofLog.**  A file is a sequence of cells, one for each byte of data
and one for each four-byte field.  Checksums are ideal (the cell holds what was
summed) and no value contains a whole valid record.  `ReplayInit` chooses the
records, the format, the policy and one damage (a cut anywhere, any one cell
changed, or the first fields of a record whose append failed before the next
one); the steps are the iterations of the replay loops.  `AofLog` is the life
of a file over many openings: append, flush, close, crash with a torn tail,
decay of stored records, rewrite, verify and the three modes of repair.  A
rewrite may fail before or after its flush.  A repair reads the file, and the
rewrite it ends with flushes the buffer into the file that it then replaces:
`kept` is what the records that reached a file say, `lost` the keys whose last
record went that way.

**Compaction.**  A writer with its index and log (SET writes the log first, DEL
the index: `Write` and `Apply`, `Delete` and `LogDelete`), `create_snapshot` shard by
shard, retention, the worker with its condition variable (trigger, time-out,
spurious wake-up, stop), the replacement of the file, SAVE, crash, restart and
recovery.  `linked` says whether the writer's file is still the one under the
path.  The manager has the index it shares with the store, as in its tests.

**SlotManager, Cluster.**  One step for each lock that `start_slot_migration`,
`complete_slot_migration` and `rollback_migration` take; `call` holds the step
that each thread is at.  The advanced rebalancer plans migrations from the load
and starts and completes each.  `Cluster` routes clients' calls and starts
migrations from its thread.  The CRC of `calculate_slot` is the constant `SlotOf`.

**MemoryStore.**  One step for each access to the DashMap, so that the calls of
two tasks interleave between them.  A string is the number of the write that
stored it: two values are equal only when one is a copy of the other.  The geo
sets are in a DashMap of their own, whose shard locks are kept while they are
used (`held`); the keys lie in different shards of it.

**Server, Requests.**  `Server` has the phases of a connection, the semaphore,
the counters and the registry.  A client sends pieces of lines, ends of lines
(QUIT or another command) and whole ZSP frames: one that is executed, one that
the decoder rejects, one that makes the handler panic.  A read brings any number
of them.  Frames in pieces are in `Zsp` and `Exchange`.  A panic ends the task
inside `handler.run()`: the permit comes back, the counts do not (`panicked`).
`told` are the handlers that were waiting when `notify_waiters` was called.
`Requests` has `process_command` and `execute_store_command` as
functions of a request and the store, on the in-memory and on the persistent
engine with an append that works or fails, and the counters and states of
connections that come, are served and go.  Stored bytes may be no UTF-8
(`RawBytes`).

**Sessions, Access.**  A section under the manager's lock is one step.  Sessions
and tokens are numbered, which stands for their random identifiers; time goes in
seconds.  A glob pattern is the set of names that it matches.

**Logging.**  Three state machines: a `SizeRotatingWriter` used by two threads,
the hourly task beside the appender, and `SlowQueryTracker::finish` with the
lock of its configuration.

**Commands.**  One action for each command, those about the server and the
handlers of `CommandRegistry` included; the integers go from `MinInt` to `MaxInt`
and overflow as the code's checked operations do.  Texts are sequences of bytes
with characters of one and of two, so that the UTF-8 check and the cut inside a
character, which panics, occur.

**Containers.**  `Dict` moves buckets in every changing call, `SmartHash` changes
between vector and map, `SkipList` has towers and backward links, `QuickList.tla`
has the segments with their position index, the buffer of `listpack` with its
gaps and variable-length element lengths, and the encodings of `intset`.  Each
records what its calls return and is shown to implement `AbstractMap` or
`AbstractList` under a refinement mapping (`INSTANCE ... WITH`).  The packed list
does so with three exceptions, which `ListPackIsList` names: a removal that
shifts the left side and, while the length of an element begins with 0xFF, a
removal at the back spoil the content (`packSpoilt`, where the model ends), and
get and remove may then not find what is there.  `SharedLists`
has the counters that the shared skip lists keep beside their locks.

**GeoSet, Hll, Sds, Timed.**  The geo index is on a coarse grid of the sphere:
angles are whole parts of a right angle, cosines are in hundredths, distances are
compared by the haversine formula, and the box of a radius is made from degrees
of latitude and of longitude as in `radius_to_bbox`.  An element of a sketch is its hash; the estimate
is left at the two numbers it is computed from.  Digits are below `Radix`.
`Instant` never goes back, the wall clock of a stream may.

**Zsp, Exchange, Zdb.**  Codecs are operators from values to sequences of bytes
or cells and back, applied to whole input, to input in pieces and to input cut
short.  Bytes are scaled down (`Radix` is 128 in the code), the tags and limits
are the code's or named constants.  `Zsp` follows a stream up to the first piece
that ends where the decoder cannot resume (`lost`).  In `Exchange` the handler may
leave at any time, with or without an error frame that answers no command; a
client that reads it takes it for an answer (`Bye`).  `Zdb` has the size limits
of the readers, scaled down; the writers have none.

**Broker, Subscriber.**  `Broker` has the two DashMaps and the read locks that a
lookup keeps; each channel name has a shard of its own.  `Subscriber` numbers the
messages of a broadcast channel that keeps the last `Capacity` of them; those in
`Broken` do not decompress, and `counted` are the ones that its statistics have
as filtered or lagged.  Its second half reduces each member of a `MultiSubscriber` to the number of messages
waiting.

## 3. What TLC checks

### Runs that pass

| Run | Module, configuration | Distinct states | Bounds |
|---|---|---|---|
| `store_sequential` | `MCPersistentStore`, `StoreSequential.cfg` | 504,143 | one client, 3 keys in 2 shards, 3 operations out of nine, 1 restart, `Always` with a batch of 3 |
| `store_concurrent` | `MCPersistentStore`, `StoreConcurrent.cfg` | 167,958 | two clients, 3 keys in 2 shards, 3 operations out of seven (FLUSHDB too), failing appends, 1 restart, `EverySec` |
| `aof` | `MCAof`, `Aof.cfg` | 441,888 | files of up to 3 records of 3 kinds in both formats, every cut, torn record and changed cell, Strict and Skip; 2 keys, 3 logged records, 2 damaged; 2 records, 2 seconds, 1 compaction with and without snapshots |
| `slots` | `MCSlots`, `Slots.cfg` | 703,022 | 4 slots, 3 shards, 3 requested moves, version up to 4, load up to 3; 3 keys, two of which share a slot, 4 operations |
| `server` | `MCServer`, `Server.cfg` | 1,013,412 | 3 connections from 2 addresses, limits 2 and 1, pieces of 6 kinds; every request of a small alphabet on both engines; 4 connections served with ids modulo 3; 1 user, 2 creators, limit of 1 session, 4 tokens, 3 seconds |
| `collections` | `MCCollections`, `Collections.cfg` | 95,745 | 4 keys and 2 values in the maps, 5 elements in segments of 2, 3 packed elements with lengths of one and two bytes; 3 tasks, 2 shards, 3 calls; 2 keys and 2 fields for the commands; 4 places and 4 centres on a sphere with 4 units to the right angle; 5-bit hashes in 4 registers |
| `services` | `MCServices`, `Services.cfg` | 181,337 | 2 callers, 2 keys, 2 elements, 3 calls; 3 rules; 2 tasks, block after 2 failures, 3 seconds; 2 log threads, 2 lines; 5 days; 2 slow queries, 1 update |
| `codecs` | `MCCodecs`, `Codecs.cfg` | 788,662 | dumps and streams of values of every type, on both sides of each size limit, with `Radix` 8; 3 client calls; 2 threads, 2 channels, 3 subscribers; 5 messages, one of them broken, capacity 2; 3 members |

What they show:

- **`store_sequential`.**  `LogMatchesIndex`: whenever no operation is under way
  a replay of the log gives exactly the index.  `LossWindow`: with `Always` a
  crash loses fewer than `batch_size` records.
- **`store_concurrent`.**  `KeyCountExact`: `key_count`, which DBSIZE sums, is
  right after every critical section of every interleaving, failing appends and
  restarts included.  `OperationsFinish`: no set of operations deadlocks.
- **`aof`.**  `ReplayExact` (`EarlierIsReplayed`, `OnlyDamagedIsLost`,
  `StrictStopsAtDamage`, `SkippedIffDamaged`): one damage costs one record and the
  counters tell exactly whether there was damage; `ReplayEnds`: every iteration
  advances.  `FileRemembers`: after any sequence of crashes, rewrites and repairs
  the readable records say of every key what the records that reached the file
  whole said.  Only two things take a key back: decay of a record of its own, and a
  repair while a record about it is buffered.  `RepairHealsTorn`: a repair whose
  rewrite succeeds leaves no torn tail and no checksum error.  `CleanRestartRestores`: until the first
  compaction a snapshot, however mixed, never disturbs what a clean restart
  restores; `WorkerResponds` (`TriggerIsServed`, `ShutdownReturns`): no trigger is
  lost and `shutdown` returns.
- **`slots`.**  `TablesAgree`: with one thread that starts migrations the table
  and the tasks agree.  `CachedMapIsCurrent`: an unchanged version means an
  unchanged table.  `PlannedIsCompleted`: a plan of the advanced rebalancer is
  completed.  `WrittenIsFound`: the last value written is in the shard that a
  read asks and in no other.  `DropReturns`: dropping the store ends.
- **`server`.**  `CountersExact`: the semaphore counts the connections that are
  alive; the per-address counts, `active_connections` and the registry count
  those and the ones whose handler panicked, which stay for good.  `StreamIntact`:
  in whatever pieces lines arrive, lines and whole frames are taken up in order
  and each once.  `ServerStops`.  `RequestsAnswered` (`ProtocolsAgree`,
  `RefusedChanges`, `PoppedIsAnswered`): the two dispatchers do the same to the
  store and answer alike, but for stored bytes that are no UTF-8, which a text
  GET refuses; and what an error answer may have changed.  `RegistryTruthful`
  (`CountsExact`, `StateTruthful`, `AdminExact`): what an administrator sees.
  `SessionsSound` (`LimitKept`, `RevokedRefused`, `ExpiredStays`,
  `LiveSessionsStay`): sessions and tokens are given up for a reason and for good.
- **`collections`.**  `ContainersRefine`: every call of the six containers does
  to the container what it does to an abstract map or list (the packed list with
  the exceptions above), with the structural facts behind it.  `SharedLenExact`, `GeoExact`, `HllExact`, `SdsExact`,
  `TimedExact`: the counters, indexes, registers, representations and clocks.
  `CommandsSound`: a command that fails changes nothing, a value keeps its type
  unless it is replaced, no removal leaves an empty hash or set, ranges and counts
  are right, GETRANGE fails or panics exactly where it would return bytes that are
  no text, reads agree.
- **`services`.**  `ElementsConserved` (`NeverCopied`, `TakenOnce`): no value is
  copied by a rename and no member handed out twice.  `AccessSafe`
  (`AsConfigured`, `FailuresBounded`, `NewUserUnseen`, `PasswordFirst`): what a
  user may do is what the rules say, in whatever order; of the keys of a user
  without a key pattern nothing is said (`NoPatternNoKey` below).
  `RotationKeepsLines` and `RecentKept`: no line is lost before its time.
  `SlowLogSound`: counts are exact.  `ServicesEnd`: every call returns, but for
  `geo_radius_by_member` around a member that exists, which waits for itself, and
  the later geo calls on that key; no other call is held up by them.
- **`codecs`.**  `DumpsReadBack`: a dump is read back as it was written exactly
  when its version is readable and all of it is within the limits, and is refused
  otherwise.  `WireExact`: of a stream in pieces every frame is decoded up to the
  first cut that the decoder cannot resume; the first message of some data, all
  commands and every answer that does not come together with an earlier one are
  read as they were written (bytes of commands that are no UTF-8 are replaced).
  `ExchangeInOrder`: commands are executed once and in order; without timeouts each
  call returns the answer to its own command or learns that the handler is gone;
  with them, answers come in order, none twice, and a goodbye comes last.
  `BrokerSound` (`NoStatsWithoutChannel`, `LimitOverrun`): statistics outlive their
  channel by no more than the call that removes it, and the limit is overrun by no
  more than the threads at work.  `Delivery` (`DeliveredInOrder`, `OnlyKnownLosses`):
  messages are received in order and once; the others are counted, or given up by
  a call that fails, or rejected by the caller's own condition.  `FairRotation`.

A property named here with others in parentheses is their conjunction; each
conjunct has a comment of its own in its module.

Why the bounds are enough: the interesting cases need two actors that meet
between two critical sections of one operation, one key in common and one apart,
one damaged record with a good one before and after it, a batch that is full and
one that is not, a container on either side of each threshold, an integer at its
limit, and one restart.  All of them occur: every action of every module is
taken in some run.  Behaviours end at the bounds, so the configurations do not
ask for freedom from deadlock; that calls come to an end is checked as a
liveness property instead.  `collections` uses symmetry in the keys and the
fields of the commands, which no definition tells apart; no liveness property is
checked there.

### Fairness

Weak fairness only, and only of steps that the code cannot refuse to take: a
thread or task that is inside a call goes on (`PersistentStore`, `MemoryStore`,
`Access`, `Logging`, `Cluster`, `Broker`); the compaction worker is scheduled,
and its wait has a time-out; the rebalancer thread looks at its flag; the waits of
the stopping server have time limits (`Server`, which assumes nothing of handlers).
Nobody has to start an operation, and no client has to stop sending.
The other runs check safety alone and assume no fairness.

### Runs that show a disagreement

| Run | Statement of the repository | What the code does |
|---|---|---|
| `compaction_writes` | `README.md:32`, "After server restart, all data is restored automatically." | records written during or after a compaction go to the replaced file (`RestartRestoresAll`; `engine/compaction.rs:526`) |
| `server_shutdown` | `network/connection.rs:155`, all handlers are notified | a handler that is not waiting misses it and takes up the next command (`ShutdownHeard`) |
| `zsp_fragments` | `network/connection.rs:603`, "a partial frame, we wait for more data" | the next read hands the decoder the same bytes again, and the command is not executed (`PiecesExecuted`) |
| `broker_publish` | `pubsub/broker.rs:212`, the closed channel is removed | the removal waits for the reference that the same call holds (`PublishReturns`) |

## 4. What is proved

The theorems hold for every value of the constants that satisfies the named
assumptions: any number of clients, threads, keys, shards, slots, messages and
records, and whatever the bounds that the runs use.

| Theorem | Module | Statement |
|---|---|---|
| `TypeCorrect` | `PersistentStoreProofs` | every reachable state of the store is well-typed |
| `KeyCountCorrect` | same | `Spec => []KeyCountExact` |
| `LossIsBounded` | same | without failing appends `Spec => []LossWindow` |
| `LogOwedAlways` | `PersistentLogProofs` | one client, no FLUSHDB, no failing append: `Spec => []LogOwed` |
| `RestartRestores` | same | under the same assumptions `Spec => []LogMatchesIndex` |
| `SnapshotsAreHarmless` | `AofProofs` | `CleanRestartRestores` |
| `RetentionIsSafe` | same | retention keeps the snapshot just written (`NewestSnapshotKept`) |
| `FilesRemember`, `RepairsHeal`, `LogTypes` | same | `FileRemembers`, `RepairHealsTorn`, types of the log |
| `SlotTypes`, `CacheIsCurrent` | `SlotProofs` | types of the table, `CachedMapIsCurrent` |
| `TablesAlwaysAgree` | same | one starter and one finisher: `TablesAgree` |
| `PlansAreCompleted` | same | `PlannedIsCompleted` |
| `LastValueFound` | same | `WrittenIsFound` |
| `CountersAgree`, `ItemsInOrder` | `NetworkProofs` | `CountersExact`, `StreamIntact` |
| `AddressLimitKept`, `ServerTypes` | same | `PerIpLimit`, types of the server |
| `BrokerIsSound` | same | `BrokerSound` |
| `SmartHashImplementsMap` | `StructureProofs` | the hash implements `AbstractMap`, and its representation agrees with its size |
| `SharedLenIsExact` | same | `SharedLenExact` |
| `TimesAreRight` | same | `TimedExact` |
| `RotationIsFair`, `MultiTypes` | `SubscriberProofs` | `FairRotation`, types of a `MultiSubscriber` |
| `MessagesDelivered` | same | `Delivery` |

### Assumptions

The assumptions on the constants are in the modules that declare them, and TLC
evaluates them in the runs of those modules.  Shards, slots, batch sizes, retention and limits
are positive, functions such as `ShardOf` and `SlotOf` have the right domain and
range, sets whose cardinality occurs are finite, and distinguished values such
as `Free` and `None` are not members of the sets they stand beside.  Two say
more: `SharedListsAssumption` has fewer keys than the counter can hold (`Wrap`,
2^64 in the code), and `LossIsBounded`, `LogOwedAlways` and `RestartRestores`
have the hypotheses in the table, none of which can be dropped: section 5 has a
counterexample for each.  The server as shipped has one client thread.

### The arguments

- **Replay.**  `ReplayTheorems` has the lemmas about sequences of records: what
  `Replay` gives for a concatenation and after one or two more records, and that
  flushing and buffering do not change what is logged.
- **Types and counts of the store.**  `TypeOK` is split into index, log, locks
  and threads; each action is one lemma and leaves most parts alone.  It says for
  each label what a thread carries there (`PlaceOK`), which makes it inductive.
  `KeyCountExact` is inductive together with it: an action that changes a shard's
  map changes its count by the change in cardinality, in the same step.
- **Loss window.**  `LossInv` says that the buffer holds no more records than
  `pending_ops` counts and that the count is below the batch size; that a
  `BufWriter` writes out by itself only makes the buffer shorter.
- **Log and index.**  `LogMatchesIndex` says nothing in the middle of an
  operation.  `LogOwedBy(c)` strengthens it to every point: the log with the
  records that the client has still to append replays to the index with the
  updates that it has still to apply; and where RENAMENX has yet to read the moved
  value again, that value is there and its record completes the log.
- **Snapshots.**  `CompactionInv` looks at one key at a time (`KeySafe`).  If the
  log says anything of the key, its replay alone gives the acknowledged value,
  whatever the snapshot says.  If not, the index has the value that was loaded
  from the snapshot, no record is under way, and a snapshot being taken has that
  value too once it is past the key's shard.  So mixed moments do no harm.
- **The file.**  `FileInv`: damaged places are places of the file, and what is
  read back is, for every key that no repair has lost, what the records that
  reached the file whole say.  It is inductive key by key, a record that decays
  taking back its own key alone.  Its steps rest on what replay gives for a file with records taken out of it.
- **Slots.**  `CachedMapIsCurrent` allows for calls that have changed the table
  and not yet raised the version; with `VersionKnown` (no copy has a version from
  the future) it is inductive.  `CallsSound`: each half-done call of the one
  starter or finisher accounts for the difference between table and tasks.
  `RebalancerInv`: what was planned has been completed or is left in the plan, and
  there is one task at a time.  `ClusterInv` (table, store, clients): since the
  store's thread starts migrations and nothing completes them, every slot is
  read from its first shard, and every call under way carries that shard.
- **Server.**  `Counted` adds to `CountersExact` and `PerIpLimit` that finitely
  many connections are alive or panicked, which their cardinality needs.
  `StreamIntact` is inductive with the types.
- **Broker.**  `BrokerInv`: statistics without a channel have a thread that is
  about to remove them.  `WithinLimit`: the receivers of a channel and the threads
  that passed the check and have yet to create theirs are together within the
  limit that `LimitOverrun` states.
- **Hash.**  `HashInv`: no field twice in the vector, and the flag and the
  representation agree with the size; the mapping takes either representation to
  the map it denotes, and every call to the abstract one with the same reply.
- **Shared lists.**  `SharedInv` (`SharedTypes`, `LocksHeld`, `DeltasTrue`,
  `ClearsAlone`, `LengthCounted`): a thread at work holds its shard's lock, and
  the counter is the number of keys that are there, but for those whose update is
  under way.
- **Clocks.**  `ExpireInv`: a key's deadline is that of its last set and is in the
  heap, stale entries besides.  `StreamInv`: sequence numbers grow, and so do the
  times while the clock does not go back.
- **Subscribers.**  `DeliveryInv`: a batch comes after what was returned before it,
  the local buffer holds at most the one message that a `recv_with_condition` in
  progress has passed over, and what was counted is nowhere else.  `RotationInv`:
  what was returned before a waiting message and the turns until its own are
  together at most N.

### Only model-checked

- Liveness (`OperationsFinish`, `ServerStops`, `WorkerResponds`, `DropReturns`,
  `ServicesEnd`, the end of `finish`) and `ReplayEnds`, which uses `ENABLED`: both
  are beyond the prover.
- What recursive definitions compute for every input, which needs induction over
  data: `Dict`, `SkipList`, `QuickList`, `GeoSet`, `Zsp`, `Zdb`, `Exchange`, and
  the replay of damaged files in `AofReplay`.
- Sums over sets and folds: `RegistryTruthful`, `SlowLogSound`,
  `RotationKeepsLines`.
- `ElementsConserved`, `RecentKept`, `AccessSafe`, `SessionsSound`,
  `RequestsAnswered`, `CommandsSound`, `HllExact` and `SdsExact`: no proof is
  attempted.

## 5. What does not hold

### Properties that the code violates and that have no run

The modules also define properties that TLC finds violated, on instances no
larger than those above.  They are kept because they mark the edge of what holds.

| Property | Module | Circumstance |
|---|---|---|
| `LogMatchesIndex` | `PersistentStore` | FLUSHDB, which appends no record (the keys come back); a SET and a DEL of one key by two threads; a DEL whose append fails |
| `LossWindow` | `PersistentStore` | a failed flush, which leaves a full batch in the buffer |
| `FlushedAfterEveryCommand` | `PersistentStore` | `Always` waits for a full batch, against `engine/aof.rs:38` |
| `RenameIsAtomicOnDisk` | `PersistentStore` | batch full between the two records of a RENAME |
| `RenamedKeyIsThere` | `PersistentStore` | a DEL before the second read of RENAMENX |
| `RemovesOnlyItsMembers` | `PersistentStore` | a SADD between the two sections of SREM |
| `WholeFileReplayed` | `AofReplay` | records appended to a file with the header AOF1 |
| `RepairHeals`, `ModifiedTells`, `RepairKeepsAppended` | `AofLog` | a damaged operation byte; mode Strict; records in the buffer |
| `RestartRestoresAll` | `Compaction` | besides `compaction_writes`: a deletion between snapshot and compaction; a compaction before recovery is over |
| `SaveFlushes` | `Compaction` | SAVE takes the log's mutex and flushes nothing |
| `TablesAgree` | `SlotManager` | two threads that start migrations |
| `MigratesFromOwner` | `SlotManager` | a slot named twice in a plan |
| `MigrationsComplete` | `Cluster` | nothing completes a migration |
| `EveryCallReturns` | `MemoryStore` | `geo_radius_by_member` of a member that exists asks for a lock it holds (`engine/memory.rs:290`) |
| `NoPatternNoKey` | `Access` | a user without key patterns may use every key, against `auth/acl.rs:291` |
| `MessagesInOrder` | `Zsp` | `decode_message` leaves the message it returns in its input |
| `SubscriberLimit`, `ChannelHasStats`, `EmptyChannelRemoved` | `Broker` | two threads; two threads; a dropped subscriber stays counted |
| `ConditionMet` | `Subscriber` | `recv_with_condition` with a buffer takes the first unwanted message up again and again |
| `AnyReturns` | `Subscriber` | `recv_any` waits for the first channel while a message is on another |
| `ProcessExits`, `ReceivedIsAnswered` | `Server` | a second signal is needed; one item is taken up for each read |
| `DumpRestored` | `Zdb` | `write_dump` writes keys past the buffer of the body (`engine/zdb/encode.rs:236`), and no reader accepts the result |
| `RadiusFindsAll` | `GeoSet` | members in diagonal neighbour cells, and radii outside the steps of `geo_base.rs:186` |

### Other observations

Behaviour met while translating that a reader of the code may want to know.
The models have it as it is; the properties are stated so that they hold with it.

- **In-memory store.**  Calls that take several map accesses are not atomic: two
  first SADDs of a key may lose members of one; the removal of an emptied set may
  remove what was written meanwhile; RENAMENX checks and then acts; MSET and
  RENAME can be seen half done.  A single-threaded server meets none of these.
- **Commands.**  LRANGE with a stop before the start of the list returns the first
  element; GETRANGE excludes its end; emptied lists stay; SETBIT and BITOP replace
  values of other types; INCR turns numeric text into an integer; HSET without
  entries makes an empty hash; GETRANGE panics when it would cut a character;
  DECRBYFLOAT is wired to the integer DECRBY.  A `CommandRegistry` handler panics
  on an argument it cannot decode and answers an error of the engine with no
  elements.
- **Requests.**  QUIT is counted as a command and as an error; "QUIT x" is
  answered with +OK and the connection stays.  A refused ZSP command whose reply
  cannot be written counts two errors; bytes of ZSP frames are not counted as
  received.  MSET stops at the first failure with a prefix written.  On the
  persistent engine DEL, SADD, SREM and SPOP that cannot be logged are answered
  with an error though done; SET logs first.  Numbers that do not parse become 0.0
  (GEOADD, GEORADIUS) or 1 (SPOP, SRANDMEMBER); SPOP with a count of 0 pops one.
  An integer SET over ZSP is readable by no GET; MGET of a value that is no string
  is null in text and an error over ZSP.  Stored bytes that are no UTF-8 are an
  error in a text GET, and in a text MGET they are replaced under the length of the
  stored ones.  A handler that panics stays in the registry and in the counts, of
  its address too, for good.  After 2^32 registrations an id may
  collide with that of a connection still open (`outlived`).  No connection is
  ever marked authenticated.
- **Sessions.**  The limit is kept by creation from a token, and by
  `create_session_full` unless another creation comes between its count and its
  insertion.  In the last second of a revoked token it may be accepted again.
- **Access control.**  `+@all` names no known category and grants nothing; no
  pattern at all allows every key and channel.  A block is measured from the first
  failure; a failed `create_user` leaves the user with the rules up to the failed
  one; unknown users are not counted; `authenticate` does not look at `enabled`.
- **Logging.**  Simple and Dated naming truncate the file they rotate to;
  Sequential starts again at 001 after a restart.  Compression looks for the
  extension "log", which daily files do not have; with rotation `Never` a file
  that was idle for a day is removed while the appender writes on.  A retention
  that removes by age and by count fails on the file already removed.  `finish`
  reads the configuration's lock twice: with an update waiting in between both
  block, so a run has either arguments or updates.
- **Geo index.**  Adding a member again at the same place duplicates its tree
  entry; `nearest` and `bbox_query` use a tree that is not rebuilt; the search for
  the nearest prunes by degrees against metres; a radius query does not reach
  across the 180th meridian, and away from the equator it misses members at the
  eastern and western ends of the circle.
- **Strings, expiry, streams.**  `truncate` gives reserved room up; `from_f64`
  panics beyond 32 bytes; the heap of the expiry map keeps an entry for each set;
  a wall clock that goes back breaks the order of a stream's ids.
- **Wire protocol.**  PING over ZSP is always refused; AUTH with only a password
  panics in the parser; `decode_message` does not advance its input; the depth
  limit is not enforced; strings in three pieces and nested partial arrays are
  lost; floats keep five decimals.
- **Client.**  After a read timeout a later call may return the earlier answer;
  answers that come together with the one returned are dropped; the error frame
  with which a handler says that it closes is returned as the answer to a command;
  `connect` marks the client as authenticated.
- **Dump format.**  Key lengths whose first byte is 0xFF are read as the end; a
  dump of 255 entries is read as empty; lists and streams are written and cannot
  be read; scores of the oldest version are written with 64 bits and read with 32;
  `load_from_zdb` stores a prefix before it fails.  The writers check no sizes, so
  a value beyond a reader's limit is written and refused.
- **Subscribers.**  A message that does not decompress makes the call fail with the
  error of a closed channel, though the channel is open.
- **AOF.**  A repair loses the records that are buffered when it rewrites; a
  rewrite that fails to open the new file leaves the writer on the replaced one.
- **Broker.**  A channel that is made anew while the old one is being removed can
  stay without statistics, and no cleanup finds it.
- **Packed list.**  Beside the exceptions of `ListPackIsList`: once the content is
  spoilt, later calls read the buffer outside of it.
- **Shared skip lists.**  An update that meets a clear of the sharded list, or a
  closure that panics in the concurrent one, leaves the counter off until the next
  clear.

## 6. What is left out

- Times, sizes and statistics, except where a decision or an answer depends on
  them.
- Reads, where they change nothing but statistics and no property is about them.
- `fsync`, and crashes of the machine.
- Damaged snapshot files, and the recovery strategies other than Auto.
- Copying of keys in a migration, which the code does not do yet
  (`engine/slot_manager.rs:394`).
- Panics, except those of GETRANGE, of `CommandRegistry` and of a connection's
  task.
- What libraries do: hashes and signatures, compression, random identifiers, the
  tokio channels and locks beyond their documented
  behaviour (which the models have as external definitions).
- Whole components, marked `not_modelled` in `PROJECT.json`: the storage interface
  and engine front (delegation), the Lua engine and the engine's metrics (external
  interpreter; independent counters), configuration (read once at the start),
  modules and plugins (external code).  Components marked `partly` say in their
  note what is missing.
