----------------------------- MODULE Compaction -----------------------------
(***************************************************************************)
(* Snapshots, compaction of the append-only file and recovery from both:   *)
(* CompactionManager (src/src/engine/compaction.rs) and RecoveryManager    *)
(* (src/src/engine/recovery.rs) beside a store that keeps writing its log  *)
(* and its index.                                                          *)
(*                                                                         *)
(* The writer of AofLog holds a file; compaction puts another file under   *)
(* the same path.  `linked' says whether the writer's file is the one a    *)
(* restart will find.  A file that compaction wrote has the header "AOF1"; *)
(* what AofLog appends to it is not read back (module AofReplay).          *)
(***************************************************************************)
EXTENDS AofRecords, FiniteSetsExt, SequencesExt

CONSTANTS
    Values,        \* values a key is set to
    ShardOf,       \* the shard of each key
    Retention,     \* snapshot_retention_count
    Compacts,      \* the compaction worker may compact
    Snapshots,     \* the values of enable_snapshots, a set of Booleans
    MaxRecs,       \* bound: records in the log
    MaxClock,      \* bound: seconds
    MaxCompactions \* bound: no trigger after that many compactions

ASSUME RetentionAssumption == Retention \in Nat \ {0} /\ Snapshots \subseteq BOOLEAN

VARIABLES
    enabled,    \* config.enable_snapshots
    up,         \* the process runs and has recovered
    index,      \* ShardedIndex: key -> value or None
    log,        \* AofLog: file, buffer, pending_ops
    linked,     \* the writer's file is the file under aof_path
    replaced,   \* the file compaction wrote, once the writer's is not linked
    legacy,     \* how many records of the file are read as AOF1; -1: AOF2
    client,     \* the record a client has logged and not yet applied, or <<>>
    unlogged,   \* the DEL a client has applied and not yet logged, or <<>>
    snaps,      \* snapshot files: second -> data
    clock,      \* seconds since the epoch
    snapshot,   \* create_snapshot: at, ts, todo (shards), data
    worker,     \* compaction_worker: at, todo, data
    trigger,    \* manual_trigger
    stopping,   \* shutdown flag and stop channel
    compactions,\* compactions_total
    saved       \* history: SAVE returned Ok and nothing was written since

logVars == <<log, linked, replaced, legacy>>
underway == <<client, unlogged>>
vars == <<enabled, up, index, logVars, underway, snaps, clock, snapshot, worker, trigger,
          stopping, compactions, saved>>

Shards == {ShardOf[k] : k \in Keys}
Nothing == [k \in Keys |-> None]
NoSnapshot == [at |-> "idle", ts |-> 0, todo |-> {}, data |-> Nothing]
Waiting == [at |-> "top", todo |-> {}, data |-> Nothing]

\* One SET for every live key.
Compact(data) ==
    LET present == SetToSeq({k \in Keys : data[k] # None})
    IN  [i \in DOMAIN present |-> SetRec(present[i], data[present[i]])]

\* A base map and the records replayed on top of it.
Onto(base, recs) ==
    [k \in Keys |-> IF About(recs, k) = {} THEN base[k] ELSE Replay(recs)[k]]

\* What a replay of the file under aof_path reads.
OnPath(file) ==
    IF ~ linked THEN replaced
    ELSE IF legacy >= 0 THEN SubSeq(file, 1, legacy) ELSE file

\* find_latest_snapshot and load_snapshot
LatestSnapshot == IF DOMAIN snaps = {} THEN Nothing ELSE snaps[Max(DOMAIN snaps)]

\* recover_from_snapshot_plus_aof
Restored(file) == Onto(IF enabled THEN LatestSnapshot ELSE Nothing, OnPath(file))

Init ==
    /\ enabled \in Snapshots
    /\ up = TRUE
    /\ index = Nothing
    /\ log = NewLog(<<>>)
    /\ linked = TRUE
    /\ replaced = <<>>
    /\ legacy = -1
    /\ client = <<>>
    /\ unlogged = <<>>
    /\ snaps = <<>>
    /\ clock = 1
    /\ snapshot = NoSnapshot
    /\ worker = Waiting
    /\ trigger = FALSE
    /\ stopping = FALSE
    /\ compactions = 0
    /\ saved = FALSE

-----------------------------------------------------------------------------
(***************************************************************************)
(* A client at work: SET writes the log first, then the index; DEL the     *)
(* other way round.                                                        *)
(***************************************************************************)
Starts == up /\ client = <<>> /\ unlogged = <<>> /\ ~ stopping /\ Len(Logged(log)) < MaxRecs

Write ==
    /\ Starts
    /\ \E k \in Keys, v \in Values :
          /\ log' \in Appended(log, SetRec(k, v))
          /\ client' = <<SetRec(k, v)>>
    /\ saved' = FALSE
    /\ UNCHANGED <<enabled, up, index, linked, replaced, legacy, unlogged, snaps, clock, snapshot,
                   worker, trigger, stopping, compactions>>

Apply ==
    /\ up /\ client # <<>>
    /\ index' = Onto(index, client)
    /\ client' = <<>>
    /\ UNCHANGED <<enabled, up, logVars, unlogged, snaps, clock, snapshot, worker, trigger, stopping,
                   compactions, saved>>

Delete ==
    /\ Starts
    /\ \E k \in Keys :
          /\ index[k] # None
          /\ index' = [index EXCEPT ![k] = None]
          /\ unlogged' = <<DelRec(k)>>
    /\ UNCHANGED <<enabled, up, logVars, client, snaps, clock, snapshot, worker, trigger, stopping,
                   compactions, saved>>

LogDelete ==
    /\ up /\ unlogged # <<>>
    /\ log' \in Appended(log, Head(unlogged))
    /\ unlogged' = <<>>
    /\ saved' = FALSE
    /\ UNCHANGED <<enabled, up, index, linked, replaced, legacy, client, snaps, clock, snapshot,
                   worker, trigger, stopping, compactions>>

\* Time passes.
Tick ==
    /\ clock < MaxClock
    /\ clock' = clock + 1
    /\ UNCHANGED <<enabled, up, index, logVars, underway, snaps, snapshot, worker, trigger, stopping,
                   compactions, saved>>

-----------------------------------------------------------------------------
(***************************************************************************)
(* create_snapshot: the shards are read one after the other; the file gets *)
(* its name from the second in which this began.                           *)
(***************************************************************************)
SnapshotBegin ==
    /\ up /\ enabled /\ ~ stopping
    /\ snapshot.at = "idle"
    /\ snapshot' = [at |-> "collect", ts |-> clock, todo |-> Shards, data |-> Nothing]
    /\ UNCHANGED <<enabled, up, index, logVars, underway, snaps, clock, worker, trigger, stopping,
                   compactions, saved>>

\* The data read so far and that of the next shard.
WithShard(data, s) == [k \in Keys |-> IF ShardOf[k] = s THEN index[k] ELSE data[k]]

SnapshotShard ==
    /\ up /\ snapshot.at = "collect" /\ snapshot.todo # {}
    /\ LET s == Min(snapshot.todo)
       IN  snapshot' = [snapshot EXCEPT !.todo = @ \ {s}, !.data = WithShard(@, s)]
    /\ UNCHANGED <<enabled, up, index, logVars, underway, snaps, clock, worker, trigger, stopping,
                   compactions, saved>>

\* cleanup_old_snapshots: the newest Retention ones stay.
Kept(names) == {t \in names : Cardinality({u \in names : u > t}) < Retention}

\* persist() replaces a file of the same name; then old ones are removed.
SnapshotPersist ==
    /\ up /\ snapshot.at = "collect" /\ snapshot.todo = {}
    /\ snaps' = [t \in Kept(DOMAIN snaps \cup {snapshot.ts}) |->
                    IF t = snapshot.ts THEN snapshot.data ELSE snaps[t]]
    /\ snapshot' = NoSnapshot
    /\ UNCHANGED <<enabled, up, index, logVars, underway, clock, worker, trigger, stopping,
                   compactions, saved>>

\* SAVE without snapshots: the log's mutex is taken and released.
Save ==
    /\ up /\ ~ enabled /\ client = <<>>
    /\ saved' = TRUE
    /\ UNCHANGED <<enabled, up, index, logVars, underway, snaps, clock, snapshot, worker, trigger,
                   stopping, compactions>>

-----------------------------------------------------------------------------
(***************************************************************************)
(* compaction_worker.  The condition variable's wait ends with a           *)
(* notification, by its timeout, or spuriously; only a timeout makes it    *)
(* look at the size of the file.                                           *)
(***************************************************************************)
TriggerCompaction ==
    /\ up /\ Compacts /\ ~ stopping
    /\ compactions < MaxCompactions
    /\ trigger' = TRUE
    /\ UNCHANGED <<enabled, up, index, logVars, underway, snaps, clock, snapshot, worker, stopping,
                   compactions, saved>>

WorkerTop ==
    /\ worker.at = "top"
    /\ worker' = [worker EXCEPT !.at = IF stopping THEN "exit" ELSE "wait"]
    /\ UNCHANGED <<enabled, up, index, logVars, underway, snaps, clock, snapshot, trigger, stopping,
                   compactions, saved>>

\* Mutant of WakeUp: goes back to waiting when it was woken by the timeout.
WakeUpMissed(timedOut) == trigger /\ ~ timedOut

\* should_compact: a trigger, or a timeout with a file of sufficient size.
WakeUp(timedOut) ==
    \/ trigger
    \/ timedOut /\ Compacts /\ compactions < MaxCompactions /\ Len(log.file) = MaxRecs

WorkerWait ==
    /\ worker.at = "wait"
    /\ \E timedOut \in BOOLEAN :
          IF stopping THEN worker' = [worker EXCEPT !.at = "exit"] /\ UNCHANGED trigger
          ELSE IF WakeUp(timedOut)
          THEN worker' = [worker EXCEPT !.at = "collect", !.todo = Shards] /\ trigger' = FALSE
          ELSE worker' = [worker EXCEPT !.at = "top"] /\ UNCHANGED trigger
    /\ UNCHANGED <<enabled, up, index, logVars, underway, snaps, clock, snapshot, stopping,
                   compactions, saved>>

\* perform_compaction reads the shards one after the other ...
WorkerShard ==
    /\ worker.at = "collect" /\ worker.todo # {}
    /\ LET s == Min(worker.todo)
       IN  worker' = [worker EXCEPT !.todo = @ \ {s}, !.data = WithShard(@, s)]
    /\ UNCHANGED <<enabled, up, index, logVars, underway, snaps, clock, snapshot, trigger, stopping,
                   compactions, saved>>

\* ... and puts a new file under the path.  The writer keeps the old one.
WorkerReplace ==
    /\ worker.at = "collect" /\ worker.todo = {}
    /\ linked' = FALSE
    /\ replaced' = Compact(worker.data)
    /\ compactions' = compactions + 1
    /\ worker' = Waiting
    /\ UNCHANGED <<enabled, up, index, log, legacy, underway, snaps, clock, snapshot, trigger, stopping,
                   saved>>

\* shutdown(): flag and stop signal; the caller waits for the worker to exit.
Shutdown ==
    /\ up /\ ~ stopping /\ client = <<>> /\ unlogged = <<>> /\ snapshot.at = "idle"
    /\ stopping' = TRUE
    /\ UNCHANGED <<enabled, up, index, logVars, underway, snaps, clock, snapshot, worker, trigger,
                   compactions, saved>>

-----------------------------------------------------------------------------
\* The log of the next process: the file that is under the path.
Reopened(file) ==
    /\ log' = NewLog(IF linked THEN file ELSE replaced)
    /\ legacy' = IF linked THEN legacy ELSE Len(replaced)
    /\ linked' = TRUE
    /\ replaced' = <<>>

\* The worker has exited, the log is dropped (and so written out), and a new
\* process starts.
Restart ==
    /\ up /\ stopping /\ worker.at = "exit"
    /\ up' = FALSE
    /\ Reopened(Logged(log))
    /\ index' = Nothing
    /\ worker' = Waiting
    /\ stopping' = FALSE
    /\ trigger' = FALSE
    /\ saved' = FALSE
    /\ UNCHANGED <<enabled, underway, snaps, clock, snapshot, compactions>>

\* A crash: the buffer and everything in memory is gone.
Crash ==
    /\ up
    /\ up' = FALSE
    /\ Reopened(log.file)
    /\ index' = Nothing
    /\ client' = <<>>
    /\ unlogged' = <<>>
    /\ snapshot' = NoSnapshot
    /\ worker' = Waiting
    /\ trigger' = FALSE
    /\ stopping' = FALSE
    /\ saved' = FALSE
    /\ UNCHANGED <<enabled, snaps, clock, compactions>>

\* Mutant of Recover: only the snapshot is loaded.
RecoverSnapshot ==
    /\ ~ up
    /\ up' = TRUE
    /\ index' = IF DOMAIN snaps = {} THEN Replay(OnPath(log.file)) ELSE LatestSnapshot
    /\ UNCHANGED <<enabled, logVars, underway, snaps, clock, snapshot, worker, trigger,
                   stopping, compactions, saved>>

\* initialize() has started the worker when recover() fills the index.
Recover ==
    /\ ~ up
    /\ up' = TRUE
    /\ index' = Restored(log.file)
    /\ UNCHANGED <<enabled, logVars, underway, snaps, clock, snapshot, worker, trigger,
                   stopping, compactions, saved>>

Worker == WorkerTop \/ WorkerWait \/ WorkerShard \/ WorkerReplace

Next ==
    \/ Write \/ Apply \/ Delete \/ LogDelete \/ Tick
    \/ SnapshotBegin \/ SnapshotShard \/ SnapshotPersist \/ Save
    \/ TriggerCompaction \/ Worker \/ Shutdown \/ Restart \/ Crash \/ Recover

Spec == Init /\ [][Next]_vars

(***************************************************************************)
(* The worker is a thread of its own that the operating system runs, and   *)
(* its wait has a timeout; a client goes on with its operation.            *)
(***************************************************************************)
FairSpec == Spec /\ WF_vars(Worker) /\ WF_vars(Apply \/ LogDelete)

-----------------------------------------------------------------------------
\* Index, snapshots and worker have their types; no snapshot is from the future.
TypeOK ==
    /\ \A k \in Keys : index[k] \in Values \cup {None}
    /\ Len(Logged(log)) <= MaxRecs
    /\ legacy \in -1 .. MaxRecs
    /\ DOMAIN snaps \subseteq 1 .. clock
    /\ worker.at \in {"top", "wait", "collect", "exit"}
    /\ snapshot.at \in {"idle", "collect"}
    /\ compactions \in 0 .. MaxCompactions + 1

\* The log and the index once the client's operation is complete.
FullLog == Logged(log) \o unlogged
Acknowledged == Onto(index, client)

(***************************************************************************)
(* Before any compaction a snapshot never gets in the way of the log: it   *)
(* may mix shards of different moments, be older than the log or newer     *)
(* than what of the log survived a crash, and still a clean restart (after *)
(* the operation under way) brings back exactly the index, key by key.  So *)
(* a crash costs at most the keys that have buffered records.              *)
(***************************************************************************)
CleanRestartRestores == (up /\ compactions = 0) => Restored(FullLog) = Acknowledged

(***************************************************************************)
(* Retention never removes the snapshot that has just been taken, and never*)
(* keeps more than configured.                                             *)
(***************************************************************************)
NewestSnapshotKept ==
    [][(snapshot.at = "collect" /\ snapshot'.at = "idle" /\ up') =>
          /\ Cardinality(DOMAIN snaps') <= Retention
          /\ snapshot.ts \in DOMAIN snaps'
          /\ snaps'[snapshot.ts] = snapshot.data]_vars

(***************************************************************************)
(* A manual trigger is never lost, even when it comes while a compaction is*)
(* running and nobody waits on the condition variable: a compaction starts *)
(* after it, unless the manager is being shut down or the process dies.    *)
(***************************************************************************)
TriggerIsServed == trigger ~> (worker.at = "collect" \/ stopping \/ ~ up)

(***************************************************************************)
(* shutdown() returns: the worker sees the flag or the stop signal, also   *)
(* when it is waiting or compacting.                                       *)
(***************************************************************************)
ShutdownReturns == stopping ~> (worker.at = "exit" \/ ~ up)

(***************************************************************************)
(* The worker thread hears every trigger and every shutdown, wherever it   *)
(* is in its loop when they come (compaction.rs, background_worker).       *)
(***************************************************************************)
WorkerResponds == TriggerIsServed /\ ShutdownReturns

-----------------------------------------------------------------------------
(***************************************************************************)
(* "Data is written to zumic.aof file. After server restart, all data is   *)
(* restored automatically" (README.md): what was written before a clean    *)
(* restart is there after it.                                              *)
(***************************************************************************)
RestartRestoresAll == (up /\ client = <<>> /\ unlogged = <<>>) => Restored(Logged(log)) = index

(***************************************************************************)
(* save(): "Выполняет flush AOF и создаёт snapshot".                       *)
(***************************************************************************)
SaveFlushes == saved => log.buf = <<>>
=============================================================================
