------------------------------- MODULE Cluster -------------------------------
(***************************************************************************)
(* InClusterStore (src/src/engine/cluster.rs): keys spread over shards by  *)
(* the slot table, and the background thread that starts migrations when   *)
(* the load is uneven.                                                     *)
(*                                                                         *)
(* A client's call records the operation, asks the slot table for the      *)
(* shard and then calls the shard; the rebalancer thread runs in between.  *)
(* The operations on one key (get, del, the geo and the set operations     *)
(* included) all have that shape and differ in what the shard does: here   *)
(* the key gets any value, or none.  dbsize and save only read and         *)
(* delegate.  Every shard is an InMemoryStore, whose calls never fail.     *)
(***************************************************************************)
EXTENDS SlotManager

CONSTANTS
    Keys,
    Values,
    None,        \* the key is absent
    SlotOf,      \* calculate_slot: the slot of each key
    Clients,     \* threads that call the store
    rebalancer,  \* the thread of start_rebalancer, a member of Threads
    MaxOps       \* bound: operations counted since the last FLUSHDB

ASSUME ClusterAssumption ==
    SlotOf \in [Keys -> 0..TotalSlots - 1] /\ rebalancer \in Threads

VARIABLES
    shards,      \* what each shard stores
    client,      \* client -> the call it is in
    worker,      \* the rebalancer thread: "loop", "starting" or "done"
    moves,       \* the planned migrations it has left to start
    shutdown,    \* shutdown_flag
    written      \* history: the last value each key was given

clientVars == <<shards, client, written>>
workerVars == <<worker, moves>>
clusterVars == <<slotVars, cache, clientVars, workerVars, shutdown>>

Idle == [fn |-> "none", at |-> "idle", puts |-> <<>>, todo |-> {}]

ClusterInit ==
    /\ SlotInit
    /\ shards = [h \in ShardIds |-> [k \in Keys |-> None]]
    /\ client = [c \in Clients |-> Idle]
    /\ worker = "loop"
    /\ moves = <<>>
    /\ shutdown = FALSE
    /\ written = [k \in Keys |-> None]

KeyShard(k) == GetSlotShard(SlotOf[k])

With(f, puts) == [k \in Keys |-> IF k \in DOMAIN puts THEN puts[k] ELSE f[k]]

\* The entries of `puts' become the content of shard h.
Put(h, puts) ==
    /\ shards' = [shards EXCEPT ![h] = With(shards[h], puts)]
    /\ written' = With(written, puts)

(***************************************************************************)
(* Clients                                                                 *)
(***************************************************************************)
\* set, del and the other operations on one key: record_operation
KeyOp(c) ==
    /\ ~ shutdown /\ client[c] = Idle
    /\ TotalOps < MaxOps
    /\ \E k \in Keys, v \in Values \cup {None} :
          /\ RecordOperation({SlotOf[k]})
          /\ client' = [client EXCEPT ![c] = [fn |-> "key", at |-> "route", puts |-> [x \in {k} |-> v], todo |-> {}]]
    /\ UNCHANGED <<tableVars, migration_queue, call, cache, shards, written, workerVars, shutdown>>

\* get_key_shard
Route(c) ==
    /\ client[c].fn = "key" /\ client[c].at = "route"
    /\ client' = [client EXCEPT ![c].at = "apply",
                    ![c].todo = {<<KeyShard(k), k>> : k \in DOMAIN client[c].puts}]
    /\ UNCHANGED <<slotVars, cache, shards, written, workerVars, shutdown>>

\* mset looks up and records one key after the other, then writes group by group.
Mset(c) ==
    /\ ~ shutdown /\ client[c] = Idle
    /\ \E ks \in SUBSET Keys : \E puts \in [ks -> Values] :
          /\ TotalOps + Cardinality(ks) <= MaxOps /\ ks # {}
          /\ client' = [client EXCEPT ![c] = [fn |-> "mset", at |-> "route", puts |-> puts, todo |-> {}]]
    /\ UNCHANGED <<slotVars, cache, shards, written, workerVars, shutdown>>

MsetRoute(c) ==
    /\ client[c].fn = "mset" /\ client[c].at = "route"
    /\ \E k \in DOMAIN client[c].puts :
          LET todo == client[c].todo \cup {<<KeyShard(k), k>>}
          IN  /\ \A g \in client[c].todo : g[2] # k
              /\ client' = [client EXCEPT ![c].todo = todo, ![c].at =
                              IF Cardinality(todo) = Cardinality(DOMAIN client[c].puts)
                              THEN "apply" ELSE @]
              /\ RecordOperation({SlotOf[k]})
    /\ UNCHANGED <<tableVars, migration_queue, call, cache, shards, written, workerVars, shutdown>>

\* The shard of one group does its part; the groups come in any order.
Apply(c) ==
    /\ client[c].fn \in {"key", "mset"} /\ client[c].at = "apply"
    /\ \E h \in {g[1] : g \in client[c].todo} :
          LET group == {g \in client[c].todo : g[1] = h}
              left == client[c].todo \ group
          IN  /\ Put(h, Restrict(client[c].puts, {g[2] : g \in group}))
              /\ client' = [client EXCEPT ![c] = IF left = {} THEN Idle
                                                 ELSE [@ EXCEPT !.todo = left]]
    /\ UNCHANGED <<slotVars, cache, workerVars, shutdown>>

\* rename and renamenx look up both shards and record both keys ...
RenameBegin(c) ==
    /\ ~ shutdown /\ client[c] = Idle
    /\ TotalOps < MaxOps
    /\ \E from, to \in Keys, fn \in {"rename", "renamenx"} :
          /\ RecordOperation({SlotOf[from], SlotOf[to]})
          /\ client' = [client EXCEPT ![c] =
                IF KeyShard(from) # KeyShard(to) THEN Idle
                ELSE [fn |-> fn, at |-> "apply", puts |-> <<from, to>>, todo |-> {KeyShard(from)}]]
    /\ UNCHANGED <<tableVars, migration_queue, call, cache, shards, written, workerVars, shutdown>>

\* ... and if the shard is the same it does the rest.
Rename(c) ==
    /\ client[c].fn \in {"rename", "renamenx"}
    /\ LET from == client[c].puts[1]
           to == client[c].puts[2]
       IN  \E h \in client[c].todo :
              IF \/ shards[h][from] = None
                 \/ client[c].fn = "renamenx" /\ shards[h][to] # None
              THEN UNCHANGED <<shards, written>>
              ELSE Put(h, [k \in {from, to} |-> IF k = to THEN shards[h][from] ELSE None])
    /\ client' = [client EXCEPT ![c] = Idle]
    /\ UNCHANGED <<slotVars, cache, workerVars, shutdown>>

\* flushdb: one shard after the other, then reset_metrics
FlushBegin(c) ==
    /\ ~ shutdown /\ client[c] = Idle
    /\ client' = [client EXCEPT ![c] = [Idle EXCEPT !.fn = "flushdb", !.at = "apply", !.todo = ShardIds]]
    /\ UNCHANGED <<slotVars, cache, shards, written, workerVars, shutdown>>

FlushShard(c) ==
    /\ client[c].fn = "flushdb"
    /\ \E h \in client[c].todo :
          /\ \A g \in client[c].todo : h <= g
          /\ shards' = [shards EXCEPT ![h] = [k \in Keys |-> None]]
          /\ written' = [k \in Keys |-> IF shards[h][k] # None THEN None ELSE written[k]]
          /\ client' = [client EXCEPT ![c].todo = @ \ {h}]
    /\ UNCHANGED <<slotVars, cache, workerVars, shutdown>>

FlushEnd(c) ==
    /\ client[c].fn = "flushdb" /\ client[c].todo = {}
    /\ ResetMetrics
    /\ client' = [client EXCEPT ![c] = Idle]
    /\ UNCHANGED <<tableVars, migration_queue, call, cache, shards, written, workerVars, shutdown>>

\* The store is dropped when nobody uses it any more.
Drop ==
    /\ ~ shutdown /\ \A c \in Clients : client[c] = Idle
    /\ shutdown' = TRUE
    /\ UNCHANGED <<slotVars, cache, clientVars, workerVars>>

(***************************************************************************)
(* The rebalancer thread                                                   *)
(***************************************************************************)
StopHoisted ==
    /\ worker = "loop" /\ shutdown /\ migration_queue = {}
    /\ worker' = "done"
    /\ UNCHANGED <<slotVars, cache, clientVars, moves, shutdown>>

\* The flag is read at the top of the loop only.
Stop ==
    /\ worker = "loop" /\ shutdown
    /\ worker' = "done"
    /\ UNCHANGED <<slotVars, cache, clientVars, moves, shutdown>>

\* check_interval and rebalance_interval have passed: trigger_rebalance
TriggerRebalance ==
    /\ worker = "loop" /\ ~ shutdown
    /\ ShouldRebalance /\ PlannedMoves # <<>>
    /\ slot_map_version + Len(PlannedMoves) <= MaxVersion
    /\ moves' = PlannedMoves
    /\ migration_queue' = migration_queue \cup Range(PlannedMoves)
    /\ worker' = "starting"
    /\ UNCHANGED <<tableVars, loadVars, call, cache, clientVars, shutdown>>

StartMove ==
    /\ worker = "starting" /\ moves # <<>>
    /\ StartCheck(rebalancer, Head(moves))
    /\ UNCHANGED <<cache, clientVars, workerVars, shutdown>>

\* Ok or an error: the next one.
MoveStarted ==
    /\ Return(rebalancer)
    /\ moves' = Tail(moves)
    /\ worker' = IF Len(moves) = 1 THEN "loop" ELSE worker
    /\ UNCHANGED <<cache, clientVars, shutdown>>

WorkerCall ==
    \/ StartMove \/ MoveStarted
    \/ CallStep(rebalancer) /\ UNCHANGED <<cache, clientVars, workerVars, shutdown>>

WorkerStep == Stop \/ TriggerRebalance \/ WorkerCall

ClientCall(c) ==
    Route(c) \/ MsetRoute(c) \/ Apply(c) \/ Rename(c) \/ FlushShard(c) \/ FlushEnd(c)

ClientStep(c) ==
    KeyOp(c) \/ Mset(c) \/ RenameBegin(c) \/ FlushBegin(c) \/ ClientCall(c)

ClusterNext == (\E c \in Clients : ClientStep(c)) \/ Drop \/ WorkerStep

ClusterSpec == ClusterInit /\ [][ClusterNext]_clusterVars

\* The thread runs, and a call that has begun is carried to its end.
ClusterFairSpec ==
    /\ ClusterSpec
    /\ WF_clusterVars(Stop) /\ WF_clusterVars(WorkerCall)
    /\ \A c \in Clients : WF_clusterVars(ClientCall(c))

(***************************************************************************)
(* Properties                                                              *)
(***************************************************************************)
\* Whatever the rebalancer does between the steps of a call, the last value a
\* key was given is in the shard that a read will ask, and no other shard has
\* one (cluster.rs, set and get; slot_manager.rs, get_slot_shard).
WrittenIsFound ==
    \A k \in Keys, h \in ShardIds :
        shards[h][k] = IF h = KeyShard(k) THEN written[k] ELSE None

\* Dropping the store waits for the thread, and the thread ends (cluster.rs,
\* Drop).
DropReturns == shutdown ~> worker = "done"

\* A slot that migrates has migrated one day (cluster.rs:107, the thread "carries
\* out migrations").
MigrationsComplete ==
    \A s \in Slots : slot_assignments[s].state = "Migrating" ~> slot_assignments[s].state = "Stable"
=============================================================================
