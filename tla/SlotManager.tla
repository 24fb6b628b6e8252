---------------------------- MODULE SlotManager ----------------------------
(***************************************************************************)
(* The slot table of a cluster: SlotManager (src/src/engine/               *)
(* slot_manager.rs).  It says which shard serves a slot, keeps the tasks   *)
(* of the migrations under way, counts operations and plans migrations.    *)
(* The second half of the module is AdvancedRebalancer, which drives it.   *)
(*                                                                         *)
(* The table and the tasks are behind two locks.  start_slot_migration,    *)
(* complete_slot_migration and rollback_migration take them one after the  *)
(* other, so a call is a sequence of steps: `call' holds, for each thread, *)
(* the step its call is at.                                                *)
(*                                                                         *)
(* load_metrics.operations_per_second is empty in every run of the         *)
(* program (only a unit test fills it), so should_rebalance and            *)
(* trigger_rebalance work from the atomic counters.  No code constructs    *)
(* SlotState::Importing.                                                   *)
(***************************************************************************)
EXTENDS Integers, Sequences, FiniteSetsExt, Functions

CONSTANTS
    ShardCount,         \* shard_count
    TotalSlots,         \* TOTAL_SLOTS
    HotKeyThreshold,    \* HOT_KEY_THRESHOLD
    MigrationBatchSize, \* MIGRATION_BATCH_SIZE
    Threads,            \* threads that call the manager
    Starters,           \* the ones that start migrations
    Finishers,          \* the ones that complete them and roll them back
    Requested,          \* bound: the <<slot, target>> that they ask for
    MaxVersion          \* bound: slot_map_version

ASSUME SlotAssumption ==
    /\ ShardCount \in Nat \ {0} /\ TotalSlots \in Nat \ {0}
    /\ MigrationBatchSize \in Nat
    /\ Requested \subseteq (0..TotalSlots - 1) \X (0..ShardCount - 1)
    /\ Starters \subseteq Threads /\ Finishers \subseteq Threads

VARIABLES
    slot_assignments,  \* the state of every slot
    slot_map_version,
    shard_ops,         \* operations per shard
    slot_access,       \* operations per slot
    active_migrations, \* slot -> task
    migration_queue,   \* what was ever put into the queue; nothing takes it out
    call,              \* thread -> the call it is in
    cache              \* a caller's copy of the table and the version read before it

tableVars == <<slot_assignments, slot_map_version, active_migrations>>
loadVars == <<shard_ops, slot_access>>
slotVars == <<tableVars, loadVars, migration_queue, call>>

ShardIds == 0..ShardCount - 1
Slots == 0..TotalSlots - 1

Stable(s) == [state |-> "Stable", shard |-> s]
Migrating(from, to) == [state |-> "Migrating", from |-> from, to |-> to]
Task(from, to) == [from |-> from, to |-> to]

NoCall == [fn |-> "none", at |-> "idle", slot |-> 0, from |-> 0, to |-> 0]

\* Slots are dealt out to the shards in turn.
SlotInit ==
    /\ slot_assignments = [s \in Slots |-> Stable(s % ShardCount)]
    /\ slot_map_version = 1
    /\ shard_ops = [s \in ShardIds |-> 0]
    /\ slot_access = [s \in Slots |-> 0]
    /\ active_migrations = [s \in {} |-> Task(0, 0)]
    /\ migration_queue = {}
    /\ call = [t \in Threads |-> NoCall]
    /\ cache = [at |-> "none", version |-> 0, map |-> slot_assignments]

GetSlotShardTo(slot) ==
    LET a == slot_assignments[slot]
    IN  IF a.state = "Stable" THEN a.shard ELSE a.to

\* A slot that is migrating is still served by the shard it leaves.
GetSlotShard(slot) ==
    LET a == slot_assignments[slot]
    IN  IF a.state = "Stable" THEN a.shard ELSE a.from

(***************************************************************************)
(* Load                                                                    *)
(***************************************************************************)
RecordOperation(slots) ==
    /\ slot_access' = [s \in Slots |-> slot_access[s] + (IF s \in slots THEN 1 ELSE 0)]
    /\ shard_ops' = [h \in ShardIds |-> shard_ops[h] +
                        Cardinality({s \in slots : GetSlotShard(s) = h})]

ResetMetrics ==
    /\ slot_access' = [s \in Slots |-> 0]
    /\ shard_ops' = [h \in ShardIds |-> 0]

TotalOps == FoldFunction(+, 0, shard_ops)

\* max_load / min_load > 1.5, or somebody idle beside somebody busy
ShouldRebalance ==
    LET loads == Range(shard_ops)
    IN  /\ ShardCount >= 2
        /\ 2 * Max(loads) > 3 * Min(loads)

\* A load above 1.5 times, or below 1/1.5 of, the average.
Overloaded == {h \in ShardIds : 2 * ShardCount * shard_ops[h] > 3 * TotalOps}
Underloaded == {h \in ShardIds : 3 * ShardCount * shard_ops[h] < 2 * TotalOps}

\* The elements of a finite set, sorted.
InOrder(S, before(_, _)) ==
    [n \in 1..Cardinality(S) |-> CHOOSE x \in S : Cardinality({y \in S : before(y, x)}) = n - 1]

MostLoadedFirst(rank) ==
    InOrder(Overloaded, LAMBDA g, h :
        shard_ops[g] > shard_ops[h] \/ (shard_ops[g] = shard_ops[h] /\ rank[g] < rank[h]))
LeastLoadedFirst(rank) ==
    InOrder(Underloaded, LAMBDA g, h :
        shard_ops[g] < shard_ops[h] \/ (shard_ops[g] = shard_ops[h] /\ rank[g] < rank[h]))

\* For each shard of `over', for each shard of `under', the shard's candidate
\* slots in order, until the batch is full.
Plan(over, under, candidates, batch) ==
    LET places == {p \in (1..Len(over)) \X (1..Len(under)) \X Slots :
                      <<p[3], over[p[1]]>> \in candidates}
        before(p, q) == \/ p[1] < q[1]
                        \/ p[1] = q[1] /\ p[2] < q[2]
                        \/ p[1] = q[1] /\ p[2] = q[2] /\ p[3] < q[3]
        inOrder == InOrder(places, before)
        size == IF batch < Cardinality(places) THEN batch ELSE Cardinality(places)
    IN  [n \in 1..size |-> [slot |-> inOrder[n][3], from |-> over[inOrder[n][1]],
                            to |-> under[inOrder[n][2]]]]

\* Only stable slots that are in demand are moved.
HotSlots ==
    {c \in Slots \X ShardIds :
        slot_assignments[c[1]] = Stable(c[2]) /\ slot_access[c[1]] > HotKeyThreshold}

PlannedMoves ==
    Plan(MostLoadedFirst([h \in ShardIds |-> h]), LeastLoadedFirst([h \in ShardIds |-> h]),
         HotSlots, MigrationBatchSize)

(***************************************************************************)
(* Migration calls, one step per lock taken                                *)
(***************************************************************************)
At(t, fn, at) == call[t].fn = fn /\ call[t].at = at
Goto(t, at) == call' = [call EXCEPT ![t].at = at]

\* start_slot_migration: is there a task already?
StartCheckNone(t, move) ==
    /\ call[t] = NoCall
    /\ call' = [call EXCEPT ![t] = [fn |-> "start", at |-> "assign", slot |-> move.slot,
                                     from |-> move.from, to |-> move.to]]
    /\ UNCHANGED <<tableVars, loadVars, migration_queue>>

StartCheck(t, move) ==
    /\ call[t] = NoCall
    /\ call' = [call EXCEPT ![t] =
                  [fn |-> "start",
                   at |-> IF move.slot \in DOMAIN active_migrations THEN "err" ELSE "assign",
                   slot |-> move.slot, from |-> move.from, to |-> move.to]]
    /\ UNCHANGED <<tableVars, loadVars, migration_queue>>

\* complete_slot_migration and rollback_migration: where does the task say?
FinishCheck(t, fn, slot) ==
    /\ call' = [call EXCEPT ![t] =
                  IF slot \in DOMAIN active_migrations
                  THEN [fn |-> fn, at |-> "assign", slot |-> slot,
                        from |-> active_migrations[slot].from, to |-> active_migrations[slot].to]
                  ELSE [NoCall EXCEPT !.fn = fn, !.at = "err", !.slot = slot]]
    /\ UNCHANGED <<tableVars, loadVars, migration_queue>>

\* The entry of the slot table is overwritten, whatever it was.
Assign(t) ==
    /\ call[t].at = "assign"
    /\ slot_assignments' = [slot_assignments EXCEPT ![call[t].slot] =
          CASE call[t].fn = "start"    -> Migrating(call[t].from, call[t].to)
            [] call[t].fn = "complete" -> Stable(call[t].to)
            [] call[t].fn = "rollback" -> Stable(call[t].from)]
    /\ Goto(t, "task")
    /\ UNCHANGED <<slot_map_version, active_migrations, loadVars, migration_queue>>

StartTask(t) ==
    /\ At(t, "start", "task")
    /\ active_migrations' = [s \in DOMAIN active_migrations \cup {call[t].slot} |->
          IF s = call[t].slot THEN Task(call[t].from, call[t].to) ELSE active_migrations[s]]
    /\ Goto(t, "version")
    /\ UNCHANGED <<slot_assignments, slot_map_version, loadVars, migration_queue>>

FinishTask(t) ==
    /\ call[t].fn \in {"complete", "rollback"} /\ call[t].at = "task"
    /\ active_migrations' = Restrict(active_migrations, DOMAIN active_migrations \ {call[t].slot})
    /\ Goto(t, "version")
    /\ UNCHANGED <<slot_assignments, slot_map_version, loadVars, migration_queue>>

BumpOnStart(t) ==
    /\ call[t].at = "version"
    /\ slot_map_version' = slot_map_version + (IF call[t].fn = "start" THEN 1 ELSE 0)
    /\ Goto(t, "ok")
    /\ UNCHANGED <<slot_assignments, active_migrations, loadVars, migration_queue>>

Bump(t) ==
    /\ call[t].at = "version"
    /\ slot_map_version' = slot_map_version + 1
    /\ Goto(t, "ok")
    /\ UNCHANGED <<slot_assignments, active_migrations, loadVars, migration_queue>>

CallStep(t) == Assign(t) \/ StartTask(t) \/ FinishTask(t) \/ Bump(t)

(***************************************************************************)
(* The manager in the hands of threads that start and finish migrations    *)
(***************************************************************************)
\* get_slot_map_version, and then get_slot_shard for each slot
ReadVersion ==
    /\ cache' = [cache EXCEPT !.at = "map", !.version = slot_map_version]
    /\ UNCHANGED slotVars
ReadMap ==
    /\ cache.at = "map"
    /\ cache' = [cache EXCEPT !.at = "cached", !.map = slot_assignments]
    /\ UNCHANGED slotVars

Return(t) ==
    /\ call[t].at \in {"ok", "err"}
    /\ call' = [call EXCEPT ![t] = NoCall]
    /\ UNCHANGED <<tableVars, loadVars, migration_queue>>

StartSlotMigration(t) ==
    /\ slot_map_version < MaxVersion
    /\ \E r \in Requested :
          StartCheck(t, [slot |-> r[1], from |-> GetSlotShard(r[1]), to |-> r[2]])

FinishSlotMigration(t) ==
    /\ call[t] = NoCall
    /\ \E s \in Slots, fn \in {"complete", "rollback"} : FinishCheck(t, fn, s)

SlotNext ==
    \/ \E t \in Starters : StartSlotMigration(t) /\ UNCHANGED cache
    \/ \E t \in Finishers : FinishSlotMigration(t) /\ UNCHANGED cache
    \/ \E t \in Threads : (CallStep(t) \/ Return(t)) /\ UNCHANGED cache
    \/ ReadVersion
    \/ ReadMap

SlotSpec == SlotInit /\ [][SlotNext]_<<slotVars, cache>>

(***************************************************************************)
(* Properties of the table                                                 *)
(***************************************************************************)
SlotEntries == {Stable(h) : h \in ShardIds} \cup {Migrating(g, h) : g, h \in ShardIds}

\* Every slot is served by an existing shard, and migrates between existing
\* shards; the tasks and the calls are for existing slots and shards.
SlotTypeOK ==
    /\ slot_assignments \in [Slots -> SlotEntries]
    /\ slot_map_version \in Nat
    /\ DOMAIN active_migrations \subseteq Slots
    /\ active_migrations \in [DOMAIN active_migrations -> [from : ShardIds, to : ShardIds]]
    /\ shard_ops \in [ShardIds -> Nat] /\ slot_access \in [Slots -> Nat]
    /\ call \in [Threads -> [fn : {"none", "start", "complete", "rollback"},
                              at : {"idle", "assign", "task", "version", "ok", "err"},
                              slot : Slots, from : ShardIds, to : ShardIds]]
    /\ \A t \in Threads : call[t].fn = "none" => call[t].at = "idle"
    /\ cache \in [at : {"none", "map", "cached"}, version : Nat, map : [Slots -> SlotEntries]]

InCall(s) == \E t \in Threads : call[t].slot = s /\ call[t].at \in {"assign", "task"}

\* A slot that no call is changing is migrating exactly when it has a task, and
\* the table and the task agree on where it goes: otherwise nobody can complete
\* or roll back the migration (slot_manager.rs, start_slot_migration).
TablesAgree ==
    \A s \in Slots : ~ InCall(s) =>
        LET a == slot_assignments[s]
        IN  IF s \in DOMAIN active_migrations
            THEN a = Migrating(active_migrations[s].from, active_migrations[s].to)
            ELSE a.state = "Stable"

\* A caller that has read the version and then the table, and finds the version
\* unchanged, has the current table, unless a call is just about to raise the
\* version (slot_manager.rs, slot_map_version).
CachedMapIsCurrent ==
    (/\ cache.at = "cached" /\ cache.version = slot_map_version
     /\ \A t \in Threads : call[t].at \notin {"task", "version"})
        => cache.map = slot_assignments

(***************************************************************************)
(* AdvancedRebalancer (src/src/engine/rebalancer.rs): an operator's thread *)
(* that plans migrations from the load of the shards and starts and        *)
(* completes them one by one, while other threads record operations.       *)
(* ShardAddition and ShardRemoval plan nothing; evaluate_rebalancing_need  *)
(* always answers None.  The thread is the member `operator' of Threads.   *)
(***************************************************************************)
CONSTANTS
    BatchSize,  \* config.migration_batch_size
    operator,   \* the thread in execute_rebalancing
    MaxLoad     \* bound: operations recorded

ASSUME RebalancerAssumption ==
    BatchSize \in Nat \ {0} /\ operator \in Threads

VARIABLES
    plan,       \* execute_rebalancing: the migrations it has left
    event       \* the RebalanceEvent it is filling in

opVars == <<plan, event>>
rebVars == <<slotVars, cache, opVars>>

NoEvent == [planned |-> 0, completed |-> 0]

RebalancerInit ==
    /\ SlotInit
    /\ plan = <<>>
    /\ event = NoEvent

OwnedSlots == {c \in Slots \X ShardIds : GetSlotShard(c[1]) = c[2]}

\* The ranks stand for the order in which the HashMap yields shards of one load.
PlanLoadBased(rank) ==
    LET first(q, n) == SubSeq(q, 1, Min({n, Len(q)}))
    IN  Plan(first(MostLoadedFirst(rank), BatchSize \div 2), first(LeastLoadedFirst(rank), 2),
             OwnedSlots, BatchSize)

\* plan_hot_key_redistribution: the key's slot goes to a least loaded shard.
PlanHotKey(slot, target) ==
    IF target = GetSlotShard(slot) \/ \A h \in ShardIds : shard_ops[h] = shard_ops[target]
    THEN <<>>
    ELSE <<[slot |-> slot, from |-> GetSlotShard(slot), to |-> target]>>

LeastLoaded == {h \in ShardIds : shard_ops[h] = Min(Range(shard_ops))}

Plans ==
    {PlanLoadBased(rank) : rank \in Bijection(ShardIds, ShardIds)}
        \cup (IF TotalOps = 0 THEN {}
              ELSE {PlanHotKey(slot, target) : slot \in Slots, target \in LeastLoaded})

ExecuteUnlimited ==
    /\ plan = <<>> /\ call[operator] = NoCall
    /\ slot_map_version < MaxVersion
    /\ \E rank \in Bijection(ShardIds, ShardIds) :
          plan' = Plan(MostLoadedFirst(rank), LeastLoadedFirst(rank), OwnedSlots, 2 * BatchSize)
    /\ event' = [planned |-> Len(plan'), completed |-> 0]
    /\ UNCHANGED <<slotVars, cache>>

\* execute_rebalancing begins; what happens to the plan is the steps below.
Execute ==
    /\ plan = <<>> /\ call[operator] = NoCall
    /\ slot_map_version < MaxVersion
    /\ plan' \in Plans
    /\ event' = [planned |-> Len(plan'), completed |-> 0]
    /\ UNCHANGED <<slotVars, cache>>

StartNext ==
    /\ plan # <<>>
    /\ StartCheck(operator, Head(plan))
    /\ UNCHANGED <<opVars, cache>>

\* Started: complete it at once.
Started ==
    /\ At(operator, "start", "ok")
    /\ FinishCheck(operator, "complete", Head(plan).slot)
    /\ UNCHANGED <<opVars, cache>>

\* The loop goes on with the next migration, after an error too.
Completed ==
    /\ plan # <<>>
    /\ plan' = Tail(plan)
    /\ \/ /\ At(operator, "complete", "ok")
          /\ event' = [event EXCEPT !.completed = @ + 1]
       \/ /\ call[operator].at = "err"
          /\ UNCHANGED event
    /\ call' = [call EXCEPT ![operator] = NoCall]
    /\ UNCHANGED <<tableVars, loadVars, migration_queue, cache>>

OperatorStep ==
    \/ Execute \/ StartNext \/ Started \/ Completed
    \/ CallStep(operator) /\ UNCHANGED <<opVars, cache>>

\* A client's operation on a key of the slot.
Record ==
    /\ TotalOps < MaxLoad
    /\ \E s \in Slots : RecordOperation({s})
    /\ UNCHANGED <<tableVars, migration_queue, call, opVars, cache>>

RebalancerNext == OperatorStep \/ Record
RebalancerSpec == RebalancerInit /\ [][RebalancerNext]_rebVars

(***************************************************************************)
(* Properties                                                              *)
(***************************************************************************)
\* An event plans no more migrations than migration_batch_size, and when
\* execute_rebalancing returns it has completed every one it planned, although
\* a plan may name a slot twice (rebalancer.rs, execute_rebalancing and its
\* tests).
PlannedIsCompleted ==
    /\ event.planned <= BatchSize
    /\ plan = <<>> => event.completed = event.planned

\* A migration starts at the shard that serves the slot (rebalancer.rs, "Plan
\* migrations from overloaded to underloaded shards").
MigratesFromOwner ==
    [][\A s \in Slots : slot_assignments'[s].state = "Migrating" =>
           slot_assignments'[s].from = GetSlotShard(s)]_rebVars
=============================================================================
