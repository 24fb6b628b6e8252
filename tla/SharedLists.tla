---------------------------- MODULE SharedLists ----------------------------
(***************************************************************************)
(* The two skip lists for several threads (concurrent.rs and sharded.rs in *)
(* src/src/database/skiplist).  What one list does is SkipList; here a     *)
(* list is the map it implements, and the steps are those that another     *)
(* thread can come between.                                                *)
(*                                                                         *)
(* ShardedSkipList has a lock per shard and one counter of elements, which *)
(* is changed while the lock of the shard is held; clear takes the locks   *)
(* one after the other and sets the counter after the last.                *)
(* ConcurrentSkipList has one lock, and a counter that is set to the       *)
(* length of the list before the lock is released, by clear too.           *)
(***************************************************************************)
EXTENDS Integers, FiniteSets, KeyValue

CONSTANTS
    Tasks,       \* threads
    ShardCount,  \* num_shards
    ShardOfKey,  \* shard_index of each key
    Wrap,        \* 2^64, the values of a counter
    MaxCalls     \* bound: calls begun

ASSUME SharedListsAssumption ==
    /\ ShardCount \in Nat \ {0} /\ MaxCalls \in Nat /\ Wrap \in Nat \ {0, 1}
    /\ ShardOfKey \in [Keys -> 0..(ShardCount - 1)]
    /\ IsFiniteSet(Keys) /\ Cardinality(Keys) < Wrap /\ None \notin Tasks

VARIABLES
    kind,      \* "sharded" or "concurrent"
    entries,   \* the value of each key over all shards
    holder,    \* the thread with the write lock of each shard, None if free
    total,     \* total_length, cached_length
    step,      \* where each thread is: "idle", "apply", "count", "clear", "reset"
    call,      \* its call: the key and value, or the next shard of a clear
    delta,     \* what it will add to the counter
    missed,    \* since the last clear an update met it, or a closure panicked
    calls      \* calls begun
sharedVars == <<kind, entries, holder, total, step, call, delta, missed, calls>>

Shards == 0..(ShardCount - 1)
ShardFor(k) == IF kind = "concurrent" THEN 0 ELSE ShardOfKey[k]
Live == {k \in Keys : entries[k] # None}

SharedInit ==
    /\ kind \in {"sharded", "concurrent"}
    /\ entries = [k \in Keys |-> None]
    /\ holder = [s \in Shards |-> None]
    /\ total = 0
    /\ step = [t \in Tasks |-> "idle"]
    /\ call = [t \in Tasks |-> None]
    /\ delta = [t \in Tasks |-> 0]
    /\ missed = FALSE
    /\ calls = 0

Updating == {t \in Tasks : step[t] \in {"apply", "count"}}
Clearing == {t \in Tasks : step[t] \in {"clear", "reset"}}

\* insert(k, v), or remove(k) for v = None: the lock of the shard is taken.
\* try_insert, which may give up before, does the same when it does not.
BeginUpdate(t) ==
    /\ step[t] = "idle" /\ calls < MaxCalls
    /\ \E k \in Keys, v \in Values \cup {None} :
          /\ holder[ShardFor(k)] = None
          /\ holder' = [holder EXCEPT ![ShardFor(k)] = t]
          /\ call' = [call EXCEPT ![t] = <<k, v>>]
    /\ step' = [step EXCEPT ![t] = "apply"]
    /\ missed' = (missed \/ (kind = "sharded" /\ Clearing # {}))
    /\ calls' = calls + 1
    /\ UNCHANGED <<kind, entries, total, delta>>

Apply(t) == LET k == call[t][1]  v == call[t][2] IN
    /\ step[t] = "apply"
    /\ entries' = [entries EXCEPT ![k] = v]
    /\ delta' = [delta EXCEPT ![t] =
          IF v = None THEN (IF entries[k] = None THEN 0 ELSE -1)
          ELSE (IF entries[k] = None THEN 1 ELSE 0)]
    /\ step' = [step EXCEPT ![t] = "count"]
    /\ UNCHANGED <<kind, holder, total, call, missed, calls>>

CountAlways(t) ==
    /\ step[t] = "count"
    /\ total' = (total + (IF call[t][2] = None THEN delta[t] ELSE 1)) % Wrap
    /\ holder' = [holder EXCEPT ![ShardFor(call[t][1])] = None]
    /\ step' = [step EXCEPT ![t] = "idle"]
    /\ call' = [call EXCEPT ![t] = None] /\ delta' = [delta EXCEPT ![t] = 0]
    /\ UNCHANGED <<kind, entries, missed, calls>>

Release(t) ==
    /\ holder' = [holder EXCEPT ![ShardFor(call[t][1])] = None]
    /\ step' = [step EXCEPT ![t] = "idle"]
    /\ call' = [call EXCEPT ![t] = None] /\ delta' = [delta EXCEPT ![t] = 0]

\* When the length of the list changed the counter follows it: by fetch_add
\* or fetch_sub, or by a store of the length.  Then the guard ends.
Count(t) ==
    /\ step[t] = "count"
    /\ total' = IF kind = "sharded" THEN (total + delta[t]) % Wrap
                ELSE IF delta[t] = 0 THEN total ELSE Cardinality(Live)
    /\ Release(t)
    /\ UNCHANGED <<kind, entries, missed, calls>>

\* The closure of with_write panics after a change of the list: the lock is
\* released and the length is not stored.
ClosurePanics(t) ==
    /\ kind = "concurrent" /\ step[t] = "count"
    /\ missed' = TRUE
    /\ Release(t)
    /\ UNCHANGED <<kind, entries, total, calls>>

BeginClear(t) ==
    /\ step[t] = "idle" /\ calls < MaxCalls
    /\ step' = [step EXCEPT ![t] = "clear"]
    /\ call' = [call EXCEPT ![t] = 0]
    /\ missed' = IF kind = "sharded" THEN Updating # {} \/ Clearing # {} ELSE missed
    /\ calls' = calls + 1
    /\ UNCHANGED <<kind, entries, holder, total, delta>>

\* A shard is locked, cleared and released.
ClearShard(t) == LET s == call[t] IN
    /\ kind = "sharded" /\ step[t] = "clear" /\ holder[s] = None
    /\ entries' = [k \in Keys |-> IF ShardOfKey[k] = s THEN None ELSE entries[k]]
    /\ IF s + 1 < ShardCount
       THEN call' = [call EXCEPT ![t] = s + 1] /\ UNCHANGED step
       ELSE call' = [call EXCEPT ![t] = None] /\ step' = [step EXCEPT ![t] = "reset"]
    /\ UNCHANGED <<kind, holder, total, delta, missed, calls>>

\* total_length.store(0)
ResetTotal(t) ==
    /\ step[t] = "reset"
    /\ total' = 0
    /\ step' = [step EXCEPT ![t] = "idle"]
    /\ UNCHANGED <<kind, entries, holder, call, delta, missed, calls>>

\* ConcurrentSkipList::clear does it all under its lock.
ClearLocked(t) ==
    /\ kind = "concurrent" /\ step[t] = "clear" /\ holder[0] = None
    /\ entries' = [k \in Keys |-> None]
    /\ total' = 0
    /\ step' = [step EXCEPT ![t] = "idle"] /\ call' = [call EXCEPT ![t] = None]
    /\ missed' = FALSE
    /\ UNCHANGED <<kind, holder, delta, calls>>

SharedNext ==
    \E t \in Tasks :
        \/ BeginUpdate(t) \/ Apply(t) \/ Count(t) \/ ClosurePanics(t)
        \/ BeginClear(t) \/ ClearShard(t) \/ ResetTotal(t) \/ ClearLocked(t)

SharedSpec == SharedInit /\ [][SharedNext]_sharedVars

-----------------------------------------------------------------------------
\* Between calls len is the number of elements, however the inserts and
\* removes of the threads came together.  Two cases are left out: in the
\* sharded list an update that meets a clear may be counted before the counter
\* is reset (a later remove then takes it below zero), and in the concurrent
\* one a closure of with_write that panics leaves the counter behind.
SharedLenExact ==
    (Updating = {} /\ Clearing = {} /\ ~missed) => total = Cardinality(Live)
=============================================================================
