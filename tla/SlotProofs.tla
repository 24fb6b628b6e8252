----------------------------- MODULE SlotProofs -----------------------------
(***************************************************************************)
(* The slot table for any number of slots and shards: it agrees with the   *)
(* tasks, a caller's copy of it is current when the version says so, the   *)
(* cluster store finds what was written, and execute_rebalancing completes *)
(* what it planned.                                                        *)
(***************************************************************************)
EXTENDS Cluster, TLAPS, FiniteSetTheorems

(***************************************************************************)
(* Sequences                                                               *)
(***************************************************************************)
\* The head and the tail of a sequence that is not empty.
LEMMA HeadAndTail ==
    ASSUME NEW S, NEW s \in Seq(S), s # <<>>
    PROVE  Head(s) \in S /\ Tail(s) \in Seq(S) /\ Len(Tail(s)) = Len(s) - 1
  OBVIOUS

\* The first elements of a sequence are a sequence.
LEMMA Shortened ==
    ASSUME NEW S, NEW s \in Seq(S), NEW m \in 0..Len(s)
    PROVE  SubSeq(s, 1, m) \in Seq(S)
  OBVIOUS

(***************************************************************************)
(* Types                                                                   *)
(***************************************************************************)
\* There is a slot and a shard, and init_slot_assignments deals out existing shards.
LEMMA ZeroTypes == 0 \in Slots /\ 0 \in ShardIds /\ \A s \in Slots : s % ShardCount \in ShardIds
  BY SlotAssumption DEF Slots, ShardIds

\* The shard that the table gives for a slot exists.
LEMMA ShardType ==
    ASSUME SlotTypeOK, NEW s \in Slots
    PROVE  GetSlotShard(s) \in ShardIds
<1>1. slot_assignments[s] \in SlotEntries
  BY DEF SlotTypeOK
<1>2. CASE \E h \in ShardIds : slot_assignments[s] = Stable(h)
  BY <1>2 DEF GetSlotShard, Stable
<1>3. CASE \E g, h \in ShardIds : slot_assignments[s] = Migrating(g, h)
  BY <1>3 DEF GetSlotShard, Migrating
<1>4. QED
  BY <1>1, <1>2, <1>3 DEF SlotEntries

\* The calls of a thread: what it runs, how far it is, on which slot and shards.
Call == [fn : {"none", "start", "complete", "rollback"},
         at : {"idle", "assign", "task", "version", "ok", "err"},
         slot : Slots, from : ShardIds, to : ShardIds]

\* A thread between calls.
LEMMA NoCallType == NoCall \in Call /\ NoCall.fn = "none" /\ NoCall.at = "idle"
  BY ZeroTypes DEF NoCall, Call

\* SlotManager::new gives a well-typed table with no task.
LEMMA SlotTypesInit == SlotInit => SlotTypeOK
<1> SUFFICES ASSUME SlotInit PROVE SlotTypeOK
  OBVIOUS
<1>1. slot_assignments \in [Slots -> SlotEntries]
  BY ZeroTypes DEF SlotInit, SlotEntries
<1>2. call \in [Threads -> Call] /\ \A t \in Threads : call[t].fn = "none" => call[t].at = "idle"
  BY NoCallType DEF SlotInit
<1>3. DOMAIN active_migrations = {}
      /\ active_migrations \in [DOMAIN active_migrations -> [from : ShardIds, to : ShardIds]]
  BY DEF SlotInit
<1>4. cache \in [at : {"none", "map", "cached"}, version : Nat, map : [Slots -> SlotEntries]]
  BY <1>1 DEF SlotInit
<1>5. QED
  BY <1>1, <1>2, <1>3, <1>4 DEF SlotInit, SlotTypeOK, Call

\* The rest of the state that the steps of a call leave alone.
Rest == <<loadVars, cache>>

\* A call begins: a new entry of `call' and nothing else.
LEMMA TypeCall ==
    ASSUME SlotTypeOK, NEW t \in Threads, NEW c \in Call, c.fn = "none" => c.at = "idle",
           call' = [call EXCEPT ![t] = c], UNCHANGED <<tableVars, Rest>>
    PROVE  SlotTypeOK'
<1>1. call' \in [Threads -> Call] /\ \A u \in Threads : call'[u].fn = "none" => call'[u].at = "idle"
  BY DEF SlotTypeOK, Call
<1>2. QED
  BY <1>1 DEF SlotTypeOK, Call, tableVars, Rest, loadVars

\* start_slot_migration begins.
LEMMA TypeStartCheck ==
    ASSUME SlotTypeOK, NEW t \in Threads, NEW move, StartCheck(t, move), UNCHANGED cache,
           move.slot \in Slots, move.from \in ShardIds, move.to \in ShardIds
    PROVE  SlotTypeOK'
<1> DEFINE c == [fn |-> "start",
                 at |-> IF move.slot \in DOMAIN active_migrations THEN "err" ELSE "assign",
                 slot |-> move.slot, from |-> move.from, to |-> move.to]
<1>1. c \in Call /\ c.fn = "start"
  BY DEF Call
<1>2. call' = [call EXCEPT ![t] = c] /\ UNCHANGED <<tableVars, Rest>>
  BY DEF StartCheck, Rest
<1> HIDE DEF c
<1>3. QED
  BY <1>1, <1>2, TypeCall, Zenon

\* complete_slot_migration and rollback_migration begin.
LEMMA TypeFinishCheck ==
    ASSUME SlotTypeOK, NEW t \in Threads, NEW s \in Slots, NEW fn \in {"complete", "rollback"},
           FinishCheck(t, fn, s), UNCHANGED cache
    PROVE  SlotTypeOK'
<1> DEFINE c == IF s \in DOMAIN active_migrations
                THEN [fn |-> fn, at |-> "assign", slot |-> s,
                      from |-> active_migrations[s].from, to |-> active_migrations[s].to]
                ELSE [NoCall EXCEPT !.fn = fn, !.at = "err", !.slot = s]
<1>1. s \in DOMAIN active_migrations =>
          active_migrations[s].from \in ShardIds /\ active_migrations[s].to \in ShardIds
  BY DEF SlotTypeOK
<1>2. c \in Call /\ c.fn # "none"
  BY <1>1, ZeroTypes, Zenon DEF Call, NoCall
<1>3. call' = [call EXCEPT ![t] = c] /\ UNCHANGED <<tableVars, Rest>>
  BY DEF FinishCheck, Rest
<1> HIDE DEF c
<1>4. QED
  BY <1>2, <1>3, TypeCall, Zenon

\* A call goes on to its next step.
LEMMA GotoType ==
    ASSUME SlotTypeOK, NEW t \in Threads, NEW at \in {"task", "version", "ok"}, Goto(t, at)
    PROVE  /\ call' \in [Threads -> Call]
           /\ call[t].fn # "none" =>
                 \A u \in Threads : call'[u].fn = "none" => call'[u].at = "idle"
           /\ \A u \in Threads \ {t} : call'[u] = call[u]
           /\ call'[t] = [call[t] EXCEPT !.at = at]
<1>1. call \in [Threads -> Call] /\ \A u \in Threads : call[u].fn = "none" => call[u].at = "idle"
  BY DEF SlotTypeOK, Call
<1>2. [call[t] EXCEPT !.at = at] \in Call /\ [call[t] EXCEPT !.at = at].fn = call[t].fn
  BY <1>1 DEF Call
<1>3. call' = [call EXCEPT ![t] = [call[t] EXCEPT !.at = at]]
  BY DEF Goto
<1>4. QED
  BY <1>1, <1>2, <1>3

\* The entry of the slot is overwritten by one for existing shards.
LEMMA AssignedEntry ==
    ASSUME SlotTypeOK, NEW t \in Threads, Assign(t)
    PROVE  /\ call[t].fn \in {"start", "complete", "rollback"} /\ call[t].slot \in Slots
           /\ \A s \in Slots \ {call[t].slot} : slot_assignments'[s] = slot_assignments[s]
           /\ call[t].fn = "start" =>
                 slot_assignments'[call[t].slot] = Migrating(call[t].from, call[t].to)
           /\ call[t].fn = "complete" => slot_assignments'[call[t].slot] = Stable(call[t].to)
           /\ call[t].fn = "rollback" => slot_assignments'[call[t].slot] = Stable(call[t].from)
           /\ slot_assignments' \in [Slots -> SlotEntries]
<1> DEFINE e == CASE call[t].fn = "start"    -> Migrating(call[t].from, call[t].to)
                  [] call[t].fn = "complete" -> Stable(call[t].to)
                  [] call[t].fn = "rollback" -> Stable(call[t].from)
<1>1. call[t].fn \in {"start", "complete", "rollback"} /\ call[t].slot \in Slots
      /\ call[t].from \in ShardIds /\ call[t].to \in ShardIds
  BY DEF SlotTypeOK, Assign
<1>2. /\ call[t].fn = "start" => e = Migrating(call[t].from, call[t].to)
      /\ call[t].fn = "complete" => e = Stable(call[t].to)
      /\ call[t].fn = "rollback" => e = Stable(call[t].from)
  BY <1>1
<1>3. e \in SlotEntries
  BY <1>1, <1>2 DEF SlotEntries
<1>4. slot_assignments' = [slot_assignments EXCEPT ![call[t].slot] = e]
  BY DEF Assign
<1> HIDE DEF e
<1>5. slot_assignments \in [Slots -> SlotEntries]
  BY DEF SlotTypeOK
<1>6. QED
  BY <1>1, <1>2, <1>3, <1>4, <1>5

\* Each step of a call.
LEMMA TypeCallStep ==
    ASSUME SlotTypeOK, NEW t \in Threads, CallStep(t), UNCHANGED cache
    PROVE  SlotTypeOK'
<1>1. call[t] \in Call /\ (call[t].fn = "none" => call[t].at = "idle")
  BY DEF SlotTypeOK, Call
<1>2. CASE Assign(t)
  <2>1. Goto(t, "task") /\ call[t].fn # "none"
        /\ UNCHANGED <<slot_map_version, active_migrations, Rest>>
    BY <1>1, <1>2 DEF Assign, Rest
  <2>2. call' \in [Threads -> Call] /\ \A u \in Threads : call'[u].fn = "none" => call'[u].at = "idle"
    BY <2>1, GotoType, Zenon
  <2>3. QED
    BY <1>2, <2>1, <2>2, AssignedEntry DEF SlotTypeOK, Call, Rest, loadVars
<1>3. CASE StartTask(t)
  <2>1. Goto(t, "version") /\ call[t].fn # "none"
        /\ UNCHANGED <<slot_assignments, slot_map_version, Rest>>
    BY <1>3 DEF StartTask, At, Rest
  <2>2. call' \in [Threads -> Call] /\ \A u \in Threads : call'[u].fn = "none" => call'[u].at = "idle"
    BY <2>1, GotoType, Zenon
  <2>3. DOMAIN active_migrations' \subseteq Slots
        /\ active_migrations' \in [DOMAIN active_migrations' -> [from : ShardIds, to : ShardIds]]
    BY <1>1, <1>3 DEF SlotTypeOK, StartTask, Task, Call
  <2>4. QED
    BY <2>1, <2>2, <2>3 DEF SlotTypeOK, Call, Rest, loadVars
<1>4. CASE FinishTask(t)
  <2>1. Goto(t, "version") /\ call[t].fn # "none"
        /\ UNCHANGED <<slot_assignments, slot_map_version, Rest>>
    BY <1>4 DEF FinishTask, Rest
  <2>2. call' \in [Threads -> Call] /\ \A u \in Threads : call'[u].fn = "none" => call'[u].at = "idle"
    BY <2>1, GotoType, Zenon
  <2>3. DOMAIN active_migrations' \subseteq Slots
        /\ active_migrations' \in [DOMAIN active_migrations' -> [from : ShardIds, to : ShardIds]]
    BY <1>4 DEF SlotTypeOK, FinishTask, Restrict
  <2>4. QED
    BY <2>1, <2>2, <2>3 DEF SlotTypeOK, Call, Rest, loadVars
<1>5. CASE Bump(t)
  <2>1. Goto(t, "ok") /\ call[t].fn # "none" /\ slot_map_version' = slot_map_version + 1
        /\ UNCHANGED <<slot_assignments, active_migrations, Rest>>
    BY <1>1, <1>5 DEF Bump, Rest
  <2>2. call' \in [Threads -> Call] /\ \A u \in Threads : call'[u].fn = "none" => call'[u].at = "idle"
    BY <2>1, GotoType, Zenon
  <2>3. slot_map_version' \in Nat
    BY <2>1 DEF SlotTypeOK
  <2>4. QED
    BY <2>1, <2>2, <2>3 DEF SlotTypeOK, Call, Rest, loadVars
<1>6. QED
  BY <1>2, <1>3, <1>4, <1>5 DEF CallStep

\* Every step of the manager.
LEMMA SlotTypesStep ==
    ASSUME SlotTypeOK, [SlotNext]_<<slotVars, cache>>
    PROVE  SlotTypeOK'
<1>1. ASSUME NEW t \in Starters, StartSlotMigration(t), UNCHANGED cache
      PROVE  SlotTypeOK'
  <2>1. PICK r \in Requested : StartCheck(t, [slot |-> r[1], from |-> GetSlotShard(r[1]), to |-> r[2]])
    BY <1>1 DEF StartSlotMigration
  <2>2. r[1] \in Slots /\ r[2] \in ShardIds /\ t \in Threads
    BY SlotAssumption DEF Slots, ShardIds
  <2>3. GetSlotShard(r[1]) \in ShardIds
    BY <2>2, ShardType
  <2> DEFINE move == [slot |-> r[1], from |-> GetSlotShard(r[1]), to |-> r[2]]
  <2>4. move.slot \in Slots /\ move.from \in ShardIds /\ move.to \in ShardIds
    BY <2>2, <2>3
  <2>5. StartCheck(t, move)
    BY <2>1
  <2> HIDE DEF move
  <2>6. QED
    BY <1>1, <2>2, <2>4, <2>5, TypeStartCheck
<1>2. ASSUME NEW t \in Finishers, FinishSlotMigration(t), UNCHANGED cache
      PROVE  SlotTypeOK'
  BY <1>2, SlotAssumption, TypeFinishCheck DEF FinishSlotMigration
<1>3. ASSUME NEW t \in Threads, Return(t), UNCHANGED cache
      PROVE  SlotTypeOK'
  <2>1. call' = [call EXCEPT ![t] = NoCall] /\ UNCHANGED <<tableVars, Rest>>
    BY <1>3 DEF Return, Rest
  <2>2. QED
    BY <2>1, NoCallType, TypeCall, Zenon
<1>4. CASE ReadVersion \/ ReadMap
  <2>1. cache' \in [at : {"none", "map", "cached"}, version : Nat, map : [Slots -> SlotEntries]]
    BY <1>4, Zenon DEF ReadVersion, ReadMap, SlotTypeOK
  <2>2. UNCHANGED slotVars
    BY <1>4 DEF ReadVersion, ReadMap
  <2>3. QED
    BY <2>1, <2>2 DEF SlotTypeOK, slotVars, tableVars, loadVars
<1>5. CASE UNCHANGED <<slotVars, cache>>
  BY <1>5 DEF SlotTypeOK, slotVars, tableVars, loadVars
<1>6. QED
  BY <1>1, <1>2, <1>3, <1>4, <1>5, TypeCallStep DEF SlotNext

\* Every slot is always served by an existing shard, and every migration goes
\* between existing ones, whatever the threads and their number.
THEOREM SlotTypes == SlotSpec => []SlotTypeOK
  BY SlotTypesInit, SlotTypesStep, PTL DEF SlotSpec

(***************************************************************************)
(* The copy of the table                                                   *)
(***************************************************************************)
VersionKnown == cache.version <= slot_map_version

\* The version only grows, and a call that has changed the table and not yet
\* raised the version is at "task" or "version".
LEMMA CacheStep ==
    ASSUME SlotTypeOK, VersionKnown, CachedMapIsCurrent, [SlotNext]_<<slotVars, cache>>
    PROVE  VersionKnown' /\ CachedMapIsCurrent'
<1>1. cache.version \in Nat /\ slot_map_version \in Nat
  BY DEF SlotTypeOK
<1>2. ASSUME UNCHANGED <<slot_assignments, slot_map_version, cache>>,
             \A t \in Threads : call[t].at \in {"task", "version"} => call'[t].at \in {"task", "version"}
      PROVE  VersionKnown' /\ CachedMapIsCurrent'
  BY <1>2 DEF VersionKnown, CachedMapIsCurrent
<1>3. ASSUME NEW t \in Threads, CallStep(t), UNCHANGED cache
      PROVE  VersionKnown' /\ CachedMapIsCurrent'
  <2>1. CASE Assign(t)
    <3>1. Goto(t, "task") /\ UNCHANGED slot_map_version
      BY <2>1 DEF Assign
    <3>2. call'[t].at = "task"
      BY <3>1 DEF Goto, SlotTypeOK
    <3>3. QED
      BY <1>3, <3>1, <3>2 DEF VersionKnown, CachedMapIsCurrent
  <2>2. CASE StartTask(t) \/ FinishTask(t)
    <3>1. Goto(t, "version") /\ UNCHANGED <<slot_map_version, slot_assignments>>
      BY <2>2 DEF StartTask, FinishTask
    <3>2. call'[t].at = "version"
      BY <3>1 DEF Goto, SlotTypeOK
    <3>3. QED
      BY <1>3, <3>1, <3>2 DEF VersionKnown, CachedMapIsCurrent
  <2>3. CASE Bump(t)
    <3>1. slot_map_version' = slot_map_version + 1
      BY <2>3 DEF Bump
    <3>2. QED
      BY <1>1, <1>3, <3>1 DEF VersionKnown, CachedMapIsCurrent
  <2>4. QED
    BY <1>3, <2>1, <2>2, <2>3 DEF CallStep
<1>4. ASSUME NEW t \in Threads, NEW c, call[t].at \notin {"task", "version"}, call' = [call EXCEPT ![t] = c],
             UNCHANGED <<tableVars, cache>>
      PROVE  VersionKnown' /\ CachedMapIsCurrent'
  <2>1. \A u \in Threads : u # t => call'[u] = call[u]
    BY <1>4 DEF SlotTypeOK
  <2>2. QED
    BY <1>2, <1>4, <2>1 DEF tableVars
<1>5. ASSUME NEW t \in Starters, StartSlotMigration(t), UNCHANGED cache
      PROVE  VersionKnown' /\ CachedMapIsCurrent'
  <2>1. call[t].at \notin {"task", "version"} /\ UNCHANGED tableVars /\ t \in Threads
    BY <1>5, NoCallType, SlotAssumption DEF StartSlotMigration, StartCheck
  <2>2. \E c : call' = [call EXCEPT ![t] = c]
    BY <1>5, Zenon DEF StartSlotMigration, StartCheck
  <2>3. QED
    BY <1>4, <1>5, <2>1, <2>2, Zenon
<1>6. ASSUME NEW t \in Finishers, FinishSlotMigration(t), UNCHANGED cache
      PROVE  VersionKnown' /\ CachedMapIsCurrent'
  <2>1. call[t].at \notin {"task", "version"} /\ UNCHANGED tableVars /\ t \in Threads
    BY <1>6, NoCallType, SlotAssumption DEF FinishSlotMigration, FinishCheck
  <2>2. \E c : call' = [call EXCEPT ![t] = c]
    BY <1>6, Zenon DEF FinishSlotMigration, FinishCheck
  <2>3. QED
    BY <1>4, <1>6, <2>1, <2>2, Zenon
<1>7. ASSUME NEW t \in Threads, Return(t), UNCHANGED cache
      PROVE  VersionKnown' /\ CachedMapIsCurrent'
  BY <1>4, <1>7, Zenon DEF Return
<1>8. CASE ReadVersion
  <2>1. cache'.at = "map" /\ cache'.version = slot_map_version /\ slot_map_version' = slot_map_version
    BY <1>8 DEF ReadVersion, SlotTypeOK, slotVars, tableVars
  <2>2. QED
    BY <1>1, <2>1 DEF VersionKnown, CachedMapIsCurrent
<1>9. CASE ReadMap
  <2>1. /\ cache'.version = cache.version /\ cache'.map = slot_assignments
        /\ slot_map_version' = slot_map_version /\ slot_assignments' = slot_assignments
    BY <1>9 DEF ReadMap, SlotTypeOK, slotVars, tableVars
  <2>2. QED
    BY <2>1 DEF VersionKnown, CachedMapIsCurrent
<1>10. CASE UNCHANGED <<slotVars, cache>>
  BY <1>2, <1>10 DEF slotVars, tableVars
<1>11. QED
  BY <1>3, <1>5, <1>6, <1>7, <1>8, <1>9, <1>10 DEF SlotNext

\* With any number of threads in any calls: whoever reads slot_map_version, then
\* the table, and later finds the version as it was, has the current table,
\* although start_slot_migration and the others raise the version after they
\* have changed the table and outside its lock.
THEOREM CacheIsCurrent == SlotSpec => []CachedMapIsCurrent
<1>1. SlotInit => VersionKnown /\ CachedMapIsCurrent
  BY DEF SlotInit, VersionKnown, CachedMapIsCurrent
<1>2. SlotTypeOK /\ VersionKnown /\ CachedMapIsCurrent /\ [SlotNext]_<<slotVars, cache>>
          => VersionKnown' /\ CachedMapIsCurrent'
  BY CacheStep
<1>3. QED
  BY <1>1, <1>2, SlotTypes, PTL DEF SlotSpec

(***************************************************************************)
(* The table and the tasks                                                 *)
(***************************************************************************)
Changing(t) == call[t].at \in {"assign", "task"}

\* What a call has found and done so far is still so: a starting call found no
\* task for its slot, a finishing one found the task that it read.
StartSound(t) ==
    call[t].fn = "start" /\ Changing(t) =>
        /\ t \in Starters /\ call[t].slot \notin DOMAIN active_migrations
        /\ call[t].at = "assign" => slot_assignments[call[t].slot].state = "Stable"
        /\ call[t].at = "task" =>
              slot_assignments[call[t].slot] = Migrating(call[t].from, call[t].to)
FinishSound(t) ==
    call[t].fn \in {"complete", "rollback"} /\ Changing(t) =>
        /\ t \in Finishers /\ call[t].slot \in DOMAIN active_migrations
        /\ active_migrations[call[t].slot].from = call[t].from
        /\ active_migrations[call[t].slot].to = call[t].to
        /\ call[t].at = "assign" =>
              slot_assignments[call[t].slot] = Migrating(call[t].from, call[t].to)
        /\ call[t].at = "task" => slot_assignments[call[t].slot].state = "Stable"
CallsSound == \A t \in Threads : StartSound(t) /\ FinishSound(t)

Agrees(s) ==
    LET a == slot_assignments[s]
    IN  IF s \in DOMAIN active_migrations
        THEN a = Migrating(active_migrations[s].from, active_migrations[s].to)
        ELSE a.state = "Stable"

OneStarter == \A s, t \in Starters : s = t
OneFinisher == \A s, t \in Finishers : s = t

\* No two calls change one slot.
LEMMA Alone ==
    ASSUME OneStarter, OneFinisher, SlotTypeOK, CallsSound,
           NEW t \in Threads, NEW u \in Threads, Changing(t), Changing(u),
           call[t].slot = call[u].slot
    PROVE  t = u
<1>1. call[t].fn \in {"start", "complete", "rollback"} /\ call[u].fn \in {"start", "complete", "rollback"}
  BY DEF SlotTypeOK, Changing
<1>2. QED
  BY <1>1 DEF CallsSound, StartSound, FinishSound, OneStarter, OneFinisher

\* A call that begins finds its slot as no other call is changing it.
LEMMA BeginSound ==
    ASSUME SlotTypeOK, CallsSound, TablesAgree, NEW t \in Threads, call[t] = NoCall,
           NEW c \in Call, call' = [call EXCEPT ![t] = c], UNCHANGED tableVars,
           c.fn = "start" => t \in Starters, c.fn # "start" => t \in Finishers,
           OneStarter, OneFinisher,
           c.at \in {"assign", "err"},
           c.at = "assign" =>
              \/ c.fn = "start" /\ c.slot \notin DOMAIN active_migrations
              \/ /\ c.fn \in {"complete", "rollback"} /\ c.slot \in DOMAIN active_migrations
                 /\ active_migrations[c.slot].from = c.from /\ active_migrations[c.slot].to = c.to
    PROVE  CallsSound' /\ TablesAgree'
<1>1. call'[t] = c /\ \A u \in Threads \ {t} : call'[u] = call[u]
  BY DEF SlotTypeOK
<1>2. ~ Changing(t)
  BY NoCallType DEF Changing
<1>3. c.slot \in Slots
  BY DEF Call
<1>4. c.at = "assign" => ~ InCall(c.slot)
  <2>1. SUFFICES ASSUME c.at = "assign", NEW u \in Threads, call[u].slot = c.slot, Changing(u)
                 PROVE  FALSE
    BY DEF InCall, Changing
  <2>2. call[u].fn \in {"start", "complete", "rollback"}
    BY <2>1 DEF SlotTypeOK, Changing
  <2>3. u # t
    BY <1>2, <2>1
  <2>4. QED
    BY <2>1, <2>2, <2>3 DEF CallsSound, StartSound, FinishSound, OneStarter, OneFinisher
<1>5. c.at = "assign" => Agrees(c.slot)
  BY <1>3, <1>4 DEF TablesAgree, Agrees
<1>6. \A u \in Threads \ {t} : (StartSound(u) /\ FinishSound(u))'
  BY <1>1 DEF CallsSound, StartSound, FinishSound, Changing, tableVars
<1>7. (StartSound(t) /\ FinishSound(t))'
  BY <1>1, <1>5 DEF StartSound, FinishSound, Changing, tableVars, Agrees, Call
<1>8. \A s \in Slots : InCall(s) => InCall(s)'
  BY <1>1, <1>2 DEF InCall, Changing
<1>9. TablesAgree'
  BY <1>8 DEF TablesAgree, tableVars
<1>10. QED
  BY <1>6, <1>7, <1>9 DEF CallsSound

\* A call that goes on leaves the slots of the others alone.
LEMMA CallStepSound ==
    ASSUME OneStarter, OneFinisher, SlotTypeOK, CallsSound, TablesAgree,
           NEW t \in Threads, CallStep(t)
    PROVE  CallsSound' /\ TablesAgree'
<1> DEFINE s == call[t].slot
<1>1. call[t] \in Call /\ s \in Slots /\ (call[t].fn = "none" => call[t].at = "idle")
  BY DEF SlotTypeOK, Call
<1>2. ASSUME Changing(t), NEW u \in Threads \ {t}, Changing(u)
      PROVE  call[u].slot # s
  BY <1>2, Alone
<1>3. ASSUME Changing(t), NEW at, Goto(t, at),
             \A r \in Slots \ {s} : slot_assignments'[r] = slot_assignments[r],
             \A r \in Slots \ {s} : /\ r \in DOMAIN active_migrations' <=> r \in DOMAIN active_migrations
                                    /\ r \in DOMAIN active_migrations =>
                                          active_migrations'[r] = active_migrations[r],
             (StartSound(t) /\ FinishSound(t))',
             Agrees(s)' \/ at = "task"
      PROVE  CallsSound' /\ TablesAgree'
  <2>1. /\ \A u \in Threads \ {t} : call'[u] = call[u]
        /\ call'[t].at = at /\ call'[t].slot = s
    BY <1>1, <1>3 DEF Goto, SlotTypeOK, Call
  <2>2. ASSUME NEW u \in Threads \ {t} PROVE (StartSound(u) /\ FinishSound(u))'
    <3>1. CASE ~ Changing(u)
      BY <2>1, <3>1, SMTT(30) DEF StartSound, FinishSound, Changing
    <3>2. CASE Changing(u)
      <4>1. call[u].slot \in Slots \ {s}
        BY <1>2, <1>3, <3>2 DEF SlotTypeOK
      <4>2. StartSound(u) /\ FinishSound(u)
        BY DEF CallsSound
      <4> HIDE DEF s
      <4>3. QED
        BY <1>3, <2>1, <4>1, <4>2 DEF StartSound, FinishSound, Changing
    <3>3. QED
      BY <3>1, <3>2
  <2>3. ASSUME NEW r \in Slots, ~ InCall(r)' PROVE Agrees(r)'
    <3>1. CASE r = s
      BY <1>3, <2>1, <2>3, <3>1, Zenon DEF InCall
    <3>2. CASE r # s
      <4>1. ~ InCall(r)
        BY <2>1, <2>3, <3>2 DEF InCall
      <4>2. Agrees(r)
        BY <4>1 DEF TablesAgree, Agrees
      <4>3. QED
        BY <1>3, <3>2, <4>2 DEF Agrees
    <3>3. QED
      BY <3>1, <3>2, SMTT(30)
  <2>4. QED
    BY <1>3, <2>2, <2>3 DEF CallsSound, TablesAgree, Agrees
<1>4. CASE Assign(t)
  <2>1. Changing(t) /\ call[t].at = "assign" /\ Goto(t, "task") /\ UNCHANGED active_migrations
    BY <1>4 DEF Assign, Changing
  <2>2. call'[t] = [call[t] EXCEPT !.at = "task"]
    BY <2>1 DEF Goto, SlotTypeOK
  <2>3. StartSound(t) /\ FinishSound(t)
    BY DEF CallsSound
  <2>4. /\ slot_assignments'[s] = Migrating(call[t].from, call[t].to) \/ call[t].fn # "start"
        /\ slot_assignments'[s].state = "Stable" \/ call[t].fn = "start"
    <3>1. CASE call[t].fn = "start"
      BY <1>4, <3>1, AssignedEntry
    <3>2. CASE call[t].fn \in {"complete", "rollback"}
      <4>1. slot_assignments'[s] = Stable(call[t].to) \/ slot_assignments'[s] = Stable(call[t].from)
        BY <1>4, <3>2, AssignedEntry
      <4>2. slot_assignments'[s].state = "Stable"
        BY <4>1 DEF Stable
      <4>3. QED
        BY <3>2, <4>2
    <3>3. QED
      BY <1>4, <3>1, <3>2, AssignedEntry
  <2>5. (StartSound(t) /\ FinishSound(t))'
    BY <1>1, <2>1, <2>2, <2>3, <2>4 DEF StartSound, FinishSound, Changing, Call
  <2>6. QED
    BY <1>3, <1>4, <2>1, <2>5, AssignedEntry
<1>5. CASE StartTask(t)
  <2>1. /\ Changing(t) /\ call[t].at = "task" /\ call[t].fn = "start" /\ Goto(t, "version")
        /\ UNCHANGED slot_assignments
    BY <1>5 DEF StartTask, Changing, At
  <2>2. DOMAIN active_migrations' = DOMAIN active_migrations \cup {s}
        /\ active_migrations'[s] = Task(call[t].from, call[t].to)
        /\ \A r \in DOMAIN active_migrations : r # s => active_migrations'[r] = active_migrations[r]
    BY <1>5 DEF StartTask
  <2>3. call'[t].at = "version" /\ call'[t].slot = s
    BY <1>1, <2>1 DEF Goto, SlotTypeOK, Call
  <2>4. (StartSound(t) /\ FinishSound(t))'
    BY <2>3 DEF StartSound, FinishSound, Changing
  <2>5. slot_assignments[s] = Migrating(call[t].from, call[t].to)
    BY <2>1 DEF CallsSound, StartSound
  <2>6. Agrees(s)'
    <3>1. slot_assignments'[s] = Migrating(active_migrations'[s].from, active_migrations'[s].to)
      BY <2>1, <2>2, <2>5, SMTT(30) DEF Task
    <3>2. QED
      BY <2>2, <2>3, <3>1, SMTT(30) DEF Agrees
  <2>7. QED
    BY <1>3, <2>1, <2>2, <2>4, <2>6
<1>6. CASE FinishTask(t)
  <2>1. /\ Changing(t) /\ call[t].at = "task" /\ call[t].fn \in {"complete", "rollback"}
        /\ Goto(t, "version") /\ UNCHANGED slot_assignments
    BY <1>6 DEF FinishTask, Changing
  <2>2. DOMAIN active_migrations' = DOMAIN active_migrations \ {s}
        /\ \A r \in DOMAIN active_migrations : r # s => active_migrations'[r] = active_migrations[r]
    BY <1>6 DEF FinishTask, Restrict
  <2>3. call'[t].at = "version" /\ call'[t].slot = s
    BY <1>1, <2>1 DEF Goto, SlotTypeOK, Call
  <2>4. (StartSound(t) /\ FinishSound(t))'
    BY <2>3 DEF StartSound, FinishSound, Changing
  <2>5. slot_assignments[s].state = "Stable"
    BY <2>1 DEF CallsSound, FinishSound
  <2>6. Agrees(s)'
    BY <2>1, <2>2, <2>3, <2>5, SMTT(30) DEF Agrees
  <2>7. QED
    BY <1>3, <2>1, <2>2, <2>4, <2>6
<1>7. CASE Bump(t)
  <2>1. call[t].at = "version" /\ Goto(t, "ok") /\ UNCHANGED <<slot_assignments, active_migrations>>
    BY <1>7 DEF Bump
  <2>2. call'[t].at = "ok" /\ \A u \in Threads \ {t} : call'[u] = call[u]
    BY <1>1, <2>1 DEF Goto, SlotTypeOK
  <2>3. QED
    BY <2>1, <2>2 DEF CallsSound, StartSound, FinishSound, Changing, TablesAgree, InCall
<1>8. QED
  BY <1>4, <1>5, <1>6, <1>7 DEF CallStep

\* Every step of the manager with one thread that starts migrations and one that
\* finishes them.
LEMMA AgreeStep ==
    ASSUME OneStarter, OneFinisher, SlotTypeOK, CallsSound, TablesAgree,
           [SlotNext]_<<slotVars, cache>>
    PROVE  CallsSound' /\ TablesAgree'
<1>1. ASSUME NEW t \in Starters, StartSlotMigration(t)
      PROVE  CallsSound' /\ TablesAgree'
  <2>1. PICK r \in Requested : StartCheck(t, [slot |-> r[1], from |-> GetSlotShard(r[1]), to |-> r[2]])
    BY <1>1 DEF StartSlotMigration
  <2>2. r[1] \in Slots /\ r[2] \in ShardIds /\ t \in Threads
    BY SlotAssumption DEF Slots, ShardIds
  <2>3. GetSlotShard(r[1]) \in ShardIds
    BY <2>2, ShardType
  <2> DEFINE c == [fn |-> "start",
                   at |-> IF r[1] \in DOMAIN active_migrations THEN "err" ELSE "assign",
                   slot |-> r[1], from |-> GetSlotShard(r[1]), to |-> r[2]]
  <2>4. c \in Call /\ c.fn = "start" /\ c.at \in {"assign", "err"}
        /\ (c.at = "assign" => c.slot \notin DOMAIN active_migrations)
    BY <2>2, <2>3 DEF Call
  <2>5. call[t] = NoCall /\ call' = [call EXCEPT ![t] = c] /\ UNCHANGED tableVars
    BY <2>1 DEF StartCheck
  <2> HIDE DEF c
  <2>6. QED
    BY <2>2, <2>4, <2>5, BeginSound, Zenon
<1>2. ASSUME NEW t \in Finishers, FinishSlotMigration(t)
      PROVE  CallsSound' /\ TablesAgree'
  <2>1. PICK s \in Slots, fn \in {"complete", "rollback"} : FinishCheck(t, fn, s)
    BY <1>2 DEF FinishSlotMigration
  <2>2. t \in Threads /\ call[t] = NoCall
    BY <1>2, SlotAssumption DEF FinishSlotMigration
  <2> DEFINE c == IF s \in DOMAIN active_migrations
                  THEN [fn |-> fn, at |-> "assign", slot |-> s,
                        from |-> active_migrations[s].from, to |-> active_migrations[s].to]
                  ELSE [NoCall EXCEPT !.fn = fn, !.at = "err", !.slot = s]
  <2>3. s \in DOMAIN active_migrations =>
            active_migrations[s].from \in ShardIds /\ active_migrations[s].to \in ShardIds
    BY DEF SlotTypeOK
  <2>4. c \in Call /\ c.fn = fn /\ c.at \in {"assign", "err"}
        /\ (c.at = "assign" =>
                /\ c.slot \in DOMAIN active_migrations
                /\ active_migrations[c.slot].from = c.from /\ active_migrations[c.slot].to = c.to)
    BY <2>3, ZeroTypes, Zenon DEF Call, NoCall
  <2>5. call' = [call EXCEPT ![t] = c] /\ UNCHANGED tableVars
    BY <2>1, SMTT(30) DEF FinishCheck
  <2> HIDE DEF c
  <2>6. QED
    BY <2>2, <2>4, <2>5, BeginSound, Zenon
<1>3. ASSUME NEW t \in Threads, Return(t)
      PROVE  CallsSound' /\ TablesAgree'
  <2>1. call'[t] = NoCall /\ (\A u \in Threads \ {t} : call'[u] = call[u]) /\ UNCHANGED tableVars
    BY <1>3 DEF Return, SlotTypeOK
  <2>2. call[t].at \notin {"assign", "task"} /\ NoCall.at = "idle"
    BY <1>3, SMTT(30) DEF Return, NoCall
  <2>3. QED
    BY <2>1, <2>2 DEF CallsSound, StartSound, FinishSound, Changing, TablesAgree, InCall, tableVars
<1>4. CASE UNCHANGED slotVars
  BY <1>4 DEF CallsSound, StartSound, FinishSound, Changing, TablesAgree, InCall, slotVars, tableVars
<1>5. QED
  BY <1>1, <1>2, <1>3, <1>4, CallStepSound DEF SlotNext, ReadVersion, ReadMap

\* With one thread that starts migrations and one that completes them and rolls
\* them back, whose calls interleave in any way: a slot that no call is changing
\* is migrating exactly when it has a task, from and to the shards of the task,
\* although each call takes the two locks one after the other.
THEOREM TablesAlwaysAgree ==
    ASSUME OneStarter, OneFinisher
    PROVE  SlotSpec => []TablesAgree
<1>1. SlotInit => CallsSound /\ TablesAgree
  BY ZeroTypes DEF SlotInit, CallsSound, StartSound, FinishSound, Changing, TablesAgree, NoCall, Stable
<1>2. SlotTypeOK /\ CallsSound /\ TablesAgree /\ [SlotNext]_<<slotVars, cache>>
          => CallsSound' /\ TablesAgree'
  BY AgreeStep
<1>3. QED
  BY <1>1, <1>2, SlotTypes, PTL DEF SlotSpec

(***************************************************************************)
(* Plans                                                                   *)
(***************************************************************************)
StrictOrder(S, R) ==
    /\ \A x \in S : <<x, x>> \notin R
    /\ \A x, y \in S : x # y => <<x, y>> \in R \/ <<y, x>> \in R
    /\ \A x, y, z \in S : <<x, y>> \in R /\ <<y, z>> \in R => <<x, z>> \in R

Below(S, R, x) == {y \in S : <<y, x>> \in R}

\* In a finite set with a strict order there is an element with n - 1 below it,
\* for each n up to its size: no two have the same number below them.
LEMMA Ranked ==
    ASSUME NEW S, IsFiniteSet(S), NEW R, StrictOrder(S, R), NEW n \in 1..Cardinality(S)
    PROVE  \E x \in S : Cardinality(Below(S, R, x)) = n - 1
<1> DEFINE C == Cardinality(S)
           rank == [x \in S |-> Cardinality(Below(S, R, x))]
<1>1. C \in Nat
  BY FS_CardinalityType
<1>2. ASSUME NEW x \in S
      PROVE  /\ IsFiniteSet(Below(S, R, x)) /\ Cardinality(Below(S, R, x)) \in Nat
             /\ Cardinality(Below(S, R, x)) < C
  <2>1. Below(S, R, x) \in SUBSET S /\ x \notin Below(S, R, x)
    BY DEF Below, StrictOrder
  <2>2. IsFiniteSet(Below(S, R, x)) /\ Cardinality(Below(S, R, x)) <= C
        /\ (C = Cardinality(Below(S, R, x)) => S = Below(S, R, x))
    BY <2>1, FS_Subset
  <2>3. Cardinality(Below(S, R, x)) \in Nat
    BY <2>2, FS_CardinalityType
  <2>4. QED
    BY <1>1, <2>1, <2>2, <2>3
<1>3. ASSUME NEW x \in S, NEW y \in S, <<x, y>> \in R
      PROVE  Cardinality(Below(S, R, x)) # Cardinality(Below(S, R, y))
  <2>1. Below(S, R, x) \in SUBSET Below(S, R, y)
    BY <1>3 DEF Below, StrictOrder
  <2>2. x \in Below(S, R, y) /\ x \notin Below(S, R, x)
    BY <1>3 DEF Below, StrictOrder
  <2>3. Cardinality(Below(S, R, y)) = Cardinality(Below(S, R, x)) => Below(S, R, y) = Below(S, R, x)
    BY <1>2, <2>1, FS_Subset
  <2>4. QED
    BY <2>2, <2>3
<1>4. rank \in [S -> 0..C - 1]
  BY <1>1, <1>2
<1>5. \A x, y \in S : rank[x] = rank[y] => x = y
  BY <1>3, Zenon DEF StrictOrder
<1>6. rank \in Injection(S, 0..C - 1)
  BY <1>4, <1>5 DEF Injection, IsInjective
<1>7. IsFiniteSet(0..C - 1) /\ Cardinality(0..C - 1) = C
  <2>1. 0 \in Int /\ C - 1 \in Int
    BY <1>1
  <2>2. IsFiniteSet(0..C - 1) /\ Cardinality(0..C - 1) = IF 0 > C - 1 THEN 0 ELSE (C - 1) - 0 + 1
    BY <2>1, FS_Interval
  <2>3. QED
    BY <1>1, <2>2
<1>8. rank \in Surjection(S, 0..C - 1)
  BY <1>6, <1>7, FS_Injection
<1>9. n - 1 \in 0..C - 1
  BY <1>1
<1>10. \E x \in S : rank[x] = n - 1
  <2> HIDE DEF rank
  <2>1. QED
    BY <1>8, <1>9 DEF Surjection
<1>11. QED
  BY <1>10

\* Some shards in the order of a key and a rank.
LEMMA ShardsInOrder ==
    ASSUME NEW S \in SUBSET ShardIds
    PROVE  IsFiniteSet(S)
<1>1. 0 \in Int /\ ShardCount - 1 \in Int
  BY SlotAssumption
<1>2. IsFiniteSet(ShardIds)
  BY <1>1, FS_Interval DEF ShardIds
<1>3. QED
  BY <1>2, FS_Subset

\* The shards above the average, most loaded first.
LEMMA MostLoadedShards ==
    ASSUME shard_ops \in [ShardIds -> Nat], NEW rank \in Bijection(ShardIds, ShardIds)
    PROVE  MostLoadedFirst(rank) \in Seq(ShardIds)
<1> DEFINE S == Overloaded
           before(g, h) == shard_ops[g] > shard_ops[h] \/ (shard_ops[g] = shard_ops[h] /\ rank[g] < rank[h])
           R == {p \in S \X S : before(p[1], p[2])}
<1>1. S \in SUBSET ShardIds /\ ShardIds \subseteq Nat
  BY SlotAssumption DEF Overloaded, ShardIds
<1>2. IsFiniteSet(S) /\ Cardinality(S) \in Nat
  BY <1>1, ShardsInOrder, FS_CardinalityType
<1>3. \A x \in S : rank[x] \in Nat /\ shard_ops[x] \in Nat
  <2>1. rank \in [ShardIds -> ShardIds]
    BY DEF Bijection, Injection
  <2> HIDE DEF S
  <2>2. QED
    BY <1>1, <2>1, Zenon
<1>4. \A x, y \in S : x # y => rank[x] # rank[y]
  BY <1>1 DEF Bijection, Injection, IsInjective
<1> HIDE DEF S
<1>5a. \A x, y \in S : <<x, y>> \in R <=> before(x, y)
  <2> HIDE DEF before
  <2>1. QED
    OBVIOUS
<1>5. StrictOrder(S, R)
  <2> HIDE DEF R
  <2>1. QED
    BY <1>3, <1>4, <1>5a DEF StrictOrder
<1>6. \A x \in S : Below(S, R, x) =
          {y \in S : shard_ops[y] > shard_ops[x] \/ (shard_ops[y] = shard_ops[x] /\ rank[y] < rank[x])}
  BY <1>5a DEF Below
<1> HIDE DEF R
<1>7. \A n \in 1..Cardinality(S) : \E x \in S : Cardinality(Below(S, R, x)) = n - 1
  BY <1>2, <1>5, Ranked
<1>8. \A n \in 1..Cardinality(S) :
          (CHOOSE x \in S : Cardinality({y \in S : shard_ops[y] > shard_ops[x]
                              \/ (shard_ops[y] = shard_ops[x] /\ rank[y] < rank[x])}) = n - 1) \in S
  BY <1>6, <1>7, Zenon
<1>9. MostLoadedFirst(rank) = [n \in 1..Cardinality(S) |->
          CHOOSE x \in S : Cardinality({y \in S : shard_ops[y] > shard_ops[x]
                              \/ (shard_ops[y] = shard_ops[x] /\ rank[y] < rank[x])}) = n - 1]
  BY DEF MostLoadedFirst, InOrder, S
<1>10. MostLoadedFirst(rank) \in [1..Cardinality(S) -> ShardIds]
  BY <1>1, <1>8, <1>9, Zenon
<1>11. QED
  BY <1>2, <1>10

\* The shards below the average, least loaded first.
LEMMA LeastLoadedShards ==
    ASSUME shard_ops \in [ShardIds -> Nat], NEW rank \in Bijection(ShardIds, ShardIds)
    PROVE  LeastLoadedFirst(rank) \in Seq(ShardIds)
<1> DEFINE S == Underloaded
           before(g, h) == shard_ops[g] < shard_ops[h] \/ (shard_ops[g] = shard_ops[h] /\ rank[g] < rank[h])
           R == {p \in S \X S : before(p[1], p[2])}
<1>1. S \in SUBSET ShardIds /\ ShardIds \subseteq Nat
  BY SlotAssumption DEF Underloaded, ShardIds
<1>2. IsFiniteSet(S) /\ Cardinality(S) \in Nat
  BY <1>1, ShardsInOrder, FS_CardinalityType
<1>3. \A x \in S : rank[x] \in Nat /\ shard_ops[x] \in Nat
  <2>1. rank \in [ShardIds -> ShardIds]
    BY DEF Bijection, Injection
  <2> HIDE DEF S
  <2>2. QED
    BY <1>1, <2>1, Zenon
<1>4. \A x, y \in S : x # y => rank[x] # rank[y]
  BY <1>1 DEF Bijection, Injection, IsInjective
<1> HIDE DEF S
<1>5a. \A x, y \in S : <<x, y>> \in R <=> before(x, y)
  <2> HIDE DEF before
  <2>1. QED
    OBVIOUS
<1>5. StrictOrder(S, R)
  <2> HIDE DEF R
  <2>1. QED
    BY <1>3, <1>4, <1>5a DEF StrictOrder
<1>6. \A x \in S : Below(S, R, x) =
          {y \in S : shard_ops[y] < shard_ops[x] \/ (shard_ops[y] = shard_ops[x] /\ rank[y] < rank[x])}
  BY <1>5a DEF Below
<1> HIDE DEF R
<1>7. \A n \in 1..Cardinality(S) : \E x \in S : Cardinality(Below(S, R, x)) = n - 1
  BY <1>2, <1>5, Ranked
<1>8. \A n \in 1..Cardinality(S) :
          (CHOOSE x \in S : Cardinality({y \in S : shard_ops[y] < shard_ops[x]
                              \/ (shard_ops[y] = shard_ops[x] /\ rank[y] < rank[x])}) = n - 1) \in S
  BY <1>6, <1>7
<1>9. LeastLoadedFirst(rank) = [n \in 1..Cardinality(S) |->
          CHOOSE x \in S : Cardinality({y \in S : shard_ops[y] < shard_ops[x]
                              \/ (shard_ops[y] = shard_ops[x] /\ rank[y] < rank[x])}) = n - 1]
  BY DEF LeastLoadedFirst, InOrder, S
<1>10. LeastLoadedFirst(rank) \in [1..Cardinality(S) -> ShardIds]
  BY <1>1, <1>8, <1>9, Zenon
<1>11. QED
  BY <1>2, <1>10

Moves == [slot : Slots, from : ShardIds, to : ShardIds]

\* A plan is no longer than the batch, and every migration of it takes a
\* candidate slot from its shard to another one.
LEMMA PlanSound ==
    ASSUME NEW over \in Seq(ShardIds), NEW under \in Seq(ShardIds),
           NEW candidates \in SUBSET (Slots \X ShardIds), NEW batch \in Nat
    PROVE  /\ Plan(over, under, candidates, batch) \in
                 Seq({m \in Moves : <<m.slot, m.from>> \in candidates})
           /\ Len(Plan(over, under, candidates, batch)) <= batch
<1> DEFINE A == 1..Len(over)
           B == 1..Len(under)
           S == {p \in A \X B \X Slots : <<p[3], over[p[1]]>> \in candidates}
           lt(p, q) == \/ p[1] < q[1]
                       \/ p[1] = q[1] /\ p[2] < q[2]
                       \/ p[1] = q[1] /\ p[2] = q[2] /\ p[3] < q[3]
           R == {pq \in S \X S : lt(pq[1], pq[2])}
           size == IF batch < Cardinality(S) THEN batch ELSE Cardinality(S)
           place(n) == CHOOSE x \in S : Cardinality({y \in S : lt(y, x)}) = n - 1
<1>1. Len(over) \in Nat /\ Len(under) \in Nat /\ Slots \subseteq Nat
  BY SlotAssumption DEF Slots
<1>2. IsFiniteSet(S)
  <2>1. IsFiniteSet(A) /\ IsFiniteSet(B) /\ IsFiniteSet(Slots)
    BY <1>1, FS_Interval, SlotAssumption DEF Slots
  <2> HIDE DEF A, B
  <2> DEFINE f == [p \in S |-> <<p[1], <<p[2], p[3]>>>>]
  <2>2. IsFiniteSet(A \X (B \X Slots))
    BY <2>1, FS_Product, Zenon
  <2>3. f \in Injection(S, A \X (B \X Slots))
    <3>1. f \in [S -> A \X (B \X Slots)]
      OBVIOUS
    <3>2. \A p, q \in S : f[p] = f[q] => p = q
      OBVIOUS
    <3>3. QED
      BY <3>1, <3>2 DEF Injection, IsInjective
  <2>4. QED
    BY <2>2, <2>3, FS_Injection
<1>3. Cardinality(S) \in Nat
  BY <1>2, FS_CardinalityType
<1>4. \A p \in S : p[1] \in A /\ p[2] \in B /\ p[3] \in Slots /\ p = <<p[1], p[2], p[3]>>
                   /\ <<p[3], over[p[1]]>> \in candidates
  OBVIOUS
<1>5. \A p \in S : p[1] \in Nat /\ p[2] \in Nat /\ p[3] \in Nat
  <2>1. A \subseteq Nat /\ B \subseteq Nat
    BY <1>1
  <2> HIDE DEF S, A, B
  <2>2. QED
    BY <1>1, <1>4, <2>1, Zenon
<1>6. \A p, q \in S : p # q => p[1] # q[1] \/ p[2] # q[2] \/ p[3] # q[3]
  BY <1>4
<1> HIDE DEF S
<1>6a. \A x, y \in S : <<x, y>> \in R <=> lt(x, y)
  <2> HIDE DEF lt
  <2>1. QED
    OBVIOUS
<1> HIDE DEF R
<1>7. StrictOrder(S, R)
  <2>1. \A x \in S : ~ lt(x, x)
    BY <1>5
  <2>2. \A x, y \in S : x # y => lt(x, y) \/ lt(y, x)
    BY <1>5, <1>6
  <2>3. \A x, y, z \in S : lt(x, y) /\ lt(y, z) => lt(x, z)
    BY <1>5
  <2> HIDE DEF lt
  <2>4. QED
    BY <1>6a, <2>1, <2>2, <2>3 DEF StrictOrder
<1>8. \A x \in S : Below(S, R, x) = {y \in S : lt(y, x)}
  <2> HIDE DEF lt
  <2>1. QED
    BY <1>6a DEF Below
<1> HIDE DEF lt
<1>9. \A n \in 1..Cardinality(S) : \E x \in S : Cardinality(Below(S, R, x)) = n - 1
  BY <1>2, <1>7, Ranked
<1>10. \A n \in 1..Cardinality(S) : place(n) \in S
  BY <1>8, <1>9, Zenon
<1>11. size \in Nat /\ size <= batch /\ 1..size \subseteq 1..Cardinality(S)
  BY <1>3, SMTT(30)
<1>12. Plan(over, under, candidates, batch) =
          [n \in 1..size |-> [slot |-> place(n)[3], from |-> over[place(n)[1]],
                              to |-> under[place(n)[2]]]]
  <2> DEFINE sorted == [n \in 1..Cardinality(S) |-> place(n)]
  <2>1. Plan(over, under, candidates, batch) =
          [n \in 1..size |-> [slot |-> sorted[n][3], from |-> over[sorted[n][1]],
                              to |-> under[sorted[n][2]]]]
    BY DEF Plan, InOrder, S, lt
  <2>2. \A n \in 1..size : sorted[n] = place(n)
    BY <1>11, Zenon
  <2> HIDE DEF sorted, place, size
  <2>3. QED
    BY <2>1, <2>2, SMTT(30)
<1> HIDE DEF place, size
<1>13. ASSUME NEW n \in 1..size
       PROVE  [slot |-> place(n)[3], from |-> over[place(n)[1]], to |-> under[place(n)[2]]]
                 \in {m \in Moves : <<m.slot, m.from>> \in candidates}
  <2>1. place(n) \in S
    BY <1>10, <1>11
  <2>2. /\ place(n)[1] \in A /\ place(n)[2] \in B /\ place(n)[3] \in Slots
        /\ <<place(n)[3], over[place(n)[1]]>> \in candidates
    BY <1>4, <2>1
  <2>3. over[place(n)[1]] \in ShardIds /\ under[place(n)[2]] \in ShardIds
    BY <2>2
  <2>4. QED
    BY <2>2, <2>3 DEF Moves
<1>14. Plan(over, under, candidates, batch) \in [1..size -> {m \in Moves : <<m.slot, m.from>> \in candidates}]
  BY <1>12, <1>13
<1> DEFINE T == {m \in Moves : <<m.slot, m.from>> \in candidates}
<1> HIDE DEF T
<1>15. Plan(over, under, candidates, batch) \in [1..size -> T]
  BY <1>14 DEF T
<1>16. Plan(over, under, candidates, batch) \in Seq(T)
       /\ Len(Plan(over, under, candidates, batch)) = size
  BY <1>11, <1>15
<1>17. QED
  BY <1>11, <1>16 DEF T

\* What is recorded of an operation are numbers.
LEMMA RecordTypes ==
    ASSUME SlotTypeOK, NEW S, IsFiniteSet(S), RecordOperation(S), UNCHANGED <<tableVars, call, cache>>
    PROVE  SlotTypeOK'
<1>1. \A h \in ShardIds : Cardinality({s \in S : GetSlotShard(s) = h}) \in Nat
  <2> TAKE h \in ShardIds
  <2> DEFINE T == {s \in S : GetSlotShard(s) = h}
  <2>1. T \in SUBSET S
    OBVIOUS
  <2> HIDE DEF T
  <2>2. Cardinality(T) \in Nat
    BY <2>1, FS_Subset, FS_CardinalityType
  <2>3. QED
    BY <2>2 DEF T
<1>2. shard_ops' \in [ShardIds -> Nat]
  <2> DEFINE n(h) == Cardinality({s \in S : GetSlotShard(s) = h})
  <2>1. \A h \in ShardIds : n(h) \in Nat
    BY <1>1
  <2>2. shard_ops' = [h \in ShardIds |-> shard_ops[h] + n(h)]
    BY DEF RecordOperation
  <2> HIDE DEF n
  <2>3. QED
    BY <2>1, <2>2 DEF SlotTypeOK
<1>3. slot_access' \in [Slots -> Nat]
  BY DEF RecordOperation, SlotTypeOK
<1>4. QED
  BY <1>2, <1>3 DEF SlotTypeOK, tableVars

\* The first n elements of a sequence of shards, or all of them.
LEMMA FirstShards ==
    ASSUME NEW q \in Seq(ShardIds), NEW n \in Nat
    PROVE  SubSeq(q, 1, Min({n, Len(q)})) \in Seq(ShardIds)
<1>1. Len(q) \in Nat
  OBVIOUS
<1>2. \E x \in {n, Len(q)} : \A y \in {n, Len(q)} : x <= y
  BY <1>1
<1>3. Min({n, Len(q)}) \in {n, Len(q)} /\ \A y \in {n, Len(q)} : Min({n, Len(q)}) <= y
  BY <1>2 DEF Min
<1> DEFINE m == Min({n, Len(q)})
<1> HIDE DEF m
<1>4. m \in Int /\ m <= Len(q) /\ 1 \in Int
  BY <1>1, <1>3 DEF m
<1>5. \A i \in 1..m : q[i] \in ShardIds
  BY <1>1, <1>4
<1>6. SubSeq(q, 1, m) \in Seq(ShardIds)
  BY <1>4, <1>5, Shortened
<1>7. QED
  BY <1>6, Zenon DEF m

\* A plan of execute_rebalancing fits into a batch.
LEMMA PlansSound ==
    ASSUME SlotTypeOK, NEW p \in Plans
    PROVE  p \in Seq(Moves) /\ Len(p) <= BatchSize
<1>1. ASSUME NEW rank \in Bijection(ShardIds, ShardIds), p = PlanLoadBased(rank)
      PROVE  p \in Seq(Moves) /\ Len(p) <= BatchSize
  <2> DEFINE over == SubSeq(MostLoadedFirst(rank), 1, Min({BatchSize \div 2, Len(MostLoadedFirst(rank))}))
             under == SubSeq(LeastLoadedFirst(rank), 1, Min({2, Len(LeastLoadedFirst(rank))}))
  <2>1. MostLoadedFirst(rank) \in Seq(ShardIds) /\ LeastLoadedFirst(rank) \in Seq(ShardIds)
    BY MostLoadedShards, LeastLoadedShards DEF SlotTypeOK
  <2>2. BatchSize \in Nat /\ BatchSize \div 2 \in Nat /\ 2 \in Nat
    BY RebalancerAssumption
  <2>3. over \in Seq(ShardIds) /\ under \in Seq(ShardIds)
    BY <2>1, <2>2, FirstShards
  <2>4. p = Plan(over, under, OwnedSlots, BatchSize)
    BY <1>1 DEF PlanLoadBased
  <2>5. OwnedSlots \in SUBSET (Slots \X ShardIds)
    BY DEF OwnedSlots
  <2> HIDE DEF over, under
  <2>6. p \in Seq({m \in Moves : <<m.slot, m.from>> \in OwnedSlots}) /\ Len(p) <= BatchSize
    BY <2>2, <2>3, <2>4, <2>5, PlanSound
  <2> DEFINE T == {m \in Moves : <<m.slot, m.from>> \in OwnedSlots}
  <2>7. T \subseteq Moves
    OBVIOUS
  <2> HIDE DEF T
  <2>8. p \in Seq(T) => p \in Seq(Moves)
    BY <2>7
  <2>9. QED
    BY <2>6, <2>8 DEF T
<1>2. ASSUME NEW slot \in Slots, NEW target \in LeastLoaded, p = PlanHotKey(slot, target)
      PROVE  p \in Seq(Moves) /\ Len(p) <= BatchSize
  <2>1. [slot |-> slot, from |-> GetSlotShard(slot), to |-> target] \in Moves
    BY ShardType DEF LeastLoaded, Moves
  <2>2. QED
    BY <1>2, <2>1, RebalancerAssumption DEF PlanHotKey
<1>3. QED
  BY <1>1, <1>2 DEF Plans

\* Where the operator's call is, and which slot has a task meanwhile: the one
\* at the head of the plan and no other.
OneAtATime ==
    \/ call[operator] = NoCall /\ DOMAIN active_migrations = {}
    \/ /\ plan # <<>> /\ call[operator].slot = Head(plan).slot
       /\ \/ /\ call[operator].fn = "start" /\ call[operator].at \in {"assign", "task"}
             /\ DOMAIN active_migrations = {}
          \/ /\ call[operator].fn = "start" /\ call[operator].at \in {"version", "ok"}
             /\ DOMAIN active_migrations = {call[operator].slot}
          \/ /\ call[operator].fn = "complete" /\ call[operator].at \in {"assign", "task"}
             /\ DOMAIN active_migrations = {call[operator].slot}
          \/ /\ call[operator].fn = "complete" /\ call[operator].at \in {"version", "ok"}
             /\ DOMAIN active_migrations = {}

\* What was planned has been completed or is left, and each migration of the
\* plan is over before the next one begins.
RebalancerInv ==
    /\ SlotTypeOK
    /\ plan \in Seq(Moves)
    /\ event \in [planned : Nat, completed : Nat]
    /\ event.planned = event.completed + Len(plan)
    /\ event.planned <= BatchSize
    /\ OneAtATime

\* The steps of the operator's call keep one task at a time.
LEMMA OneTaskStep ==
    ASSUME RebalancerInv, CallStep(operator), UNCHANGED <<opVars, cache>>
    PROVE  RebalancerInv'
<1>1. operator \in Threads
  BY RebalancerAssumption
<1>2. SlotTypeOK'
  BY <1>1, TypeCallStep DEF RebalancerInv
<1>3. call \in [Threads -> Call] /\ call[operator] \in Call
  BY <1>1 DEF RebalancerInv, SlotTypeOK, Call
<1>4. call[operator] # NoCall
  BY DEF CallStep, Assign, StartTask, FinishTask, Bump, At, NoCall
<1>5. ASSUME NEW at, Goto(operator, at)
      PROVE  /\ call'[operator].at = at /\ call'[operator].fn = call[operator].fn
             /\ call'[operator].slot = call[operator].slot
  BY <1>1, <1>3, <1>5 DEF Goto, Call
<1>6. CASE Assign(operator)
  <2>1. call[operator].at = "assign" /\ Goto(operator, "task") /\ UNCHANGED active_migrations
    BY <1>6 DEF Assign
  <2>2. OneAtATime'
    BY <1>4, <1>5, <2>1, Zenon DEF RebalancerInv, OneAtATime, opVars
  <2>3. QED
    BY <1>2, <2>2 DEF RebalancerInv, opVars
<1>7. CASE StartTask(operator)
  <2>1. call[operator].fn = "start" /\ call[operator].at = "task" /\ Goto(operator, "version")
    BY <1>7 DEF StartTask, At
  <2>2. DOMAIN active_migrations' = DOMAIN active_migrations \cup {call[operator].slot}
    BY <1>7 DEF StartTask
  <2>3. DOMAIN active_migrations = {}
    BY <1>4, <2>1 DEF RebalancerInv, OneAtATime
  <2>4. OneAtATime'
    BY <1>4, <1>5, <2>1, <2>2, <2>3, Zenon DEF RebalancerInv, OneAtATime, opVars
  <2>5. QED
    BY <1>2, <2>4 DEF RebalancerInv, opVars
<1>8. CASE FinishTask(operator)
  <2>1. call[operator].fn # "start" /\ call[operator].at = "task" /\ Goto(operator, "version")
    BY <1>8 DEF FinishTask
  <2>2. DOMAIN active_migrations' = DOMAIN active_migrations \ {call[operator].slot}
    BY <1>8 DEF FinishTask, Restrict
  <2>3. DOMAIN active_migrations = {call[operator].slot}
    BY <1>4, <2>1, SMTT(30) DEF RebalancerInv, OneAtATime
  <2>4. OneAtATime'
    BY <1>4, <1>5, <2>1, <2>2, <2>3 DEF RebalancerInv, OneAtATime, opVars
  <2>5. QED
    BY <1>2, <2>4 DEF RebalancerInv, opVars
<1>9. CASE Bump(operator)
  <2>1. call[operator].at = "version" /\ Goto(operator, "ok") /\ UNCHANGED active_migrations
    BY <1>9 DEF Bump
  <2>2. OneAtATime'
    BY <1>4, <1>5, <2>1, Zenon DEF RebalancerInv, OneAtATime, opVars
  <2>3. QED
    BY <1>2, <2>2 DEF RebalancerInv, opVars
<1>10. QED
  BY <1>6, <1>7, <1>8, <1>9 DEF CallStep

\* Every step of execute_rebalancing, and every operation recorded beside it,
\* keeps the invariant.
LEMMA RebalancerStep ==
    ASSUME RebalancerInv, [RebalancerNext]_rebVars
    PROVE  RebalancerInv'
<1>1. operator \in Threads
  BY RebalancerAssumption
<1>2. /\ SlotTypeOK /\ plan \in Seq(Moves) /\ event \in [planned : Nat, completed : Nat]
      /\ event.planned = event.completed + Len(plan) /\ event.planned <= BatchSize /\ OneAtATime
  BY DEF RebalancerInv
<1>3. call \in [Threads -> Call] /\ call[operator] \in Call
  BY <1>1, <1>2 DEF SlotTypeOK, Call
<1>4. CASE Execute
  <2>1. plan' \in Seq(Moves) /\ Len(plan') <= BatchSize /\ Len(plan') \in Nat
    BY <1>2, <1>4, PlansSound DEF Execute
  <2>2. /\ event' \in [planned : Nat, completed : Nat]
        /\ event'.planned = Len(plan') /\ event'.completed = 0
    BY <1>4, <2>1 DEF Execute
  <2>3. UNCHANGED <<slotVars, cache>> /\ call[operator] = NoCall
    BY <1>4 DEF Execute
  <2>4. SlotTypeOK'
    BY <1>2, <2>3 DEF SlotTypeOK, slotVars, tableVars, loadVars
  <2>5. OneAtATime'
    BY <1>2, <2>3 DEF OneAtATime, slotVars, tableVars, NoCall
  <2>6. QED
    BY <2>1, <2>2, <2>4, <2>5 DEF RebalancerInv
<1>5. CASE StartNext
  <2> DEFINE m == Head(plan)
  <2>1. plan # <<>> /\ StartCheck(operator, m) /\ UNCHANGED <<plan, event, cache>>
    BY <1>5 DEF StartNext, opVars
  <2>2. m \in Moves
    BY <1>2, <2>1, HeadAndTail
  <2>3. m.slot \in Slots /\ m.from \in ShardIds /\ m.to \in ShardIds
    BY <2>2 DEF Moves
  <2> HIDE DEF m
  <2>4. SlotTypeOK'
    BY <1>1, <1>2, <2>1, <2>3, TypeStartCheck
  <2>5. call[operator] = NoCall /\ UNCHANGED active_migrations
    BY <2>1 DEF StartCheck, tableVars
  <2>6. DOMAIN active_migrations = {}
    BY <1>2, <2>5 DEF OneAtATime, NoCall
  <2>7. call'[operator].fn = "start" /\ call'[operator].at = "assign" /\ call'[operator].slot = m.slot
    BY <1>1, <1>3, <2>1, <2>6 DEF StartCheck
  <2>8. OneAtATime'
    BY <2>1, <2>5, <2>6, <2>7 DEF OneAtATime, m
  <2>9. QED
    BY <1>2, <2>1, <2>4, <2>8 DEF RebalancerInv
<1>6. CASE Started
  <2>1. /\ call[operator].fn = "start" /\ call[operator].at = "ok"
        /\ FinishCheck(operator, "complete", Head(plan).slot) /\ UNCHANGED <<plan, event, cache>>
    BY <1>6 DEF Started, At, opVars
  <2>2. /\ plan # <<>> /\ call[operator].slot = Head(plan).slot
        /\ DOMAIN active_migrations = {call[operator].slot}
    BY <1>2, <2>1 DEF OneAtATime, NoCall
  <2>3. call[operator].slot \in Slots
    BY <1>3 DEF Call
  <2>4. SlotTypeOK'
    BY <1>1, <1>2, <2>1, <2>2, <2>3, TypeFinishCheck
  <2>5. UNCHANGED active_migrations
    BY <2>1 DEF FinishCheck, tableVars
  <2>6. /\ call'[operator].fn = "complete" /\ call'[operator].at = "assign"
        /\ call'[operator].slot = Head(plan).slot
    BY <1>1, <1>3, <2>1, <2>2 DEF FinishCheck
  <2>7. OneAtATime'
    BY <2>1, <2>2, <2>5, <2>6 DEF OneAtATime
  <2>8. QED
    BY <1>2, <2>1, <2>4, <2>7 DEF RebalancerInv
<1>7. CASE Completed
  <2>1. /\ plan # <<>> /\ plan' = Tail(plan) /\ call' = [call EXCEPT ![operator] = NoCall]
        /\ UNCHANGED <<tableVars, loadVars, cache>>
        /\ call[operator].at \in {"ok", "err"}
        /\ call[operator].at = "ok" => call[operator].fn = "complete"
                                       /\ event' = [event EXCEPT !.completed = @ + 1]
    BY <1>7 DEF Completed, At
  <2>2. call[operator].at = "ok" /\ DOMAIN active_migrations = {}
    BY <1>2, <2>1 DEF OneAtATime, NoCall
  <2>3. plan' \in Seq(Moves) /\ Len(plan') = Len(plan) - 1 /\ Len(plan) \in Nat
    BY <1>2, <2>1, HeadAndTail
  <2>4. /\ event' \in [planned : Nat, completed : Nat]
        /\ event'.planned = event.planned /\ event'.completed = event.completed + 1
    BY <1>2, <2>1, <2>2
  <2>5. SlotTypeOK'
    BY <1>1, <1>2, <2>1, NoCallType, TypeCall, Zenon DEF Rest
  <2>6. call'[operator] = NoCall /\ UNCHANGED active_migrations
    BY <1>1, <1>3, <2>1 DEF tableVars
  <2>7. OneAtATime'
    BY <2>2, <2>6 DEF OneAtATime
  <2>8. event'.planned = event'.completed + Len(plan') /\ event'.planned <= BatchSize
    BY <1>2, <2>3, <2>4
  <2>9. QED
    BY <2>3, <2>4, <2>5, <2>7, <2>8 DEF RebalancerInv
<1>8. CASE CallStep(operator) /\ UNCHANGED <<opVars, cache>>
  BY <1>8, OneTaskStep
<1>9. CASE Record
  <2>1. PICK s \in Slots : RecordOperation({s})
    BY <1>9 DEF Record
  <2>2. UNCHANGED <<tableVars, call, plan, event, cache>>
    BY <1>9 DEF Record, opVars
  <2>3. SlotTypeOK'
    BY <1>2, <2>1, <2>2, FS_Singleton, RecordTypes, ZenonT(40)
  <2>4. OneAtATime'
    BY <1>2, <2>2 DEF OneAtATime, tableVars
  <2>5. QED
    BY <1>2, <2>2, <2>3, <2>4 DEF RebalancerInv
<1>10. CASE UNCHANGED rebVars
  <2>1. SlotTypeOK' /\ OneAtATime' /\ UNCHANGED <<plan, event>>
    BY <1>2, <1>10 DEF SlotTypeOK, OneAtATime, rebVars, slotVars, tableVars, loadVars, opVars
  <2>2. QED
    BY <1>2, <2>1, SMTT(30) DEF RebalancerInv
<1>11. QED
  BY <1>4, <1>5, <1>6, <1>7, <1>8, <1>9, <1>10 DEF RebalancerNext, OperatorStep

\* For any number of slots and shards, any load and any batch size, an event
\* plans at most a batch, and execute_rebalancing completes what it planned, a
\* slot that the plan names twice included (rebalancer.rs, execute_rebalancing).
THEOREM PlansAreCompleted == RebalancerSpec => []PlannedIsCompleted
<1>1. RebalancerInit => RebalancerInv
  <2> SUFFICES ASSUME RebalancerInit PROVE RebalancerInv
    OBVIOUS
  <2>1. SlotInit /\ plan = <<>> /\ event = NoEvent
    BY DEF RebalancerInit
  <2>2. SlotTypeOK
    BY <2>1, SlotTypesInit
  <2>3. OneAtATime
    BY <2>1, RebalancerAssumption DEF SlotInit, OneAtATime
  <2>4. plan \in Seq(Moves) /\ Len(plan) = 0
    BY <2>1
  <2>5. QED
    BY <2>1, <2>2, <2>3, <2>4, RebalancerAssumption DEF RebalancerInv, NoEvent
<1>2. RebalancerInv /\ [RebalancerNext]_rebVars => RebalancerInv'
  BY RebalancerStep
<1>3. RebalancerInv => PlannedIsCompleted
  BY DEF RebalancerInv, PlannedIsCompleted
<1>4. QED
  BY <1>1, <1>2, <1>3, PTL DEF RebalancerSpec

(***************************************************************************)
(* The store over the table                                                *)
(***************************************************************************)
\* The shard that a slot was dealt to
Home(s) == s % ShardCount
HomeMoves == {m \in Moves : m.from = Home(m.slot)}

\* A slot is served by its home, also while it migrates.
AtHome ==
    \A s \in Slots : \/ slot_assignments[s] = Stable(Home(s))
                     \/ \E h \in ShardIds : slot_assignments[s] = Migrating(Home(s), h)

\* The thread of start_rebalancer only starts migrations, from the home of the
\* slot.
OnlyStarts ==
    /\ moves \in Seq(HomeMoves)
    /\ call[rebalancer].fn \in {"none", "start"}
    /\ call[rebalancer].fn = "start" =>
          call[rebalancer].from = Home(call[rebalancer].slot) /\ moves # <<>>

TableInv == SlotTypeOK /\ AtHome /\ OnlyStarts

\* While no migration is completed get_slot_shard gives the home of a slot.
LEMMA HomeServes ==
    ASSUME AtHome, NEW s \in Slots
    PROVE  GetSlotShard(s) = Home(s)
<1>1. CASE slot_assignments[s] = Stable(Home(s))
  BY <1>1 DEF GetSlotShard, Stable
<1>2. CASE \E h \in ShardIds : slot_assignments[s] = Migrating(Home(s), h)
  BY <1>2 DEF GetSlotShard, Migrating
<1>3. QED
  BY <1>1, <1>2 DEF AtHome

\* What trigger_rebalance plans leaves from the home of the slot.
LEMMA PlannedFromHome ==
    ASSUME TableInv
    PROVE  PlannedMoves \in Seq(HomeMoves)
<1> DEFINE rank == [h \in ShardIds |-> h]
           over == MostLoadedFirst(rank)
           under == LeastLoadedFirst(rank)
<1>1. rank \in Bijection(ShardIds, ShardIds)
  <2>1. rank \in [ShardIds -> ShardIds] /\ \A a, b \in ShardIds : rank[a] = rank[b] => a = b
    OBVIOUS
  <2>2. \A t \in ShardIds : \E s \in ShardIds : rank[s] = t
    OBVIOUS
  <2> HIDE DEF rank
  <2>3. QED
    BY <2>1, <2>2 DEF Bijection, Injection, Surjection, IsInjective
<1> HIDE DEF rank
<1>2. over \in Seq(ShardIds) /\ under \in Seq(ShardIds)
  BY <1>1, MostLoadedShards, LeastLoadedShards DEF TableInv, SlotTypeOK
<1>3. HotSlots \in SUBSET (Slots \X ShardIds) /\ MigrationBatchSize \in Nat
  BY SlotAssumption DEF HotSlots
<1>4. PlannedMoves = Plan(over, under, HotSlots, MigrationBatchSize)
  BY DEF PlannedMoves, rank
<1> DEFINE T == {m \in Moves : <<m.slot, m.from>> \in HotSlots}
<1> HIDE DEF over, under
<1>5. PlannedMoves \in Seq(T)
  BY <1>2, <1>3, <1>4, PlanSound
<1>6. ASSUME NEW m \in Moves, <<m.slot, m.from>> \in HotSlots
      PROVE  m.from = Home(m.slot)
  <2>1. m.slot \in Slots /\ slot_assignments[m.slot] = Stable(m.from)
    BY <1>6 DEF HotSlots, Moves
  <2>2. GetSlotShard(m.slot) = m.from
    BY <2>1 DEF GetSlotShard, Stable
  <2>3. QED
    BY <2>1, <2>2, HomeServes DEF TableInv
<1>7. T \subseteq HomeMoves
  BY <1>6 DEF HomeMoves
<1> HIDE DEF T
<1>8. QED
  BY <1>5, <1>7

\* The table stays as it is while a client records an operation.
LEMMA RecordKeepsTable ==
    ASSUME TableInv, NEW S, IsFiniteSet(S), RecordOperation(S), UNCHANGED <<tableVars, call, cache, workerVars>>
    PROVE  TableInv'
<1>1. SlotTypeOK'
  BY RecordTypes DEF TableInv
<1>2. QED
  BY <1>1, Zenon DEF TableInv, AtHome, OnlyStarts, tableVars, workerVars

\* The rebalancer thread leaves every slot at its home.
LEMMA WorkerKeepsTable ==
    ASSUME TableInv, WorkerStep
    PROVE  TableInv'
<1>1. rebalancer \in Threads /\ SlotTypeOK /\ AtHome /\ OnlyStarts
  BY ClusterAssumption DEF TableInv
<1>2. call \in [Threads -> Call] /\ call[rebalancer] \in Call
  BY <1>1, SMTT(30) DEF SlotTypeOK, Call
<1>3. CASE Stop
  BY <1>1, <1>3, SMTT(30) DEF Stop, TableInv, SlotTypeOK, AtHome, OnlyStarts, slotVars, tableVars, loadVars
<1>4. CASE TriggerRebalance
  <2>1. moves' \in Seq(HomeMoves) /\ moves' # <<>>
    BY <1>4, PlannedFromHome DEF TriggerRebalance
  <2>2. UNCHANGED <<tableVars, loadVars, call, cache>>
    BY <1>4, SMTT(30) DEF TriggerRebalance
  <2>3. QED
    BY <1>1, <2>1, <2>2 DEF TableInv, SlotTypeOK, AtHome, OnlyStarts, tableVars, loadVars
<1>5. CASE StartMove
  <2> DEFINE m == Head(moves)
  <2>1. moves # <<>> /\ StartCheck(rebalancer, m) /\ UNCHANGED <<moves, cache>>
    BY <1>5 DEF StartMove, workerVars
  <2>2. m \in HomeMoves
    BY <1>1, <2>1, HeadAndTail DEF OnlyStarts
  <2>3. m.slot \in Slots /\ m.from \in ShardIds /\ m.to \in ShardIds /\ m.from = Home(m.slot)
    BY <2>2 DEF HomeMoves, Moves
  <2> HIDE DEF m
  <2>4. SlotTypeOK'
    BY <1>1, <2>1, <2>3, TypeStartCheck
  <2>5. /\ call'[rebalancer].fn = "start" /\ call'[rebalancer].slot = m.slot
        /\ call'[rebalancer].from = m.from
    BY <1>1, <1>2, <2>1 DEF StartCheck
  <2>6. UNCHANGED tableVars
    BY <2>1, SMTT(30) DEF StartCheck
  <2>7. QED
    BY <1>1, <2>1, <2>3, <2>4, <2>5, <2>6 DEF TableInv, AtHome, OnlyStarts, tableVars
<1>6. CASE MoveStarted
  <2>1. /\ call[rebalancer].at \in {"ok", "err"} /\ call' = [call EXCEPT ![rebalancer] = NoCall]
        /\ UNCHANGED <<tableVars, loadVars, cache>> /\ moves' = Tail(moves)
    BY <1>6 DEF MoveStarted, Return
  <2>2. call[rebalancer].fn = "start"
    BY <1>1, <2>1 DEF OnlyStarts, SlotTypeOK
  <2>3. moves' \in Seq(HomeMoves)
    BY <1>1, <2>1, <2>2, HeadAndTail DEF OnlyStarts
  <2>4. SlotTypeOK'
    BY <1>1, <2>1, NoCallType, TypeCall, Zenon DEF Rest
  <2>5. call'[rebalancer].fn = "none"
    BY <1>1, <1>2, <2>1, NoCallType
  <2>6. QED
    BY <1>1, <2>1, <2>3, <2>4, <2>5 DEF TableInv, AtHome, OnlyStarts, tableVars
<1>7. CASE CallStep(rebalancer) /\ UNCHANGED <<cache, workerVars>>
  <2>1. SlotTypeOK' /\ UNCHANGED moves
    BY <1>1, <1>7, TypeCallStep DEF workerVars
  <2>2. ASSUME NEW at, Goto(rebalancer, at), call[rebalancer].fn = "start"
        PROVE  OnlyStarts'
    <3>1. /\ call'[rebalancer].fn = "start" /\ call'[rebalancer].from = call[rebalancer].from
          /\ call'[rebalancer].slot = call[rebalancer].slot
      BY <1>1, <1>2, <2>2 DEF Goto, Call
    <3>2. QED
      BY <1>1, <2>1, <2>2, <3>1 DEF OnlyStarts
  <2>3. CASE Assign(rebalancer)
    <3>1. call[rebalancer].fn = "start" /\ Goto(rebalancer, "task")
      BY <1>1, <2>3, AssignedEntry, ZenonT(40) DEF OnlyStarts, Assign
    <3>2. /\ slot_assignments'[call[rebalancer].slot] =
                Migrating(Home(call[rebalancer].slot), call[rebalancer].to)
          /\ \A s \in Slots \ {call[rebalancer].slot} : slot_assignments'[s] = slot_assignments[s]
      BY <1>1, <2>3, <3>1, AssignedEntry DEF OnlyStarts
    <3>3. call[rebalancer].to \in ShardIds
      BY <1>2 DEF Call
    <3>4. AtHome'
      BY <1>1, <3>2, <3>3 DEF AtHome
    <3>5. QED
      BY <2>1, <2>2, <3>1, <3>4 DEF TableInv
  <2>4. CASE StartTask(rebalancer)
    <3>1. call[rebalancer].fn = "start" /\ Goto(rebalancer, "version") /\ UNCHANGED slot_assignments
      BY <2>4, SMTT(30) DEF StartTask, At
    <3>2. QED
      BY <1>1, <2>1, <2>2, <3>1 DEF TableInv, AtHome
  <2>5. CASE FinishTask(rebalancer)
    BY <1>1, <2>5 DEF FinishTask, OnlyStarts
  <2>6. CASE Bump(rebalancer)
    <3>1. call[rebalancer].at = "version" /\ Goto(rebalancer, "ok") /\ UNCHANGED slot_assignments
      BY <2>6 DEF Bump
    <3>2. call[rebalancer].fn = "start"
      BY <1>1, <3>1 DEF OnlyStarts, SlotTypeOK
    <3>3. QED
      BY <1>1, <2>1, <2>2, <3>1, <3>2, SMTT(30) DEF TableInv, AtHome
  <2>7. QED
    BY <1>7, <2>3, <2>4, <2>5, <2>6 DEF CallStep
<1>8. QED
  BY <1>3, <1>4, <1>5, <1>6, <1>7 DEF WorkerStep, WorkerCall

\* The last value given to a key is at home, and nowhere else.
Found ==
    \A k \in Keys, h \in ShardIds :
        shards[h][k] = IF h = Home(SlotOf[k]) THEN written[k] ELSE None

StoreInv ==
    /\ DOMAIN shards = ShardIds /\ \A h \in ShardIds : DOMAIN shards[h] = Keys
    /\ Found

\* What a client has left to do goes to the homes of its keys.
ClientSound(x) ==
    /\ DOMAIN x = {"fn", "at", "puts", "todo"}
    /\ x.fn \in {"key", "mset"} =>
          /\ DOMAIN x.puts \subseteq Keys
          /\ \A g \in x.todo : g[2] \in Keys /\ g[1] = Home(SlotOf[g[2]])
    /\ x.fn \in {"rename", "renamenx"} =>
          /\ x.puts[1] \in Keys /\ x.puts[2] \in Keys
          /\ \A h \in x.todo : h = Home(SlotOf[x.puts[1]]) /\ h = Home(SlotOf[x.puts[2]])
    /\ x.fn = "flushdb" => x.todo \subseteq ShardIds

ClientsInv == DOMAIN client = Clients /\ \A c \in Clients : ClientSound(client[c])

ClusterInv == TableInv /\ StoreInv /\ ClientsInv

\* The home of a key is an existing shard, the one that get_key_shard gives.
LEMMA KeyHome ==
    ASSUME NEW k \in Keys
    PROVE  /\ SlotOf[k] \in Slots /\ Home(SlotOf[k]) \in ShardIds
           /\ AtHome => KeyShard(k) = Home(SlotOf[k])
<1>1. SlotOf[k] \in Slots
  BY ClusterAssumption DEF Slots
<1>2. QED
  BY <1>1, ZeroTypes, HomeServes DEF Home, KeyShard

\* A shard that is given entries of keys whose home it is.
LEMMA PutAtHome ==
    ASSUME StoreInv, NEW h \in ShardIds, NEW puts, Put(h, puts),
           \A k \in Keys : k \in DOMAIN puts => Home(SlotOf[k]) = h
    PROVE  StoreInv'
<1>1. /\ DOMAIN shards' = ShardIds
      /\ \A g \in ShardIds \ {h} : shards'[g] = shards[g]
      /\ shards'[h] = [k \in Keys |-> IF k \in DOMAIN puts THEN puts[k] ELSE shards[h][k]]
  BY DEF Put, StoreInv, With
<1>2. \A k \in Keys : written'[k] = IF k \in DOMAIN puts THEN puts[k] ELSE written[k]
  BY DEF Put, With
<1>3. \A g \in ShardIds : DOMAIN shards'[g] = Keys
  BY <1>1, SMTT(30) DEF StoreInv
<1>4. Found'
  BY <1>1, <1>2 DEF StoreInv, Found
<1>5. QED
  BY <1>1, <1>3, <1>4 DEF StoreInv

\* A client's own entry changes.
LEMMA ClientMoves ==
    ASSUME ClientsInv, NEW c \in Clients, NEW x, ClientSound(x), client' = [client EXCEPT ![c] = x]
    PROVE  ClientsInv'
  BY DEF ClientsInv

\* A client that does nothing owes nothing.
LEMMA IdleSound == ClientSound(Idle)
  BY DEF ClientSound, Idle

\* The steps in which a client records operations and routes its keys.
LEMMA RoutingStep ==
    ASSUME ClusterInv, NEW c \in Clients, KeyOp(c) \/ Mset(c) \/ Route(c) \/ MsetRoute(c) \/ RenameBegin(c)
    PROVE  ClusterInv'
<1>1. TableInv /\ StoreInv /\ ClientsInv /\ AtHome /\ ClientSound(client[c]) /\ c \in DOMAIN client
  BY DEF ClusterInv, TableInv, ClientsInv
<1>2. ASSUME UNCHANGED <<shards, written>> PROVE StoreInv'
  BY <1>1, <1>2, ZenonT(40) DEF StoreInv, Found
<1>3. ASSUME UNCHANGED <<slotVars, cache, workerVars>> PROVE TableInv'
  BY <1>1, <1>3 DEF TableInv, SlotTypeOK, AtHome, OnlyStarts, slotVars, tableVars, loadVars, workerVars
<1>4. CASE KeyOp(c)
  <2>1. PICK k \in Keys, v \in Values \cup {None} :
          /\ RecordOperation({SlotOf[k]})
          /\ client' = [client EXCEPT ![c] = [fn |-> "key", at |-> "route", puts |-> [x \in {k} |-> v], todo |-> {}]]
    BY <1>4, Zenon DEF KeyOp
  <2>2. UNCHANGED <<tableVars, call, cache, workerVars, shards, written>>
    BY <1>4, Zenon DEF KeyOp
  <2>3. ClientSound([fn |-> "key", at |-> "route", puts |-> [x \in {k} |-> v], todo |-> {}])
    BY Zenon DEF ClientSound
  <2>4. TableInv'
    BY <1>1, <2>1, <2>2, FS_Singleton, RecordKeepsTable, Zenon
  <2>5. QED
    BY <1>1, <1>2, <2>1, <2>2, <2>3, <2>4, ClientMoves, Zenon DEF ClusterInv
<1>5. CASE Mset(c)
  <2>1. PICK ks \in SUBSET Keys : \E puts \in [ks -> Values] :
          client' = [client EXCEPT ![c] = [fn |-> "mset", at |-> "route", puts |-> puts, todo |-> {}]]
    BY <1>5, Zenon DEF Mset
  <2>2. PICK puts \in [ks -> Values] :
          client' = [client EXCEPT ![c] = [fn |-> "mset", at |-> "route", puts |-> puts, todo |-> {}]]
    BY <2>1, Zenon
  <2>3. UNCHANGED <<slotVars, cache, workerVars, shards, written>>
    BY <1>5, Zenon DEF Mset
  <2>4. ClientSound([fn |-> "mset", at |-> "route", puts |-> puts, todo |-> {}])
    BY Zenon DEF ClientSound
  <2>5. QED
    BY <1>1, <1>2, <1>3, <2>2, <2>3, <2>4, ClientMoves, Zenon DEF ClusterInv
<1>6. CASE Route(c)
  <2> DEFINE todo == {<<KeyShard(k), k>> : k \in DOMAIN client[c].puts}
             x == [client[c] EXCEPT !.at = "apply", !.todo = todo]
  <2>1. client[c].fn = "key" /\ client' = [client EXCEPT ![c] = x]
    BY <1>1, <1>6, Zenon DEF Route
  <2>2. DOMAIN client[c].puts \subseteq Keys
    BY <1>1, <2>1, SMTT(30) DEF ClientSound
  <2>3. \A g \in todo : g[2] \in Keys /\ g[1] = Home(SlotOf[g[2]])
    BY <1>1, <2>2, KeyHome
  <2> HIDE DEF todo
  <2>4. /\ DOMAIN x = {"fn", "at", "puts", "todo"} /\ x.fn = "key"
        /\ x.puts = client[c].puts /\ x.todo = todo
    BY <1>1, <2>1 DEF ClientSound
  <2> HIDE DEF x
  <2>5. ClientSound(x)
    BY <2>2, <2>3, <2>4, Zenon DEF ClientSound
  <2>6. UNCHANGED <<slotVars, cache, workerVars, shards, written>>
    BY <1>6 DEF Route
  <2>7. QED
    BY <1>1, <1>2, <1>3, <2>1, <2>5, <2>6, ClientMoves, Zenon DEF ClusterInv
<1>7. CASE MsetRoute(c)
  <2>1. PICK k \in DOMAIN client[c].puts :
          /\ client' = [client EXCEPT ![c].todo = client[c].todo \cup {<<KeyShard(k), k>>}, ![c].at =
                          IF Cardinality(client[c].todo \cup {<<KeyShard(k), k>>})
                             = Cardinality(DOMAIN client[c].puts)
                          THEN "apply" ELSE @]
          /\ RecordOperation({SlotOf[k]})
    BY <1>7, Zenon DEF MsetRoute
  <2> DEFINE todo == client[c].todo \cup {<<KeyShard(k), k>>}
  <2>2. client[c].fn = "mset" /\ UNCHANGED <<tableVars, call, cache, workerVars, shards, written>>
    BY <1>7 DEF MsetRoute
  <2>3. k \in Keys /\ DOMAIN client[c].puts \subseteq Keys
    BY <1>1, <2>2, ZenonT(40) DEF ClientSound
  <2>4. \A g \in todo : g[2] \in Keys /\ g[1] = Home(SlotOf[g[2]])
    <3>1. \A g \in client[c].todo : g[2] \in Keys /\ g[1] = Home(SlotOf[g[2]])
      BY <1>1, <2>2, Zenon DEF ClientSound
    <3>2. KeyShard(k) = Home(SlotOf[k])
      BY <1>1, <2>3, KeyHome, Zenon
    <3>3. <<KeyShard(k), k>>[2] = k /\ <<KeyShard(k), k>>[1] = KeyShard(k)
      OBVIOUS
    <3>4. ASSUME NEW g \in todo PROVE g \in client[c].todo \/ g = <<KeyShard(k), k>>
      BY <3>4, Zenon
    <3>5. QED
      BY <2>3, <3>1, <3>2, <3>3, <3>4, Zenon
  <2> DEFINE at == IF Cardinality(todo) = Cardinality(DOMAIN client[c].puts) THEN "apply" ELSE client[c].at
             x == [client[c] EXCEPT !.todo = todo, !.at = at]
  <2>5. client' = [client EXCEPT ![c] = x]
    BY <1>1, <2>1, Zenon DEF ClientSound
  <2> HIDE DEF todo, at
  <2>6. /\ DOMAIN x = {"fn", "at", "puts", "todo"} /\ x.fn = "mset"
        /\ x.puts = client[c].puts /\ x.todo = todo
    BY <1>1, <2>2, ZenonT(40) DEF ClientSound
  <2> HIDE DEF x
  <2>7. ClientSound(x)
    BY <2>3, <2>4, <2>6 DEF ClientSound
  <2>8. TableInv'
    BY <1>1, <2>1, <2>2, FS_Singleton, RecordKeepsTable, Zenon
  <2>9. QED
    BY <1>1, <1>2, <2>2, <2>5, <2>7, <2>8, ClientMoves, Zenon DEF ClusterInv
<1>8. CASE RenameBegin(c)
  <2>1. PICK from \in Keys, to \in Keys, fn \in {"rename", "renamenx"} :
          /\ RecordOperation({SlotOf[from], SlotOf[to]})
          /\ client' = [client EXCEPT ![c] =
                IF KeyShard(from) # KeyShard(to) THEN Idle
                ELSE [fn |-> fn, at |-> "apply", puts |-> <<from, to>>, todo |-> {KeyShard(from)}]]
    BY <1>8, Zenon DEF RenameBegin
  <2> DEFINE y == [fn |-> fn, at |-> "apply", puts |-> <<from, to>>, todo |-> {KeyShard(from)}]
             x == IF KeyShard(from) # KeyShard(to) THEN Idle ELSE y
  <2>2. UNCHANGED <<tableVars, call, cache, workerVars, shards, written>>
    BY <1>8, Zenon DEF RenameBegin
  <2>3. KeyShard(from) = KeyShard(to) => ClientSound(y)
    BY <1>1, KeyHome, Zenon DEF ClientSound
  <2> HIDE DEF y
  <2>4. ClientSound(x)
    BY <2>3, IdleSound
  <2>5. client' = [client EXCEPT ![c] = x]
    BY <2>1 DEF y
  <2> HIDE DEF x
  <2>6. IsFiniteSet({SlotOf[from], SlotOf[to]})
    <3> DEFINE A == {SlotOf[from]}
               B == {SlotOf[to]}
    <3>1. {SlotOf[from], SlotOf[to]} = A \cup B
      OBVIOUS
    <3>2. IsFiniteSet(A) /\ IsFiniteSet(B)
      BY FS_Singleton, Zenon
    <3> HIDE DEF A, B
    <3>3. IsFiniteSet(A \cup B)
      BY <3>2, FS_Union, Zenon
    <3>4. QED
      BY <3>1, <3>3
  <2>7. TableInv'
    BY <1>1, <2>1, <2>2, <2>6, RecordKeepsTable
  <2>8. QED
    BY <1>1, <1>2, <2>2, <2>4, <2>5, <2>7, ClientMoves, Zenon DEF ClusterInv
<1>9. QED
  BY <1>4, <1>5, <1>6, <1>7, <1>8

\* The steps in which the shards do what a client asks.
LEMMA ShardStep ==
    ASSUME ClusterInv, NEW c \in Clients,
           Apply(c) \/ Rename(c) \/ FlushBegin(c) \/ FlushShard(c) \/ FlushEnd(c)
    PROVE  ClusterInv'
<1>1. TableInv /\ StoreInv /\ ClientsInv /\ AtHome /\ ClientSound(client[c]) /\ c \in DOMAIN client
  BY SMTT(30) DEF ClusterInv, TableInv, ClientsInv
<1>2. ASSUME UNCHANGED <<shards, written>> PROVE StoreInv'
  BY <1>1, <1>2, ZenonT(40) DEF StoreInv, Found
<1>3. ASSUME UNCHANGED <<slotVars, cache, workerVars>> PROVE TableInv'
  BY <1>1, <1>3 DEF TableInv, SlotTypeOK, AtHome, OnlyStarts, slotVars, tableVars, loadVars, workerVars
<1>4. CASE Apply(c)
  <2>1. client[c].fn \in {"key", "mset"} /\ UNCHANGED <<slotVars, cache, workerVars>>
    BY <1>4 DEF Apply
  <2>2. PICK h \in {g[1] : g \in client[c].todo} :
          /\ Put(h, Restrict(client[c].puts, {g[2] : g \in {e \in client[c].todo : e[1] = h}}))
          /\ client' = [client EXCEPT ![c] =
                IF client[c].todo \ {e \in client[c].todo : e[1] = h} = {} THEN Idle
                ELSE [@ EXCEPT !.todo = client[c].todo \ {e \in client[c].todo : e[1] = h}]]
    BY <1>4, ZenonT(40) DEF Apply
  <2> DEFINE ks == {g[2] : g \in {e \in client[c].todo : e[1] = h}}
             left == client[c].todo \ {e \in client[c].todo : e[1] = h}
             y == [client[c] EXCEPT !.todo = left]
             x == IF left = {} THEN Idle ELSE y
  <2>3. \A g \in client[c].todo : g[2] \in Keys /\ g[1] = Home(SlotOf[g[2]])
    BY <1>1, <2>1 DEF ClientSound
  <2>4. h \in ShardIds
    BY <2>2, <2>3, KeyHome
  <2>5. \A k \in ks : Home(SlotOf[k]) = h
    BY <2>3, Zenon
  <2>6. left \subseteq client[c].todo
    OBVIOUS
  <2>7. client' = [client EXCEPT ![c] = x]
    BY <1>1, <2>2
  <2> HIDE DEF ks, left
  <2>8. DOMAIN Restrict(client[c].puts, ks) = ks
    BY DEF Restrict
  <2>9. StoreInv'
    BY <1>1, <2>2, <2>4, <2>5, <2>8, PutAtHome DEF ks
  <2>10. /\ DOMAIN y = {"fn", "at", "puts", "todo"} /\ y.fn = client[c].fn
         /\ y.puts = client[c].puts /\ y.todo = left
    BY <1>1 DEF ClientSound
  <2> HIDE DEF y
  <2>11. ClientSound(y)
    BY <1>1, <2>1, <2>3, <2>6, <2>10, Zenon DEF ClientSound
  <2>12. ClientSound(x)
    BY <2>11, IdleSound
  <2> HIDE DEF x
  <2>13. QED
    BY <1>1, <1>3, <2>1, <2>7, <2>9, <2>12, ClientMoves, Zenon DEF ClusterInv
<1>5. CASE Rename(c)
  <2> DEFINE from == client[c].puts[1]
             to == client[c].puts[2]
             puts(h) == [k \in {from, to} |-> IF k = to THEN shards[h][from] ELSE None]
  <2>1. /\ client[c].fn \in {"rename", "renamenx"} /\ UNCHANGED <<slotVars, cache, workerVars>>
        /\ client' = [client EXCEPT ![c] = Idle]
    BY <1>5, Zenon DEF Rename
  <2>2. PICK h \in client[c].todo : UNCHANGED <<shards, written>> \/ Put(h, puts(h))
    BY <1>5, Zenon DEF Rename
  <2>3. /\ from \in Keys /\ to \in Keys
        /\ h = Home(SlotOf[from]) /\ h = Home(SlotOf[to])
    BY <1>1, <2>1, Zenon DEF ClientSound
  <2>4. h \in ShardIds
    BY <2>3, KeyHome, Zenon
  <2>5. \A k \in Keys : k \in DOMAIN puts(h) => Home(SlotOf[k]) = h
    BY <2>3, Zenon
  <2> HIDE DEF puts
  <2>6. StoreInv'
    BY <1>1, <1>2, <2>2, <2>4, <2>5, PutAtHome, Zenon
  <2>7. QED
    BY <1>1, <1>3, <2>1, <2>6, IdleSound, ClientMoves, Zenon DEF ClusterInv
<1>6. CASE FlushBegin(c)
  <2> DEFINE x == [Idle EXCEPT !.fn = "flushdb", !.at = "apply", !.todo = ShardIds]
  <2>1. client' = [client EXCEPT ![c] = x] /\ UNCHANGED <<slotVars, cache, workerVars, shards, written>>
    BY <1>6 DEF FlushBegin
  <2>2. ClientSound(x)
    BY DEF ClientSound, Idle
  <2> HIDE DEF x
  <2>3. QED
    BY <1>1, <1>2, <1>3, <2>1, <2>2, ClientMoves, Zenon DEF ClusterInv
<1>7. CASE FlushShard(c)
  <2>1. PICK h \in client[c].todo :
          /\ shards' = [shards EXCEPT ![h] = [k \in Keys |-> None]]
          /\ written' = [k \in Keys |-> IF shards[h][k] # None THEN None ELSE written[k]]
          /\ client' = [client EXCEPT ![c].todo = @ \ {h}]
    BY <1>7, Zenon DEF FlushShard
  <2>2. client[c].fn = "flushdb" /\ UNCHANGED <<slotVars, cache, workerVars>>
    BY <1>7 DEF FlushShard
  <2>3. client[c].todo \subseteq ShardIds /\ h \in ShardIds
    BY <1>1, <2>2, Zenon DEF ClientSound
  <2>4. /\ DOMAIN shards' = ShardIds /\ \A g \in ShardIds : DOMAIN shards'[g] = Keys
        /\ \A g \in ShardIds \ {h} : shards'[g] = shards[g]
        /\ \A k \in Keys : shards'[h][k] = None
    BY <1>1, <2>1, <2>3 DEF StoreInv
  <2>5. \A k \in Keys : written'[k] = IF shards[h][k] # None THEN None ELSE written[k]
    BY <2>1
  <2>6. Found'
    BY <1>1, <2>3, <2>4, <2>5, ZenonT(40) DEF StoreInv, Found
  <2>7. StoreInv'
    BY <2>4, <2>6 DEF StoreInv
  <2> DEFINE x == [client[c] EXCEPT !.todo = client[c].todo \ {h}]
  <2>8. client' = [client EXCEPT ![c] = x]
    BY <1>1, <2>1
  <2>9. ClientSound(x)
    BY <1>1, <2>2, <2>3 DEF ClientSound
  <2> HIDE DEF x
  <2>10. QED
    BY <1>1, <1>3, <2>2, <2>7, <2>8, <2>9, ClientMoves, Zenon DEF ClusterInv
<1>8. CASE FlushEnd(c)
  <2>1. /\ client' = [client EXCEPT ![c] = Idle] /\ ResetMetrics
        /\ UNCHANGED <<tableVars, call, cache, workerVars, shards, written>>
    BY <1>8, SMTT(30) DEF FlushEnd
  <2>2. SlotTypeOK'
    BY <1>1, <2>1 DEF TableInv, SlotTypeOK, ResetMetrics, tableVars
  <2>3. TableInv'
    BY <1>1, <2>1, <2>2 DEF TableInv, AtHome, OnlyStarts, tableVars, workerVars
  <2>4. QED
    BY <1>1, <1>2, <2>1, <2>3, IdleSound, ClientMoves, Zenon DEF ClusterInv
<1>9. QED
  BY <1>4, <1>5, <1>6, <1>7, <1>8

\* Whatever the rebalancer does between the steps of a call, and however the
\* clients interleave, a key is found with the last value it was given, and in
\* no other shard (cluster.rs, set and get; slot_manager.rs, get_slot_shard).
THEOREM LastValueFound == ClusterSpec => []WrittenIsFound
<1>1. ClusterInit => ClusterInv
  <2> SUFFICES ASSUME ClusterInit PROVE ClusterInv
    OBVIOUS
  <2>1. SlotInit /\ moves = <<>>
    BY DEF ClusterInit
  <2>2. AtHome
    BY <2>1 DEF SlotInit, AtHome, Home
  <2>3. call[rebalancer].fn = "none"
    BY <2>1, ClusterAssumption DEF SlotInit, NoCall
  <2>4. TableInv
    BY <2>1, <2>2, <2>3, SlotTypesInit DEF TableInv, OnlyStarts
  <2>5. StoreInv
    BY DEF ClusterInit, StoreInv, Found
  <2>6. ClientsInv
    BY IdleSound DEF ClusterInit, ClientsInv
  <2>7. QED
    BY <2>4, <2>5, <2>6 DEF ClusterInv
<1>2. ClusterInv /\ [ClusterNext]_clusterVars => ClusterInv'
  <2> SUFFICES ASSUME ClusterInv, [ClusterNext]_clusterVars PROVE ClusterInv'
    OBVIOUS
  <2>1. CASE \E c \in Clients : ClientStep(c)
    BY <2>1, RoutingStep, ShardStep DEF ClientStep, ClientCall
  <2>2. CASE WorkerStep
    <3>1. UNCHANGED <<shards, client, written>>
      BY <2>2 DEF WorkerStep, WorkerCall, Stop, TriggerRebalance, StartMove, MoveStarted, clientVars
    <3>2. TableInv'
      BY <2>2, WorkerKeepsTable, SMTT(30) DEF ClusterInv
    <3>3. QED
      BY <3>1, <3>2, Zenon DEF ClusterInv, StoreInv, Found, ClientsInv
  <2>3. CASE Drop \/ UNCHANGED clusterVars
    <3>1. UNCHANGED <<slotVars, cache, shards, client, written, worker, moves>>
      BY <2>3, SMTT(30) DEF Drop, clusterVars, clientVars, workerVars
    <3>2. TableInv'
      BY <3>1 DEF ClusterInv, TableInv, SlotTypeOK, AtHome, OnlyStarts, slotVars, tableVars, loadVars
    <3>3. QED
      BY <3>1, <3>2, Zenon DEF ClusterInv, StoreInv, Found, ClientsInv
  <2>4. QED
    BY <2>1, <2>2, <2>3 DEF ClusterNext
<1>3. ClusterInv => WrittenIsFound
  <2> SUFFICES ASSUME ClusterInv PROVE WrittenIsFound
    OBVIOUS
  <2>1. \A k \in Keys : KeyShard(k) = Home(SlotOf[k])
    BY KeyHome DEF ClusterInv, TableInv
  <2>2. QED
    BY <2>1, Zenon DEF ClusterInv, StoreInv, Found, WrittenIsFound
<1>4. QED
  BY <1>1, <1>2, <1>3, PTL DEF ClusterSpec

=============================================================================
