--------------------------- MODULE PersistentStore ---------------------------
(***************************************************************************)
(* InPersistentStore (src/src/engine/persistent.rs): a sharded in-memory   *)
(* index whose changes are logged to one AOF.  Client threads run the      *)
(* operations of trait Storage; every critical section of the code is one  *)
(* step, so that the sections of concurrent operations interleave.  Locks  *)
(* that are held while another lock is taken are state.                    *)
(***************************************************************************)
EXTENDS AofRecords, Integers, FiniteSets

CONSTANTS
    Clients,     \* threads that call the store
    NumShards,   \* shards of the index, 0 .. NumShards-1
    ShardOf,     \* shard_for_key, a function from Keys to shards
    Strings,     \* contents of string values
    Members,     \* members of sets and geo sets
    Positions,   \* coordinates of geo members
    Ops,         \* the operations the clients use
    IoFaults,    \* whether appends may fail
    MaxOps,      \* bound: operations started
    MaxRestarts  \* bound: crashes and orderly restarts

Shards == 0 .. NumShards - 1

Free == "free"

ASSUME ShardAssumption == NumShards \in Nat \ {0} /\ ShardOf \in [Keys -> Shards]

ASSUME KeysAssumption == IsFiniteSet(Keys)

ASSUME ClientAssumption == Free \notin Clients

VARIABLES
    data,      \* the shards' maps, together: a function from Keys to values
    keyCount,  \* ShardMetrics::key_count of every shard
    aof,       \* the AofLog
    aofLock,   \* who holds Mutex<AofLog> between two steps
    shardLock, \* who holds a shard's write guard between two steps
    poisoned,  \* the AofLog mutex is poisoned
    pc,        \* where each client is in its operation
    recs,      \* records it has still to append
    kv,        \* updates it has still to make to the index
    args,      \* arguments it has still to use
    started,   \* operations started
    restarts   \* restarts so far

store == <<data, keyCount>>
locks == <<aofLock, shardLock, poisoned>>
local == <<pc, recs, kv, args>>
bounds == <<started, restarts>>
vars == <<store, aof, locks, local, bounds>>

NoKv == [k \in {} |-> None]

Str(v) == [t |-> "str", s |-> {v}]
SetOf(ms) == [t |-> "set", s |-> ms]
GeoOf(ps) == [t |-> "geo", s |-> ps]

Values == {Str(v) : v \in Strings} \cup {SetOf(ms) : ms \in SUBSET Members}
            \cup {GeoOf(ps) : ps \in SUBSET (Members \X Positions)}

Present(d, s) == {k \in Keys : ShardOf[k] = s /\ d[k] # None}

-----------------------------------------------------------------------------
Init ==
    /\ data = [k \in Keys |-> None]
    /\ keyCount = [s \in Shards |-> 0]
    /\ aof = NewLog(<<>>)
    /\ aofLock = Free
    /\ shardLock = [s \in Shards |-> Free]
    /\ poisoned = FALSE
    /\ pc = [c \in Clients |-> "idle"]
    /\ recs = [c \in Clients |-> <<>>]
    /\ kv = [c \in Clients |-> NoKv]
    /\ args = [c \in Clients |-> <<>>]
    /\ started = 0
    /\ restarts = 0

\* Client c starts operation op.
Begin(c, op) ==
    /\ op \in Ops
    /\ pc[c] = "idle"
    /\ started < MaxOps
    /\ started' = started + 1
    /\ UNCHANGED restarts

\* Client c goes on at l with records r to append, updates u and arguments a.
GoTo(c, l, r, u, a) ==
    /\ pc' = [pc EXCEPT ![c] = l]
    /\ recs' = [recs EXCEPT ![c] = r]
    /\ kv' = [kv EXCEPT ![c] = u]
    /\ args' = [args EXCEPT ![c] = a]

Finish(c) == GoTo(c, "idle", <<>>, NoKv, <<>>)

Panic(c) == GoTo(c, "panicked", <<>>, NoKv, <<>>)

\* One write section on one key: data and the shard's key count.
Put(k, v) ==
    /\ shardLock[ShardOf[k]] = Free
    /\ data' = [data EXCEPT ![k] = v]
    /\ keyCount' = [keyCount EXCEPT ![ShardOf[k]] =
           IF data[k] = None /\ v # None THEN @ + 1
           ELSE IF data[k] # None /\ v = None THEN @ - 1 ELSE @]

-----------------------------------------------------------------------------
(***************************************************************************)
(* Operations that write the log first: set and mset.                      *)
(***************************************************************************)
WriteAhead(c, op, u) ==
    /\ Begin(c, op)
    /\ \E order \in [1 .. Cardinality(DOMAIN u) -> DOMAIN u] :
          /\ DOMAIN u = {order[i] : i \in DOMAIN order}
          /\ GoTo(c, "wal", [i \in DOMAIN order |-> SetRec(order[i], u[order[i]])], u, <<>>)
    /\ UNCHANGED <<store, aof, locks>>

Set(c) == \E k \in Keys, v \in Strings : WriteAhead(c, "set", [x \in {k} |-> Str(v)])

Mset(c) ==
    \E ks \in SUBSET Keys : \E v \in Strings :
        ks # {} /\ WriteAhead(c, "mset", [k \in ks |-> Str(v)])

\* Applies the updates of one shard, in one write section.
Apply(c) ==
    /\ pc[c] = "apply"
    /\ \E s \in {ShardOf[k] : k \in DOMAIN kv[c]} :
          LET now == {k \in DOMAIN kv[c] : ShardOf[k] = s}
              rest == DOMAIN kv[c] \ now
          IN  /\ shardLock[s] = Free
              /\ data' = [k \in Keys |-> IF k \in now THEN kv[c][k] ELSE data[k]]
              /\ keyCount' = [keyCount EXCEPT ![s] =
                     @ + Cardinality({k \in now : data[k] = None})]
              /\ IF rest = {} THEN Finish(c)
                 ELSE GoTo(c, "apply", <<>>, [k \in rest |-> kv[c][k]], <<>>)
    /\ UNCHANGED <<aof, locks, bounds>>

-----------------------------------------------------------------------------
(***************************************************************************)
(* Operations that change the index first and log afterwards.              *)
(***************************************************************************)
ThenLog(c, r) == GoTo(c, "log", r, NoKv, <<>>) /\ UNCHANGED <<aof, locks>>

Del(c) ==
    /\ Begin(c, "del")
    /\ \E k \in Keys :
          /\ data[k] # None
          /\ Put(k, None)
          /\ ThenLog(c, <<DelRec(k)>>)

Sadd(c) ==
    /\ Begin(c, "sadd")
    /\ \E k \in Keys, ms \in SUBSET Members :
          /\ ms # {}
          /\ data[k].t \in {"none", "set"}
          /\ LET v == SetOf(data[k].s \cup ms)
             IN  Put(k, v) /\ ThenLog(c, <<SetRec(k, v)>>)

GeoAdd(c) ==
    /\ Begin(c, "geo_add")
    /\ \E k \in Keys, m \in Members, p \in Positions :
          /\ data[k].t \in {"none", "geo"}
          /\ LET v == GeoOf({x \in data[k].s : x[1] # m} \cup {<<m, p>>})
             IN  Put(k, v) /\ ThenLog(c, <<SetRec(k, v)>>)

\* The common part of srem and spop: a set that becomes empty is left as it
\* is, and its key is removed in a write section of its own (DropKey).
RemoveMembers(c, k, ms) ==
    /\ data[k].t = "set"
    /\ LET v == SetOf(data[k].s \ ms)
       IN  IF v.s = {}
           THEN /\ shardLock[ShardOf[k]] = Free
                /\ GoTo(c, "drop", <<>>, NoKv, <<k, ms>>)
                /\ UNCHANGED <<store, aof, locks>>
           ELSE Put(k, v) /\ ThenLog(c, <<SetRec(k, v)>>)

Srem(c) ==
    /\ Begin(c, "srem")
    /\ \E k \in Keys, ms \in SUBSET Members : ms # {} /\ RemoveMembers(c, k, ms)

Spop(c) ==
    /\ Begin(c, "spop")
    /\ \E k \in Keys : \E ms \in SUBSET data[k].s :
          (ms # {} \/ data[k].s = {}) /\ RemoveMembers(c, k, ms)

\* Mutant of DropKey: forgets the DEL record.
DropKeyUnlogged(c) ==
    /\ pc[c] = "drop"
    /\ Put(args[c][1], None)
    /\ Finish(c)
    /\ UNCHANGED <<aof, locks, bounds>>

DropKey(c) ==
    /\ pc[c] = "drop"
    /\ Put(args[c][1], None)
    /\ ThenLog(c, <<DelRec(args[c][1])>>)
    /\ UNCHANGED bounds

-----------------------------------------------------------------------------

\* Mutant of FirstShard: locks in the order of the arguments.
FirstShardUnsorted(f, t) == ShardOf[f]

(***************************************************************************)
(* rename and renamenx.  Two keys of one shard are moved in one section;   *)
(* otherwise with_two_shards_write locks the two shards in the order of    *)
(* their numbers.                                                          *)
(***************************************************************************)
FirstShard(f, t) == IF ShardOf[f] <= ShardOf[t] THEN ShardOf[f] ELSE ShardOf[t]

SecondShard(f, t) == IF FirstShard(f, t) = ShardOf[f] THEN ShardOf[t] ELSE ShardOf[f]

\* Mutant of MoveKey: counts the target even if it had a value.
MoveKeyOvercounts(f, t) ==
    /\ data' = [data EXCEPT ![f] = None, ![t] = data[f]]
    /\ keyCount' = LET less == [keyCount EXCEPT ![ShardOf[f]] = @ - 1]
                   IN  [less EXCEPT ![ShardOf[t]] = @ + 1]

MoveKey(f, t) ==
    /\ data' = [data EXCEPT ![f] = None, ![t] = data[f]]
    /\ keyCount' = LET less == [keyCount EXCEPT ![ShardOf[f]] = @ - 1]
                   IN  IF f = t \/ data[t] = None
                       THEN [less EXCEPT ![ShardOf[t]] = @ + 1] ELSE less

\* The body of the closures: what is moved and where the client goes on.
RenameBody(c, f, t) ==
    IF data[f] = None THEN UNCHANGED store /\ Finish(c)
    ELSE MoveKey(f, t) /\ GoTo(c, "log", <<DelRec(f), SetRec(t, data[f])>>, NoKv, <<>>)

RenamenxBody(c, f, t, next) ==
    IF data[f] = None \/ data[t] # None THEN UNCHANGED store /\ Finish(c)
    ELSE MoveKey(f, t) /\ GoTo(c, next, <<DelRec(f)>>, NoKv, <<f, t>>)

RenameOneShard(c) ==
    \E f, t \in Keys :
        /\ ShardOf[f] = ShardOf[t]
        /\ shardLock[ShardOf[f]] = Free
        /\ \/ Begin(c, "rename") /\ RenameBody(c, f, t)
           \/ Begin(c, "renamenx") /\ RenamenxBody(c, f, t, "nxlog")
        /\ UNCHANGED <<aof, locks>>

LockFirst(c) ==
    \E f, t \in Keys :
        /\ ShardOf[f] # ShardOf[t]
        /\ shardLock[FirstShard(f, t)] = Free
        /\ shardLock' = [shardLock EXCEPT ![FirstShard(f, t)] = c]
        /\ \/ Begin(c, "rename") /\ GoTo(c, "rename2", <<>>, NoKv, <<f, t>>)
           \/ Begin(c, "renamenx") /\ GoTo(c, "renamenx2", <<>>, NoKv, <<f, t>>)
        /\ UNCHANGED <<store, aof, aofLock, poisoned>>

LockSecond(c) ==
    /\ pc[c] \in {"rename2", "renamenx2"}
    /\ LET f == args[c][1]
           t == args[c][2]
       IN  /\ shardLock[SecondShard(f, t)] = Free
           /\ shardLock' = [shardLock EXCEPT ![FirstShard(f, t)] = Free]
           /\ IF pc[c] = "rename2" THEN RenameBody(c, f, t)
              ELSE RenamenxBody(c, f, t, "nxfetch")
    /\ UNCHANGED <<aof, aofLock, poisoned, bounds>>

\* renamenx across shards reads the moved value again before it logs.
NxFetch(c) ==
    /\ pc[c] = "nxfetch"
    /\ LET t == args[c][2]
       IN  /\ shardLock[ShardOf[t]] = Free
           /\ IF data[t] = None THEN Panic(c)
              ELSE GoTo(c, "log", Append(recs[c], SetRec(t, data[t])), NoKv, <<>>)
    /\ UNCHANGED <<store, aof, locks, bounds>>

\* renamenx inside a shard does so while it holds the AofLog mutex.
NxRead(c) ==
    /\ pc[c] = "nxread"
    /\ LET t == args[c][2]
       IN  /\ shardLock[ShardOf[t]] = Free
           /\ \/ data[t] = None /\ Panic(c) /\ poisoned' = TRUE /\ UNCHANGED aof
              \/ /\ data[t] # None
                 /\ \/ aof' \in Appended(aof, SetRec(t, data[t]))
                    \/ IoFaults /\ aof' \in AppendFailed(aof, SetRec(t, data[t]))
                 /\ Finish(c)
                 /\ UNCHANGED poisoned
    /\ aofLock' = Free
    /\ UNCHANGED <<store, shardLock, bounds>>

-----------------------------------------------------------------------------
\* flushdb clears one shard after the other and logs nothing.
Flushdb(c) ==
    /\ Begin(c, "flushdb")
    /\ GoTo(c, "flush", <<>>, NoKv, <<0>>)
    /\ UNCHANGED <<store, aof, locks>>

ClearShard(c) ==
    /\ pc[c] = "flush"
    /\ LET s == args[c][1]
       IN  /\ shardLock[s] = Free
           /\ data' = [k \in Keys |-> IF ShardOf[k] = s THEN None ELSE data[k]]
           /\ keyCount' = [keyCount EXCEPT ![s] = @ - Cardinality(Present(data, s))]
           /\ IF s + 1 \in Shards THEN GoTo(c, "flush", <<>>, NoKv, <<s + 1>>)
              ELSE Finish(c)
    /\ UNCHANGED <<aof, locks, bounds>>

-----------------------------------------------------------------------------
(***************************************************************************)
(* Logging.  A client appends its records one by one and holds the AofLog  *)
(* mutex from the first to the last.                                       *)
(***************************************************************************)
Appending == {"wal", "log", "nxlog"}

Renaming == {"rename2", "renamenx2", "nxlog", "nxfetch", "nxread"}

AppendRec(c) ==
    /\ pc[c] \in Appending
    /\ aofLock \in {Free, c}
    /\ ~ poisoned
    /\ aof' \in Appended(aof, Head(recs[c]))
    /\ LET rest == Tail(recs[c])
           done == rest = <<>> /\ pc[c] # "nxlog"
       IN  /\ aofLock' = IF done THEN Free ELSE c
           /\ IF rest # <<>> THEN GoTo(c, pc[c], rest, kv[c], args[c])
              ELSE CASE pc[c] = "wal" -> GoTo(c, "apply", <<>>, kv[c], <<>>)
                     [] pc[c] = "nxlog" -> GoTo(c, "nxread", <<>>, NoKv, args[c])
                     [] OTHER -> Finish(c)
    /\ UNCHANGED <<store, shardLock, poisoned, bounds>>

\* An append returns an error: the operation ends there.
AppendErr(c) ==
    /\ IoFaults
    /\ pc[c] \in Appending
    /\ aofLock \in {Free, c}
    /\ ~ poisoned
    /\ aof' \in AppendFailed(aof, Head(recs[c]))
    /\ aofLock' = Free
    /\ Finish(c)
    /\ UNCHANGED <<store, shardLock, poisoned, bounds>>

\* lock().unwrap() on a poisoned mutex.
LockPoisoned(c) ==
    /\ pc[c] \in Appending
    /\ poisoned
    /\ Panic(c)
    /\ UNCHANGED <<store, aof, locks, bounds>>

\* The background flusher of SyncPolicy::EverySec.
Flusher ==
    /\ Policy = "EverySec"
    /\ aof' = Flushed(aof)
    /\ UNCHANGED <<store, locks, local, bounds>>

(***************************************************************************)
(* The store is opened on a file: new() replays it.  A crash loses what is *)
(* in memory; an orderly drop flushes the BufWriter first.                 *)
(***************************************************************************)
Open(file) ==
    /\ restarts < MaxRestarts
    /\ restarts' = restarts + 1
    /\ aof' = NewLog(file)
    /\ data' = Replay(file)
    /\ keyCount' = [s \in Shards |-> Cardinality(Present(Replay(file), s))]
    /\ aofLock' = Free
    /\ shardLock' = [s \in Shards |-> Free]
    /\ poisoned' = FALSE
    /\ pc' = [c \in Clients |-> "idle"]
    /\ recs' = [c \in Clients |-> <<>>]
    /\ kv' = [c \in Clients |-> NoKv]
    /\ args' = [c \in Clients |-> <<>>]
    /\ UNCHANGED started

Crash == Open(aof.file)

Quiescent == \A c \in Clients : pc[c] \in {"idle", "panicked"}

Restart == Quiescent /\ Open(Logged(aof))

-----------------------------------------------------------------------------
Step(c) ==
    \/ Apply(c) \/ DropKey(c) \/ LockSecond(c) \/ NxFetch(c) \/ NxRead(c)
    \/ AppendRec(c) \/ AppendErr(c) \/ LockPoisoned(c)
    \/ ClearShard(c)

Call(c) ==
    \/ Set(c) \/ Mset(c) \/ Del(c) \/ Sadd(c) \/ GeoAdd(c) \/ Srem(c) \/ Spop(c)
    \/ RenameOneShard(c) \/ LockFirst(c)
    \/ Flushdb(c)

Next ==
    \/ \E c \in Clients : Call(c) \/ Step(c)
    \/ Flusher
    \/ Crash
    \/ Restart

Spec == Init /\ [][Next]_vars

\* Threads that are in an operation go on.
FairSpec == Spec /\ \A c \in Clients : WF_vars(Step(c))

-----------------------------------------------------------------------------
Rec == [key : Keys, val : Values \cup {None}]

Updates == UNION {[ks -> Values] : ks \in SUBSET Keys}

Labels == Appending \cup Renaming \cup {"idle", "apply", "drop", "flush", "panicked"}

\* What a client at label l has in recs and args.
PlaceOK(l, r, a) ==
    /\ l \in Appending => r # <<>>
    /\ l = "drop" => a \in Keys \X SUBSET Members
    /\ l \in Renaming => a \in Keys \X Keys
    /\ l = "flush" => a \in {<<s>> : s \in Shards}

LocalOK ==
    /\ pc \in [Clients -> Labels]
    /\ recs \in [Clients -> Seq(Rec)]
    /\ kv \in [Clients -> Updates]
    /\ DOMAIN args = Clients
    /\ \A c \in Clients : PlaceOK(pc[c], recs[c], args[c])

\* Index, counters, log, locks and what every thread carries have their types.
TypeOK ==
    /\ data \in [Keys -> Values \cup {None}]
    /\ keyCount \in [Shards -> Int]
    /\ aof \in [file : Seq(Rec), buf : Seq(Rec), pending : Nat]
    /\ aofLock \in Clients \cup {Free}
    /\ shardLock \in [Shards -> Clients \cup {Free}]
    /\ poisoned \in BOOLEAN
    /\ LocalOK

(***************************************************************************)
(* key_count, which dbsize sums, is exact: it changes in the same critical *)
(* section as the shard's map, in every operation and in replay.           *)
(***************************************************************************)
KeyCountExact == \A s \in Shards : keyCount[s] = Cardinality(Present(data, s))

(***************************************************************************)
(* When no operation is under way, replaying the log gives the index back: *)
(* a restart restores all data.                                            *)
(***************************************************************************)
LogMatchesIndex == Quiescent => Replay(Logged(aof)) = data

\* The log with the records client c has still to append, and the index with
\* the updates it has still to apply.
Owed(c) == Logged(aof) \o recs[c]

Due(c) == [k \in Keys |-> IF k \in DOMAIN kv[c] THEN kv[c][k] ELSE data[k]]

LogOwedBy(c) ==
    /\ ~ poisoned /\ pc[c] \notin {"panicked", "flush"}
    /\ pc[c] \notin {"wal", "apply"} => kv[c] = NoKv
    /\ pc[c] \notin Appending \cup {"nxfetch"} => recs[c] = <<>>
    /\ IF pc[c] \in {"nxlog", "nxfetch", "nxread"}
       THEN LET t == args[c][2]
            IN  data[t] # None /\ Replay(Append(Owed(c), SetRec(t, data[t]))) = data
       ELSE Replay(Owed(c)) = Due(c)

(***************************************************************************)
(* The same for one thread in the middle of an operation: the log with the *)
(* records the thread has still to append describes the index with the     *)
(* updates it has still to apply.  Where renamenx has yet to read the      *)
(* value again for its SET record, that value is there.                    *)
(***************************************************************************)
LogOwed == \A c \in Clients : LogOwedBy(c)

(***************************************************************************)
(* SET and MSET log first: whatever threads interleave, however appends    *)
(* fail and whenever the process crashes, a string that a reader can find  *)
(* in the index is in the log.                                             *)
(***************************************************************************)
StringsLoggedFirst ==
    \A k \in Keys : data[k].t = "str" =>
        \E i \in DOMAIN Logged(aof) : Logged(aof)[i].val = data[k]

(***************************************************************************)
(* With SyncPolicy::Always a crash loses fewer than BatchSize records.     *)
(***************************************************************************)
LossWindow == Policy = "Always" => Len(aof.buf) < BatchSize

(***************************************************************************)
(* With SyncPolicy::Always every record is flushed once its command is     *)
(* done (the doc comment of the policy).                                   *)
(***************************************************************************)
FlushedAfterEveryCommand == (Policy = "Always" /\ Quiescent) => aof.buf = <<>>

(***************************************************************************)
(* When only SET and RENAME are used, every DEL is the first half of a     *)
(* RENAME: once the RENAME is done the file does not end with one, so no   *)
(* crash recovers a state in which its value has neither of its names.     *)
(***************************************************************************)
RenameIsAtomicOnDisk ==
    (Quiescent /\ Ops \subseteq {"set", "rename"}) =>
        \A i \in DOMAIN aof.file : aof.file[i].val = None => i < Len(aof.file)

(***************************************************************************)
(* The unwrap() calls of renamenx assert that the key it has just written  *)
(* is there when it is read again for the log.                             *)
(***************************************************************************)
RenamedKeyIsThere == \A c \in Clients : pc[c] # "panicked"

(***************************************************************************)
(* SREM and SPOP take away from the set the members they were asked to     *)
(* take away, and no others.                                               *)
(***************************************************************************)
RemovesOnlyItsMembers ==
    [][\A c \in Clients :
         (pc[c] = "drop" /\ pc'[c] = "log") =>
             data[args[c][1]].t = "set" /\ data[args[c][1]].s \subseteq args[c][2]]_vars

(***************************************************************************)
(* The two shard locks of rename and the AofLog mutex around the shard     *)
(* read of renamenx never make threads wait for each other: an operation   *)
(* that was started comes to an end.                                       *)
(***************************************************************************)
OperationsFinish ==
    \A c \in Clients : pc[c] # "idle" ~> pc[c] \in {"idle", "panicked"}

=============================================================================
