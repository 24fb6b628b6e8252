------------------------ MODULE PersistentStoreProofs ------------------------
(***************************************************************************)
(* Theorems about PersistentStore, for every number of clients, keys and   *)
(* shards, every sync policy and every batch size.                         *)
(***************************************************************************)
EXTENDS PersistentStore, ReplayTheorems, FiniteSetTheorems

(***************************************************************************)
(* A client that goes on at a label has what the label expects.            *)
(***************************************************************************)
LEMMA GoToLocal ==
    ASSUME LocalOK, NEW c \in Clients, NEW l \in Labels, NEW r \in Seq(Rec),
           NEW u \in Updates, NEW a, PlaceOK(l, r, a), GoTo(c, l, r, u, a)
    PROVE  LocalOK'
<1>1. /\ pc' \in [Clients -> Labels] /\ recs' \in [Clients -> Seq(Rec)]
      /\ kv' \in [Clients -> Updates] /\ DOMAIN args' = Clients
  BY DEF LocalOK, GoTo
<1>2. \A d \in Clients : d = c => pc'[d] = l /\ recs'[d] = r /\ args'[d] = a
  BY DEF LocalOK, GoTo
<1>3. \A d \in Clients : d # c => pc'[d] = pc[d] /\ recs'[d] = recs[d] /\ args'[d] = args[d]
  BY DEF LocalOK, GoTo
<1>4. \A d \in Clients : PlaceOK(pc'[d], recs'[d], args'[d])
  <2>1. SUFFICES ASSUME NEW d \in Clients PROVE PlaceOK(pc'[d], recs'[d], args'[d])
    OBVIOUS
  <2>2. CASE d = c
    BY <1>2, <2>2
  <2>3. CASE d # c
    BY <1>3, <2>3 DEF LocalOK
  <2>4. QED
    BY <2>2, <2>3
<1>5. QED
  BY <1>1, <1>4 DEF LocalOK

\* A client with nothing to apply carries the empty update.
LEMMA NoKvIsUpdate == NoKv \in Updates
<1>1. NoKv \in [{} -> Values] /\ {} \in SUBSET Keys
  BY DEF NoKv
<1>2. QED
  BY <1>1 DEF Updates

(***************************************************************************)
(* Ending an operation, in order or by a panic, is well-typed.             *)
(***************************************************************************)
LEMMA EndLocal ==
    ASSUME LocalOK, NEW c \in Clients, Finish(c) \/ Panic(c)
    PROVE  LocalOK'
<1>1. <<>> \in Seq(Rec)
  OBVIOUS
<1>2. \A l \in {"idle", "panicked"} : l \in Labels /\ PlaceOK(l, <<>>, <<>>)
  BY DEF Labels, PlaceOK, Appending, Renaming
<1>3. \E l \in {"idle", "panicked"} : GoTo(c, l, <<>>, NoKv, <<>>)
  BY DEF Finish, Panic
<1>4. PICK l \in {"idle", "panicked"} : GoTo(c, l, <<>>, NoKv, <<>>)
  BY <1>3
<1>5. QED
  BY <1>1, <1>2, <1>4, NoKvIsUpdate, GoToLocal

(***************************************************************************)
(* Types of the pieces an action puts together.                            *)
(***************************************************************************)
LEMMA RecTypes ==
    /\ \A k \in Keys, v \in Values : SetRec(k, v) \in Rec
    /\ \A k \in Keys : DelRec(k) \in Rec
  BY DEF SetRec, DelRec, Rec

\* The keys a shard holds are finitely many, so key_count is a number.
LEMMA PresentFinite ==
    ASSUME NEW d, NEW s
    PROVE  IsFiniteSet(Present(d, s)) /\ Cardinality(Present(d, s)) \in Nat
<1>1. Present(d, s) \subseteq Keys
  BY DEF Present
<1>2. QED
  BY <1>1, KeysAssumption, FS_Subset, FS_CardinalityType

\* What sadd, geo_add, srem and spop read: the contents of a value fit its
\* type tag.
LEMMA ValueTypes ==
    ASSUME NEW v \in Values \cup {None}
    PROVE  /\ v.t \in {"none", "set"} => v.s \subseteq Members
           /\ v.t \in {"none", "geo"} => v.s \subseteq Members \X Positions
<1>1. CASE v = None
  BY <1>1 DEF None
<1>2. CASE \E x \in Strings : v = Str(x)
  BY <1>2 DEF Str
<1>3. CASE \E ms \in SUBSET Members : v = SetOf(ms)
  BY <1>3 DEF SetOf
<1>4. CASE \E ps \in SUBSET (Members \X Positions) : v = GeoOf(ps)
  BY <1>4 DEF GeoOf
<1>5. QED
  BY <1>1, <1>2, <1>3, <1>4 DEF Values

\* What the operations build out of strings, members and positions is a value.
LEMMA ValuesBuilt ==
    /\ \A x \in Strings : Str(x) \in Values
    /\ \A ms \in SUBSET Members : SetOf(ms) \in Values
    /\ \A ps \in SUBSET (Members \X Positions) : GeoOf(ps) \in Values
  BY DEF Values

\* A write section on one key keeps the index and the counters well-typed.
LEMMA PutType ==
    ASSUME TypeOK, NEW k \in Keys, NEW v \in Values \cup {None}, Put(k, v)
    PROVE  data' \in [Keys -> Values \cup {None}] /\ keyCount' \in [Shards -> Int]
<1>1. data' \in [Keys -> Values \cup {None}]
  BY DEF TypeOK, Put
<1>2. ShardOf[k] \in Shards /\ keyCount \in [Shards -> Int]
  BY ShardAssumption DEF TypeOK
<1>3. QED
  BY <1>1, <1>2 DEF Put

\* Going on to the log with records to append is well-typed.
LEMMA ThenLogLocal ==
    ASSUME LocalOK, NEW c \in Clients, NEW r \in Seq(Rec), r # <<>>,
           GoTo(c, "log", r, NoKv, <<>>)
    PROVE  LocalOK'
<1>1. "log" \in Labels /\ PlaceOK("log", r, <<>>)
  BY DEF Labels, PlaceOK, Appending, Renaming
<1>2. QED
  BY <1>1, NoKvIsUpdate, GoToLocal

\* A single record is a sequence of records.
LEMMA OneRec ==
    ASSUME NEW r \in Rec
    PROVE  <<r>> \in Seq(Rec) /\ <<r>> # <<>>
  OBVIOUS

(***************************************************************************)
(* Failing appends are well-typed.                                         *)
(***************************************************************************)
LEMMA AppendFailedType ==
    ASSUME NEW R, NEW l \in LogType(R), NEW r \in R, NEW x \in AppendFailed(l, r)
    PROVE  x \in LogType(R)
<1>1. ASSUME NEW y \in LogType(R), NEW z \in PartFlushed(y) PROVE z \in LogType(R)
  <2>1. y.file \in Seq(R) /\ y.buf \in Seq(R) /\ y.pending \in Nat
    BY DEF LogType
  <2>2. PICK n \in 0 .. Len(y.buf) :
           z = [file |-> y.file \o SubSeq(y.buf, 1, n),
                buf |-> SubSeq(y.buf, n + 1, Len(y.buf)), pending |-> y.pending]
    BY DEF PartFlushed
  <2>3. SubSeq(y.buf, 1, n) \in Seq(R) /\ SubSeq(y.buf, n + 1, Len(y.buf)) \in Seq(R)
    BY <2>1
  <2>4. y.file \o SubSeq(y.buf, 1, n) \in Seq(R)
    BY <2>1, <2>3, ConcatProperties
  <2>5. QED
    BY <2>1, <2>2, <2>3, <2>4 DEF LogType
<1>2. l.pending + 1 \in Nat
  BY DEF LogType
<1>3. ASSUME NEW y \in Buffered(l, r, l.pending + 1) PROVE y \in LogType(R)
  BY <1>2, <1>3, BufferedLogs
<1>4. x \in PartFlushed(l) \/ \E y \in Buffered(l, r, l.pending + 1) : x \in PartFlushed(y)
  BY DEF AppendFailed
<1>5. QED
  BY <1>1, <1>3, <1>4, Zenon

\* The AofLog holds sequences of records.
LEMMA TypeLog == TypeOK => aof \in LogType(Rec)
  BY DEF TypeOK, LogType

\* A store opened on an empty file is well-typed.
LEMMA TypeInit == Init => TypeOK
<1> SUFFICES ASSUME Init PROVE TypeOK
  OBVIOUS
<1>1. <<>> \in Seq(Rec)
  OBVIOUS
<1>2. aof \in [file : Seq(Rec), buf : Seq(Rec), pending : Nat]
  BY <1>1 DEF Init, NewLog
<1>3. LocalOK
  BY <1>1, NoKvIsUpdate DEF Init, LocalOK, Labels, PlaceOK, Appending, Renaming
<1>4. poisoned \in BOOLEAN
  BY DEF Init
<1>5. data \in [Keys -> Values \cup {None}] /\ keyCount \in [Shards -> Int]
  BY DEF Init
<1>6. aofLock \in Clients \cup {Free} /\ shardLock \in [Shards -> Clients \cup {Free}]
  BY DEF Init
<1>7. QED
  BY <1>2, <1>3, <1>4, <1>5, <1>6 DEF TypeOK

(***************************************************************************)
(* The write-ahead operations: the records written are the updates, in     *)
(* some order.                                                             *)
(***************************************************************************)
LEMMA WriteAheadRecs ==
    ASSUME NEW u \in Updates, DOMAIN u # {},
           NEW order \in [1 .. Cardinality(DOMAIN u) -> DOMAIN u]
    PROVE  LET r == [i \in DOMAIN order |-> SetRec(order[i], u[order[i]])]
           IN  r \in Seq(Rec) /\ r # <<>>
<1> DEFINE n == Cardinality(DOMAIN u)
           r == [i \in DOMAIN order |-> SetRec(order[i], u[order[i]])]
<1>1. DOMAIN u \subseteq Keys /\ \A k \in DOMAIN u : u[k] \in Values
  BY DEF Updates
<1>2. n \in Nat /\ n # 0
  <2>1. IsFiniteSet(DOMAIN u)
    BY <1>1, KeysAssumption, FS_Subset
  <2>2. QED
    BY <2>1, FS_CardinalityType, FS_EmptySet
<1>3. DOMAIN order = 1 .. n
  OBVIOUS
<1>4. \A i \in 1 .. n : r[i] \in Rec
  BY <1>1, <1>3, RecTypes
<1> HIDE DEF n
<1>5. r \in [1 .. n -> Rec]
  BY <1>3, <1>4
<1>6. r \in Seq(Rec)
  BY <1>2, <1>5, SeqDef
<1>7. 1 \in DOMAIN r
  BY <1>2, <1>3
<1> HIDE DEF r
<1>8. r # <<>>
  BY <1>7
<1>9. QED
  BY <1>6, <1>8 DEF r

StoreOK == data \in [Keys -> Values \cup {None}] /\ keyCount \in [Shards -> Int]

LocksOK ==
    /\ aofLock \in Clients \cup {Free}
    /\ shardLock \in [Shards -> Clients \cup {Free}]
    /\ poisoned \in BOOLEAN

\* TypeOK in four parts: the index, the log, the locks and the threads.
LEMMA TypeParts ==
    /\ TypeOK <=> StoreOK /\ aof \in LogType(Rec) /\ LocksOK /\ LocalOK
    /\ TypeOK' <=> StoreOK' /\ aof' \in LogType(Rec) /\ LocksOK' /\ LocalOK'
  BY DEF TypeOK, StoreOK, LocksOK, LogType

\* What a thread carries where it renames, where it drops an emptied set and
\* where it clears a shard.
LEMMA Carried ==
    ASSUME TypeOK, NEW c \in Clients
    PROVE  /\ recs[c] \in Seq(Rec)
           /\ pc[c] \in Renaming => args[c][1] \in Keys /\ args[c][2] \in Keys
           /\ pc[c] = "flush" => args[c][1] \in Shards
<1>1. PlaceOK(pc[c], recs[c], args[c]) /\ recs[c] \in Seq(Rec)
  BY TypeParts DEF LocalOK
<1>2. ASSUME pc[c] \in Renaming PROVE args[c][1] \in Keys /\ args[c][2] \in Keys
  <2>1. args[c] \in Keys \X Keys
    BY <1>1, <1>2, Zenon DEF PlaceOK
  <2>2. QED
    BY <2>1
<1>3. ASSUME pc[c] = "flush" PROVE args[c][1] \in Shards
  <2>1. PICK n \in Shards : args[c] = <<n>>
    BY <1>1, <1>3, Zenon DEF PlaceOK
  <2>2. QED
    BY <2>1
<1>4. QED
  BY <1>1, <1>2, <1>3

\* A part that an action leaves alone stays well-typed.
LEMMA SameParts ==
    /\ StoreOK /\ UNCHANGED store => StoreOK'
    /\ LocksOK /\ UNCHANGED locks => LocksOK'
    /\ LocalOK /\ UNCHANGED local => LocalOK'
<1>1. StoreOK /\ UNCHANGED store => StoreOK'
  BY DEF StoreOK, store
<1>2. LocksOK /\ UNCHANGED locks => LocksOK'
  BY DEF LocksOK, locks
<1>3. LocalOK /\ UNCHANGED local => LocalOK'
  BY DEF LocalOK, local
<1>4. QED
  BY <1>1, <1>2, <1>3

\* set and mset log and apply updates of at least one key.
LEMMA WriteAheadUpdates ==
    ASSUME NEW c \in Clients, Set(c) \/ Mset(c)
    PROVE  \E u \in Updates : /\ DOMAIN u \subseteq Keys /\ DOMAIN u # {}
                              /\ \E op : WriteAhead(c, op, u)
<1>1. CASE Set(c)
  <2>1. PICK k \in Keys, v \in Strings : WriteAhead(c, "set", [x \in {k} |-> Str(v)])
    BY <1>1 DEF Set
  <2>2. [x \in {k} |-> Str(v)] \in [{k} -> Values] /\ {k} \in SUBSET Keys
    BY ValuesBuilt
  <2>3. [x \in {k} |-> Str(v)] \in Updates
    BY <2>2 DEF Updates
  <2>4. QED
    BY <2>1, <2>3
<1>2. CASE Mset(c)
  <2>1. PICK ks \in SUBSET Keys, v \in Strings :
           ks # {} /\ WriteAhead(c, "mset", [k \in ks |-> Str(v)])
    BY <1>2 DEF Mset
  <2>2. [k \in ks |-> Str(v)] \in [ks -> Values]
    BY ValuesBuilt
  <2>3. [k \in ks |-> Str(v)] \in Updates
    BY <2>2 DEF Updates
  <2>4. QED
    BY <2>1, <2>3
<1>3. QED
  BY <1>1, <1>2

(***************************************************************************)
(* Every step of a client keeps the types.                                 *)
(***************************************************************************)
LEMMA TypeLogFirst ==
    ASSUME TypeOK, NEW c \in Clients, Set(c) \/ Mset(c)
    PROVE  TypeOK'
<1>1. PICK u \in Updates : /\ DOMAIN u # {}
                           /\ \E op : WriteAhead(c, op, u)
  BY WriteAheadUpdates
<1>2. PICK order \in [1 .. Cardinality(DOMAIN u) -> DOMAIN u] :
         GoTo(c, "wal", [i \in DOMAIN order |-> SetRec(order[i], u[order[i]])], u, <<>>)
  BY <1>1 DEF WriteAhead
<1> DEFINE r == [i \in DOMAIN order |-> SetRec(order[i], u[order[i]])]
<1>3. r \in Seq(Rec) /\ r # <<>>
  BY <1>1, WriteAheadRecs
<1>4. GoTo(c, "wal", r, u, <<>>)
  BY <1>2
<1>5. UNCHANGED <<store, aof, locks>>
  BY <1>1 DEF WriteAhead
<1> HIDE DEF r
<1>6. "wal" \in Labels /\ PlaceOK("wal", r, <<>>)
  BY <1>3 DEF Labels, PlaceOK, Appending, Renaming
<1>7. LocalOK'
  BY <1>3, <1>4, <1>6, TypeParts, GoToLocal
<1>8. QED
  BY <1>5, <1>7, TypeParts, SameParts

\* Applying the updates of one shard keeps the types.
LEMMA TypeApply ==
    ASSUME TypeOK, NEW c \in Clients, Apply(c)
    PROVE  TypeOK'
<1> DEFINE now(s) == {k \in DOMAIN kv[c] : ShardOf[k] = s}
           rest(s) == DOMAIN kv[c] \ now(s)
<1>1. PICK s \in {ShardOf[k] : k \in DOMAIN kv[c]} :
         /\ data' = [k \in Keys |-> IF k \in now(s) THEN kv[c][k] ELSE data[k]]
         /\ keyCount' = [keyCount EXCEPT ![s] =
                @ + Cardinality({k \in now(s) : data[k] = None})]
         /\ IF rest(s) = {} THEN Finish(c)
            ELSE GoTo(c, "apply", <<>>, [k \in rest(s) |-> kv[c][k]], <<>>)
  BY DEF Apply
<1>2. kv[c] \in Updates
  BY TypeParts DEF LocalOK
<1>3. DOMAIN kv[c] \subseteq Keys /\ \A k \in DOMAIN kv[c] : kv[c][k] \in Values
  BY <1>2 DEF Updates
<1>4. data' \in [Keys -> Values \cup {None}]
  BY <1>1, <1>3, TypeParts DEF StoreOK
<1>5. keyCount' \in [Shards -> Int]
  <2>1. {k \in now(s) : data[k] = None} \subseteq Keys
    BY <1>3
  <2>2. Cardinality({k \in now(s) : data[k] = None}) \in Nat
    BY <2>1, KeysAssumption, FS_Subset, FS_CardinalityType
  <2> DEFINE n == Cardinality({k \in now(s) : data[k] = None})
  <2>3. keyCount' = [keyCount EXCEPT ![s] = @ + n]
    BY <1>1
  <2>4. keyCount \in [Shards -> Int] /\ n \in Int
    BY <2>2, TypeParts DEF StoreOK
  <2>5. s \in Shards
    BY <1>1, <1>3, ShardAssumption
  <2> HIDE DEF n
  <2>6. keyCount[s] + n \in Int
    BY <2>4, <2>5
  <2>7. QED
    BY <2>3, <2>4, <2>6
<1>6. LocalOK'
  <2>1. CASE rest(s) = {}
    BY <1>1, <2>1, TypeParts, EndLocal
  <2>2. CASE rest(s) # {}
    <3>1. [k \in rest(s) |-> kv[c][k]] \in [rest(s) -> Values] /\ rest(s) \in SUBSET Keys
      BY <1>3
    <3>2. [k \in rest(s) |-> kv[c][k]] \in Updates
      BY <3>1 DEF Updates
    <3>3. "apply" \in Labels /\ PlaceOK("apply", <<>>, <<>>) /\ <<>> \in Seq(Rec)
      BY DEF Labels, PlaceOK, Appending, Renaming
    <3>4. QED
      BY <1>1, <2>2, <3>2, <3>3, TypeParts, GoToLocal
  <2>3. QED
    BY <2>1, <2>2
<1>7. UNCHANGED <<aof, locks>>
  BY DEF Apply
<1>8. QED
  BY <1>4, <1>5, <1>6, <1>7, TypeParts, SameParts, SMTT(30) DEF StoreOK

\* del, sadd and geo_add keep the types.
LEMMA TypeSetOps ==
    ASSUME TypeOK, NEW c \in Clients, Del(c) \/ Sadd(c) \/ GeoAdd(c)
    PROVE  TypeOK'
<1>1. PICK k \in Keys, v \in Values \cup {None} :
         Put(k, v) /\ ThenLog(c, <<SetRec(k, v)>>)
  <2>1. CASE Del(c)
    <3>1. PICK k \in Keys : Put(k, None) /\ ThenLog(c, <<DelRec(k)>>)
      BY <2>1 DEF Del
    <3>2. QED
      BY <3>1 DEF SetRec, DelRec
  <2>2. CASE Sadd(c)
    <3>1. PICK k \in Keys, ms \in SUBSET Members :
             /\ data[k].t \in {"none", "set"}
             /\ Put(k, SetOf(data[k].s \cup ms))
             /\ ThenLog(c, <<SetRec(k, SetOf(data[k].s \cup ms))>>)
      BY <2>2 DEF Sadd
    <3>2. data[k].s \subseteq Members
      BY <3>1, TypeParts, ValueTypes DEF StoreOK
    <3>3. SetOf(data[k].s \cup ms) \in Values
      BY <3>2, ValuesBuilt
    <3>4. QED
      BY <3>1, <3>3
  <2>3. CASE GeoAdd(c)
    <3>1. PICK k \in Keys, m \in Members, p \in Positions :
             LET v == GeoOf({x \in data[k].s : x[1] # m} \cup {<<m, p>>})
             IN  data[k].t \in {"none", "geo"} /\ Put(k, v) /\ ThenLog(c, <<SetRec(k, v)>>)
      BY <2>3 DEF GeoAdd
    <3>2. data[k].s \subseteq Members \X Positions
      BY <3>1, TypeParts, ValueTypes DEF StoreOK
    <3>3. GeoOf({x \in data[k].s : x[1] # m} \cup {<<m, p>>}) \in Values
      BY <3>2, ValuesBuilt
    <3>4. QED
      BY <3>1, <3>3
  <2>4. QED
    BY <2>1, <2>2, <2>3
<1>2. SetRec(k, v) \in Rec
  BY DEF SetRec, Rec
<1>3. StoreOK'
  BY <1>1, PutType DEF StoreOK
<1>4. LocalOK'
  BY <1>1, <1>2, OneRec, TypeParts, ThenLogLocal DEF ThenLog
<1>5. UNCHANGED <<aof, locks>>
  BY <1>1 DEF ThenLog
<1>6. QED
  BY <1>3, <1>4, <1>5, TypeParts, SameParts

\* The first section of srem and spop keeps the types.
LEMMA TypeRemove ==
    ASSUME TypeOK, NEW c \in Clients, NEW k \in Keys, NEW ms \in SUBSET Members,
           RemoveMembers(c, k, ms)
    PROVE  TypeOK'
<1> DEFINE v == SetOf(data[k].s \ ms)
<1>1. data[k].s \subseteq Members /\ data[k].t = "set"
  BY TypeParts, ValueTypes DEF StoreOK, RemoveMembers
<1>2. v \in Values
  BY <1>1, ValuesBuilt
<1>3. CASE v.s = {}
  <2>1. GoTo(c, "drop", <<>>, NoKv, <<k, ms>>) /\ UNCHANGED <<store, aof, locks>>
    BY <1>3 DEF RemoveMembers
  <2>2. "drop" \in Labels /\ PlaceOK("drop", <<>>, <<k, ms>>) /\ <<>> \in Seq(Rec)
    BY DEF Labels, PlaceOK, Appending, Renaming
  <2>3. LocalOK'
    BY <2>1, <2>2, NoKvIsUpdate, TypeParts, GoToLocal
  <2>4. QED
    BY <2>1, <2>3, TypeParts, SameParts
<1>4. CASE v.s # {}
  <2>1. Put(k, v) /\ ThenLog(c, <<SetRec(k, v)>>)
    BY <1>4 DEF RemoveMembers
  <2> HIDE DEF v
  <2>2. SetRec(k, v) \in Rec
    BY <1>2, RecTypes
  <2>3. StoreOK'
    BY <1>2, <2>1, PutType DEF StoreOK
  <2>4. LocalOK'
    BY <2>1, <2>2, OneRec, TypeParts, ThenLogLocal DEF ThenLog
  <2>5. UNCHANGED <<aof, locks>>
    BY <2>1 DEF ThenLog
  <2>6. QED
    BY <2>3, <2>4, <2>5, TypeParts, SameParts
<1>5. QED
  BY <1>3, <1>4

\* srem, spop and the removal of an empty set keep the types.
LEMMA TypeRemoveOps ==
    ASSUME TypeOK, NEW c \in Clients, Srem(c) \/ Spop(c) \/ DropKey(c)
    PROVE  TypeOK'
<1>1. CASE Srem(c)
  BY <1>1, TypeRemove DEF Srem
<1>2. CASE Spop(c)
  <2>1. PICK k \in Keys : \E ms \in SUBSET data[k].s : RemoveMembers(c, k, ms)
    BY <1>2 DEF Spop
  <2>2. PICK ms \in SUBSET data[k].s : RemoveMembers(c, k, ms)
    BY <2>1
  <2>3. data[k].s \subseteq Members
    BY <2>2, TypeParts, ValueTypes DEF StoreOK, RemoveMembers
  <2>4. QED
    BY <2>2, <2>3, TypeRemove
<1>3. CASE DropKey(c)
  <2>1. args[c][1] \in Keys
    BY <1>3, TypeParts DEF DropKey, LocalOK, PlaceOK
  <2>2. Put(args[c][1], None) /\ ThenLog(c, <<DelRec(args[c][1])>>)
    BY <1>3 DEF DropKey
  <2>3. StoreOK'
    BY <2>1, <2>2, PutType DEF StoreOK
  <2>4. DelRec(args[c][1]) \in Rec
    BY <2>1, RecTypes
  <2>5. LocalOK'
    BY <2>2, <2>4, OneRec, TypeParts, ThenLogLocal DEF ThenLog
  <2>6. UNCHANGED <<aof, locks>>
    BY <2>2 DEF ThenLog
  <2>7. QED
    BY <2>3, <2>5, <2>6, TypeParts, SameParts, SMTT(30)
<1>4. QED
  BY <1>1, <1>2, <1>3

(***************************************************************************)
(* rename and renamenx.                                                    *)
(***************************************************************************)
LEMMA MoveType ==
    ASSUME TypeOK, NEW f \in Keys, NEW t \in Keys, MoveKey(f, t)
    PROVE  StoreOK'
<1>1. data' \in [Keys -> Values \cup {None}]
  BY TypeParts DEF StoreOK, MoveKey
<1>2. ShardOf[f] \in Shards /\ ShardOf[t] \in Shards /\ keyCount \in [Shards -> Int]
  BY ShardAssumption, TypeParts DEF StoreOK
<1> DEFINE less == [keyCount EXCEPT ![ShardOf[f]] = @ - 1]
<1>3. less \in [Shards -> Int]
  BY <1>2
<1>4. keyCount' = less \/ keyCount' = [less EXCEPT ![ShardOf[t]] = @ + 1]
  BY DEF MoveKey
<1> HIDE DEF less
<1>5. QED
  BY <1>1, <1>2, <1>3, <1>4 DEF StoreOK

\* The bodies of rename and renamenx keep the types.
LEMMA RenameBodyType ==
    ASSUME TypeOK, NEW c \in Clients, NEW f \in Keys, NEW t \in Keys,
           \/ RenameBody(c, f, t)
           \/ \E next \in {"nxlog", "nxfetch"} : RenamenxBody(c, f, t, next)
    PROVE  StoreOK' /\ LocalOK'
<1>1. CASE UNCHANGED store /\ Finish(c)
  BY <1>1, EndLocal, TypeParts, SameParts
<1>2. CASE /\ data[f] # None /\ MoveKey(f, t)
           /\ GoTo(c, "log", <<DelRec(f), SetRec(t, data[f])>>, NoKv, <<>>)
  <2>1. data[f] \in Values
    BY <1>2, TypeParts DEF StoreOK
  <2>2. DelRec(f) \in Rec /\ SetRec(t, data[f]) \in Rec
    BY <2>1, RecTypes
  <2>3. <<DelRec(f), SetRec(t, data[f])>> \in Seq(Rec)
        /\ <<DelRec(f), SetRec(t, data[f])>> # <<>>
    BY <2>2
  <2>4. QED
    BY <1>2, <2>3, MoveType, ThenLogLocal, TypeParts
<1>3. CASE \E next \in {"nxlog", "nxfetch"} :
              MoveKey(f, t) /\ GoTo(c, next, <<DelRec(f)>>, NoKv, <<f, t>>)
  <2>1. PICK next \in {"nxlog", "nxfetch"} :
           MoveKey(f, t) /\ GoTo(c, next, <<DelRec(f)>>, NoKv, <<f, t>>)
    BY <1>3
  <2>2. <<DelRec(f)>> \in Seq(Rec) /\ <<DelRec(f)>> # <<>>
    BY RecTypes, OneRec
  <2>3. next \in Labels /\ PlaceOK(next, <<DelRec(f)>>, <<f, t>>)
    BY <2>2 DEF Labels, PlaceOK, Appending, Renaming
  <2>4. QED
    BY <2>1, <2>2, <2>3, NoKvIsUpdate, MoveType, GoToLocal, TypeParts
<1>4. QED
  BY <1>1, <1>2, <1>3 DEF RenameBody, RenamenxBody

\* with_two_shards_write locks shards of the index.
LEMMA ShardOrder ==
    ASSUME NEW f \in Keys, NEW t \in Keys
    PROVE  FirstShard(f, t) \in Shards /\ SecondShard(f, t) \in Shards
  BY ShardAssumption DEF FirstShard, SecondShard

\* rename and renamenx, inside a shard and across two, keep the types.
LEMMA TypeRename ==
    ASSUME TypeOK, NEW c \in Clients, RenameOneShard(c) \/ LockFirst(c) \/ LockSecond(c)
    PROVE  TypeOK'
<1>1. CASE RenameOneShard(c)
  <2>1. PICK f \in Keys, t \in Keys :
           \/ RenameBody(c, f, t)
           \/ RenamenxBody(c, f, t, "nxlog")
    BY <1>1 DEF RenameOneShard
  <2>2. StoreOK' /\ LocalOK'
    BY <2>1, RenameBodyType
  <2>3. UNCHANGED <<aof, locks>>
    BY <1>1 DEF RenameOneShard
  <2>4. QED
    BY <2>2, <2>3, TypeParts, SameParts, SMTT(30)
<1>2. CASE LockFirst(c)
  <2>1. PICK f \in Keys, t \in Keys :
           /\ shardLock' = [shardLock EXCEPT ![FirstShard(f, t)] = c]
           /\ \E l \in {"rename2", "renamenx2"} : GoTo(c, l, <<>>, NoKv, <<f, t>>)
    BY <1>2 DEF LockFirst
  <2>2. PICK l \in {"rename2", "renamenx2"} : GoTo(c, l, <<>>, NoKv, <<f, t>>)
    BY <2>1
  <2>3. l \in Labels /\ PlaceOK(l, <<>>, <<f, t>>) /\ <<>> \in Seq(Rec)
    BY DEF Labels, PlaceOK, Appending, Renaming
  <2>4. LocalOK'
    BY <2>2, <2>3, NoKvIsUpdate, GoToLocal, TypeParts
  <2>5. UNCHANGED <<store, aof, aofLock, poisoned>>
    BY <1>2 DEF LockFirst
  <2>6. LocksOK'
    BY <2>1, <2>5, ShardOrder, TypeParts DEF LocksOK
  <2>7. QED
    BY <2>4, <2>5, <2>6, TypeParts, SameParts
<1>3. CASE LockSecond(c)
  <2> DEFINE f == args[c][1]  t == args[c][2]
  <2>1. f \in Keys /\ t \in Keys
    <3>1. pc[c] \in Renaming
      BY <1>3 DEF LockSecond, Renaming
    <3>2. QED
      BY <3>1, Carried
  <2>2. /\ shardLock' = [shardLock EXCEPT ![FirstShard(f, t)] = Free]
        /\ RenameBody(c, f, t) \/ RenamenxBody(c, f, t, "nxfetch")
        /\ UNCHANGED <<aof, aofLock, poisoned>>
    BY <1>3 DEF LockSecond
  <2> HIDE DEF f, t
  <2>3. StoreOK' /\ LocalOK'
    BY <2>1, <2>2, RenameBodyType
  <2>4. LocksOK'
    BY <2>1, <2>2, ShardOrder, TypeParts DEF LocksOK
  <2>5. QED
    BY <2>2, <2>3, <2>4, TypeParts, SMTT(30)
<1>4. QED
  BY <1>1, <1>2, <1>3

\* The second read of renamenx keeps the types.
LEMMA TypeNx ==
    ASSUME TypeOK, NEW c \in Clients, NxFetch(c) \/ NxRead(c)
    PROVE  TypeOK'
<1> DEFINE t == args[c][2]
<1>1. t \in Keys /\ recs[c] \in Seq(Rec)
  <2>1. pc[c] \in Renaming
    BY DEF NxFetch, NxRead, Renaming
  <2>2. QED
    BY <2>1, Carried
<1>2. data[t] # None => SetRec(t, data[t]) \in Rec
  BY <1>1, TypeParts, RecTypes DEF StoreOK
<1>3. CASE NxFetch(c)
  <2>1. /\ \/ Panic(c)
           \/ data[t] # None /\ GoTo(c, "log", Append(recs[c], SetRec(t, data[t])), NoKv, <<>>)
        /\ UNCHANGED <<store, aof, locks>>
    BY <1>3 DEF NxFetch
  <2> DEFINE r == Append(recs[c], SetRec(t, data[t]))
  <2>2. data[t] # None => r \in Seq(Rec) /\ r # <<>>
    <3> HIDE DEF t
    <3>1. \A q \in Seq(Rec), x \in Rec : Append(q, x) \in Seq(Rec) /\ Append(q, x) # <<>>
      BY AppendProperties
    <3>2. QED
      BY <1>1, <1>2, <3>1
  <2> HIDE DEF t, r
  <2>3. LocalOK'
    BY <2>1, <2>2, ThenLogLocal, EndLocal, TypeParts DEF r
  <2>4. QED
    BY <2>1, <2>3, TypeParts, SameParts, SMTT(30)
<1>4. CASE NxRead(c)
  <2>1. /\ \/ Panic(c) /\ poisoned' = TRUE /\ UNCHANGED aof
           \/ /\ data[t] # None
              /\ \/ aof' \in Appended(aof, SetRec(t, data[t]))
                 \/ aof' \in AppendFailed(aof, SetRec(t, data[t]))
              /\ Finish(c)
              /\ UNCHANGED poisoned
        /\ aofLock' = Free
        /\ UNCHANGED <<store, shardLock>>
    BY <1>4 DEF NxRead
  <2> HIDE DEF t
  <2>2. aof' \in LogType(Rec)
    BY <1>2, <2>1, AppendedLogs, AppendFailedType, TypeLog
  <2>3. LocalOK'
    BY <2>1, EndLocal, TypeParts
  <2>4. poisoned' \in BOOLEAN
    BY <2>1, TypeParts DEF LocksOK
  <2>5. LocksOK'
    BY <2>1, <2>4, TypeParts DEF LocksOK
  <2>6. QED
    BY <2>1, <2>2, <2>3, <2>5, TypeParts, SameParts
<1>5. QED
  BY <1>3, <1>4, SMTT(30)

\* flushdb keeps the types.
LEMMA TypeFlush ==
    ASSUME TypeOK, NEW c \in Clients, Flushdb(c) \/ ClearShard(c)
    PROVE  TypeOK'
<1>0. \A s \in Shards : PlaceOK("flush", <<>>, <<s>>) /\ "flush" \in Labels
  BY DEF Labels, PlaceOK, Appending, Renaming
<1>1. <<>> \in Seq(Rec)
  OBVIOUS
<1>2. CASE Flushdb(c)
  <2>1. 0 \in Shards
    BY ShardAssumption DEF Shards
  <2>2. LocalOK'
    BY <1>0, <1>1, <1>2, <2>1, NoKvIsUpdate, GoToLocal, TypeParts DEF Flushdb
  <2>3. QED
    BY <1>2, <2>2, TypeParts, SameParts DEF Flushdb
<1>3. CASE ClearShard(c)
  <2> DEFINE s == args[c][1]
  <2>1. s \in Shards
    <3>1. pc[c] = "flush"
      BY <1>3 DEF ClearShard
    <3>2. QED
      BY <3>1, Carried
  <2>2. /\ data' = [k \in Keys |-> IF ShardOf[k] = s THEN None ELSE data[k]]
        /\ keyCount' = [keyCount EXCEPT ![s] = @ - Cardinality(Present(data, s))]
        /\ \/ s + 1 \in Shards /\ GoTo(c, "flush", <<>>, NoKv, <<s + 1>>)
           \/ Finish(c)
        /\ UNCHANGED <<aof, locks>>
    BY <1>3, SMTT(30) DEF ClearShard
  <2> HIDE DEF s
  <2>3. LocalOK'
    BY <1>0, <1>1, <2>2, NoKvIsUpdate, GoToLocal, EndLocal, TypeParts
  <2>4. data' \in [Keys -> Values \cup {None}]
    BY <2>2, TypeParts DEF StoreOK
  <2>5. keyCount \in [Shards -> Int] /\ Cardinality(Present(data, s)) \in Nat
    BY TypeParts, PresentFinite DEF StoreOK
  <2>6. keyCount[s] - Cardinality(Present(data, s)) \in Int
    BY <2>1, <2>5
  <2>7. keyCount' \in [Shards -> Int]
    BY <2>2, <2>5, <2>6
  <2>8. QED
    BY <2>2, <2>3, <2>4, <2>7, TypeParts, SameParts DEF StoreOK
<1>4. QED
  BY <1>2, <1>3

(***************************************************************************)
(* An append takes the first record and goes on where the label says.      *)
(***************************************************************************)
LEMMA TypeAppendRec ==
    ASSUME TypeOK, NEW c \in Clients, AppendRec(c)
    PROVE  TypeOK'
<1>1. /\ pc[c] \in Appending /\ recs[c] \in Seq(Rec) /\ recs[c] # <<>>
      /\ kv[c] \in Updates /\ PlaceOK(pc[c], recs[c], args[c]) /\ pc[c] \in Labels
  BY TypeParts DEF AppendRec, LocalOK, PlaceOK
<1> DEFINE rest == Tail(recs[c])
<1>2. Head(recs[c]) \in Rec /\ rest \in Seq(Rec)
  BY <1>1, HeadTailProperties
<1>3. /\ aof' \in Appended(aof, Head(recs[c]))
      /\ aofLock' \in {Free, c}
      /\ \/ rest # <<>> /\ GoTo(c, pc[c], rest, kv[c], args[c])
         \/ GoTo(c, "apply", <<>>, kv[c], <<>>)
         \/ pc[c] = "nxlog" /\ GoTo(c, "nxread", <<>>, NoKv, args[c])
         \/ Finish(c)
      /\ UNCHANGED <<store, shardLock, poisoned>>
  BY <1>1 DEF AppendRec, Appending
<1>4. aof' \in LogType(Rec)
  BY <1>2, <1>3, AppendedLogs, TypeLog
<1> HIDE DEF rest
<1>5. LocalOK'
  <2>1. <<>> \in Seq(Rec)
    OBVIOUS
  <2>2. rest # <<>> => PlaceOK(pc[c], rest, args[c])
    BY <1>1 DEF PlaceOK
  <2>3. "apply" \in Labels /\ PlaceOK("apply", <<>>, <<>>)
    BY DEF Labels, PlaceOK, Appending, Renaming
  <2>4. pc[c] = "nxlog" => "nxread" \in Labels /\ PlaceOK("nxread", <<>>, args[c])
    BY <1>1 DEF Labels, PlaceOK, Appending, Renaming
  <2>5. CASE rest # <<>> /\ GoTo(c, pc[c], rest, kv[c], args[c])
    BY <1>1, <1>2, <2>2, <2>5, GoToLocal, TypeParts, SMTT(30)
  <2>6. CASE GoTo(c, "apply", <<>>, kv[c], <<>>)
    BY <1>1, <2>1, <2>3, <2>6, GoToLocal, TypeParts
  <2>7. CASE pc[c] = "nxlog" /\ GoTo(c, "nxread", <<>>, NoKv, args[c])
    BY <2>1, <2>4, <2>7, NoKvIsUpdate, GoToLocal, TypeParts
  <2>8. QED
    BY <1>3, <2>5, <2>6, <2>7, EndLocal, TypeParts
<1>6. LocksOK'
  BY <1>3, TypeParts DEF LocksOK
<1>7. QED
  BY <1>3, <1>4, <1>5, <1>6, TypeParts, SameParts

\* A failed append and a poisoned mutex keep the types.
LEMMA TypeAppendErr ==
    ASSUME TypeOK, NEW c \in Clients, AppendErr(c) \/ LockPoisoned(c)
    PROVE  TypeOK'
<1>1. CASE AppendErr(c)
  <2>1. recs[c] \in Seq(Rec) /\ recs[c] # <<>>
    BY <1>1, TypeParts DEF AppendErr, LocalOK, PlaceOK
  <2>2. Head(recs[c]) \in Rec
    BY <2>1, HeadTailProperties
  <2>3. aof' \in LogType(Rec)
    BY <1>1, <2>2, AppendFailedType, TypeLog DEF AppendErr
  <2>4. LocksOK'
    BY <1>1, TypeParts DEF AppendErr, LocksOK
  <2>5. QED
    BY <1>1, <2>3, <2>4, EndLocal, TypeParts, SameParts, SMTT(30) DEF AppendErr
<1>2. CASE LockPoisoned(c)
  BY <1>2, EndLocal, TypeParts, SameParts DEF LockPoisoned
<1>3. QED
  BY <1>1, <1>2

(***************************************************************************)
(* Opening the store on a file of records, after a crash or in order.      *)
(***************************************************************************)
LEMMA TypeOpen ==
    ASSUME TypeOK, NEW file \in Seq(Rec), Open(file)
    PROVE  TypeOK'
<1>1. <<>> \in Seq(Rec)
  OBVIOUS
<1>2. aof' \in LogType(Rec)
  BY <1>1 DEF Open, NewLog, LogType
<1>3. Replay(file) \in [Keys -> (Values \cup {None}) \cup {None}]
  BY ReplayType DEF Rec
<1>4. StoreOK'
  BY <1>3, PresentFinite DEF Open, StoreOK
<1>5. LocalOK'
  BY <1>1, NoKvIsUpdate DEF Open, LocalOK, Labels, PlaceOK, Appending, Renaming
<1>6. poisoned' \in BOOLEAN
  BY DEF Open
<1>7. LocksOK'
  BY <1>6 DEF Open, LocksOK
<1>8. QED
  BY <1>2, <1>4, <1>5, <1>7, TypeParts

(***************************************************************************)
(* What the two ways of opening the store replay is a sequence of records. *)
(***************************************************************************)
LEMMA OpenedFiles ==
    ASSUME TypeOK, Crash \/ Restart
    PROVE  \E file \in Seq(Rec) : Open(file) /\ file \in {aof.file, Logged(aof)}
<1>1. aof.file \in Seq(Rec) /\ aof.buf \in Seq(Rec)
  BY TypeLog DEF LogType
<1>2. Logged(aof) \in Seq(Rec)
  BY <1>1, ConcatProperties DEF Logged
<1>3. QED
  BY <1>1, <1>2 DEF Crash, Restart

\* Every step keeps the types.
LEMMA TypeStep == TypeOK /\ [Next]_vars => TypeOK'
<1> SUFFICES ASSUME TypeOK, [Next]_vars PROVE TypeOK'
  OBVIOUS
<1>1. ASSUME NEW c \in Clients, Call(c) PROVE TypeOK'
  BY <1>1, TypeLogFirst, TypeSetOps, TypeRemoveOps, TypeRename, TypeFlush DEF Call
<1>2. ASSUME NEW c \in Clients, Step(c) PROVE TypeOK'
  BY <1>2, TypeApply, TypeRemoveOps, TypeRename, TypeNx, TypeFlush, TypeAppendRec,
     TypeAppendErr DEF Step
<1>3. CASE Flusher
  BY <1>3, FlushedLogs, TypeLog, TypeParts, SameParts DEF Flusher
<1>4. CASE Crash \/ Restart
  BY <1>4, OpenedFiles, TypeOpen
<1>5. CASE UNCHANGED vars
  BY <1>5, TypeParts, SameParts DEF vars
<1>6. QED
  BY <1>1, <1>2, <1>3, <1>4, <1>5 DEF Next

(***************************************************************************)
(* Every state the store reaches is well-typed: values, records, locks and *)
(* what each thread carries from one critical section to the next.         *)
(***************************************************************************)
THEOREM TypeCorrect == Spec => []TypeOK
  BY TypeInit, TypeStep, PTL DEF Spec

-----------------------------------------------------------------------------
(***************************************************************************)
(* key_count is exact.                                                     *)
(***************************************************************************)
\* No value is None: a key with a value is present.
LEMMA NoneIsNoValue == None \notin Values
  BY DEF None, Values, Str, SetOf, GeoOf

\* How the number of present keys of shard s changes when key k changes.
Delta(d, e, k, s) ==
    IF ShardOf[k] # s THEN 0
    ELSE IF d[k] = None /\ e[k] # None THEN 1
    ELSE IF d[k] # None /\ e[k] = None THEN -1 ELSE 0

\* A change of one key changes the number of present keys by Delta.
LEMMA CountOneKey ==
    ASSUME NEW d, NEW e, NEW k \in Keys, \A x \in Keys : x # k => e[x] = d[x], NEW s
    PROVE  Cardinality(Present(e, s)) = Cardinality(Present(d, s)) + Delta(d, e, k, s)
<1>1. CASE ShardOf[k] # s \/ (d[k] = None <=> e[k] = None)
  <2>1. Present(e, s) = Present(d, s)
    BY <1>1 DEF Present
  <2>2. QED
    BY <1>1, <2>1, PresentFinite DEF Delta
<1>2. CASE ShardOf[k] = s /\ d[k] = None /\ e[k] # None
  <2>1. Present(e, s) = Present(d, s) \cup {k} /\ k \notin Present(d, s)
    BY <1>2 DEF Present
  <2>2. QED
    BY <1>2, <2>1, PresentFinite, FS_AddElement DEF Delta
<1>3. CASE ShardOf[k] = s /\ d[k] # None /\ e[k] = None
  <2>1. Present(e, s) = Present(d, s) \ {k} /\ k \in Present(d, s)
    BY <1>3 DEF Present
  <2>2. QED
    BY <1>3, <2>1, PresentFinite, FS_RemoveElement DEF Delta
<1>4. QED
  BY <1>1, <1>2, <1>3

\* A write section on one key counts it.
LEMMA CountPut ==
    ASSUME TypeOK, KeyCountExact, NEW k \in Keys, NEW v, Put(k, v)
    PROVE  KeyCountExact'
<1>1. SUFFICES ASSUME NEW s \in Shards
               PROVE  keyCount'[s] = Cardinality(Present(data', s))
  BY DEF KeyCountExact
<1>2. /\ data \in [Keys -> Values \cup {None}] /\ keyCount \in [Shards -> Int]
      /\ keyCount[s] = Cardinality(Present(data, s)) /\ ShardOf[k] \in Shards
  BY ShardAssumption DEF TypeOK, KeyCountExact
<1>3. data'[k] = v /\ \A x \in Keys : x # k => data'[x] = data[x]
  BY <1>2 DEF Put
<1>4. keyCount'[s] = IF s # ShardOf[k] THEN keyCount[s]
                     ELSE IF data[k] = None /\ v # None THEN keyCount[s] + 1
                     ELSE IF data[k] # None /\ v = None THEN keyCount[s] - 1
                     ELSE keyCount[s]
  BY <1>2 DEF Put
<1> DEFINE d == data  e == data'
<1>5. \A x \in Keys : x # k => e[x] = d[x]
  BY <1>3
<1> HIDE DEF d, e
<1>6. Cardinality(Present(e, s)) = Cardinality(Present(d, s)) + Delta(d, e, k, s)
  BY <1>5, CountOneKey
<1>7. QED
  BY <1>2, <1>3, <1>4, <1>6 DEF d, e, Delta

\* Moving a value counts the key it leaves and the key it goes to.
LEMMA CountMove ==
    ASSUME TypeOK, KeyCountExact, NEW f \in Keys, NEW t \in Keys,
           data[f] # None, MoveKey(f, t)
    PROVE  KeyCountExact'
<1>1. SUFFICES ASSUME NEW s \in Shards
               PROVE  keyCount'[s] = Cardinality(Present(data', s))
  BY DEF KeyCountExact
<1> DEFINE mid == [data EXCEPT ![f] = None]
           less == [keyCount EXCEPT ![ShardOf[f]] = @ - 1]
<1>2. /\ data \in [Keys -> Values \cup {None}] /\ keyCount \in [Shards -> Int]
      /\ keyCount[s] = Cardinality(Present(data, s))
      /\ ShardOf[f] \in Shards /\ ShardOf[t] \in Shards
  BY ShardAssumption DEF TypeOK, KeyCountExact
<1>3. /\ mid[f] = None /\ \A x \in Keys : x # f => mid[x] = data[x]
      /\ data'[t] = data[f] /\ \A x \in Keys : x # t => data'[x] = mid[x]
      /\ mid[t] = None <=> (f = t \/ data[t] = None)
  BY <1>2 DEF MoveKey
<1>4. /\ less \in [Shards -> Int]
      /\ less[s] = IF s = ShardOf[f] THEN keyCount[s] - 1 ELSE keyCount[s]
  BY <1>2
<1>5. keyCount'[s] = IF (f = t \/ data[t] = None) /\ s = ShardOf[t] THEN less[s] + 1
                     ELSE less[s]
  <2>1. keyCount' = IF f = t \/ data[t] = None
                    THEN [less EXCEPT ![ShardOf[t]] = @ + 1] ELSE less
    BY DEF MoveKey
  <2> HIDE DEF less
  <2>2. QED
    BY <1>2, <1>4, <2>1
<1> DEFINE d == data  e == data'
<1>6. (\A x \in Keys : x # f => mid[x] = d[x]) /\ (\A x \in Keys : x # t => e[x] = mid[x])
  BY <1>3
<1> HIDE DEF mid, less, d, e
<1>7. Cardinality(Present(mid, s)) = Cardinality(Present(d, s)) + Delta(d, mid, f, s)
  BY <1>6, CountOneKey
<1>8. Cardinality(Present(e, s)) = Cardinality(Present(mid, s)) + Delta(mid, e, t, s)
  BY <1>6, CountOneKey, SMTT(30)
<1>9. less[s] = Cardinality(Present(mid, s))
  BY <1>2, <1>3, <1>4, <1>7 DEF d, Delta
<1>10. QED
  BY <1>3, <1>5, <1>8, <1>9, PresentFinite DEF e, Delta

\* Steps that leave the index alone leave the counters exact.
LEMMA CountSame == KeyCountExact /\ UNCHANGED store => KeyCountExact'
  BY SMTT(30) DEF KeyCountExact, store

\* An mset section counts the keys it adds to its shard.
LEMMA CountApply ==
    ASSUME TypeOK, KeyCountExact, NEW c \in Clients, Apply(c)
    PROVE  KeyCountExact'
<1>1. /\ kv[c] \in Updates /\ data \in [Keys -> Values \cup {None}]
      /\ keyCount \in [Shards -> Int]
  BY TypeParts DEF LocalOK, StoreOK
<1>2. DOMAIN kv[c] \subseteq Keys /\ \A k \in DOMAIN kv[c] : kv[c][k] # None
  BY <1>1, NoneIsNoValue, SMTT(30) DEF Updates
<1>3. PICK s \in {ShardOf[k] : k \in DOMAIN kv[c]} :
         LET now == {k \in DOMAIN kv[c] : ShardOf[k] = s}
         IN  /\ data' = [k \in Keys |-> IF k \in now THEN kv[c][k] ELSE data[k]]
             /\ keyCount' = [keyCount EXCEPT ![s] =
                    @ + Cardinality({k \in now : data[k] = None})]
  BY Zenon DEF Apply
<1> DEFINE now == {k \in DOMAIN kv[c] : ShardOf[k] = s}
           new == {k \in now : data[k] = None}
           d == data
           e == data'
<1>4. s \in Shards
  BY <1>2, <1>3, ShardAssumption
<1>5. Present(e, s) = Present(d, s) \cup new /\ Present(d, s) \cap new = {}
  BY <1>2, <1>3 DEF Present
<1>6. \A x \in Shards : x # s => Present(e, x) = Present(d, x)
  BY <1>2, <1>3 DEF Present
<1>7. IsFiniteSet(new)
  BY <1>2, KeysAssumption, FS_Subset
<1>8. keyCount' = [keyCount EXCEPT ![s] = @ + Cardinality(new)]
  BY <1>3, SMTT(30)
<1>9. \A x \in Shards : keyCount[x] = Cardinality(Present(d, x))
  BY SMTT(30) DEF KeyCountExact
<1> HIDE DEF new, d, e, now
<1>10. /\ Cardinality(new) \in Nat /\ Cardinality(Present(d, s)) \in Nat
       /\ Cardinality({}) = 0
       /\ Cardinality(Present(e, s)) = Cardinality(Present(d, s)) + Cardinality(new)
                                         - Cardinality({})
  BY <1>5, <1>7, PresentFinite, FS_Union, FS_CardinalityType, FS_EmptySet, SMTT(30)
<1>11. keyCount'[s] = Cardinality(Present(e, s))
  <2>1. keyCount'[s] = keyCount[s] + Cardinality(new)
    BY <1>1, <1>4, <1>8, SMTT(30)
  <2>2. keyCount[s] = Cardinality(Present(d, s))
    BY <1>4, <1>9, Zenon
  <2>3. QED
    BY <1>10, <2>1, <2>2, SMTT(30)
<1>12. \A x \in Shards : x # s => keyCount'[x] = Cardinality(Present(e, x))
  BY <1>1, <1>6, <1>8, <1>9
<1>13. QED
  BY <1>11, <1>12, SMTT(30) DEF KeyCountExact, e

\* A cleared shard has no keys and counts none.
LEMMA CountClear ==
    ASSUME TypeOK, KeyCountExact, NEW c \in Clients, ClearShard(c)
    PROVE  KeyCountExact'
<1> DEFINE s == args[c][1]
           d == data
           e == data'
<1>1. s \in Shards /\ keyCount \in [Shards -> Int]
  <2>1. pc[c] = "flush"
    BY DEF ClearShard
  <2>2. keyCount \in [Shards -> Int]
    BY TypeParts DEF StoreOK
  <2>3. QED
    BY <2>1, <2>2, Carried
<1>2. /\ e = [k \in Keys |-> IF ShardOf[k] = s THEN None ELSE data[k]]
      /\ keyCount' = [keyCount EXCEPT ![s] = @ - Cardinality(Present(d, s))]
  BY DEF ClearShard
<1> HIDE DEF s, e
<1>3. Present(e, s) = {} /\ \A x \in Shards : x # s => Present(e, x) = Present(d, x)
  BY <1>2 DEF Present
<1>4. \A x \in Shards : keyCount[x] = Cardinality(Present(d, x))
  BY DEF KeyCountExact
<1> HIDE DEF d
<1>5. keyCount'[s] = Cardinality(Present(e, s))
  <2>1. keyCount'[s] = keyCount[s] - Cardinality(Present(d, s))
    BY <1>1, <1>2, SMTT(30)
  <2>2. keyCount[s] = Cardinality(Present(d, s))
    BY <1>1, <1>4, Zenon
  <2>3. Cardinality(Present(d, s)) \in Nat
    BY PresentFinite, Zenon
  <2>4. Cardinality(Present(e, s)) = 0
    BY <1>3, FS_EmptySet, Zenon
  <2>5. QED
    BY <2>1, <2>2, <2>3, <2>4, SMTT(30)
<1>6. \A x \in Shards : x # s => keyCount'[x] = Cardinality(Present(e, x))
  BY <1>1, <1>2, <1>3, <1>4
<1>7. QED
  BY <1>5, <1>6, SMTT(30) DEF KeyCountExact, e

\* The operations on one key.
LEMMA CountOneKeyOps ==
    ASSUME TypeOK, KeyCountExact, NEW c \in Clients,
           Del(c) \/ Sadd(c) \/ GeoAdd(c) \/ Srem(c) \/ Spop(c) \/ DropKey(c)
    PROVE  KeyCountExact'
<1>1. \/ \E k \in Keys : \E v : Put(k, v)
      \/ UNCHANGED store
  <2>1. ASSUME NEW k \in Keys, NEW ms, RemoveMembers(c, k, ms)
        PROVE  (\E v : Put(k, v)) \/ UNCHANGED store
    BY <2>1, SMTT(30) DEF RemoveMembers
  <2>2. CASE Srem(c) \/ Spop(c)
    BY <2>1, <2>2, SMTT(30) DEF Srem, Spop
  <2>3. CASE DropKey(c)
    BY <2>3, TypeParts DEF DropKey, LocalOK, PlaceOK
  <2>4. QED
    BY <2>2, <2>3, ZenonT(30) DEF Del, Sadd, GeoAdd
<1>2. QED
  BY <1>1, CountPut, CountSame, SMTT(30)

\* rename and renamenx.
LEMMA CountRename ==
    ASSUME TypeOK, KeyCountExact, NEW c \in Clients, RenameOneShard(c) \/ LockSecond(c)
    PROVE  KeyCountExact'
<1>1. ASSUME NEW f \in Keys, NEW t \in Keys,
             RenameBody(c, f, t) \/ \E next : RenamenxBody(c, f, t, next)
      PROVE  KeyCountExact'
  BY <1>1, CountMove, CountSame, SMTT(30) DEF RenameBody, RenamenxBody
<1>2. CASE RenameOneShard(c)
  BY <1>1, <1>2 DEF RenameOneShard
<1>3. CASE LockSecond(c)
  <2> DEFINE f == args[c][1]  t == args[c][2]
  <2>1. f \in Keys /\ t \in Keys
    <3>1. pc[c] \in Renaming
      BY <1>3 DEF LockSecond, Renaming
    <3>2. QED
      BY <3>1, Carried
  <2>2. RenameBody(c, f, t) \/ RenamenxBody(c, f, t, "nxfetch")
    BY <1>3 DEF LockSecond
  <2> HIDE DEF f, t
  <2>3. QED
    BY <1>1, <2>1, <2>2, SMTT(30)
<1>4. QED
  BY <1>2, <1>3

\* Every step keeps the counters exact.
LEMMA CountStep == TypeOK /\ KeyCountExact /\ [Next]_vars => KeyCountExact'
<1> SUFFICES ASSUME TypeOK, KeyCountExact, [Next]_vars PROVE KeyCountExact'
  OBVIOUS
<1>1. ASSUME NEW c \in Clients, Call(c) PROVE KeyCountExact'
  <2>1. CASE Set(c) \/ Mset(c) \/ LockFirst(c) \/ Flushdb(c)
    BY <2>1, CountSame DEF Set, Mset, WriteAhead, LockFirst, Flushdb
  <2>2. QED
    BY <1>1, <2>1, CountOneKeyOps, CountRename, SMTT(30) DEF Call
<1>2. ASSUME NEW c \in Clients, Step(c) PROVE KeyCountExact'
  <2>1. CASE NxFetch(c) \/ NxRead(c) \/ AppendRec(c) \/ AppendErr(c) \/ LockPoisoned(c)
    BY <2>1, CountSame DEF NxFetch, NxRead, AppendRec, AppendErr, LockPoisoned
  <2>2. QED
    BY <1>2, <2>1, CountApply, CountOneKeyOps, CountRename, CountClear DEF Step
<1>3. CASE Flusher \/ UNCHANGED vars
  BY <1>3, CountSame DEF Flusher, vars
<1>4. CASE Crash \/ Restart
  BY <1>4 DEF Crash, Restart, Open, KeyCountExact
<1>5. QED
  BY <1>1, <1>2, <1>3, <1>4 DEF Next

(***************************************************************************)
(* dbsize is exact at every instant, for any number of threads: key_count  *)
(* is the number of keys of the shard after every critical section of      *)
(* every operation and after every restart.                                *)
(***************************************************************************)
THEOREM KeyCountCorrect == Spec => []KeyCountExact
<1>1. Init => KeyCountExact
  <2>1. ASSUME Init, NEW s \in Shards PROVE keyCount[s] = 0 /\ Present(data, s) = {}
    BY <2>1 DEF Init, Present
  <2>2. QED
    BY <2>1, FS_EmptySet DEF KeyCountExact
<1>2. QED
  BY <1>1, TypeCorrect, CountStep, PTL DEF Spec

-----------------------------------------------------------------------------
(***************************************************************************)
(* With SyncPolicy::Always the buffer never holds more records than        *)
(* pending_ops says, and that stays below batch_size.                      *)
(***************************************************************************)
LossInv == Policy = "Always" => Len(aof.buf) <= aof.pending /\ aof.pending < BatchSize

\* An append that succeeds keeps within the batch, whether or not the
\* BufWriter was full.
LEMMA AppendedBound ==
    ASSUME NEW R, NEW l \in LogType(R), NEW r, NEW x \in Appended(l, r),
           Policy = "Always", Len(l.buf) <= l.pending, l.pending < BatchSize
    PROVE  Len(x.buf) <= x.pending /\ x.pending < BatchSize
<1>1. l.buf \in Seq(R) /\ l.pending \in Nat /\ BatchSize \in Nat \ {0}
  BY BatchSizeAssumption DEF LogType
<1>2. l.buf \in Seq(R \cup {r}) /\ <<>> \in Seq(R \cup {r})
  BY <1>1
<1>3. Len(Append(l.buf, r)) = Len(l.buf) + 1 /\ Len(Append(<<>>, r)) = 1
  BY <1>2, AppendProperties
<1>4. Len(l.buf) \in Nat
  BY <1>1
<1>5. CASE l.pending + 1 < BatchSize
  <2>1. x \in Buffered(l, r, l.pending + 1)
    BY <1>5 DEF Appended
  <2>2. x.pending = l.pending + 1 /\ (x.buf = Append(l.buf, r) \/ x.buf = Append(<<>>, r))
    BY <2>1 DEF Buffered, Flushed
  <2>3. Len(x.buf) = Len(l.buf) + 1 \/ Len(x.buf) = 1
    BY <1>3, <2>2, Zenon
  <2>4. ASSUME NEW n \in Nat, NEW q \in Nat, NEW m, NEW w, n <= q, w = q + 1, m = n + 1 \/ m = 1
        PROVE  m <= w
    BY <2>4
  <2>5. Len(x.buf) <= x.pending
    BY <1>1, <1>4, <2>2, <2>3, <2>4, Zenon
  <2>6. QED
    BY <1>5, <2>2, <2>5, Zenon
<1>6. CASE ~ (l.pending + 1 < BatchSize)
  <2>1. PICK y \in Buffered(l, r, 0) : x = Flushed(y)
    BY <1>6 DEF Appended
  <2>2. x.buf = <<>> /\ x.pending = 0
    BY <2>1 DEF Buffered, Flushed
  <2>3. QED
    BY <1>1, <2>2
<1>7. QED
  BY <1>5, <1>6

\* The calls, and the steps outside the logging part, leave the log alone.
LEMMA LogUntouched ==
    ASSUME NEW c \in Clients,
           \/ Call(c) \/ Apply(c) \/ DropKey(c) \/ LockSecond(c) \/ NxFetch(c)
           \/ LockPoisoned(c) \/ ClearShard(c)
    PROVE  aof' = aof
<1>1. CASE Set(c) \/ Mset(c) \/ Flushdb(c)
  BY <1>1 DEF Set, Mset, WriteAhead, Flushdb
<1>2. CASE Del(c) \/ Sadd(c) \/ GeoAdd(c) \/ DropKey(c)
  BY <1>2 DEF Del, Sadd, GeoAdd, DropKey, ThenLog
<1>3. CASE Srem(c) \/ Spop(c)
  <2>1. ASSUME NEW k, NEW ms, RemoveMembers(c, k, ms) PROVE aof' = aof
    BY <2>1 DEF RemoveMembers, ThenLog
  <2>2. QED
    BY <1>3, <2>1 DEF Srem, Spop
<1>4. CASE RenameOneShard(c) \/ LockFirst(c) \/ LockSecond(c)
  BY <1>4 DEF RenameOneShard, LockFirst, LockSecond
<1>5. CASE Apply(c) \/ NxFetch(c) \/ LockPoisoned(c) \/ ClearShard(c)
  BY <1>5 DEF Apply, NxFetch, LockPoisoned, ClearShard
<1>6. QED
  BY <1>1, <1>2, <1>3, <1>4, <1>5 DEF Call

\* Every step keeps within the batch.
LEMMA LossStep ==
    ASSUME ~ IoFaults, TypeOK, LossInv, [Next]_vars
    PROVE  LossInv'
<1> SUFFICES ASSUME Policy = "Always"
             PROVE  Len(aof'.buf) <= aof'.pending /\ aof'.pending < BatchSize
  BY DEF LossInv
<1>1. aof \in LogType(Rec) /\ Len(aof.buf) <= aof.pending /\ aof.pending < BatchSize
  BY TypeLog DEF LossInv
<1>2. CASE aof' = aof
  BY <1>1, <1>2
<1>3. ASSUME NEW c \in Clients, AppendRec(c) \/ NxRead(c)
      PROVE  aof' = aof \/ \E r : aof' \in Appended(aof, r)
  BY <1>3 DEF AppendRec, NxRead
<1>4. ASSUME NEW r, aof' \in Appended(aof, r)
      PROVE  Len(aof'.buf) <= aof'.pending /\ aof'.pending < BatchSize
  BY <1>1, <1>4, AppendedBound
<1>5. ASSUME NEW file, Open(file)
      PROVE  Len(aof'.buf) <= aof'.pending /\ aof'.pending < BatchSize
  BY <1>5, BatchSizeAssumption DEF Open, NewLog
<1>6. CASE UNCHANGED vars
  BY <1>2, <1>6 DEF vars
<1>7. ASSUME NEW c \in Clients, Call(c) \/ Step(c)
      PROVE  Len(aof'.buf) <= aof'.pending /\ aof'.pending < BatchSize
  <2>1. ~ AppendErr(c)
    BY DEF AppendErr
  <2>2. QED
    BY <1>2, <1>3, <1>4, <1>7, <2>1, LogUntouched DEF Step
<1>8. CASE Flusher
  BY <1>8 DEF Flusher
<1>9. QED
  BY <1>5, <1>6, <1>7, <1>8 DEF Next, Crash, Restart

(***************************************************************************)
(* With SyncPolicy::Always and no failing append a crash loses fewer than  *)
(* BatchSize records, however many threads append and whenever the         *)
(* BufWriter writes out by itself.                                         *)
(***************************************************************************)
THEOREM LossIsBounded ==
    ASSUME ~ IoFaults
    PROVE  Spec => []LossWindow
<1>1. Init => LossInv
  BY BatchSizeAssumption DEF Init, NewLog, LossInv
<1>2. TypeOK /\ LossInv => LossWindow
  <2> SUFFICES ASSUME TypeOK, LossInv, Policy = "Always" PROVE Len(aof.buf) < BatchSize
    BY DEF LossWindow
  <2>1. aof.buf \in Seq(Rec) /\ aof.pending \in Nat
    BY TypeLog DEF LogType
  <2>2. QED
    BY <2>1, BatchSizeAssumption DEF LossInv
<1>3. QED
  BY <1>1, <1>2, TypeCorrect, LossStep, PTL DEF Spec

=============================================================================
