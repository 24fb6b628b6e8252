------------------------- MODULE PersistentLogProofs -------------------------
(***************************************************************************)
(* With one client thread (the server runs all commands on one thread), no *)
(* FLUSHDB and no I/O errors, a restart restores the index: the log always *)
(* describes it.  The inductive invariant is LogOwedBy, the same statement *)
(* for the points in the middle of an operation.                           *)
(***************************************************************************)
EXTENDS PersistentStoreProofs

\* What GoTo says of the client that goes on.
LEMMA GoToIs ==
    ASSUME LocalOK, NEW c \in Clients, NEW l, NEW r, NEW u, NEW a, GoTo(c, l, r, u, a)
    PROVE  pc'[c] = l /\ recs'[c] = r /\ kv'[c] = u /\ args'[c] = a
  BY DEF LocalOK, GoTo

\* Sequences of records: what is owed is one, and nothing more to append.
LEMMA OwedTypes ==
    ASSUME TypeOK
    PROVE  /\ Logged(aof) \in Seq(Rec) /\ Logged(aof) \o <<>> = Logged(aof)
           /\ \A c \in Clients : Owed(c) \in Seq(Rec)
<1>1. aof.file \in Seq(Rec) /\ aof.buf \in Seq(Rec)
  BY TypeLog DEF LogType
<1>2. Logged(aof) \in Seq(Rec)
  BY <1>1, ConcatProperties DEF Logged
<1>3. Logged(aof) \o <<>> = Logged(aof)
  BY <1>2, ConcatEmptySeq
<1>4. \A c \in Clients : recs[c] \in Seq(Rec)
  BY DEF TypeOK, LocalOK
<1>5. QED
  BY <1>2, <1>3, <1>4, ConcatProperties DEF Owed

\* With no updates to apply, what is due is the index.
LEMMA NothingDue ==
    ASSUME NEW d, d \in [Keys -> Values \cup {None}]
    PROVE  [k \in Keys |-> IF k \in DOMAIN NoKv THEN NoKv[k] ELSE d[k]] = d
<1>1. DOMAIN NoKv = {}
  BY DEF NoKv
<1>2. QED
  BY <1>1

\* Outside the logging part of an operation the log describes the index.
LEMMA NothingOwed ==
    ASSUME TypeOK, NEW c \in Clients, LogOwedBy(c),
           pc[c] \in {"idle", "drop", "rename2", "renamenx2"}
    PROVE  Replay(Logged(aof)) = data
<1>1. recs[c] = <<>> /\ kv[c] = NoKv /\ Replay(Owed(c)) = Due(c)
  BY DEF LogOwedBy, Appending
<1>2. Owed(c) = Logged(aof)
  BY <1>1, OwedTypes DEF Owed
<1>3. data \in [Keys -> Values \cup {None}]
  BY DEF TypeOK
<1>4. Due(c) = data
  BY <1>1, <1>3, NothingDue DEF Due
<1>5. QED
  BY <1>1, <1>2, <1>4

\* How the invariant is established where no record has to be read again.
LEMMA OweByGoTo ==
    ASSUME LocalOK, NEW c \in Clients, NEW l, NEW r, NEW u, NEW a, GoTo(c, l, r, u, a),
           l \in {"idle", "wal", "log", "apply", "drop", "rename2", "renamenx2"},
           l \in {"wal", "apply"} \/ u = NoKv,
           l \in Appending \/ r = <<>>,
           ~ poisoned',
           Replay(Logged(aof') \o r) =
               [k \in Keys |-> IF k \in DOMAIN u THEN u[k] ELSE data'[k]]
    PROVE  LogOwedBy(c)'
<1>1. pc'[c] = l /\ recs'[c] = r /\ kv'[c] = u
  BY GoToIs
<1>2. Owed(c)' = Logged(aof') \o r /\ Due(c)' = [k \in Keys |-> IF k \in DOMAIN u THEN u[k] ELSE data'[k]]
  BY <1>1 DEF Owed, Due, Logged
<1>3. Replay(Owed(c)') = Due(c)'
  BY <1>2
<1>4. (Replay(Owed(c)) = Due(c))'
  BY <1>3 DEF Replay, About
<1>5. QED
  BY <1>1, <1>4 DEF LogOwedBy, Appending

\* The same when there is nothing left to apply.
LEMMA OweToLog ==
    ASSUME TypeOK, TypeOK', NEW c \in Clients, NEW l, NEW r, NEW a, GoTo(c, l, r, NoKv, a),
           l \in {"idle", "log", "drop", "rename2", "renamenx2"},
           l = "log" \/ r = <<>>,
           ~ poisoned',
           Replay(Logged(aof') \o r) = data'
    PROVE  LogOwedBy(c)'
<1>1. data' \in [Keys -> Values \cup {None}]
  BY DEF TypeOK
<1>2. Replay(Logged(aof') \o r) = [k \in Keys |-> IF k \in DOMAIN NoKv THEN NoKv[k] ELSE data'[k]]
  BY <1>1, NothingDue
<1>3. LocalOK
  BY DEF TypeOK
<1>4. QED
  BY <1>2, <1>3, OweByGoTo DEF Appending

-----------------------------------------------------------------------------
\* A section that writes one key and owes the record that says so.
LEMMA OwePut ==
    ASSUME TypeOK, TypeOK', NEW c \in Clients, ~ poisoned, Replay(Logged(aof)) = data,
           NEW k \in Keys, NEW v \in Values \cup {None}, Put(k, v),
           ThenLog(c, <<[key |-> k, val |-> v]>>)
    PROVE  LogOwedBy(c)'
<1> DEFINE r == [key |-> k, val |-> v]
<1>1. r \in Rec /\ r.key = k /\ r.val = v
  BY DEF Rec
<1>2. GoTo(c, "log", <<r>>, NoKv, <<>>) /\ aof' = aof /\ ~ poisoned'
  BY DEF ThenLog, locks
<1>3. data' = [data EXCEPT ![k] = v] /\ data \in [Keys -> Values \cup {None}]
  BY DEF Put, TypeOK
<1> HIDE DEF r
<1>4. Logged(aof') \in Seq(Rec)
  BY <1>2, OwedTypes
<1>5. \A x \in Keys : Replay(Logged(aof') \o <<r>>)[x] = data'[x]
  <2>1. SUFFICES ASSUME NEW x \in Keys PROVE Replay(Logged(aof') \o <<r>>)[x] = data'[x]
    OBVIOUS
  <2>2. Replay(Logged(aof') \o <<r>>)[x] = IF r.key = x THEN r.val ELSE Replay(Logged(aof'))[x]
    BY <1>1, <1>4, ReplayOne
  <2>3. Logged(aof') = Logged(aof)
    BY <1>2
  <2>4. QED
    BY <1>1, <1>3, <2>2, <2>3
<1>6. Replay(Logged(aof') \o <<r>>) = data'
  <2>1. data' \in [Keys -> Values \cup {None}]
    BY DEF TypeOK
  <2>2. QED
    BY <1>5, <2>1 DEF Replay
<1>7. QED
  BY <1>2, <1>6, OweToLog

\* del, sadd and geo_add.
LEMMA OweSetOps ==
    ASSUME TypeOK, TypeOK', NEW c \in Clients, LogOwedBy(c), Del(c) \/ Sadd(c) \/ GeoAdd(c)
    PROVE  LogOwedBy(c)'
<1>1. Replay(Logged(aof)) = data /\ ~ poisoned
  BY NothingOwed DEF Del, Sadd, GeoAdd, Begin, LogOwedBy
<1>2. \A k \in Keys : data[k] \in Values \cup {None}
  BY DEF TypeOK
<1>3. \E k \in Keys, v \in Values \cup {None} :
         Put(k, v) /\ ThenLog(c, <<[key |-> k, val |-> v]>>)
  <2>1. CASE Del(c)
    BY <2>1 DEF Del, DelRec
  <2>2. CASE Sadd(c)
    <3>1. PICK k \in Keys, ms \in SUBSET Members :
             /\ data[k].t \in {"none", "set"}
             /\ Put(k, SetOf(data[k].s \cup ms))
             /\ ThenLog(c, <<SetRec(k, SetOf(data[k].s \cup ms))>>)
      BY <2>2 DEF Sadd
    <3>2. SetOf(data[k].s \cup ms) \in Values
      BY <1>2, <3>1, ValueTypes, ValuesBuilt
    <3>3. QED
      BY <3>1, <3>2 DEF SetRec
  <2>3. CASE GeoAdd(c)
    <3>1. PICK k \in Keys, m \in Members, p \in Positions :
             LET v == GeoOf({x \in data[k].s : x[1] # m} \cup {<<m, p>>})
             IN  data[k].t \in {"none", "geo"} /\ Put(k, v) /\ ThenLog(c, <<SetRec(k, v)>>)
      BY <2>3 DEF GeoAdd
    <3> DEFINE ps == {x \in data[k].s : x[1] # m} \cup {<<m, p>>}
    <3>2. data[k].s \subseteq Members \X Positions
      BY <1>2, <3>1, ValueTypes
    <3>3. ps \in SUBSET (Members \X Positions)
      BY <3>2
    <3>4. Put(k, GeoOf(ps)) /\ ThenLog(c, <<SetRec(k, GeoOf(ps))>>)
      BY <3>1
    <3> HIDE DEF ps
    <3>5. QED
      BY <3>3, <3>4, ValuesBuilt DEF SetRec
  <2>4. QED
    BY <2>1, <2>2, <2>3
<1>4. QED
  BY <1>1, <1>3, OwePut

\* srem and spop, and the removal of a set that has become empty.
LEMMA OweRemoveOps ==
    ASSUME TypeOK, TypeOK', NEW c \in Clients, LogOwedBy(c),
           Srem(c) \/ Spop(c) \/ DropKey(c)
    PROVE  LogOwedBy(c)'
<1>1. Replay(Logged(aof)) = data /\ ~ poisoned
  BY NothingOwed DEF Srem, Spop, DropKey, Begin, LogOwedBy
<1>2. CASE DropKey(c)
  <2> DEFINE k == args[c][1]
  <2>1. k \in Keys
    BY <1>2, TypeParts DEF DropKey, LocalOK, PlaceOK
  <2>2. Put(k, None) /\ ThenLog(c, <<DelRec(k)>>)
    BY <1>2 DEF DropKey
  <2> HIDE DEF k
  <2>3. QED
    BY <1>1, <2>1, <2>2, OwePut DEF DelRec
<1>3. ASSUME NEW k \in Keys, NEW ms, RemoveMembers(c, k, ms) PROVE LogOwedBy(c)'
  <2> DEFINE v == SetOf(data[k].s \ ms)
  <2>1. CASE v.s = {}
    <3>1. /\ GoTo(c, "drop", <<>>, NoKv, <<k, ms>>)
          /\ data' = data /\ aof' = aof /\ ~ poisoned'
      BY <1>1, <1>3, <2>1 DEF RemoveMembers, store, locks
    <3>2. Logged(aof') \o <<>> = Logged(aof)
      BY <3>1, OwedTypes
    <3>3. QED
      BY <1>1, <3>1, <3>2, OweToLog
  <2>2. CASE v.s # {}
    <3>1. Put(k, v) /\ ThenLog(c, <<SetRec(k, v)>>) /\ data[k].t = "set"
      BY <1>3, <2>2 DEF RemoveMembers
    <3>2. data[k] \in Values \cup {None}
      BY DEF TypeOK
    <3>3. v \in Values
      BY <3>1, <3>2, ValueTypes, ValuesBuilt
    <3> HIDE DEF v
    <3>4. QED
      BY <1>1, <3>1, <3>3, OwePut DEF SetRec
  <2>3. QED
    BY <2>1, <2>2
<1>4. QED
  BY <1>2, <1>3 DEF Srem, Spop

\* set and mset owe a record for every update.
LEMMA OweLogFirst ==
    ASSUME TypeOK, NEW c \in Clients, LogOwedBy(c), Set(c) \/ Mset(c)
    PROVE  LogOwedBy(c)'
<1>1. PICK u \in Updates : /\ DOMAIN u \subseteq Keys /\ DOMAIN u # {}
                           /\ \E op : WriteAhead(c, op, u)
  BY WriteAheadUpdates
<1>2. PICK order \in [1 .. Cardinality(DOMAIN u) -> DOMAIN u] :
         /\ DOMAIN u = {order[i] : i \in DOMAIN order}
         /\ GoTo(c, "wal", [i \in DOMAIN order |-> SetRec(order[i], u[order[i]])], u, <<>>)
  BY <1>1 DEF WriteAhead
<1> DEFINE r == [i \in DOMAIN order |-> SetRec(order[i], u[order[i]])]
<1>3. r \in Seq(Rec) /\ GoTo(c, "wal", r, u, <<>>)
  BY <1>1, <1>2, WriteAheadRecs
<1>4. /\ data' = data /\ aof' = aof /\ poisoned' = poisoned
      /\ pc[c] = "idle"
  BY <1>1 DEF WriteAhead, Begin, store, locks
<1>5. Replay(Logged(aof)) = data /\ ~ poisoned' /\ Logged(aof) \in Seq(Rec)
  BY <1>4, NothingOwed, OwedTypes, SMTT(30) DEF LogOwedBy
<1>6. /\ \A k \in DOMAIN u : About(r, k) # {} /\ \A i \in About(r, k) : r[i].val = u[k]
      /\ \A k \in Keys \ DOMAIN u : About(r, k) = {}
  BY <1>2 DEF About, SetRec
<1> HIDE DEF r
<1>7. \A k \in Keys : Replay(Logged(aof) \o r)[k] = IF k \in DOMAIN u THEN u[k] ELSE data[k]
  <2>1. ASSUME NEW k \in DOMAIN u PROVE Replay(Logged(aof) \o r)[k] = u[k]
    <3> DEFINE v == u[k]
    <3>1. k \in Keys /\ About(r, k) # {} /\ \A i \in About(r, k) : r[i].val = v
      BY <1>1, <1>6
    <3> HIDE DEF v
    <3>2. Replay(Logged(aof) \o r)[k] = v
      BY <1>3, <1>5, <3>1, ReplaySays
    <3>3. QED
      BY <3>2 DEF v
  <2>2. ASSUME NEW k \in Keys \ DOMAIN u PROVE Replay(Logged(aof) \o r)[k] = data[k]
    BY <1>3, <1>5, <1>6, ReplayConcat
  <2>3. QED
    BY <2>1, <2>2
<1>8. Replay(Logged(aof) \o r) = [k \in Keys |-> IF k \in DOMAIN u THEN u[k] ELSE data[k]]
  BY <1>7 DEF Replay
<1>9. QED
  BY <1>3, <1>4, <1>5, <1>8, OweByGoTo DEF TypeOK, Appending

\* Applying the updates of one shard leaves what is due as it was.
LEMMA OweApply ==
    ASSUME TypeOK, NEW c \in Clients, LogOwedBy(c), Apply(c)
    PROVE  LogOwedBy(c)'
<1>1. PICK s \in {ShardOf[k] : k \in DOMAIN kv[c]} :
         LET now == {k \in DOMAIN kv[c] : ShardOf[k] = s}
             rest == DOMAIN kv[c] \ now
         IN  /\ data' = [k \in Keys |-> IF k \in now THEN kv[c][k] ELSE data[k]]
             /\ IF rest = {} THEN Finish(c)
                ELSE GoTo(c, "apply", <<>>, [k \in rest |-> kv[c][k]], <<>>)
  BY DEF Apply
<1> DEFINE now == {k \in DOMAIN kv[c] : ShardOf[k] = s}
           rest == DOMAIN kv[c] \ now
           u == IF rest = {} THEN NoKv ELSE [k \in rest |-> kv[c][k]]
<1>2. pc[c] = "apply" /\ aof' = aof /\ poisoned' = poisoned
  BY DEF Apply, locks
<1>3. recs[c] = <<>> /\ ~ poisoned' /\ Replay(Owed(c)) = Due(c)
  BY <1>2 DEF LogOwedBy, Appending
<1>4. Logged(aof') \o <<>> = Owed(c)
  BY <1>2, <1>3 DEF Owed
<1>5. DOMAIN u = rest /\ \A k \in rest : u[k] = kv[c][k]
  BY DEF NoKv
<1>6. [k \in Keys |-> IF k \in DOMAIN u THEN u[k] ELSE data'[k]] = Due(c)
  <2>1. \A k \in Keys : (IF k \in DOMAIN u THEN u[k] ELSE data'[k])
                          = IF k \in DOMAIN kv[c] THEN kv[c][k] ELSE data[k]
    <3> HIDE DEF u
    <3>1. QED
      BY <1>1, <1>5
  <2>2. QED
    BY <2>1 DEF Due
<1>7. \/ GoTo(c, "idle", <<>>, u, <<>>) /\ u = NoKv
      \/ GoTo(c, "apply", <<>>, u, <<>>)
  BY <1>1 DEF Finish
<1> HIDE DEF u
<1>8. QED
  BY <1>3, <1>4, <1>6, <1>7, OweByGoTo DEF TypeOK

\* rename: the two records say what the move did.
LEMMA OweMove ==
    ASSUME TypeOK, TypeOK', Replay(Logged(aof)) = data, NEW f \in Keys, NEW t \in Keys,
           data[f] # None, MoveKey(f, t)
    PROVE  /\ Replay(Logged(aof) \o <<DelRec(f), SetRec(t, data[f])>>) = data'
           /\ data'[t] = data[f]
<1>1. data \in [Keys -> Values \cup {None}] /\ data' \in [Keys -> Values \cup {None}]
  BY DEF TypeOK
<1>2. data' = [data EXCEPT ![f] = None, ![t] = data[f]]
  BY DEF MoveKey
<1> DEFINE q == DelRec(f)  r == SetRec(t, data[f])
<1>3. /\ q \in Rec /\ q.key = f /\ q.val = None
      /\ r \in Rec /\ r.key = t /\ r.val = data[f]
  BY <1>1, RecTypes DEF DelRec, SetRec
<1> HIDE DEF q, r
<1>4. \A k \in Keys : Replay(Logged(aof) \o <<q, r>>)[k] =
         IF r.key = k THEN r.val ELSE IF q.key = k THEN q.val ELSE Replay(Logged(aof))[k]
  BY <1>3, OwedTypes, ReplayTwo
<1>5. \A k \in Keys : Replay(Logged(aof) \o <<q, r>>)[k] = data'[k]
  BY <1>1, <1>2, <1>3, <1>4, SMTT(30)
<1>6. Replay(Logged(aof) \o <<q, r>>) = data'
  BY <1>1, <1>5 DEF Replay
<1>7. QED
  BY <1>1, <1>2, <1>6 DEF q, r

\* How the invariant is established where renamenx has yet to read the value.
LEMMA OweNx ==
    ASSUME LocalOK, NEW c \in Clients, NEW l, NEW r, NEW f, NEW t, NEW a, a = <<f, t>>,
           GoTo(c, l, r, NoKv, a),
           l \in {"nxlog", "nxfetch"} \/ (l = "nxread" /\ r = <<>>),
           ~ poisoned', data'[t] # None,
           Replay(Append(Logged(aof') \o r, SetRec(t, data'[t]))) = data'
    PROVE  LogOwedBy(c)'
<1>1. pc'[c] = l /\ recs'[c] = r /\ kv'[c] = NoKv /\ args'[c][2] = t
  BY GoToIs
<1>2. Owed(c)' = Logged(aof') \o r
  BY <1>1 DEF Owed, Logged
<1>3. data'[args'[c][2]] # None
  BY <1>1
<1>4. Replay(Append(Owed(c)', SetRec(args'[c][2], data'[args'[c][2]]))) = data'
  BY <1>1, <1>2, SMTT(30)
<1>5. (Replay(Append(Owed(c), SetRec(args[c][2], data[args[c][2]]))) = data)'
  BY <1>4 DEF Replay, About, SetRec
<1>6. QED
  BY <1>1, <1>3, <1>5 DEF LogOwedBy, Appending

\* rename and renamenx, inside a shard and across two.
LEMMA OweRename ==
    ASSUME TypeOK, TypeOK', NEW c \in Clients, LogOwedBy(c),
           RenameOneShard(c) \/ LockFirst(c) \/ LockSecond(c)
    PROVE  LogOwedBy(c)'
<1>1. /\ Replay(Logged(aof)) = data /\ Logged(aof) \in Seq(Rec)
      /\ aof' = aof /\ ~ poisoned'
  <2>1. pc[c] \in {"idle", "rename2", "renamenx2"} /\ aof' = aof /\ poisoned' = poisoned
    BY DEF RenameOneShard, LockFirst, LockSecond, Begin, locks
  <2>2. QED
    BY <2>1, NothingOwed, OwedTypes DEF LogOwedBy
<1>2. Logged(aof') \o <<>> = Logged(aof)
  BY <1>1, OwedTypes
<1>3. ASSUME UNCHANGED store, NEW l \in {"idle", "rename2", "renamenx2"}, NEW a,
             GoTo(c, l, <<>>, NoKv, a)
      PROVE  LogOwedBy(c)'
  BY <1>1, <1>2, <1>3, OweToLog DEF store
<1>4. ASSUME NEW f \in Keys, NEW t \in Keys, RenameBody(c, f, t) PROVE LogOwedBy(c)'
  <2>1. CASE data[f] = None
    BY <1>3, <1>4, <2>1 DEF RenameBody, Finish
  <2>2. CASE data[f] # None
    <3> DEFINE r == <<DelRec(f), SetRec(t, data[f])>>
    <3>1. MoveKey(f, t) /\ GoTo(c, "log", r, NoKv, <<>>)
      BY <1>4, <2>2 DEF RenameBody
    <3>2. Replay(Logged(aof') \o r) = data'
      BY <1>1, <2>2, <3>1, OweMove
    <3> HIDE DEF r
    <3>3. QED
      BY <1>1, <3>1, <3>2, OweToLog
  <2>3. QED
    BY <2>1, <2>2
<1>5. ASSUME NEW f \in Keys, NEW t \in Keys, NEW next \in {"nxlog", "nxfetch"},
             RenamenxBody(c, f, t, next)
      PROVE  LogOwedBy(c)'
  <2>1. CASE data[f] = None \/ data[t] # None
    BY <1>3, <1>5, <2>1 DEF RenamenxBody, Finish
  <2>2. CASE data[f] # None /\ data[t] = None
    <3>1. MoveKey(f, t) /\ GoTo(c, next, <<DelRec(f)>>, NoKv, <<f, t>>)
      BY <1>5, <2>2 DEF RenamenxBody
    <3> DEFINE q == DelRec(f)  r == SetRec(t, data[f])
    <3>2. q \in Rec /\ r \in Rec
      BY <2>2, RecTypes, TypeParts DEF StoreOK
    <3>3. Replay(Logged(aof) \o <<q, r>>) = data' /\ data'[t] = data[f]
      BY <1>1, <2>2, <3>1, OweMove, SMTT(30)
    <3>4. Append(Logged(aof) \o <<q>>, r) = Logged(aof) \o <<q, r>>
      BY <1>1, <3>2, AppendAfter
    <3>5. Replay(Append(Logged(aof') \o <<DelRec(f)>>, SetRec(t, data'[t]))) = data'
      BY <1>1, <3>3, <3>4
    <3>6. LocalOK /\ data'[t] # None
      BY <2>2, <3>3 DEF TypeOK
    <3> HIDE DEF q, r
    <3>7. QED
      BY <1>1, <3>1, <3>5, <3>6, OweNx, SMTT(30)
  <2>3. QED
    BY <2>1, <2>2
<1>6. CASE RenameOneShard(c)
  BY <1>4, <1>5, <1>6 DEF RenameOneShard
<1>7. CASE LockFirst(c)
  BY <1>3, <1>7 DEF LockFirst
<1>8. CASE LockSecond(c)
  <2> DEFINE f == args[c][1]  t == args[c][2]
  <2>1. f \in Keys /\ t \in Keys
    <3>1. pc[c] \in Renaming
      BY <1>8 DEF LockSecond, Renaming
    <3>2. QED
      BY <3>1, Carried
  <2>2. RenameBody(c, f, t) \/ RenamenxBody(c, f, t, "nxfetch")
    BY <1>8 DEF LockSecond
  <2> HIDE DEF f, t
  <2>3. QED
    BY <1>4, <1>5, <2>1, <2>2, SMTT(30)
<1>9. QED
  BY <1>6, <1>7, <1>8

\* The second read of renamenx finds the value and logs it.
LEMMA OweNxSteps ==
    ASSUME TypeOK, TypeOK', NEW c \in Clients, LogOwedBy(c), ~ IoFaults,
           NxFetch(c) \/ NxRead(c)
    PROVE  LogOwedBy(c)'
<1> DEFINE t == args[c][2]
           r == SetRec(t, data[t])
<1>1. data[t] # None /\ Replay(Append(Owed(c), r)) = data /\ ~ poisoned
  BY ZenonT(30) DEF NxFetch, NxRead, LogOwedBy
<1>2. t \in Keys /\ recs[c] \in Seq(Rec)
  <2>1. pc[c] \in Renaming
    BY DEF NxFetch, NxRead, Renaming
  <2>2. QED
    BY <2>1, Carried
<1>3. r \in Rec
  <2>1. data \in [Keys -> Values \cup {None}]
    BY TypeParts DEF StoreOK
  <2>2. t \in Keys /\ data[t] # None
    BY <1>1, <1>2
  <2> HIDE DEF t
  <2>3. data[t] \in Values
    BY <2>1, <2>2
  <2>4. QED
    BY <2>2, <2>3, RecTypes
<1>4. data' = data
  BY DEF NxFetch, NxRead, store
<1>5. CASE NxFetch(c)
  <2>1. GoTo(c, "log", Append(recs[c], r), NoKv, <<>>) /\ aof' = aof /\ ~ poisoned'
    BY <1>1, <1>5 DEF NxFetch, locks
  <2> HIDE DEF r, t
  <2> DEFINE l == Logged(aof)  s == recs[c]
  <2>2. l \in Seq(Rec) /\ Owed(c) = l \o s /\ l \o s \in Seq(Rec)
    BY <1>2, OwedTypes DEF Owed
  <2> HIDE DEF l, s
  <2>3. Append(l \o s, r) = (l \o s) \o <<r>> /\ Append(s, r) = s \o <<r>> /\ s \in Seq(Rec)
    BY <1>2, <1>3, <2>2, AppendIsConcat DEF s
  <2>4. l \o (s \o <<r>>) = (l \o s) \o <<r>>
    BY <1>3, <2>2, <2>3, OneRec, Assoc, SMTT(30)
  <2>5. Logged(aof') \o Append(recs[c], r) = Append(Owed(c), r)
    BY <2>1, <2>2, <2>3, <2>4 DEF l, s
  <2>6. QED
    BY <1>1, <1>4, <2>1, <2>5, OweToLog
<1>6. CASE NxRead(c)
  <2>1. aof' \in Appended(aof, r) /\ GoTo(c, "idle", <<>>, NoKv, <<>>) /\ ~ poisoned'
    <3>1. data[t] # None
      BY <1>1
    <3>2. aof' \in Appended(aof, r)
      BY <1>6, <3>1, SMTT(30) DEF NxRead
    <3>3. Finish(c)
      BY <1>6, <3>1, SMTT(30) DEF NxRead
    <3>4. poisoned' = poisoned
      BY <1>6, <3>1, SMTT(30) DEF NxRead
    <3>5. QED
      BY <1>1, <3>2, <3>3, <3>4 DEF Finish
  <2>2. recs[c] = <<>>
    BY <1>6 DEF NxRead, LogOwedBy, Appending
  <2> HIDE DEF r, t
  <2>3. Owed(c) = Logged(aof) /\ Logged(aof) \in Seq(Rec)
    BY <2>2, OwedTypes DEF Owed
  <2>4. Logged(aof') = Logged(aof) \o <<r>>
    BY <1>3, <2>1, AppendedLogs, TypeLog
  <2>5. Logged(aof') = Append(Owed(c), r)
    BY <1>3, <2>3, <2>4, AppendIsConcat
  <2>6. Logged(aof') \o <<>> = Logged(aof')
    BY <1>3, <2>3, <2>5, AppendProperties, ConcatEmptySeq, SMTT(30)
  <2>7. QED
    BY <1>1, <1>4, <2>1, <2>5, <2>6, OweToLog
<1>7. QED
  BY <1>5, <1>6, SMTT(30)

\* An append moves a record from what is owed to what is logged.
LEMMA AppendPays ==
    ASSUME TypeOK, NEW c \in Clients, AppendRec(c)
    PROVE  Logged(aof') \o Tail(recs[c]) = Owed(c)
<1>1. recs[c] \in Seq(Rec) /\ recs[c] # <<>> /\ aof' \in Appended(aof, Head(recs[c]))
  BY TypeParts DEF AppendRec, LocalOK, PlaceOK
<1> DEFINE l == Logged(aof)  h == Head(recs[c])  s == Tail(recs[c])
<1>2. h \in Rec /\ s \in Seq(Rec) /\ l \in Seq(Rec)
  BY <1>1, HeadTailProperties, OwedTypes
<1>3. recs[c] = <<h>> \o s
  BY <1>1
<1>4. Logged(aof') = l \o <<h>>
  BY <1>1, <1>2, AppendedLogs, TypeLog
<1> HIDE DEF l, h, s
<1>5. l \o (<<h>> \o s) = (l \o <<h>>) \o s
  BY <1>2, OneRec, Assoc
<1>6. QED
  BY <1>3, <1>4, <1>5 DEF Owed, l, s

\* Every append, of any operation.
LEMMA OweAppend ==
    ASSUME TypeOK, TypeOK', NEW c \in Clients, LogOwedBy(c), AppendRec(c)
    PROVE  LogOwedBy(c)'
<1> DEFINE rest == Tail(recs[c])
<1>1. /\ Logged(aof') \o rest = Owed(c) /\ ~ poisoned' /\ data' = data
      /\ pc[c] \in Appending /\ LocalOK
  BY AppendPays DEF AppendRec, LogOwedBy, store, TypeOK
<1>2. CASE pc[c] = "nxlog"
  <2>1. PICK f, t \in Keys : args[c] = <<f, t>>
    BY <1>1, <1>2 DEF LocalOK, PlaceOK, Renaming
  <2>2. /\ kv[c] = NoKv /\ data'[t] # None
        /\ Replay(Append(Logged(aof') \o rest, SetRec(t, data'[t]))) = data'
    <3>1. /\ kv[c] = NoKv /\ data[args[c][2]] # None
          /\ Replay(Append(Owed(c), SetRec(args[c][2], data[args[c][2]]))) = data
      BY <1>2 DEF LogOwedBy
    <3>2. args[c][2] = t
      BY <2>1
    <3> HIDE DEF rest
    <3>3. QED
      BY <1>1, <3>1, <3>2, SMTT(30)
  <2>3. \/ GoTo(c, "nxlog", rest, NoKv, args[c])
        \/ GoTo(c, "nxread", rest, NoKv, args[c]) /\ rest = <<>>
    BY <1>2, <2>2 DEF AppendRec
  <2> HIDE DEF rest
  <2>4. QED
    BY <1>1, <2>1, <2>2, <2>3, OweNx
<1>3. CASE pc[c] # "nxlog"
  <2>1. pc[c] \in {"wal", "log"}
    BY <1>1, <1>3, SMTT(30) DEF Appending
  <2>2. /\ pc[c] = "log" => kv[c] = NoKv
        /\ Replay(Logged(aof') \o rest) =
              [k \in Keys |-> IF k \in DOMAIN kv[c] THEN kv[c][k] ELSE data'[k]]
    BY <1>1, <2>1 DEF LogOwedBy, Due
  <2>3. \/ GoTo(c, pc[c], rest, kv[c], args[c])
        \/ pc[c] = "wal" /\ rest = <<>> /\ GoTo(c, "apply", rest, kv[c], <<>>)
        \/ pc[c] = "log" /\ rest = <<>> /\ GoTo(c, "idle", rest, NoKv, <<>>)
    BY <2>1 DEF AppendRec, Finish
  <2> HIDE DEF rest
  <2>4. CASE GoTo(c, pc[c], rest, kv[c], args[c])
    <3> DEFINE l == pc[c]  u == kv[c]  a == args[c]
    <3>1. /\ l \in {"idle", "wal", "log", "apply", "drop", "rename2", "renamenx2"}
          /\ l \in {"wal", "apply"} \/ u = NoKv
          /\ l \in Appending
      BY <2>1, <2>2 DEF Appending
    <3>2. /\ GoTo(c, l, rest, u, a)
          /\ Replay(Logged(aof') \o rest) =
                [k \in Keys |-> IF k \in DOMAIN u THEN u[k] ELSE data'[k]]
      BY <2>2, <2>4
    <3> HIDE DEF l, u, a
    <3>3. QED
      BY <1>1, <3>1, <3>2, OweByGoTo
  <2>5. CASE pc[c] = "wal" /\ rest = <<>> /\ GoTo(c, "apply", rest, kv[c], <<>>)
    BY <1>1, <2>2, <2>5, OweByGoTo
  <2>6. CASE pc[c] = "log" /\ rest = <<>> /\ GoTo(c, "idle", rest, NoKv, <<>>)
    BY <1>1, <2>2, <2>6, OweByGoTo
  <2>7. QED
    BY <2>3, <2>4, <2>5, <2>6
<1>4. QED
  BY <1>2, <1>3

\* A store that has just been opened holds what its file describes.
LEMMA OweOpen ==
    ASSUME TypeOK, NEW c \in Clients, NEW file \in Seq(Rec), Open(file)
    PROVE  LogOwedBy(c)'
<1>1. /\ pc'[c] = "idle" /\ recs'[c] = <<>> /\ kv'[c] = NoKv /\ ~ poisoned'
      /\ aof' = NewLog(file) /\ data' = Replay(file)
  BY DEF Open
<1>2. Logged(aof') \o <<>> = file
  BY <1>1, ConcatEmptySeq DEF Logged, NewLog
<1>3. Owed(c)' = file
  BY <1>1, <1>2 DEF Owed, Logged
<1>4. Replay(file) \in [Keys -> (Values \cup {None}) \cup {None}]
  BY ReplayType DEF Rec
<1>5. Due(c)' = data'
  BY <1>1, <1>4, NothingDue DEF Due
<1>6. (Replay(Owed(c)) = Due(c))'
  BY <1>1, <1>3, <1>5 DEF Replay, About
<1>7. QED
  BY <1>1, <1>6 DEF LogOwedBy, Appending

-----------------------------------------------------------------------------
\* The background flusher changes where records are, not which there are.
LEMMA OweFlusher ==
    ASSUME TypeOK, NEW c \in Clients, LogOwedBy(c), Flusher \/ UNCHANGED vars
    PROVE  LogOwedBy(c)'
<1>1. /\ UNCHANGED <<data, poisoned, pc, recs, kv, args>>
      /\ Logged(aof') = Logged(aof)
  BY FlushedLogs, TypeLog DEF Flusher, vars, store, locks, local
<1>2. Owed(c)' = Owed(c) /\ Due(c)' = Due(c)
  BY <1>1, SMTT(30) DEF Owed, Due, Logged
<1>3. /\ (Replay(Owed(c)) = Due(c))' <=> Replay(Owed(c)) = Due(c)
      /\ (Replay(Append(Owed(c), SetRec(args[c][2], data[args[c][2]]))) = data)'
            <=> Replay(Append(Owed(c), SetRec(args[c][2], data[args[c][2]]))) = data
  BY <1>1, <1>2 DEF Replay, About, SetRec
<1>4. QED
  BY <1>1, <1>3 DEF LogOwedBy

\* Every step of a store with one client keeps the invariant.
LEMMA OweStep ==
    ASSUME NEW c \in Clients, Clients = {c}, "flushdb" \notin Ops, ~ IoFaults
    PROVE  TypeOK /\ LogOwedBy(c) /\ [Next]_vars => LogOwedBy(c)'
<1> SUFFICES ASSUME TypeOK, LogOwedBy(c), [Next]_vars PROVE LogOwedBy(c)'
  OBVIOUS
<1>1. TypeOK'
  BY TypeStep
<1>2. CASE Call(c)
  <2>1. ~ Flushdb(c)
    BY DEF Flushdb, Begin
  <2>2. QED
    BY <1>1, <1>2, <2>1, OweLogFirst, OweSetOps, OweRemoveOps, OweRename, SMTT(30) DEF Call
<1>3. CASE Step(c)
  <2>1. ~ AppendErr(c) /\ ~ LockPoisoned(c) /\ ~ ClearShard(c)
    BY DEF AppendErr, LockPoisoned, ClearShard, LogOwedBy
  <2>2. QED
    BY <1>1, <1>3, <2>1, OweApply, OweRemoveOps, OweRename, OweNxSteps, OweAppend, SMTT(30) DEF Step
<1>4. CASE Flusher \/ UNCHANGED vars
  BY <1>4, OweFlusher
<1>5. CASE Crash \/ Restart
  BY <1>5, OpenedFiles, OweOpen
<1>6. QED
  BY <1>2, <1>3, <1>4, <1>5 DEF Next

(***************************************************************************)
(* One client thread, no FLUSHDB, no failing append: at every instant the  *)
(* log and the records a thread has still to append describe the index and *)
(* the updates it has still to apply.                                      *)
(***************************************************************************)
THEOREM LogOwedAlways ==
    ASSUME NEW c \in Clients, Clients = {c}, "flushdb" \notin Ops, ~ IoFaults
    PROVE  Spec => []LogOwed
<1>1. Init => LogOwedBy(c)
  <2> SUFFICES ASSUME Init PROVE LogOwedBy(c)
    OBVIOUS
  <2>1. /\ pc[c] = "idle" /\ recs[c] = <<>> /\ kv[c] = NoKv /\ ~ poisoned
        /\ aof.file = <<>> /\ aof.buf = <<>> /\ data = [k \in Keys |-> None]
    BY DEF Init, NewLog
  <2>2. Owed(c) = <<>>
    BY <2>1 DEF Owed, Logged
  <2>3. Replay(<<>>) = [k \in Keys |-> None]
    BY DEF Replay, About
  <2>4. Due(c) = [k \in Keys |-> None]
    BY <2>1 DEF Due, NoKv
  <2>5. QED
    BY <2>1, <2>2, <2>3, <2>4 DEF LogOwedBy, Appending
<1>2. Spec => []LogOwedBy(c)
  BY <1>1, TypeCorrect, OweStep, PTL DEF Spec
<1>3. LogOwedBy(c) => LogOwed
  BY DEF LogOwed
<1>4. QED
  BY <1>2, <1>3, PTL

(***************************************************************************)
(* With one client thread, no FLUSHDB and no failing append, replaying the *)
(* log gives exactly the index whenever no operation is under way: an      *)
(* orderly restart restores all data, and after a crash and a recovery the *)
(* log and the index agree again.  It holds for every sync policy, batch   *)
(* size, number of shards and set of keys.                                 *)
(***************************************************************************)
THEOREM RestartRestores ==
    ASSUME NEW c \in Clients, Clients = {c}, "flushdb" \notin Ops, ~ IoFaults
    PROVE  Spec => []LogMatchesIndex
<1>1. TypeOK /\ LogOwed => LogMatchesIndex
  BY NothingOwed DEF LogMatchesIndex, Quiescent, LogOwed, LogOwedBy
<1>2. QED
  BY <1>1, LogOwedAlways, TypeCorrect, PTL
=============================================================================
