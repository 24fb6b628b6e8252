---------------------------- MODULE MemoryStore ----------------------------
(***************************************************************************)
(* InMemoryStore (src/src/engine/memory.rs) as several connection tasks    *)
(* call it.  The store is two DashMaps, data and geo; every DashMap        *)
(* operation locks the shard of one key and is one step here, and a call   *)
(* that makes several of them is several steps, between which the other    *)
(* tasks run.                                                              *)
(*                                                                         *)
(* A string is the number of the write that stored it, so that two values  *)
(* are equal only when one is a copy of the other.  A geo set is the set   *)
(* of its members: their coordinates decide what a radius query returns    *)
(* and nothing else.  The keys lie in different shards of geo.             *)
(***************************************************************************)
EXTENDS Integers, Sequences, FiniteSets, FiniteSetsExt

CONSTANTS
    StoreKeys,      \* the keys, of data and of geo
    Elements,       \* members of sets and of geo sets
    Callers,        \* connection tasks
    MaxStoreCalls   \* bound: calls made in a behaviour

VARIABLES
    data,    \* key -> <<"none">>, <<"str", n>> or <<"set", S>>
    geo,     \* key -> the members of its geo set
    held,    \* key -> tasks that hold a read guard on the geo shard of the key
    todo,    \* task -> what is left of its call
    begun,   \* calls begun so far
    added,   \* member -> how often SADD counted it as added
    taken    \* member -> how often SREM or SPOP counted it as removed

storeVars == <<data, geo, held, todo, begun, added, taken>>

Absent == <<"none">>
AtRest == <<"rest">>

IsSet(v) == v[1] = "set"

(* The strings that the n-th call stores: one, or two for mset.            *)
Text(n, i) == <<"str", 2 * n + i>>

MemoryInit ==
    /\ data = [k \in StoreKeys |-> Absent]
    /\ geo = [k \in StoreKeys |-> {}]
    /\ held = [k \in StoreKeys |-> {}]
    /\ todo = [c \in Callers |-> AtRest]
    /\ begun = 0
    /\ added = [m \in Elements |-> 0]
    /\ taken = [m \in Elements |-> 0]

-----------------------------------------------------------------------------
(* A call is what is left of it: AtRest when it has returned.  StartStep   *)
(* is its first step, Resume a later one.                                  *)

StartStep(c, rest) ==
    /\ todo[c] = AtRest
    /\ begun < MaxStoreCalls
    /\ begun' = begun + 1
    /\ todo' = [todo EXCEPT ![c] = rest]

Resume(c, what, rest) ==
    /\ todo[c][1] = what
    /\ todo' = [todo EXCEPT ![c] = rest]
    /\ UNCHANGED begun

Write(k, v) == data' = [data EXCEPT ![k] = v]

Count(counter, S) == [m \in Elements |-> counter[m] + IF m \in S THEN 1 ELSE 0]

Set(c, k) ==
    /\ StartStep(c, AtRest)
    /\ Write(k, Text(begun', 0))
    /\ UNCHANGED <<geo, held, added, taken>>

Del(c, k) ==
    /\ StartStep(c, AtRest)
    /\ Write(k, Absent)
    /\ UNCHANGED <<geo, held, added, taken>>

(* mset inserts its entries one by one.                                    *)
MSet(c, k, l) ==
    /\ StartStep(c, <<"mset", l, Text(begun', 1)>>)
    /\ Write(k, Text(begun', 0))
    /\ UNCHANGED <<geo, held, added, taken>>

(* rename takes the value out and then puts it under the new key.          *)
Rename(c, k, l) ==
    /\ StartStep(c, IF data[k] = Absent THEN AtRest ELSE <<"insert", l, data[k]>>)
    /\ Write(k, Absent)
    /\ UNCHANGED <<geo, held, added, taken>>

(* renamenx looks whether the new key is free before it does the same.     *)
RenameNx(c, k, l) ==
    /\ StartStep(c, IF data[l] # Absent THEN AtRest ELSE <<"renamenx", k, l>>)
    /\ UNCHANGED <<data, geo, held, added, taken>>

RenameNxTake(c) ==
    LET k == todo[c][2] IN
    /\ todo[c][1] = "renamenx"
    /\ Resume(c, "renamenx", IF data[k] = Absent THEN AtRest
                             ELSE <<"insert", todo[c][3], data[k]>>)
    /\ Write(k, Absent)
    /\ UNCHANGED <<geo, held, added, taken>>

(* The insert that ends mset, rename, renamenx and the first sadd of a key *)
Insert(c) ==
    /\ \/ Resume(c, "mset", AtRest)
       \/ Resume(c, "insert", AtRest)
    /\ Write(todo[c][2], todo[c][3])
    /\ UNCHANGED <<geo, held, added, taken>>

(* flushdb clears one shard after the other, and leaves geo alone.         *)
FlushDb(c) ==
    /\ StartStep(c, <<"flush", StoreKeys>>)
    /\ UNCHANGED <<data, geo, held, added, taken>>

FlushShard(c) ==
    /\ todo[c][1] = "flush"
    /\ \E k \in todo[c][2] :
          /\ Resume(c, "flush", IF todo[c][2] = {k} THEN AtRest
                                ELSE <<"flush", todo[c][2] \ {k}>>)
          /\ Write(k, Absent)
    /\ UNCHANGED <<geo, held, added, taken>>

-----------------------------------------------------------------------------
(* Sets.  sadd adds to the set it finds in one step; when there is no key  *)
(* it builds a set and inserts it in another.  srem and spop change the    *)
(* set in one step and remove the key of a set that they left empty in     *)
(* another.  A key that holds a string makes all three return an error.    *)

SAdd(c, k, S) ==
    /\ IF data[k] = Absent
       THEN /\ StartStep(c, <<"newset", k, <<"set", S>>>>)
            /\ UNCHANGED <<data, added>>
       ELSE /\ StartStep(c, AtRest)
            /\ IF IsSet(data[k])
               THEN /\ Write(k, <<"set", data[k][2] \cup S>>)
                    /\ added' = Count(added, S \ data[k][2])
               ELSE UNCHANGED <<data, added>>
    /\ UNCHANGED <<geo, held, taken>>

SAddNew(c) ==
    /\ Resume(c, "newset", AtRest)
    /\ Write(todo[c][2], todo[c][3])
    /\ added' = Count(added, todo[c][3][2])
    /\ UNCHANGED <<geo, held, taken>>

(* What srem and spop leave to do once the entry is released.              *)
AfterRemoval(k, S) == IF S = {} THEN <<"dropkey", k>> ELSE AtRest

TakeOut(c, k, S) ==
    LET left == data[k][2] \ S IN
    /\ IsSet(data[k])
    /\ StartStep(c, AfterRemoval(k, left))
    /\ Write(k, <<"set", left>>)
    /\ taken' = Count(taken, data[k][2] \cap S)
    /\ UNCHANGED <<geo, held, added>>

SRem(c, k, m) == TakeOut(c, k, {m})

(* spop takes as many members as it was asked for, chosen at random; a     *)
(* count of zero or less counts as one.                                    *)
PopFromCopy(c, k, count) ==
    /\ IsSet(data[k])
    /\ \E S \in SUBSET data[k][2] :
          /\ Cardinality(S) = 1
          /\ StartStep(c, AtRest)
          /\ taken' = Count(taken, S)
          /\ UNCHANGED <<data, geo, held, added>>

SPop(c, k, count) ==
    /\ IsSet(data[k])
    /\ \E S \in SUBSET data[k][2] :
          /\ Cardinality(S) = Min({IF count <= 0 THEN 1 ELSE count, Cardinality(data[k][2])})
          /\ TakeOut(c, k, S)

DropKey(c) ==
    /\ Resume(c, "dropkey", AtRest)
    /\ Write(todo[c][2], Absent)
    /\ UNCHANGED <<geo, held, added, taken>>

-----------------------------------------------------------------------------
(* Geo sets.  geo_add and geo_radius ask for the write lock of the shard,  *)
(* which waits for the read guards on it.  geo_radius_by_member keeps the  *)
(* read guard with which it looked the member up while it calls            *)
(* geo_radius, which then waits for it.                                    *)

GeoAdd(c, k, m) ==
    /\ StartStep(c, <<"geoadd", k, m>>)
    /\ UNCHANGED <<data, geo, held, added, taken>>

GeoAddLocked(c) ==
    /\ todo[c][1] = "geoadd"
    /\ held[todo[c][2]] = {}
    /\ Resume(c, "geoadd", AtRest)
    /\ geo' = [geo EXCEPT ![todo[c][2]] = @ \cup {todo[c][3]}]
    /\ UNCHANGED <<data, held, added, taken>>

GeoRadius(c, k) ==
    /\ StartStep(c, <<"radius", k>>)
    /\ UNCHANGED <<data, geo, held, added, taken>>

\* Mutant of GeoRadiusByMember: the guard is kept for a member that is not there.
GuardKept(c, k, m) ==
    /\ StartStep(c, <<"radius", k, m>>)
    /\ held' = [held EXCEPT ![k] = @ \cup {c}]
    /\ UNCHANGED <<data, geo, added, taken>>

GeoRadiusByMember(c, k, m) ==
    /\ IF m \in geo[k]
       THEN /\ StartStep(c, <<"radius", k, m>>)
            /\ held' = [held EXCEPT ![k] = @ \cup {c}]
       ELSE /\ StartStep(c, AtRest)
            /\ UNCHANGED held
    /\ UNCHANGED <<data, geo, added, taken>>

RadiusLocked(c) ==
    /\ todo[c][1] = "radius"
    /\ held[todo[c][2]] = {}
    /\ Resume(c, "radius", AtRest)
    /\ held' = [held EXCEPT ![todo[c][2]] = @ \ {c}]
    /\ UNCHANGED <<data, geo, added, taken>>

-----------------------------------------------------------------------------

StartCall(c) ==
    \E k \in StoreKeys :
       \/ Set(c, k) \/ Del(c, k) \/ FlushDb(c) \/ GeoRadius(c, k)
       \/ \E l \in StoreKeys : MSet(c, k, l) \/ Rename(c, k, l) \/ RenameNx(c, k, l)
       \/ \E S \in SUBSET Elements \ {{}} : SAdd(c, k, S)
       \/ \E count \in 0..2 : SPop(c, k, count)
       \/ \E m \in Elements : SRem(c, k, m) \/ GeoAdd(c, k, m) \/ GeoRadiusByMember(c, k, m)

GoOn(c) ==
    \/ RenameNxTake(c) \/ Insert(c) \/ FlushShard(c) \/ SAddNew(c) \/ DropKey(c)
    \/ GeoAddLocked(c) \/ RadiusLocked(c)

MemoryNext == \E c \in Callers : StartCall(c) \/ GoOn(c)

(* A task that is in a call is scheduled again; a lock is granted when it  *)
(* is free.                                                                *)
MemoryFair == \A c \in Callers : WF_storeVars(GoOn(c))

MemorySpec == MemoryInit /\ [][MemoryNext]_storeVars /\ MemoryFair

-----------------------------------------------------------------------------

(* Places where a string can be: under a key, or taken from one and not    *)
(* yet under another, in the hands of rename or renamenx.                  *)
HeldAt(v) ==
    Cardinality({k \in StoreKeys : data[k] = v})
      + Cardinality({c \in Callers : todo[c][1] = "insert" /\ todo[c][3] = v})

(* A string that was stored once is never in two places: no interleaving   *)
(* of set, mset, del, rename, renamenx and flushdb copies a value or       *)
(* brings a removed one back.                                              *)
NeverCopied ==
    \A n \in 1..begun, i \in 0..1 : HeldAt(Text(n, i)) <= 1

(* Nobody is given the same addition of a member twice: however sadd, srem *)
(* and spop on a key interleave, a member is removed at most as often as   *)
(* it was added, and what is still stored was added as well.               *)
TakenOnce ==
    \A m \in Elements :
       taken[m] + Cardinality({k \in StoreKeys : IsSet(data[k]) /\ m \in data[k][2]})
                + Cardinality({c \in Callers : todo[c][1] = "insert" /\ IsSet(todo[c][3])
                                                /\ m \in todo[c][3][2]})
          <= added[m]

(* No interleaving of calls on the store makes more of what was stored:    *)
(* neither strings nor members of sets.                                    *)
ElementsConserved == NeverCopied /\ TakenOnce

(* The tasks in geo_radius_by_member around a member of the geo set of k,  *)
(* each of which waits for the guard it holds itself                       *)
SelfBlocked(k) == {c \in held[k] : todo[c][1] = "radius" /\ todo[c][3] \in geo[k]}

(* Every call on the store returns, whatever the other tasks do, but for   *)
(* one kind: geo_radius_by_member around a member that exists waits for    *)
(* itself for ever, and with it every later geo_add and radius query of    *)
(* that key.  Calls on keys of other shards and on data still return.      *)
CallsReturn ==
    \A c \in Callers :
       todo[c] # AtRest ~> \/ todo[c] = AtRest
                          \/ /\ todo[c][1] \in {"radius", "geoadd"}
                             /\ SelfBlocked(todo[c][2]) # {}

(* Every call returns, a radius query around a member of the geo set as    *)
(* well ("Возвращает участников, находящихся в радиусе от указанного       *)
(* участника", memory.rs:279).                                             *)
EveryCallReturns == \A c \in Callers : todo[c] # AtRest ~> todo[c] = AtRest
=============================================================================
