-------------------------------- MODULE Dict --------------------------------
(***************************************************************************)
(* The hash table with incremental rehashing (src/src/database/dict).      *)
(*                                                                         *)
(* Two tables of chained buckets.  While rehash_idx is not -1 the buckets  *)
(* of the first table below it have been moved to the second; every        *)
(* changing call moves some more.  Nodes of a chain are pairs of key and   *)
(* value, the head of the chain first.  Tables and buckets count from 1    *)
(* here, and idx counts from 0 as rehash_idx does.                         *)
(***************************************************************************)
EXTENDS Integers, FiniteSetsExt, SequencesExt, KeyValue

CONSTANTS
    HashOf,         \* what the hasher gives for each key
    InitialSize,    \* INITIAL_SIZE (4)
    MinEntries,     \* REHASH_MIN_ENTRIES (8)
    MaxEmpty,       \* REHASH_MAX_EMPTY_VISITS (64)
    ReserveSizes    \* arguments of reserve

ASSUME DictAssumption ==
    /\ HashOf \in [Keys -> Nat]
    /\ InitialSize \in {2^i : i \in 0..8} /\ MinEntries \in Nat /\ MaxEmpty \in Nat
    /\ ReserveSizes \subseteq Nat

VARIABLES
    dict,        \* the dictionary: ht and rehash_idx
    dictReply,   \* the key of the last call, and what it returned
    dictMap      \* what get finds for each key, the refinement mapping
dictVars == <<dict, dictReply, dictMap>>

NextPowerOfTwo(n) == Min({2^i : i \in 0..n} \ 0..(n - 1))
BucketCount(cap) == IF cap = 0 THEN 0 ELSE Max({NextPowerOfTwo(cap), InitialSize})
Table(cap) == [buckets |-> [i \in 1..BucketCount(cap) |-> <<>>], used |-> 0]

Capacity(t) == Len(t.buckets)
SlotIn(t, k) == (HashOf[k] % Capacity(t)) + 1   \* hash & size_mask
Chain(t, k) == IF Capacity(t) = 0 THEN <<>> ELSE t.buckets[SlotIn(t, k)]
At(chain, k) == SelectInSeq(chain, LAMBDA e : e[1] = k)   \* 0 when absent

\* A node becomes the head of its chain.
Prepend(t, e) == [t EXCEPT !.buckets[SlotIn(t, e[1])] = <<e>> \o @, !.used = @ + 1]
PrependAll(t, chain) == FoldLeft(Prepend, t, chain)

IsRehashing(d) == d.idx # -1
Size(d) == d.ht[1].used + d.ht[2].used

\* The table that find, remove and entry find key k in, 0 if none
TableOf(d, k) ==
    CASE At(Chain(d.ht[1], k), k) # 0 -> 1
      [] IsRehashing(d) /\ At(Chain(d.ht[1], k), k) = 0 /\ At(Chain(d.ht[2], k), k) # 0 -> 2
      [] OTHER -> 0

FindIn(d, k) == LET i == TableOf(d, k) IN
    IF i = 0 THEN None ELSE LET c == Chain(d.ht[i], k) IN c[At(c, k)][2]

\* One bucket of the first table is emptied into the second.
MoveBucket(d, i) == LET chain == d.ht[1].buckets[i] IN
    [d EXCEPT !.ht[1].buckets[i] = <<>>, !.ht[1].used = @ - Len(chain),
              !.ht[2] = PrependAll(@, chain), !.idx = i]

Finished(d) == [ht |-> <<d.ht[2], Table(0)>>, idx |-> -1]

RECURSIVE RehashLoop(_, _, _)
RehashLoop(d, moved, empty) ==
    IF ~(moved < MinEntries \/ empty < MaxEmpty) THEN d
    ELSE IF d.idx >= Capacity(d.ht[1]) THEN Finished(d)
    ELSE LET n == Len(d.ht[1].buckets[d.idx + 1]) IN
         IF n > 0 THEN RehashLoop(MoveBucket(d, d.idx + 1), moved + n, 0)
         ELSE LET e == [d EXCEPT !.idx = @ + 1] IN
              IF empty + 1 >= MaxEmpty /\ moved > 0 THEN e
              ELSE RehashLoop(e, moved, empty + 1)

RehashStep(d) == IF IsRehashing(d) THEN RehashLoop(d, 0, 0) ELSE d

StartRehash(d, cap) == [d EXCEPT !.ht[2] = Table(cap), !.idx = 0]

ExpandIfNeeded(d) == LET t == d.ht[1] IN
    CASE IsRehashing(d) -> d
      [] ~IsRehashing(d) /\ Capacity(t) = 0 -> [d EXCEPT !.ht[1] = Table(InitialSize)]
      [] ~IsRehashing(d) /\ Capacity(t) > 0 /\ t.used >= Capacity(t) ->
            StartRehash(d, 2 * Capacity(t))
      [] OTHER -> d

\* SHRINK_RATIO is a quarter, and the threshold is rounded down.
ShrinkIfNeeded(d) == LET t == d.ht[1] IN
    IF ~IsRehashing(d) /\ Capacity(t) > InitialSize /\ t.used < Capacity(t) \div 4
    THEN StartRehash(d, Max({Capacity(t) \div 2, InitialSize}))
    ELSE d

FinishRehash(d) ==
    Finished(FoldLeft(MoveBucket, d, [i \in 1..(Capacity(d.ht[1]) - d.idx) |-> d.idx + i]))

ForceRehashTo(d, target) == LET e == IF IsRehashing(d) THEN FinishRehash(d) ELSE d IN
    IF Capacity(e.ht[1]) = BucketCount(target) THEN e
    ELSE [ht |-> << IF target = 0 THEN Table(0)
                    ELSE FoldLeft(PrependAll, Table(target), e.ht[1].buckets), Table(0) >>,
          idx |-> -1]

\* The node of k gets value v, in the table that holds it
Overwrite(d, k, v) == LET i == TableOf(d, k) IN
    [d EXCEPT !.ht[i].buckets[SlotIn(d.ht[i], k)][At(Chain(d.ht[i], k), k)][2] = v]

\* A node for a new key, in the table that takes new nodes
AddNode(d, k, v) == LET i == IF IsRehashing(d) THEN 2 ELSE 1 IN
    [d EXCEPT !.ht[i] = Prepend(@, <<k, v>>)]

DropNode(d, k) == LET i == TableOf(d, k) IN
    [d EXCEPT !.ht[i].buckets[SlotIn(d.ht[i], k)] = RemoveAt(@, At(@, k)),
              !.ht[i].used = @ - 1]

InsertOne(d, k, v) == LET e == RehashStep(ExpandIfNeeded(d)) IN
    IF TableOf(e, k) # 0 THEN Overwrite(e, k, v) ELSE AddNode(e, k, v)

\* DictIter: the chains of the first table, then of the second
Iterated(d) == FlattenSeq(d.ht[1].buckets) \o FlattenSeq(d.ht[2].buckets)

NewDict == [ht |-> <<Table(0), Table(0)>>, idx |-> -1]

-----------------------------------------------------------------------------
Contents(d) == [k \in Keys |-> FindIn(d, k)]

DictInit == dict = NewDict /\ dictReply = <<None, "done">> /\ dictMap = Contents(NewDict)

DictInsertTwice(k, v) == LET e == RehashStep(ExpandIfNeeded(dict)) IN
    /\ dict' = IF At(Chain(e.ht[1], k), k) # 0 THEN Overwrite(e, k, v) ELSE AddNode(e, k, v)
    /\ dictReply' = <<k, IF At(Chain(e.ht[1], k), k) # 0 THEN "replaced" ELSE "new">>

DictInsert(k, v) ==
    /\ dict' = InsertOne(dict, k, v)
    /\ dictReply' = <<k, IF TableOf(RehashStep(ExpandIfNeeded(dict)), k) # 0
                        THEN "replaced" ELSE "new">>

DictGet(k) == dictReply' = <<k, FindIn(dict, k)>> /\ UNCHANGED dict

\* get_mut, and a write through the reference it returns
DictGetMut(k, v) == LET d == RehashStep(dict) IN
    /\ dictReply' = <<k, FindIn(d, k)>>
    /\ dict' = IF TableOf(d, k) = 0 THEN d ELSE Overwrite(d, k, v)

DictRemove(k) == LET d == RehashStep(dict) IN
    IF TableOf(d, k) = 0
    THEN dict' = d /\ dictReply' = <<k, "absent">>
    ELSE /\ dict' = IF TableOf(d, k) = 1 THEN ShrinkIfNeeded(DropNode(d, k)) ELSE DropNode(d, k)
         /\ dictReply' = <<k, "removed">>

\* entry(k), followed by remove, by insert, or by and_modify and or_insert
DictEntry(k) == LET d == RehashStep(ExpandIfNeeded(dict)) IN
    IF TableOf(d, k) # 0
    THEN \/ dict' = DropNode(d, k) /\ dictReply' = <<k, FindIn(d, k)>>
         \/ \E v \in Values : dict' = Overwrite(d, k, v) /\ dictReply' = <<k, FindIn(d, k)>>
    ELSE \E v \in Values : dict' = AddNode(d, k, v) /\ dictReply' = <<k, "new">>

DictClear == dict' = NewDict /\ dictReply' = <<None, "cleared">>

DictReserve(n) ==
    /\ dict' = IF Capacity(dict.ht[1]) >= Size(dict) + n THEN dict
               ELSE ForceRehashTo(dict, Size(dict) + n)
    /\ dictReply' = <<None, "done">>

DictShrinkToFit == LET target == BucketCount(Size(dict)) IN
    /\ dict' = IF Capacity(dict.ht[1]) <= target /\ ~IsRehashing(dict) THEN dict
               ELSE ForceRehashTo(dict, target)
    /\ dictReply' = <<None, "done">>

\* The pairs are written in the order of the iterator and inserted on reading.
DictReload ==
    /\ dict' = FoldLeft(LAMBDA d, e : InsertOne(d, e[1], e[2]), NewDict, Iterated(dict))
    /\ dictReply' = <<None, "done">>

DictNext ==
    /\ \/ \E k \in Keys : DictGet(k) \/ DictRemove(k) \/ DictEntry(k)
       \/ \E k \in Keys, v \in Values : DictInsert(k, v) \/ DictGetMut(k, v)
       \/ DictClear \/ DictShrinkToFit \/ DictReload
       \/ \E n \in ReserveSizes : DictReserve(n)
    /\ dictMap' = Contents(dict')

-----------------------------------------------------------------------------
DictAsMap == INSTANCE AbstractMap WITH map <- dictMap, reply <- dictReply

\* However far a move between the two tables has come, and whatever resizing
\* a call sets off, insert, get, get_mut, remove, entry, clear, reserve and
\* shrink_to_fit do to the dictionary what the same call does to a map, and
\* answer as it would.
DictIsMap == DictAsMap!Spec

\* Every node lies in the bucket of its hash, the buckets below rehash_idx
\* are empty, the counters count the nodes, and no key has two nodes: the
\* iterator visits every key that get finds, once.
DictTablesOK ==
    /\ \A t \in Range(dict.ht) :
          /\ t.used = Len(FlattenSeq(t.buckets))
          /\ \A i \in 1..Capacity(t) : \A e \in Range(t.buckets[i]) : SlotIn(t, e[1]) = i
    /\ \A i \in 1..dict.idx : dict.ht[1].buckets[i] = <<>>
    /\ IsRehashing(dict) <=> Capacity(dict.ht[2]) > 0
    /\ LET visited == Iterated(dict) IN
          /\ \A i, j \in 1..Len(visited) : visited[i][1] = visited[j][1] => i = j
          /\ Range(visited) = {<<k, dictMap[k]>> : k \in {j \in Keys : dictMap[j] # None}}
=============================================================================
