------------------------------ MODULE SkipList ------------------------------
(***************************************************************************)
(* The skip list of src/src/database/skiplist/skiplist_base.rs: nodes with *)
(* forward pointers on several levels and one backward pointer, from a     *)
(* head node.  A node is named by its key, the head by Head; a key that    *)
(* has no value is a node that is not allocated.                           *)
(***************************************************************************)
EXTENDS Integers, FiniteSetsExt, SequencesExt, KeyValue

CONSTANTS
    ListKeys,   \* keys of the list
    MaxLevel    \* MAX_LEVEL (16)
ASSUME SkipListAssumption == MaxLevel \in Nat \ {0} /\ ListKeys \subseteq Nat \ {0}

Head0 == 0      \* the head node
Nil == -1       \* no pointer

VARIABLES
    sl,          \* forward[level][node], backward[node], value, level, length
    skipReply    \* the key of the last call, and what it returned
skipVars == <<sl, skipReply>>

Nodes == ListKeys \cup {Head0}
Levels == 1..MaxLevel

EmptyList ==
    [forward |-> [i \in Levels |-> [n \in Nodes |-> Nil]],
     backward |-> [k \in ListKeys |-> Nil], value |-> [k \in ListKeys |-> None],
     level |-> 1, length |-> 0]

RECURSIVE Walk(_, _, _, _)
\* The last node of level i, from node n on, whose key is below k
Walk(s, i, n, k) == LET next == s.forward[i][n] IN
    IF next # Nil /\ next < k THEN Walk(s, i, next, k) ELSE n

RECURSIVE Descend(_, _, _, _)
\* The nodes where the walk leaves the levels i, i - 1, ..., 1
Descend(s, i, n, k) ==
    IF i = 0 THEN <<>>
    ELSE LET at == Walk(s, i, n, k) IN Append(Descend(s, i - 1, at, k), at)

\* The predecessors of k on the levels in use
FindUpdate(s, k) == Descend(s, s.level, Head0, k)

\* The node that search, insert, remove and range come to on the lowest level
Reached(s, k) == s.forward[1][FindUpdate(s, k)[1]]

Search(s, k) == IF Reached(s, k) = k THEN s.value[k] ELSE None

\* A node with levels 1..lvl is linked in behind its predecessors.
Linked(s, k, v, lvl) ==
    LET found == FindUpdate(s, k)
        update == [i \in 1..lvl |-> IF i <= s.level THEN found[i] ELSE Head0]
        next == s.forward[1][update[1]]
    IN  [s EXCEPT !.level = Max({@, lvl}), !.length = @ + 1, !.value[k] = v,
           !.forward = [i \in Levels |->
               IF i > lvl THEN @[i]
               ELSE [@[i] EXCEPT ![k] = s.forward[i][update[i]], ![update[i]] = k]],
           !.backward = [n \in ListKeys |->
               IF n = k THEN update[1] ELSE IF n = next THEN k ELSE @[n]]]

Inserted(s, k, v, lvl) ==
    IF Reached(s, k) = k THEN [s EXCEPT !.value[k] = v] ELSE Linked(s, k, v, lvl)

RECURSIVE Lowered(_)
\* Levels without a node are given up.
Lowered(s) ==
    IF s.level > 1 /\ s.forward[s.level][Head0] = Nil
    THEN Lowered([s EXCEPT !.level = @ - 1]) ELSE s

\* The node of k leaves the levels it is on and is freed.
Unlinked(s, k) ==
    LET update == FindUpdate(s, k)
        next == s.forward[1][k]
    IN  Lowered([s EXCEPT !.length = @ - 1, !.value[k] = None,
           !.forward = [i \in Levels |->
               IF i <= s.level /\ s.forward[i][update[i]] = k
               THEN [@[i] EXCEPT ![update[i]] = s.forward[i][k], ![k] = Nil] ELSE @[i]],
           !.backward = [n \in ListKeys |->
               IF n = k THEN Nil ELSE IF n = next THEN @[k] ELSE @[n]]])

RECURSIVE Follow(_, _)
\* SkipListIter and ReverseIter: the nodes from n on
Follow(next, n) == IF n \in {Nil, Head0} THEN <<>> ELSE <<n>> \o Follow(next, next[n])

RECURSIVE LastFrom(_, _, _)
\* last and last_node: as far as each level goes, from the highest down
LastFrom(s, i, n) ==
    IF i = 0 THEN n
    ELSE IF s.forward[i][n] = Nil THEN LastFrom(s, i - 1, n)
    ELSE LastFrom(s, i, s.forward[i][n])

Ascending(s) == Follow(s.forward[1], s.forward[1][Head0])
Descending(s) == Follow(s.backward, LastFrom(s, s.level, Head0))
\* range(a, b), which does not include b
RangeOf(s, a, b) == SelectSeq(Follow(s.forward[1], Reached(s, a)), LAMBDA k : k < b)

-----------------------------------------------------------------------------
SkipListInit == sl = EmptyList /\ skipReply = <<None, "done">>

\* random_level may give any level.
SkipListInsert(k, v) ==
    /\ \E lvl \in Levels : sl' = Inserted(sl, k, v, lvl)
    /\ skipReply' = <<k, "put">>

SkipListSearch(k) == skipReply' = <<k, Search(sl, k)>> /\ UNCHANGED sl

\* search_mut, and a write through the reference it returns
SkipListSearchMut(k, v) ==
    /\ Reached(sl, k) = k
    /\ sl' = [sl EXCEPT !.value[k] = v]
    /\ skipReply' = <<k, sl.value[k]>>

SkipListRemove(k) ==
    IF Reached(sl, k) = k
    THEN sl' = Unlinked(sl, k) /\ skipReply' = <<k, sl.value[k]>>
    ELSE skipReply' = <<k, None>> /\ UNCHANGED sl

SkipListClear == sl' = EmptyList /\ skipReply' = <<None, "cleared">>

\* clone and deserialize insert the entries one by one.
SkipListCopy ==
    /\ \E lvl \in [ListKeys -> Levels] :
          sl' = FoldLeft(LAMBDA s, k : Inserted(s, k, sl.value[k], lvl[k]), EmptyList, Ascending(sl))
    /\ skipReply' = <<None, "done">>

SkipListNext ==
    \/ \E k \in ListKeys : SkipListSearch(k) \/ SkipListRemove(k)
    \/ \E k \in ListKeys, v \in Values : SkipListInsert(k, v) \/ SkipListSearchMut(k, v)
    \/ SkipListClear \/ SkipListCopy

-----------------------------------------------------------------------------
SkipAsMap == INSTANCE AbstractMap WITH Keys <- ListKeys, map <- sl.value, reply <- skipReply

\* Whatever levels the random generator gives, the search finds exactly the
\* keys that were inserted and not removed, and insert, remove and clear act
\* as on a map.
SkipListIsMap == SkipAsMap!Spec

\* The lowest level holds every allocated node, in the order of keys, and so
\* does the chain of backward pointers in reverse; every higher level is a
\* part of the one below it.  No pointer leads to a node that was freed, the
\* levels above the list's level are empty, the highest in use is not (unless
\* it is the only one), and length counts the nodes.  range gives the keys
\* from its start up to but not including its end.
SkipListLinked ==
    LET live == {k \in ListKeys : sl.value[k] # None}
        chain(i) == Follow(sl.forward[i], sl.forward[i][Head0])
    IN  /\ Ascending(sl) = SetToSortSeq(live, <)
        /\ Descending(sl) = Reverse(Ascending(sl))
        /\ \A i \in 2..MaxLevel : chain(i) = SelectSeq(chain(i - 1), LAMBDA k : k \in Range(chain(i)))
        /\ \A k \in ListKeys \ live : sl.backward[k] = Nil /\ \A i \in Levels : sl.forward[i][k] = Nil
        /\ \A i \in Levels : i > sl.level => sl.forward[i][Head0] = Nil
        /\ sl.level > 1 => sl.forward[sl.level][Head0] # Nil
        /\ sl.length = Cardinality(live)
        /\ \A a, b \in ListKeys :
              RangeOf(sl, a, b) = SelectSeq(Ascending(sl), LAMBDA k : a <= k /\ k < b)
=============================================================================
