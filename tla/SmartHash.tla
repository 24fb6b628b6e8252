----------------------------- MODULE SmartHash ------------------------------
(***************************************************************************)
(* The hash of src/src/database/smarthash: a vector of pairs while it is   *)
(* small (Repr::Zip), a HashMap once it has Threshold entries (Repr::Map). *)
(* When removals leave fewer than half of that, a flag asks the next       *)
(* insert or iter to go back to a vector, in whatever order the HashMap    *)
(* gives its entries up.                                                   *)
(***************************************************************************)
EXTENDS Integers, Sequences, FiniteSets, KeyValue

CONSTANT Threshold   \* THRESHOLD (32)
ASSUME SmartHashAssumption == Threshold \in Nat \ {0} /\ IsFiniteSet(Keys)

VARIABLES
    repr,        \* "Zip" or "Map"
    zip,         \* the vector of Repr::Zip, empty under Repr::Map
    hmap,        \* the HashMap of Repr::Map, empty under Repr::Zip
    pending,     \* pending_downgrade
    hashReply    \* the key of the last call, and what it returned
hashVars == <<repr, zip, hmap, pending, hashReply>>

Vacant == [k \in Keys |-> None]
Present(m) == {k \in Keys : m[k] # None}

InZip(z, k) == \E i \in 1..Len(z) : z[i][1] = k
Position(z, k) == CHOOSE i \in 1..Len(z) : z[i][1] = k
ZipGet(z, k) == IF InZip(z, k) THEN z[Position(z, k)][2] ELSE None

ZipWithout(z, k) ==
    [i \in 1..(Len(z) - 1) |-> IF i < Position(z, k) THEN z[i] ELSE z[i + 1]]

\* The orders in which map.drain() may give the entries of m
Drained(m) ==
    {z \in [1..Cardinality(Present(m)) -> {<<k, m[k]>> : k \in Present(m)}] :
        \A k \in Present(m) : InZip(z, k)}

SmartHashInit ==
    /\ repr = "Zip" /\ zip = <<>> /\ hmap = Vacant
    /\ pending = FALSE
    /\ hashReply = <<None, "done">>

\* insert, when the hash is in the form z of a vector
InsertZip(z, k, v) ==
    /\ pending' = FALSE
    /\ IF InZip(z, k)
       THEN /\ zip' = [z EXCEPT ![Position(z, k)] = <<k, v>>]
            /\ repr' = "Zip" /\ hmap' = Vacant
            /\ hashReply' = <<k, "replaced">>
       ELSE /\ hashReply' = <<k, "new">>
            /\ IF Len(z) + 1 >= Threshold
               THEN /\ repr' = "Map" /\ zip' = <<>>
                    /\ hmap' = [j \in Keys |-> ZipGet(Append(z, <<k, v>>), j)]
               ELSE /\ repr' = "Zip" /\ zip' = Append(z, <<k, v>>)
                    /\ hmap' = Vacant

InsertMap(k, v) ==
    /\ hmap' = [hmap EXCEPT ![k] = v]
    /\ hashReply' = <<k, IF hmap[k] = None THEN "new" ELSE "replaced">>
    /\ UNCHANGED <<repr, zip, pending>>

\* insert carries out a pending downgrade first.
SmartHashInsert(k, v) ==
    \/ repr = "Zip" /\ InsertZip(zip, k, v)
    \/ repr = "Map" /\ pending /\ \E z \in Drained(hmap) : InsertZip(z, k, v)
    \/ repr = "Map" /\ ~pending /\ InsertMap(k, v)

SmartHashGet(k) ==
    /\ hashReply' = <<k, IF repr = "Zip" THEN ZipGet(zip, k) ELSE hmap[k]>>
    /\ UNCHANGED <<repr, zip, hmap, pending>>

RemoveZip(k) ==
    /\ repr = "Zip"
    /\ IF InZip(zip, k)
       THEN zip' = ZipWithout(zip, k) /\ hashReply' = <<k, "removed">>
       ELSE UNCHANGED zip /\ hashReply' = <<k, "absent">>
    /\ UNCHANGED <<repr, hmap, pending>>

RemoveMap(k) ==
    /\ repr = "Map"
    /\ hmap' = [hmap EXCEPT ![k] = None]
    /\ hashReply' = <<k, IF hmap[k] = None THEN "absent" ELSE "removed">>
    /\ pending' = (pending \/ (hmap[k] # None /\ Cardinality(Present(hmap')) < Threshold \div 2))
    /\ UNCHANGED <<repr, zip>>

SmartHashRemove(k) == RemoveZip(k) \/ RemoveMap(k)

SmartHashClear ==
    /\ repr' = "Zip" /\ zip' = <<>> /\ hmap' = Vacant
    /\ pending' = FALSE
    /\ hashReply' = <<None, "cleared">>

\* do_downgrade
Downgrade ==
    /\ pending
    /\ repr' = "Zip" /\ zip' \in Drained(hmap) /\ hmap' = Vacant
    /\ pending' = FALSE

SmartHashIter ==
    /\ Downgrade \/ (~pending /\ UNCHANGED <<repr, zip, hmap, pending>>)
    /\ hashReply' = <<None, "done">>

\* Writing a hash out and reading it back keeps the representation, and
\* loses the flag, which serde skips.
SmartHashReload ==
    /\ pending' = FALSE
    /\ hashReply' = <<None, "done">>
    /\ UNCHANGED <<repr, zip, hmap>>

SmartHashNext ==
    \/ \E k \in Keys : SmartHashGet(k) \/ SmartHashRemove(k)
    \/ \E k \in Keys, v \in Values : SmartHashInsert(k, v)
    \/ SmartHashClear \/ SmartHashIter \/ SmartHashReload

SmartHashSpec == SmartHashInit /\ [][SmartHashNext]_hashVars

-----------------------------------------------------------------------------
HashContents == [k \in Keys |-> IF repr = "Zip" THEN ZipGet(zip, k) ELSE hmap[k]]
HashAsMap == INSTANCE AbstractMap WITH map <- HashContents, reply <- hashReply

\* In either representation, across the switch to a map, the switch back and
\* its postponement, a SmartHash answers as a map does and forgets no field.
SmartHashIsMap == HashAsMap!Spec

\* Only one representation holds entries.  The vector has fewer than
\* THRESHOLD of them and no field twice, so that its linear search is bounded
\* and removing a field leaves no second copy; and a downgrade is pending only
\* while the map is small enough for the vector that it asks for.
SmartHashSizes ==
    /\ repr = "Zip" => hmap = Vacant /\ ~pending /\ Len(zip) < Threshold
    /\ repr = "Map" => zip = <<>>
    /\ \A i, j \in 1..Len(zip) : zip[i][1] = zip[j][1] => i = j
    /\ pending => Cardinality(Present(hmap)) < Threshold \div 2
=============================================================================
