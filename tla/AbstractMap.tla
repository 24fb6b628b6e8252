---------------------------- MODULE AbstractMap ----------------------------
(***************************************************************************)
(* What every associative structure of src/src/database promises: a map    *)
(* from keys to values, one entry per key, and replies that are true of    *)
(* the map.  Dict, SmartHash, SkipList and IntSet are shown to implement   *)
(* it, each with the replies that its own methods give.                    *)
(***************************************************************************)
CONSTANTS Keys, Values, None

VARIABLES
    map,    \* the value of each key, None when the key is absent
    reply   \* the key of the last call, if any, and what the call returned

mapVars == <<map, reply>>

Empty == [k \in Keys |-> None]

Init == map = Empty /\ reply = <<None, "done">>

\* A store of v says nothing, says whether the key is new, or returns the
\* value it took the place of.
Put(k, v) ==
    /\ map' = [map EXCEPT ![k] = v]
    /\ reply' \in {<<k, a>> : a \in {"put", IF map[k] = None THEN "new" ELSE "replaced", map[k]}}

Take(k) ==
    /\ map' = [map EXCEPT ![k] = None]
    /\ reply' \in {<<k, a>> : a \in {IF map[k] = None THEN "absent" ELSE "removed", map[k]}}

Look(k) == reply' = <<k, map[k]>> /\ UNCHANGED map

Clear == map' = Empty /\ reply' = <<None, "cleared">>

\* Reorganisation of the structure, which no caller can see
Tidy == reply' = <<None, "done">> /\ UNCHANGED map

\* A step of another part of the program
Idle == UNCHANGED mapVars

Next ==
    \/ Idle
    \/ \E k \in Keys : Take(k) \/ Look(k) \/ \E v \in Values : Put(k, v)
    \/ Clear
    \/ Tidy

Spec == Init /\ [][Next]_mapVars
=============================================================================
