----------------------------- MODULE MCServices -----------------------------
(***************************************************************************)
(* What the connections of a server share, in one run: the in-memory store,*)
(* the access control, and the log.  A behaviour uses one of them, and the *)
(* state of the others does not change.                                    *)
(***************************************************************************)
EXTENDS MemoryStore, Access, Logging

CONSTANT Parts

VARIABLE part   \* the service in use

callVars == <<storeVars, accessVars>>
logVars == <<rotateVars, oldVars, slowVars>>
vars == <<part, callVars, logVars>>

\* A service that is not in use has one initial state.
Init ==
    /\ part \in Parts
    /\ MemoryInit
    /\ IF part = "auth" THEN AuthInit ELSE AclInit
    /\ RotateInit /\ OldInit /\ SlowInit
    /\ part # "rotate" => naming = "Simple"
    /\ part # "old" => policy = "daily"
    /\ part # "slow" => withArgs

NextCall ==
    \/ part = "memory" /\ MemoryNext /\ UNCHANGED accessVars
    \/ part = "acl" /\ AclNext /\ UNCHANGED storeVars
    \/ part = "auth" /\ AuthNext /\ UNCHANGED storeVars

NextLog ==
    \/ part = "rotate" /\ RotateNext /\ UNCHANGED <<oldVars, slowVars>>
    \/ part = "old" /\ OldNext /\ UNCHANGED <<rotateVars, slowVars>>
    \/ part = "slow" /\ SlowNext /\ UNCHANGED <<rotateVars, oldVars>>

Next ==
    /\ UNCHANGED part
    /\ \/ NextCall /\ UNCHANGED logVars
       \/ NextLog /\ UNCHANGED callVars

\* Tasks and threads go on with the calls they have begun.
Spec == Init /\ [][Next]_vars /\ MemoryFair /\ SlowFair /\ AuthFair

\* Every call of the store and of the authentication returns, but for the calls
\* of the store that wait for a radius query around a member.
ServicesEnd == CallsReturn /\ AuthCallsReturn
=============================================================================
