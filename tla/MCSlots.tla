------------------------------ MODULE MCSlots ------------------------------
(***************************************************************************)
(* Instances of SlotManager and Cluster in one run.  The slot manager is   *)
(* used by threads that start and finish migrations, or by an operator's   *)
(* rebalancing, or by a cluster store: a behaviour chooses one of the      *)
(* three at its start, and the state of the others does not change.        *)
(*                                                                         *)
(* Two keys have one hash tag, a third has another.                        *)
(***************************************************************************)
EXTENDS Cluster, TLC

CONSTANTS ka, kb, kc
MCSlotOf == ka :> 0 @@ kb :> 0 @@ kc :> 1

MCRequested == {<<0, 1>>, <<0, 2>>, <<1, 0>>}

VARIABLE part   \* "calls", "rebalancer" or "cluster"

storeVars == <<clientVars, workerVars, shutdown>>

Init ==
    /\ part \in {"calls", "rebalancer", "cluster"}
    /\ RebalancerInit /\ ClusterInit

Next ==
    /\ UNCHANGED part
    /\ \/ part = "calls" /\ SlotNext /\ UNCHANGED <<opVars, storeVars>>
       \/ part = "rebalancer" /\ RebalancerNext /\ UNCHANGED storeVars
       \/ part = "cluster" /\ ClusterNext /\ UNCHANGED opVars

vars == <<part, slotVars, cache, opVars, storeVars>>

\* The store's thread runs, and a call that has begun is carried to its end.
FairSpec ==
    /\ Init /\ [][Next]_vars
    /\ WF_vars(part = "cluster" /\ Stop /\ UNCHANGED <<part, opVars>>)
    /\ WF_vars(part = "cluster" /\ WorkerCall /\ UNCHANGED <<part, opVars>>)
    /\ \A c \in Clients :
          WF_vars(part = "cluster" /\ ClientCall(c) /\ UNCHANGED <<part, opVars>>)
=============================================================================
