------------------------------- MODULE MCAof -------------------------------
(***************************************************************************)
(* The append-only file in one run: how a damaged file is read back, the   *)
(* life of a log with crashes, rewrites and repairs, and compaction beside *)
(* a store that keeps writing.  A behaviour follows one of the three, and  *)
(* the state of the others does not change.                                *)
(***************************************************************************)
EXTENDS AofReplay, AofLog, Compaction, TLC

CONSTANTS k1, k2, Parts

\* Keys and values of at most two bytes; the bytes 1 and 2 are also the
\* operation codes and short lengths, so that data looks like records.
MCBytes == {0, 1, 2, 3}

MCRecs ==
    {[op |-> SET, key |-> <<1>>, val |-> <<2>>], [op |-> SET, key |-> <<>>, val |-> <<1, 1>>],
     [op |-> DEL, key |-> <<>>, val |-> <<>>]}

\* One value and its absence: a key is set, deleted and set again.
MCValue == {[t |-> "str", s |-> {1}]}

\* Two keys in two shards, so that a snapshot can mix two moments.
MCShardOf == k1 :> 0 @@ k2 :> 1
MCOneShard == k1 :> 0

VARIABLE part   \* "replay", "log" or "compaction"

\* A replay that is over, for the behaviours that are not about one
NoReplay ==
    /\ hdr = "AOF2" /\ stored = <<>> /\ damage = [kind |-> "none", at |-> 1] /\ cells = <<>>
    /\ policy = "Strict" /\ pos = 0 /\ out = <<>> /\ stats = NoStats /\ status = "ok"

AofInit ==
    /\ part \in Parts
    /\ LogInit /\ Init
    /\ IF part = "replay" THEN ReplayInit ELSE NoReplay
    /\ part # "compaction" => enabled = FALSE

AofNext ==
    /\ UNCHANGED part
    /\ \/ part = "replay" /\ ReplayNext /\ UNCHANGED <<aofVars, vars>>
       \/ part = "log" /\ LogNext /\ UNCHANGED <<replayVars, vars>>
       \/ part = "compaction" /\ Next /\ UNCHANGED <<replayVars, aofVars>>

\* The compaction worker is a thread that runs, and a client goes on with its
\* operation.
AofSpec ==
    /\ AofInit /\ [][AofNext]_<<part, replayVars, aofVars, vars>>
    /\ WF_vars(Worker) /\ WF_vars(Apply \/ LogDelete)
=============================================================================
