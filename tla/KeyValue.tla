------------------------------ MODULE KeyValue ------------------------------
(***************************************************************************)
(* The keys and values that the structures of src/src/database hold, and   *)
(* None, the Option without a value.                                       *)
(***************************************************************************)
CONSTANTS Keys, Values, None

ASSUME KeyValueAssumption == None \notin Values
=============================================================================
