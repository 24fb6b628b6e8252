------------------------- MODULE MCPersistentStore -------------------------
(* PersistentStore with two keys in shard 0 and one in shard 1.            *)
EXTENDS PersistentStore, TLC

CONSTANTS k1, k2, k3

MCShardOf == (k1 :> 0) @@ (k2 :> 0) @@ (k3 :> 1)

=============================================================================
