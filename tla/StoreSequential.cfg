CONSTANTS
    k1 = k1
    k2 = k2
    k3 = k3
    Keys = {k1, k2, k3}
    NumShards = 2
    ShardOf <- MCShardOf
    Clients = {c1}
    Strings = {v1}
    Members = {m1, m2}
    Positions = {p1}
    Ops = {"set", "mset", "del", "rename", "renamenx", "sadd", "srem", "spop", "geo_add"}
    IoFaults = FALSE
    Policy = "Always"
    BatchSize = 3
    MaxOps = 3
    MaxRestarts = 1
SPECIFICATION Spec
INVARIANTS
    LogMatchesIndex
    LossWindow
CHECK_DEADLOCK FALSE
