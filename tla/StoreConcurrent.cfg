CONSTANTS
    k1 = k1
    k2 = k2
    k3 = k3
    Keys = {k1, k2, k3}
    NumShards = 2
    ShardOf <- MCShardOf
    Clients = {c1, c2}
    Strings = {v1}
    Members = {m1}
    Positions = {p1}
    Ops = {"set", "del", "rename", "renamenx", "srem", "sadd", "flushdb"}
    MaxOps = 3
    IoFaults = TRUE
    Policy = "EverySec"
    BatchSize = 2
    MaxRestarts = 1
SPECIFICATION FairSpec
INVARIANT KeyCountExact
PROPERTY OperationsFinish
CHECK_DEADLOCK FALSE
