CONSTANTS
    Parts = {"compaction"}
    RecSet <- MCRecs
    Bytes <- MCBytes
    CrcByte = 1
    Headers = {"AOF2"}
    Policies = {"Skip"}
    Damages = {"none"}
    MaxOld = 0
    MaxNew = 0
    k1 = k1
    k2 = k2
    Keys = {k1}
    Policy = "Always"
    BatchSize = 2
    LogValues <- MCValue
    MaxLogRecs = 0
    MaxBad = 0
    Decays = {}
    ShardOf <- MCOneShard
    Values <- MCValue
    Retention = 1
    Compacts = TRUE
    Snapshots = {FALSE}
    MaxRecs = 2
    MaxClock = 1
    MaxCompactions = 1
SPECIFICATION AofSpec
INVARIANT RestartRestoresAll
CHECK_DEADLOCK FALSE
