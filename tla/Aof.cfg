CONSTANTS
    Parts = {"replay", "log", "compaction"}
    RecSet <- MCRecs
    Bytes <- MCBytes
    CrcByte = 1
    Headers = {"AOF1", "AOF2"}
    Policies = {"Strict", "Skip"}
    Damages = {"none", "cut", "tear", "flip"}
    MaxOld = 3
    MaxNew = 0
    k1 = k1
    k2 = k2
    Keys = {k1, k2}
    Policy = "EverySec"
    BatchSize = 2
    LogValues <- MCValue
    MaxLogRecs = 3
    MaxBad = 2
    Decays = {"sum", "op"}
    ShardOf <- MCShardOf
    Values <- MCValue
    Retention = 1
    Compacts = TRUE
    Snapshots = {TRUE, FALSE}
    MaxRecs = 2
    MaxClock = 2
    MaxCompactions = 1
SPECIFICATION AofSpec
INVARIANTS
    ReplayExact
    FileRemembers
    CleanRestartRestores
PROPERTIES
    ReplayEnds
    RepairHealsTorn
    WorkerResponds
CHECK_DEADLOCK FALSE
