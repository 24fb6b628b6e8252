CONSTANTS
    Parts = {"memory", "acl", "auth", "rotate", "old", "slow"}
    StoreKeys = {k1, k2}
    Elements = {m1, m2}
    Callers = {c1, c2}
    MaxStoreCalls = 3
    AclUsers = {u1}
    Passwords = {p1, p2}
    Categories = {read}
    AclCommands = {get}
    Names = {n1}
    MaxRules = 3
    MaxAgain = 1
    Tasks = {t1, t2}
    MaxFails = 2
    BlockDuration = 2
    MaxClock = 3
    LogThreads = {t1, t2}
    LineSizes = {1, 2}
    MaxFileSize = 2
    MaxLines = 2
    MaxDate = 1
    MaxDay = 5
    Retention = 2
    MaxLogged = 3
    Trackers = {t1, t2}
    Updaters = {u1}
    Timings = {0, 2}
    MaxQueries = 2
    MaxUpdates = 1
SPECIFICATION Spec
INVARIANTS
    ElementsConserved
    RotationKeepsLines
    RecentKept
PROPERTIES
    ServicesEnd
    AccessSafe
    SlowLogSound
CHECK_DEADLOCK FALSE
