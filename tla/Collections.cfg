CONSTANTS
    Parts = {"dict", "smarthash", "intset", "skiplist", "shared", "quicklist", "listpack", "commands",
             "geo", "hll", "sds", "expire", "stream"}
    Keys = {1, 2, 3, 4}
    va = va
    vb = vb
    Values = {va, vb}
    None = None
    HashOf <- MCHashOf
    InitialSize = 1
    MinEntries = 1
    MaxEmpty = 1
    ReserveSizes = {2}
    Threshold = 4
    Numbers <- MCNumbers
    Limit <- MCLimit
    ListKeys = {1, 2, 3}
    MaxLevel = 2
    Tasks = {t1, t2, t3}
    ShardCount = 2
    ShardOfKey <- MCShardOfKey
    Wrap = 16
    MaxCalls = 3
    QuickLen = 5
    MaxSegment = 2
    OptimizeThreshold = 3
    ManySegments = 2
    FillDivisor = 1
    Base = 2
    Bytes <- MCBytes
    PackLen = 3
    PackCap = 24
    FirstCap = 4
    CmdKeys = {k1, k2}
    Fields = {f1, f2}
    Texts <- MCTexts
    MinInt <- MCMinInt
    MaxInt = 1
    MaxFloat = 1
    ByteBits = 2
    Offsets = {0, 3}
    MaxLen = 2
    Members = {1, 2, 3}
    Places <- MCPlaces
    Centres <- MCCentres
    Radii = {1, 2, 4}
    Quarter = 4
    Cosines <- MCCosines
    MaxEntries = 2
    High = 3
    Medium = 2
    RadiusSteps <- MCRadiusSteps
    Finest = 4
    MaxTree = 4
    Sketches = {"p", "q"}
    Hashes = {0, 1, 9, 17, 31}
    HashBits = 5
    Precision = 2
    RegisterBits = 3
    DenseByte = 4
    Thresholds = {1, 2}
    InlineCap = 3
    Radix = 2
    SdsBytes = {0, 1}
    SdsPieces <- MCSdsPieces
    Reserves = {1, 4}
    MaxI64 = 3
    NumberBuf = 4
    MaxText = 4
    TimedKeys = {1, 2}
    Ttls = {1, 2}
    MaxNow = 2
    MaxWall = 2
    MaxAdded = 4
SPECIFICATION Spec
SYMMETRY Symmetry
INVARIANTS
    SharedLenExact
    GeoExact
    SdsExact
    TimedExact
PROPERTIES
    ContainersRefine
    CommandsSound
    HllExact
CHECK_DEADLOCK FALSE
