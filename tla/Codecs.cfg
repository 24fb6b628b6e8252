SPECIFICATION Spec
CONSTANTS
    Radix = 8
    MaxVarintLen = 3
    MaxStringSize = 24
    MaxCollectionSize = 15
    MaxCompressedSize = 20
    MaxBitmapSize = 20
    LegacyBitmapSize = 6
    DenseSize = 3
    CompressFrom = 12
    ReadAhead = 64
    ItemLists <- MCItems
    MaxBinary = 11
    MaxDepth = 3
    Streams <- MCStreams
    JsonTexts <- MCJsonTexts
    Posts <- MCPosts
    ClientCalls <- MCClientCalls
    MaxCalls = 3
    Threads = {t1, t2}
    Chans = {c1, c2}
    Subs = {s1, s2, s3}
    MaxSubs = 1
    MaxGen = 2
    MaxMsgs = 5
    Capacity = 2
    Filtered = {2}
    Broken = {4}
    Wanted = {3, 5}
    BufferSizes = {0, 1}
    MaxBatch = 3
    HasTimeout = TRUE
    LagErrors = {TRUE, FALSE}
    Calls = {"recv", "try_recv", "recv_batch", "recv_with_condition"}
    N = 3
    MemberCapacity = 2
    MaxTaken = 5
INVARIANTS
    DumpsReadBack
    WireExact
    ExchangeInOrder
    BrokerSound
    FairRotation
PROPERTY Delivery
CHECK_DEADLOCK FALSE
