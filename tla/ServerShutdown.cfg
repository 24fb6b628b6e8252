SPECIFICATION Spec
CONSTANTS
    Parts = {"server"}
    c1 = c1
    c2 = c2
    c3 = c3
    Conns <- MCOne
    IpOf <- MCIpOf
    MaxConns = 2
    MaxPerIp = 2
    Items = {"text"}
    MaxItems <- MCTwoItems
    Users = {u1}
    Creators = {d1, d2}
    Limit = 1
    SessionTtl = 1
    AccessTtl = 1
    RefreshTtl = 2
    MaxIds = 2
    MaxTokens = 4
    MaxNow = 3
    LineKeys = {k1, k2}
    Words = {w1, w2}
    PopCounts = {0, 1, 2}
    s1 = s1
    s2 = s2
    Slots = {s1, s2}
    SlotIp <- MCSlotIp
    IdWidth = 3
    MaxServed = 4
    MaxRequests = 1
    ReadSizes = {2}
    ReplySizes = {1}
PROPERTY ShutdownHeard
CHECK_DEADLOCK FALSE
