SPECIFICATION BrokerFairSpec
CONSTANTS
    Threads = {t1}
    Chans = {c1}
    Subs = {s1, s2}
    MaxSubs = 2
    MaxGen = 2
PROPERTY PublishReturns
CHECK_DEADLOCK FALSE
