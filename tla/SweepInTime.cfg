SPECIFICATION FairSpec
CONSTANTS
    S1 = S1
    S2 = S2
    S3 = S3
    Servers = {S1, S2, S3}
    WithOAuth = {S1, S2, S3}
    Reliable = {S3}
    Hanging = {S1}
    Touched = {S2}
    MaxMisses = 1
    Interval = 2
    Lead = 12
    Base = 1
    Cap = 4
    MaxExponent = 2
    MaxJitter = 1
    MaxRefresh = 2
    Lifetimes = {13}
    InitialLeft = {9, 13}
    MaxLeft = 13
    Order <- FirstThree
INVARIANTS TypeOK ReliableInTime
PROPERTIES Retried
