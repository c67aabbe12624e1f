SPECIFICATION FairSpec
CONSTANTS
    c1 = c1
    c2 = c2
    key1 = key1
    key2 = key2
    key3 = key3
    m1 = m1
    Nodes = {n1, n2}
    RedisNodes = {n1, n2}
    Channels = {c1}
    Rows <- OneRow
    Start <- OneStart
    Keys = {key1, key2}
    NoKey = NoKey
    Requests = {r1}
    Admins = {a1}
    NoOne = NoOne
    Queries <- OneQuery
    Listing <- ListingQuery
    MaxWrites = 1
    MaxFaults = 1
INVARIANT
    TypeOK
PROPERTIES
    HandlersFinish
    SnapshotsConverge
