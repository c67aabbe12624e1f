SPECIFICATION Spec
CONSTANTS
    c1 = c1
    c2 = c2
    key1 = key1
    key2 = key2
    key3 = key3
    m1 = m1
    Nodes = {n1}
    RedisNodes = {}
    Channels = {c1, c2}
    Rows <- TwoRows
    Start <- TwoStart
    Keys = {key1, key2, key3}
    NoKey = NoKey
    Requests = {r1, r2}
    Admins = {a1, a2}
    NoOne = NoOne
    Queries <- ChatQueries
    Listing <- ListingQuery
    MaxWrites = 2
    MaxFaults = 1
INVARIANTS
    ReloadHoldsLock
    RoutesCurrentTable
    FailoverByPriority
