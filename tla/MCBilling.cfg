SPECIFICATION Spec
CONSTANTS
    u1 = u1
    k1 = k1
    k2 = k2
    Users = {u1}
    Tokens = {k1}
    Owner <- OneOwner
    NoToken = NoToken
    Requests = {r1, r2}
    Grants = {g1}
    InitQuota <- MeteredStart
    AdminQuotas <- UnlimitedOrMetered
    PlanQuotas <- PlanValues
    MaxCost = 2
    MaxDelivered = 2
    MaxFaults = 1
INVARIANTS
    TypeOK
    UsageAccounted
    AccountOverspendBounded
    KeyOverspendBounded
PROPERTIES
    ChargeNeverFunds
    SubscriptionEndsOnce
    MetersUsage
SYMMETRY Interchangeable
CHECK_DEADLOCK FALSE
