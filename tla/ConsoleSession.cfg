SPECIFICATION Spec
CONSTANTS
    Accounts = {root, member}
    Admins = {root}
    First = {root}
    TurnstileOn = TRUE
    MaxSessions = 2
    MaxInFlight = 2
INVARIANTS
    TypeOK
    ShownIsActing
    
PROPERTIES
    SpinnerEnds
