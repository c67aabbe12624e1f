SPECIFICATION Spec
CONSTANTS
    Users = {u1, u2}
    NoUser = NoUser
    Root = Root
    Sessions = {s1}
    Keys = {k1}
    Handlers = {h1, h2}
    ForeignKeys = FALSE
    Faults = FALSE
INVARIANT
    NoneOutlivesRevocation
SYMMETRY Interchangeable
CHECK_DEADLOCK FALSE
