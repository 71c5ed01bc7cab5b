SPECIFICATION Spec
CONSTANTS
    Requests = {r1, r2, r3}
    Users = {u1}
    Null = null
SYMMETRY Interchangeable
INVARIANTS
    SingleUse
CHECK_DEADLOCK FALSE
