SPECIFICATION AccountsSpec
CONSTANTS
    Requests = {r1}
    Calls = {c1, c2}
    Users = {founder, c1, c2}
    Emails = {e1}
    Roles = {"SUBMITTER", "REVIEWER", "ADMIN"}
    Founder = founder
    FounderEmail = e0
    Managed = {}
    Null = null
SYMMETRY Interchangeable
INVARIANTS
    DuplicatesAreConflicts
CHECK_DEADLOCK FALSE
