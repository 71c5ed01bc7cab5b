SPECIFICATION AccountsSpec
CONSTANTS
    Requests = {r1, r2, r3}
    Calls = {c1, c2}
    Users = {founder, c1, c2}
    Emails = {e1}
    Roles = {"SUBMITTER", "ADMIN"}
    Founder = founder
    FounderEmail = e0
    Managed = {founder}
    Null = null
SYMMETRY Interchangeable
INVARIANTS
    AccountsTypeOK
    ParentsAreRevoked
    DisabledUserGetsNoSession
    OneAccountPerEmail
    AnswersMatchTheTable
PROPERTIES
    SpentTokensAreRefused
    RevokedIsForever
    LostPowerStaysLost
    PowerComesFromPower
CHECK_DEADLOCK FALSE
