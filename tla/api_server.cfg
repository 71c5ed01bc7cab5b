SPECIFICATION FairSpec
CONSTANTS
    Requests = {r1}
    Probes = {p1}
    Signals = {term, int}
INVARIANTS
    TypeOK
    NobodyWaitsOnAClosedClient
PROPERTIES
    AnswersTellTheEffect
    ReadyMeansReachable
    OnlyRedisKeepsClientsWaiting
    OnlyHangingClientsHoldShutdown
CHECK_DEADLOCK FALSE
