\* A client that waits for a Redis that stays away.
SPECIFICATION FairSpec
CONSTANTS
    Requests = {r1}
    Probes = {p1}
    Signals = {term}
PROPERTIES
    EveryClientIsAnswered
CHECK_DEADLOCK FALSE
