SPECIFICATION FairSpec
CONSTANTS
    Evaluations = {e1}
    Submitters = {s1}
    Admins={a1}
    Workers = {w1}
    MaxAttempts = 2
    MaxStalls = 1
    Report = report
    Null = null
PROPERTIES
    DeadLetterEndsTheChecks
CHECK_DEADLOCK FALSE
