\* The code's own attempts and stalls, three slots and two admins about one evaluation.
SPECIFICATION FairSpec
CONSTANTS
    Evaluations = {e1}
    Submitters = {s1}
    Admins = {a1, a2}
    Workers = {w1, w2, w3}
    MaxAttempts = 3
    MaxStalls = 1
    Report = report
    Null = null
INVARIANTS
    TypeOK
    ChecksTakeEffectOnce
    UncheckedEvaluationKeepsItsJob
    HistoryExplainsStatus
    AcknowledgedCancelStands
PROPERTIES
    JobsOnlyMoveOn
    TerminalIsForever
    ImplementsLifecycle
    AcceptedEvaluationSettles
    JobSettles
CHECK_DEADLOCK FALSE
