SPECIFICATION Spec
CONSTANTS
    Requests = {p1, p2, p3, p4}
    Readers = {g1}
    Evaluations = {e1}
    Null = null
    Bodies <- SomeBodies
    Keys = {k1, k2}
    Absent = absent
    MaxInteger = 7
SYMMETRY Interchangeable
INVARIANTS
    TypeOK
    VersionsAreContiguous
    ReadersSeeWholeVersions
    PinnedVersionIsFresh
    CheckedCriteriaAreStored
PROPERTIES
    PublishBecomesLatest
    ImplementsVersionLog
CHECK_DEADLOCK FALSE
