SPECIFICATION Spec
CONSTANTS
    Ids = {1, 2, 3}
    MaxMs = 1
    MaxUs = 2
    Asked = {1, 3}
    MaxLimit = 2
    Null = null
INVARIANTS
    TypeOK
    PagesDescend
    SkipsOnlyInsideAMillisecond
CHECK_DEADLOCK FALSE
