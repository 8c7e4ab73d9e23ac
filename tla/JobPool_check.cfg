CONSTANTS
    Slots = {s1, s2, s3}
    Calls = {c1, c2}
    MaxJobs = 2
    None = None
SPECIFICATION MCSpec
INVARIANTS
    JobsAccounted
PROPERTIES
    QueriesEnd
CHECK_DEADLOCK FALSE
