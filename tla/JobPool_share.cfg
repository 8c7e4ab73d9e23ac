CONSTANTS
    Slots = {s1, s2, s3}
    Calls = {c1, c2, c3}
    MaxJobs = 2
    None = None
SPECIFICATION MCSpec
INVARIANTS
    ExportJobNotShared
CHECK_DEADLOCK FALSE
