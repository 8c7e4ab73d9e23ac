CONSTANTS
    Ids = {e1, e2}
    Readers = {d1, d2}
    MaxConcurrent = 2
    MaxBytes = 2
    DirMaxBytes = 4
    MaxDownloads = 1
    BatchBytes = 2
    TailBytes = 1
    None = None
SPECIFICATION Spec
INVARIANTS
    CursorReleased
CHECK_DEADLOCK FALSE
