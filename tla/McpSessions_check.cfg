CONSTANTS
    k1 = k1
    t1 = t1
    t2 = t2
    s1 = s1
    s2 = s2
    Keys = {k1}
    Tokens = {t1, t2}
    KeyOf <- OneGrant
    Sessions = {s1, s2}
    Reqs = {r1, r2}
    None = None
SPECIFICATION MCSpec
INVARIANTS
    SessionsAccounted
    CleanupClosesSessions
    CleanExit
    PoolsFollowTokens
CHECK_DEADLOCK FALSE
PROPERTIES
    EndedKeySessionsEnd
