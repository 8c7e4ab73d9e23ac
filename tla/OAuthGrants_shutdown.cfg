CONSTANTS
    alice = alice
    SignIns = {s1, s2}
    Users = {alice}
    UserOf <- OneUser
    Tokens = {t1, t2}
    RTokens = {r1, r2}
    Reqs = {q1}
    MaxSessions = 2
    UserCap = 1
    None = None
SPECIFICATION Spec
PROPERTIES
    ShutdownKeepsFile
CHECK_DEADLOCK FALSE
