CONSTANTS
    alice = alice
    SignIns = {s1, s2}
    Users = {alice}
    UserOf <- OneUser
    Tokens = {t1, t2, t3}
    RTokens = {r1, r2}
    Reqs = {q1, q2}
    MaxSessions = 2
    UserCap = 1
    None = None
SPECIFICATION Spec
SYMMETRY Symmetry
INVARIANTS
    RefreshTokensAccounted
    RevokedHoldsNothing
    FileFollowsStore
    NoStrandedPool
PROPERTIES
    ImplementsLifetimes
CHECK_DEADLOCK FALSE
