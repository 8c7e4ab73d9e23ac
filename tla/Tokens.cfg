CONSTANTS
    alice = alice
    SignIns = {s1}
    Users = {alice}
    UserOf <- OneUser
    Tokens = {t1, t2, t3}
    RTokens = {r1, r2}
    Reqs = {q1}
    MaxSessions = 2
    UserCap = 1
    None = None
    Logins = {g1, g2, g3}
    MaxRuns = 3
    TokenLimit = 2
    NoLogin = NoLogin
    u1 = u1
    u2 = u2
    Clients = {c1, c2}
    Uris = {u1, u2}
    Verifiers = {v1}
    Allowlists <- RedirectLists
    Posts = {p1, p2}
    MaxPending = 1
    MaxRestarts = 1
    Absent = Absent
SPECIFICATION MCSpec
INVARIANTS
    LoginPoolsAccounted
    SignInsAccounted
PROPERTIES
    RevocationCompletes
    ExpiredPoolsClose
CHECK_DEADLOCK FALSE
