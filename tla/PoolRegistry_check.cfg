CONSTANTS
    Stdio = stdio
    Keys = {stdio, a, b}
    OwnerIds = {o1, o2}
    Systems = {sys}
    Stmts = {t1}
    Pools = {p1, p2}
    None = None
SPECIFICATION FairSpec
INVARIANTS
    NoOrphanPool
    PoolKeptForStatement
    ActiveCountsUsers
PROPERTIES
    ClosedOwnerGainsNoPool
    ImplementsOwnership
    ClosedKeyReleasesPools
CHECK_DEADLOCK FALSE
