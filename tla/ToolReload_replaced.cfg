CONSTANTS
    n1 = n1
    q1 = q1
    q2 = q2
    A = A
    B = B
    Names = {n1}
    Sqls = {q1, q2}
    Systems = {A, B}
    Servers = {v1}
    Calls = {c1}
    ToolSets <- Sets
    Permitted <- Perm
    Broken = Broken
    MaxEdits = 1
    None = None
SPECIFICATION FairSpec
INVARIANTS
    LiveToolsReplaced
CHECK_DEADLOCK FALSE
