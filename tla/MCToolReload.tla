---------------------------- MODULE MCToolReload ----------------------------
EXTENDS ToolReload, TLC
CONSTANTS n1, q1, q2, A, B
D(q, b, m, s) == [sql |-> q, binds |-> b, masked |-> m, system |-> s]
Sets == { [n \in Names |-> D(q1, 1, FALSE, None)], [n \in Names |-> D(q1, 2, TRUE, None)],
          [n \in Names |-> D(q2, 1, FALSE, A)] }
Perm == {<<q1, A>>, <<q1, B>>, <<q2, A>>}
=============================================================================
