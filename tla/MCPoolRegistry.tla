--------------------------- MODULE MCPoolRegistry ---------------------------
(* A small instance of PoolRegistry for TLC. *)
EXTENDS PoolRegistry, TLC

\* Sound for the safety runs only: session keys, owner objects, statements and
\* pools are interchangeable.
Symmetry ==
    Permutations(Keys \ {Stdio}) \cup Permutations(OwnerIds)
        \cup Permutations(Stmts) \cup Permutations(Pools)

=============================================================================
