---------------------------- MODULE MCOAuthGrants ----------------------------
(* A small instance of OAuthGrants for TLC. *)
EXTENDS OAuthGrants, TLC

CONSTANTS alice

\* All sign-ins are one user's, who may hold UserCap refresh grants
OneUser == [s \in SignIns |-> alice]

Symmetry ==
    Permutations(SignIns) \cup Permutations(Tokens) \cup Permutations(RTokens)
        \cup Permutations(Reqs)

=============================================================================
