------------------------------- MODULE MCTokens -------------------------------
(* The ways to a token side by side in one run: the OAuth server's grants, the  *)
(* sign-in that leads to one, and POST /auth. They share no variable, so a      *)
(* behaviour belongs to one of them, the slice, and the others stay where they  *)
(* start, where no fair action is enabled.                                      *)
EXTENDS MCOAuthGrants, PasswordLogins, SignInRequests

CONSTANTS u1, u2
RedirectLists == {{u1}, {u2}}

VARIABLE slice

MCInit ==
    /\ slice \in {"oauth", "logins", "signIns"}
    /\ Init /\ LoginInit
    /\ SignInInit /\ (slice # "signIns" => allowed = {u1})

MCNext ==
    \/ slice = "oauth" /\ Next /\ UNCHANGED <<slice, loginVars, signInVars>>
    \/ slice = "logins" /\ LoginNext /\ UNCHANGED <<slice, vars, signInVars>>
    \/ slice = "signIns" /\ SignInNext /\ UNCHANGED <<slice, vars, loginVars>>

MCSpec == MCInit /\ [][MCNext]_<<slice, vars, loginVars, signInVars>> /\ Fairness /\ LoginFairness

=============================================================================
