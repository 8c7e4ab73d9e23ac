----------------------------- MODULE SignInProofs -----------------------------
(* Proofs about the two ways to sign in, for all values of their constants:    *)
(* which pool each sign-in holds, and who closes it.                           *)
EXTENDS SignInRequests, PasswordLogins, FiniteSetTheorems, TLAPS

(* A sign-in from the page to the tokens (SignInRequests)                      *)

(* A sign-in that was not answered has no code, no timer and no tokens.        *)
Unanswered(s) ==
    post[s] \in {"none", "checking"} => authCode[s] = "none" /\ s \notin timers /\ issued[s] = Absent

(* A sign-in that is being checked, or waits as a code for its exchange.       *)
Waiting(s) == post[s] = "checking" \/ authCode[s] = "pending"

(* What a sign-in that waits was asked for is right under the settings of this *)
(* process, and it holds its pool.                                             *)
RequestKept(s) ==
    Waiting(s) =>
        /\ request[s] \in LoginRequest
        /\ request[s].uri \in registered[request[s].client] \cap allowed
        /\ checkPool[s] = "check"

(* The pool of a check is ended by the check or by the timer of its code.      *)
PoolPlaced(s) == checkPool[s] = "check" => post[s] = "checking" \/ s \in timers

(* What was issued, to whom, and where its pool went.                          *)
TokensRight(s) ==
    issued[s] # Absent =>
        /\ issued[s].sent.client = issued[s].asked.client
        /\ issued[s].sent.verifier = issued[s].asked.challenge
        /\ checkPool[s] = IF issued[s].live THEN "grant" ELSE "closed"

(* Codes that wait for their exchange.                                         *)
PendingCodes == {s \in Posts : authCode[s] = "pending"}

(* The pool of a code and the check of its URI date from the sign-in, so the   *)
(* sign-ins that are still being checked belong to the invariant.              *)
SignInInv ==
    /\ SignInTypeOK
    /\ Cardinality(PendingCodes) <= MaxPending
    /\ \A s \in Posts : Unanswered(s) /\ RequestKept(s) /\ PoolPlaced(s) /\ TokensRight(s)

(* What the invariant says of codes, pools and tokens is the property.         *)
LEMMA SignInInvariant == SignInInv => SignInsAccounted
BY DEF SignInInv, SignInsAccounted, PendingCodes, RequestKept, Waiting, PoolPlaced, TokensRight

(* No sign-in was begun at first.                                              *)
LEMMA SignInInitInv == SignInInit => SignInInv
<1> SUFFICES ASSUME SignInInit PROVE SignInInv
  OBVIOUS
<1>1. SignInTypeOK
  BY SignInsAssumption DEF SignInInit, SignInTypeOK
<1>2. PendingCodes = {}
  BY DEF SignInInit, PendingCodes
<1>3. Cardinality(PendingCodes) <= MaxPending
  BY <1>2, FS_EmptySet, SignInsAssumption
<1> QED BY <1>1, <1>3 DEF SignInInit, SignInInv, Unanswered, RequestKept, Waiting, PoolPlaced, TokensRight

(* Codes that stop waiting leave room.                                         *)
LEMMA FewerPending ==
    ASSUME SignInInv, \A s \in Posts : authCode'[s] = "pending" => authCode[s] = "pending"
    PROVE  Cardinality(PendingCodes') <= MaxPending
<1>1. PendingCodes' \subseteq PendingCodes /\ PendingCodes \subseteq Posts
  BY DEF PendingCodes
<1>2. IsFiniteSet(PendingCodes)
  BY <1>1, FS_Subset, SignInsAssumption
<1> PICK S \in SUBSET Posts, T \in SUBSET Posts : S = PendingCodes /\ T = PendingCodes'
  BY <1>1
<1>3. Cardinality(T) <= Cardinality(S) /\ Cardinality(S) \in Nat /\ Cardinality(T) \in Nat
  BY <1>1, <1>2, FS_Subset, FS_CardinalityType
<1> QED BY <1>3, SignInsAssumption DEF SignInInv

(* One more code has to fit, after those that expired were swept.              *)
LEMMA OneMorePending ==
    ASSUME SignInInv, NEW s \in Posts,
           Cardinality({p \in Posts : Swept[p] = "pending"}) < MaxPending,
           authCode' = [Swept EXCEPT ![s] = "pending"]
    PROVE  Cardinality(PendingCodes') <= MaxPending
<1> PICK S \in SUBSET Posts : S = {p \in Posts : Swept[p] = "pending"}
  OBVIOUS
<1>1. PendingCodes' = S \cup {s}
  BY DEF PendingCodes, Swept
<1>2. IsFiniteSet(S)
  BY FS_Subset, SignInsAssumption
<1>3. Cardinality(S) \in Nat /\ Cardinality(S) < MaxPending
  BY <1>2, FS_CardinalityType
<1>4. Cardinality(S \cup {s}) = IF s \in S THEN Cardinality(S) ELSE Cardinality(S) + 1
  BY <1>2, FS_AddElement
<1> QED BY <1>1, <1>3, <1>4, SignInsAssumption

(* Every step of a sign-in keeps the types.                                    *)
LEMMA SignInTypeStep ==
    ASSUME SignInInv, SignInNext
    PROVE  SignInTypeOK'
<1>t. SignInTypeOK
  BY DEF SignInInv
<1> USE <1>t, SignInsAssumption
<1>1. ASSUME NEW c \in Clients, RegisterClient(c) PROVE SignInTypeOK'
  BY <1>1 DEF RegisterClient, SignInTypeOK
<1>2. ASSUME NEW c \in Clients, NEW u \in Uris \cup {Absent}, NEW v \in Verifiers, Authorize(c, u, v)
      PROVE  SignInTypeOK'
  <2> PICK uri \in Uris, b \in BOOLEAN :
          form' = [client |-> c, uri |-> uri, explicit |-> b, challenge |-> v]
    BY <1>2 DEF Authorize, SignInTypeOK
  <2> QED BY <1>2 DEF Authorize, SignInTypeOK, LoginRequest
<1>3. CASE FormExpires
  BY <1>3 DEF FormExpires, SignInTypeOK
<1>4. ASSUME NEW s \in Posts, PostSignIn(s) PROVE SignInTypeOK'
  BY <1>4 DEF PostSignIn, SignInTypeOK
<1>5. ASSUME NEW s \in Posts, SignInRefused(s) PROVE SignInTypeOK'
  BY <1>5 DEF SignInRefused, Answer, Forget, CloseCheck, Closing, SignInTypeOK
<1>6. ASSUME NEW s \in Posts, TooManyPending(s) PROVE SignInTypeOK'
  BY <1>6 DEF TooManyPending, Answer, Forget, CloseCheck, Closing, Swept, SignInTypeOK
<1>7. ASSUME NEW s \in Posts, IssueCode(s) PROVE SignInTypeOK'
  BY <1>7 DEF IssueCode, Answer, Swept, SignInTypeOK
<1>8. ASSUME NEW s \in Posts, CodeExpires(s) PROVE SignInTypeOK'
  BY <1>8 DEF CodeExpires, Forget, SignInTypeOK
<1>9. ASSUME NEW s \in Posts, CodeTimer(s) PROVE SignInTypeOK'
  BY <1>9 DEF CodeTimer, CloseCheck, Closing, SignInTypeOK
<1>10. ASSUME NEW s \in Posts, NEW r \in TokenRequest, ExchangeRefused(s, r) PROVE SignInTypeOK'
  BY <1>10 DEF ExchangeRefused, Forget, CloseCheck, Closing, SignInTypeOK
<1>11. ASSUME NEW s \in Posts, NEW r \in TokenRequest, NoSessionLeft(s, r) PROVE SignInTypeOK'
  BY <1>11 DEF NoSessionLeft, Forget, CloseCheck, Closing, SignInTypeOK
<1>12. ASSUME NEW s \in Posts, NEW r \in TokenRequest, ExchangeCode(s, r) PROVE SignInTypeOK'
  <2>1. request[s] \in LoginRequest
    BY <1>12 DEF ExchangeCode, Matches, SignInInv, RequestKept, Waiting
  <2>2. issued' \in [Posts -> {Absent} \cup [asked: LoginRequest, sent: TokenRequest, live: BOOLEAN]]
    BY <1>12, <2>1 DEF ExchangeCode, SignInTypeOK
  <2> QED BY <1>12, <2>2 DEF ExchangeCode, Forget, SignInTypeOK
<1>13. ASSUME NEW s \in Posts, ReplayCode(s) PROVE SignInTypeOK'
  <2> DEFINE x == [issued[s] EXCEPT !.live = FALSE]
  <2>1. CASE issued[s] = Absent
    BY <1>13, <2>1 DEF ReplayCode, SignInTypeOK
  <2>2. CASE issued[s] # Absent
    <3>1. x \in [asked: LoginRequest, sent: TokenRequest, live: BOOLEAN]
      BY <2>2 DEF SignInTypeOK
    <3>2. issued' = [issued EXCEPT ![s] = x]
      BY <1>13, <2>2 DEF ReplayCode, SignInTypeOK
    <3> HIDE DEF x
    <3>3. issued' \in [Posts -> {Absent} \cup [asked: LoginRequest, sent: TokenRequest, live: BOOLEAN]]
      BY <3>1, <3>2 DEF SignInTypeOK
    <3> QED BY <1>13, <2>2, <3>3 DEF ReplayCode, SignInTypeOK
  <2> QED BY <2>1, <2>2
<1>14. CASE ResetState
  BY <1>14 DEF ResetState, Closing, SignInTypeOK
<1>15. CASE RestartProcess
  BY <1>15 DEF RestartProcess, SignInTypeOK
<1> QED BY <1>1, <1>2, <1>3, <1>4, <1>5, <1>6, <1>7, <1>8, <1>9, <1>10, <1>11, <1>12, <1>13,
    <1>14, <1>15 DEF SignInNext

(* Every step keeps the requests, pools and tokens in their places.            *)
LEMMA SignInStep ==
    ASSUME SignInInv, SignInNext
    PROVE  SignInInv'
<1>t. SignInTypeOK /\ SignInTypeOK'
  BY SignInTypeStep DEF SignInInv
<1> DEFINE Parts == \A s \in Posts : Unanswered(s) /\ RequestKept(s) /\ PoolPlaced(s) /\ TokensRight(s)
           Few == Cardinality(PendingCodes) <= MaxPending
<1>h. Parts /\ Few
  BY DEF SignInInv
<1> SUFFICES Parts' /\ Few'
  BY <1>t DEF SignInInv
<1>f. (\A s \in Posts : authCode'[s] = "pending" => authCode[s] = "pending") => Few'
  BY FewerPending
<1> HIDE DEF Few
<1> USE <1>t, <1>h, <1>f, SignInsAssumption DEF SignInTypeOK, Unanswered, RequestKept, Waiting, PoolPlaced, TokensRight
<1>1. ASSUME NEW c \in Clients, RegisterClient(c) PROVE Parts' /\ Few'
  BY <1>1 DEF RegisterClient, LoginRequest
<1>2. ASSUME NEW c \in Clients, NEW u \in Uris \cup {Absent}, NEW v \in Verifiers, Authorize(c, u, v)
      PROVE  Parts' /\ Few'
  BY <1>2 DEF Authorize
<1>3. CASE FormExpires
  BY <1>3 DEF FormExpires
<1>4. ASSUME NEW s \in Posts, PostSignIn(s) PROVE Parts' /\ Few'
  BY <1>4 DEF PostSignIn
<1>5. ASSUME NEW s \in Posts, SignInRefused(s) PROVE Parts' /\ Few'
  BY <1>5 DEF SignInRefused, Answer, Forget, CloseCheck, Closing
<1>6. ASSUME NEW s \in Posts, TooManyPending(s) PROVE Parts' /\ Few'
  BY <1>6 DEF TooManyPending, Answer, Forget, CloseCheck, Closing, Swept
<1>7. ASSUME NEW s \in Posts, IssueCode(s) PROVE Parts' /\ Few'
  <2>1. Few'
    BY <1>7, OneMorePending DEF IssueCode, Few
  <2>2. Parts'
    BY <1>7 DEF IssueCode, Answer, Swept
  <2> QED BY <2>1, <2>2
<1>8. ASSUME NEW s \in Posts, CodeExpires(s) PROVE Parts' /\ Few'
  BY <1>8 DEF CodeExpires, Forget
<1>9. ASSUME NEW s \in Posts, CodeTimer(s) PROVE Parts' /\ Few'
  BY <1>9 DEF CodeTimer, CloseCheck, Closing
<1>10. ASSUME NEW s \in Posts, NEW r \in TokenRequest, ExchangeRefused(s, r) PROVE Parts' /\ Few'
  BY <1>10 DEF ExchangeRefused, Pending, Forget, CloseCheck, Closing
<1>11. ASSUME NEW s \in Posts, NEW r \in TokenRequest, NoSessionLeft(s, r) PROVE Parts' /\ Few'
  BY <1>11 DEF NoSessionLeft, Matches, Forget, CloseCheck, Closing
<1>12. ASSUME NEW s \in Posts, NEW r \in TokenRequest, ExchangeCode(s, r) PROVE Parts' /\ Few'
  BY <1>12 DEF ExchangeCode, Matches, Forget
<1>13. ASSUME NEW s \in Posts, ReplayCode(s) PROVE Parts' /\ Few'
  BY <1>13 DEF ReplayCode
<1>14. CASE ResetState
  BY <1>14 DEF ResetState, Pending, Closing
<1>15. CASE RestartProcess
  BY <1>15 DEF RestartProcess
<1> QED BY <1>1, <1>2, <1>3, <1>4, <1>5, <1>6, <1>7, <1>8, <1>9, <1>10, <1>11, <1>12, <1>13,
    <1>14, <1>15 DEF SignInNext

(* However pages, checks, codes and changed settings interleave, with restarts *)
(* between, a code waits only for a client and a redirect URI that are right,  *)
(* no more codes wait than the limit, no pool of a check is left open, and     *)
(* tokens go to the client the user signed in for.                             *)
THEOREM SignInsAreAccounted == SignInSpec => []SignInsAccounted
<1>1. SignInInv /\ UNCHANGED signInVars => SignInInv'
  BY DEF SignInInv, SignInTypeOK, PendingCodes, Unanswered, RequestKept, Waiting, PoolPlaced, TokensRight, signInVars
<1> QED BY <1>1, SignInInvariant, SignInInitInv, SignInStep, PTL DEF SignInSpec

-----------------------------------------------------------------------------
(* POST /auth and the tokens it gives (PasswordLogins)                         *)

(* What a login was audited for, and what it may hold where it stands *)
Attempted(l) ==
    /\ token[l] # "none" => attempt[l] = "done"
    /\ pool[l] = "check" => attempt[l] = "testing"
    /\ pool[l] = "token" => token[l] # "none"
    /\ attempt[l] \in {"none", "testing", "refused"} => audited[l] = {}
    /\ attempt[l] = "full" => audited[l] = {"error"}
    /\ attempt[l] = "done" => \E outcome \in {"success", "failure", "error"} :
          /\ audited[l] = {outcome}
          /\ outcome = "success" <=> token[l] # "none"

(* The pool of a token that ended is one that some run has still to close *)
PoolHeld(l) ==
    pool[l] = "token" =>
        \/ token[l] \in {"live", "expired"}
        \/ \E w \in Runs : l \in cleanup[w].todo \/ (cleanup[w].at = l /\ cleanup[w].step = "sessions")

(* Only logins that came when shutdown closed pools have one after that *)
LateOnes(l) ==
    downStep \in {"pools", "stopping", "closed"} /\ pool[l] \in {"check", "token"} => l \in late

(* A run goes over tokens, one at a time, and forgets all when it is over *)
RunPlaced(w) ==
    /\ cleanup[w].step # "idle" => \A l \in cleanup[w].todo : token[l] # "none"
    /\ cleanup[w].step = "sessions" => cleanup[w].at \in Logins
    /\ cleanup[w].step = "idle" /\ (w # DrainRun \/ downStep \in {"serving", "tokens"}) => cleanup[w] = NoRun
    /\ w = DrainRun /\ downStep \in {"serving", "pools", "stopping", "closed"} => cleanup[w].step = "idle"

(* Who ended a token closes its pool only later, so the runs that do belong to *)
(* the invariant.                                                              *)
LoginInv ==
    /\ LoginTypeOK
    /\ Cardinality(HeldTokens) <= TokenLimit
    /\ \A l \in Logins : Attempted(l) /\ PoolHeld(l) /\ LateOnes(l)
    /\ \A w \in Runs : RunPlaced(w)

(* The audit of a login has one outcome.                                       *)
LEMMA LoginInvariant == LoginInv => LoginPoolsAccounted
<1> SUFFICES ASSUME LoginInv PROVE LoginPoolsAccounted
  OBVIOUS
<1>1. ASSUME NEW l \in Logins, attempt[l] = "done"
      PROVE  /\ Cardinality(audited[l]) = 1
             /\ audited[l] = IF token[l] # "none" THEN {"success"} ELSE audited[l] \ {"success"}
  <2> PICK outcome \in {"success", "failure", "error"} :
          audited[l] = {outcome} /\ (outcome = "success" <=> token[l] # "none")
    BY <1>1 DEF LoginInv, Attempted
  <2>1. Cardinality(audited[l]) = 1
    BY FS_Singleton
  <2> QED BY <2>1
<1> QED BY <1>1 DEF LoginPoolsAccounted, LoginInv, Attempted, PoolHeld, LateOnes, HeldTokens

(* Nobody has logged in at first.                                              *)
LEMMA LoginInitInv == LoginInit => LoginInv
<1> SUFFICES ASSUME LoginInit PROVE LoginInv
  OBVIOUS
<1>1. LoginTypeOK
  BY DEF LoginInit, LoginTypeOK, CleanupRuns, NoRun, Runs, DrainRun
<1>2. HeldTokens = {}
  BY DEF LoginInit, HeldTokens
<1>3. Cardinality(HeldTokens) <= TokenLimit
  BY <1>2, FS_EmptySet, LoginsAssumption
<1> QED BY <1>1, <1>3 DEF LoginInit, LoginInv, Attempted, PoolHeld, LateOnes, RunPlaced, NoRun

(* Tokens that end leave room.                                                 *)
LEMMA FewerHeld ==
    ASSUME LoginInv, \A l \in Logins : token'[l] \in {"live", "expired"} => token[l] \in {"live", "expired"}
    PROVE  Cardinality(HeldTokens') <= TokenLimit
<1> PICK S \in SUBSET Logins, T \in SUBSET Logins : S = HeldTokens /\ T = HeldTokens'
  BY DEF HeldTokens
<1>1. T \subseteq S
  BY DEF HeldTokens
<1>2. IsFiniteSet(S)
  BY FS_Subset, LoginsAssumption
<1>3. Cardinality(T) <= Cardinality(S) /\ Cardinality(S) \in Nat /\ Cardinality(T) \in Nat
  BY <1>1, <1>2, FS_Subset, FS_CardinalityType
<1> QED BY <1>3, LoginsAssumption DEF LoginInv

(* One more token has to fit.                                                  *)
LEMMA OneMoreHeld ==
    ASSUME LoginInv, NEW l \in Logins, Cardinality(HeldTokens) < TokenLimit,
           token' = [token EXCEPT ![l] = "live"]
    PROVE  Cardinality(HeldTokens') <= TokenLimit
<1> PICK S \in SUBSET Logins : S = HeldTokens
  BY DEF HeldTokens
<1>1. HeldTokens' = S \cup {l}
  BY DEF HeldTokens, LoginInv, LoginTypeOK
<1>2. IsFiniteSet(S)
  BY FS_Subset, LoginsAssumption
<1>3. Cardinality(S) \in Nat /\ Cardinality(S) < TokenLimit
  BY <1>2, FS_CardinalityType
<1>4. Cardinality(S \cup {l}) = IF l \in S THEN Cardinality(S) ELSE Cardinality(S) + 1
  BY <1>2, FS_AddElement
<1> QED BY <1>1, <1>3, <1>4, LoginsAssumption

(* A run that drops a token *)
LEMMA NotifyType ==
    ASSUME LoginTypeOK, NEW w \in Runs, NEW l \in Logins, NEW rest \in SUBSET Logins, Notify(w, l, rest)
    PROVE  cleanup' \in [Runs -> CleanupRuns] /\ token' \in [Logins -> {"none", "live", "expired", "ended"}]
BY DEF Notify, LoginTypeOK, CleanupRuns

(* The runs over the tokens: the timer's and the one of shutdown.              *)
LEMMA SweepsAreRuns == Sweeps \subseteq Runs /\ DrainRun \in Runs /\ DrainRun \notin Sweeps
BY LoginsAssumption DEF Sweeps, Runs, DrainRun

(* Every step of the logins keeps the types.                                   *)
LEMMA LoginTypeStep ==
    ASSUME LoginInv, LoginNext
    PROVE  LoginTypeOK'
<1>t. LoginTypeOK
  BY DEF LoginInv
<1> USE <1>t DEF LoginTypeOK
<1>1. ASSUME NEW l \in Logins,
             \/ RejectRequest(l) \/ TestCredentials(l) \/ CheckFails(l) \/ AnswerRefused(l)
             \/ LimitReached(l) \/ EndFull(l) \/ SignInUser(l)
             \/ LoginPoolCloses(l) \/ TokenExpires(l)
      PROVE  LoginTypeOK'
  BY <1>1 DEF RejectRequest, TestCredentials, CheckFails, AnswerRefused, LimitReached, EndFull, SignInUser,
      LoginPoolCloses, TokenExpires, Audit, CloseCheckPool
<1>2. ASSUME NEW w \in Sweeps, SweepTokens(w) PROVE LoginTypeOK'
  <2> PICK l \in Found(w) : Notify(w, l, Found(w) \ {l})
    BY <1>2 DEF SweepTokens
  <2>1. l \in Logins /\ Found(w) \ {l} \in SUBSET Logins /\ w \in Runs
    BY SweepsAreRuns DEF Found
  <2> QED BY <1>2, <2>1, NotifyType DEF SweepTokens
<1>3. ASSUME NEW w \in Sweeps, NEW l \in Logins, ValidateExpired(w, l) PROVE LoginTypeOK'
  <2>1. {} \in SUBSET Logins /\ w \in Runs
    BY SweepsAreRuns
  <2> QED BY <1>3, <2>1, NotifyType DEF ValidateExpired
<1>4. ASSUME NEW w \in Runs, SessionsGone(w) PROVE LoginTypeOK'
  <2> DEFINE x(step) == [cleanup[w] EXCEPT !.step = step]
  <2>1. x("pool") \in CleanupRuns /\ x("next") \in CleanupRuns
    BY DEF CleanupRuns
  <2>2. cleanup' = [cleanup EXCEPT ![w] = x("pool")] \/ cleanup' = [cleanup EXCEPT ![w] = x("next")]
    BY <1>4 DEF SessionsGone
  <2> HIDE DEF x
  <2>3. cleanup' \in [Runs -> CleanupRuns]
    BY <2>1, <2>2
  <2> QED BY <1>4, <2>3 DEF SessionsGone
<1>5. ASSUME NEW w \in Runs, NextToken(w) PROVE LoginTypeOK'
  <2>1. CASE cleanup[w].todo = {}
    <3>1. NoRun \in CleanupRuns
      BY DEF NoRun, CleanupRuns
    <3> QED BY <1>5, <2>1, <3>1 DEF NextToken
  <2>2. CASE cleanup[w].todo # {}
    <3> PICK l \in cleanup[w].todo : Notify(w, l, cleanup[w].todo \ {l})
      BY <1>5, <2>2 DEF NextToken
    <3>1. l \in Logins /\ cleanup[w].todo \ {l} \in SUBSET Logins
      BY DEF CleanupRuns
    <3> QED BY <1>5, <3>1, NotifyType DEF NextToken
  <2> QED BY <2>1, <2>2
<1>6. CASE ShutTokens
  <2> DEFINE x == [NoRun EXCEPT !.todo = HeldTokens, !.step = "next"]
  <2>0. NoRun \in CleanupRuns
    BY DEF NoRun, CleanupRuns
  <2>1. x \in CleanupRuns
    BY <2>0 DEF CleanupRuns, HeldTokens
  <2>2. cleanup' = [cleanup EXCEPT ![DrainRun] = NoRun] \/ cleanup' = [cleanup EXCEPT ![DrainRun] = x]
    BY <1>6 DEF ShutTokens
  <2> HIDE DEF x
  <2>3. cleanup' \in [Runs -> CleanupRuns]
    BY <2>0, <2>1, <2>2
  <2> QED BY <1>6, <2>3 DEF ShutTokens
<1>7. CASE ShutPools
  <2> PICK open \in SUBSET Logins : open = {l \in Logins : pool[l] \in {"check", "token"}}
    OBVIOUS
  <2> DEFINE x == [cleanup[DrainRun] EXCEPT !.todo = open]
  <2>1. x \in CleanupRuns
    BY SweepsAreRuns DEF CleanupRuns
  <2>2. cleanup' = [cleanup EXCEPT ![DrainRun] = x]
    BY <1>7 DEF ShutPools
  <2> HIDE DEF x
  <2>3. cleanup' \in [Runs -> CleanupRuns]
    BY <2>1, <2>2
  <2> QED BY <1>7, <2>3 DEF ShutPools
<1>8. CASE StopServer
  BY <1>8 DEF StopServer
<1>9. CASE ServerStopped
  BY <1>9 DEF ServerStopped
<1> QED BY <1>1, <1>2, <1>3, <1>4, <1>5, <1>6, <1>7, <1>8, <1>9 DEF LoginNext

(* Every step leaves a token that ended in the hands of a run.                 *)
LEMMA LoginStep ==
    ASSUME LoginInv, LoginNext
    PROVE  LoginInv'
<1>t. LoginTypeOK /\ LoginTypeOK'
  BY LoginTypeStep DEF LoginInv
<1> DEFINE Parts == (\A l \in Logins : Attempted(l) /\ PoolHeld(l) /\ LateOnes(l)) /\ (\A w \in Runs : RunPlaced(w))
           Few == Cardinality(HeldTokens) <= TokenLimit
<1>h. Parts /\ Few
  BY DEF LoginInv
<1> SUFFICES Parts' /\ Few'
  BY <1>t DEF LoginInv
<1>f. (\A l \in Logins : token'[l] \in {"live", "expired"} => token[l] \in {"live", "expired"}) => Few'
  BY FewerHeld
<1> HIDE DEF Few
<1> USE <1>t, <1>h, <1>f DEF LoginTypeOK, Attempted, PoolHeld, LateOnes, RunPlaced
<1>1. ASSUME NEW l \in Logins, RejectRequest(l) PROVE Parts' /\ Few'
  BY <1>1 DEF RejectRequest, Audit
<1>2. ASSUME NEW l \in Logins, TestCredentials(l) PROVE Parts' /\ Few'
  BY <1>2 DEF TestCredentials, Listening
<1>3. ASSUME NEW l \in Logins, CheckFails(l) PROVE Parts' /\ Few'
  BY <1>3 DEF CheckFails, CloseCheckPool
<1>4. ASSUME NEW l \in Logins, AnswerRefused(l) PROVE Parts' /\ Few'
  BY <1>4 DEF AnswerRefused, Audit
<1>5. ASSUME NEW l \in Logins, LimitReached(l) PROVE Parts' /\ Few'
  BY <1>5 DEF LimitReached, Audit, CloseCheckPool
<1>6. ASSUME NEW l \in Logins, EndFull(l) PROVE Parts' /\ Few'
  BY <1>6 DEF EndFull
<1>7. ASSUME NEW l \in Logins, SignInUser(l) PROVE Parts' /\ Few'
  <2>1. Few'
    BY <1>7, OneMoreHeld DEF SignInUser, Few
  <2>2. Parts'
    BY <1>7 DEF SignInUser, Audit
  <2> QED BY <2>1, <2>2
<1>8. ASSUME NEW l \in Logins, LoginPoolCloses(l) PROVE Parts' /\ Few'
  BY <1>8 DEF LoginPoolCloses
<1>9. ASSUME NEW l \in Logins, TokenExpires(l) PROVE Parts' /\ Few'
  BY <1>9 DEF TokenExpires
<1>n. ASSUME NEW w \in Runs, NEW l \in Logins, NEW rest \in SUBSET Logins, Notify(w, l, rest),
             token[l] # "none", \A m \in rest : token[m] # "none",
             cleanup[w].step # "sessions", cleanup[w].todo \subseteq rest \cup {l},
             w = DrainRun => downStep = "tokens",
             UNCHANGED <<attempt, audited, pool, downStep, late>>
      PROVE  Parts' /\ Few'
  <2> DEFINE x == [at |-> l, todo |-> rest, step |-> "sessions"]
  <2>1. cleanup' = [cleanup EXCEPT ![w] = x] /\ token' = [token EXCEPT ![l] = "ended"]
    BY <1>n DEF Notify
  <2>2. x.at = l /\ x.todo = rest /\ x.step = "sessions"
    OBVIOUS
  <2> HIDE DEF x
  <2>3. Few'
    BY <2>1
  <2>4. \A m \in Logins : Attempted(m)' /\ LateOnes(m)'
    BY <1>n, <2>1
  <2>5. \A m \in Logins : PoolHeld(m)'
    BY <1>n, <2>1, <2>2
  <2>6. \A v \in Runs : RunPlaced(v)'
    BY <1>n, <2>1, <2>2
  <2> QED BY <2>3, <2>4, <2>5, <2>6
<1>10. ASSUME NEW w \in Sweeps, SweepTokens(w) PROVE Parts' /\ Few'
  <2> PICK l \in Found(w) : Notify(w, l, Found(w) \ {l})
    BY <1>10 DEF SweepTokens
  <2>1. l \in Logins /\ Found(w) \ {l} \in SUBSET Logins /\ w \in Runs /\ w # DrainRun
    BY SweepsAreRuns DEF Found
  <2>2. \A m \in Found(w) : token[m] # "none"
    BY DEF Found
  <2>3. cleanup[w] = NoRun
    BY <1>10, <2>1 DEF SweepTokens, Starts
  <2>4. cleanup[w].step # "sessions" /\ cleanup[w].todo = {}
    BY <2>3 DEF NoRun
  <2> QED BY <1>10, <1>n, <2>1, <2>2, <2>4 DEF SweepTokens
<1>11. ASSUME NEW w \in Sweeps, NEW l \in Logins, ValidateExpired(w, l) PROVE Parts' /\ Few'
  <2>1. {} \in SUBSET Logins /\ w \in Runs /\ w # DrainRun
    BY SweepsAreRuns
  <2>2. cleanup[w] = NoRun
    BY <1>11, <2>1 DEF ValidateExpired, Starts
  <2>3. cleanup[w].step # "sessions" /\ cleanup[w].todo = {}
    BY <2>2 DEF NoRun
  <2> QED BY <1>11, <1>n, <2>1, <2>3 DEF ValidateExpired
<1>12. ASSUME NEW w \in Runs, SessionsGone(w) PROVE Parts' /\ Few'
  <2> PICK l \in Logins : l = cleanup[w].at
    BY <1>12 DEF SessionsGone
  <2> PICK step \in {"pool", "next"} :
          /\ cleanup' = [cleanup EXCEPT ![w].step = step]
          /\ pool' = IF pool[l] = "token" THEN [pool EXCEPT ![l] = "closing"] ELSE pool
    BY <1>12 DEF SessionsGone
  <2> DEFINE x == [cleanup[w] EXCEPT !.step = step]
  <2>1. x.at = l /\ x.todo = cleanup[w].todo /\ x.step = step
    BY DEF CleanupRuns
  <2>2. cleanup' = [cleanup EXCEPT ![w] = x] /\ cleanup[w].step = "sessions"
        /\ UNCHANGED <<attempt, audited, token, downStep, late>>
    BY <1>12 DEF SessionsGone
  <2> HIDE DEF x
  <2>3. \A m \in Logins : Attempted(m)' /\ LateOnes(m)'
    BY <2>2
  <2>4. \A m \in Logins : PoolHeld(m)'
    BY <2>1, <2>2
  <2>5. \A v \in Runs : RunPlaced(v)'
    BY <2>1, <2>2
  <2> QED BY <2>2, <2>3, <2>4, <2>5
<1>13. ASSUME NEW w \in Runs, NextToken(w) PROVE Parts' /\ Few'
  <2>0. cleanup[w].step \in {"next", "pool"}
    BY <1>13 DEF NextToken
  <2>1. CASE cleanup[w].todo = {}
    <3>1. NoRun.step = "idle" /\ NoRun.todo = {}
      BY DEF NoRun
    <3> QED BY <1>13, <2>0, <2>1, <3>1 DEF NextToken
  <2>2. CASE cleanup[w].todo # {}
    <3> PICK l \in cleanup[w].todo : Notify(w, l, cleanup[w].todo \ {l})
      BY <1>13, <2>2 DEF NextToken
    <3>1. l \in Logins /\ cleanup[w].todo \ {l} \in SUBSET Logins
      BY DEF CleanupRuns
    <3>2. w = DrainRun => downStep = "tokens"
      BY <2>0
    <3> QED BY <1>13, <1>n, <2>0, <3>1, <3>2 DEF NextToken
  <2> QED BY <2>1, <2>2
<1>14. CASE ShutTokens
  <2> PICK held \in SUBSET Logins : held = HeldTokens
    BY DEF HeldTokens
  <2> DEFINE x == IF held = {} THEN NoRun ELSE [NoRun EXCEPT !.todo = held, !.step = "next"]
  <2>0. NoRun \in CleanupRuns /\ NoRun.step = "idle" /\ NoRun.todo = {}
    BY DEF NoRun, CleanupRuns
  <2>1. /\ x.todo = held
        /\ x.step = "next" \/ (x = NoRun /\ held = {})
    BY <2>0 DEF CleanupRuns
  <2>2. cleanup' = [cleanup EXCEPT ![DrainRun] = x] /\ cleanup[DrainRun] = NoRun
    BY <1>14, SweepsAreRuns DEF ShutTokens
  <2> HIDE DEF x
  <2>3. \A l \in Logins : l \in held <=> token[l] \in {"live", "expired"}
    BY DEF HeldTokens
  <2>4. token' = [l \in Logins |-> IF l \in held THEN "ended" ELSE token[l]]
        /\ downStep = "serving" /\ downStep' = "tokens" /\ UNCHANGED <<attempt, audited, pool, late>>
    BY <1>14 DEF ShutTokens
  <2>5. Few' /\ \A l \in Logins : Attempted(l)' /\ LateOnes(l)'
    BY <2>3, <2>4
  <2>6. \A l \in Logins : PoolHeld(l)'
    BY <2>0, <2>1, <2>2, <2>3, <2>4, SweepsAreRuns
  <2>7. \A w \in Runs : RunPlaced(w)'
    <3>1. RunPlaced(DrainRun)'
      <4>1. cleanup'[DrainRun] = x /\ \A l \in held : token'[l] # "none"
        BY <2>2, <2>4, SweepsAreRuns
      <4> QED BY <2>0, <2>1, <2>4, <4>1
    <3>2. \A w \in Runs : w # DrainRun => RunPlaced(w)'
      <4> TAKE w \in Runs
      <4>1. w # DrainRun => cleanup'[w] = cleanup[w]
        BY <2>2
      <4>2. \A l \in Logins : token[l] # "none" => token'[l] # "none"
        BY <2>4
      <4>3. cleanup[w].todo \subseteq Logins
        BY DEF CleanupRuns
      <4> QED BY <4>1, <4>2, <4>3
    <3> QED BY <3>1, <3>2
  <2> QED BY <2>5, <2>6, <2>7
<1>15. CASE ShutPools
  <2> PICK open \in SUBSET Logins : open = {l \in Logins : pool[l] \in {"check", "token"}}
    OBVIOUS
  <2> DEFINE x == [cleanup[DrainRun] EXCEPT !.todo = open]
  <2>1. x.step = "idle" /\ cleanup[DrainRun].todo = {} /\ cleanup[DrainRun].step = "idle"
    BY <1>15 DEF ShutPools, NoRun
  <2>2. cleanup' = [cleanup EXCEPT ![DrainRun] = x] /\ downStep = "tokens" /\ downStep' = "pools"
        /\ pool' = [l \in Logins |-> IF l \in open THEN "closing" ELSE pool[l]]
        /\ UNCHANGED <<attempt, audited, token, late>>
    BY <1>15 DEF ShutPools
  <2> HIDE DEF x
  <2>3. Few' /\ \A l \in Logins : Attempted(l)' /\ PoolHeld(l)' /\ LateOnes(l)'
    BY <2>2
  <2>4. \A w \in Runs : RunPlaced(w)'
    BY <2>1, <2>2
  <2> QED BY <2>3, <2>4
<1>16. CASE StopServer
  BY <1>16 DEF StopServer
<1>17. CASE ServerStopped
  BY <1>17 DEF ServerStopped
<1> QED BY <1>1, <1>2, <1>3, <1>4, <1>5, <1>6, <1>7, <1>8, <1>9, <1>10, <1>11, <1>12, <1>13,
    <1>14, <1>15, <1>16, <1>17 DEF LoginNext

(* However logins, expiring tokens, the cleanups of one token after the other  *)
(* and shutdown interleave, an open pool is a check's, a token's, or one that  *)
(* a run has still to close, tokens keep their limit, and each login is        *)
(* audited once.                                                               *)
THEOREM LoginPoolsAreAccounted == LoginSpec => []LoginPoolsAccounted
<1>1. LoginInv /\ UNCHANGED loginVars => LoginInv'
  BY DEF LoginInv, LoginTypeOK, HeldTokens, Attempted, PoolHeld, LateOnes, RunPlaced, loginVars
<1> QED BY <1>1, LoginInvariant, LoginInitInv, LoginStep, PTL DEF LoginSpec

=============================================================================
