--------------------------- MODULE OAuthGrantsProofs ---------------------------
(***************************************************************************)
(* TLAPS proofs about the sign-ins of the OAuth server.                    *)
(***************************************************************************)
EXTENDS OAuthGrants, FiniteSetTheorems, TLAPS

-----------------------------------------------------------------------------
(* The inductive invariant.  A revocation that races with a refresh or a     *)
(* restart is harmless for three reasons the properties do not mention: the  *)
(* file never lacks a grant of the store, so a restart cannot bring back     *)
(* more than was saved; a sign-in's one refresh token is either in the file  *)
(* or in one request, which the count in `refreshing` therefore stands for;  *)
(* and a code that was not exchanged has no token to revoke.                 *)

InFlight(q) == req[q].pc = "checking"

FileHoldsGrants == grants \subseteq file /\ FileFollowsStore

\* One refresh token per sign-in, in the file or being exchanged
OneToken ==
    /\ \A r1, r2 \in file : refreshOf[r1] = refreshOf[r2] => r1 = r2
    /\ \A r \in file, q \in Reqs : InFlight(q) => refreshOf[req[q].rt] # refreshOf[r]
    /\ \A q1, q2 \in Reqs :
          /\ InFlight(q1) /\ InFlight(q2)
          /\ refreshOf[req[q1].rt] = refreshOf[req[q2].rt]
          => q1 = q2

\* Some request is exchanging a refresh token of the sign-in
Aloft(s) == \E q \in Reqs : InFlight(q) /\ refreshOf[req[q].rt] = s

FlightsCounted ==
    \A s \in SignIns : refreshing[s].count = IF Aloft(s) THEN 1 ELSE 0

CodeComesFirst ==
    \A s \in SignIns : code[s] \in {"fresh", "pending"} =>
        /\ s \notin ended
        /\ \A t \in Tokens : tokenOf[t] # s
        /\ \A r \in RTokens : refreshOf[r] # s

EndedHoldsNothing ==
    \A s \in ended :
        /\ \A r \in file : refreshOf[r] # s
        /\ \A q \in Reqs : InFlight(q) /\ refreshOf[req[q].rt] = s => refreshing[s].revoked
        /\ \A t \in sessions : tokenOf[t] = s => t \in revoking[s]

RedeemedIsGone ==
    \A r \in redeemed :
        /\ refreshOf[r] # None
        /\ r \notin file
        /\ \A q \in Reqs : InFlight(q) => req[q].rt # r

PoolsHeld == NoStrandedPool /\ (phase = "up" => draining = {})

IInv ==
    /\ TypeOK
    /\ FileHoldsGrants
    /\ OneToken
    /\ FlightsCounted
    /\ CodeComesFirst
    /\ EndedHoldsNothing
    /\ RedeemedIsGone
    /\ PoolsHeld

-----------------------------------------------------------------------------
(* What the parts of the actions do, entry by entry *)

LEMMA ReqTypes ==
    ASSUME TypeOK, NEW q \in Reqs
    PROVE  /\ req[q].pc \in {"idle", "checking"}
           /\ InFlight(q) => /\ req[q].rt \in RTokens
                             /\ refreshOf[req[q].rt] \in SignIns
                             /\ req[q] = [pc |-> "checking", rt |-> req[q].rt]
           /\ ~InFlight(q) => req[q] = Idle
BY DEF TypeOK, Idle, InFlight

LEMMA CountTypes ==
    ASSUME TypeOK, NEW s \in SignIns
    PROVE  /\ refreshing[s].count \in Nat
           /\ refreshing[s].revoked \in BOOLEAN
           /\ refreshing[s] \in [count: Nat, revoked: BOOLEAN]
           /\ refreshing[s].count = 0 => refreshing[s] = Quiet
<1>1. Cardinality(Reqs) \in Nat
    BY ReqsAssumption, FS_CardinalityType
<1>2. refreshing[s] \in {Quiet} \cup [count: 1..Cardinality(Reqs), revoked: BOOLEAN]
    BY DEF TypeOK
<1>3. CASE refreshing[s] = Quiet
    BY <1>3 DEF Quiet
<1>4. CASE refreshing[s] \in [count: 1..Cardinality(Reqs), revoked: BOOLEAN]
    BY <1>1, <1>4
<1> QED
    BY <1>2, <1>3, <1>4

\* Entries of `refreshing`, updated
LEMMA EntryUpdates ==
    ASSUME NEW f \in [count: Nat, revoked: BOOLEAN], NEW n \in Nat, NEW b \in BOOLEAN
    PROVE  /\ [f EXCEPT !.count = n] = [count |-> n, revoked |-> f.revoked]
           /\ [f EXCEPT !.revoked = b] = [count |-> f.count, revoked |-> b]
OBVIOUS

\* The first flight of a sign-in is counted
LEMMA FirstFlight ==
    ASSUME NEW f \in [SignIns -> [count: Nat, revoked: BOOLEAN]], NEW s \in SignIns,
           f[s] = Quiet, NEW g, g = [f EXCEPT ![s].count = @ + 1]
    PROVE  /\ g \in [SignIns -> [count: Nat, revoked: BOOLEAN]]
           /\ \A n \in SignIns : g[n] = IF n = s THEN [count |-> 1, revoked |-> FALSE] ELSE f[n]
<1>1. f[s].count = 0 /\ f[s].revoked = FALSE
    BY DEF Quiet
<1>2. g \in [SignIns -> [count: Nat, revoked: BOOLEAN]]
    OBVIOUS
<1>3. g[s].count = 1 /\ g[s].revoked = FALSE
    BY <1>1
<1>4. g[s] = [count |-> 1, revoked |-> FALSE]
    BY <1>2, <1>3
<1> QED
    BY <1>2, <1>4

\* A flight is one of the requests there are
LEMMA FlightFits ==
    ASSUME NEW q \in Reqs
    PROVE  Cardinality(Reqs) \in Nat /\ 1 \in 1..Cardinality(Reqs)
<1>1. Cardinality(Reqs) \in Nat /\ Cardinality(Reqs) # 0
    BY ReqsAssumption, FS_CardinalityType, FS_EmptySet
<1> QED
    BY <1>1

LEMMA Saving ==
    ASSUME FileHoldsGrants, Save
    PROVE  /\ grants' \subseteq file'
           /\ \A r \in file' : r \in file \/ r \in grants'
           /\ phase # "reset" => file' = grants'
           /\ grants' # grants => file' = grants'
BY DEF FileHoldsGrants, FileFollowsStore, Save

LEMMA Issuing ==
    ASSUME TypeOK, NEW s \in SignIns, NEW t \in Tokens, NEW r \in RTokens, Issue(s, t, r)
    PROVE  /\ \A u \in Tokens : tokenOf'[u] = tokenOf[u]
                                \/ (u = t /\ tokenOf[t] = None /\ tokenOf'[t] = s)
           /\ \A x \in RTokens : refreshOf'[x] = refreshOf[x]
                                 \/ (x = r /\ refreshOf[r] = None /\ refreshOf'[r] = s)
           /\ \A x \in grants' : x \in grants
                                 \/ (x = r /\ refreshOf[r] = None /\ refreshOf'[r] = s)
           /\ sessions \subseteq sessions'
           /\ \A u \in sessions' : u \in sessions \/ (u = t /\ tokenOf[t] = None /\ tokenOf'[t] = s)
           /\ \A n \in grantPool' : n \in grantPool \/ (n = s /\ t \in sessions' /\ tokenOf'[t] = s)
           /\ tokenOf' \in [Tokens -> SignIns \cup {None}]
           /\ refreshOf' \in [RTokens -> SignIns \cup {None}]
           /\ grantPool' \subseteq SignIns
<1>0. /\ tokenOf \in [Tokens -> SignIns \cup {None}]
      /\ refreshOf \in [RTokens -> SignIns \cup {None}]
      /\ grantPool \subseteq SignIns
    BY DEF TypeOK
<1>1. CASE UNCHANGED <<tokenOf, sessions, grantPool, refreshOf, grants>>
    BY <1>0, <1>1
<1>2. CASE NewAccess(s, t) /\ (NewRefresh(s, r) \/ NoRefresh)
    <2>1. /\ tokenOf[t] = None
          /\ tokenOf' = [tokenOf EXCEPT ![t] = s]
          /\ sessions' = sessions \cup {t}
          /\ grantPool' = grantPool \cup {s}
        BY <1>2 DEF NewAccess
    <2>2. \/ refreshOf' = refreshOf /\ grants' \subseteq grants
          \/ /\ refreshOf[r] = None
             /\ refreshOf' = [refreshOf EXCEPT ![r] = s]
             /\ grants' \subseteq grants \cup {r}
        BY <1>2 DEF NewRefresh, NoRefresh
    <2>3. CASE refreshOf' = refreshOf /\ grants' \subseteq grants
        BY <1>0, <2>1, <2>3
    <2>4. CASE /\ refreshOf[r] = None
               /\ refreshOf' = [refreshOf EXCEPT ![r] = s]
               /\ grants' \subseteq grants \cup {r}
        BY <1>0, <2>1, <2>4
    <2> QED
        BY <2>2, <2>3, <2>4
<1> QED
    BY <1>1, <1>2 DEF Issue

\* A sign-in has one flight, so the one that lands leaves no count behind
LEMMA Landing ==
    ASSUME TypeOK, OneToken, FlightsCounted, NEW q \in Reqs, NEW s \in SignIns, Land(q, s)
    PROVE  /\ InFlight(q) /\ refreshOf[req[q].rt] = s
           /\ refreshing[s].count = 1
           /\ Landed(refreshing[s]) = Quiet
           /\ \A p \in Reqs : InFlight(p) /\ refreshOf[req[p].rt] = s => p = q
           /\ \A p \in Reqs : req'[p] = IF p = q THEN Idle ELSE req[p]
           /\ req' \in [Reqs -> {Idle} \cup
                           [pc: {"checking"}, rt: {r \in RTokens : refreshOf[r] # None}]]
<1>1. InFlight(q) /\ refreshOf[req[q].rt] = s
    BY DEF Land, InFlight
<1>2. Aloft(s)
    BY <1>1 DEF Aloft
<1>3. refreshing[s].count = 1
    BY <1>2 DEF FlightsCounted
<1>4. \A p \in Reqs : InFlight(p) /\ refreshOf[req[p].rt] = s => p = q
    BY <1>1 DEF OneToken
<1>5. /\ \A p \in Reqs : req'[p] = IF p = q THEN Idle ELSE req[p]
      /\ req' \in [Reqs -> {Idle} \cup
                      [pc: {"checking"}, rt: {r \in RTokens : refreshOf[r] # None}]]
    BY DEF Land, TypeOK
<1> QED
    BY <1>1, <1>3, <1>4, <1>5 DEF Landed

\* A refusal finds no other flight of the sign-in to mark
LEMMA Refusing ==
    ASSUME TypeOK, OneToken, FlightsCounted, NEW q \in Reqs, NEW s \in SignIns,
           RefreshRefused(q, s)
    PROVE  refreshing' = [refreshing EXCEPT ![s] = Quiet]
<1>1. Landed(refreshing[s]) = Quiet
    BY Landing DEF RefreshRefused
<1>2. (Quiet.count > 0) = FALSE
    BY DEF Quiet
<1>3. [Quiet EXCEPT !.revoked = FALSE] = Quiet
    <2>1. Quiet \in [count: Nat, revoked: BOOLEAN]
        BY DEF Quiet
    <2> QED
        BY <2>1, EntryUpdates DEF Quiet
<1> QED
    BY <1>1, <1>2, <1>3 DEF RefreshRefused

\* A refresh token of the store has no flight beside it
LEMMA Refreshing ==
    ASSUME TypeOK, FileHoldsGrants, OneToken, FlightsCounted,
           NEW q \in Reqs, NEW r \in RTokens, Refresh(q, r)
    PROVE  /\ refreshOf[r] \in SignIns
           /\ \A p \in Reqs : InFlight(p) => refreshOf[req[p].rt] # refreshOf[r]
           /\ refreshing[refreshOf[r]] = Quiet
           /\ r \notin lapsed =>
                 /\ refreshing' \in [SignIns -> [count: Nat, revoked: BOOLEAN]]
                 /\ \A n \in SignIns : refreshing'[n] = IF n = refreshOf[r]
                                                       THEN [count |-> 1, revoked |-> FALSE]
                                                       ELSE refreshing[n]
<1>1. r \in file /\ refreshOf[r] \in SignIns
    BY DEF Refresh, FileHoldsGrants, TypeOK
<1>2. \A p \in Reqs : InFlight(p) => refreshOf[req[p].rt] # refreshOf[r]
    BY <1>1 DEF OneToken
<1>3. ~Aloft(refreshOf[r])
    BY <1>2 DEF Aloft
<1>4. refreshing[refreshOf[r]] = Quiet
    BY <1>1, <1>3, CountTypes DEF FlightsCounted
<1>5. refreshing \in [SignIns -> [count: Nat, revoked: BOOLEAN]]
    BY CountTypes DEF TypeOK
<1>6. ASSUME r \notin lapsed
      PROVE  /\ refreshing' \in [SignIns -> [count: Nat, revoked: BOOLEAN]]
             /\ \A n \in SignIns : refreshing'[n] = IF n = refreshOf[r]
                                                   THEN [count |-> 1, revoked |-> FALSE]
                                                   ELSE refreshing[n]
    <2>1. refreshing' = [refreshing EXCEPT ![refreshOf[r]].count = @ + 1]
        BY <1>6 DEF Refresh
    <2> QED
        BY <1>1, <1>4, <1>5, <2>1, FirstFlight
<1> QED
    BY <1>1, <1>2, <1>4, <1>6

-----------------------------------------------------------------------------
(* Type correctness *)

LEMMA TypeInit == Init => TypeOK
BY DEF Init, TypeOK, Phases

\* RevokeGrant leaves what it changes of its type
LEMMA RevokeGrantType ==
    ASSUME TypeOK, FlightsCounted, NEW s \in SignIns, RevokeGrant(s)
    PROVE  /\ refreshing' \in [SignIns -> {Quiet} \cup
                                 [count: 1..Cardinality(Reqs), revoked: BOOLEAN]]
           /\ grants' \subseteq grants
           /\ revoking' \in [SignIns -> SUBSET Tokens]
           /\ ended' \subseteq SignIns
<1>1. CASE refreshing[s].count > 0
    <2>1. refreshing[s] \in [count: 1..Cardinality(Reqs), revoked: BOOLEAN]
        BY <1>1 DEF TypeOK, Quiet
    <2>2. [refreshing[s] EXCEPT !.revoked = TRUE]
            \in [count: 1..Cardinality(Reqs), revoked: BOOLEAN]
        BY <2>1
    <2>3. refreshing' = [refreshing EXCEPT ![s] = [refreshing[s] EXCEPT !.revoked = TRUE]]
        BY <1>1 DEF RevokeGrant
    <2>4. refreshing' \in [SignIns -> {Quiet} \cup
                             [count: 1..Cardinality(Reqs), revoked: BOOLEAN]]
        BY <2>2, <2>3 DEF TypeOK
    <2> QED
        BY <2>4 DEF RevokeGrant, TypeOK, TokensOf
<1>2. CASE ~(refreshing[s].count > 0)
    BY <1>2 DEF RevokeGrant, TypeOK, TokensOf
<1> QED
    BY <1>1, <1>2

LEMMA TypeStep ==
    TypeOK /\ FileHoldsGrants /\ OneToken /\ FlightsCounted /\ [Next]_vars => TypeOK'
<1> SUFFICES ASSUME TypeOK, FileHoldsGrants, OneToken, FlightsCounted, [Next]_vars
             PROVE  TypeOK'
    OBVIOUS
<1> DEFINE Counts == {Quiet} \cup [count: 1..Cardinality(Reqs), revoked: BOOLEAN]
<1>0. ASSUME grants' \subseteq {r \in RTokens : refreshOf'[r] # None}, Save,
             UNCHANGED refreshOf \/ \A r \in RTokens : refreshOf[r] # None => refreshOf'[r] # None
      PROVE  file' \subseteq {r \in RTokens : refreshOf'[r] # None}
    BY <1>0 DEF Save, TypeOK
<1>1. ASSUME NEW t \in Tokens, DropExpired(t) PROVE TypeOK'
    BY <1>1 DEF TypeOK, DropExpired, RemoveToken
<1>2. ASSUME NEW t \in Tokens, ClosePool(t) PROVE TypeOK'
    BY <1>2 DEF TypeOK, ClosePool
<1>3. ASSUME NEW s \in SignIns, NEW t \in Tokens, RevokeNext(s, t) PROVE TypeOK'
    BY <1>3 DEF TypeOK, RevokeNext, RemoveToken
<1>4. ASSUME NEW t \in Tokens, RevokeAccess(t) PROVE TypeOK'
    <2>1. tokenOf[t] \in SignIns
        BY <1>4 DEF RevokeAccess, TypeOK
    <2>2. RevokeGrant(tokenOf[t]) /\ Save
        BY <1>4 DEF RevokeAccess
    <2> QED
        BY <1>0, <1>4, <2>1, <2>2, RevokeGrantType DEF RevokeAccess, TypeOK
<1>5. ASSUME NEW r \in RTokens, RevokeRefresh(r) PROVE TypeOK'
    <2>1. refreshOf[r] \in SignIns
        <3>1. CASE r \in grants
            BY <3>1 DEF TypeOK
        <3>2. CASE r \in {req[q].rt : q \in {p \in Reqs : req[p].pc = "checking"}}
            BY <3>2, ReqTypes DEF InFlight
        <3> QED
            BY <1>5, <3>1, <3>2 DEF RevokeRefresh
    <2>2. CASE r \in grants
        BY <1>0, <1>5, <2>1, <2>2, RevokeGrantType DEF RevokeRefresh, TypeOK
    <2>3. CASE r \notin grants
        BY <1>0, <1>5, <2>1, <2>3 DEF RevokeRefresh, TypeOK
    <2> QED
        BY <2>2, <2>3
<1>6. ASSUME NEW s \in SignIns, SignIn(s) PROVE TypeOK'
    BY <1>6 DEF TypeOK, SignIn
<1>7. ASSUME NEW s \in SignIns, NEW t \in Tokens, NEW r \in RTokens, Exchange(s, t, r)
      PROVE  TypeOK'
    <2>1. /\ Issue(s, t, r) /\ Save
          /\ code' = [code EXCEPT ![s] = "used"]
          /\ UNCHANGED <<phase, lapsed, refreshing, req, revoking, closers, ended, draining,
                         asked, redeemed>>
        BY <1>7 DEF Exchange
    <2>2. s # None
        BY NoneAssumption
    <2>3. /\ \A u \in Tokens : tokenOf[u] # None => tokenOf'[u] # None
          /\ \A x \in RTokens : refreshOf[x] # None => refreshOf'[x] # None
          /\ grants' \subseteq {x \in RTokens : refreshOf'[x] # None}
          /\ sessions' \subseteq {u \in Tokens : tokenOf'[u] # None}
        BY <2>1, <2>2, Issuing DEF TypeOK
    <2>4. /\ tokenOf' \in [Tokens -> SignIns \cup {None}]
          /\ refreshOf' \in [RTokens -> SignIns \cup {None}]
          /\ grantPool' \subseteq SignIns
        BY <2>1, Issuing
    <2>5. file' \subseteq {x \in RTokens : refreshOf'[x] # None}
        BY <1>0, <2>1, <2>3
    <2>6. req' \in [Reqs -> {Idle} \cup
                       [pc: {"checking"}, rt: {x \in RTokens : refreshOf'[x] # None}]]
        BY <2>1, <2>3 DEF TypeOK
    <2> QED
        BY <2>1, <2>3, <2>4, <2>5, <2>6 DEF TypeOK
<1>8. ASSUME NEW s \in SignIns, DropCode(s) PROVE TypeOK'
    BY <1>8 DEF TypeOK, DropCode
<1>9. ASSUME NEW s \in SignIns, Replay(s) PROVE TypeOK'
    BY <1>0, <1>9, RevokeGrantType DEF Replay, TypeOK
<1>10. ASSUME NEW q \in Reqs, NEW r \in RTokens, Refresh(q, r) PROVE TypeOK'
    <2>1. CASE r \in lapsed
        BY <1>0, <1>10, <2>1 DEF Refresh, TypeOK
    <2>2. CASE r \notin lapsed
        <3>1. /\ req' = [req EXCEPT ![q] = [pc |-> "checking", rt |-> r]]
              /\ r \in grants
            BY <1>10, <2>2 DEF Refresh
        <3>2. \A n \in SignIns : refreshing'[n] \in Counts
            BY <1>10, <2>2, Refreshing, FlightFits DEF TypeOK
        <3>3. refreshing' \in [SignIns -> Counts]
            BY <1>10, <2>2, <3>2, Refreshing
        <3>4. req' \in [Reqs -> {Idle} \cup
                           [pc: {"checking"}, rt: {x \in RTokens : refreshOf[x] # None}]]
            BY <3>1 DEF TypeOK
        <3> QED
            BY <1>0, <1>10, <3>3, <3>4 DEF Refresh, TypeOK
    <2> QED
        BY <2>1, <2>2
<1>11. ASSUME NEW q \in Reqs, NEW s \in SignIns, Land(q, s),
              refreshing' = [refreshing EXCEPT ![s] = Quiet], refreshOf' = refreshOf
       PROVE  /\ refreshing' \in [SignIns -> Counts]
              /\ req' \in [Reqs -> {Idle} \cup
                             [pc: {"checking"}, rt: {r \in RTokens : refreshOf'[r] # None}]]
    BY <1>11, Landing DEF TypeOK
<1>12. ASSUME NEW q \in Reqs, NEW s \in SignIns, RefreshRevoked(q, s) PROVE TypeOK'
    BY <1>11, <1>12, Landing DEF RefreshRevoked, TypeOK
<1>13. ASSUME NEW q \in Reqs, NEW s \in SignIns, RefreshDeferred(q, s) PROVE TypeOK'
    <2>1. req[q].rt \in {r \in RTokens : refreshOf[r] # None}
        BY <1>13, Landing, ReqTypes, NoneAssumption DEF RefreshDeferred
    <2> QED
        BY <1>0, <1>11, <1>13, <2>1, Landing DEF RefreshDeferred, TypeOK
<1>14. ASSUME NEW q \in Reqs, NEW s \in SignIns, RefreshRefused(q, s) PROVE TypeOK'
    <2>1. Landed(refreshing[s]) = Quiet /\ Land(q, s)
        BY <1>14, Landing DEF RefreshRefused
    <2>2. refreshing' = [refreshing EXCEPT ![s] = Quiet]
        BY <1>14, Refusing
    <2> QED
        BY <1>0, <1>11, <1>14, <2>1, <2>2 DEF RefreshRefused, TypeOK, TokensOf
<1>15. ASSUME NEW q \in Reqs, NEW s \in SignIns, NEW t \in Tokens, NEW r \in RTokens,
              RefreshIssues(q, s, t, r)
       PROVE  TypeOK'
    <2>1. /\ Land(q, s) /\ Issue(s, t, r) /\ Save
          /\ refreshing' = [refreshing EXCEPT ![s] = Quiet]
          /\ redeemed' \subseteq redeemed \cup {req[q].rt}
          /\ UNCHANGED <<phase, code, lapsed, revoking, closers, ended, draining, asked>>
        BY <1>15, Landing DEF RefreshIssues
    <2>2. s # None
        BY NoneAssumption
    <2>3. /\ \A u \in Tokens : tokenOf[u] # None => tokenOf'[u] # None
          /\ \A x \in RTokens : refreshOf[x] # None => refreshOf'[x] # None
          /\ grants' \subseteq {x \in RTokens : refreshOf'[x] # None}
          /\ sessions' \subseteq {u \in Tokens : tokenOf'[u] # None}
        BY <2>1, <2>2, Issuing DEF TypeOK
    <2>4. /\ tokenOf' \in [Tokens -> SignIns \cup {None}]
          /\ refreshOf' \in [RTokens -> SignIns \cup {None}]
          /\ grantPool' \subseteq SignIns
        BY <2>1, Issuing
    <2>5. file' \subseteq {x \in RTokens : refreshOf'[x] # None}
        BY <1>0, <2>1, <2>3
    <2>6. req' \in [Reqs -> {Idle} \cup
                       [pc: {"checking"}, rt: {x \in RTokens : refreshOf'[x] # None}]]
        BY <2>1, <2>3 DEF Land, TypeOK
    <2>7. refreshing' \in [SignIns -> Counts]
        BY <2>1 DEF TypeOK
    <2>8. redeemed' \subseteq RTokens
        BY <2>1, Landing, ReqTypes DEF TypeOK
    <2> QED
        BY <2>1, <2>3, <2>4, <2>5, <2>6, <2>7, <2>8 DEF TypeOK
<1>16. ASSUME NEW t \in Tokens, Request(t) PROVE TypeOK'
    BY <1>16 DEF TypeOK, Request
<1>17. ASSUME NEW x \in Tokens \cup RTokens, Lapse(x) PROVE TypeOK'
    BY <1>17 DEF TypeOK, Lapse
<1>18. CASE Stop
    BY <1>18 DEF TypeOK, Stop, Phases
<1>19. ASSUME NEW t \in Tokens, Drain(t) PROVE TypeOK'
    BY <1>19 DEF TypeOK, Drain
<1>20. CASE Reset
    BY <1>20 DEF TypeOK, Reset, Phases
<1>21. CASE Restart
    BY <1>21 DEF TypeOK, Restart, Phases
<1>22. CASE UNCHANGED vars
    BY <1>22 DEF TypeOK, vars
<1> QED
    BY <1>1, <1>2, <1>3, <1>4, <1>5, <1>6, <1>7, <1>8, <1>9, <1>10, <1>12, <1>13,
       <1>14, <1>15, <1>16, <1>17, <1>18, <1>19, <1>20, <1>21, <1>22 DEF Next

-----------------------------------------------------------------------------
(* The file and the store *)

LEMMA FileStep == TypeOK /\ FileHoldsGrants /\ [Next]_vars => FileHoldsGrants'
<1> SUFFICES ASSUME TypeOK, FileHoldsGrants, [Next]_vars PROVE FileHoldsGrants'
    OBVIOUS
<1>1. CASE UNCHANGED <<phase, grants, file>>
    BY <1>1 DEF FileHoldsGrants, FileFollowsStore
<1>2. CASE Save /\ UNCHANGED phase
    BY <1>2, Saving DEF FileHoldsGrants, FileFollowsStore
<1>3. CASE Stop
    BY <1>3 DEF Stop, FileHoldsGrants, FileFollowsStore
<1>4. CASE Reset
    BY <1>4 DEF Reset, FileHoldsGrants, FileFollowsStore
<1>5. CASE Restart
    BY <1>5 DEF Restart, FileHoldsGrants, FileFollowsStore
<1> QED
    BY <1>1, <1>2, <1>3, <1>4, <1>5
    DEF Next, vars, DropExpired, ClosePool, RevokeNext, RevokeAccess, RevokeRefresh,
        SignIn, Exchange, DropCode, Replay, Refresh, RefreshRevoked, RefreshDeferred,
        RefreshRefused, RefreshIssues, Request, Lapse, Drain

-----------------------------------------------------------------------------
(* One refresh token *)

\* Nothing is added to what the file and the requests hold
LEMMA OneTokenShrinks ==
    ASSUME TypeOK, OneToken, UNCHANGED refreshOf, file' \subseteq file,
           \A q \in Reqs : InFlight(q)' => InFlight(q) /\ req'[q] = req[q]
    PROVE  OneToken'
BY DEF OneToken, InFlight

\* A code that was not exchanged has no refresh token anywhere
LEMMA ExchangeOneToken ==
    ASSUME TypeOK, FileHoldsGrants, OneToken, CodeComesFirst,
           NEW s \in SignIns, NEW t \in Tokens, NEW r \in RTokens, Exchange(s, t, r)
    PROVE  OneToken'
<1>1. Issue(s, t, r) /\ Save /\ req' = req
    BY DEF Exchange
<1>2. \A x \in RTokens : refreshOf[x] # s
    BY DEF Exchange, CodeComesFirst
<1>3. \A x \in file' : \/ x \in file /\ refreshOf'[x] = refreshOf[x]
                       \/ x = r /\ refreshOf[r] = None /\ refreshOf'[r] = s
    BY <1>1, Saving, Issuing, NoneAssumption DEF TypeOK, FileHoldsGrants
<1>4. \A q \in Reqs : InFlight(q) => refreshOf'[req[q].rt] = refreshOf[req[q].rt]
                                     /\ refreshOf[req[q].rt] # s
    <2>1. \A x \in RTokens : refreshOf[x] # None => refreshOf'[x] = refreshOf[x]
        BY <1>1, Issuing
    <2>2. \A q \in Reqs : InFlight(q) => req[q].rt \in RTokens /\ refreshOf[req[q].rt] # None
        BY ReqTypes, NoneAssumption
    <2> QED
        BY <1>2, <2>1, <2>2
<1>5. \A x \in file : x \in RTokens
    BY DEF TypeOK
<1>6. \A q \in Reqs : InFlight(q)' <=> InFlight(q)
    BY <1>1 DEF InFlight
<1>7. /\ \A r1, r2 \in file : refreshOf[r1] = refreshOf[r2] => r1 = r2
      /\ \A x \in file, q \in Reqs : InFlight(q) => refreshOf[req[q].rt] # refreshOf[x]
      /\ \A q1, q2 \in Reqs :
            InFlight(q1) /\ InFlight(q2) /\ refreshOf[req[q1].rt] = refreshOf[req[q2].rt]
            => q1 = q2
    BY DEF OneToken
<1>8. \A r1, r2 \in file' : refreshOf'[r1] = refreshOf'[r2] => r1 = r2
    BY <1>2, <1>3, <1>5, <1>7
<1>9. \A x \in file', q \in Reqs : InFlight(q) => refreshOf'[req[q].rt] # refreshOf'[x]
    BY <1>3, <1>4, <1>7
<1>10. \A q1, q2 \in Reqs :
          InFlight(q1) /\ InFlight(q2) /\ refreshOf'[req[q1].rt] = refreshOf'[req[q2].rt]
          => q1 = q2
    BY <1>4, <1>7
<1>11. \A x \in file', q \in Reqs : InFlight(q)' => refreshOf'[req'[q].rt] # refreshOf'[x]
    BY <1>1, <1>6, <1>9
<1>12. \A q1, q2 \in Reqs :
          InFlight(q1)' /\ InFlight(q2)' /\ refreshOf'[req'[q1].rt] = refreshOf'[req'[q2].rt]
          => q1 = q2
    BY <1>1, <1>6, <1>10
<1> QED
    BY <1>8, <1>11, <1>12 DEF OneToken

\* The sign-in's one refresh token was the one exchanged for the new one
LEMMA IssuesOneToken ==
    ASSUME TypeOK, FileHoldsGrants, OneToken, FlightsCounted, NEW q \in Reqs,
           NEW s \in SignIns, NEW t \in Tokens, NEW r \in RTokens, RefreshIssues(q, s, t, r)
    PROVE  OneToken'
<1>1. Issue(s, t, r) /\ Save /\ Land(q, s)
    BY DEF RefreshIssues
<1>2. \A p \in Reqs : InFlight(p)' => p # q /\ InFlight(p) /\ req'[p] = req[p]
    BY <1>1, Landing DEF InFlight, Idle
<1>3. \A x \in file : x \in RTokens /\ refreshOf[x] # None /\ refreshOf[x] # s
    BY <1>1, Landing DEF OneToken, TypeOK
<1>4. \A x \in file' : \/ x \in file /\ refreshOf'[x] = refreshOf[x]
                       \/ x = r /\ refreshOf[r] = None /\ refreshOf'[r] = s
    BY <1>1, <1>3, Saving, Issuing DEF FileHoldsGrants
<1>5. \A p \in Reqs : InFlight(p) /\ p # q =>
                        /\ refreshOf'[req[p].rt] = refreshOf[req[p].rt]
                        /\ refreshOf[req[p].rt] # s
    <2>1. \A x \in RTokens : refreshOf[x] # None => refreshOf'[x] = refreshOf[x]
        BY <1>1, Issuing
    <2>2. \A p \in Reqs : InFlight(p) => req[p].rt \in RTokens /\ refreshOf[req[p].rt] # None
        BY ReqTypes, NoneAssumption
    <2>3. \A p \in Reqs : InFlight(p) /\ refreshOf[req[p].rt] = s => p = q
        BY <1>1, Landing
    <2> QED
        BY <2>1, <2>2, <2>3
<1>6. /\ \A r1, r2 \in file : refreshOf[r1] = refreshOf[r2] => r1 = r2
      /\ \A x \in file, p \in Reqs : InFlight(p) => refreshOf[req[p].rt] # refreshOf[x]
      /\ \A q1, q2 \in Reqs :
            InFlight(q1) /\ InFlight(q2) /\ refreshOf[req[q1].rt] = refreshOf[req[q2].rt]
            => q1 = q2
    BY DEF OneToken
<1>7. \A r1, r2 \in file' : refreshOf'[r1] = refreshOf'[r2] => r1 = r2
    BY <1>3, <1>4, <1>6
<1>8. \A x \in file', p \in Reqs : InFlight(p) /\ p # q => refreshOf'[req[p].rt] # refreshOf'[x]
    BY <1>4, <1>5, <1>6
<1>9. \A q1, q2 \in Reqs :
          /\ InFlight(q1) /\ q1 # q
          /\ InFlight(q2) /\ q2 # q
          /\ refreshOf'[req[q1].rt] = refreshOf'[req[q2].rt]
          => q1 = q2
    BY <1>5, <1>6
<1>10. \A x \in file', p \in Reqs : InFlight(p)' => refreshOf'[req'[p].rt] # refreshOf'[x]
    BY <1>2, <1>8
<1>11. \A q1, q2 \in Reqs :
          InFlight(q1)' /\ InFlight(q2)' /\ refreshOf'[req'[q1].rt] = refreshOf'[req'[q2].rt]
          => q1 = q2
    BY <1>2, <1>9
<1> QED
    BY <1>7, <1>10, <1>11 DEF OneToken

LEMMA OneTokenStep ==
    TypeOK /\ FileHoldsGrants /\ OneToken /\ FlightsCounted /\ CodeComesFirst /\ [Next]_vars
    => OneToken'
<1> SUFFICES ASSUME TypeOK, FileHoldsGrants, OneToken, FlightsCounted, CodeComesFirst,
                    [Next]_vars
             PROVE  OneToken'
    OBVIOUS
<1>1. CASE UNCHANGED <<refreshOf, file, req>>
    BY <1>1 DEF OneToken, InFlight
<1>2. ASSUME Save, grants' \subseteq grants PROVE file' \subseteq file
    BY <1>2 DEF Save, FileHoldsGrants
<1>3. ASSUME NEW t \in Tokens, RevokeAccess(t) PROVE OneToken'
    BY <1>2, <1>3, OneTokenShrinks DEF RevokeAccess, RevokeGrant, InFlight
<1>4. ASSUME NEW r \in RTokens, RevokeRefresh(r) PROVE OneToken'
    BY <1>2, <1>4, OneTokenShrinks DEF RevokeRefresh, RevokeGrant, InFlight
<1>5. ASSUME NEW s \in SignIns, NEW t \in Tokens, NEW r \in RTokens, Exchange(s, t, r)
      PROVE  OneToken'
    BY <1>5, ExchangeOneToken
<1>6. ASSUME NEW s \in SignIns, Replay(s) PROVE OneToken'
    BY <1>2, <1>6, OneTokenShrinks DEF Replay, RevokeGrant, InFlight
<1>7. ASSUME NEW q \in Reqs, NEW r \in RTokens, Refresh(q, r) PROVE OneToken'
    <2>1. CASE r \in lapsed
        BY <1>2, <1>7, <2>1, OneTokenShrinks DEF Refresh, InFlight
    <2>2. CASE r \notin lapsed
        <3>1. /\ r \in grants /\ r \in file
              /\ file' \subseteq file \ {r}
              /\ refreshOf' = refreshOf
              /\ \A p \in Reqs : req'[p] = IF p = q THEN [pc |-> "checking", rt |-> r]
                                           ELSE req[p]
            BY <1>7, <2>2 DEF Refresh, Save, FileHoldsGrants, TypeOK
        <3>2. \A p \in Reqs : InFlight(p)' <=> p = q \/ InFlight(p)
            BY <3>1 DEF InFlight
        <3>3. \A p \in Reqs : InFlight(p) => refreshOf[req[p].rt] # refreshOf[r]
            BY <3>1 DEF OneToken
        <3>4. \A x \in file' : refreshOf[x] # refreshOf[r]
            BY <3>1 DEF OneToken
        <3>5. ~InFlight(q)
            BY <1>7 DEF Refresh, InFlight
        <3>6. \A r1, r2 \in file' : refreshOf'[r1] = refreshOf'[r2] => r1 = r2
            BY <3>1 DEF OneToken
        <3>7. \A x \in file', p \in Reqs :
                 InFlight(p)' => refreshOf'[req'[p].rt] # refreshOf'[x]
            BY <3>1, <3>2, <3>4 DEF OneToken
        <3>8. \A q1, q2 \in Reqs :
                 InFlight(q1)' /\ InFlight(q2)' /\ refreshOf'[req'[q1].rt] = refreshOf'[req'[q2].rt]
                 => q1 = q2
            BY <3>1, <3>2, <3>3, <3>5 DEF OneToken
        <3> QED
            BY <3>6, <3>7, <3>8 DEF OneToken
    <2> QED
        BY <2>1, <2>2
<1>8. ASSUME NEW q \in Reqs, NEW s \in SignIns, Land(q, s)
      PROVE  \A p \in Reqs : InFlight(p)' => p # q /\ InFlight(p) /\ req'[p] = req[p]
    BY <1>8, Landing DEF InFlight, Idle
<1>9. ASSUME NEW q \in Reqs, NEW s \in SignIns, RefreshRevoked(q, s) PROVE OneToken'
    BY <1>8, <1>9, OneTokenShrinks DEF RefreshRevoked
<1>10. ASSUME NEW q \in Reqs, NEW s \in SignIns, RefreshDeferred(q, s) PROVE OneToken'
    <2>1. /\ Land(q, s) /\ refreshOf' = refreshOf
          /\ \A x \in file' : x \in file \/ x = req[q].rt
        BY <1>10, Saving DEF RefreshDeferred, FileHoldsGrants
    <2>2. /\ InFlight(q) /\ refreshOf[req[q].rt] = s
          /\ \A p \in Reqs : InFlight(p) /\ refreshOf[req[p].rt] = s => p = q
        BY <2>1, Landing
    <2>3. \A x \in file : refreshOf[x] # s
        BY <2>2 DEF OneToken
    <2>4. \A r1, r2 \in file' : refreshOf'[r1] = refreshOf'[r2] => r1 = r2
        BY <2>1, <2>2, <2>3 DEF OneToken
    <2>5. \A x \in file', p \in Reqs :
             InFlight(p)' => refreshOf'[req'[p].rt] # refreshOf'[x]
        BY <1>8, <2>1, <2>2 DEF OneToken
    <2>6. \A q1, q2 \in Reqs :
             InFlight(q1)' /\ InFlight(q2)' /\ refreshOf'[req'[q1].rt] = refreshOf'[req'[q2].rt]
             => q1 = q2
        BY <1>8, <2>1 DEF OneToken
    <2> QED
        BY <2>4, <2>5, <2>6 DEF OneToken
<1>11. ASSUME NEW q \in Reqs, NEW s \in SignIns, RefreshRefused(q, s) PROVE OneToken'
    BY <1>2, <1>8, <1>11, OneTokenShrinks DEF RefreshRefused
<1>12. ASSUME NEW q \in Reqs, NEW s \in SignIns, NEW t \in Tokens, NEW r \in RTokens,
              RefreshIssues(q, s, t, r)
       PROVE  OneToken'
    BY <1>12, IssuesOneToken
<1>13. CASE Restart
    BY <1>13, OneTokenShrinks DEF Restart, InFlight, Idle
<1> QED
    BY <1>1, <1>3, <1>4, <1>5, <1>6, <1>7, <1>9, <1>10, <1>11, <1>12, <1>13
    DEF Next, vars, DropExpired, ClosePool, RevokeNext, SignIn, DropCode, Request, Lapse,
        Stop, Drain, Reset

-----------------------------------------------------------------------------
(* The count of refreshes in flight *)

\* A revocation marks the entry of its sign-in and changes no count
LEMMA RevokeGrantEntries ==
    ASSUME TypeOK, NEW s \in SignIns, RevokeGrant(s)
    PROVE  \A n \in SignIns :
              /\ refreshing'[n].count = refreshing[n].count
              /\ n # s => refreshing'[n] = refreshing[n]
              /\ n = s /\ refreshing[s].count > 0 => refreshing'[n].revoked
<1>1. refreshing \in [SignIns -> [count: Nat, revoked: BOOLEAN]]
    BY CountTypes DEF TypeOK
<1>2. CASE refreshing[s].count > 0
    <2>1. refreshing' = [refreshing EXCEPT ![s] = [refreshing[s] EXCEPT !.revoked = TRUE]]
        BY <1>2 DEF RevokeGrant
    <2>2. [refreshing[s] EXCEPT !.revoked = TRUE] = [count |-> refreshing[s].count, revoked |-> TRUE]
        BY <1>1, EntryUpdates
    <2> QED
        BY <1>1, <2>1, <2>2
<1>3. CASE ~(refreshing[s].count > 0)
    BY <1>3 DEF RevokeGrant
<1> QED
    BY <1>2, <1>3

LEMMA CountStep ==
    TypeOK /\ FileHoldsGrants /\ OneToken /\ FlightsCounted /\ [Next]_vars => FlightsCounted'
<1> SUFFICES ASSUME TypeOK, FileHoldsGrants, OneToken, FlightsCounted, [Next]_vars
             PROVE  FlightsCounted'
    OBVIOUS
<1>1. CASE UNCHANGED <<refreshing, refreshOf, req>>
    BY <1>1 DEF FlightsCounted, Aloft, InFlight
<1>2. ASSUME UNCHANGED <<refreshOf, req>>,
             \A n \in SignIns : refreshing'[n].count = refreshing[n].count
      PROVE  FlightsCounted'
    BY <1>2 DEF FlightsCounted, Aloft, InFlight
<1>3. ASSUME NEW t \in Tokens, RevokeAccess(t) PROVE FlightsCounted'
    <2>1. tokenOf[t] \in SignIns
        BY <1>3 DEF RevokeAccess, TypeOK
    <2> QED
        BY <1>2, <1>3, <2>1, RevokeGrantEntries DEF RevokeAccess
<1>4. ASSUME NEW r \in RTokens, RevokeRefresh(r) PROVE FlightsCounted'
    <2>1. CASE r \in grants
        <3>1. refreshOf[r] \in SignIns
            BY <2>1 DEF TypeOK
        <3> QED
            BY <1>2, <1>4, <2>1, <3>1, RevokeGrantEntries DEF RevokeRefresh
    <2>2. CASE r \notin grants
        BY <1>1, <1>4, <2>2 DEF RevokeRefresh
    <2> QED
        BY <2>1, <2>2
<1>5. ASSUME NEW s \in SignIns, NEW t \in Tokens, NEW r \in RTokens, Exchange(s, t, r)
      PROVE  FlightsCounted'
    <2>1. Issue(s, t, r) /\ UNCHANGED <<refreshing, req>>
        BY <1>5 DEF Exchange
    <2>2. \A x \in RTokens : refreshOf[x] # None => refreshOf'[x] = refreshOf[x]
        BY <2>1, Issuing
    <2>3. \A q \in Reqs : InFlight(q) => refreshOf'[req[q].rt] = refreshOf[req[q].rt]
        BY <2>2, ReqTypes, NoneAssumption
    <2> QED
        BY <2>1, <2>3 DEF FlightsCounted, Aloft, InFlight
<1>6. ASSUME NEW s \in SignIns, Replay(s) PROVE FlightsCounted'
    BY <1>2, <1>6, RevokeGrantEntries DEF Replay
<1>7. ASSUME NEW q \in Reqs, NEW r \in RTokens, Refresh(q, r) PROVE FlightsCounted'
    <2>1. CASE r \in lapsed
        BY <1>1, <1>7, <2>1 DEF Refresh
    <2>2. CASE r \notin lapsed
        <3>1. /\ refreshOf' = refreshOf /\ q \in Reqs
              /\ \A p \in Reqs : req'[p] = IF p = q THEN [pc |-> "checking", rt |-> r]
                                           ELSE req[p]
              /\ ~InFlight(q)
            BY <1>7, <2>2 DEF Refresh, TypeOK, InFlight
        <3>2. \A n \in SignIns : Aloft(n)' <=> n = refreshOf[r] \/ Aloft(n)
            BY <3>1 DEF Aloft, InFlight
        <3> QED
            BY <1>7, <2>2, <3>2, Refreshing DEF FlightsCounted
    <2> QED
        BY <2>1, <2>2
<1>8. ASSUME NEW q \in Reqs, NEW s \in SignIns, Land(q, s),
             refreshing' = [refreshing EXCEPT ![s] = Quiet],
             \A x \in RTokens : refreshOf[x] # None => refreshOf'[x] = refreshOf[x]
      PROVE  FlightsCounted'
    <2>1. \A p \in Reqs : InFlight(p)' <=> InFlight(p) /\ refreshOf[req[p].rt] # s
        BY <1>8, Landing DEF InFlight, Idle
    <2>2. \A p \in Reqs : InFlight(p)' => req'[p] = req[p]
        BY <1>8, <2>1, Landing
    <2>3. \A p \in Reqs : InFlight(p) => refreshOf'[req[p].rt] = refreshOf[req[p].rt]
        BY <1>8, ReqTypes, NoneAssumption
    <2>4. \A n \in SignIns : Aloft(n)' <=> Aloft(n) /\ n # s
        BY <2>1, <2>2, <2>3 DEF Aloft
    <2>5. \A n \in SignIns : refreshing'[n].count = IF n = s THEN 0 ELSE refreshing[n].count
        BY <1>8 DEF TypeOK, Quiet
    <2> QED
        BY <2>4, <2>5 DEF FlightsCounted
<1>9. ASSUME NEW q \in Reqs, NEW s \in SignIns, RefreshRevoked(q, s) PROVE FlightsCounted'
    BY <1>8, <1>9, Landing DEF RefreshRevoked
<1>10. ASSUME NEW q \in Reqs, NEW s \in SignIns, RefreshDeferred(q, s) PROVE FlightsCounted'
    BY <1>8, <1>10, Landing DEF RefreshDeferred
<1>11. ASSUME NEW q \in Reqs, NEW s \in SignIns, RefreshRefused(q, s) PROVE FlightsCounted'
    BY <1>8, <1>11, Landing, Refusing DEF RefreshRefused
<1>12. ASSUME NEW q \in Reqs, NEW s \in SignIns, NEW t \in Tokens, NEW r \in RTokens,
              RefreshIssues(q, s, t, r)
       PROVE  FlightsCounted'
    <2>1. Land(q, s) /\ refreshing' = [refreshing EXCEPT ![s] = Quiet]
        BY <1>12, Landing DEF RefreshIssues
    <2>2. \A x \in RTokens : refreshOf[x] # None => refreshOf'[x] = refreshOf[x]
        BY <1>12, Issuing DEF RefreshIssues
    <2> QED
        BY <1>8, <2>1, <2>2
<1>13. CASE Restart
    BY <1>13 DEF Restart, FlightsCounted, Aloft, InFlight, Idle, Quiet
<1> QED
    BY <1>1, <1>3, <1>4, <1>5, <1>6, <1>7, <1>9, <1>10, <1>11, <1>12, <1>13
    DEF Next, vars, DropExpired, ClosePool, RevokeNext, SignIn, DropCode, Request, Lapse,
        Stop, Drain, Reset

-----------------------------------------------------------------------------
(* Codes that were not exchanged *)

LEMMA CodeStep ==
    TypeOK /\ FlightsCounted /\ OneToken /\ CodeComesFirst /\ [Next]_vars => CodeComesFirst'
<1> SUFFICES ASSUME TypeOK, FlightsCounted, OneToken, CodeComesFirst, [Next]_vars
             PROVE  CodeComesFirst'
    OBVIOUS
<1>0. code \in [SignIns -> {"fresh", "pending", "used", "gone"}]
    BY DEF TypeOK
<1>1. CASE UNCHANGED <<code, ended, tokenOf, refreshOf>>
    BY <1>1 DEF CodeComesFirst
<1>2. ASSUME NEW s \in SignIns, UNCHANGED <<tokenOf, refreshOf>>,
             \A n \in SignIns : n # s => code'[n] = code[n],
             ended' \subseteq ended \cup {s}, code'[s] \notin {"fresh", "pending"}
      PROVE  CodeComesFirst'
    BY <1>2 DEF CodeComesFirst
<1>3. ASSUME NEW t \in Tokens, RevokeAccess(t) PROVE CodeComesFirst'
    <2>1. tokenOf[t] \in SignIns /\ t \in Tokens
        BY <1>3 DEF RevokeAccess, TypeOK
    <2>2. code[tokenOf[t]] \notin {"fresh", "pending"}
        BY <2>1 DEF CodeComesFirst
    <2> QED
        BY <1>2, <1>3, <2>1, <2>2 DEF RevokeAccess, RevokeGrant
<1>4. ASSUME NEW r \in RTokens, RevokeRefresh(r) PROVE CodeComesFirst'
    <2>1. CASE r \in grants
        <3>1. refreshOf[r] \in SignIns
            BY <2>1 DEF TypeOK
        <3>2. code[refreshOf[r]] \notin {"fresh", "pending"}
            BY <3>1 DEF CodeComesFirst
        <3> QED
            BY <1>2, <1>4, <2>1, <3>1, <3>2 DEF RevokeRefresh, RevokeGrant
    <2>2. CASE r \notin grants
        BY <1>1, <1>4, <2>2 DEF RevokeRefresh
    <2> QED
        BY <2>1, <2>2
<1>5. ASSUME NEW s \in SignIns, SignIn(s) PROVE CodeComesFirst'
    BY <1>0, <1>5 DEF SignIn, CodeComesFirst
<1>6. ASSUME NEW s \in SignIns, NEW t \in Tokens, NEW r \in RTokens, Issue(s, t, r),
             code'[s] \notin {"fresh", "pending"}, ended' = ended,
             \A n \in SignIns : n # s => code'[n] = code[n]
      PROVE  CodeComesFirst'
    <2>1. \A u \in Tokens : tokenOf'[u] = tokenOf[u] \/ tokenOf'[u] = s
        BY <1>6, Issuing
    <2>2. \A x \in RTokens : refreshOf'[x] = refreshOf[x] \/ refreshOf'[x] = s
        BY <1>6, Issuing
    <2> QED
        BY <1>6, <2>1, <2>2 DEF CodeComesFirst
<1>7. ASSUME NEW s \in SignIns, NEW t \in Tokens, NEW r \in RTokens, Exchange(s, t, r)
      PROVE  CodeComesFirst'
    BY <1>0, <1>6, <1>7 DEF Exchange
<1>8. ASSUME NEW s \in SignIns, DropCode(s) PROVE CodeComesFirst'
    BY <1>0, <1>2, <1>8 DEF DropCode
<1>9. ASSUME NEW s \in SignIns, Replay(s) PROVE CodeComesFirst'
    BY <1>0, <1>2, <1>9 DEF Replay, RevokeGrant
<1>10. ASSUME NEW q \in Reqs, NEW s \in SignIns, Land(q, s)
       PROVE  code[s] \notin {"fresh", "pending"}
    <2>1. req[q].rt \in RTokens /\ refreshOf[req[q].rt] = s
        BY <1>10, Landing, ReqTypes
    <2> QED
        BY <2>1 DEF CodeComesFirst
<1>11. ASSUME NEW q \in Reqs, NEW s \in SignIns, RefreshRefused(q, s) PROVE CodeComesFirst'
    BY <1>2, <1>10, <1>11 DEF RefreshRefused
<1>12. ASSUME NEW q \in Reqs, NEW s \in SignIns, NEW t \in Tokens, NEW r \in RTokens,
              RefreshIssues(q, s, t, r)
       PROVE  CodeComesFirst'
    BY <1>6, <1>10, <1>12 DEF RefreshIssues
<1>13. CASE Reset
    BY <1>0, <1>13 DEF Reset, CodeComesFirst
<1>14. CASE Restart
    BY <1>0, <1>14 DEF Restart, CodeComesFirst
<1> QED
    BY <1>1, <1>3, <1>4, <1>5, <1>7, <1>8, <1>9, <1>11, <1>12, <1>13, <1>14
    DEF Next, vars, DropExpired, ClosePool, RevokeNext, Refresh, RefreshRevoked,
        RefreshDeferred, Request, Lapse, Stop, Drain

-----------------------------------------------------------------------------
(* What an ended sign-in still has *)

\* RevokeGrant leaves its sign-in nothing but the access tokens it has listed
LEMMA RevokeGrantEnds ==
    ASSUME TypeOK, FileHoldsGrants, OneToken, FlightsCounted, EndedHoldsNothing,
           NEW s \in SignIns, RevokeGrant(s), Save,
           UNCHANGED <<phase, tokenOf, sessions, refreshOf, req>>
    PROVE  EndedHoldsNothing'
<1>1. \A n \in ended' : n \in ended \/ (n = s /\ phase # "reset")
    BY DEF RevokeGrant
<1>2. \A r \in file' : r \in file
    BY DEF Save, RevokeGrant, FileHoldsGrants
<1>3. phase # "reset" => \A r \in file' : refreshOf[r] # s
    BY Saving DEF RevokeGrant, GrantsOf
<1>4. \A n \in SignIns : /\ n # s => refreshing'[n] = refreshing[n]
                         /\ refreshing[n].revoked /\ Aloft(n) => refreshing'[n].revoked
                         /\ n = s /\ Aloft(n) => refreshing'[n].revoked
    BY RevokeGrantEntries DEF FlightsCounted
<1>5. \A n \in SignIns : revoking'[n] = IF n = s THEN revoking[n] \cup TokensOf(s) ELSE revoking[n]
    BY DEF RevokeGrant, TypeOK
<1>6. ended' \subseteq SignIns
    BY <1>1 DEF TypeOK
<1>7. \A n \in ended', r \in file' : refreshOf'[r] # n
    BY <1>1, <1>2, <1>3 DEF EndedHoldsNothing
<1>8. \A n \in ended', q \in Reqs :
         InFlight(q)' /\ refreshOf'[req'[q].rt] = n => refreshing'[n].revoked
    <2>1. \A n \in ended, q \in Reqs :
             InFlight(q) /\ refreshOf[req[q].rt] = n => refreshing[n].revoked
        BY DEF EndedHoldsNothing
    <2> QED
        BY <1>1, <1>4, <1>6, <2>1 DEF Aloft, InFlight
<1>9. \A n \in ended', t \in sessions' : tokenOf'[t] = n => t \in revoking'[n]
    BY <1>1, <1>5, <1>6 DEF EndedHoldsNothing, TokensOf
<1> QED
    BY <1>7, <1>8, <1>9 DEF EndedHoldsNothing

\* Tokens issued for a sign-in that has not ended
LEMMA IssueEndsNothing ==
    ASSUME TypeOK, FileHoldsGrants, EndedHoldsNothing, NEW s \in SignIns \ ended,
           NEW t \in Tokens, NEW r \in RTokens, Issue(s, t, r), Save,
           UNCHANGED <<ended, revoking>>,
           \A q \in Reqs : InFlight(q)' => InFlight(q) /\ req'[q] = req[q],
           \A n \in SignIns : n # s => refreshing'[n] = refreshing[n]
    PROVE  EndedHoldsNothing'
<1>1. \A x \in file' : x \in file \/ x \in grants'
    BY Saving
<1>2. \A x \in grants' : x \in file \/ (x = r /\ refreshOf'[x] = s)
    BY Issuing DEF FileHoldsGrants
<1>3. \A x \in RTokens : refreshOf'[x] = refreshOf[x] \/ (x = r /\ refreshOf'[x] = s)
    BY Issuing
<1>4. \A n \in ended', x \in file' : refreshOf'[x] # n
    BY <1>1, <1>2, <1>3 DEF EndedHoldsNothing, TypeOK
<1>5. \A q \in Reqs : InFlight(q) => req[q].rt \in RTokens
    BY ReqTypes
<1>6. \A n \in ended', q \in Reqs :
         InFlight(q)' /\ refreshOf'[req'[q].rt] = n => refreshing'[n].revoked
    BY <1>3, <1>5 DEF EndedHoldsNothing, TypeOK
<1>7. \A u \in sessions' : (u \in sessions /\ tokenOf'[u] = tokenOf[u]) \/ tokenOf'[u] = s
    BY Issuing DEF TypeOK
<1>8. \A n \in ended', u \in sessions' : tokenOf'[u] = n => u \in revoking'[n]
    BY <1>7 DEF EndedHoldsNothing
<1> QED
    BY <1>4, <1>6, <1>8 DEF EndedHoldsNothing

LEMMA EndedStep ==
    /\ TypeOK /\ FileHoldsGrants /\ OneToken /\ FlightsCounted /\ CodeComesFirst
    /\ EndedHoldsNothing /\ [Next]_vars
    => EndedHoldsNothing'
<1> SUFFICES ASSUME TypeOK, FileHoldsGrants, OneToken, FlightsCounted, CodeComesFirst,
                    EndedHoldsNothing, [Next]_vars
             PROVE  EndedHoldsNothing'
    OBVIOUS
<1>1. ASSUME UNCHANGED <<ended, tokenOf, refreshOf, req, refreshing, revoking>>,
             file' \subseteq file, sessions' \subseteq sessions
      PROVE  EndedHoldsNothing'
    BY <1>1 DEF EndedHoldsNothing, InFlight
<1>2. ASSUME NEW t \in Tokens, DropExpired(t) PROVE EndedHoldsNothing'
    BY <1>1, <1>2 DEF DropExpired, RemoveToken
<1>3. ASSUME NEW s \in SignIns, NEW t \in Tokens, RevokeNext(s, t) PROVE EndedHoldsNothing'
    <2>1. /\ UNCHANGED <<ended, tokenOf, refreshOf, req, refreshing, file>>
          /\ \A n \in SignIns : revoking'[n] = IF n = s THEN revoking[n] \ {t} ELSE revoking[n]
        BY <1>3 DEF RevokeNext, TypeOK
    <2>2. sessions' = sessions \ {t}
        BY <1>3 DEF RevokeNext, RemoveToken
    <2>3. \A n \in ended, u \in sessions' : tokenOf[u] = n => u \in revoking'[n]
        BY <2>1, <2>2 DEF EndedHoldsNothing, TypeOK
    <2>4. \A n \in ended, q \in Reqs :
             InFlight(q)' /\ refreshOf[req[q].rt] = n => refreshing[n].revoked
        BY <2>1 DEF EndedHoldsNothing, InFlight
    <2>5. \A n \in ended, r \in file : refreshOf[r] # n
        BY DEF EndedHoldsNothing
    <2> QED
        BY <2>1, <2>3, <2>4, <2>5 DEF EndedHoldsNothing
<1>4. ASSUME NEW t \in Tokens, RevokeAccess(t) PROVE EndedHoldsNothing'
    <2>1. tokenOf[t] \in SignIns
        BY <1>4 DEF RevokeAccess, TypeOK
    <2> QED
        BY <1>4, <2>1, RevokeGrantEnds DEF RevokeAccess
<1>5. ASSUME NEW r \in RTokens, RevokeRefresh(r) PROVE EndedHoldsNothing'
    <2>1. CASE r \in grants
        <3>1. refreshOf[r] \in SignIns
            BY <2>1 DEF TypeOK
        <3> QED
            BY <1>5, <2>1, <3>1, RevokeGrantEnds DEF RevokeRefresh
    <2>2. CASE r \notin grants
        BY <1>1, <1>5, <2>2 DEF RevokeRefresh, Save
    <2> QED
        BY <2>1, <2>2
<1>6. ASSUME NEW s \in SignIns, NEW t \in Tokens, NEW r \in RTokens, Exchange(s, t, r)
      PROVE  EndedHoldsNothing'
    <2>1. s \notin ended
        BY <1>6 DEF Exchange, CodeComesFirst
    <2> QED
        BY <1>6, <2>1, IssueEndsNothing DEF Exchange, InFlight
<1>7. ASSUME NEW s \in SignIns, Replay(s) PROVE EndedHoldsNothing'
    BY <1>7, RevokeGrantEnds DEF Replay
<1>8. ASSUME NEW q \in Reqs, NEW r \in RTokens, Refresh(q, r) PROVE EndedHoldsNothing'
    <2>1. r \in file /\ file' \subseteq file
        BY <1>8 DEF Refresh, Save, FileHoldsGrants
    <2>2. CASE r \in lapsed
        BY <1>1, <1>8, <2>1, <2>2 DEF Refresh
    <2>3. CASE r \notin lapsed
        <3>1. /\ UNCHANGED <<ended, tokenOf, refreshOf, revoking, sessions>>
              /\ \A p \in Reqs : req'[p] = IF p = q THEN [pc |-> "checking", rt |-> r]
                                           ELSE req[p]
            BY <1>8, <2>3 DEF Refresh, TypeOK
        <3>2. \A n \in SignIns : n # refreshOf[r] => refreshing'[n] = refreshing[n]
            BY <1>8, <2>3, Refreshing
        <3>3. refreshOf[r] \notin ended
            BY <2>1 DEF EndedHoldsNothing
        <3>4. \A p \in Reqs : InFlight(p)' /\ p # q => InFlight(p)
            BY <3>1 DEF InFlight
        <3>5. \A n \in ended', p \in Reqs :
                 InFlight(p)' /\ refreshOf'[req'[p].rt] = n => refreshing'[n].revoked
            BY <3>1, <3>2, <3>3, <3>4 DEF EndedHoldsNothing, TypeOK
        <3> QED
            BY <2>1, <3>1, <3>5 DEF EndedHoldsNothing
    <2> QED
        BY <2>2, <2>3
<1>9. ASSUME NEW q \in Reqs, NEW s \in SignIns, Land(q, s)
      PROVE  /\ \A p \in Reqs : InFlight(p)' => InFlight(p) /\ req'[p] = req[p]
             /\ \A p \in Reqs : InFlight(p)' => refreshOf[req[p].rt] # s
             /\ s \in ended => refreshing[s].revoked
    BY <1>9, Landing DEF InFlight, Idle, EndedHoldsNothing
<1>10. ASSUME NEW q \in Reqs, NEW s \in SignIns, Land(q, s),
              refreshing' = [refreshing EXCEPT ![s] = Quiet],
              UNCHANGED <<ended, tokenOf, refreshOf, sessions, revoking>>,
              \A n \in ended, r \in file' : refreshOf[r] # n
       PROVE  EndedHoldsNothing'
    <2>1. \A n \in SignIns : n # s => refreshing'[n] = refreshing[n]
        BY <1>10 DEF TypeOK
    <2>2. \A n \in ended', p \in Reqs :
             InFlight(p)' /\ refreshOf'[req'[p].rt] = n => refreshing'[n].revoked
        BY <1>9, <1>10, <2>1 DEF EndedHoldsNothing, TypeOK
    <2> QED
        BY <1>10, <2>2 DEF EndedHoldsNothing
<1>11. ASSUME NEW q \in Reqs, NEW s \in SignIns, RefreshRevoked(q, s) PROVE EndedHoldsNothing'
    <2>1. /\ Land(q, s) /\ UNCHANGED <<ended, tokenOf, refreshOf, sessions, revoking, file>>
          /\ refreshing' = [refreshing EXCEPT ![s] = Quiet]
        BY <1>11, Landing DEF RefreshRevoked
    <2>2. \A n \in ended, r \in file : refreshOf[r] # n
        BY DEF EndedHoldsNothing
    <2> QED
        BY <1>10, <2>1, <2>2
<1>12. ASSUME NEW q \in Reqs, NEW s \in SignIns, RefreshDeferred(q, s) PROVE EndedHoldsNothing'
    <2>1. s \notin ended /\ refreshOf[req[q].rt] = s
        BY <1>9, <1>12, Landing DEF RefreshDeferred
    <2>2. \A r \in file' : r \in file \/ r = req[q].rt
        BY <1>12, Saving DEF RefreshDeferred, FileHoldsGrants
    <2>3. \A n \in ended, r \in file' : refreshOf[r] # n
        BY <2>1, <2>2 DEF EndedHoldsNothing
    <2> QED
        BY <1>10, <1>12, <2>3, Landing DEF RefreshDeferred
<1>13. ASSUME NEW q \in Reqs, NEW s \in SignIns, RefreshRefused(q, s) PROVE EndedHoldsNothing'
    <2>1. /\ Land(q, s) /\ UNCHANGED <<tokenOf, refreshOf, sessions, phase>>
          /\ \A n \in ended' : n \in ended \/ (n = s /\ phase # "reset")
          /\ \A n \in SignIns : revoking'[n] = IF n = s THEN revoking[n] \cup TokensOf(s)
                                               ELSE revoking[n]
        BY <1>13 DEF RefreshRefused, TypeOK
    <2>2. \A n \in SignIns : n # s => refreshing'[n] = refreshing[n]
        BY <1>13, Refusing DEF TypeOK
    <2>3. file' \subseteq file
        BY <1>13 DEF RefreshRefused, Save, FileHoldsGrants
    <2>4. \A r \in file : refreshOf[r] # s
        BY <2>1, Landing DEF OneToken
    <2>5. \A n \in ended', r \in file' : refreshOf'[r] # n
        BY <2>1, <2>3, <2>4 DEF EndedHoldsNothing
    <2>6. \A n \in ended', p \in Reqs :
             InFlight(p)' /\ refreshOf'[req'[p].rt] = n => refreshing'[n].revoked
        <3>1. \A p \in Reqs : InFlight(p)' => InFlight(p) /\ req'[p] = req[p]
                                              /\ refreshOf[req[p].rt] # s
            BY <1>9, <2>1
        <3>2. \A n \in ended, p \in Reqs :
                 InFlight(p) /\ refreshOf[req[p].rt] = n => refreshing[n].revoked
            BY DEF EndedHoldsNothing
        <3>3. ended \subseteq SignIns
            BY DEF TypeOK
        <3> QED
            BY <2>1, <2>2, <3>1, <3>2, <3>3
    <2>7. \A n \in ended', t \in sessions' : tokenOf'[t] = n => t \in revoking'[n]
        <3>1. \A n \in ended, t \in sessions : tokenOf[t] = n => t \in revoking[n]
            BY DEF EndedHoldsNothing
        <3>2. \A t \in sessions : tokenOf[t] = s => t \in TokensOf(s)
            BY DEF TokensOf
        <3>3. ended \subseteq SignIns
            BY DEF TypeOK
        <3> QED
            BY <2>1, <3>1, <3>2, <3>3
    <2> QED
        BY <2>5, <2>6, <2>7 DEF EndedHoldsNothing
<1>14. ASSUME NEW q \in Reqs, NEW s \in SignIns, NEW t \in Tokens, NEW r \in RTokens,
              RefreshIssues(q, s, t, r)
       PROVE  EndedHoldsNothing'
    <2>1. /\ Land(q, s) /\ Issue(s, t, r) /\ Save /\ s \notin ended
          /\ refreshing' = [refreshing EXCEPT ![s] = Quiet]
          /\ UNCHANGED <<ended, revoking>>
        BY <1>9, <1>14, Landing DEF RefreshIssues
    <2>2. \A n \in SignIns : n # s => refreshing'[n] = refreshing[n]
        BY <2>1 DEF TypeOK
    <2> QED
        BY <1>9, <2>1, <2>2, IssueEndsNothing
<1>15. CASE Stop
    BY <1>1, <1>15 DEF Stop
<1>16. CASE Reset
    BY <1>1, <1>16 DEF Reset
<1>17. CASE Restart
    BY <1>17 DEF Restart, EndedHoldsNothing, InFlight, Idle
<1>18. CASE UNCHANGED <<ended, file, tokenOf, refreshOf, sessions, req, refreshing, revoking>>
    BY <1>1, <1>18
<1> QED
    BY <1>2, <1>3, <1>4, <1>5, <1>6, <1>7, <1>8, <1>11, <1>12, <1>13, <1>14, <1>15,
       <1>16, <1>17, <1>18
    DEF Next, vars, ClosePool, SignIn, DropCode, Request, Lapse, Drain

-----------------------------------------------------------------------------
(* Refresh tokens that were exchanged *)

LEMMA RedeemedStep ==
    /\ TypeOK /\ FileHoldsGrants /\ OneToken /\ FlightsCounted /\ RedeemedIsGone /\ [Next]_vars
    => RedeemedIsGone'
<1> SUFFICES ASSUME TypeOK, FileHoldsGrants, OneToken, FlightsCounted, RedeemedIsGone,
                    [Next]_vars
             PROVE  RedeemedIsGone'
    OBVIOUS
<1>1. ASSUME redeemed' = redeemed, UNCHANGED refreshOf, file' \subseteq file,
             \A q \in Reqs : InFlight(q)' => InFlight(q) /\ req'[q] = req[q]
      PROVE  RedeemedIsGone'
    BY <1>1 DEF RedeemedIsGone
<1>2. ASSUME Save, grants' \subseteq grants PROVE file' \subseteq file
    BY <1>2 DEF Save, FileHoldsGrants
<1>3. ASSUME NEW t \in Tokens, RevokeAccess(t) PROVE RedeemedIsGone'
    BY <1>1, <1>2, <1>3 DEF RevokeAccess, RevokeGrant, InFlight
<1>4. ASSUME NEW r \in RTokens, RevokeRefresh(r) PROVE RedeemedIsGone'
    BY <1>1, <1>2, <1>4 DEF RevokeRefresh, RevokeGrant, InFlight
<1>5. ASSUME NEW s \in SignIns, NEW t \in Tokens, NEW r \in RTokens, Issue(s, t, r), Save,
             \A q \in Reqs : InFlight(q)' => InFlight(q) /\ req'[q] = req[q],
             \A x \in redeemed' : x \in RTokens /\ refreshOf[x] # None,
             \A x \in redeemed' : x \notin file,
             \A x \in redeemed', q \in Reqs : InFlight(q)' => req[q].rt # x
      PROVE  RedeemedIsGone'
    <2>1. \A x \in RTokens : refreshOf[x] # None => refreshOf'[x] = refreshOf[x]
        BY <1>5, Issuing
    <2>2. \A x \in grants' : x \in grants \/ refreshOf[x] = None
        BY <1>5, Issuing
    <2>3. \A x \in file' : x \in file \/ refreshOf[x] = None
        BY <1>5, <2>2, Saving DEF FileHoldsGrants
    <2> QED
        BY <1>5, <2>1, <2>3 DEF RedeemedIsGone
<1>6. ASSUME NEW s \in SignIns, NEW t \in Tokens, NEW r \in RTokens, Exchange(s, t, r)
      PROVE  RedeemedIsGone'
    BY <1>5, <1>6 DEF Exchange, RedeemedIsGone, InFlight, TypeOK
<1>7. ASSUME NEW s \in SignIns, Replay(s) PROVE RedeemedIsGone'
    BY <1>1, <1>2, <1>7 DEF Replay, RevokeGrant, InFlight
<1>8. ASSUME NEW q \in Reqs, NEW r \in RTokens, Refresh(q, r) PROVE RedeemedIsGone'
    <2>1. r \in file /\ file' \subseteq file
        BY <1>8 DEF Refresh, Save, FileHoldsGrants
    <2>2. CASE r \in lapsed
        BY <1>1, <1>8, <2>1, <2>2 DEF Refresh, InFlight
    <2>3. CASE r \notin lapsed
        <3>1. /\ UNCHANGED <<redeemed, refreshOf>>
              /\ \A p \in Reqs : req'[p] = IF p = q THEN [pc |-> "checking", rt |-> r]
                                           ELSE req[p]
            BY <1>8, <2>3 DEF Refresh, TypeOK
        <3> QED
            BY <2>1, <3>1 DEF RedeemedIsGone, InFlight
    <2> QED
        BY <2>2, <2>3
<1>9. ASSUME NEW q \in Reqs, NEW s \in SignIns, Land(q, s)
      PROVE  \A p \in Reqs : InFlight(p)' => InFlight(p) /\ p # q /\ req'[p] = req[p]
    BY <1>9, Landing DEF InFlight, Idle
<1>10. ASSUME NEW q \in Reqs, NEW s \in SignIns, RefreshRevoked(q, s) PROVE RedeemedIsGone'
    BY <1>1, <1>9, <1>10 DEF RefreshRevoked
<1>11. ASSUME NEW q \in Reqs, NEW s \in SignIns, RefreshDeferred(q, s) PROVE RedeemedIsGone'
    <2>1. /\ Land(q, s) /\ UNCHANGED <<redeemed, refreshOf>> /\ InFlight(q)
        BY <1>11, Landing DEF RefreshDeferred
    <2>2. \A r \in file' : r \in file \/ r = req[q].rt
        BY <1>11, Saving DEF RefreshDeferred, FileHoldsGrants
    <2> QED
        BY <1>9, <2>1, <2>2 DEF RedeemedIsGone
<1>12. ASSUME NEW q \in Reqs, NEW s \in SignIns, RefreshRefused(q, s) PROVE RedeemedIsGone'
    BY <1>1, <1>2, <1>9, <1>12 DEF RefreshRefused
<1>13. ASSUME NEW q \in Reqs, NEW s \in SignIns, NEW t \in Tokens, NEW r \in RTokens,
              RefreshIssues(q, s, t, r)
       PROVE  RedeemedIsGone'
    <2>1. /\ Land(q, s) /\ Issue(s, t, r) /\ Save
          /\ \A x \in redeemed' : x \in redeemed \/ x = req[q].rt
        BY <1>13 DEF RefreshIssues
    <2>2. /\ InFlight(q) /\ refreshOf[req[q].rt] = s /\ req[q].rt \in RTokens
          /\ \A p \in Reqs : InFlight(p) /\ refreshOf[req[p].rt] = s => p = q
        BY <2>1, Landing, ReqTypes
    <2>3. req[q].rt \notin file
        BY <2>2 DEF OneToken
    <2>4. \A x \in redeemed' : x \in RTokens /\ refreshOf[x] # None /\ x \notin file
        BY <2>1, <2>2, <2>3, NoneAssumption DEF RedeemedIsGone, TypeOK
    <2>5. \A x \in redeemed', p \in Reqs : InFlight(p)' => req[p].rt # x
        BY <1>9, <2>1, <2>2 DEF RedeemedIsGone
    <2> QED
        BY <1>5, <1>9, <2>1, <2>4, <2>5
<1>14. CASE Restart
    BY <1>1, <1>14 DEF Restart, InFlight, Idle
<1>15. CASE UNCHANGED <<redeemed, refreshOf, file, req>>
    BY <1>1, <1>15 DEF InFlight
<1> QED
    BY <1>3, <1>4, <1>6, <1>7, <1>8, <1>10, <1>11, <1>12, <1>13, <1>14, <1>15
    DEF Next, vars, DropExpired, ClosePool, RevokeNext, SignIn, DropCode, Request, Lapse,
        Stop, Drain, Reset

-----------------------------------------------------------------------------
(* Pools *)

LEMMA PoolsStep == TypeOK /\ PoolsHeld /\ [Next]_vars => PoolsHeld'
<1> SUFFICES ASSUME TypeOK, PoolsHeld, [Next]_vars PROVE PoolsHeld'
    OBVIOUS
<1> USE DEF PoolsHeld, NoStrandedPool, TokensOf
<1>1. CASE UNCHANGED <<phase, tokenOf, sessions, closers, draining, grantPool>>
    BY <1>1
<1>2. ASSUME NEW t \in Tokens, RemoveToken(t), t \in sessions,
             UNCHANGED <<phase, tokenOf, draining, grantPool>>
      PROVE  PoolsHeld'
    BY <1>2 DEF RemoveToken
<1>3. ASSUME NEW t \in Tokens, DropExpired(t) PROVE PoolsHeld'
    BY <1>2, <1>3 DEF DropExpired
<1>4. ASSUME NEW t \in Tokens, ClosePool(t) PROVE PoolsHeld'
    BY <1>4 DEF ClosePool
<1>5. ASSUME NEW s \in SignIns, NEW t \in Tokens, RevokeNext(s, t) PROVE PoolsHeld'
    BY <1>1, <1>2, <1>5 DEF RevokeNext
<1>6. ASSUME NEW s \in SignIns, NEW t \in Tokens, NEW r \in RTokens, Issue(s, t, r),
             UNCHANGED <<phase, closers, draining>>
      PROVE  PoolsHeld'
    <2>1. \A u \in Tokens : tokenOf[u] # None => tokenOf'[u] = tokenOf[u]
        BY <1>6, Issuing
    <2>2. /\ sessions \subseteq sessions'
          /\ \A n \in grantPool' : n \in grantPool \/ (n = s /\ t \in sessions' /\ tokenOf'[t] = s)
        BY <1>6, Issuing
    <2>3. \A u \in sessions \cup closers \cup draining : tokenOf'[u] = tokenOf[u]
        BY <2>1 DEF TypeOK
    <2> QED
        BY <1>6, <2>2, <2>3
<1>7. ASSUME NEW s \in SignIns, NEW t \in Tokens, NEW r \in RTokens, Exchange(s, t, r)
      PROVE  PoolsHeld'
    BY <1>6, <1>7 DEF Exchange
<1>8. ASSUME NEW q \in Reqs, NEW s \in SignIns, NEW t \in Tokens, NEW r \in RTokens,
             RefreshIssues(q, s, t, r)
      PROVE  PoolsHeld'
    BY <1>6, <1>8 DEF RefreshIssues
<1>9. ASSUME NEW t \in Tokens, Request(t) PROVE PoolsHeld'
    BY <1>9 DEF Request
<1>10. CASE Stop
    BY <1>10 DEF Stop
<1>11. ASSUME NEW t \in Tokens, Drain(t) PROVE PoolsHeld'
    BY <1>11 DEF Drain
<1>12. CASE Reset
    BY <1>12 DEF Reset
<1>13. CASE Restart
    BY <1>13 DEF Restart
<1> QED
    BY <1>1, <1>3, <1>4, <1>5, <1>7, <1>8, <1>9, <1>10, <1>11, <1>12, <1>13
    DEF Next, vars, RevokeAccess, RevokeRefresh, SignIn, DropCode, Replay, Refresh,
        RefreshRevoked, RefreshDeferred, RefreshRefused, Lapse

-----------------------------------------------------------------------------
(* The invariant holds, and what follows from it *)

LEMMA IInvInit == Init => IInv
<1> SUFFICES ASSUME Init PROVE IInv
    OBVIOUS
<1>1. TypeOK
    BY TypeInit
<1>2. \A q \in Reqs : ~InFlight(q)
    BY DEF Init, InFlight, Idle
<1>3. FileHoldsGrants /\ OneToken /\ EndedHoldsNothing /\ RedeemedIsGone
    BY <1>2 DEF Init, FileHoldsGrants, FileFollowsStore, OneToken, EndedHoldsNothing,
                RedeemedIsGone
<1>4. FlightsCounted
    BY <1>2 DEF Init, FlightsCounted, Aloft, Quiet
<1>5. CodeComesFirst
    BY NoneAssumption DEF Init, CodeComesFirst
<1>6. PoolsHeld
    BY DEF Init, PoolsHeld, NoStrandedPool
<1> QED
    BY <1>1, <1>3, <1>4, <1>5, <1>6 DEF IInv

LEMMA IInvStep == IInv /\ [Next]_vars => IInv'
BY TypeStep, FileStep, OneTokenStep, CountStep, CodeStep, EndedStep, RedeemedStep,
   PoolsStep DEF IInv

LEMMA Invariance == Spec => []IInv
BY IInvInit, IInvStep, PTL DEF Spec

\* The OAuth server's state always has its type.
THEOREM TypeCorrect == Spec => []TypeOK
<1>1. IInv => TypeOK
    BY DEF IInv
<1> QED
    BY <1>1, Invariance, PTL

\* However requests, revocations and restarts interleave, a sign-in has one
\* refresh token at most, and one that was exchanged is never good again.
THEOREM TokensAccounted == Spec => []RefreshTokensAccounted
<1>1. ASSUME IInv PROVE RefreshTokensAccounted
    <2>1. TypeOK /\ FileHoldsGrants /\ OneToken /\ RedeemedIsGone
        BY <1>1 DEF IInv
    <2>2. ASSUME NEW r \in redeemed, NEW q \in Reqs PROVE req[q].rt # r
        <3>1. CASE InFlight(q)
            BY <2>1, <3>1 DEF RedeemedIsGone
        <3>2. CASE ~InFlight(q)
            BY <2>1, <3>2, ReqTypes, NoneAssumption DEF Idle, TypeOK
        <3> QED
            BY <3>1, <3>2
    <2>3. WorksOnce
        BY <2>1, <2>2 DEF WorksOnce, RedeemedIsGone, FileHoldsGrants
    <2>4. OneRefreshToken
        BY <2>1 DEF OneRefreshToken, OneToken, FileHoldsGrants, GrantsOf, Flights, InFlight
    <2> QED
        BY <2>1, <2>3, <2>4 DEF RefreshTokensAccounted
<1> QED
    BY <1>1, Invariance, PTL

\* A revoked sign-in has no refresh token left, in memory or on disk, and no
\* access token but those the revocation is still to take away.
THEOREM RevocationHolds == Spec => []RevokedHoldsNothing
<1>1. IInv => RevokedHoldsNothing
    BY DEF IInv, EndedHoldsNothing, RevokedHoldsNothing, FileHoldsGrants, TokensOf
<1> QED
    BY <1>1, Invariance, PTL

\* Until shutdown clears the store, the state file holds exactly its grants,
\* whatever a request, a revocation or an expiry changed last.
THEOREM FileIsTheStore == Spec => []FileFollowsStore
<1>1. IInv => FileFollowsStore
    BY DEF IInv, FileHoldsGrants
<1> QED
    BY <1>1, Invariance, PTL

\* A grant's pool is registered only while the sign-in has a token or a cleanup
\* callback is about to close it.
THEOREM PoolsNotStranded == Spec => []NoStrandedPool
<1>1. IInv => NoStrandedPool
    BY DEF IInv, PoolsHeld
<1> QED
    BY <1>1, Invariance, PTL

\* Once a revocation has reached a sign-in, no step issues a token for it: not a
\* refresh that was waiting on the sign-on, nor one after a restart.
THEOREM NoRevival == Spec => NoTokenAfterRevocation
<1> DEFINE Kept == \A s \in ended :
                      /\ \A t \in Tokens : tokenOf'[t] = s => tokenOf[t] = s
                      /\ \A r \in RTokens : refreshOf'[r] = s => refreshOf[r] = s
<1>1. ASSUME IInv, [Next]_vars PROVE Kept
    <2>0. TypeOK /\ OneToken /\ FlightsCounted /\ CodeComesFirst /\ EndedHoldsNothing
        BY <1>1 DEF IInv
    <2>1. CASE UNCHANGED <<tokenOf, refreshOf>>
        BY <2>1
    <2>2. ASSUME NEW s \in SignIns \ ended, NEW t \in Tokens, NEW r \in RTokens,
                 Issue(s, t, r)
          PROVE  Kept
        BY <2>0, <2>2, Issuing
    <2>3. ASSUME NEW s \in SignIns, NEW t \in Tokens, NEW r \in RTokens, Exchange(s, t, r)
          PROVE  Kept
        <3>1. s \notin ended
            BY <2>0, <2>3 DEF Exchange, CodeComesFirst
        <3> QED
            BY <2>2, <2>3, <3>1 DEF Exchange
    <2>4. ASSUME NEW q \in Reqs, NEW s \in SignIns, NEW t \in Tokens, NEW r \in RTokens,
                 RefreshIssues(q, s, t, r)
          PROVE  Kept
        <3>1. InFlight(q) /\ refreshOf[req[q].rt] = s
            BY <2>0, <2>4, Landing DEF RefreshIssues
        <3>2. s \notin ended
            BY <2>0, <2>4, <3>1 DEF RefreshIssues, EndedHoldsNothing
        <3> QED
            BY <2>2, <2>4, <3>2 DEF RefreshIssues
    <2> QED
        BY <1>1, <2>1, <2>3, <2>4
        DEF Next, vars, DropExpired, ClosePool, RevokeNext, RevokeAccess, RevokeRefresh,
            SignIn, DropCode, Replay, Refresh, RefreshRevoked, RefreshDeferred,
            RefreshRefused, Request, Lapse, Stop, Drain, Reset, Restart
<1>2. IInv /\ [Next]_vars => [Kept]_vars
    BY <1>1
<1> QED
    BY <1>2, Invariance, PTL DEF Spec, NoTokenAfterRevocation

-----------------------------------------------------------------------------
(* The sign-ins implement GrantLifetimes.  A step loses tokens, ends a        *)
(* sign-in, renews one, begins one, or changes nothing of the abstract state. *)

AbsVars == <<BegunSignIns, Exchangeable, RenewalsOf, sessions, tokenOf, refreshOf, ended>>
AbsStep == Lifetimes!Next \/ UNCHANGED AbsVars

LEMMA RenewableDef ==
    /\ \A r : r \in Renewable <=>
          /\ r \in file \/ \E q \in Reqs : InFlight(q) /\ req[q].rt = r
          /\ refreshOf[r] \notin ended
    /\ \A r : r \in Renewable' <=>
          /\ r \in file' \/ \E q \in Reqs : InFlight(q)' /\ req'[q].rt = r
          /\ refreshOf'[r] \notin ended'
BY DEF Renewable, Exchanging, InFlight

LEMMA RenewalsTyped ==
    /\ TypeOK => RenewalsOf \in [SignIns -> SUBSET RTokens]
    /\ TypeOK' => RenewalsOf' \in [SignIns -> SUBSET RTokens]
<1>1. ASSUME TypeOK PROVE \A r \in Renewable : r \in RTokens
    BY <1>1, ReqTypes, RenewableDef DEF TypeOK
<1>2. ASSUME TypeOK' PROVE \A r \in Renewable' : r \in RTokens
    <2>1. \A q \in Reqs : InFlight(q)' => req'[q].rt \in RTokens
        BY <1>2 DEF TypeOK, InFlight, Idle
    <2>2. file' \subseteq RTokens
        BY <1>2 DEF TypeOK
    <2> QED
        BY <2>1, <2>2, RenewableDef
<1> QED
    BY <1>1, <1>2 DEF RenewalsOf

\* A step that starts no code, no access token and nothing to renew with
LEMMA LoseAbs ==
    ASSUME TypeOK, TypeOK', UNCHANGED <<tokenOf, refreshOf, ended>>,
           sessions' \subseteq sessions, Renewable' \subseteq Renewable,
           \A s \in SignIns : /\ code'[s] = "fresh" <=> code[s] = "fresh"
                              /\ code'[s] = "pending" => code[s] = "pending"
    PROVE  AbsStep
<1>1. BegunSignIns' = BegunSignIns /\ Exchangeable' \subseteq Exchangeable
    BY DEF BegunSignIns, Exchangeable
<1>2. \A s \in SignIns : RenewalsOf'[s] \subseteq RenewalsOf[s]
    BY DEF RenewalsOf
<1>3. Lifetimes!Lose
    BY <1>1, <1>2, RenewalsTyped DEF Lifetimes!Lose
<1> QED
    BY <1>3 DEF AbsStep, Lifetimes!Next

\* A revocation before the store is cleared
LEMMA EndAbs ==
    ASSUME TypeOK, TypeOK', FileHoldsGrants, NEW s \in SignIns, phase # "reset",
           grants' = grants \ GrantsOf(s), Save, ended' = ended \cup {s},
           UNCHANGED <<tokenOf, refreshOf, sessions>>,
           \A n \in SignIns : /\ code'[n] = "fresh" <=> code[n] = "fresh"
                              /\ code'[n] = "pending" <=> code[n] = "pending",
           \A q \in Reqs : \/ req'[q] = req[q]
                           \/ refreshOf[req[q].rt] = s /\ req'[q] = Idle
    PROVE  AbsStep
<1>1. BegunSignIns' = BegunSignIns /\ Exchangeable' = Exchangeable
    BY DEF BegunSignIns, Exchangeable
<1>2. file = grants /\ file' = grants'
    BY Saving DEF FileHoldsGrants, FileFollowsStore
<1>3. \A r : r \in Renewable' <=> r \in Renewable /\ refreshOf[r] # s
    <2>1. ASSUME NEW r, r \in Renewable' PROVE r \in Renewable /\ refreshOf[r] # s
        <3>1. \A q \in Reqs : InFlight(q)' => req'[q] = req[q] /\ InFlight(q)
            BY DEF InFlight, Idle
        <3> QED
            BY <1>2, <2>1, <3>1, RenewableDef
    <2>2. ASSUME NEW r, r \in Renewable, refreshOf[r] # s PROVE r \in Renewable'
        <3>1. \A q \in Reqs : InFlight(q) /\ req[q].rt = r => InFlight(q)' /\ req'[q].rt = r
            BY <2>2 DEF InFlight
        <3>2. r \in file => r \in file'
            BY <1>2, <2>2 DEF GrantsOf
        <3>3. refreshOf'[r] \notin ended'
            BY <2>2, RenewableDef
        <3> QED
            BY <2>2, <3>1, <3>2, <3>3, RenewableDef
    <2> QED
        BY <2>1, <2>2
<1>4. RenewalsOf' = [RenewalsOf EXCEPT ![s] = {}]
    <2>1. \A n \in SignIns : RenewalsOf'[n] = IF n = s THEN {} ELSE RenewalsOf[n]
        BY <1>3 DEF RenewalsOf
    <2> QED
        BY <2>1 DEF RenewalsOf
<1>5. Lifetimes!End(s)
    BY <1>1, <1>4 DEF Lifetimes!End
<1> QED
    BY <1>5 DEF AbsStep, Lifetimes!Next

\* revokeGrant: once the store is cleared there is no sign-in left to end
LEMMA RevokeAbs ==
    ASSUME TypeOK, TypeOK', FileHoldsGrants, NEW s \in SignIns, RevokeGrant(s), Save,
           UNCHANGED <<tokenOf, refreshOf, sessions, req>>,
           \A n \in SignIns : /\ code'[n] = "fresh" <=> code[n] = "fresh"
                              /\ code'[n] = "pending" <=> code[n] = "pending"
    PROVE  AbsStep
<1>1. CASE phase # "reset"
    BY <1>1, EndAbs DEF RevokeGrant
<1>2. CASE phase = "reset"
    <2>1. ended' = ended /\ grants' \subseteq grants
        BY <1>2 DEF RevokeGrant
    <2>2. file' \subseteq file
        BY <2>1, Saving DEF FileHoldsGrants
    <2>3. Renewable' \subseteq Renewable
        BY <2>1, <2>2, RenewableDef DEF InFlight
    <2> QED
        BY <2>1, <2>3, LoseAbs
<1> QED
    BY <1>1, <1>2

\* Tokens for a sign-in that has given up what it went on with
LEMMA RenewAbs ==
    ASSUME TypeOK, TypeOK', FileHoldsGrants,
           NEW s \in SignIns \ ended, NEW t \in Tokens, NEW r \in RTokens,
           s \in Exchangeable \/ RenewalsOf[s] # {},
           NewAccess(s, t), NewRefresh(s, r) \/ NoRefresh,
           Cardinality(sessions) < MaxSessions, Save,
           ended' = ended, BegunSignIns' = BegunSignIns, Exchangeable' = Exchangeable \ {s},
           \A x \in file : refreshOf[x] # s,
           \A q \in Reqs : InFlight(q)' => /\ InFlight(q) /\ req'[q] = req[q]
                                           /\ refreshOf[req[q].rt] # s
    PROVE  AbsStep
<1>0. Lifetimes!Cardinality(sessions) = Cardinality(sessions)
    BY DEF Lifetimes!Cardinality, Cardinality
<1>1. \A q \in Reqs : InFlight(q) => req[q].rt \in RTokens /\ refreshOf[req[q].rt] # None
    BY ReqTypes, NoneAssumption
<1>2. \A x \in file : x \in RTokens /\ refreshOf[x] # None
    BY DEF TypeOK
<1>3. ASSUME NEW x \in Renewable', refreshOf'[x] = refreshOf[x],
             x \in file \/ \E q \in Reqs : InFlight(q)' /\ req'[q].rt = x
      PROVE  x \in Renewable /\ refreshOf[x] # s
    BY <1>3, RenewableDef
<1>4. CASE UNCHANGED refreshOf /\ grants' \subseteq grants
    <2>1. \A x \in file' : x \in file
        BY <1>4, Saving DEF FileHoldsGrants
    <2>2. \A x \in Renewable' : x \in Renewable /\ refreshOf[x] # s
        BY <1>3, <1>4, <2>1, RenewableDef
    <2>3. RenewalsOf'[s] = {} /\ \A n \in SignIns : RenewalsOf'[n] \subseteq RenewalsOf[n]
        BY <1>4, <2>2 DEF RenewalsOf
    <2>4. Lifetimes!OthersShrink(s)
        BY <2>3, RenewalsTyped DEF Lifetimes!OthersShrink
    <2>5. Lifetimes!Renew(s, t)
        BY <1>0, <1>4, <2>3, <2>4 DEF Lifetimes!Renew, NewAccess
    <2> QED
        BY <2>5 DEF AbsStep, Lifetimes!Next
<1>5. CASE /\ refreshOf[r] = None
           /\ refreshOf' = [refreshOf EXCEPT ![r] = s]
           /\ grants' \subseteq grants \cup {r}
           /\ r \in grants'
    <2>1. r \notin grants
        BY <1>5 DEF TypeOK
    <2>2. file' = grants'
        BY <1>5, <2>1, Saving
    <2>3. \A x \in RTokens : refreshOf'[x] = IF x = r THEN s ELSE refreshOf[x]
        BY <1>5 DEF TypeOK
    <2>4. \A x \in Renewable' : x = r \/ (x \in Renewable /\ refreshOf[x] # s /\ x \in RTokens)
        <3> SUFFICES ASSUME NEW x \in Renewable', x # r
                     PROVE  x \in Renewable /\ refreshOf[x] # s /\ x \in RTokens
            OBVIOUS
        <3>1. x \in file \/ \E q \in Reqs : InFlight(q)' /\ req'[q].rt = x
            BY <1>5, <2>2, RenewableDef DEF FileHoldsGrants
        <3>2. x \in RTokens
            BY <1>1, <1>2, <3>1
        <3> QED
            BY <1>3, <2>3, <3>1, <3>2
    <2>5. r \in Renewable'
        BY <1>5, <2>2, <2>3, RenewableDef
    <2>6. RenewalsOf'[s] = {r}
        <3>1. \A x : x \in RenewalsOf'[s] <=> x \in Renewable' /\ refreshOf'[x] = s
            BY DEF RenewalsOf
        <3>2. \A x \in Renewable' : refreshOf'[x] = s <=> x = r
            BY <2>3, <2>4
        <3> QED
            BY <2>5, <3>1, <3>2
    <2>7. \A n \in SignIns \ {s} : RenewalsOf'[n] \subseteq RenewalsOf[n]
        BY <2>3, <2>4 DEF RenewalsOf
    <2>8. Lifetimes!OthersShrink(s)
        BY <2>7, RenewalsTyped DEF Lifetimes!OthersShrink
    <2>9. Lifetimes!Renew(s, t)
        BY <1>0, <1>5, <2>6, <2>8 DEF Lifetimes!Renew, NewAccess
    <2> QED
        BY <2>9 DEF AbsStep, Lifetimes!Next
<1>6. \/ UNCHANGED refreshOf /\ grants' \subseteq grants
      \/ /\ refreshOf[r] = None
         /\ refreshOf' = [refreshOf EXCEPT ![r] = s]
         /\ grants' \subseteq grants \cup {r}
         /\ r \in grants'
    BY DEF NewRefresh, NoRefresh
<1> QED
    BY <1>4, <1>5, <1>6

\* The sign-in exchanges its code
LEMMA ExchangeAbs ==
    ASSUME IInv, TypeOK', NEW s \in SignIns, NEW t \in Tokens, NEW r \in RTokens,
           Exchange(s, t, r)
    PROVE  AbsStep
<1>0. TypeOK /\ FileHoldsGrants /\ CodeComesFirst
    BY DEF IInv
<1>1. /\ code[s] = "pending" /\ s \in Exchangeable
      /\ code' = [code EXCEPT ![s] = "used"]
      /\ Issue(s, t, r) /\ Save
      /\ UNCHANGED <<req, ended>>
    BY DEF Exchange, Exchangeable
<1>2. \A n \in SignIns : code'[n] = IF n = s THEN "used" ELSE code[n]
    BY <1>0, <1>1 DEF TypeOK
<1>3. /\ s \notin ended
      /\ \A x \in RTokens : refreshOf[x] # s
    BY <1>0, <1>1 DEF CodeComesFirst
<1>4. CASE UNCHANGED <<tokenOf, sessions, grantPool, refreshOf, grants>>
    <2>1. file' = file
        BY <1>1, <1>4 DEF Save
    <2>2. Renewable' \subseteq Renewable
        BY <1>1, <1>4, <2>1 DEF Renewable, Exchanging
    <2> QED
        BY <1>0, <1>1, <1>2, <1>4, <2>2, LoseAbs
<1>5. CASE /\ Cardinality(sessions) < MaxSessions
           /\ NewAccess(s, t)
           /\ NewRefresh(s, r) \/ NoRefresh
    <2>1. BegunSignIns' = BegunSignIns /\ Exchangeable' = Exchangeable \ {s}
        BY <1>1, <1>2 DEF BegunSignIns, Exchangeable
    <2>2. \A x \in file : refreshOf[x] # s
        BY <1>0, <1>3 DEF TypeOK
    <2>3. \A q \in Reqs : InFlight(q)' => /\ InFlight(q) /\ req'[q] = req[q]
                                          /\ refreshOf[req[q].rt] # s
        BY <1>0, <1>1, <1>3, ReqTypes DEF InFlight
    <2> QED
        BY <1>0, <1>1, <1>3, <1>5, <2>1, <2>2, <2>3, RenewAbs
<1> QED
    BY <1>1, <1>4, <1>5 DEF Issue

\* What is left of a sign-in's requests when its one refresh lands
LEMMA LandedFlights ==
    ASSUME TypeOK, OneToken, FlightsCounted, NEW q \in Reqs, NEW s \in SignIns, Land(q, s)
    PROVE  /\ \A p \in Reqs : InFlight(p)' => /\ InFlight(p) /\ req'[p] = req[p]
                                              /\ refreshOf[req[p].rt] # s
           /\ \A x \in file : refreshOf[x] # s
           /\ s \notin ended => RenewalsOf[s] # {}
<1>1. /\ InFlight(q) /\ refreshOf[req[q].rt] = s
      /\ \A p \in Reqs : InFlight(p) /\ refreshOf[req[p].rt] = s => p = q
      /\ \A p \in Reqs : req'[p] = IF p = q THEN Idle ELSE req[p]
    BY Landing
<1>2. \A p \in Reqs : InFlight(p)' => /\ InFlight(p) /\ req'[p] = req[p]
                                      /\ refreshOf[req[p].rt] # s
    BY <1>1 DEF InFlight, Idle
<1>3. \A x \in file : refreshOf[x] # s
    BY <1>1 DEF OneToken
<1>4. ASSUME s \notin ended PROVE RenewalsOf[s] # {}
    <2>1. req[q].rt \in Renewable
        BY <1>1, <1>4, RenewableDef
    <2> QED
        BY <1>1, <2>1 DEF RenewalsOf
<1> QED
    BY <1>2, <1>3, <1>4

\* The sign-in exchanges its refresh token
LEMMA RefreshIssuesAbs ==
    ASSUME IInv, TypeOK', NEW q \in Reqs, NEW s \in SignIns, NEW t \in Tokens,
           NEW r \in RTokens, RefreshIssues(q, s, t, r)
    PROVE  AbsStep
<1>0. TypeOK /\ FileHoldsGrants /\ OneToken /\ FlightsCounted /\ CodeComesFirst
               /\ EndedHoldsNothing
    BY DEF IInv
<1>1. /\ Land(q, s) /\ ~refreshing[s].revoked /\ Issue(s, t, r) /\ Save
      /\ UNCHANGED <<code, ended>>
    BY DEF RefreshIssues
<1>2. InFlight(q) /\ refreshOf[req[q].rt] = s
    BY <1>0, <1>1, Landing
<1>3. s \notin ended
    BY <1>0, <1>1, <1>2 DEF EndedHoldsNothing
<1>4. CASE UNCHANGED <<tokenOf, sessions, grantPool, refreshOf, grants>>
    <2>1. file' = file
        BY <1>1, <1>4 DEF Save
    <2>2. Renewable' \subseteq Renewable
        BY <1>0, <1>1, <1>4, <2>1, LandedFlights, RenewableDef
    <2> QED
        BY <1>0, <1>1, <1>4, <2>2, LoseAbs
<1>5. CASE /\ Cardinality(sessions) < MaxSessions
           /\ NewAccess(s, t)
           /\ NewRefresh(s, r) \/ NoRefresh
    <2>1. s \notin Exchangeable
        <3>1. req[q].rt \in RTokens
            BY <1>0, <1>2, ReqTypes
        <3> QED
            BY <1>0, <1>2, <3>1 DEF CodeComesFirst, Exchangeable
    <2>2. BegunSignIns' = BegunSignIns /\ Exchangeable' = Exchangeable \ {s}
        BY <1>1, <2>1 DEF BegunSignIns, Exchangeable
    <2> QED
        BY <1>0, <1>1, <1>3, <1>5, <2>2, LandedFlights, RenewAbs
<1> QED
    BY <1>1, <1>4, <1>5 DEF Issue

LEMMA StepImplements == IInv /\ [Next]_vars => AbsStep
<1> SUFFICES ASSUME IInv, [Next]_vars PROVE AbsStep
    OBVIOUS
<1>0. /\ TypeOK /\ FileHoldsGrants /\ OneToken /\ FlightsCounted
      /\ CodeComesFirst /\ EndedHoldsNothing
      /\ TypeOK'
    BY IInvStep DEF IInv
<1>1. CASE UNCHANGED vars
    BY <1>1 DEF vars, AbsStep, AbsVars, BegunSignIns, Exchangeable, RenewalsOf, Renewable, Exchanging
\* Access tokens go, nothing else of the abstract state changes
<1>2. ASSUME sessions' \subseteq sessions,
             UNCHANGED <<code, tokenOf, refreshOf, file, req, ended>>
      PROVE  AbsStep
    <2>1. Renewable' = Renewable
        BY <1>2 DEF Renewable, Exchanging
    <2> QED
        BY <1>0, <1>2, <2>1, LoseAbs
<1>3. ASSUME NEW t \in Tokens,
             DropExpired(t) \/ ClosePool(t) \/ Request(t) \/ Drain(t)
                \/ \E s \in SignIns : RevokeNext(s, t)
      PROVE  AbsStep
    BY <1>2, <1>3 DEF DropExpired, ClosePool, Request, Drain, RevokeNext, RemoveToken
<1>4. ASSUME (\E x \in Tokens \cup RTokens : Lapse(x)) \/ Stop PROVE AbsStep
    BY <1>2, <1>4 DEF Lapse, Stop
\* Revocations
<1>5. ASSUME NEW t \in Tokens, RevokeAccess(t) PROVE AbsStep
    <2>1. tokenOf[t] \in SignIns
        BY <1>0, <1>5 DEF RevokeAccess, TypeOK
    <2> QED
        BY <1>0, <1>5, <2>1, RevokeAbs DEF RevokeAccess
<1>6. ASSUME NEW r \in RTokens, RevokeRefresh(r) PROVE AbsStep
    <2>1. CASE r \in grants
        <3>1. refreshOf[r] \in SignIns
            BY <1>0, <2>1 DEF TypeOK
        <3> QED
            BY <1>0, <1>6, <2>1, <3>1, RevokeAbs DEF RevokeRefresh
    <2>2. CASE r \notin grants
        BY <1>2, <1>6, <2>2 DEF RevokeRefresh, Save
    <2> QED
        BY <2>1, <2>2
<1>7. ASSUME NEW s \in SignIns, Replay(s) PROVE AbsStep
    <2>1. \A n \in SignIns : /\ code'[n] = "fresh" <=> code[n] = "fresh"
                             /\ code'[n] = "pending" <=> code[n] = "pending"
        BY <1>0, <1>7 DEF Replay, TypeOK
    <2> QED
        BY <1>0, <1>7, <2>1, RevokeAbs DEF Replay
\* Codes
<1>8. ASSUME NEW s \in SignIns, SignIn(s) PROVE AbsStep
    <2>1. \A n \in SignIns : code'[n] = IF n = s THEN "pending" ELSE code[n]
        BY <1>0, <1>8 DEF SignIn, TypeOK
    <2>2. /\ s \notin BegunSignIns /\ BegunSignIns' = BegunSignIns \cup {s}
          /\ Exchangeable' = Exchangeable \cup {s}
        BY <1>8, <2>1 DEF SignIn, BegunSignIns, Exchangeable
    <2>3. UNCHANGED <<RenewalsOf, sessions, tokenOf, refreshOf, ended>>
        BY <1>8 DEF SignIn, RenewalsOf, Renewable, Exchanging
    <2>4. Lifetimes!Begin(s)
        BY <2>2, <2>3 DEF Lifetimes!Begin
    <2> QED
        BY <2>4 DEF AbsStep, Lifetimes!Next
<1>9. ASSUME NEW s \in SignIns, DropCode(s) PROVE AbsStep
    <2>1. \A n \in SignIns : /\ code'[n] = "fresh" <=> code[n] = "fresh"
                             /\ code'[n] = "pending" => code[n] = "pending"
        BY <1>0, <1>9 DEF DropCode, TypeOK
    <2>2. Renewable' = Renewable
        BY <1>9 DEF DropCode, Renewable, Exchanging
    <2> QED
        BY <1>0, <1>9, <2>1, <2>2, LoseAbs DEF DropCode
<1>10. ASSUME NEW s \in SignIns, NEW t \in Tokens, NEW r \in RTokens, Exchange(s, t, r)
       PROVE  AbsStep
    BY <1>0, <1>10, ExchangeAbs
\* Refreshes
<1>11. ASSUME NEW q \in Reqs, NEW r \in RTokens, Refresh(q, r) PROVE AbsStep
    <2>1. /\ req[q].pc = "idle" /\ r \in grants /\ r \in file
          /\ grants' \subseteq grants /\ Save
          /\ UNCHANGED <<code, tokenOf, sessions, refreshOf, ended>>
        BY <1>0, <1>11 DEF Refresh, FileHoldsGrants
    <2>2. \A x \in file' : x \in file
        BY <1>0, <2>1, Saving DEF FileHoldsGrants
    <2>3. \A p \in Reqs : InFlight(p)' => \/ InFlight(p) /\ req'[p] = req[p]
                                          \/ req'[p].rt = r
        BY <1>0, <1>11 DEF Refresh, InFlight, TypeOK
    <2>4. Renewable' \subseteq Renewable
        BY <2>1, <2>2, <2>3, RenewableDef
    <2> QED
        BY <1>0, <2>1, <2>4, LoseAbs
<1>12. ASSUME NEW q \in Reqs, NEW s \in SignIns, Land(q, s),
              \A x \in file' : x \in file \/ x = req[q].rt,
              UNCHANGED <<code, tokenOf, sessions, refreshOf, ended>>
       PROVE  AbsStep
    <2>1. Renewable' \subseteq Renewable
        BY <1>0, <1>12, Landing, LandedFlights, RenewableDef
    <2> QED
        BY <1>0, <1>12, <2>1, LoseAbs
<1>13. ASSUME NEW q \in Reqs, NEW s \in SignIns, RefreshRevoked(q, s) PROVE AbsStep
    BY <1>12, <1>13 DEF RefreshRevoked
<1>14. ASSUME NEW q \in Reqs, NEW s \in SignIns, RefreshDeferred(q, s) PROVE AbsStep
    <2>1. \A x \in file' : x \in file \/ x = req[q].rt
        BY <1>0, <1>14, Saving DEF RefreshDeferred, FileHoldsGrants
    <2> QED
        BY <1>12, <1>14, <2>1 DEF RefreshDeferred
<1>15. ASSUME NEW q \in Reqs, NEW s \in SignIns, RefreshRefused(q, s) PROVE AbsStep
    <2>1. /\ Land(q, s) /\ Save /\ grants' = grants \ GrantsOf(s)
          /\ UNCHANGED <<code, tokenOf, sessions, refreshOf>>
        BY <1>15 DEF RefreshRefused
    <2>2. CASE phase = "reset"
        <3>1. \A x \in file' : x \in file
            BY <1>0, <2>1, Saving DEF FileHoldsGrants
        <3> QED
            BY <1>12, <1>15, <2>1, <2>2, <3>1 DEF RefreshRefused
    <2>3. CASE phase # "reset"
        <3>1. \A p \in Reqs : \/ req'[p] = req[p]
                              \/ refreshOf[req[p].rt] = s /\ req'[p] = Idle
            BY <1>0, <2>1, Landing
        <3>2. ended' = ended \cup {s}
            BY <1>15, <2>3 DEF RefreshRefused
        <3> QED
            BY <1>0, <2>1, <2>3, <3>1, <3>2, EndAbs
    <2> QED
        BY <2>2, <2>3
<1>16. ASSUME NEW q \in Reqs, NEW s \in SignIns, NEW t \in Tokens, NEW r \in RTokens,
              RefreshIssues(q, s, t, r)
       PROVE  AbsStep
    BY <1>0, <1>16, RefreshIssuesAbs
\* Stopping and starting
<1>17. ASSUME Reset PROVE AbsStep
    <2>1. \A n \in SignIns : /\ code'[n] = "fresh" <=> code[n] = "fresh"
                             /\ code'[n] = "pending" => code[n] = "pending"
        BY <1>17 DEF Reset
    <2>2. Renewable' = Renewable
        BY <1>17 DEF Reset, Renewable, Exchanging
    <2> QED
        BY <1>0, <1>17, <2>1, <2>2, LoseAbs DEF Reset
<1>18. ASSUME Restart PROVE AbsStep
    <2>1. \A n \in SignIns : /\ code'[n] = "fresh" <=> code[n] = "fresh"
                             /\ code'[n] = "pending" => code[n] = "pending"
        BY <1>18 DEF Restart
    <2>2. \A q \in Reqs : ~InFlight(q)'
        BY <1>18 DEF Restart, InFlight, Idle
    <2>3. Renewable' \subseteq Renewable
        BY <1>18, <2>2, RenewableDef DEF Restart
    <2> QED
        BY <1>0, <1>18, <2>1, <2>3, LoseAbs DEF Restart
<1> QED
    BY <1>1, <1>3, <1>4, <1>5, <1>6, <1>7, <1>8, <1>9, <1>10, <1>11, <1>13, <1>14, <1>15,
       <1>16, <1>17, <1>18 DEF Next

\* The server keeps what GrantLifetimes promises of a sign-in: its tokens come
\* from its code or its one refresh token, each given up for them, and none come
\* once it is revoked, whatever requests, stops and restarts go on meanwhile.
THEOREM SignInsImplementLifetimes == Spec => ImplementsLifetimes
<1>1. Init => Lifetimes!Init
    <2>1. ASSUME Init PROVE BegunSignIns = {} /\ Exchangeable = {} /\ Renewable = {}
        <3>1. \A q \in Reqs : ~InFlight(q)
            BY <2>1 DEF Init, InFlight, Idle
        <3> QED
            BY <2>1, <3>1, RenewableDef DEF Init, BegunSignIns, Exchangeable
    <2> QED
        BY <2>1 DEF Init, Lifetimes!Init, RenewalsOf
<1>2. IInv /\ [Next]_vars => [Lifetimes!Next]_(Lifetimes!vars)
    BY StepImplements DEF AbsStep, AbsVars, Lifetimes!vars
<1> QED
    BY <1>1, <1>2, Invariance, PTL DEF Spec, ImplementsLifetimes, Lifetimes!Spec

=============================================================================
