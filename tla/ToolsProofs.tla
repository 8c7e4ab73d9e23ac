----------------------------- MODULE ToolsProofs ------------------------------
(* Proofs about the small components around a tool call, for all values of     *)
(* their constants. They share no state, so each section has an invariant and  *)
(* theorems of its own.                                                        *)
EXTENDS RateLimiter, ReadQuery, DriverStatements, ErrorExplanations, SshTransport,
        Lifecycle, NameLists, ExportWriters, ToolFiles, SequenceTheorems,
        WellFoundedInduction, TLAPS

(* execute_query and its answer (ReadQuery)                                    *)

(* Cutting the fetched page, of a statement whose limit was clamped to one row *)
(* more than the answer may hold, gives the same rows as cutting the           *)
(* statement's own result, and the extra row is there exactly when that result *)
(* has more.                                                                   *)
LEMMA ClampedFetch ==
    ASSUME NEW sql \in SqlTexts, NEW n \in Nat, NEW limit \in Nat
    PROVE  LET fetched == ResultOf(Limited(sql, limit + 1), n)
               own == ResultOf(sql, n)
           IN  /\ Within(fetched, limit) = Within(own, limit)
               /\ fetched.size > limit <=> own.size > limit
               /\ fetched \in Pages /\ Within(own, limit) \in Pages
<1> DEFINE left == IF n > sql.skip THEN n - sql.skip ELSE 0
           fetched == ResultOf(Limited(sql, limit + 1), n)
           own == ResultOf(sql, n)
<1>1. sql.skip \in Nat /\ OwnLimit(sql) \in Nat /\ left \in Nat
  <2>1. sql.skip \in Counts /\ sql.count \in Counts \cup {NoCount}
    BY DEF SqlTexts
  <2>2. sql.skip \in Nat /\ (sql.count # NoCount => sql.count \in Nat)
    BY <2>1, CountsAssumption
  <2>3. OwnLimit(sql) \in Nat
    BY <2>2 DEF OwnLimit
  <2> QED BY <2>2, <2>3
<1>2. CASE sql.clause = "none"
  <2>1. own = [first |-> sql.skip + 1, size |-> left]
    BY <1>2 DEF ResultOf
  <2>2. OwnLimit(Limited(sql, limit + 1)) = limit + 1
    BY <1>2, CountsAssumption DEF Limited, OwnLimit, SqlTexts
  <2>3. /\ Limited(sql, limit + 1).clause = "fetch"
        /\ Limited(sql, limit + 1).skip = sql.skip
    BY <1>2 DEF Limited, SqlTexts
  <2>4. fetched = [first |-> sql.skip + 1, size |-> Least(limit + 1, left)]
    BY <2>2, <2>3 DEF ResultOf
  <2> QED BY <1>1, <2>1, <2>4 DEF Within, Least, Pages
<1>3. CASE sql.clause # "none"
  <2>1. own = [first |-> sql.skip + 1, size |-> Least(OwnLimit(sql), left)]
    BY <1>3 DEF ResultOf
  <2>2. Least(OwnLimit(sql), limit + 1) \in Nat
    BY <1>1 DEF Least
  <2>3. /\ OwnLimit(Limited(sql, limit + 1)) = Least(OwnLimit(sql), limit + 1)
        /\ Limited(sql, limit + 1).clause # "none"
        /\ Limited(sql, limit + 1).skip = sql.skip
    <3>1. Limited(sql, limit + 1) = [sql EXCEPT !.count = Least(OwnLimit(sql), limit + 1)]
      BY <1>3 DEF Limited
    <3>2. Limited(sql, limit + 1).count # NoCount
      BY <2>2, <3>1, CountsAssumption DEF SqlTexts
    <3> QED BY <1>3, <3>1, <3>2 DEF OwnLimit, SqlTexts
  <2>4. fetched = [first |-> sql.skip + 1, size |-> Least(Least(OwnLimit(sql), limit + 1), left)]
    BY <2>3 DEF ResultOf
  <2> QED BY <1>1, <2>1, <2>4 DEF Within, Least, Pages
<1> QED BY <1>2, <1>3

(* The effective limit is at least one row and at most QUERY_MAX_LIMIT *)
LEMMA LimitInRange ==
    ASSUME settings \in Settings, NEW requested \in Counts \cup {NoCount}
    PROVE  EffectiveLimit(requested) \in 1..settings.max /\ settings.max \in Nat
<1>1. settings.default \in Nat \ {0} /\ settings.max \in Nat \ {0}
  BY CountsAssumption DEF Settings
<1>2. CASE requested = NoCount
  BY <1>1, <1>2 DEF EffectiveLimit, Least, Most
<1>3. CASE requested # NoCount
  <2>1. requested \in Nat
    BY <1>3, CountsAssumption
  <2> QED BY <1>1, <1>3, <2>1 DEF EffectiveLimit, Least, Most
<1> QED BY <1>2, <1>3

(* What the filter check found holds until the statement is run: a reload can  *)
(* only shrink the annotations that were loaded all through the call.          *)
FiltersJudged ==
    request # NoRequest =>
        /\ \A t \in request.skipped : t \in request.sql.tables /\ ~Uses(request.sql, t)
        /\ request.pc = "execute" /\ settings.parseCheck /\ ~request.tool =>
              {t \in request.sql.tables \cap steady : ~Uses(request.sql, t)} \subseteq request.skipped

(* An answer is judged by what was asked, so it is exact when the step that    *)
(* gives it is; only the filters were judged earlier.                          *)
QueryInv == QueryTypeOK /\ FiltersJudged /\ AnswerIsExact

LEMMA QueryInitInv == QueryInit => QueryInv
BY DEF QueryInit, QueryInv, QueryTypeOK, FiltersJudged, AnswerIsExact, NoReply

(* A step that leaves the answer, or takes it away, keeps it exact *)
LEMMA SameAnswer ==
    ASSUME AnswerIsExact, settings' = settings, reply' = reply \/ reply' = NoReply \/ reply'.kind \in Failures
    PROVE  AnswerIsExact'
BY DEF AnswerIsExact, NoReply, Failures, Uses, Within, ResultOf, Least, OwnLimit

LEMMA QueryStep == QueryInv /\ [QueryNext]_queryVars => QueryInv'
<1> SUFFICES ASSUME QueryInv, [QueryNext]_queryVars PROVE QueryInv'
  OBVIOUS
<1> USE DEF QueryInv
<1>1. CASE ReloadFiles
  <2>1. QueryTypeOK'
    BY <1>1 DEF ReloadFiles, QueryTypeOK
  <2>2. FiltersJudged'
    BY <1>1 DEF ReloadFiles, FiltersJudged, Uses
  <2>3. AnswerIsExact'
    BY <1>1, SameAnswer DEF ReloadFiles
  <2> QED BY <2>1, <2>2, <2>3
<1>2. CASE Ask
  <2>1. QueryTypeOK'
    BY <1>2 DEF Ask, QueryTypeOK, Requests
  <2>2. FiltersJudged'
    BY <1>2 DEF Ask, FiltersJudged
  <2>3. AnswerIsExact'
    BY <1>2, SameAnswer DEF Ask
  <2> QED BY <2>1, <2>2, <2>3
<1>3. CASE Answer
  <2>1. QueryTypeOK' /\ FiltersJudged'
    BY <1>3 DEF Answer, QueryTypeOK, FiltersJudged, Uses
  <2>3. AnswerIsExact'
    BY <1>3, SameAnswer DEF Answer
  <2> QED BY <2>1, <2>3
<1>4. ASSUME NEW why \in Failures, Rejected(why), UNCHANGED <<settings, filtered, masking, steady>>
      PROVE  QueryInv'
  <2>1. QueryTypeOK'
    BY <1>4 DEF Rejected, QueryTypeOK, Replies
  <2>2. FiltersJudged'
    BY <1>4 DEF Rejected, FiltersJudged
  <2>3. AnswerIsExact'
    BY <1>4, SameAnswer DEF Rejected
  <2> QED BY <2>1, <2>2, <2>3
<1>5. CASE Check
  <2>1. CASE \E why \in Failures : Rejected(why)
    BY <1>4, <1>5, <2>1 DEF Check
  <2>2. CASE \E next \in {"parse", "execute"} :
               /\ next = "execute" => request.tool \/ ~settings.parseCheck
               /\ request' = [request EXCEPT !.pc = next]
               /\ UNCHANGED reply
    <3>1. request \in Requests
      BY <1>5 DEF Check, QueryTypeOK, NoRequest
    <3>2. QueryTypeOK'
      BY <1>5, <2>2, <3>1 DEF Check, QueryTypeOK, Requests
    <3>3. FiltersJudged'
      BY <1>5, <2>2, <3>1 DEF Check, FiltersJudged, Uses, Requests, NoRequest
    <3>4. AnswerIsExact'
      BY <1>5, <2>2, SameAnswer DEF Check
    <3> QED BY <3>2, <3>3, <3>4
  <2> QED BY <1>5, <2>1, <2>2 DEF Check, Failures
<1>6. CASE Parsed
  <2>1. CASE \E why \in Failures : Rejected(why)
    BY <1>4, <1>6, <2>1 DEF Parsed
  <2>2. CASE \E covered \in BOOLEAN :
               /\ request' = [request EXCEPT !.pc = "execute", !.masked = covered,
                                 !.skipped = IF request.tool THEN {} ELSE SkippedFilters(request.sql)]
               /\ UNCHANGED reply
    <3>1. request \in Requests
      <4>1. request.pc = "parse"
        BY <1>6 DEF Parsed
      <4> QED BY <4>1 DEF QueryTypeOK, NoRequest
    <3>2. SkippedFilters(request.sql) \subseteq Tables
      BY DEF SkippedFilters, QueryTypeOK
    <3> DEFINE found == IF request.tool THEN {} ELSE SkippedFilters(request.sql)
    <3>0. PICK covered \in BOOLEAN :
            request' = [request EXCEPT !.pc = "execute", !.masked = covered, !.skipped = found]
      BY <2>2, Zenon
    <3>3. found \subseteq Tables
      BY <3>2
    <3> HIDE DEF found
    <3>8. request' \in Requests
      BY <3>0, <3>1, <3>3 DEF Requests
    <3>9. QueryTypeOK'
      BY <1>6, <2>2, <3>8 DEF Parsed, QueryTypeOK
    <3>4. request'.skipped = found /\ request'.sql = request.sql /\ request'.tool = request.tool
      BY <3>0, <3>1 DEF Requests
    <3>5. steady \subseteq filtered
      BY DEF QueryTypeOK
    <3>6. FiltersJudged'
      BY <1>6, <3>4, <3>5 DEF Parsed, FiltersJudged, SkippedFilters, Uses, found
    <3>7. AnswerIsExact'
      BY <1>6, <2>2, SameAnswer DEF Parsed
    <3> QED BY <3>6, <3>7, <3>9
  <2> QED BY <1>6, <2>1, <2>2 DEF Parsed, Failures
<1>7. CASE ParsedEmpty
  <2>1. request \in Requests
    BY <1>7 DEF ParsedEmpty, QueryTypeOK, NoRequest
  <2>2. QueryTypeOK'
    BY <1>7, <2>1 DEF ParsedEmpty, QueryTypeOK, Requests
  <2>3. FiltersJudged'
    BY <1>7, <2>1 DEF ParsedEmpty, FiltersJudged, Uses, Requests, NoRequest
  <2>4. AnswerIsExact'
    BY <1>7, SameAnswer DEF ParsedEmpty
  <2> QED BY <2>2, <2>3, <2>4
<1>8. CASE Explain
  BY <1>4, <1>8 DEF Explain, Failures
<1>9. CASE Executed
  <2>1. request \in Requests
    BY <1>9 DEF Executed, QueryTypeOK, NoRequest
  <2>2. PICK matching \in 0..MaxRows :
          LET limit == EffectiveLimit(request.limit)
              fetched == ResultOf(Limited(request.sql, limit + 1), matching)
          IN  \/ /\ request' = NoRequest
                 /\ reply' = [kind |-> "rows", sql |-> request.sql, page |-> Within(fetched, limit),
                              truncated |-> fetched.size > limit, limitApplied |-> limit,
                              skipped |-> request.skipped,
                              steady |-> IF request.tool THEN {} ELSE steady, of |-> matching]
              \/ request.masked /\ fetched.size > 0 /\ Rejected("masking")
    BY <1>9 DEF Executed
  <2> DEFINE limit == EffectiveLimit(request.limit)
             fetched == ResultOf(Limited(request.sql, limit + 1), matching)
             own == ResultOf(request.sql, matching)
  <2>3. limit \in 1..settings.max /\ settings.max \in Nat /\ limit \in Nat
    BY <2>1, LimitInRange DEF QueryTypeOK, Requests
  <2>4. /\ Within(fetched, limit) = Within(own, limit)
        /\ fetched.size > limit <=> own.size > limit
        /\ Within(own, limit) \in Pages
    <3>1. request.sql \in SqlTexts /\ matching \in Nat
      BY <2>1 DEF Requests
    <3> HIDE DEF limit
    <3> QED BY <2>3, <3>1, ClampedFetch
  <2>5. CASE Rejected("masking")
    BY <1>4, <1>9, <2>5 DEF Executed, Failures
  <2>6. CASE /\ request' = NoRequest
             /\ reply' = [kind |-> "rows", sql |-> request.sql, page |-> Within(fetched, limit),
                          truncated |-> fetched.size > limit, limitApplied |-> limit,
                          skipped |-> request.skipped,
                          steady |-> IF request.tool THEN {} ELSE steady, of |-> matching]
    <3> HIDE DEF limit, fetched, own
    <3>1. reply' \in Replies
      <4>1. request.sql \in SqlTexts /\ request.skipped \subseteq Tables
        BY <2>1 DEF Requests
      <4>2. steady \subseteq Tables /\ matching \in Nat
        BY DEF QueryTypeOK
      <4> QED BY <2>3, <2>4, <2>6, <4>1, <4>2 DEF Replies
    <3>2. QueryTypeOK'
      BY <1>9, <2>6, <3>1 DEF Executed, QueryTypeOK
    <3>3. FiltersJudged'
      BY <2>6 DEF FiltersJudged
    <3>4. AnswerIsExact'
      <4>1. settings' = settings
        BY <1>9 DEF Executed
      <4>2. /\ reply'.page = Within(ResultOf(reply'.sql, reply'.of), reply'.limitApplied)
            /\ reply'.truncated <=> ResultOf(reply'.sql, reply'.of).size > reply'.limitApplied
        BY <2>4, <2>6 DEF own
      <4>3. reply'.limitApplied \in 1..settings'.max
        BY <2>3, <2>6, <4>1
      <4>4. \A t \in reply'.skipped : t \in reply'.sql.tables /\ ~Uses(reply'.sql, t)
        BY <1>9, <2>6 DEF Executed, FiltersJudged, NoRequest
      <4>5. settings'.parseCheck =>
              {t \in reply'.sql.tables \cap reply'.steady : ~Uses(reply'.sql, t)} \subseteq reply'.skipped
        BY <1>9, <2>6, <4>1 DEF Executed, FiltersJudged, NoRequest
      <4> QED BY <4>2, <4>3, <4>4, <4>5 DEF AnswerIsExact
    <3> QED BY <3>2, <3>3, <3>4
  <2> QED BY <2>2, <2>5, <2>6
<1>10. CASE ExecuteFails
  BY <1>4, <1>10 DEF ExecuteFails, Failures
<1>11. CASE UNCHANGED queryVars
  <2>1. QueryTypeOK' /\ FiltersJudged'
    BY <1>11 DEF queryVars, QueryTypeOK, FiltersJudged, Uses
  <2>2. AnswerIsExact'
    BY <1>11, SameAnswer DEF queryVars
  <2> QED BY <2>1, <2>2
<1> QED BY <1>1, <1>2, <1>3, <1>5, <1>6, <1>7, <1>8, <1>9, <1>10, <1>11 DEF QueryNext

(* For any statements, sizes, limits and settings, and however reloads come    *)
(* between the checks of a call and its execution, an answer holds the first   *)
(* rows of the statement's own result, the truncation mark and the limit are   *)
(* right, and so are the filters told of.                                      *)
THEOREM AnswersAreExact == QuerySpec => []AnswerIsExact
<1>1. QuerySpec => []QueryInv
  BY QueryInitInv, QueryStep, PTL DEF QuerySpec
<1> QED BY <1>1, PTL DEF QueryInv

-----------------------------------------------------------------------------
(* Statements on an ODBC or Mapepire connection (DriverStatements)             *)

(* A timer that has called cancel() has a statement handle to call it on,      *)
(* which is known only while the driver works on the statement; who stopped    *)
(* waiting was aborted.                                                        *)
CancelsPlaced ==
    \A s \in Statements :
        /\ limitTimer[s] \in {"cancelling", "grace"} => handle[s]
        /\ handle[s] => exec[s] \in {"prepare", "run", "open", "ended"}
        /\ stopped[s] => aborted[s]

(* "cancelled" is told when the grace period after a cancel() is over: that    *)
(* the statement had a handle follows only when the timers are placed.         *)
StatementsInv == HeldWhileRunning /\ CancelsPlaced

(* No statement runs at first.                                                 *)
LEMMA StatementsInitInv == StatementsInit => StatementsInv
BY NoConnAssumption DEF StatementsInit, StatementsInv, HeldWhileRunning, StatementsTypeOK, CancelsPlaced,
    Kinds, Steps, Answers

(* Settling a statement, whatever gives the answer, keeps the types.           *)
LEMMA SettleType ==
    ASSUME StatementsTypeOK, NEW s \in Statements, NEW o \in Answers, Settle(s, o),
           UNCHANGED <<fixed, handle, aborted, stopped>>
    PROVE  StatementsTypeOK'
<1>1. answer' \in [Statements -> Answers]
  BY DEF StatementsTypeOK, Settle, Answers
<1>2. limitTimer' \in [Statements -> {"off", "armed", "cancelling", "grace"}]
  BY DEF StatementsTypeOK, Settle
<1>3. conn' \in [Statements -> Conns \cup {NoConn}] /\ exec' \in [Statements -> Steps]
  BY DEF StatementsTypeOK, Settle, GiveBack, Steps
<1> QED BY <1>1, <1>2, <1>3 DEF StatementsTypeOK, fixed

(* Every step of a driver keeps the types.                                     *)
LEMMA StatementsTypeStep ==
    ASSUME StatementsTypeOK, StatementsNext
    PROVE  StatementsTypeOK'
<1> PICK s \in Statements :
        \/ Request(s) \/ Connect(s) \/ Reject(s) \/ KnowHandle(s)
        \/ Execute(s) \/ Fails(s) \/ Answered(s) \/ Opens(s) \/ CloseOpened(s) \/ Release(s)
        \/ TimerFires(s) \/ CancelWorks(s) \/ CancelFails(s) \/ GraceEnds(s)
        \/ Abort(s)
  BY DEF StatementsNext
<1> USE DEF StatementsTypeOK, fixed, Steps, Answers
<1>1. CASE Request(s)
  BY <1>1 DEF Request, ArmTimer
<1>2. CASE Connect(s)
  BY <1>2 DEF Connect, ArmTimer, FreeConns
<1>3. CASE Reject(s)
  BY <1>3, SettleType DEF Reject
<1>4. CASE KnowHandle(s)
  BY <1>4 DEF KnowHandle
<1>5. CASE Execute(s)
  BY <1>5 DEF Execute
<1>6. CASE Fails(s)
  BY <1>6, SettleType DEF Fails
<1>7. CASE Answered(s)
  BY <1>7, SettleType DEF Answered
<1>8. CASE Opens(s)
  BY <1>8 DEF Opens
<1>9. CASE CloseOpened(s)
  BY <1>9 DEF CloseOpened, GiveBack
<1>10. CASE Release(s)
  BY <1>10 DEF Release
<1>11. CASE TimerFires(s)
  BY <1>11 DEF TimerFires
<1>12. CASE CancelWorks(s)
  BY <1>12 DEF CancelWorks
<1>13. CASE CancelFails(s)
  BY <1>13 DEF CancelFails
<1>14. CASE GraceEnds(s)
  BY <1>14 DEF GraceEnds
<1>15. CASE Abort(s)
  BY <1>15 DEF Abort
<1> QED BY <1>1, <1>2, <1>3, <1>4, <1>5, <1>6, <1>7, <1>8, <1>9, <1>10, <1>11, <1>12, <1>13, <1>14, <1>15

(* Connections change hands only where a statement lets go of its own.         *)
LEMMA StatementsStep ==
    ASSUME StatementsInv, StatementsNext
    PROVE  StatementsInv'
<1>t. StatementsTypeOK'
  BY StatementsTypeStep DEF StatementsInv, HeldWhileRunning
<1> PICK s \in Statements :
        \/ Request(s) \/ Connect(s) \/ Reject(s) \/ KnowHandle(s)
        \/ Execute(s) \/ Fails(s) \/ Answered(s) \/ Opens(s) \/ CloseOpened(s) \/ Release(s)
        \/ TimerFires(s) \/ CancelWorks(s) \/ CancelFails(s) \/ GraceEnds(s)
        \/ Abort(s)
  BY DEF StatementsNext
<1> DEFINE Conns2 == \A a, b \in Statements : a # b /\ conn[a] = conn[b] => conn[a] = NoConn
           Holds(a) == /\ exec[a] \in {"create", "prepare", "run", "open"} => conn[a] # NoConn
                       /\ answer[a] = "cancelled" => handle[a]
                       /\ stopped[a] => exec[a] \notin {"run", "open"}
                       /\ limitTimer[a] \in {"cancelling", "grace"} => handle[a]
                       /\ handle[a] => exec[a] \in {"prepare", "run", "open", "ended"}
                       /\ stopped[a] => aborted[a]
           Goal == Conns2' /\ \A a \in Statements : Holds(a)'
<1> SUFFICES Goal
  BY <1>t DEF StatementsInv, HeldWhileRunning, CancelsPlaced
<1>h. StatementsTypeOK /\ Conns2 /\ \A a \in Statements : Holds(a)
  BY DEF StatementsInv, HeldWhileRunning, CancelsPlaced
<1> USE <1>h, NoConnAssumption DEF StatementsTypeOK, fixed, Steps, Answers
<1>0. ASSUME NEW o \in {"rows", "error"}, Settle(s, o), exec[s] # "idle", UNCHANGED <<fixed, handle, aborted, stopped>>
      PROVE  Goal
  <2>1. Conns2'
    BY <1>0 DEF Settle, GiveBack
  <2>2. \A a \in Statements : Holds(a)'
    BY <1>0 DEF Settle, GiveBack, Settled
  <2> QED BY <2>1, <2>2
<1>1. CASE Request(s)
  BY <1>1 DEF Request, ArmTimer
<1>2. CASE Connect(s)
  <2>1. Conns2'
    BY <1>2 DEF Connect, FreeConns
  <2>2. \A a \in Statements : Holds(a)'
    BY <1>2 DEF Connect, ArmTimer, FreeConns
  <2> QED BY <2>1, <2>2
<1>3. CASE Reject(s)
  BY <1>3, <1>0 DEF Reject
<1>4. CASE KnowHandle(s)
  BY <1>4 DEF KnowHandle
<1>5. CASE Execute(s)
  BY <1>5 DEF Execute
<1>6. CASE Fails(s)
  BY <1>6, <1>0 DEF Fails
<1>7. CASE Answered(s)
  BY <1>7, <1>0 DEF Answered
<1>8. CASE Opens(s)
  BY <1>8 DEF Opens
<1>9. CASE CloseOpened(s)
  BY <1>9 DEF CloseOpened, GiveBack
<1>10. CASE Release(s)
  BY <1>10 DEF Release
<1>11. CASE TimerFires(s)
  BY <1>11 DEF TimerFires
<1>12. CASE CancelWorks(s)
  BY <1>12 DEF CancelWorks
<1>13. CASE CancelFails(s)
  BY <1>13 DEF CancelFails
<1>14. CASE GraceEnds(s)
  BY <1>14 DEF GraceEnds
<1>15. CASE Abort(s)
  BY <1>15 DEF Abort
<1> QED BY <1>1, <1>2, <1>3, <1>4, <1>5, <1>6, <1>7, <1>8, <1>9, <1>10, <1>11, <1>12, <1>13, <1>14, <1>15

(* However statements, time limits, cancels and aborted calls interleave, a    *)
(* connection carries one statement at a time and is held until that ended,    *)
(* nobody is told "cancelled" of a statement without a handle, and a statement *)
(* that was aborted before its execution is not executed.                      *)
THEOREM ConnectionsAreHeld == StatementsSpec => []HeldWhileRunning
<1>1. StatementsInv /\ UNCHANGED stmtVars => StatementsInv'
  BY DEF StatementsInv, HeldWhileRunning, StatementsTypeOK, CancelsPlaced, stmtVars
<1>2. StatementsInv => HeldWhileRunning
  BY DEF StatementsInv
<1> QED BY <1>1, <1>2, StatementsInitInv, StatementsStep, PTL DEF StatementsSpec

-----------------------------------------------------------------------------
(* Details of SQL errors (ErrorExplanations)                                   *)

(* A lookup that was not refused is the one remembered for its code, and a     *)
(* statement waits for a lookup that was started.                              *)
LookupsRemembered ==
    /\ \A l \in Lookups : lookup[l] # NotStarted /\ lookup[l].state # "failed" =>
          remembered[lookup[l].code] = l
    /\ \A c \in Codes : remembered[c] # NoLookup => lookup[remembered[c]] # NotStarted
    /\ \A e \in Errors : failure[e] # NotFailed /\ failure[e].lookup # NoLookup =>
          lookup[failure[e].lookup] # NotStarted

(* A second lookup of a code is impossible because the first is found under    *)
(* its code as long as it has not failed.                                      *)
ErrorsInv == LookedUpOnce /\ LookupsRemembered

(* Nothing failed and nothing is remembered at first.                          *)
LEMMA ErrorsInitInv == ErrorsInit => ErrorsInv
BY DEF ErrorsInit, ErrorsInv, LookedUpOnce, ErrorsTypeOK, LookupsRemembered, NotStarted, NotFailed

(* One statement's progress changes, to one that waits for a started lookup of *)
(* its code or for none *)
LEMMA FailureMoves ==
    ASSUME ErrorsInv, NEW e \in Errors, NEW x \in Failing,
           failure' = [failure EXCEPT ![e] = x], UNCHANGED <<remembered, lookup, functionMissing>>,
           x.lookup # NoLookup => lookup[x.lookup] # NotStarted /\ lookup[x.lookup].code = x.code
    PROVE  ErrorsInv'
<1> USE DEF ErrorsInv, LookedUpOnce, ErrorsTypeOK, LookupsRemembered
<1>1. ErrorsTypeOK'
  OBVIOUS
<1>2. \A d \in Errors : failure'[d] # NotFailed /\ failure'[d].lookup # NoLookup =>
         lookup[failure'[d].lookup] # NotStarted /\ lookup[failure'[d].lookup].code = failure'[d].code
  OBVIOUS
<1> HIDE DEF ErrorsTypeOK
<1> QED BY <1>1, <1>2

(* A statement that failed has a code and a place for its lookup.              *)
LEMMA FailureFields ==
    ASSUME ErrorsTypeOK, NEW e \in Errors, failure[e].pc \in {"failed", "waiting", "reported"}
    PROVE  failure[e] \in Failing /\ failure[e] # NotFailed
BY DEF ErrorsTypeOK, NotFailed, Failing

(* A code is looked up anew only when nothing is remembered for it.            *)
LEMMA ErrorsStep ==
    ASSUME ErrorsInv, ErrorsNext
    PROVE  ErrorsInv'
<1>t. ErrorsTypeOK
  BY DEF ErrorsInv, LookedUpOnce
<1>1. ASSUME NEW e \in Errors, NEW c \in Codes, StatementFails(e, c)
      PROVE  ErrorsInv'
  <2> DEFINE x == [pc |-> "failed", code |-> c, lookup |-> NoLookup, explained |-> FALSE]
  <2>1. x \in Failing /\ x.lookup = NoLookup
    BY DEF Failing
  <2> QED BY <1>1, <2>1, FailureMoves DEF StatementFails
<1>2. ASSUME NEW e \in Errors, ReportPlain(e)
      PROVE  ErrorsInv'
  <2> DEFINE x == [failure[e] EXCEPT !.pc = "reported"]
  <2>0. failure[e] \in Failing /\ failure[e] # NotFailed
    BY <1>2, <1>t, FailureFields DEF ReportPlain
  <2>1. x \in Failing /\ x.lookup = failure[e].lookup /\ x.code = failure[e].code
    BY <2>0 DEF Failing
  <2>2. failure' = [failure EXCEPT ![e] = x]
    BY <1>2, <1>t DEF ReportPlain, ErrorsTypeOK
  <2>3. x.lookup # NoLookup => lookup[x.lookup] # NotStarted /\ lookup[x.lookup].code = x.code
    BY <2>0, <2>1 DEF ErrorsInv, LookedUpOnce, LookupsRemembered
  <2> HIDE DEF x
  <2> QED BY <1>2, <2>1, <2>2, <2>3, FailureMoves DEF ReportPlain
<1>3. ASSUME NEW e \in Errors, ToldWhy(e)
      PROVE  ErrorsInv'
  <2>0. failure[e] \in Failing /\ failure[e] # NotFailed
    BY <1>3, <1>t, FailureFields DEF ToldWhy
  <2>b. (lookup[failure[e].lookup].state = "found") \in BOOLEAN
    BY Zenon
  <2> PICK b \in BOOLEAN : b = (lookup[failure[e].lookup].state = "found")
    BY <2>b
  <2> DEFINE x == [failure[e] EXCEPT !.pc = "reported", !.explained = b]
  <2>1. x \in Failing /\ x.lookup = failure[e].lookup /\ x.code = failure[e].code
    BY <2>0 DEF Failing
  <2>2. failure' = [failure EXCEPT ![e] = x]
    BY <1>3, <1>t DEF ToldWhy, ErrorsTypeOK
  <2>3. x.lookup # NoLookup => lookup[x.lookup] # NotStarted /\ lookup[x.lookup].code = x.code
    BY <2>0, <2>1 DEF ErrorsInv, LookedUpOnce, LookupsRemembered
  <2> HIDE DEF x
  <2> QED BY <1>3, <2>1, <2>2, <2>3, FailureMoves DEF ToldWhy
<1>4. ASSUME NEW e \in Errors, AskWhy(e)
      PROVE  ErrorsInv'
  <2>0. failure[e] \in Failing /\ failure[e] # NotFailed
    BY <1>4, <1>t, FailureFields DEF AskWhy
  <2> PICK code \in Codes : code = failure[e].code
    BY <2>0 DEF Failing
  <2> DEFINE x(l) == [failure[e] EXCEPT !.pc = "waiting", !.lookup = l]
  <2>1. \A l \in Lookups : x(l) \in Failing /\ x(l).lookup = l /\ x(l).code = code
    BY <2>0 DEF Failing
  <2>2. ASSUME NEW l \in Lookups, Await(e, l)
        PROVE  failure' = [failure EXCEPT ![e] = x(l)]
    BY <2>2, <1>t DEF Await, ErrorsTypeOK
  <2> HIDE DEF x
  <2>3. CASE /\ remembered[code] # NoLookup /\ Await(e, remembered[code])
             /\ UNCHANGED <<remembered, lookup, functionMissing>>
    <3> PICK l \in Lookups : l = remembered[code]
      BY <2>3, <1>t DEF ErrorsTypeOK
    <3>1. lookup[l] # NotStarted /\ lookup[l].code = code
      BY <2>3 DEF ErrorsInv, LookedUpOnce, LookupsRemembered
    <3> QED BY <2>1, <2>2, <2>3, <3>1, FailureMoves
  <2>4. CASE remembered[code] = NoLookup /\ UNCHANGED functionMissing /\ \E l \in Lookups :
                /\ lookup[l] = NotStarted
                /\ lookup' = [lookup EXCEPT ![l] = [state |-> "pending", code |-> code]]
                /\ remembered' = [remembered EXCEPT ![code] = l]
                /\ Await(e, l)
    <3> PICK l \in Lookups :
                /\ lookup[l] = NotStarted
                /\ lookup' = [lookup EXCEPT ![l] = [state |-> "pending", code |-> code]]
                /\ remembered' = [remembered EXCEPT ![code] = l]
                /\ Await(e, l)
      BY <2>4
    <3> DEFINE p == [state |-> "pending", code |-> code]
    <3>1. p \in Promises /\ p # NotStarted /\ p.state # "failed" /\ p.code = code
      BY DEF Promises, NotStarted
    <3>2. lookup' = [lookup EXCEPT ![l] = p] /\ failure' = [failure EXCEPT ![e] = x(l)]
      BY <2>2
    <3> HIDE DEF p
    <3> USE DEF ErrorsInv, LookedUpOnce, LookupsRemembered
    <3>3. ErrorsTypeOK'
      BY <1>t, <2>1, <2>4, <3>1, <3>2 DEF ErrorsTypeOK
    <3>4. \A m \in Lookups : lookup'[m] # NotStarted /\ lookup'[m].state # "failed" =>
             remembered'[lookup'[m].code] = m
      <4> TAKE m \in Lookups
      <4>1. m # l /\ lookup[m] # NotStarted => lookup[m].code \in Codes
        BY <1>t DEF ErrorsTypeOK, Promises
      <4>2. m # l /\ lookup[m] # NotStarted /\ lookup[m].state # "failed" => lookup[m].code # code
        BY <2>4, LookupsAssumption
      <4> QED BY <1>t, <3>1, <3>2, <4>1, <4>2 DEF ErrorsTypeOK
    <3>5. \A c \in Codes : remembered'[c] # NoLookup =>
             /\ lookup'[remembered'[c]] # NotStarted
             /\ lookup'[remembered'[c]].code = c /\ lookup'[remembered'[c]].state # "failed"
      BY <1>t, <3>1, <3>2 DEF ErrorsTypeOK
    <3>6. \A d \in Errors : failure'[d] # NotFailed /\ failure'[d].lookup # NoLookup =>
             /\ lookup'[failure'[d].lookup] # NotStarted
             /\ lookup'[failure'[d].lookup].code = failure'[d].code
      <4> TAKE d \in Errors
      <4>1. failure[d] # NotFailed /\ failure[d].lookup # NoLookup => failure[d].lookup \in Lookups
        BY <1>t DEF ErrorsTypeOK, Failing
      <4> QED BY <1>t, <2>1, <3>1, <3>2, <4>1 DEF ErrorsTypeOK
    <3>7. \A a, b \in Lookups :
             /\ a # b
             /\ lookup'[a] # NotStarted /\ lookup'[a].state # "failed"
             /\ lookup'[b] # NotStarted /\ lookup'[b].state # "failed"
             => lookup'[a].code # lookup'[b].code
      BY <3>4
    <3> QED BY <3>3, <3>4, <3>5, <3>6, <3>7
  <2> QED BY <1>4, <2>3, <2>4 DEF AskWhy
<1>5. ASSUME NEW l \in Lookups, LookupEnds(l)
      PROVE  ErrorsInv'
  <2> PICK outcome \in {"found", "nothing", "failed"} :
          /\ lookup' = [lookup EXCEPT ![l].state = outcome]
          /\ remembered' = [c \in Codes |-> IF remembered[c] = l /\ outcome = "failed" THEN NoLookup
                                            ELSE remembered[c]]
          /\ functionMissing' \in {functionMissing, functionMissing \/ outcome = "failed"}
    BY <1>5 DEF LookupEnds
  <2>0. lookup[l] \in Promises /\ lookup[l] # NotStarted /\ lookup[l].state = "pending" /\ UNCHANGED failure
    BY <1>5, <1>t DEF LookupEnds, ErrorsTypeOK, NotStarted, Promises
  <2> DEFINE p == [lookup[l] EXCEPT !.state = outcome]
  <2>1. p \in Promises /\ p # NotStarted /\ p.state = outcome /\ p.code = lookup[l].code
    BY <2>0 DEF Promises, NotStarted
  <2>2. lookup' = [lookup EXCEPT ![l] = p]
    BY <1>t DEF ErrorsTypeOK
  <2> HIDE DEF p
  <2> USE DEF ErrorsInv, LookedUpOnce, LookupsRemembered
  <2>b. functionMissing' \in BOOLEAN
    <3>1. functionMissing \in BOOLEAN /\ (functionMissing \/ outcome = "failed") \in BOOLEAN
      BY <1>t, Zenon DEF ErrorsTypeOK
    <3> QED BY <3>1, Zenon
  <2>3. ErrorsTypeOK'
    BY <1>t, <2>0, <2>b, <2>1, <2>2 DEF ErrorsTypeOK
  <2>4. \A m \in Lookups : lookup'[m] # NotStarted /\ lookup'[m].state # "failed" =>
           remembered'[lookup'[m].code] = m
    <3> TAKE m \in Lookups
    <3>1. lookup[m] # NotStarted => lookup[m].code \in Codes
      BY <1>t DEF ErrorsTypeOK, Promises
    <3>2. m # l => lookup'[m] = lookup[m]
      BY <1>t, <2>2 DEF ErrorsTypeOK
    <3>3. lookup'[l] = p
      BY <1>t, <2>2 DEF ErrorsTypeOK
    <3> QED BY <2>0, <2>1, <3>1, <3>2, <3>3
  <2>5. \A c \in Codes : remembered'[c] # NoLookup =>
           /\ lookup'[remembered'[c]] # NotStarted
           /\ lookup'[remembered'[c]].code = c /\ lookup'[remembered'[c]].state # "failed"
    BY <1>t, <2>1, <2>2 DEF ErrorsTypeOK
  <2>6. \A d \in Errors : failure'[d] # NotFailed /\ failure'[d].lookup # NoLookup =>
           /\ lookup'[failure'[d].lookup] # NotStarted
           /\ lookup'[failure'[d].lookup].code = failure'[d].code
    <3> TAKE d \in Errors
    <3>1. failure[d] # NotFailed /\ failure[d].lookup # NoLookup => failure[d].lookup \in Lookups
      BY <1>t DEF ErrorsTypeOK, Failing
    <3> QED BY <1>t, <2>0, <2>1, <2>2, <3>1 DEF ErrorsTypeOK
  <2>7. \A a, b \in Lookups :
           /\ a # b
           /\ lookup'[a] # NotStarted /\ lookup'[a].state # "failed"
           /\ lookup'[b] # NotStarted /\ lookup'[b].state # "failed"
           => lookup'[a].code # lookup'[b].code
    BY <2>4
  <2> QED BY <2>3, <2>4, <2>5, <2>6, <2>7
<1> QED BY <1>1, <1>2, <1>3, <1>4, <1>5 DEF ErrorsNext

(* However failing statements and the lookups of their codes interleave, all   *)
(* lookups of a code but one have failed, and no statement is given a lookup   *)
(* that had failed before, or of another code.                                 *)
THEOREM ErrorsAreLookedUpOnce == ErrorsSpec => []LookedUpOnce
<1>1. ErrorsInv /\ UNCHANGED errorVars => ErrorsInv'
  BY DEF ErrorsInv, LookedUpOnce, ErrorsTypeOK, LookupsRemembered, errorVars
<1>2. ErrorsInv => LookedUpOnce
  BY DEF ErrorsInv
<1> QED BY <1>1, <1>2, ErrorsInitInv, ErrorsStep, PTL DEF ErrorsSpec

-----------------------------------------------------------------------------
(* The SSH connection below a pool of jobs (SshTransport)                      *)

(* One client at most is being opened, since a start joins one that is.        *)
OneOpening ==
    /\ \A a, b \in Links : link[a] \in Opening /\ link[b] \in Opening => a = b
    /\ poolStep # "closed" => awaited = {}

(* A job that is listed starts, or is up on a link that is; a pool that closes *)
(* has taken its jobs off the list; and a client that is being opened is       *)
(* waited for by a job, which ends it when the start fails.                    *)
JobsOnTheirLink ==
    /\ \A j \in listed :
          /\ jobOn[j] \in Links
          /\ jobState[j] = "starting" \/ (jobState[j] = "up" /\ link[jobOn[j]] = "up")
    /\ poolStep # "open" => listed = {}
    /\ \A j \in swept : j \notin listed /\ jobState[j] \in {"up", "gone"}
    /\ poolStep = "open" /\ sshClient # NoLink /\ link[sshClient] \in Opening =>
          \E j \in listed : jobState[j] = "starting"

(* Whether a connection still has someone who ends it depends on the jobs that *)
(* start on it, so their places belong to the invariant.                       *)
SshInv == ConnectionIsWatched /\ OneOpening /\ JobsOnTheirLink

(* There is no client at first.                                                *)
LEMMA SshInitInv == SshInit => SshInv
BY NoLinkAssumption DEF SshInit, SshInv, ConnectionIsWatched, SshTypeOK, OneOpening, JobsOnTheirLink,
    Opening, SettledLinks

(* Every step of the transport keeps the types.                                *)
LEMMA SshTypeStep ==
    ASSUME SshTypeOK, SshNext
    PROVE  SshTypeOK'
<1> USE DEF SshTypeOK, Opening, SettledLinks
<1>1. ASSUME NEW a \in Links, KeyChecked(a)
      PROVE  SshTypeOK'
  BY <1>1 DEF KeyChecked
<1>2. ASSUME NEW a \in Links, Ready(a)
      PROVE  SshTypeOK'
  BY <1>2 DEF Ready
<1>3. ASSUME NEW a \in Links, AttemptFails(a)
      PROVE  SshTypeOK'
  BY <1>3 DEF AttemptFails, Gone
<1>4. ASSUME NEW a \in Links, LinkDrops(a)
      PROVE  SshTypeOK'
  BY <1>4 DEF LinkDrops
<1>5. ASSUME NEW j \in SshJobs, StartJob(j)
      PROVE  SshTypeOK'
  BY <1>5 DEF StartJob, GetClient
<1>6. ASSUME NEW j \in SshJobs, JobUp(j)
      PROVE  SshTypeOK'
  BY <1>6 DEF JobUp
<1>7. ASSUME NEW j \in SshJobs, JobDropped(j)
      PROVE  SshTypeOK'
  BY <1>7 DEF JobDropped, Gone
<1>8. CASE SweepJobs
  BY <1>8 DEF SweepJobs
<1>9. ASSUME CloseFactory
      PROVE  /\ link' \in [Links -> {"none"} \cup Opening \cup SettledLinks]
             /\ {sshClient', current'} \subseteq Links \cup {NoLink} /\ awaited' \subseteq Links
  BY <1>9 DEF CloseFactory
<1>10. CASE SweptJobsClosed
  BY <1>9, <1>10 DEF SweptJobsClosed, Gone
<1>11. CASE ClosePoolJobs
  BY <1>11 DEF ClosePoolJobs
<1>12. CASE PoolJobsClosed
  BY <1>9, <1>12 DEF PoolJobsClosed, Gone
<1> QED BY <1>1, <1>2, <1>3, <1>4, <1>5, <1>6, <1>7, <1>8, <1>10, <1>11, <1>12 DEF SshNext

(* Every step leaves the connection watched: what takes the last job away ends *)
(* the client, or another start has taken it over.                             *)
LEMMA SshStep ==
    ASSUME SshInv, SshNext
    PROVE  SshInv'
<1>t. SshTypeOK /\ SshTypeOK'
  BY SshTypeStep DEF SshInv, ConnectionIsWatched
<1> DEFINE Watched == /\ sshClient # NoLink => link[sshClient] \in Opening \cup {"up"}
                      /\ sshClient # NoLink /\ link[sshClient] = "up" => current = sshClient
                      /\ poolStep = "closed" => sshClient = NoLink
           LinksKnown == \A a \in Links :
                            /\ link[a] = "up" => a = sshClient
                            /\ link[a] \in Opening => a = sshClient \/ a \in awaited
                            /\ link[a] = "authenticating" => rejection = NoLink
           Listed == \A j \in listed : jobOn[j] = sshClient
           Goal == Watched' /\ LinksKnown' /\ Listed' /\ OneOpening' /\ JobsOnTheirLink'
<1> SUFFICES Goal
  BY <1>t DEF SshInv, ConnectionIsWatched
<1>h. Watched /\ LinksKnown /\ Listed /\ OneOpening /\ JobsOnTheirLink
  BY DEF SshInv, ConnectionIsWatched
<1> USE <1>t, <1>h, NoLinkAssumption DEF SshTypeOK, Opening, SettledLinks, OneOpening, JobsOnTheirLink
<1>1. ASSUME NEW a \in Links, KeyChecked(a)
      PROVE  Goal
  BY <1>1 DEF KeyChecked
<1>2. ASSUME NEW a \in Links, Ready(a)
      PROVE  Goal
  BY <1>2 DEF Ready
<1>3. ASSUME NEW a \in Links, AttemptFails(a)
      PROVE  Goal
  BY <1>3 DEF AttemptFails, Gone, Starting
<1>4. ASSUME NEW a \in Links, LinkDrops(a)
      PROVE  Goal
  BY <1>4 DEF LinkDrops
<1>5. ASSUME NEW j \in SshJobs, StartJob(j)
      PROVE  Goal
  BY <1>5 DEF StartJob, GetClient
<1>6. ASSUME NEW j \in SshJobs, JobUp(j)
      PROVE  Goal
  BY <1>6 DEF JobUp
<1>7. ASSUME NEW j \in SshJobs, JobDropped(j)
      PROVE  Goal
  BY <1>7 DEF JobDropped, Gone
<1>8. CASE SweepJobs
  BY <1>8 DEF SweepJobs
<1>10. CASE SweptJobsClosed
  <2>1. \A j \in listed : jobState'[j] = jobState[j]
    BY <1>10 DEF SweptJobsClosed, Gone
  <2>2. CASE poolStep = "open" /\ listed = {}
    BY <1>10, <2>2 DEF SweptJobsClosed, CloseFactory
  <2>3. CASE ~(poolStep = "open" /\ listed = {})
    BY <1>10, <2>1, <2>3 DEF SweptJobsClosed
  <2> QED BY <2>2, <2>3
<1>11. CASE ClosePoolJobs
  BY <1>11 DEF ClosePoolJobs
<1>12. CASE PoolJobsClosed
  BY <1>12 DEF PoolJobsClosed, Gone, CloseFactory
<1> QED BY <1>1, <1>2, <1>3, <1>4, <1>5, <1>6, <1>7, <1>8, <1>10, <1>11, <1>12 DEF SshNext

(* However starts of jobs, attempts, dropped connections and the closing of    *)
(* the pool interleave, the connection a new job would get is being opened or  *)
(* is up and watched, every listed job is on it, a client that is being opened *)
(* is ended if nobody wants it any more, and a closed pool has no connection.  *)
THEOREM TheConnectionIsWatched == SshSpec => []ConnectionIsWatched
<1>1. SshInv /\ UNCHANGED sshVars => SshInv'
  BY DEF SshInv, ConnectionIsWatched, SshTypeOK, OneOpening, JobsOnTheirLink, sshVars
<1>2. SshInv => ConnectionIsWatched
  BY DEF SshInv
<1> QED BY <1>1, <1>2, SshInitInv, SshStep, PTL DEF SshSpec

-----------------------------------------------------------------------------
(* Start and shutdown of the process (Lifecycle)                               *)

(* The start goes through its stages once, and only that far a transport       *)
(* serves or the process owns its pools.                                       *)
StartOrder ==
    /\ stage # "up" => step = "no"
    /\ stage = "load" => ~owned
    /\ stage = "connect" => StdioEnabled /\ owned
    /\ stage = "listen" => HttpEnabled
    /\ stage \in {"load", "connect"} => stdio = "off"
    /\ stdio # "off" => StdioEnabled

(* What each step of shutdown() has already put an end to.                     *)
ShutdownOrder ==
    /\ http \in {"closing", "closed"} => step # "no"
    /\ step # "no" => "serving" \notin {stdio, http} /\ ~watch /\ "shutdown" \in audit
    /\ step \in {"pools", "exports", "done"} => "closing" \notin {stdio, http} /\ ~owned
    /\ exit = "no" => "deadline" \notin audit

(* A pool of the stdio client that is no longer owned is in the hands of a     *)
(* closer that is still at work.                                               *)
PoolsInHand ==
    /\ \A p \in StdioPools : pools[p] = "closing" \/ (pools[p] = "open" /\ ~owned) =>
          \E c \in Closers : p \in closers[c]
    /\ owned => closers["leave"] = {} /\ closers["shutdown"] = {}
    /\ stdio \in {"off", "serving"} => closers["leave"] = {}
    /\ step # "pools" => closers["shutdown"] = {}
    /\ closers["leave"] # {} => mode = "both"

(* A shutdown is complete because its steps are in order and no pool is lost   *)
(* between the client that leaves and the signal that stops the process.       *)
LifecycleInv == ShutdownIsComplete /\ StartOrder /\ ShutdownOrder /\ PoolsInHand

(* At the start nothing serves.                                                *)
LEMMA LifecycleInitInv == LifecycleInit => LifecycleInv
BY DEF LifecycleInit, LifecycleInv, ShutdownIsComplete, LifecycleTypeOK, StartOrder, ShutdownOrder,
    PoolsInHand, Closers, HttpEnabled, StdioEnabled

(* The mode says whether stdio is served.                                      *)
LEMMA StdioIsBoolean == StdioEnabled \in BOOLEAN
BY DEF StdioEnabled

(* Every step of the process keeps the types.                                  *)
LEMMA LifecycleTypeStep ==
    ASSUME LifecycleTypeOK, LifecycleNext
    PROVE  LifecycleTypeOK'
<1> USE DEF LifecycleTypeOK, transports, poolVars, shutdownVars
<1>1. CASE Load
  BY <1>1, StdioIsBoolean DEF Load
<1>2. CASE ServeStdio
  BY <1>2 DEF ServeStdio
<1>3. CASE Listen
  BY <1>3 DEF Listen
<1>4. CASE StartFails
  BY <1>4 DEF StartFails
<1>5. ASSUME NEW p \in StdioPools, UsePool(p)
      PROVE  LifecycleTypeOK'
  BY <1>5 DEF UsePool
<1>6. ASSUME NEW c \in Closers, NEW p \in StdioPools, ClosePool(c, p)
      PROVE  LifecycleTypeOK'
  BY <1>6 DEF ClosePool
<1>7. ASSUME NEW c \in Closers, NEW p \in StdioPools, PoolCloses(c, p)
      PROVE  LifecycleTypeOK'
  BY <1>7 DEF PoolCloses
<1>8. CASE ClientLeaves
  BY <1>8 DEF ClientLeaves
<1>9. CASE ClientGone
  BY <1>9 DEF ClientGone, Shutdown, CloseStdioPools
<1>10. CASE Signal
  BY <1>10 DEF Signal, Shutdown
<1>11. CASE StdioCloses
  BY <1>11 DEF StdioCloses
<1>12. CASE HttpCloses
  BY <1>12 DEF HttpCloses
<1>13. CASE TransportsClosed
  BY <1>13 DEF TransportsClosed, CloseStdioPools
<1>14. CASE PoolsClosed
  BY <1>14 DEF PoolsClosed
<1>15. CASE ExportsDeleted
  BY <1>15 DEF ExportsDeleted
<1>16. CASE Deadline
  BY <1>16 DEF Deadline
<1> QED BY <1>1, <1>2, <1>3, <1>4, <1>5, <1>6, <1>7, <1>8, <1>9, <1>10, <1>11, <1>12, <1>13,
    <1>14, <1>15, <1>16 DEF LifecycleNext

(* Every step keeps the order of the shutdown and the pools in hand.           *)
LEMMA LifecycleStep ==
    ASSUME LifecycleInv, LifecycleNext
    PROVE  LifecycleInv'
<1>t. LifecycleTypeOK /\ LifecycleTypeOK'
  BY LifecycleTypeStep DEF LifecycleInv, ShutdownIsComplete
<1>e. exit = "no"
  BY DEF LifecycleNext
<1> DEFINE Complete ==
              /\ reason = "stdin closed" => mode = "stdio"
              /\ HttpEnabled /\ stage = "up" /\ step = "no" => http = "serving"
              /\ exit = "clean" =>
                    /\ {stdio, http} \subseteq {"off", "closed"}
                    /\ ~watch /\ ~deadline /\ "deadline" \notin audit
                    /\ \A p \in StdioPools : pools[p] \in {"open", "closing"} => p \in closers["leave"]
                    /\ closers["leave"] # {} => mode = "both"
              /\ exit = "failed" /\ step # "no" => "deadline" \in audit
              /\ exit # "no" /\ step # "no" => "shutdown" \in audit
           Goal == Complete' /\ StartOrder' /\ ShutdownOrder' /\ PoolsInHand'
<1> SUFFICES Goal
  BY <1>t DEF LifecycleInv, ShutdownIsComplete
<1>h. Complete /\ StartOrder /\ ShutdownOrder /\ PoolsInHand
  BY DEF LifecycleInv, ShutdownIsComplete
<1> USE <1>t, <1>h, <1>e DEF LifecycleTypeOK, transports, poolVars, shutdownVars, StartOrder, ShutdownOrder,
        PoolsInHand, HttpEnabled, StdioEnabled, Closers
<1>1. CASE Load
  <2>1. owned' \in BOOLEAN /\ (owned' <=> StdioEnabled)
    BY <1>1 DEF Load
  <2>2. Complete' /\ StartOrder'
    BY <1>1, <2>1 DEF Load
  <2>3. ShutdownOrder'
    BY <1>1, <2>1 DEF Load
  <2>4. ~owned /\ closers["leave"] = {} /\ closers["shutdown"] = {} /\ UNCHANGED <<pools, closers, step, stdio, mode>>
    BY <1>1 DEF Load
  <2>5. PoolsInHand'
    BY <2>1, <2>4
  <2> QED BY <2>2, <2>3, <2>5
<1>2. CASE ServeStdio
  BY <1>2 DEF ServeStdio
<1>3. CASE Listen
  BY <1>3 DEF Listen
<1>4. CASE StartFails
  BY <1>4 DEF StartFails
<1>5. ASSUME NEW p \in StdioPools, UsePool(p)
      PROVE  Goal
  BY <1>5 DEF UsePool
<1>6. ASSUME NEW c \in Closers, NEW p \in StdioPools, ClosePool(c, p)
      PROVE  Goal
  BY <1>6 DEF ClosePool
<1>7. ASSUME NEW c \in Closers, NEW p \in StdioPools, PoolCloses(c, p)
      PROVE  Goal
  BY <1>7 DEF PoolCloses
<1>8. CASE ClientLeaves
  BY <1>8 DEF ClientLeaves
<1>9. CASE ClientGone
  <2>1. CASE HttpEnabled
    <3>1. Complete'
      BY <1>9, <2>1 DEF ClientGone
    <3>2. StartOrder'
      BY <1>9, <2>1 DEF ClientGone, CloseStdioPools
    <3>3. ShutdownOrder'
      BY <1>9, <2>1 DEF ClientGone, CloseStdioPools
    <3>4. PoolsInHand'
      <4>1. step = "no" /\ closers["shutdown"] = {} /\ closers["leave"] = {} /\ mode = "both"
        BY <1>9, <2>1 DEF ClientGone
      <4>2. UNCHANGED <<pools, step, mode>> /\ owned' = FALSE /\ stdio' = "closed"
        BY <1>9, <2>1 DEF ClientGone, CloseStdioPools
      <4>3. CASE owned
        <5>1. closers' = [closers EXCEPT !["leave"] = {p \in StdioPools : pools[p] = "open"}]
          BY <1>9, <2>1, <4>3 DEF ClientGone, CloseStdioPools
        <5>2. \A p \in StdioPools : pools[p] # "closing"
          BY <4>3
        <5> QED BY <4>1, <4>2, <5>1, <5>2
      <4>4. CASE ~owned
        BY <1>9, <2>1, <4>1, <4>2, <4>4 DEF ClientGone, CloseStdioPools
      <4> QED BY <4>3, <4>4
    <3> QED BY <3>1, <3>2, <3>3, <3>4
  <2>2. CASE ~HttpEnabled
    <3>1. Complete'
      BY <1>9, <2>2 DEF ClientGone, Shutdown
    <3>2. StartOrder'
      BY <1>9, <2>2 DEF ClientGone, Shutdown
    <3>3. ShutdownOrder'
      <4>1. step = "no"
        BY <1>9, <2>2 DEF ClientGone
      <4> QED BY <1>9, <2>2, <4>1 DEF ClientGone, Shutdown
    <3>4. PoolsInHand'
      BY <1>9, <2>2 DEF ClientGone, Shutdown
    <3> QED BY <3>1, <3>2, <3>3, <3>4
  <2> QED BY <2>1, <2>2
<1>10. CASE Signal
  BY <1>10 DEF Signal, Shutdown
<1>11. CASE StdioCloses
  BY <1>11 DEF StdioCloses
<1>12. CASE HttpCloses
  BY <1>12 DEF HttpCloses
<1>13. CASE TransportsClosed
  BY <1>13 DEF TransportsClosed, CloseStdioPools
<1>14. CASE PoolsClosed
  BY <1>14 DEF PoolsClosed
<1>15. CASE ExportsDeleted
  BY <1>15 DEF ExportsDeleted
<1>16. CASE Deadline
  BY <1>16 DEF Deadline
<1> QED BY <1>1, <1>2, <1>3, <1>4, <1>5, <1>6, <1>7, <1>8, <1>9, <1>10, <1>11, <1>12, <1>13,
    <1>14, <1>15, <1>16 DEF LifecycleNext

(* Whatever the mode, and wherever the start or the leaving of the client is   *)
(* when a signal comes, exit code 0 means that nothing was left open but the   *)
(* pools that were closing since the client had left, and a shutdown that      *)
(* could not finish is in the audit log.                                       *)
THEOREM ShutdownsAreComplete == LifecycleSpec => []ShutdownIsComplete
<1>1. LifecycleInv /\ UNCHANGED lifecycleVars => LifecycleInv'
  <2> SUFFICES ASSUME LifecycleInv, UNCHANGED lifecycleVars PROVE LifecycleInv'
    OBVIOUS
  <2> USE DEF LifecycleInv, lifecycleVars
  <2>1. ShutdownIsComplete'
    <3>1. LifecycleTypeOK'
      BY DEF ShutdownIsComplete, LifecycleTypeOK
    <3> QED BY <3>1, Zenon DEF ShutdownIsComplete, HttpEnabled
  <2>2. StartOrder'
    BY DEF StartOrder, HttpEnabled, StdioEnabled
  <2>3. ShutdownOrder'
    BY DEF ShutdownOrder
  <2>4. PoolsInHand'
    BY DEF PoolsInHand
  <2> QED BY <2>1, <2>2, <2>3, <2>4
<1>2. LifecycleInv => ShutdownIsComplete
  BY DEF LifecycleInv
<1> QED BY <1>1, <1>2, LifecycleInitInv, LifecycleStep, PTL DEF LifecycleSpec

-----------------------------------------------------------------------------
(* Cached lists of names (NameLists)                                           *)

(* A list of at most one entry per key, none of which may be served longer than *)
(* its time to live after it was read                                          *)
GoodLists(seq) ==
    /\ seq \in Seq(Entries)
    /\ \A i, j \in DOMAIN seq : seq[i].key = seq[j].key => i = j
    /\ \A i \in DOMAIN seq : seq[i].expires <= seq[i].readAt + Ttl

(* A sequence by its length and elements.                                      *)
LEMMA SeqOfLength ==
    ASSUME NEW S, NEW n \in Nat, NEW f \in [1..n -> S]
    PROVE  f \in Seq(S) /\ Len(f) = n /\ DOMAIN f = 1..n
OBVIOUS

(* Dropping a key leaves a good list, without that key.                        *)
LEMMA WithoutIsGood ==
    ASSUME NEW seq, GoodLists(seq), NEW k
    PROVE  /\ GoodLists(Without(seq, k)) /\ Len(Without(seq, k)) \in Nat
           /\ Len(Without(seq, k)) <= Len(seq)
<1>1. CASE \A i \in DOMAIN seq : seq[i].key # k
  BY <1>1 DEF Without, GoodLists
<1>2. CASE ~\A i \in DOMAIN seq : seq[i].key # k
  <2> DEFINE i == CHOOSE i \in DOMAIN seq : seq[i].key = k
             f == [j \in 1..Len(seq) - 1 |-> IF j < i THEN seq[j] ELSE seq[j + 1]]
  <2>1. i \in 1..Len(seq) /\ seq \in Seq(Entries) /\ Len(seq) \in Nat /\ DOMAIN seq = 1..Len(seq)
    BY <1>2 DEF GoodLists
  <2>2. Without(seq, k) = f
    BY <1>2 DEF Without
  <2> HIDE DEF i
  <2>3. f \in [1..Len(seq) - 1 -> Entries] /\ Len(seq) - 1 \in Nat
    BY <2>1
  <2>4. \A j \in 1..Len(seq) - 1 : f[j] = IF j < i THEN seq[j] ELSE seq[j + 1]
    BY <2>1
  <2> HIDE DEF f
  <2>5. f \in Seq(Entries) /\ Len(f) = Len(seq) - 1 /\ DOMAIN f = 1..Len(seq) - 1
    BY <2>3, SeqOfLength
  <2>6. \A a, b \in DOMAIN f : f[a].key = f[b].key => a = b
    <3> TAKE a \in DOMAIN f, b \in DOMAIN f
    <3> PICK c \in 1..Len(seq) : f[a] = seq[c] /\ c = IF a < i THEN a ELSE a + 1
      BY <2>1, <2>4, <2>5
    <3> PICK d \in 1..Len(seq) : f[b] = seq[d] /\ d = IF b < i THEN b ELSE b + 1
      BY <2>1, <2>4, <2>5
    <3>1. seq[c].key = seq[d].key => c = d
      BY <2>1 DEF GoodLists
    <3>2. a \in Nat /\ b \in Nat /\ i \in Nat
      BY <2>1, <2>5
    <3>3. c = d => a = b
      BY <3>2
    <3> QED BY <3>1, <3>3
  <2>7. \A a \in DOMAIN f : f[a].expires <= f[a].readAt + Ttl
    <3> TAKE a \in DOMAIN f
    <3>1. PICK c \in 1..Len(seq) : f[a] = seq[c]
      BY <2>1, <2>4, <2>5
    <3>2. seq[c].expires <= seq[c].readAt + Ttl
      BY <2>1 DEF GoodLists
    <3> QED BY <3>1, <3>2
  <2> QED BY <2>1, <2>2, <2>5, <2>6, <2>7 DEF GoodLists
<1> QED BY <1>1, <1>2

(* Dropping the oldest entry leaves a good list, one shorter.                  *)
LEMMA TailIsGood ==
    ASSUME NEW seq, GoodLists(seq), Len(seq) > 0
    PROVE  GoodLists(Tail(seq)) /\ Len(Tail(seq)) = Len(seq) - 1
<1>1. seq \in Seq(Entries) /\ Len(seq) \in Nat /\ DOMAIN seq = 1..Len(seq)
  BY DEF GoodLists
<1> DEFINE f == Tail(seq)
<1>2. f \in Seq(Entries) /\ Len(f) = Len(seq) - 1 /\ DOMAIN f = 1..Len(seq) - 1
  BY <1>1
<1>3. \A j \in DOMAIN f : f[j] = seq[j + 1] /\ j + 1 \in DOMAIN seq
  BY <1>1, <1>2
<1> HIDE DEF f
<1>4. \A a, b \in DOMAIN f : f[a].key = f[b].key => a = b
  BY <1>1, <1>2, <1>3 DEF GoodLists
<1>5. \A a \in DOMAIN f : f[a].expires <= f[a].readAt + Ttl
  BY <1>3 DEF GoodLists
<1> QED BY <1>2, <1>4, <1>5 DEF GoodLists, f

(* Setting a key puts it last in a good list.                                  *)
LEMMA PutIsGood ==
    ASSUME NEW seq, GoodLists(seq), NEW entry \in Entries, entry.expires <= entry.readAt + Ttl
    PROVE  /\ GoodLists(Put(seq, entry)) /\ Len(Put(seq, entry)) \in Nat
           /\ Len(Put(seq, entry)) <= Len(seq) + 1
<1>1. seq \in Seq(Entries) /\ Len(seq) \in Nat /\ DOMAIN seq = 1..Len(seq)
  BY DEF GoodLists
<1>2. CASE \E i \in DOMAIN seq : seq[i].key = entry.key
  <2> DEFINE f == [i \in DOMAIN seq |-> IF seq[i].key = entry.key THEN entry ELSE seq[i]]
  <2>1. Put(seq, entry) = f
    BY <1>2 DEF Put
  <2>2. f \in [1..Len(seq) -> Entries] /\ \A i \in 1..Len(seq) : f[i] = IF seq[i].key = entry.key THEN entry ELSE seq[i]
    BY <1>1
  <2> HIDE DEF f
  <2>3. f \in Seq(Entries) /\ Len(f) = Len(seq) /\ DOMAIN f = 1..Len(seq)
    BY <1>1, <2>2, SeqOfLength
  <2>4. \A a, b \in DOMAIN f : f[a].key = f[b].key => a = b
    BY <1>1, <2>2, <2>3 DEF GoodLists
  <2>5. \A a \in DOMAIN f : f[a].expires <= f[a].readAt + Ttl
    BY <1>1, <2>2, <2>3 DEF GoodLists
  <2> QED BY <1>1, <2>1, <2>3, <2>4, <2>5 DEF GoodLists
<1>3. CASE ~\E i \in DOMAIN seq : seq[i].key = entry.key
  <2> DEFINE f == Append(seq, entry)
  <2>1. Put(seq, entry) = f
    BY <1>3 DEF Put
  <2>2. f \in Seq(Entries) /\ Len(f) = Len(seq) + 1 /\ DOMAIN f = 1..Len(seq) + 1
    BY <1>1
  <2>3. \A i \in 1..Len(seq) + 1 : f[i] = IF i = Len(seq) + 1 THEN entry ELSE seq[i]
    BY <1>1
  <2> HIDE DEF f
  <2>4. \A a, b \in DOMAIN f : f[a].key = f[b].key => a = b
    BY <1>1, <1>3, <2>2, <2>3 DEF GoodLists
  <2>5. \A a \in DOMAIN f : f[a].expires <= f[a].readAt + Ttl
    BY <1>1, <2>2, <2>3 DEF GoodLists
  <2> QED BY <1>1, <2>1, <2>2, <2>4, <2>5 DEF GoodLists
<1> QED BY <1>2, <1>3

(* A list that was full makes room for the new key.                            *)
LEMMA PutBoundedIsGood ==
    ASSUME NEW seq, GoodLists(seq), Len(seq) <= MaxLists,
           NEW entry \in Entries, entry.expires <= entry.readAt + Ttl
    PROVE  GoodLists(PutBounded(seq, entry)) /\ Len(PutBounded(seq, entry)) <= MaxLists
<1>1. Len(seq) \in Nat /\ MaxLists \in Nat \ {0}
  BY ListsAssumption DEF GoodLists
<1>2. CASE Len(seq) >= MaxLists
  <2>1. GoodLists(Tail(seq)) /\ Len(Tail(seq)) = Len(seq) - 1
    BY <1>1, <1>2, TailIsGood
  <2>2. PutBounded(seq, entry) = Put(Tail(seq), entry)
    BY <1>2 DEF PutBounded
  <2>3. /\ GoodLists(Put(Tail(seq), entry)) /\ Len(Put(Tail(seq), entry)) \in Nat
        /\ Len(Put(Tail(seq), entry)) <= Len(Tail(seq)) + 1
    BY <2>1, PutIsGood
  <2> QED BY <1>1, <2>1, <2>2, <2>3
<1>3. CASE ~(Len(seq) >= MaxLists)
  <2>1. PutBounded(seq, entry) = Put(seq, entry)
    BY <1>3 DEF PutBounded
  <2> QED BY <1>1, <1>3, <2>1, PutIsGood
<1> QED BY <1>2, <1>3

(* A request counts the time to live from before the catalog is read *)
ReadAfterAsking ==
    \A f \in Fetchers :
        /\ fetch[f].pc = "query" => fetch[f].since <= clock
        /\ fetch[f].pc = "read" => fetch[f].since <= fetch[f].readAt

(* An answer that comes late is stored with the expiry of its request, so the  *)
(* requests under way belong to the invariant.                                 *)
ListsInv ==
    /\ ListsTypeOK
    /\ GoodLists(lists) /\ Len(lists) <= MaxLists
    /\ ReadAfterAsking
    /\ \A f \in Fetchers : served[f] # "stale"

(* No list is cached at first.                                                 *)
LEMMA ListsInitInv == ListsInit => ListsInv
<1> SUFFICES ASSUME ListsInit PROVE ListsInv
  OBVIOUS
<1>1. ListsTypeOK
  BY DEF ListsInit, ListsTypeOK
<1>2. lists \in Seq(Entries) /\ Len(lists) = 0 /\ DOMAIN lists = {}
  BY DEF ListsInit
<1>3. GoodLists(lists) /\ Len(lists) <= MaxLists
  BY <1>2, ListsAssumption DEF GoodLists
<1> QED BY <1>1, <1>3 DEF ListsInit, ListsInv, ReadAfterAsking, NotFetching

(* A list is cached with the clock of its request and makes room first.        *)
LEMMA ListsStep ==
    ASSUME ListsInv, ListsNext
    PROVE  ListsInv'
<1>t. /\ ListsTypeOK /\ GoodLists(lists) /\ Len(lists) <= MaxLists /\ Len(lists) \in Nat
      /\ ReadAfterAsking
      /\ \A f \in Fetchers : served[f] # "stale"
  BY DEF ListsInv, GoodLists
<1>n. NotFetching.pc = "idle" /\ NotFetching \in Fetching \cup {NotFetching}
  BY DEF NotFetching
<1>1. ASSUME NEW f \in Fetchers, LookUp(f) PROVE ListsInv'
  <2> PICK k \in ListKeys : Miss(f, k) \/ \E i \in Keyed(k) : Hit(f, i)
    BY <1>1 DEF LookUp
  <2>0. UNCHANGED <<variant, clock>>
    BY <1>1 DEF LookUp
  <2>1. CASE Miss(f, k)
    <3>1. GoodLists(lists') /\ Len(lists') <= MaxLists
      <4>1. GoodLists(Without(lists, k)) /\ Len(Without(lists, k)) \in Nat /\ Len(Without(lists, k)) <= Len(lists)
        BY <1>t, WithoutIsGood
      <4> QED BY <1>t, <2>1, <4>1, ListsAssumption DEF Miss
    <3> DEFINE x == [pc |-> "query", key |-> k, since |-> clock, readAt |-> clock]
    <3>2. x \in Fetching /\ x.pc = "query" /\ x.since = clock
      BY <1>t DEF Fetching, ListsTypeOK
    <3>3. fetch' = [fetch EXCEPT ![f] = x] \/ UNCHANGED fetch
      BY <2>1 DEF Miss
    <3> HIDE DEF x
    <3>4. fetch' \in [Fetchers -> Fetching \cup {NotFetching}] /\ ReadAfterAsking'
      BY <1>t, <2>0, <3>2, <3>3 DEF ListsTypeOK, ReadAfterAsking
    <3>5. served' \in [Fetchers -> {"nothing", "fresh", "stale"}] /\ \A g \in Fetchers : served'[g] # "stale"
      BY <1>t, <2>1 DEF Miss, ListsTypeOK
    <3> QED BY <1>t, <2>0, <3>1, <3>4, <3>5 DEF ListsInv, ListsTypeOK, GoodLists
  <2>2. ASSUME NEW i \in Keyed(k), Hit(f, i) PROVE ListsInv'
    <3>1. lists[i] \in Entries /\ lists[i].expires <= lists[i].readAt + Ttl /\ lists[i].expires > clock
      BY <1>t, <2>2 DEF Keyed, Hit, GoodLists
    <3>2. clock < lists[i].readAt + Ttl
      BY <1>t, <3>1, ListsAssumption DEF Entries, ListsTypeOK
    <3>3. served' = [served EXCEPT ![f] = "fresh"] /\ UNCHANGED <<lists, fetch>>
      BY <2>2, <3>2 DEF Hit
    <3>4. served' \in [Fetchers -> {"nothing", "fresh", "stale"}] /\ \A g \in Fetchers : served'[g] # "stale"
      BY <1>t, <3>3 DEF ListsTypeOK
    <3> QED BY <1>t, <2>0, <3>3, <3>4 DEF ListsInv, ListsTypeOK, GoodLists, ReadAfterAsking
  <2> QED BY <2>1, <2>2
<1>2. ASSUME NEW f \in Fetchers, ReadCatalog(f) PROVE ListsInv'
  <2> DEFINE x == [fetch[f] EXCEPT !.pc = "read", !.readAt = clock]
  <2>1. fetch[f] \in Fetching
    BY <1>2, <1>t, <1>n DEF ReadCatalog, ListsTypeOK
  <2>2. x \in Fetching /\ x.pc = "read" /\ x.since = fetch[f].since /\ x.readAt = clock
    BY <1>t, <2>1 DEF Fetching, ListsTypeOK
  <2>3. fetch' = [fetch EXCEPT ![f] = x] /\ UNCHANGED <<variant, clock, lists, served>>
    BY <1>2, <1>t DEF ReadCatalog, ListsTypeOK
  <2>4. x.since <= x.readAt
    BY <1>2, <1>t, <2>2 DEF ReadCatalog, ReadAfterAsking
  <2> HIDE DEF x
  <2>5. ReadAfterAsking'
    BY <1>t, <2>2, <2>3, <2>4 DEF ReadAfterAsking, ListsTypeOK
  <2> QED BY <1>t, <2>2, <2>3, <2>5 DEF ListsInv, ListsTypeOK, GoodLists
<1>3. ASSUME NEW f \in Fetchers, FetchEnds(f) PROVE ListsInv'
  <2> DEFINE list == [key |-> fetch[f].key, expires |-> fetch[f].since + Ttl, readAt |-> fetch[f].readAt]
             kept == IF variant = "services" THEN Without(lists, fetch[f].key) ELSE lists
  <2>1. fetch[f] \in Fetching /\ fetch[f].since <= fetch[f].readAt
    BY <1>3, <1>t, <1>n DEF FetchEnds, ListsTypeOK, ReadAfterAsking
  <2>2. list \in Entries /\ list.expires <= list.readAt + Ttl
    BY <2>1, ListsAssumption DEF Entries, Fetching
  <2>3. GoodLists(kept) /\ Len(kept) <= MaxLists
    <3>1. GoodLists(Without(lists, fetch[f].key)) /\ Len(Without(lists, fetch[f].key)) \in Nat
          /\ Len(Without(lists, fetch[f].key)) <= Len(lists)
      BY <1>t, WithoutIsGood
    <3> QED BY <1>t, <3>1, ListsAssumption
  <2>4. lists' = PutBounded(kept, list)
    BY <1>3 DEF FetchEnds
  <2> HIDE DEF list, kept
  <2>5. GoodLists(lists') /\ Len(lists') <= MaxLists
    BY <2>2, <2>3, <2>4, PutBoundedIsGood
  <2>6. fetch' = [fetch EXCEPT ![f] = NotFetching] /\ served' = [served EXCEPT ![f] = "fresh"]
        /\ UNCHANGED <<variant, clock>>
    BY <1>3 DEF FetchEnds
  <2>7. ReadAfterAsking' /\ fetch' \in [Fetchers -> Fetching \cup {NotFetching}]
    BY <1>t, <1>n, <2>6 DEF ReadAfterAsking, ListsTypeOK
  <2> QED BY <1>t, <2>5, <2>6, <2>7 DEF ListsInv, ListsTypeOK, GoodLists
<1>4. ASSUME NEW f \in Fetchers, FetchFails(f) PROVE ListsInv'
  <2>1. ReadAfterAsking' /\ fetch' \in [Fetchers -> Fetching \cup {NotFetching}]
    BY <1>4, <1>t, <1>n DEF FetchFails, ReadAfterAsking, ListsTypeOK
  <2> QED BY <1>4, <1>t, <2>1 DEF FetchFails, ListsInv, ListsTypeOK, GoodLists
<1>5. CASE ClockTicks
  <2>1. \A f \in Fetchers : fetch[f].pc = "query" => fetch[f].since \in Nat
    BY <1>t, <1>n DEF ListsTypeOK, Fetching
  <2>2. ReadAfterAsking'
    BY <1>5, <1>t, <2>1 DEF ClockTicks, ReadAfterAsking, ListsTypeOK
  <2> QED BY <1>5, <1>t, <2>2 DEF ClockTicks, ListsInv, ListsTypeOK, GoodLists
<1> QED BY <1>1, <1>2, <1>3, <1>4, <1>5 DEF ListsNext

(* For any keys, time to live and capacity, and in whatever order overlapping  *)
(* lookups end, a list that is served without a lookup was read less than its  *)
(* time to live ago, and there are never more lists than allowed, one for each *)
(* key.                                                                        *)
THEOREM ListsStayFreshAndFew == ListsSpec => []ListsFreshAndFew
<1>1. ListsInv /\ UNCHANGED listVars => ListsInv'
  BY DEF ListsInv, ListsTypeOK, GoodLists, ReadAfterAsking, listVars
<1>2. ListsInv => ListsFreshAndFew
  BY DEF ListsInv, GoodLists, ListsFreshAndFew
<1> QED BY <1>1, <1>2, ListsInitInv, ListsStep, PTL DEF ListsSpec

-----------------------------------------------------------------------------
(* Files of an export (ExportWriters)                                          *)

Piece == 1..MaxPieces + 1
(* Pieces are numbered as they are given to the writer.                        *)
Pieces == Seq(Piece)

(* The pieces that follow piece n, in their order *)
Follow(seq, n) == \A i \in 1..Len(seq) : seq[i] = n + i

(* Pieces that follow each other, put together.                                *)
LEMMA FollowConcat ==
    ASSUME NEW a \in Pieces, NEW b \in Pieces, NEW n \in Nat, Follow(a, n), Follow(b, n + Len(a))
    PROVE  a \o b \in Pieces /\ Len(a \o b) = Len(a) + Len(b) /\ Follow(a \o b, n)
<1> USE DEF Pieces
<1>1. a \o b \in Seq(Piece) /\ Len(a \o b) = Len(a) + Len(b)
  OBVIOUS
<1>2. \A i \in 1..Len(a) + Len(b) : (a \o b)[i] = IF i <= Len(a) THEN a[i] ELSE b[i - Len(a)]
  OBVIOUS
<1>3. ASSUME NEW i \in 1..Len(a) + Len(b) PROVE (a \o b)[i] = n + i
  <2>1. CASE i <= Len(a)
    BY <1>2, <2>1 DEF Follow
  <2>2. CASE i > Len(a)
    <3>1. i - Len(a) \in 1..Len(b)
      BY <2>2
    <3>2. b[i - Len(a)] = n + Len(a) + (i - Len(a))
      BY <3>1 DEF Follow
    <3> QED BY <1>2, <2>2, <3>2
  <2> QED BY <2>1, <2>2
<1> QED BY <1>1, <1>3 DEF Follow

(* Pieces that follow each other, cut in two.                                  *)
LEMMA FollowSplit ==
    ASSUME NEW a \in Pieces, NEW n \in Nat, Follow(a, n), NEW k \in 0..Len(a)
    PROVE  /\ SubSeq(a, 1, k) \in Pieces /\ Len(SubSeq(a, 1, k)) = k /\ Follow(SubSeq(a, 1, k), n)
           /\ SubSeq(a, k + 1, Len(a)) \in Pieces /\ Len(SubSeq(a, k + 1, Len(a))) = Len(a) - k
           /\ Follow(SubSeq(a, k + 1, Len(a)), n + k)
<1> USE DEF Pieces
<1>1. SubSeq(a, 1, k) \in Seq(Piece) /\ Len(SubSeq(a, 1, k)) = k
      /\ \A i \in 1..k : SubSeq(a, 1, k)[i] = a[i]
  OBVIOUS
<1>2. SubSeq(a, k + 1, Len(a)) \in Seq(Piece) /\ Len(SubSeq(a, k + 1, Len(a))) = Len(a) - k
      /\ \A i \in 1..Len(a) - k : SubSeq(a, k + 1, Len(a))[i] = a[k + i]
  OBVIOUS
<1>3. Follow(SubSeq(a, 1, k), n)
  BY <1>1 DEF Follow
<1>4. Follow(SubSeq(a, k + 1, Len(a)), n + k)
  BY <1>2 DEF Follow
<1> QED BY <1>1, <1>2, <1>3, <1>4

(* Pieces that follow each other, and the next one.                            *)
LEMMA FollowAppend ==
    ASSUME NEW a \in Pieces, NEW n \in Nat, Follow(a, n), n + Len(a) + 1 \in Piece
    PROVE  /\ Append(a, n + Len(a) + 1) \in Pieces /\ Len(Append(a, n + Len(a) + 1)) = Len(a) + 1
           /\ Follow(Append(a, n + Len(a) + 1), n)
<1> USE DEF Pieces
<1> DEFINE next == n + Len(a) + 1
<1>1. next \in Piece /\ next = n + Len(a) + 1 /\ Len(a) \in Nat
  OBVIOUS
<1> HIDE DEF next
<1>2. Append(a, next) \in Seq(Piece) /\ Len(Append(a, next)) = Len(a) + 1
  BY <1>1
<1>3. \A i \in 1..Len(a) + 1 : Append(a, next)[i] = IF i <= Len(a) THEN a[i] ELSE next
  BY <1>1
<1>4. ASSUME NEW i \in 1..Len(a) + 1 PROVE Append(a, next)[i] = n + i
  <2>1. CASE i <= Len(a)
    BY <1>3, <2>1 DEF Follow
  <2>2. CASE i = Len(a) + 1
    BY <1>1, <1>3, <2>2
  <2> QED BY <1>1, <2>1, <2>2
<1>5. Follow(Append(a, next), n)
  BY <1>2, <1>4 DEF Follow
<1> QED BY <1>2, <1>5 DEF next

(* What the compressor has passed on, and the piece that follows a chunk *)
Passed == given - Len(compressor)
After(chunk) == chunk[1] + Len(chunk)

(* Chunks that follow each other, up to piece n *)
GoodChunk(chunk) == chunk \in Pieces /\ Len(chunk) > 0 /\ Follow(chunk, chunk[1] - 1)
ChunksUpTo(seq, n) ==
    /\ seq \in Seq(Pieces)
    /\ \A i \in 1..Len(seq) : GoodChunk(seq[i])
    /\ \A i \in 1..Len(seq) - 1 : seq[i + 1][1] = After(seq[i])
    /\ Len(seq) > 0 => After(seq[Len(seq)]) = n

(* No chunk waits.                                                             *)
LEMMA NoChunks == \A n \in Nat : ChunksUpTo(<<>>, n)
<1>1. <<>> \in Seq(Pieces) /\ Len(<<>>) = 0
  OBVIOUS
<1> QED BY <1>1 DEF ChunksUpTo

(* The first chunk is written; the second begins where it ended.               *)
LEMMA ChunksTail ==
    ASSUME NEW seq, NEW n \in Nat, ChunksUpTo(seq, n), seq # <<>>
    PROVE  /\ ChunksUpTo(Tail(seq), n)
           /\ Len(seq) > 0 /\ Head(seq) = seq[1] /\ GoodChunk(seq[1])
           /\ Len(Tail(seq)) > 0 => Tail(seq)[1][1] = After(seq[1])
           /\ Len(Tail(seq)) = 0 => After(seq[1]) = n
<1>1. seq \in Seq(Pieces) /\ Len(seq) \in Nat /\ Len(seq) > 0
  BY DEF ChunksUpTo
<1>2. /\ Tail(seq) \in Seq(Pieces) /\ Len(Tail(seq)) = Len(seq) - 1 /\ Head(seq) = seq[1]
      /\ \A i \in 1..Len(seq) - 1 : Tail(seq)[i] = seq[i + 1]
  BY <1>1
<1>3. \A i \in 1..Len(Tail(seq)) : GoodChunk(Tail(seq)[i])
  BY <1>1, <1>2 DEF ChunksUpTo
<1>4. ASSUME NEW i \in 1..Len(Tail(seq)) - 1 PROVE Tail(seq)[i + 1][1] = After(Tail(seq)[i])
  <2>1. i \in 1..Len(seq) - 1 /\ i + 1 \in 1..Len(seq) - 1
    BY <1>1, <1>2
  <2>2. Tail(seq)[i] = seq[i + 1] /\ Tail(seq)[i + 1] = seq[i + 1 + 1]
    BY <1>2, <2>1
  <2> QED BY <2>1, <2>2 DEF ChunksUpTo
<1>5. ASSUME Len(Tail(seq)) > 0 PROVE After(Tail(seq)[Len(Tail(seq))]) = n
  <2>1. Tail(seq)[Len(Tail(seq))] = seq[Len(seq)]
    BY <1>1, <1>2, <1>5
  <2> QED BY <1>1, <2>1 DEF ChunksUpTo
<1>6. ASSUME Len(Tail(seq)) > 0 PROVE Tail(seq)[1][1] = After(seq[1])
  <2>1. Tail(seq)[1] = seq[1 + 1] /\ 1 \in 1..Len(seq) - 1
    BY <1>1, <1>2, <1>6
  <2> QED BY <2>1 DEF ChunksUpTo
<1>7. ASSUME Len(Tail(seq)) = 0 PROVE After(seq[1]) = n
  <2>1. Len(Tail(seq)) = Len(seq) - 1 /\ Len(seq) \in Nat
    BY <1>1, <1>2
  <2>2. Len(seq) = 1
    BY <1>7, <2>1
  <2> QED BY <2>2 DEF ChunksUpTo
<1>8. GoodChunk(seq[1])
  BY <1>1 DEF ChunksUpTo
<1>9. ChunksUpTo(Tail(seq), n)
  BY <1>2, <1>3, <1>4, <1>5 DEF ChunksUpTo
<1> QED BY <1>1, <1>2, <1>6, <1>7, <1>8, <1>9

(* A chunk comes when none waits.                                              *)
LEMMA OneChunk ==
    ASSUME NEW seq, NEW chunk, GoodChunk(chunk), Len(seq) = 0, seq \in Seq(Pieces)
    PROVE  /\ ChunksUpTo(Append(seq, chunk), After(chunk))
           /\ Len(Append(seq, chunk)) = 1 /\ Append(seq, chunk)[1] = chunk
<1>1. chunk \in Pieces
  BY DEF GoodChunk
<1>2. /\ Append(seq, chunk) \in Seq(Pieces) /\ Len(Append(seq, chunk)) = 1
      /\ Append(seq, chunk)[1] = chunk
  BY <1>1
<1> HIDE DEF Pieces
<1>3. \A i \in 1..1 : i = 1
  OBVIOUS
<1> QED BY <1>2, <1>3 DEF ChunksUpTo

(* The chunks that wait follow each other and end where the compressor begins *)
ChunksInOrder ==
    /\ compressor \in Pieces /\ given \in Nat /\ Len(compressor) <= given
    /\ Follow(compressor, Passed)
    /\ ChunksUpTo(chunks, Passed + 1)

(* While the stream has not failed the file, its buffer and the chunks follow   *)
(* each other; the first chunk is in the buffer already when 'drain' is awaited *)
FileInOrder ==
    /\ buffer \in Pieces /\ written \in Pieces
    /\ Follow(written, 0)
    /\ stream \in {"opening", "open"} =>
          /\ Follow(buffer, Len(written))
          /\ Len(chunks) = 0 => Len(written) + Len(buffer) = Passed
          /\ Len(chunks) > 0 /\ ~draining => chunks[1][1] = Len(written) + Len(buffer) + 1
          /\ draining => After(chunks[1]) = Len(written) + Len(buffer) + 1

(* Who has a write, an end or an abort under way, by the state of the stream.  *)
StreamPlaced ==
    /\ draining => Len(chunks) > 0 /\ stream \in {"open", "failing"}
    /\ ~draining => Len(buffer) < HighWater
    /\ stream \in {"opening", "failing", "failed"} => buffer = <<>>
    /\ rejected => stream = "failed"
    /\ stream = "finished" => writerCall = "finished"
    /\ stream = "closed" => writerCall = "aborted"
    /\ streamEnded => stream # "opening"
                      /\ writerCall \in {"end", "finished", "refused", "abort", "closing", "aborted"}
    /\ streamEnded /\ stream \in {"open", "failing"} => writerCall = "end"

(* What is left of the pieces, by the call the exporter is in.                 *)
CallPlaced ==
    /\ Len(chunks) > 0 => writerCall \in {"write", "flush"}
    /\ writerCall \in {"none", "write", "ready"} => given <= MaxPieces
    /\ fileFormat = "csv" \/ writerCall \in {"flush", "end", "finished"} => Len(compressor) = 0
    /\ writerCall = "finished" => stream = "finished" /\ Len(written) = given
    /\ writerCall = "aborted" => stream \in {"failed", "closed"}
    /\ writerCall = "end" /\ streamEnded => stream \in {"open", "failing"}

(* That no piece is lost is seen only when every place a piece can be at is    *)
(* followed: the compressor, the chunks that wait, the buffer and the file.    *)
WritersInv == WritersTypeOK /\ ChunksInOrder /\ FileInOrder /\ StreamPlaced /\ CallPlaced

(* The file is whole when the pieces are in order in all of their places.      *)
LEMMA WritersInvariant == WritersInv => FileIsWhole
<1> SUFFICES ASSUME WritersInv PROVE FileIsWhole
  OBVIOUS
<1>1. written = [i \in 1..Len(written) |-> i]
  <2>1. written \in Seq(Piece) /\ \A i \in 1..Len(written) : written[i] = i
    BY DEF WritersInv, FileInOrder, Follow, Pieces
  <2> QED BY <2>1
<1>2. Len(chunks) = 0 => chunks = <<>>
  BY DEF WritersInv, ChunksInOrder, ChunksUpTo
<1>3. writerCall = "ready" /\ stream \notin {"failing", "failed"} =>
         Len(written) + Len(buffer) + Len(compressor) = given
  <2>1. /\ Len(written) \in Nat /\ Len(buffer) \in Nat /\ Len(compressor) \in Nat /\ given \in Nat
        /\ Len(chunks) \in Nat
    BY DEF WritersInv, FileInOrder, ChunksInOrder, ChunksUpTo, Pieces
  <2>2. SUFFICES ASSUME writerCall = "ready", stream \notin {"failing", "failed"}
        PROVE  Len(written) + Len(buffer) + Len(compressor) = given
    OBVIOUS
  <2>3. Len(chunks) = 0
    BY <2>1, <2>2 DEF WritersInv, CallPlaced
  <2>4. stream \in {"opening", "open"}
    BY <2>2 DEF WritersInv, WritersTypeOK, StreamPlaced
  <2>5. Len(written) + Len(buffer) = given - Len(compressor)
    BY <2>3, <2>4 DEF WritersInv, FileInOrder, Passed
  <2> QED BY <2>1, <2>5
<1>4. Len(chunks) \in Nat
  BY DEF WritersInv, ChunksInOrder, ChunksUpTo
<1> QED BY <1>1, <1>2, <1>3, <1>4 DEF WritersInv, FileIsWhole, StreamPlaced, CallPlaced

(* Nothing was given at first.                                                 *)
LEMMA WritersInitInv == WritersInit => WritersInv
<1> SUFFICES ASSUME WritersInit PROVE WritersInv
  OBVIOUS
<1> USE WritersAssumption
<1>1. <<>> \in Pieces /\ Len(<<>>) = 0 /\ \A n \in Nat : Follow(<<>>, n)
  BY DEF Follow, Pieces
<1>2. WritersTypeOK
  <2>1. DOMAIN chunks = {}
    BY DEF WritersInit
  <2>2. buffer \in Seq(Piece) /\ written \in Seq(Piece) /\ compressor \in Seq(Piece)
    BY DEF WritersInit
  <2>3. given \in 0..MaxPieces + 1
    BY DEF WritersInit
  <2> QED BY <2>1, <2>2, <2>3 DEF WritersInit, WritersTypeOK, Piece
<1>3. ChunksInOrder
  BY <1>1, NoChunks DEF WritersInit, ChunksInOrder, Passed
<1>4. FileInOrder
  <2>1. /\ buffer = <<>> /\ written = <<>> /\ given = 0 /\ draining = FALSE
        /\ Len(buffer) = 0 /\ Len(written) = 0 /\ Len(compressor) = 0 /\ Len(chunks) = 0
    BY <1>1 DEF WritersInit
  <2>2. Passed = 0
    BY <2>1 DEF Passed
  <2>3. Follow(written, 0) /\ Follow(buffer, Len(written))
    BY <1>1, <2>1
  <2> QED BY <1>1, <2>1, <2>2, <2>3 DEF FileInOrder
<1>5. StreamPlaced
  BY <1>1 DEF WritersInit, StreamPlaced
<1>6. CallPlaced
  BY <1>1 DEF WritersInit, CallPlaced
<1> QED BY <1>2, <1>3, <1>4, <1>5, <1>6 DEF WritersInv

(* The types of the places, and their lengths.                                 *)
LEMMA Lengths ==
    ASSUME WritersInv
    PROVE  /\ given \in 0..MaxPieces + 1 /\ Passed \in Nat
           /\ compressor \in Pieces /\ Len(compressor) \in Nat /\ Len(compressor) <= given
           /\ chunks \in Seq(Pieces) /\ Len(chunks) \in Nat
           /\ buffer \in Pieces /\ Len(buffer) \in Nat
           /\ written \in Pieces /\ Len(written) \in Nat
           /\ Len(chunks) = 0 <=> chunks = <<>>
<1> USE WritersAssumption
<1>1. compressor \in Seq(Piece) /\ buffer \in Seq(Piece) /\ written \in Seq(Piece) /\ chunks \in Seq(Pieces)
  BY DEF WritersInv, ChunksInOrder, ChunksUpTo, FileInOrder, Pieces
<1>2. given \in 0..MaxPieces + 1 /\ Len(compressor) <= given /\ given \in Nat
  BY DEF WritersInv, ChunksInOrder, WritersTypeOK
<1>3. Len(compressor) \in Nat /\ Len(buffer) \in Nat /\ Len(written) \in Nat /\ Len(chunks) \in Nat
  BY <1>1
<1>4. Len(chunks) = 0 <=> chunks = <<>>
  BY <1>1
<1>5. Passed \in Nat
  BY <1>2, <1>3 DEF Passed
<1> QED BY <1>1, <1>2, <1>3, <1>4, <1>5 DEF Pieces

(* A push() when nothing waits *)
LEMMA PushStep ==
    ASSUME WritersInv, NEW final \in BOOLEAN, given <= MaxPieces, chunks = <<>>, Push(final)
    PROVE  ChunksInOrder' /\ FileInOrder' /\ (final \/ fileFormat = "csv" => Len(compressor') = 0)
<1> USE WritersAssumption
<1>1. /\ given \in Nat /\ given + 1 \in Piece /\ Passed \in Nat /\ Len(compressor) \in Nat
      /\ compressor \in Pieces /\ Len(compressor) <= given /\ Len(chunks) = 0
      /\ chunks \in Seq(Pieces) /\ Len(buffer) \in Nat /\ Len(written) \in Nat
  BY Lengths DEF Piece
<1>2. /\ given' = given + 1 /\ draining' = draining /\ stream' = stream
      /\ buffer' = buffer /\ written' = written /\ fileFormat' = fileFormat
  BY DEF Push, streamVars
<1> DEFINE held == Append(compressor, given + 1)
<1>3. held \in Pieces /\ Len(held) = Len(compressor) + 1 /\ Follow(held, Passed)
  <2>1. Passed + Len(compressor) + 1 = given + 1 /\ Follow(compressor, Passed)
    BY <1>1 DEF Passed, WritersInv, ChunksInOrder
  <2>2. Passed + Len(compressor) + 1 \in Piece
    BY <1>1, <2>1
  <2>3. /\ Append(compressor, Passed + Len(compressor) + 1) \in Pieces
        /\ Len(Append(compressor, Passed + Len(compressor) + 1)) = Len(compressor) + 1
        /\ Follow(Append(compressor, Passed + Len(compressor) + 1), Passed)
    BY <1>1, <2>1, <2>2, FollowAppend
  <2> QED BY <2>1, <2>3
<1>4. PICK n \in 0..Len(held) :
         /\ final \/ fileFormat = "csv" => n = Len(held)
         /\ compressor' = SubSeq(held, n + 1, Len(held))
         /\ chunks' = IF n = 0 THEN chunks ELSE Append(chunks, SubSeq(held, 1, n))
  BY DEF Push
<1> HIDE DEF held
<1>5. /\ SubSeq(held, 1, n) \in Pieces /\ Len(SubSeq(held, 1, n)) = n /\ Follow(SubSeq(held, 1, n), Passed)
      /\ compressor' \in Pieces /\ Len(compressor') = Len(held) - n
      /\ Follow(compressor', Passed + n)
  BY <1>1, <1>3, <1>4, FollowSplit
<1>6. n \in Nat /\ n <= Len(held)
  BY <1>1, <1>3
<1>7. Passed' = Passed + n /\ Len(compressor') <= given'
  BY <1>1, <1>2, <1>3, <1>5, <1>6 DEF Passed
<1>8. ~draining
  BY <1>1 DEF WritersInv, StreamPlaced
<1>9. CASE n = 0
  <2>1. chunks' = <<>> /\ Len(chunks') = 0 /\ ChunksUpTo(chunks', Passed' + 1)
    BY <1>1, <1>4, <1>7, <1>9, NoChunks
  <2>2. ChunksInOrder'
    BY <1>1, <1>2, <1>5, <1>7, <2>1 DEF ChunksInOrder
  <2>3. Passed' = Passed
    BY <1>1, <1>7, <1>9
  <2>4. FileInOrder'
    BY <1>1, <1>2, <1>8, <2>1, <2>3 DEF WritersInv, FileInOrder
  <2> QED BY <1>3, <1>4, <1>5, <1>1, <2>2, <2>4
<1>10. CASE n > 0
  <2> DEFINE chunk == SubSeq(held, 1, n)
  <2>1. chunk \in Pieces /\ Len(chunk) = n /\ Follow(chunk, Passed) /\ chunks' = Append(chunks, chunk)
    BY <1>4, <1>5, <1>10
  <2> HIDE DEF chunk
  <2>2. chunk[1] = Passed + 1
    BY <1>1, <1>6, <1>10, <2>1 DEF Follow
  <2>3. chunk[1] - 1 = Passed /\ After(chunk) = Passed' + 1
    BY <1>1, <1>6, <1>7, <2>1, <2>2 DEF After
  <2>4. GoodChunk(chunk)
    BY <1>10, <2>1, <2>3 DEF GoodChunk
  <2>5. ChunksUpTo(chunks', Passed' + 1) /\ Len(chunks') = 1 /\ chunks'[1] = chunk
    <3>1. /\ ChunksUpTo(Append(chunks, chunk), After(chunk))
          /\ Len(Append(chunks, chunk)) = 1 /\ Append(chunks, chunk)[1] = chunk
      BY <1>1, <2>4, OneChunk
    <3> QED BY <2>1, <2>3, <3>1
  <2>6. ChunksInOrder'
    BY <1>1, <1>2, <1>5, <1>7, <2>5 DEF ChunksInOrder
  <2>7. FileInOrder'
    BY <1>1, <1>2, <1>8, <2>2, <2>5 DEF WritersInv, FileInOrder
  <2> QED BY <1>3, <1>4, <1>5, <1>1, <2>6, <2>7
<1> QED BY <1>6, <1>9, <1>10

(* A step that takes no chunk.                                                 *)
LEMMA ChunksUnchanged ==
    ASSUME ChunksInOrder, UNCHANGED <<given, compressor, chunks>>
    PROVE  ChunksInOrder'
BY DEF ChunksInOrder, Passed

(* A step that moves no piece, though the stream may open or end.              *)
LEMMA FileUnchanged ==
    ASSUME FileInOrder, UNCHANGED <<given, compressor, chunks, buffer, written, draining>>,
           \/ stream' = stream \/ stream' \notin {"opening", "open"}
           \/ (stream = "opening" /\ stream' = "open")
    PROVE  FileInOrder'
<1>1. CASE stream' \notin {"opening", "open"}
  BY <1>1 DEF FileInOrder, Passed
<1>2. CASE stream \in {"opening", "open"}
  BY <1>2 DEF FileInOrder, Passed
<1> QED BY <1>1, <1>2

(* Every step keeps the types.                                                 *)
LEMMA WritersTypeStep ==
    ASSUME WritersInv, WritersNext, ChunksInOrder', FileInOrder'
    PROVE  WritersTypeOK'
<1> USE WritersAssumption
<1> USE DEF callVars, streamVars
<1>1. fileFormat' \in {"csv", "xlsx"}
  <2>1. fileFormat' = fileFormat
    BY DEF WritersNext, WritePiece, PieceWritten, Finish, EndFlushed, AbortFile, SinkWrite, Drain,
           SinkEnd, SinkDestroy, Opened, DiskTakes, DiskFails, ErrorTold, StreamFinishes,
           StreamCloses, Flushed, Push
  <2> QED BY <2>1 DEF WritersInv, WritersTypeOK
<1>2. writerCall' \in {"none", "write", "ready", "flush", "end", "finished", "refused", "abort", "closing", "aborted"}
  BY DEF WritersInv, WritersTypeOK, WritersNext, WritePiece, PieceWritten, Finish, EndFlushed,
         AbortFile, SinkWrite, Drain, SinkEnd, SinkDestroy, Opened, DiskTakes, DiskFails, ErrorTold,
         StreamFinishes, StreamCloses, Flushed
<1>3. given' \in 0..MaxPieces + 1
  <2>1. given \in 0..MaxPieces + 1 /\ (writerCall = "ready" => given <= MaxPieces)
    BY DEF WritersInv, WritersTypeOK, CallPlaced
  <2> QED BY <2>1 DEF WritersNext, WritePiece, PieceWritten, Finish, EndFlushed, AbortFile,
             SinkWrite, Drain, SinkEnd, SinkDestroy, Opened, DiskTakes, DiskFails, ErrorTold,
             StreamFinishes, StreamCloses, Flushed, Push
<1>4. /\ compressor' \in Seq(1..MaxPieces + 1) /\ buffer' \in Seq(1..MaxPieces + 1)
      /\ written' \in Seq(1..MaxPieces + 1)
  BY DEF ChunksInOrder, FileInOrder, Pieces, Piece
<1>5. \A i \in DOMAIN chunks' : chunks'[i] \in Seq(1..MaxPieces + 1)
  <2>1. chunks' \in Seq(Pieces)
    BY DEF ChunksInOrder, ChunksUpTo
  <2> QED BY <2>1 DEF Pieces, Piece
<1>6. draining' \in BOOLEAN /\ streamEnded' \in BOOLEAN
  <2>1. draining \in BOOLEAN /\ streamEnded \in BOOLEAN
    BY DEF WritersInv, WritersTypeOK
  <2> QED BY <2>1 DEF WritersNext, WritePiece, PieceWritten, Finish, EndFlushed, AbortFile,
             SinkWrite, Drain, SinkEnd, SinkDestroy, Opened, DiskTakes, DiskFails, ErrorTold,
             StreamFinishes, StreamCloses, Flushed, Push
<1>7. rejected' \in BOOLEAN
  <2>1. rejected \in BOOLEAN
    BY DEF WritersInv, WritersTypeOK
  <2>2. CASE ErrorTold
    BY <2>2, Zenon DEF ErrorTold
  <2> QED BY <2>1, <2>2 DEF WritersNext, WritePiece, PieceWritten, Finish, EndFlushed, AbortFile,
             SinkWrite, Drain, SinkEnd, SinkDestroy, Opened, DiskTakes, DiskFails,
             StreamFinishes, StreamCloses, Flushed, Push
<1>8. stream' \in {"opening", "open", "failing", "failed", "finished", "closed"}
  BY DEF WritersInv, WritersTypeOK, WritersNext, WritePiece, PieceWritten, Finish, EndFlushed,
         AbortFile, SinkWrite, Drain, SinkEnd, SinkDestroy, Opened, DiskTakes, DiskFails, ErrorTold,
         StreamFinishes, StreamCloses, Flushed, Push
<1> QED BY <1>1, <1>2, <1>3, <1>4, <1>5, <1>6, <1>7, <1>8 DEF WritersTypeOK

(* The pieces stay in their order *)
LEMMA WritersOrderStep ==
    ASSUME WritersInv, WritersNext
    PROVE  ChunksInOrder' /\ FileInOrder'
<1> USE WritersAssumption
<1> USE DEF callVars, streamVars
<1>a. /\ given \in 0..MaxPieces + 1 /\ Passed \in Nat /\ compressor \in Pieces
      /\ Len(compressor) \in Nat /\ Len(compressor) <= given
      /\ chunks \in Seq(Pieces) /\ Len(chunks) \in Nat
      /\ buffer \in Pieces /\ Len(buffer) \in Nat
      /\ written \in Pieces /\ Len(written) \in Nat
      /\ Len(chunks) = 0 <=> chunks = <<>>
  BY Lengths
<1>b. ChunksInOrder /\ FileInOrder /\ StreamPlaced /\ CallPlaced /\ WritersTypeOK
  BY DEF WritersInv
<1>c. ChunksUpTo(chunks, Passed + 1) /\ Passed + 1 \in Nat
  BY <1>a, <1>b DEF ChunksInOrder
<1>1. CASE WritePiece
  <2>1. given <= MaxPieces
    BY <1>1, <1>a DEF WritePiece
  <2>2. Push(FALSE)
    BY <1>1 DEF WritePiece
  <2>3. chunks = <<>>
    BY <1>1, <1>a, <1>b DEF WritePiece, CallPlaced
  <2>4. FALSE \in BOOLEAN
    OBVIOUS
  <2> QED BY <2>1, <2>2, <2>3, <2>4, PushStep
<1>2. CASE PieceWritten \/ EndFlushed \/ AbortFile \/ SinkEnd \/ SinkDestroy \/ Opened
  <2>1. /\ UNCHANGED <<given, compressor, chunks, buffer, written, draining>>
        /\ \/ stream' = stream \/ stream' \notin {"opening", "open"}
           \/ (stream = "opening" /\ stream' = "open")
    BY <1>2 DEF PieceWritten, EndFlushed, AbortFile, SinkEnd, SinkDestroy, Opened, Flushed
  <2> QED BY <1>b, <2>1, ChunksUnchanged, FileUnchanged
<1>3. CASE Finish
  <2>1. chunks = <<>> /\ given <= MaxPieces
    BY <1>3, <1>a, <1>b DEF Finish, CallPlaced
  <2>2. CASE Push(TRUE)
    <3>1. TRUE \in BOOLEAN
      OBVIOUS
    <3> QED BY <2>1, <2>2, <3>1, PushStep
  <2>3. CASE UNCHANGED <<callVars, chunks, draining, rejected, streamVars>>
    BY <1>b, <2>3, ChunksUnchanged, FileUnchanged
  <2> QED BY <1>3, <2>2, <2>3 DEF Finish
<1>4. CASE SinkWrite
  <2>1. /\ UNCHANGED <<given, compressor, stream, written>> /\ chunks # <<>> /\ ~draining
        /\ Passed' = Passed
    BY <1>4 DEF SinkWrite, Passed
  <2>2. /\ ChunksUpTo(Tail(chunks), Passed + 1)
        /\ Len(chunks) > 0 /\ Head(chunks) = chunks[1] /\ GoodChunk(chunks[1])
        /\ Len(Tail(chunks)) > 0 => Tail(chunks)[1][1] = After(chunks[1])
        /\ Len(Tail(chunks)) = 0 => After(chunks[1]) = Passed + 1
    BY <1>c, <2>1, ChunksTail
  <2>3. CASE stream = "failed"
    <3>1. chunks' = <<>> /\ buffer' = buffer
      BY <1>4, <2>3 DEF SinkWrite
    <3>2. ChunksInOrder'
      BY <1>a, <1>b, <2>1, <3>1, NoChunks DEF ChunksInOrder
    <3> QED BY <1>b, <2>1, <2>3, <3>1, <3>2 DEF FileInOrder
  <2>4. CASE stream = "failing"
    <3>1. UNCHANGED <<chunks, buffer>>
      BY <1>4, <2>4 DEF SinkWrite
    <3> QED BY <1>b, <2>1, <2>4, <3>1, ChunksUnchanged DEF FileInOrder
  <2>5. CASE stream = "open"
    <3> DEFINE held == buffer \o chunks[1]
    <3>1. /\ buffer' = held
          /\ \/ chunks' = Tail(chunks) /\ draining' = draining
             \/ chunks' = chunks /\ draining' = TRUE
      BY <1>4, <2>2, <2>5 DEF SinkWrite
    <3>2. /\ Follow(buffer, Len(written)) /\ Follow(written, 0)
          /\ chunks[1][1] = Len(written) + Len(buffer) + 1
      BY <1>b, <2>1, <2>2, <2>5 DEF FileInOrder
    <3>3. chunks[1] \in Pieces /\ Len(chunks[1]) \in Nat /\ Follow(chunks[1], Len(written) + Len(buffer))
      <4>1. chunks[1] \in Pieces /\ Follow(chunks[1], chunks[1][1] - 1)
        BY <2>2 DEF GoodChunk
      <4>2. Len(chunks[1]) \in Nat
        BY <4>1 DEF Pieces
      <4>3. chunks[1][1] - 1 = Len(written) + Len(buffer)
        BY <1>a, <3>2
      <4> QED BY <4>1, <4>2, <4>3
    <3>4. held \in Pieces /\ Len(held) = Len(buffer) + Len(chunks[1]) /\ Follow(held, Len(written))
      BY <1>a, <3>2, <3>3, FollowConcat
    <3> HIDE DEF held
    <3>5. After(chunks[1]) = Len(written) + Len(held) + 1
      <4>1. After(chunks[1]) = chunks[1][1] + Len(chunks[1])
        BY DEF After
      <4>2. After(chunks[1]) = Len(written) + Len(buffer) + 1 + Len(chunks[1])
        BY <3>2, <4>1
      <4>3. Len(written) \in Nat /\ Len(buffer) \in Nat /\ Len(chunks[1]) \in Nat
        BY <1>a, <3>3
      <4>4. Len(written) + Len(buffer) + 1 + Len(chunks[1]) = Len(written) + (Len(buffer) + Len(chunks[1])) + 1
        <5> DEFINE w == Len(written)
                   b == Len(buffer)
                   c == Len(chunks[1])
        <5>1. w \in Nat /\ b \in Nat /\ c \in Nat
          BY <4>3
        <5> HIDE DEF w, b, c
        <5>2. w + b + 1 + c = w + (b + c) + 1
          BY <5>1
        <5> QED BY <5>2 DEF w, b, c
      <4>5. Len(held) = Len(buffer) + Len(chunks[1])
        BY <3>4
      <4> QED BY <4>2, <4>4, <4>5
    <3>6. CASE chunks' = Tail(chunks) /\ draining' = draining
      <4>1. ChunksInOrder'
        BY <1>b, <2>1, <2>2, <3>6 DEF ChunksInOrder
      <4>2. Len(Tail(chunks)) = 0 => Len(written) + Len(held) = Passed
        BY <1>a, <2>2, <3>4, <3>5
      <4>3. Len(Tail(chunks)) > 0 => Tail(chunks)[1][1] = Len(written) + Len(held) + 1
        BY <2>2, <3>5
      <4>4. FileInOrder'
        BY <1>a, <2>1, <3>1, <3>2, <3>4, <3>6, <4>2, <4>3 DEF FileInOrder
      <4> QED BY <4>1, <4>4
    <3>7. CASE chunks' = chunks /\ draining' = TRUE
      <4>1. ChunksInOrder'
        BY <1>b, <2>1, <3>7 DEF ChunksInOrder
      <4>2. FileInOrder'
        BY <1>a, <2>1, <2>2, <3>1, <3>2, <3>4, <3>5, <3>7 DEF FileInOrder
      <4> QED BY <4>1, <4>2
    <3> QED BY <3>1, <3>6, <3>7
  <2> QED BY <1>4, <2>3, <2>4, <2>5 DEF SinkWrite
<1>5. CASE Drain
  <2>1. /\ UNCHANGED <<given, compressor, stream, written, buffer>> /\ Len(chunks) > 0 /\ draining
        /\ chunks' = Tail(chunks) /\ ~draining' /\ Passed' = Passed /\ stream = "open"
        /\ buffer = <<>>
    BY <1>5, <1>b DEF Drain, StreamPlaced, Passed
  <2>2. chunks # <<>>
    BY <1>a, <2>1
  <2>3. /\ ChunksUpTo(Tail(chunks), Passed + 1)
        /\ Len(Tail(chunks)) > 0 => Tail(chunks)[1][1] = After(chunks[1])
        /\ Len(Tail(chunks)) = 0 => After(chunks[1]) = Passed + 1
    BY <1>c, <2>2, ChunksTail
  <2>4. After(chunks[1]) = Len(written) + Len(buffer) + 1
    BY <1>b, <2>1 DEF FileInOrder
  <2>5. ChunksInOrder'
    BY <1>b, <2>1, <2>3 DEF ChunksInOrder
  <2>6. Len(Tail(chunks)) = 0 => Len(written) + Len(buffer) = Passed
    BY <1>a, <2>3, <2>4
  <2>7. FileInOrder'
    BY <1>b, <2>1, <2>3, <2>4, <2>6 DEF FileInOrder
  <2> QED BY <2>5, <2>7
<1>6. CASE DiskTakes
  <2>1. /\ UNCHANGED <<given, compressor, chunks, draining, stream>> /\ stream = "open" /\ Passed' = Passed
    BY <1>6 DEF DiskTakes, Passed
  <2>2. PICK n \in 1..Len(buffer) : /\ written' = written \o SubSeq(buffer, 1, n)
                                    /\ buffer' = SubSeq(buffer, n + 1, Len(buffer))
    BY <1>6 DEF DiskTakes
  <2>3. n \in 0..Len(buffer) /\ Follow(buffer, Len(written)) /\ Follow(written, 0)
    BY <1>a, <1>b, <2>1 DEF FileInOrder
  <2>4. /\ SubSeq(buffer, 1, n) \in Pieces /\ Len(SubSeq(buffer, 1, n)) = n
        /\ Follow(SubSeq(buffer, 1, n), Len(written))
        /\ buffer' \in Pieces /\ Len(buffer') = Len(buffer) - n /\ Follow(buffer', Len(written) + n)
    BY <1>a, <2>2, <2>3, FollowSplit
  <2>5. written' \in Pieces /\ Len(written') = Len(written) + n /\ Follow(written', 0)
    <3>1. 0 + Len(written) = Len(written) /\ 0 \in Nat
      BY <1>a
    <3>2. Follow(SubSeq(buffer, 1, n), 0 + Len(written))
      BY <2>4, <3>1
    <3> QED BY <1>a, <2>2, <2>3, <2>4, <3>1, <3>2, FollowConcat
  <2>6. Len(written') + Len(buffer') = Len(written) + Len(buffer) /\ Follow(buffer', Len(written'))
    BY <1>a, <2>3, <2>4, <2>5
  <2>7. ChunksInOrder'
    BY <1>b, <2>1, ChunksUnchanged
  <2>8. FileInOrder'
    BY <1>b, <2>1, <2>4, <2>5, <2>6 DEF FileInOrder
  <2> QED BY <2>7, <2>8
<1>7. CASE DiskFails \/ StreamFinishes \/ StreamCloses
  <2>1. /\ UNCHANGED <<given, compressor, chunks, written>>
        /\ buffer' \in {buffer, <<>>} /\ stream' \notin {"opening", "open"}
    BY <1>7 DEF DiskFails, StreamFinishes, StreamCloses
  <2>2. <<>> \in Pieces
    BY DEF Pieces
  <2> QED BY <1>b, <2>1, <2>2, ChunksUnchanged DEF FileInOrder
<1>8. CASE ErrorTold
  <2>1. /\ UNCHANGED <<given, compressor, written, buffer>> /\ stream' = "failed"
        /\ chunks' = <<>> \/ chunks' = chunks
        /\ Passed' = Passed
    BY <1>8 DEF ErrorTold, Passed
  <2>2. ChunksInOrder'
    BY <1>a, <1>b, <1>c, <2>1, NoChunks DEF ChunksInOrder
  <2> QED BY <1>b, <2>1, <2>2 DEF FileInOrder
<1> QED BY <1>1, <1>2, <1>3, <1>4, <1>5, <1>6, <1>7, <1>8 DEF WritersNext

(* Who waits for the stream can still be told *)
LEMMA WritersPlacesStep ==
    ASSUME WritersInv, WritersNext
    PROVE  StreamPlaced' /\ CallPlaced'
<1> USE WritersAssumption
<1> USE DEF callVars, streamVars
<1>a. /\ given \in 0..MaxPieces + 1 /\ Passed \in Nat /\ compressor \in Pieces
      /\ Len(compressor) \in Nat /\ Len(compressor) <= given
      /\ chunks \in Seq(Pieces) /\ Len(chunks) \in Nat
      /\ buffer \in Pieces /\ Len(buffer) \in Nat
      /\ written \in Pieces /\ Len(written) \in Nat
      /\ Len(chunks) = 0 <=> chunks = <<>>
  BY Lengths
<1>b. /\ StreamPlaced /\ CallPlaced
      /\ stream \in {"opening", "open", "failing", "failed", "finished", "closed"}
  BY DEF WritersInv, WritersTypeOK
<1>c. Len(<<>>) = 0
  OBVIOUS
<1>1. CASE WritePiece
  <2>0. Push(FALSE)
    BY <1>1 DEF WritePiece
  <2>1. given < MaxPieces /\ chunks = <<>> /\ writerCall' = "write"
    BY <1>1, <1>a, <1>b DEF WritePiece, CallPlaced
  <2>2. given <= MaxPieces /\ FALSE \in BOOLEAN
    BY <1>a, <2>1
  <2>3. FALSE \/ fileFormat = "csv" => Len(compressor') = 0
    BY <2>0, <2>1, <2>2, PushStep
  <2>4. /\ UNCHANGED <<fileFormat, draining, rejected, stream, streamEnded, buffer, written>>
        /\ given' = given + 1
    BY <2>0 DEF Push
  <2>5. StreamPlaced'
    BY <1>1, <1>a, <1>b, <2>1, <2>4 DEF StreamPlaced, CallPlaced, WritePiece
  <2>6. CallPlaced'
    BY <1>a, <1>b, <2>1, <2>3, <2>4 DEF CallPlaced
  <2> QED BY <2>5, <2>6
<1>2. CASE PieceWritten
  BY <1>2, <1>a, <1>b, <1>c DEF PieceWritten, Flushed, StreamPlaced, CallPlaced
<1>3. CASE Finish
  <2>1. chunks = <<>> /\ given <= MaxPieces /\ writerCall = "ready" /\ TRUE \in BOOLEAN
    BY <1>3, <1>a, <1>b DEF Finish, CallPlaced
  <2>2. CASE writerCall' = "flush" /\ Push(TRUE)
    <3>1. Len(compressor') = 0
      BY <2>1, <2>2, PushStep
    <3>2. UNCHANGED <<fileFormat, draining, rejected, stream, streamEnded, buffer, written>>
      BY <2>2 DEF Push
    <3>3. StreamPlaced'
      BY <1>a, <1>b, <2>1, <2>2, <3>2 DEF StreamPlaced, CallPlaced
    <3>4. CallPlaced'
      BY <1>a, <1>b, <2>1, <2>2, <3>1, <3>2 DEF CallPlaced
    <3> QED BY <3>3, <3>4
  <2>3. CASE /\ fileFormat = "csv" /\ writerCall' = "end"
             /\ UNCHANGED <<callVars, chunks, draining, rejected, streamVars>>
    BY <1>a, <1>b, <2>1, <2>3 DEF StreamPlaced, CallPlaced
  <2> QED BY <1>3, <2>2, <2>3 DEF Finish
<1>4. CASE EndFlushed
  BY <1>4, <1>a, <1>b, <1>c DEF EndFlushed, Flushed, StreamPlaced, CallPlaced
<1>5. CASE AbortFile
  BY <1>5, <1>a, <1>b, <1>c DEF AbortFile, StreamPlaced, CallPlaced
<1>6. CASE SinkWrite
  BY <1>6, <1>a, <1>b, <1>c DEF SinkWrite, StreamPlaced, CallPlaced
<1>7. CASE Drain
  BY <1>7, <1>a, <1>b, <1>c DEF Drain, StreamPlaced, CallPlaced
<1>8. CASE SinkEnd
  BY <1>8, <1>a, <1>b, <1>c DEF SinkEnd, StreamPlaced, CallPlaced
<1>9. CASE SinkDestroy
  BY <1>9, <1>a, <1>b, <1>c DEF SinkDestroy, StreamPlaced, CallPlaced
<1>10. CASE Opened
  BY <1>10, <1>a, <1>b, <1>c DEF Opened, StreamPlaced, CallPlaced
<1>11. CASE DiskTakes
  BY <1>11, <1>a, <1>b, <1>c DEF DiskTakes, StreamPlaced, CallPlaced
<1>12. CASE DiskFails
  BY <1>12, <1>a, <1>b, <1>c DEF DiskFails, StreamPlaced, CallPlaced
<1>13. CASE ErrorTold
  BY <1>13, <1>a, <1>b, <1>c DEF ErrorTold, StreamPlaced, CallPlaced
<1>14. CASE StreamFinishes
  <2>1. writerCall = "end" /\ Len(chunks) = 0 /\ Len(compressor) = 0 /\ Len(buffer) = 0 /\ stream = "open"
    BY <1>14, <1>a, <1>b, <1>c DEF StreamFinishes, StreamPlaced, CallPlaced
  <2>2. Len(written) = given
    <3>1. Len(written) + Len(buffer) = Passed
      BY <2>1 DEF WritersInv, FileInOrder
    <3> QED BY <1>a, <2>1, <3>1 DEF Passed
  <2>3. /\ stream' = "finished" /\ writerCall' = "finished" /\ ~draining
        /\ UNCHANGED <<callVars, chunks, draining, rejected, streamEnded, buffer, written>>
    BY <1>14, <1>b, <2>1 DEF StreamFinishes, StreamPlaced
  <2>4. StreamPlaced'
    BY <1>b, <2>1, <2>3 DEF StreamPlaced
  <2>5. CallPlaced'
    BY <1>b, <2>1, <2>2, <2>3 DEF CallPlaced
  <2> QED BY <2>4, <2>5
<1>15. CASE StreamCloses
  BY <1>15, <1>a, <1>b, <1>c DEF StreamCloses, StreamPlaced, CallPlaced
<1> QED BY <1>1, <1>2, <1>3, <1>4, <1>5, <1>6, <1>7, <1>8, <1>9, <1>10, <1>11, <1>12, <1>13,
           <1>14, <1>15 DEF WritersNext

(* However the stream buffers, finishes or fails, the file holds the pieces in  *)
(* their order, whole when the writer is finished, and who waits is told.       *)
THEOREM FilesAreWhole == WritersSpec => []FileIsWhole
<1>1. WritersInv /\ [WritersNext]_writerVars => WritersInv'
  <2> SUFFICES ASSUME WritersInv, [WritersNext]_writerVars PROVE WritersInv'
    OBVIOUS
  <2>1. CASE WritersNext
    BY <2>1, WritersOrderStep, WritersTypeStep, WritersPlacesStep DEF WritersInv
  <2>2. CASE UNCHANGED writerVars
    <3>1. WritersTypeOK'
      BY <2>2 DEF WritersInv, WritersTypeOK, writerVars
    <3>2. ChunksInOrder' /\ FileInOrder'
      BY <2>2, ChunksUnchanged, FileUnchanged DEF WritersInv, writerVars
    <3>3. StreamPlaced' /\ CallPlaced'
      BY <2>2 DEF WritersInv, StreamPlaced, CallPlaced, writerVars
    <3> QED BY <3>1, <3>2, <3>3 DEF WritersInv
  <2> QED BY <2>1, <2>2
<1> QED BY <1>1, WritersInitInv, WritersInvariant, PTL DEF WritersSpec

-----------------------------------------------------------------------------
(* The rate limiter (RateLimiter), whose constants are used throughout         *)

USE WindowAssumption, LimitsAssumption, NoWindowAssumption

Log == Seq([at : Nat, start : Nat])
Win == [count : Nat, start : Nat]

(* The last w.count calls of the log are the ones window w has counted, and    *)
(* the ones before belong to windows that were over when it began.             *)
CountsAllowed(log, w) ==
    /\ w.count <= Len(log)
    /\ \A i \in 1..Len(log) :
          IF i <= Len(log) - w.count THEN log[i].start + Window <= w.start ELSE log[i].start = w.start

WindowsCount ==
    \A k \in Keys :
        IF windows[k] = NoWindow
        THEN \A i \in 1..Len(allowed[k]) : allowed[k][i].start + Window <= now
        ELSE windows[k].start <= now /\ CountsAllowed(allowed[k], windows[k])

(* A window lets maxRequests calls through at most *)
OncePerWindow ==
    \A k \in Keys : \A i, j \in 1..Len(allowed[k]) :
        j = i + maxRequests => allowed[k][i].start + Window <= allowed[k][j].start

InsideWindow ==
    \A k \in Keys : \A i \in 1..Len(allowed[k]) :
        /\ allowed[k][i].start <= allowed[k][i].at
        /\ allowed[k][i].at < allowed[k][i].start + Window

LimiterInv == LimiterTypeOK /\ WindowsCount /\ OncePerWindow /\ InsideWindow

-----------------------------------------------------------------------------

LEMMA LimiterInitInv == LimiterInit => LimiterInv
<1> SUFFICES ASSUME LimiterInit PROVE LimiterInv
    OBVIOUS
<1>1. LimiterTypeOK
    BY DEF LimiterInit, LimiterTypeOK, NeverRefused
<1>2. \A k \in Keys : Len(allowed[k]) = 0 /\ windows[k] = NoWindow
    BY DEF LimiterInit
<1> QED
    BY <1>1, <1>2 DEF LimiterInv, WindowsCount, OncePerWindow, InsideWindow

LEMMA LogEntry ==
    ASSUME NEW log \in Log, NEW i \in 1..Len(log)
    PROVE  log[i].at \in Nat /\ log[i].start \in Nat
<1>1. log[i] \in [at : Nat, start : Nat]
    BY ElementOfSeq DEF Log
<1> QED
    BY <1>1

(* What the window that counts a call made now knows of the log *)
LEMMA CurrentCounts ==
    ASSUME LimiterInv, NEW k \in Keys
    PROVE  /\ Current(k) \in Win
           /\ Current(k).start <= now /\ now < Current(k).start + Window
           /\ CountsAllowed(allowed[k], Current(k))
<1> DEFINE log == allowed[k]
<1>1. log \in Log /\ now \in Nat /\ Len(log) \in Nat
    BY DEF LimiterInv, LimiterTypeOK, Log
<1>2. \A i \in 1..Len(log) : log[i].start \in Nat
    BY <1>1, LogEntry
<1>3. CASE Over(k)
    <2>1. Current(k) = [count |-> 0, start |-> now]
        BY <1>3 DEF Current
    <2>2. \A i \in 1..Len(log) : log[i].start + Window <= now
        <3>1. CASE windows[k] = NoWindow
            BY <3>1 DEF LimiterInv, WindowsCount
        <3>2. CASE windows[k] # NoWindow
            <4>1. windows[k] \in Win /\ windows[k].start + Window <= now
                BY <1>3, <3>2 DEF Over, LimiterInv, LimiterTypeOK, Win
            <4>2. CountsAllowed(log, windows[k])
                BY <3>2 DEF LimiterInv, WindowsCount
            <4> QED
                BY <1>1, <1>2, <4>1, <4>2 DEF CountsAllowed, Win
        <3> QED
            BY <3>1, <3>2
    <2>3. CountsAllowed(log, Current(k))
        BY <1>1, <2>1, <2>2 DEF CountsAllowed
    <2> QED
        BY <1>1, <2>1, <2>3 DEF Win
<1>4. CASE ~Over(k)
    <2>1. windows[k] # NoWindow /\ Current(k) = windows[k]
        BY <1>4 DEF Over, Current
    <2>2. windows[k] \in Win
        BY <2>1 DEF LimiterInv, LimiterTypeOK, Win
    <2>3. now < windows[k].start + Window
        BY <1>1, <1>4, <2>2 DEF Over, Win
    <2>4. windows[k].start <= now /\ CountsAllowed(log, windows[k])
        BY <2>1 DEF LimiterInv, WindowsCount
    <2> QED
        BY <2>1, <2>2, <2>3, <2>4
<1> QED
    BY <1>3, <1>4

LEMMA LimiterRefuse ==
    ASSUME LimiterInv, NEW k \in Keys, Refuse(k)
    PROVE  LimiterInv'
<1>1. /\ Current(k) \in Win /\ Current(k).start <= now
      /\ CountsAllowed(allowed[k], Current(k))
    BY CurrentCounts
<1>2. RetryAfter(k) \in Nat
    <2>1. Current(k).start + Window - now \in Nat
        BY <1>1, CurrentCounts DEF LimiterInv, LimiterTypeOK, Win
    <2>2. \A x \in Nat : (x + Second - 1) \div Second \in Nat
        BY SMT
    <2>3. \A x, y \in Nat : x * y \in Nat
        BY SMT
    <2> QED
        BY <2>1, <2>2, <2>3 DEF RetryAfter
<1>3. /\ windows' = [windows EXCEPT ![k] = Current(k)]
      /\ UNCHANGED <<now, maxRequests, allowed>>
    BY DEF Refuse
<1>4. refused' \in [Keys -> [at : Nat, until : Nat, since : Nat]]
    BY <1>2 DEF Refuse, LimiterInv, LimiterTypeOK
<1>5. LimiterTypeOK'
    BY <1>1, <1>3, <1>4 DEF LimiterInv, LimiterTypeOK, Win
<1>6. windows'[k] = Current(k) /\ \A l \in Keys \ {k} : windows'[l] = windows[l]
    BY <1>3 DEF LimiterInv, LimiterTypeOK
<1>7. windows'[k] # NoWindow
    BY <1>1, <1>6 DEF Win
<1>8. WindowsCount'
    <2> SUFFICES ASSUME NEW l \in Keys
        PROVE  IF windows'[l] = NoWindow
               THEN \A i \in 1..Len(allowed[l]) : allowed[l][i].start + Window <= now
               ELSE windows'[l].start <= now /\ CountsAllowed(allowed[l], windows'[l])
        BY <1>3 DEF WindowsCount, CountsAllowed
    <2> QED
        BY <1>1, <1>6, <1>7 DEF LimiterInv, WindowsCount
<1> QED
    BY <1>3, <1>5, <1>8 DEF LimiterInv, OncePerWindow, InsideWindow

LEMMA LimiterAllow ==
    ASSUME LimiterInv, NEW k \in Keys, Allow(k)
    PROVE  LimiterInv'
<1> DEFINE log == allowed[k]
           n == Len(log)
           c == Current(k)
           entry == [at |-> now, start |-> c.start]
           log2 == Append(log, entry)
<1>1. /\ c \in Win /\ c.start <= now /\ now < c.start + Window
      /\ CountsAllowed(log, c)
    BY CurrentCounts
<1>2. log \in Log /\ n \in Nat /\ now \in Nat /\ maxRequests \in Nat
    BY DEF LimiterInv, LimiterTypeOK, Log
<1>3. /\ windows' = [windows EXCEPT ![k] = [c EXCEPT !.count = @ + 1]]
      /\ allowed' = [allowed EXCEPT ![k] = log2]
      /\ c.count < maxRequests
      /\ now' = now /\ maxRequests' = maxRequests
    BY DEF Allow
<1>4. entry \in [at : Nat, start : Nat]
    BY <1>1, <1>2 DEF Win
<1>5. /\ log2 \in Log /\ Len(log2) = n + 1 /\ log2[n + 1] = entry
      /\ \A i \in 1..n : log2[i] = log[i]
    BY <1>2, <1>4 DEF Log
<1>6. /\ allowed'[k] = log2
      /\ \A l \in Keys \ {k} : allowed'[l] = allowed[l] /\ windows'[l] = windows[l]
      /\ windows'[k] = [count |-> c.count + 1, start |-> c.start]
    BY <1>1, <1>3 DEF LimiterInv, LimiterTypeOK, Win
<1> HIDE DEF c, entry, log2
<1>7. LimiterTypeOK'
    <2>1. refused' \in [Keys -> [at : Nat, until : Nat, since : Nat]]
        <3>1. refused[k] \in [at : Nat, until : Nat, since : Nat]
            BY DEF LimiterInv, LimiterTypeOK
        <3>2. [refused[k] EXCEPT !.since = @ + 1] \in [at : Nat, until : Nat, since : Nat]
            BY <3>1
        <3>3. refused' = [refused EXCEPT ![k] = [refused[k] EXCEPT !.since = @ + 1]]
            BY DEF Allow
        <3> QED
            BY <3>2, <3>3 DEF LimiterInv, LimiterTypeOK
    <2>2. windows'[k] \in Win
        BY <1>1, <1>6 DEF Win
    <2>3. windows' \in [Keys -> Win \cup {NoWindow}]
        BY <1>3, <1>6, <2>2 DEF LimiterInv, LimiterTypeOK, Win
    <2>4. allowed' \in [Keys -> Log]
        BY <1>3, <1>5 DEF LimiterInv, LimiterTypeOK, Log
    <2> QED
        BY <1>3, <2>1, <2>3, <2>4 DEF LimiterInv, LimiterTypeOK, Win, Log
<1>8. \A i \in 1..n : log[i].start \in Nat
    BY <1>2, LogEntry
<1>9. entry.start = c.start /\ entry.at = now /\ c.count \in Nat /\ c.start \in Nat
    BY <1>1 DEF entry, Win
<1>10. windows'[k] # NoWindow /\ windows'[k].count = c.count + 1 /\ windows'[k].start = c.start
    BY <1>6, <1>9
<1>11. CountsAllowed(log2, windows'[k])
    <2>1. windows'[k].count <= Len(log2)
        BY <1>1, <1>2, <1>5, <1>9, <1>10 DEF CountsAllowed
    <2>2. ASSUME NEW i \in 1..(n + 1)
          PROVE  IF i <= (n + 1) - (c.count + 1) THEN log2[i].start + Window <= c.start
                 ELSE log2[i].start = c.start
        <3>1. CASE i = n + 1
            BY <1>2, <1>5, <1>9, <3>1
        <3>2. CASE i \in 1..n
            <4>1. log2[i] = log[i]
                BY <1>5, <3>2
            <4>2. (i <= (n + 1) - (c.count + 1)) <=> (i <= n - c.count)
                BY <1>2, <1>9, <3>2
            <4> QED
                BY <1>1, <3>2, <4>1, <4>2 DEF CountsAllowed
        <3> QED
            BY <1>2, <3>1, <3>2
    <2> QED
        BY <1>5, <1>10, <2>1, <2>2 DEF CountsAllowed
<1>12. WindowsCount'
    <2> SUFFICES ASSUME NEW l \in Keys
        PROVE  IF windows'[l] = NoWindow
               THEN \A i \in 1..Len(allowed'[l]) : allowed'[l][i].start + Window <= now
               ELSE windows'[l].start <= now /\ CountsAllowed(allowed'[l], windows'[l])
        BY <1>3 DEF WindowsCount, CountsAllowed
    <2>1. CASE l = k
        BY <1>1, <1>6, <1>10, <1>11, <2>1
    <2>2. CASE l # k
        BY <1>6, <2>2 DEF LimiterInv, WindowsCount
    <2> QED
        BY <2>1, <2>2
<1>13. OncePerWindow'
    <2> SUFFICES ASSUME NEW l \in Keys, NEW i \in 1..Len(allowed'[l]), NEW j \in 1..Len(allowed'[l]),
                        j = i + maxRequests
        PROVE  allowed'[l][i].start + Window <= allowed'[l][j].start
        BY <1>3 DEF OncePerWindow
    <2>1. CASE l # k
        BY <1>6, <2>1 DEF LimiterInv, OncePerWindow
    <2>2. CASE l = k /\ j \in 1..n
        <3>1. i \in 1..n /\ log2[i] = log[i] /\ log2[j] = log[j]
            BY <1>2, <1>5, <1>6, <2>2
        <3> QED
            BY <1>6, <2>2, <3>1 DEF LimiterInv, OncePerWindow
    <2>3. CASE l = k /\ j = n + 1
        <3>1. i \in 1..n /\ i <= n - c.count
            BY <1>2, <1>3, <1>5, <1>6, <1>9, <2>3
        <3>2. log[i].start + Window <= c.start
            BY <1>1, <3>1 DEF CountsAllowed
        <3> QED
            BY <1>5, <1>6, <1>9, <2>3, <3>1, <3>2
    <2> QED
        BY <1>2, <1>5, <1>6, <2>1, <2>2, <2>3
<1>14. InsideWindow'
    <2> SUFFICES ASSUME NEW l \in Keys, NEW i \in 1..Len(allowed'[l])
        PROVE  /\ allowed'[l][i].start <= allowed'[l][i].at
               /\ allowed'[l][i].at < allowed'[l][i].start + Window
        BY DEF InsideWindow
    <2>1. CASE l # k
        BY <1>6, <2>1 DEF LimiterInv, InsideWindow
    <2>2. CASE l = k /\ i \in 1..n
        BY <1>5, <1>6, <2>2 DEF LimiterInv, InsideWindow
    <2>3. CASE l = k /\ i = n + 1
        BY <1>1, <1>5, <1>6, <1>9, <2>3
    <2> QED
        BY <1>2, <1>5, <1>6, <2>1, <2>2, <2>3
<1> QED
    BY <1>7, <1>12, <1>13, <1>14 DEF LimiterInv

LEMMA LimiterCleanup ==
    ASSUME LimiterInv, Cleanup
    PROVE  LimiterInv'
<1>1. /\ windows' = [k \in Keys |-> IF Over(k) THEN NoWindow ELSE windows[k]]
      /\ UNCHANGED <<now, maxRequests, allowed, refused>>
    BY DEF Cleanup
<1>2. LimiterTypeOK'
    BY <1>1 DEF LimiterInv, LimiterTypeOK
<1>3. WindowsCount'
    <2> SUFFICES ASSUME NEW k \in Keys
        PROVE  IF windows'[k] = NoWindow
               THEN \A i \in 1..Len(allowed[k]) : allowed[k][i].start + Window <= now
               ELSE windows'[k].start <= now /\ CountsAllowed(allowed[k], windows'[k])
        BY <1>1 DEF WindowsCount, CountsAllowed
    <2>1. CASE Over(k)
        <3>1. Current(k) = [count |-> 0, start |-> now]
            BY <2>1 DEF Current
        <3>2. CountsAllowed(allowed[k], [count |-> 0, start |-> now]) /\ Len(allowed[k]) \in Nat
            BY <3>1, CurrentCounts DEF LimiterInv, LimiterTypeOK
        <3>3. windows'[k] = NoWindow
            BY <1>1, <2>1
        <3> QED
            BY <3>2, <3>3 DEF CountsAllowed
    <2>2. CASE ~Over(k)
        BY <1>1, <2>2 DEF Over, LimiterInv, WindowsCount
    <2> QED
        BY <2>1, <2>2
<1> QED
    BY <1>1, <1>2, <1>3 DEF LimiterInv, OncePerWindow, InsideWindow

LEMMA LimiterTick ==
    ASSUME LimiterInv, Tick
    PROVE  LimiterInv'
<1>1. now \in Nat /\ now' = now + 1 /\ UNCHANGED <<maxRequests, windows, allowed, refused>>
    BY DEF Tick, LimiterInv, LimiterTypeOK
<1>2. LimiterTypeOK'
    BY <1>1 DEF LimiterInv, LimiterTypeOK
<1>3. WindowsCount'
    <2> SUFFICES ASSUME NEW k \in Keys
        PROVE  IF windows[k] = NoWindow
               THEN \A i \in 1..Len(allowed[k]) : allowed[k][i].start + Window <= now + 1
               ELSE windows[k].start <= now + 1 /\ CountsAllowed(allowed[k], windows[k])
        BY <1>1 DEF WindowsCount, CountsAllowed
    <2>1. allowed[k] \in Seq([at : Nat, start : Nat])
        BY DEF LimiterInv, LimiterTypeOK
    <2>2. \A i \in 1..Len(allowed[k]) : allowed[k][i].start \in Nat
        BY <2>1, LogEntry DEF Log
    <2>3. windows[k] # NoWindow => windows[k].start \in Nat
        BY DEF LimiterInv, LimiterTypeOK
    <2> QED
        BY <1>1, <2>2, <2>3 DEF LimiterInv, WindowsCount
<1> QED
    BY <1>1, <1>2, <1>3 DEF LimiterInv, OncePerWindow, InsideWindow

LEMMA LimiterStep == LimiterInv /\ [LimiterNext]_limiterVars => LimiterInv'
<1> SUFFICES ASSUME LimiterInv, [LimiterNext]_limiterVars PROVE LimiterInv'
    OBVIOUS
<1>1. ASSUME NEW k \in Keys, CheckLimit(k) PROVE LimiterInv'
    BY <1>1, LimiterRefuse, LimiterAllow DEF CheckLimit
<1>2. CASE UNCHANGED limiterVars
    BY <1>2 DEF limiterVars, LimiterInv, LimiterTypeOK, WindowsCount, CountsAllowed, OncePerWindow, InsideWindow
<1> QED
    BY <1>1, <1>2, LimiterCleanup, LimiterTick DEF LimiterNext

(* Two windows lie between a call and the 2 * maxRequests-th after it *)
LEMMA TwoWindows == LimiterInv => TwicePerWindow
<1> SUFFICES ASSUME LimiterInv, NEW k \in Keys,
                    NEW i \in 1..Len(allowed[k]), NEW j \in 1..Len(allowed[k]), j = i + 2 * maxRequests
             PROVE  allowed[k][j].at >= allowed[k][i].at + Window
    BY DEF TwicePerWindow
<1> DEFINE log == allowed[k]
           m == i + maxRequests
<1>1. log \in Log /\ Len(log) \in Nat /\ maxRequests \in Nat
    BY DEF LimiterInv, LimiterTypeOK, Log
<1>2. m \in 1..Len(log) /\ j = m + maxRequests
    BY <1>1
<1>3. \A l \in 1..Len(log) : log[l].at \in Nat /\ log[l].start \in Nat
    BY <1>1, LogEntry
<1>4. log[i].start + Window <= log[m].start /\ log[m].start + Window <= log[j].start
    BY <1>2 DEF LimiterInv, OncePerWindow
<1>5. log[i].at < log[i].start + Window /\ log[j].start <= log[j].at
    BY DEF LimiterInv, InsideWindow
<1>6. /\ log[i].at \in Nat /\ log[i].start \in Nat /\ log[m].start \in Nat
      /\ log[j].at \in Nat /\ log[j].start \in Nat
    BY <1>2, <1>3
<1>7. log[j].at >= log[i].at + Window
    <2>1. \A a, b, c, d, e \in Nat :
              b + Window <= c /\ c + Window <= d /\ a < b + Window /\ d <= e => e >= a + Window
        OBVIOUS
    <2> QED
        BY <1>4, <1>5, <1>6, <2>1
<1> QED
    BY <1>7

(* For any window and limit, however calls, cleanups and the clock interleave: *)
(* of 2 * maxRequests + 1 calls let through in a row, the last comes at least  *)
(* a window after the first.                                                   *)
THEOREM LimitHolds == LimiterSpec => []TwicePerWindow
BY LimiterInitInv, LimiterStep, TwoWindows, PTL DEF LimiterSpec

-----------------------------------------------------------------------------

(* Since a refusal the window is one that will be over when the time it told    *)
(* has passed, or one that counted no more calls than were let through since    *)
WindowSinceRefusal ==
    \A k \in Keys : refused[k].until > 0 /\ windows[k] # NoWindow =>
        \/ windows[k].start + Window <= refused[k].until
        \/ windows[k].count <= refused[k].since

LEMMA RoundedUp ==
    ASSUME NEW left \in Nat
    PROVE  Second * ((left + Second - 1) \div Second) \in Nat
           /\ Second * ((left + Second - 1) \div Second) >= left
<1> DEFINE n == left + Second - 1
<1>1. n \in Nat /\ Second \in Nat /\ Second > 0
    OBVIOUS
<1> HIDE DEF n
<1>2. n \div Second \in Nat /\ n = Second * (n \div Second) + (n % Second) /\ n % Second \in 0..Second - 1
    BY <1>1
<1>3. Second * (n \div Second) \in Nat
    <2>1. \A x, y \in Nat : x * y \in Nat
        BY SMT
    <2> QED
        BY <1>1, <1>2, <2>1
<1> QED
    BY <1>1, <1>2, <1>3 DEF n

LEMMA SinceRefusalStep ==
    ASSUME LimiterInv, WindowSinceRefusal, [LimiterNext]_limiterVars
    PROVE  WindowSinceRefusal'
<1>t. /\ refused \in [Keys -> [at : Nat, until : Nat, since : Nat]] /\ now \in Nat
      /\ windows \in [Keys -> Win \cup {NoWindow}]
    BY DEF LimiterInv, LimiterTypeOK, Win
<1>1. ASSUME NEW k \in Keys, Refuse(k) PROVE WindowSinceRefusal'
    <2>1. Current(k) \in Win /\ Current(k).start <= now /\ now < Current(k).start + Window
        BY CurrentCounts
    <2>2. Current(k).start + Window <= now + RetryAfter(k) /\ RetryAfter(k) \in Nat
        <3>1. Current(k).start + Window - now \in Nat
            BY <1>t, <2>1 DEF Win
        <3>2. RetryAfter(k) \in Nat /\ RetryAfter(k) >= Current(k).start + Window - now
            BY <3>1, RoundedUp DEF RetryAfter
        <3> QED
            BY <1>t, <2>1, <3>2 DEF Win
    <2> PICK c \in Win : c = Current(k)
        BY <2>1
    <2> PICK u \in Nat : u = now + RetryAfter(k)
        BY <1>t, <2>2
    <2>3. windows' = [windows EXCEPT ![k] = c] /\ c.start + Window <= u
          /\ refused' = [refused EXCEPT ![k] = [at |-> now, until |-> u, since |-> 0]]
        BY <1>1, <2>2 DEF Refuse
    <2> QED
        BY <1>t, <2>3 DEF WindowSinceRefusal
<1>2. ASSUME NEW k \in Keys, Allow(k) PROVE WindowSinceRefusal'
    <2>1. Current(k) \in Win
        BY CurrentCounts
    <2> PICK c \in Win : c = Current(k)
        BY <2>1
    <2> DEFINE w == [c EXCEPT !.count = @ + 1]
               r == [refused[k] EXCEPT !.since = @ + 1]
    <2>2. windows' = [windows EXCEPT ![k] = w] /\ refused' = [refused EXCEPT ![k] = r]
        BY <1>2, <1>t DEF Allow
    <2>3. /\ w.start = c.start /\ w.count = c.count + 1 /\ c.count \in Nat /\ c.start \in Nat
          /\ refused[k].since \in Nat /\ r.since = refused[k].since + 1
          /\ r.until = refused[k].until /\ r.until \in Nat
        BY <1>t DEF Win
    <2>4. r.until > 0 => w.start + Window <= r.until \/ w.count <= r.since
        <3>1. CASE Over(k)
            <4>1. c.count = 0
                BY <3>1 DEF Current
            <4> QED
                BY <2>3, <4>1
        <3>2. CASE ~Over(k)
            <4>1. windows[k] # NoWindow /\ c = windows[k]
                BY <3>2 DEF Current, Over
            <4> QED
                BY <2>3, <4>1 DEF WindowSinceRefusal
        <3> QED
            BY <3>1, <3>2
    <2> HIDE DEF w, r
    <2> QED
        BY <1>t, <2>2, <2>4 DEF WindowSinceRefusal
<1>3. CASE Cleanup
    BY <1>3, <1>t DEF Cleanup, WindowSinceRefusal
<1>4. CASE Tick
    BY <1>4 DEF Tick, WindowSinceRefusal
<1>5. CASE UNCHANGED limiterVars
    BY <1>5 DEF limiterVars, WindowSinceRefusal
<1> QED
    BY <1>1, <1>2, <1>3, <1>4, <1>5 DEF LimiterNext, CheckLimit

(* A refusal after the time that the last one told is one of a window that      *)
(* counted calls which were let through since then                             *)
LEMMA RefusedAgain ==
    ASSUME LimiterInv, WindowSinceRefusal, [LimiterNext]_limiterVars,
           NEW k \in Keys, refused'[k].at > refused[k].at, refused[k].until > 0, now >= refused[k].until
    PROVE  refused[k].since >= maxRequests
<1>t. /\ refused \in [Keys -> [at : Nat, until : Nat, since : Nat]] /\ now \in Nat
      /\ windows \in [Keys -> Win \cup {NoWindow}] /\ maxRequests \in Nat
    BY DEF LimiterInv, LimiterTypeOK, Win
<1>r. refused[k].since \in Nat /\ refused[k].until \in Nat /\ refused[k].at \in Nat
    BY <1>t
<1>1. Refuse(k)
    <2>1. ASSUME NEW j \in Keys, Allow(j) PROVE FALSE
        <3> DEFINE r == [refused[j] EXCEPT !.since = @ + 1]
        <3>1. refused' = [refused EXCEPT ![j] = r] /\ r.at = refused[j].at
            BY <2>1, <1>t DEF Allow
        <3> HIDE DEF r
        <3> QED
            BY <1>t, <1>r, <3>1
    <2>2. ASSUME NEW j \in Keys, Refuse(j), j # k PROVE FALSE
        BY <2>2, <1>t, <1>r DEF Refuse
    <2>3. refused' # refused
        BY <1>r
    <2> QED
        BY <2>1, <2>2, <2>3 DEF LimiterNext, CheckLimit, Cleanup, Tick, limiterVars
<1>2. Current(k).count >= maxRequests
    BY <1>1 DEF Refuse
<1>3. CASE Over(k)
    BY <1>2, <1>3, <1>t, <1>r DEF Current
<1>4. CASE ~Over(k)
    <2>1. windows[k] # NoWindow /\ Current(k) = windows[k] /\ now < windows[k].start + Window
          /\ windows[k].start \in Nat /\ windows[k].count \in Nat
        BY <1>4, <1>t DEF Over, Current, Win
    <2>2. windows[k].count <= refused[k].since
        BY <1>t, <1>r, <2>1 DEF WindowSinceRefusal
    <2> QED
        BY <1>2, <1>t, <1>r, <2>1, <2>2
<1> QED
    BY <1>3, <1>4

(* Whoever waits as long as a refusal said is refused again only when the      *)
(* limit was used up by calls let through meanwhile, for any window, limit and *)
(* rounding of the seconds.                                                    *)
THEOREM RefusalsTellTheTruth == LimiterSpec => RetryIsAnswered
<1>1. LimiterInit => WindowSinceRefusal
    BY DEF LimiterInit, WindowSinceRefusal
<1>2. LimiterInv /\ WindowSinceRefusal /\ [LimiterNext]_limiterVars =>
        [\A k \in Keys :
          refused'[k].at > refused[k].at /\ refused[k].until > 0 /\ now >= refused[k].until
              => refused[k].since >= maxRequests]_limiterVars
    BY RefusedAgain
<1>3. LimiterInv /\ WindowSinceRefusal /\ [LimiterNext]_limiterVars => WindowSinceRefusal'
    BY SinceRefusalStep
<1> QED
    BY <1>1, <1>2, <1>3, LimiterInitInv, LimiterStep, PTL DEF LimiterSpec, RetryIsAnswered

-----------------------------------------------------------------------------
(* The files of business tools (ToolFiles)                                     *)

(* The loader is a loop over the files, and what it has read is a recursive    *)
(* function of how many it has read. Facts about it go by induction: the       *)
(* library's principle takes a predicate, so the one used here is about sets.  *)

LEMMA NaturalOrder == IsWellFoundedOn({p \in Nat \X Nat : p[1] < p[2]}, Nat)
<1>1. OpToRel(<, Nat) = {p \in Nat \X Nat : p[1] < p[2]}
    BY Zenon DEF OpToRel
<1> QED BY <1>1, NatLessThanWellFounded

LEMMA LeastNumber ==
    ASSUME NEW T, T \subseteq Nat, T # {}
    PROVE  \E n \in T : \A m \in T : n <= m
<1> DEFINE below == {p \in Nat \X Nat : p[1] < p[2]}
<1>1. PICK n \in T : \A m \in T : <<m, n>> \notin below
    <2> HIDE DEF below
    <2> QED BY NaturalOrder, WFMin DEF below
<1>2. ASSUME NEW m \in T
      PROVE  n <= m
    <2>1. <<m, n>> \in Nat \X Nat
        OBVIOUS
    <2> QED BY <1>1, <2>1
<1> QED BY <1>2

LEMMA FirstIsOne ==
    ASSUME NEW T, T \subseteq Nat, T # {}
    PROVE  First(T) \in T
<1>1. \E n \in T : \A m \in T : n <= m
    BY LeastNumber
<1> QED BY <1>1 DEF First

(* A set that holds 0 and, with a number below n, the next one, holds all up to n *)
LEMMA Counting ==
    ASSUME NEW n \in Nat, NEW T, 0 \in T, \A i \in 0..(n - 1) : i \in T => i + 1 \in T
    PROVE  0..n \subseteq T
<1> DEFINE missing == (0..n) \ T
<1>1. SUFFICES ASSUME missing # {} PROVE FALSE
    OBVIOUS
<1>2. PICK m \in missing : \A k \in missing : m <= k
    <2>1. missing \subseteq Nat
        OBVIOUS
    <2> HIDE DEF missing
    <2> QED BY <1>1, <2>1, LeastNumber
<1>3. m # 0 /\ m - 1 \in 0..(n - 1)
    BY <1>2
<1>4. m - 1 \in T
    BY <1>2, <1>3
<1> QED BY <1>2, <1>3, <1>4

LEMMA FileFacts ==
    ASSUME NEW file \in FileSet
    PROVE  /\ file.text \in Nat /\ file.path # NoError
           /\ DOMAIN file.tools = 1..Len(file.tools) /\ Len(file.tools) \in Nat
<1>1. file.text \in Nat /\ file.path # NoError /\ file.tools \in Seq(Range(file.tools))
    BY FilesAssumption
<1> QED BY <1>1

(* What is known after each file obeys the recursion *)
LEMMA ReadDefined ==
    ASSUME NEW list \in Seq(FileSet)
    PROVE  ReadFiles(list) = [i \in 0..Len(list) |->
               IF i = 0 THEN NothingLoaded ELSE AddFile(ReadFiles(list)[i - 1], list[i])]
<1> DEFINE Reads(n, f) == f = [i \in 0..n |-> IF i = 0 THEN NothingLoaded ELSE AddFile(f[i - 1], list[i])]
           readable == {n \in 0..Len(list) : \E f : Reads(n, f)}
<1>1. 0 \in readable
    <2>1. Reads(0, [i \in 0..0 |-> NothingLoaded])
        OBVIOUS
    <2>2. 0 \in 0..Len(list)
        OBVIOUS
    <2> QED BY <2>1, <2>2
<1>2. ASSUME NEW n \in 0..(Len(list) - 1), n \in readable
      PROVE  n + 1 \in readable
    <2>1. PICK g : Reads(n, g)
        BY <1>2
    <2> DEFINE f == [i \in 0..(n + 1) |-> IF i = n + 1 THEN AddFile(g[n], list[n + 1]) ELSE g[i]]
    <2>2. ASSUME NEW i \in 0..(n + 1)
          PROVE  f[i] = IF i = 0 THEN NothingLoaded ELSE AddFile(f[i - 1], list[i])
        <3>1. CASE i = n + 1
            BY <3>1
        <3>2. CASE i # n + 1
            <4>1. i \in 0..n /\ f[i] = g[i]
                BY <3>2
            <4>2. CASE i = 0
                BY <4>1, <4>2, <2>1
            <4>3. CASE i # 0
                <5>1. f[i - 1] = g[i - 1]
                    BY <4>1, <4>3
                <5> QED BY <4>1, <4>3, <5>1, <2>1
            <4> QED BY <4>2, <4>3
        <3> QED BY <3>1, <3>2
    <2>3. Reads(n + 1, f)
        BY <2>2
    <2>4. n + 1 \in 0..Len(list)
        OBVIOUS
    <2> QED BY <2>3, <2>4
<1>3. Len(list) \in readable
    <2>1. Len(list) \in Nat
        OBVIOUS
    <2> HIDE DEF readable
    <2>2. 0..Len(list) \subseteq readable
        BY <1>1, <1>2, <2>1, Counting
    <2> QED BY <2>1, <2>2
<1> QED BY <1>3 DEF ReadFiles

(* So does the running sum of the texts *)
LEMMA TextDefined ==
    ASSUME NEW list \in Seq(FileSet)
    PROVE  TextUpTo(list) = [i \in 0..Len(list) |->
               IF i = 0 THEN 0 ELSE TextUpTo(list)[i - 1] + list[i].text]
<1> DEFINE Sums(n, f) == f = [i \in 0..n |-> IF i = 0 THEN 0 ELSE f[i - 1] + list[i].text]
           summed == {n \in 0..Len(list) : \E f : Sums(n, f)}
<1>1. 0 \in summed
    <2>1. Sums(0, [i \in 0..0 |-> 0])
        OBVIOUS
    <2>2. 0 \in 0..Len(list)
        OBVIOUS
    <2> QED BY <2>1, <2>2
<1>2. ASSUME NEW n \in 0..(Len(list) - 1), n \in summed
      PROVE  n + 1 \in summed
    <2>1. PICK g : Sums(n, g)
        BY <1>2
    <2> DEFINE f == [i \in 0..(n + 1) |-> IF i = n + 1 THEN g[n] + list[n + 1].text ELSE g[i]]
    <2>2. ASSUME NEW i \in 0..(n + 1)
          PROVE  f[i] = IF i = 0 THEN 0 ELSE f[i - 1] + list[i].text
        <3>1. CASE i = n + 1
            BY <3>1
        <3>2. CASE i # n + 1
            <4>1. i \in 0..n /\ f[i] = g[i]
                BY <3>2
            <4>2. CASE i = 0
                BY <4>1, <4>2, <2>1
            <4>3. CASE i # 0
                <5>1. f[i - 1] = g[i - 1]
                    BY <4>1, <4>3
                <5> QED BY <4>1, <4>3, <5>1, <2>1
            <4> QED BY <4>2, <4>3
        <3> QED BY <3>1, <3>2
    <2>3. Sums(n + 1, f)
        BY <2>2
    <2>4. n + 1 \in 0..Len(list)
        OBVIOUS
    <2> QED BY <2>3, <2>4
<1>3. Len(list) \in summed
    <2>1. Len(list) \in Nat
        OBVIOUS
    <2> HIDE DEF summed
    <2>2. 0..Len(list) \subseteq summed
        BY <1>1, <1>2, <2>1, Counting
    <2> QED BY <2>1, <2>2
<1> QED BY <1>3 DEF TextUpTo

(* It never shrinks, and no file's text is longer than the sum up to it *)
LEMMA TextGrows ==
    ASSUME NEW list \in Seq(FileSet), NEW i \in 0..Len(list)
    PROVE  /\ TextUpTo(list)[i] \in Nat
           /\ \A k \in 1..i : list[k].text <= TextUpTo(list)[i]
<1> DEFINE sum == TextUpTo(list)
           good == {n \in 0..Len(list) : sum[n] \in Nat /\ \A k \in 1..n : list[k].text <= sum[n]}
<1>0. Len(list) \in Nat /\ \A n \in 1..Len(list) : list[n] \in FileSet
    OBVIOUS
<1>1. 0 \in good
    BY TextDefined, <1>0
<1>2. ASSUME NEW n \in 0..(Len(list) - 1), n \in good
      PROVE  n + 1 \in good
    <2>1. n + 1 \in 1..Len(list) /\ list[n + 1] \in FileSet
        BY <1>0
    <2>2. list[n + 1].text \in Nat
        BY <2>1, FileFacts
    <2>3. sum[n + 1] = sum[n] + list[n + 1].text
        BY <2>1, TextDefined
    <2>4. sum[n] \in Nat /\ \A k \in 1..n : list[k].text <= sum[n]
        BY <1>2
    <2>5. ASSUME NEW k \in 1..(n + 1)
          PROVE  list[k].text <= sum[n + 1]
        <3>1. CASE k = n + 1
            BY <3>1, <2>2, <2>3, <2>4
        <3>2. CASE k # n + 1
            <4>1. k \in 1..n /\ k \in 1..Len(list)
                BY <3>2, <1>0
            <4>2. list[k].text \in Nat
                BY <1>0, <4>1, FileFacts
            <4>3. list[k].text <= sum[n]
                BY <4>1, <2>4
            <4>4. \A a, b, c \in Nat : a <= b => a <= b + c
                OBVIOUS
            <4>5. list[k].text <= sum[n] + list[n + 1].text
                <5> HIDE DEF sum
                <5> QED BY <4>2, <4>3, <4>4, <2>2, <2>4, Zenon
            <4> QED BY <4>5, <2>3
        <3> QED BY <3>1, <3>2
    <2> QED BY <2>1, <2>2, <2>3, <2>4, <2>5
<1>3. 0..Len(list) \subseteq good
    <2> HIDE DEF good
    <2> QED BY <1>0, <1>1, <1>2, Counting
<1> QED BY <1>3

(* The tools a file adds *)
StoredTools(file) ==
    {[name |-> file.tools[j].name, path |-> file.path, plain |-> file.tools[j].plain,
      buried |-> file.tools[j].buried, masked |-> {}] : j \in DOMAIN file.tools}

(* What every reading has, failed or not *)
Shape(loaded) ==
    /\ DOMAIN loaded = {"error", "tools", "annotations", "masks", "text"}
    /\ loaded.tools \in Seq(Range(loaded.tools))

(* next is what is known after one more file *)
Adds(next, loaded, file) ==
    /\ Shape(next)
    /\ next.error = NoError <=> loaded.error = NoError /\ Fits(loaded, file)
    /\ next.error = NoError =>
          /\ Range(next.tools) = Range(loaded.tools) \cup StoredTools(file)
          /\ next.annotations = loaded.annotations \cup file.annotations
          /\ next.masks = loaded.masks \cup file.masks
          /\ next.text = loaded.text + file.text

LEMMA AddFileFacts ==
    ASSUME NEW loaded, Shape(loaded), NEW file \in FileSet
    PROVE  Adds(AddFile(loaded, file), loaded, file)
<1> DEFINE next == AddFile(loaded, file)
           rest == [j \in DOMAIN file.tools |->
                       [name |-> file.tools[j].name, path |-> file.path, plain |-> file.tools[j].plain,
                        buried |-> file.tools[j].buried, masked |-> {}]]
<1>1. CASE loaded.error # NoError
    <2>1. next = loaded
        BY <1>1 DEF AddFile
    <2> QED BY <1>1, <2>1 DEF Adds
<1>2. CASE loaded.error = NoError /\ ~Fits(loaded, file)
    <2>1. next = [loaded EXCEPT !.error = file.path]
        BY <1>2, Zenon DEF AddFile
    <2>2. next.error = file.path /\ next.tools = loaded.tools /\ DOMAIN next = DOMAIN loaded
        BY <2>1 DEF Shape
    <2> QED BY <1>2, <2>2, FileFacts DEF Shape, Adds
<1>3. CASE loaded.error = NoError /\ Fits(loaded, file)
    <2>1. next = [error |-> NoError, tools |-> loaded.tools \o rest,
                  annotations |-> loaded.annotations \cup file.annotations,
                  masks |-> loaded.masks \cup file.masks, text |-> loaded.text + file.text]
        BY <1>3, Zenon DEF AddFile
    <2>2. rest \in Seq(StoredTools(file)) /\ Range(rest) = StoredTools(file)
        <3>1. DOMAIN file.tools = 1..Len(file.tools) /\ Len(file.tools) \in Nat
            BY FileFacts
        <3>2. \A j \in DOMAIN file.tools : rest[j] \in StoredTools(file)
            BY DEF StoredTools
        <3>3. rest \in [1..Len(file.tools) -> StoredTools(file)]
            BY <3>1, <3>2
        <3>4. rest \in Seq(StoredTools(file))
            <4> HIDE DEF rest
            <4> QED BY <3>1, <3>3
        <3>5. Range(rest) = {rest[j] : j \in DOMAIN rest}
            BY Zenon DEF Range
        <3>6. Range(rest) = StoredTools(file)
            BY <3>5 DEF StoredTools
        <3> QED BY <3>4, <3>6
    <2>3. loaded.tools \in Seq(Range(loaded.tools) \cup StoredTools(file))
        BY SeqMonotonic DEF Shape
    <2> HIDE DEF rest
    <2>4. Range(loaded.tools \o rest) = Range(loaded.tools) \cup Range(rest)
        <3>1. rest \in Seq(Range(loaded.tools) \cup StoredTools(file))
            BY <2>2
        <3> QED BY <2>3, <3>1, RangeConcatenation
    <2>5. loaded.tools \o rest \in Seq(Range(loaded.tools \o rest))
        <3>1. loaded.tools \in Seq(Range(loaded.tools \o rest)) /\ rest \in Seq(Range(loaded.tools \o rest))
            BY <2>2, <2>3, <2>4 DEF Shape
        <3> QED BY <3>1
    <2>6. Shape(next)
        BY <2>1, <2>5 DEF Shape
    <2> QED BY <1>3, <2>1, <2>2, <2>4, <2>6 DEF Adds
<1> QED BY <1>1, <1>2, <1>3

(* The first n files fit beside each other *)
FitTogether(list, n) ==
    /\ \A i \in 1..n : list[i].sound /\ list[i].text <= MaxText
    /\ \A i \in 1..n : \A j \in DOMAIN list[i].tools :
          list[i].tools[j].valid /\ list[i].tools[j].name \notin BuiltIn
    /\ \A i, k \in 1..n : \A j \in DOMAIN list[i].tools, l \in DOMAIN list[k].tools :
          i # k \/ j # l => list[i].tools[j].name # list[k].tools[l].name
    /\ \A i, k \in 1..n : i # k =>
          list[i].annotations \cap list[k].annotations = {} /\ list[i].masks \cap list[k].masks = {}

(* All of the first n files is known *)
Knows(loaded, list, n) ==
    /\ Range(loaded.tools) = UNION {StoredTools(list[i]) : i \in 1..n}
    /\ loaded.annotations = UNION {list[i].annotations : i \in 1..n}
    /\ loaded.masks = UNION {list[i].masks : i \in 1..n}
    /\ loaded.text = TextUpTo(list)[n]

NamesUpTo(list, n) == UNION {{list[i].tools[j].name : j \in DOMAIN list[i].tools} : i \in 1..n}

LEMMA KnownNames ==
    ASSUME NEW list \in Seq(FileSet), NEW n \in 0..Len(list), NEW loaded, Knows(loaded, list, n)
    PROVE  Taken(loaded) = BuiltIn \cup NamesUpTo(list, n)
<1>1. ASSUME NEW i \in 1..n, NEW j \in DOMAIN list[i].tools
      PROVE  \E known \in Range(loaded.tools) : known.name = list[i].tools[j].name
    <2> DEFINE known == [name |-> list[i].tools[j].name, path |-> list[i].path, plain |-> list[i].tools[j].plain,
                         buried |-> list[i].tools[j].buried, masked |-> {}]
    <2>1. known \in StoredTools(list[i])
        BY DEF StoredTools
    <2>2. known \in Range(loaded.tools)
        <3> HIDE DEF known
        <3> QED BY <2>1 DEF Knows
    <2>3. known.name = list[i].tools[j].name
        OBVIOUS
    <2> HIDE DEF known
    <2> QED BY <2>2, <2>3
<1>2. ASSUME NEW known \in Range(loaded.tools)
      PROVE  \E i \in 1..n : \E j \in DOMAIN list[i].tools : known.name = list[i].tools[j].name
    <2>1. PICK i \in 1..n : known \in StoredTools(list[i])
        BY DEF Knows
    <2> QED BY <2>1 DEF StoredTools
<1> QED BY <1>1, <1>2 DEF Taken, NamesUpTo

(* One more file fits together with the others when it fits what they left *)
LEMMA OneMoreFits ==
    ASSUME NEW list \in Seq(FileSet), NEW n \in 0..(Len(list) - 1), NEW loaded, Knows(loaded, list, n)
    PROVE  FitTogether(list, n + 1) <=> FitTogether(list, n) /\ Fits(loaded, list[n + 1])
<1> DEFINE file == list[n + 1]
<1>0. /\ n \in 0..Len(list) /\ n + 1 \in 1..(n + 1) /\ 1..n \subseteq 1..(n + 1) /\ n + 1 \notin 1..n
      /\ \A i \in 1..(n + 1) : i = n + 1 \/ i \in 1..n
    OBVIOUS
<1>1. \A name : name \in Taken(loaded) <=>
          name \in BuiltIn \/ \E i \in 1..n : \E j \in DOMAIN list[i].tools : name = list[i].tools[j].name
    <2>1. Taken(loaded) = BuiltIn \cup NamesUpTo(list, n)
        BY <1>0, KnownNames, Zenon
    <2> QED BY <2>1 DEF NamesUpTo
<1>2. /\ loaded.annotations = UNION {list[i].annotations : i \in 1..n}
      /\ loaded.masks = UNION {list[i].masks : i \in 1..n}
    BY DEF Knows
<1>3. \A t : t \in Range(file.tools) <=> \E j \in DOMAIN file.tools : t = file.tools[j]
    BY DEF Range
<1>4. ASSUME FitTogether(list, n + 1)
      PROVE  FitTogether(list, n) /\ Fits(loaded, file)
    <2>1. FitTogether(list, n)
        BY <1>0, <1>4 DEF FitTogether
    <2>2. file.sound /\ file.text <= MaxText
        BY <1>0, <1>4 DEF FitTogether
    <2>3. ASSUME NEW t \in Range(file.tools)
          PROVE  t.valid /\ t.name \notin Taken(loaded)
        <3>1. PICK j \in DOMAIN file.tools : t = file.tools[j]
            BY <1>3
        <3>2. t.valid /\ t.name \notin BuiltIn
            BY <3>1, <1>0, <1>4 DEF FitTogether
        <3>3. \A i \in 1..n : \A l \in DOMAIN list[i].tools : t.name # list[i].tools[l].name
            BY <3>1, <1>0, <1>4 DEF FitTogether
        <3> QED BY <3>2, <3>3, <1>1
    <2>4. \A j, k \in DOMAIN file.tools : j # k => file.tools[j].name # file.tools[k].name
        BY <1>0, <1>4 DEF FitTogether
    <2>5. file.annotations \cap loaded.annotations = {} /\ file.masks \cap loaded.masks = {}
        <3>1. \A i \in 1..n : file.annotations \cap list[i].annotations = {} /\ file.masks \cap list[i].masks = {}
            BY <1>0, <1>4 DEF FitTogether
        <3> QED BY <3>1, <1>2
    <2> QED BY <2>1, <2>2, <2>3, <2>4, <2>5 DEF Fits
<1>5. ASSUME FitTogether(list, n), Fits(loaded, file)
      PROVE  FitTogether(list, n + 1)
    <2>1. \A i \in 1..(n + 1) : list[i].sound /\ list[i].text <= MaxText
        BY <1>0, <1>5 DEF FitTogether, Fits
    <2>2. ASSUME NEW i \in 1..(n + 1), NEW j \in DOMAIN list[i].tools
          PROVE  list[i].tools[j].valid /\ list[i].tools[j].name \notin BuiltIn
        <3>1. CASE i \in 1..n
            BY <3>1, <1>5 DEF FitTogether
        <3>2. CASE i = n + 1
            <4>1. list[i].tools[j] \in Range(file.tools)
                BY <3>2, <1>3
            <4> QED BY <4>1, <1>1, <1>5, <3>2 DEF Fits
        <3> QED BY <3>1, <3>2, <1>0
    <2>3. ASSUME NEW i \in 1..n, NEW j \in DOMAIN list[i].tools, NEW l \in DOMAIN file.tools
          PROVE  list[i].tools[j].name # file.tools[l].name
        <3>1. file.tools[l] \in Range(file.tools)
            BY <1>3
        <3>2. file.tools[l].name \notin Taken(loaded)
            BY <3>1, <1>5 DEF Fits
        <3> QED BY <3>2, <1>1
    <2>4. ASSUME NEW i \in 1..(n + 1), NEW k \in 1..(n + 1),
                 NEW j \in DOMAIN list[i].tools, NEW l \in DOMAIN list[k].tools, i # k \/ j # l
          PROVE  list[i].tools[j].name # list[k].tools[l].name
        <3>1. CASE i \in 1..n /\ k \in 1..n
            BY <3>1, <2>4, <1>5 DEF FitTogether
        <3>2. CASE i \in 1..n /\ k = n + 1
            BY <3>2, <2>3
        <3>3. CASE i = n + 1 /\ k \in 1..n
            BY <3>3, <2>3
        <3>4. CASE i = n + 1 /\ k = n + 1
            BY <3>4, <2>4, <1>5 DEF Fits
        <3> QED BY <3>1, <3>2, <3>3, <3>4, <1>0
    <2>5. ASSUME NEW i \in 1..n
          PROVE  list[i].annotations \cap file.annotations = {} /\ list[i].masks \cap file.masks = {}
        <3>1. list[i].annotations \subseteq loaded.annotations /\ list[i].masks \subseteq loaded.masks
            BY <1>2
        <3>2. file.annotations \cap loaded.annotations = {} /\ file.masks \cap loaded.masks = {}
            BY <1>5, Zenon DEF Fits
        <3> HIDE DEF file
        <3> QED BY <3>1, <3>2
    <2>6. ASSUME NEW i \in 1..(n + 1), NEW k \in 1..(n + 1), i # k
          PROVE  list[i].annotations \cap list[k].annotations = {} /\ list[i].masks \cap list[k].masks = {}
        <3>1. CASE i \in 1..n /\ k \in 1..n
            BY <3>1, <2>6, <1>5 DEF FitTogether
        <3>2. CASE i = n + 1 \/ k = n + 1
            BY <3>2, <2>5, <2>6, <1>0
        <3> QED BY <3>1, <3>2, <1>0
    <2> QED BY <2>1, <2>2, <2>4, <2>6 DEF FitTogether
<1> QED BY <1>4, <1>5

(* What is known after the first n files, and when they are read without error *)
LEMMA ReadFacts ==
    ASSUME NEW list \in Seq(FileSet), NEW n \in 0..Len(list)
    PROVE  LET loaded == ReadFiles(list)[n]
           IN  /\ Shape(loaded)
               /\ loaded.error = NoError <=> FitTogether(list, n)
               /\ loaded.error = NoError => Knows(loaded, list, n)
<1> DEFINE read == ReadFiles(list)
           Right(i) == /\ Shape(read[i])
                       /\ read[i].error = NoError <=> FitTogether(list, i)
                       /\ read[i].error = NoError => Knows(read[i], list, i)
           known == {i \in 0..Len(list) : Right(i)}
<1>0. Len(list) \in Nat /\ \A i \in 1..Len(list) : list[i] \in FileSet
    OBVIOUS
<1>1. 0 \in known
    <2>1. read[0] = NothingLoaded /\ TextUpTo(list)[0] = 0
        BY ReadDefined, TextDefined, <1>0
    <2>2. Range(<<>>) = {} /\ <<>> \in Seq({})
        BY DEF Range
    <2>3. Shape(read[0]) /\ read[0].error = NoError
        BY <2>1, <2>2 DEF Shape, NothingLoaded
    <2>4. FitTogether(list, 0)
        BY DEF FitTogether
    <2>5. Knows(read[0], list, 0)
        BY <2>1, <2>2 DEF Knows, NothingLoaded
    <2> QED BY <2>3, <2>4, <2>5, <1>0
<1>2. ASSUME NEW i \in 0..(Len(list) - 1), i \in known
      PROVE  i + 1 \in known
    <2>0. i + 1 \in 1..Len(list) /\ list[i + 1] \in FileSet
        BY <1>0
    <2>1. /\ read[i + 1] = AddFile(read[i], list[i + 1])
          /\ TextUpTo(list)[i + 1] = TextUpTo(list)[i] + list[i + 1].text
        BY ReadDefined, TextDefined, <2>0
    <2>2. Right(i) /\ Shape(read[i])
        BY <1>2
    <2> HIDE DEF read
    <2>3. /\ Shape(read[i + 1])
          /\ read[i + 1].error = NoError <=> read[i].error = NoError /\ Fits(read[i], list[i + 1])
          /\ read[i + 1].error = NoError =>
                /\ Range(read[i + 1].tools) = Range(read[i].tools) \cup StoredTools(list[i + 1])
                /\ read[i + 1].annotations = read[i].annotations \cup list[i + 1].annotations
                /\ read[i + 1].masks = read[i].masks \cup list[i + 1].masks
                /\ read[i + 1].text = read[i].text + list[i + 1].text
        <3>1. Adds(AddFile(read[i], list[i + 1]), read[i], list[i + 1])
            BY <2>0, <2>2, AddFileFacts, Zenon
        <3> QED BY <2>1, <3>1, Zenon DEF Adds
    <2>4. ASSUME FitTogether(list, i + 1)
          PROVE  FitTogether(list, i)
        <3>1. 1..i \subseteq 1..(i + 1)
            OBVIOUS
        <3> QED BY <2>4, <3>1 DEF FitTogether
    <2>5. read[i + 1].error = NoError <=> FitTogether(list, i + 1)
        <3>1. CASE read[i].error = NoError
            <4>1. Knows(read[i], list, i)
                BY <2>2, <3>1
            <4>2. FitTogether(list, i + 1) <=> FitTogether(list, i) /\ Fits(read[i], list[i + 1])
                BY <4>1, OneMoreFits
            <4> QED BY <2>2, <2>3, <3>1, <4>2
        <3>2. CASE read[i].error # NoError
            BY <2>2, <2>3, <2>4, <3>2
        <3> QED BY <3>1, <3>2
    <2>6. ASSUME read[i + 1].error = NoError
          PROVE  Knows(read[i + 1], list, i + 1)
        <3>1. Knows(read[i], list, i)
            BY <2>2, <2>3, <2>6
        <3>2. \A k : k \in 1..(i + 1) <=> k \in 1..i \/ k = i + 1
            OBVIOUS
        <3>3. /\ UNION {StoredTools(list[k]) : k \in 1..(i + 1)}
                 = (UNION {StoredTools(list[k]) : k \in 1..i}) \cup StoredTools(list[i + 1])
              /\ UNION {list[k].annotations : k \in 1..(i + 1)}
                 = (UNION {list[k].annotations : k \in 1..i}) \cup list[i + 1].annotations
              /\ UNION {list[k].masks : k \in 1..(i + 1)}
                 = (UNION {list[k].masks : k \in 1..i}) \cup list[i + 1].masks
            BY <3>2
        <3> QED BY <3>1, <3>3, <2>1, <2>3, <2>6 DEF Knows
    <2> QED BY <2>0, <2>3, <2>5, <2>6
<1>3. 0..Len(list) \subseteq known
    <2> HIDE DEF known
    <2> QED BY <1>0, <1>1, <1>2, Counting
<1> QED BY <1>3

(* All files fit together, each one is short enough and no tool uses a masked *)
(* column otherwise: that is what Acceptable says                             *)
LEMMA AcceptableMeans ==
    ASSUME NEW list \in Seq(FileSet)
    PROVE  Acceptable(list) <=>
               /\ FitTogether(list, Len(list)) /\ TextUpTo(list)[Len(list)] <= MaxText
               /\ \A tool \in ToolsOf(list) : tool.buried \cap MasksOf(list) = {}
<1> DEFINE n == Len(list)
<1>0. /\ n \in Nat /\ DOMAIN list = 1..n /\ n \in 0..n
      /\ \A i \in 1..n : list[i] \in FileSet
  OBVIOUS
<1>1. \A tool : tool \in ToolsOf(list) <=>
          \E i \in 1..n : \E j \in DOMAIN list[i].tools : tool = list[i].tools[j]
  BY <1>0 DEF ToolsOf, Range
<1>2. ASSUME NEW i \in 1..n, NEW j \in DOMAIN list[i].tools
      PROVE  <<i, j>> \in ToolsAt(list)
  BY <1>0 DEF ToolsAt
<1>3. ASSUME NEW e \in ToolsAt(list)
      PROVE  e[1] \in 1..n /\ e[2] \in DOMAIN list[e[1]].tools /\ e = <<e[1], e[2]>>
  BY <1>0 DEF ToolsAt
<1> HIDE DEF n
<1>4. ASSUME Acceptable(list)
      PROVE  FitTogether(list, n) /\ TextUpTo(list)[n] <= MaxText
  <2>1. TextUpTo(list)[n] <= MaxText
    BY <1>4 DEF Acceptable, n
  <2>2. ASSUME NEW i \in 1..n
        PROVE  list[i].sound /\ list[i].text <= MaxText
    <3>1. /\ TextUpTo(list)[n] \in Nat
          /\ list[i].text <= TextUpTo(list)[n]
      BY <1>0, TextGrows DEF n
    <3>2. list[i].text \in Nat /\ MaxText \in Nat
      BY <1>0, FileFacts, FilesAssumption
    <3>3. \A a, b, c \in Nat : a <= b /\ b <= c => a <= c
      OBVIOUS
    <3>4. list[i].text <= MaxText
      BY <2>1, <3>1, <3>2, <3>3, Zenon
    <3> QED BY <3>4, <1>0, <1>4 DEF Acceptable
  <2>3. ASSUME NEW i \in 1..n, NEW j \in DOMAIN list[i].tools
        PROVE  list[i].tools[j].valid /\ list[i].tools[j].name \notin BuiltIn
    BY <1>1, <1>4 DEF Acceptable
  <2>4. ASSUME NEW i \in 1..n, NEW k \in 1..n,
               NEW j \in DOMAIN list[i].tools, NEW l \in DOMAIN list[k].tools, i # k \/ j # l
        PROVE  list[i].tools[j].name # list[k].tools[l].name
    <3>1. <<i, j>> \in ToolsAt(list) /\ <<k, l>> \in ToolsAt(list) /\ <<i, j>> # <<k, l>>
      BY <1>2, <2>4
    <3>2. \A e, f \in ToolsAt(list) : e # f => list[e[1]].tools[e[2]].name # list[f[1]].tools[f[2]].name
      BY <1>4 DEF Acceptable
    <3> QED BY <3>1, <3>2
  <2>5. \A i, k \in 1..n : i # k =>
          list[i].annotations \cap list[k].annotations = {} /\ list[i].masks \cap list[k].masks = {}
    BY <1>0, <1>4 DEF Acceptable
  <2> QED BY <2>1, <2>2, <2>3, <2>4, <2>5 DEF FitTogether
<1>5. ASSUME FitTogether(list, n), TextUpTo(list)[n] <= MaxText,
             \A tool \in ToolsOf(list) : tool.buried \cap MasksOf(list) = {}
      PROVE  Acceptable(list)
  <2>1. \A i \in DOMAIN list : list[i].sound
    BY <1>0, <1>5 DEF FitTogether
  <2>2. \A t \in ToolsOf(list) : t.valid /\ t.name \notin BuiltIn /\ t.buried \cap MasksOf(list) = {}
    BY <1>1, <1>5 DEF FitTogether
  <2>3. ASSUME NEW e \in ToolsAt(list), NEW f \in ToolsAt(list), e # f
        PROVE  list[e[1]].tools[e[2]].name # list[f[1]].tools[f[2]].name
    <3>1. e[1] # f[1] \/ e[2] # f[2]
      BY <1>3, <2>3
    <3> QED BY <1>3, <1>5, <3>1 DEF FitTogether
  <2>4. \A i, j \in DOMAIN list : i # j =>
          list[i].annotations \cap list[j].annotations = {} /\ list[i].masks \cap list[j].masks = {}
    BY <1>0, <1>5 DEF FitTogether
  <2>5. TextUpTo(list)[Len(list)] <= MaxText
    BY <1>5 DEF n
  <2> QED BY <2>1, <2>2, <2>3, <2>4, <2>5 DEF Acceptable
<1> QED BY <1>4, <1>5 DEF n, Acceptable

(* What loadCustomTools() returns of a list of files *)
LEMMA LoadFacts ==
    ASSUME NEW list \in Seq(FileSet)
    PROVE  /\ LoadFiles(list).error = NoError <=> Acceptable(list)
           /\ LoadFiles(list).error = NoError =>
                 /\ LoadFiles(list).masks = MasksOf(list)
                 /\ {<<t.name, t.masked>> : t \in Range(LoadFiles(list).tools)}
                    = {<<t.name, t.plain \cap MasksOf(list)>> : t \in ToolsOf(list)}
<1> DEFINE n == Len(list)
           all == ReadFiles(list)[n]
           unfit == {j \in DOMAIN all.tools : all.tools[j].buried \cap all.masks # {}}
<1>0. /\ n \in Nat /\ DOMAIN list = 1..n /\ n \in 0..n
      /\ \A i \in 1..n : list[i] \in FileSet
  OBVIOUS
<1>1. /\ Shape(all)
      /\ all.error = NoError <=> FitTogether(list, n)
      /\ all.error = NoError => Knows(all, list, n)
  BY <1>0, ReadFacts, Zenon
<1>2. LoadFiles(list) = IF all.error # NoError THEN all
                        ELSE IF all.text > MaxText THEN [all EXCEPT !.error = Together]
                        ELSE MaskTools(all)
  BY Zenon DEF LoadFiles
<1> HIDE DEF all, unfit
<1>3. CASE all.error # NoError
  <2>1. LoadFiles(list) = all /\ ~FitTogether(list, n)
    BY <1>1, <1>2, <1>3
  <2> QED BY <1>3, <2>1, AcceptableMeans DEF n
<1>4. ASSUME all.error = NoError
      PROVE  /\ FitTogether(list, n) /\ all.text = TextUpTo(list)[n] /\ all.masks = MasksOf(list)
             /\ Range(all.tools) = UNION {StoredTools(list[i]) : i \in 1..n}
             /\ all.text \in Nat
  <2>1. Knows(all, list, n) /\ FitTogether(list, n)
    BY <1>1, <1>4
  <2>2. TextUpTo(list)[n] \in Nat
    BY <1>0, TextGrows
  <2> QED BY <1>0, <2>1, <2>2 DEF Knows, MasksOf
<1>5. CASE all.error = NoError /\ all.text > MaxText
  <2>1. ~(TextUpTo(list)[n] <= MaxText)
    <3>1. MaxText \in Nat
      BY FilesAssumption
    <3> QED BY <1>4, <1>5, <3>1
  <2>2. LoadFiles(list) = [all EXCEPT !.error = Together]
    BY <1>2, <1>5
  <2>3. LoadFiles(list).error = Together
    BY <1>1, <2>2 DEF Shape
  <2> QED BY <2>1, <2>3, FilesAssumption, AcceptableMeans DEF n
<1>6. CASE all.error = NoError /\ ~(all.text > MaxText)
  <2>0. /\ TextUpTo(list)[n] <= MaxText /\ FitTogether(list, n)
        /\ LoadFiles(list) = MaskTools(all) /\ all.masks = MasksOf(list)
    <3>1. MaxText \in Nat
      BY FilesAssumption
    <3> QED BY <1>2, <1>4, <1>6, <3>1
  <2>1. \A t : t \in Range(all.tools) <=>
          \E i \in 1..n : \E j \in DOMAIN list[i].tools :
              t = [name |-> list[i].tools[j].name, path |-> list[i].path, plain |-> list[i].tools[j].plain,
                   buried |-> list[i].tools[j].buried, masked |-> {}]
    BY <1>4, <1>6 DEF StoredTools
  <2>2. \A t : t \in Range(all.tools) <=> \E j \in DOMAIN all.tools : t = all.tools[j]
    BY DEF Range
  <2>3. \A t : t \in ToolsOf(list) <=>
          \E i \in 1..n : \E j \in DOMAIN list[i].tools : t = list[i].tools[j]
    BY <1>0 DEF ToolsOf, Range
  <2>4. unfit = {} <=> \A t \in ToolsOf(list) : t.buried \cap MasksOf(list) = {}
    <3>1. ASSUME unfit = {}, NEW t \in ToolsOf(list)
          PROVE  t.buried \cap MasksOf(list) = {}
      <4>1. PICK i \in 1..n : \E j \in DOMAIN list[i].tools : t = list[i].tools[j]
        BY <2>3
      <4>2. PICK j \in DOMAIN list[i].tools : t = list[i].tools[j]
        BY <4>1
      <4> DEFINE known == [name |-> list[i].tools[j].name, path |-> list[i].path, plain |-> list[i].tools[j].plain,
                           buried |-> list[i].tools[j].buried, masked |-> {}]
      <4>3. known \in Range(all.tools) /\ known.buried = t.buried
        BY <2>1, <4>2
      <4> HIDE DEF known
      <4>4. PICK k \in DOMAIN all.tools : known = all.tools[k]
        BY <2>2, <4>3
      <4> QED BY <2>0, <3>1, <4>3, <4>4 DEF unfit
    <3>2. ASSUME NEW k \in unfit
          PROVE  \E t \in ToolsOf(list) : t.buried \cap MasksOf(list) # {}
      <4>1. all.tools[k] \in Range(all.tools) /\ all.tools[k].buried \cap MasksOf(list) # {}
        BY <2>0, <2>2 DEF unfit
      <4>2. PICK i \in 1..n : \E j \in DOMAIN list[i].tools :
              all.tools[k] = [name |-> list[i].tools[j].name, path |-> list[i].path,
                              plain |-> list[i].tools[j].plain,
                              buried |-> list[i].tools[j].buried, masked |-> {}]
        BY <2>1, <4>1
      <4>3. PICK j \in DOMAIN list[i].tools : all.tools[k].buried = list[i].tools[j].buried
        BY <4>2
      <4> QED BY <2>3, <4>1, <4>3
    <3> QED BY <3>1, <3>2
  <2>5. CASE unfit # {}
    <3>1. MaskTools(all) = [all EXCEPT !.error = all.tools[First(unfit)].path]
      BY <2>5, Zenon DEF MaskTools, unfit
    <3>2. First(unfit) \in DOMAIN all.tools
      <4>1. unfit \subseteq DOMAIN all.tools /\ DOMAIN all.tools \subseteq Nat
        BY <1>1 DEF Shape, unfit
      <4> QED BY <4>1, <2>5, FirstIsOne
    <3>3. all.tools[First(unfit)] \in Range(all.tools)
      BY <2>2, <3>2
    <3>4. PICK i \in 1..n : \E j \in DOMAIN list[i].tools : 
            all.tools[First(unfit)] =
                  [name |-> list[i].tools[j].name, path |-> list[i].path, plain |-> list[i].tools[j].plain,
                   buried |-> list[i].tools[j].buried, masked |-> {}]
      BY <2>1, <3>3
    <3>5. all.tools[First(unfit)].path = list[i].path
      BY <3>4
    <3>6. LoadFiles(list).error # NoError
      BY <1>0, <1>1, <2>0, <3>1, <3>5, FileFacts DEF Shape
    <3> QED BY <2>4, <2>5, <3>6, AcceptableMeans
  <2>6. CASE unfit = {}
    <3>1. MaskTools(all) = SetMasks(all)
      BY <2>6, Zenon DEF MaskTools, unfit
    <3> DEFINE masked == [j \in DOMAIN all.tools |-> [all.tools[j] EXCEPT !.masked = all.tools[j].plain \cap all.masks]]
    <3>2. SetMasks(all).error = NoError /\ SetMasks(all).masks = all.masks /\ SetMasks(all).tools = masked
      BY <1>1, <1>6 DEF SetMasks, Shape
    <3>3. \A t : t \in Range(masked) <=> \E j \in DOMAIN all.tools : t = masked[j]
      BY DEF Range
    <3>4. ASSUME NEW j \in DOMAIN all.tools
          PROVE  masked[j].name = all.tools[j].name /\ masked[j].masked = all.tools[j].plain \cap MasksOf(list)
      <4>1. all.tools[j] \in Range(all.tools)
        BY <2>2
      <4>2. DOMAIN all.tools[j] = {"name", "path", "plain", "buried", "masked"}
        BY <2>1, <4>1
      <4> QED BY <2>0, <4>2
    <3> HIDE DEF masked
    <3>5. ASSUME NEW t \in Range(masked)
          PROVE  \E u \in ToolsOf(list) : t.name = u.name /\ t.masked = u.plain \cap MasksOf(list)
      <4>1. PICK k \in DOMAIN all.tools : t = masked[k]
        BY <3>3
      <4>2. all.tools[k] \in Range(all.tools)
        BY <2>2
      <4>3. PICK i \in 1..n : \E j \in DOMAIN list[i].tools :
              all.tools[k] = [name |-> list[i].tools[j].name, path |-> list[i].path,
                              plain |-> list[i].tools[j].plain,
                              buried |-> list[i].tools[j].buried, masked |-> {}]
        BY <2>1, <4>2
      <4>4. PICK j \in DOMAIN list[i].tools :
              all.tools[k].name = list[i].tools[j].name /\ all.tools[k].plain = list[i].tools[j].plain
        BY <4>3
      <4>5. list[i].tools[j] \in ToolsOf(list)
        BY <2>3
      <4> QED BY <3>4, <4>1, <4>4, <4>5
    <3>6. ASSUME NEW u \in ToolsOf(list)
          PROVE  \E t \in Range(masked) : t.name = u.name /\ t.masked = u.plain \cap MasksOf(list)
      <4>1. PICK i \in 1..n : \E j \in DOMAIN list[i].tools : u = list[i].tools[j]
        BY <2>3
      <4>2. PICK j \in DOMAIN list[i].tools : u = list[i].tools[j]
        BY <4>1
      <4> DEFINE known == [name |-> list[i].tools[j].name, path |-> list[i].path, plain |-> list[i].tools[j].plain,
                           buried |-> list[i].tools[j].buried, masked |-> {}]
      <4>3. known \in Range(all.tools) /\ known.name = u.name /\ known.plain = u.plain
        BY <2>1, <4>2
      <4> HIDE DEF known
      <4>4. PICK k \in DOMAIN all.tools : known = all.tools[k]
        BY <2>2, <4>3
      <4>5. masked[k] \in Range(masked)
        BY <3>3
      <4> QED BY <3>4, <4>3, <4>4, <4>5
    <3>7. {<<t.name, t.masked>> : t \in Range(masked)}
          = {<<u.name, u.plain \cap MasksOf(list)>> : u \in ToolsOf(list)}
      <4> DEFINE kept == {<<t.name, t.masked>> : t \in Range(masked)}
                 told == {<<u.name, u.plain \cap MasksOf(list)>> : u \in ToolsOf(list)}
      <4>1. kept \subseteq told
        BY <3>5
      <4>2. told \subseteq kept
        BY <3>6
      <4> QED BY <4>1, <4>2
    <3>8. Acceptable(list)
      BY <2>0, <2>4, <2>6, AcceptableMeans DEF n
    <3> QED BY <2>0, <3>1, <3>2, <3>7, <3>8
  <2> QED BY <2>5, <2>6
<1> QED BY <1>3, <1>5, <1>6
(* A file of an acceptable list is acceptable on its own *)
LEMMA EachAcceptable ==
    ASSUME NEW list \in Seq(FileSet), Acceptable(list), NEW i \in DOMAIN list
    PROVE  Acceptable(<<list[i]>>)
<1> DEFINE file == list[i]
           n == Len(list)
<1>0. /\ n \in Nat /\ DOMAIN list = 1..n /\ n \in 0..n /\ file \in FileSet
      /\ <<file>> \in Seq(FileSet) /\ Len(<<file>>) = 1 /\ <<file>>[1] = file
  OBVIOUS
<1>1. FitTogether(list, n) /\ TextUpTo(list)[n] <= MaxText
  BY AcceptableMeans
<1>2. \A tool \in ToolsOf(list) : tool.buried \cap MasksOf(list) = {}
  BY AcceptableMeans
<1>3. FitTogether(<<file>>, 1)
  <2>1. \A k \in 1..1 : k = 1
    OBVIOUS
  <2>2. i \in 1..n
    BY <1>0
  <2> HIDE DEF file
  <2>3. file.sound /\ file.text <= MaxText
    BY <1>1, <2>2 DEF FitTogether, file
  <2>4. \A j \in DOMAIN file.tools : file.tools[j].valid /\ file.tools[j].name \notin BuiltIn
    BY <1>1, <2>2 DEF FitTogether, file
  <2>5. \A j, l \in DOMAIN file.tools : j # l => file.tools[j].name # file.tools[l].name
    BY <1>1, <2>2 DEF FitTogether, file
  <2> QED BY <1>0, <2>1, <2>3, <2>4, <2>5 DEF FitTogether
<1>4. TextUpTo(<<file>>)[1] <= MaxText
  <2>1. TextUpTo(<<file>>)[1] = TextUpTo(<<file>>)[0] + file.text /\ TextUpTo(<<file>>)[0] = 0
    <3> HIDE DEF file
    <3>1. 0 \in 0..1 /\ 1 \in 0..1
      OBVIOUS
    <3>2. TextUpTo(<<file>>) = [k \in 0..1 |-> IF k = 0 THEN 0 ELSE TextUpTo(<<file>>)[k - 1] + <<file>>[k].text]
      BY <1>0, TextDefined
    <3>3. TextUpTo(<<file>>)[1] = TextUpTo(<<file>>)[1 - 1] + <<file>>[1].text
      BY <3>1, <3>2
    <3> QED BY <1>0, <3>1, <3>2, <3>3
  <2>2. file.text \in Nat
    BY <1>0, FileFacts
  <2>3. file.text <= MaxText
    BY <1>0, <1>1 DEF FitTogether
  <2> HIDE DEF file
  <2> QED BY <2>1, <2>2, <2>3
<1>5. ASSUME NEW tool \in ToolsOf(<<file>>)
      PROVE  tool.buried \cap MasksOf(<<file>>) = {}
  <2> HIDE DEF file
  <2>1. DOMAIN <<file>> = {1}
    OBVIOUS
  <2>2. tool \in Range(file.tools) /\ MasksOf(<<file>>) = file.masks
    BY <1>0, <2>1 DEF ToolsOf, MasksOf
  <2>3. tool \in ToolsOf(list) /\ MasksOf(<<file>>) \subseteq MasksOf(list)
    BY <2>2 DEF ToolsOf, MasksOf, file
  <2> QED BY <1>2, <2>3
<1> HIDE DEF file
<1>6. Acceptable(<<file>>)
  BY <1>0, <1>3, <1>4, <1>5, AcceptableMeans
<1> QED BY <1>6 DEF file

(* validate-tools finds nothing exactly when the files load together: whatever *)
(* it finds in one file alone, it would find in all of them                    *)
LEMMA ValidateFacts ==
    ASSUME NEW list \in Seq(FileSet)
    PROVE  ValidateFiles(list) = {} <=> LoadFiles(list).error = NoError
<1> DEFINE alone == [i \in DOMAIN list |-> LoadFiles(<<list[i]>>).error]
           failed == {i \in DOMAIN list : alone[i] # NoError}
<1>1. ValidateFiles(list) = IF failed # {} THEN {alone[i] : i \in failed}
                            ELSE IF LoadFiles(list).error # NoError THEN {Together} ELSE {}
  BY Zenon DEF ValidateFiles
<1>2. ASSUME LoadFiles(list).error = NoError, NEW i \in DOMAIN list
      PROVE  alone[i] = NoError
  <2>1. Acceptable(<<list[i]>>)
    BY <1>2, LoadFacts, EachAcceptable
  <2>2. <<list[i]>> \in Seq(FileSet)
    OBVIOUS
  <2>3. LoadFiles(<<list[i]>>).error = NoError
    BY <2>1, <2>2, LoadFacts
  <2> QED BY <2>3
<1>3. LoadFiles(list).error = NoError => failed = {}
  BY <1>2
<1> HIDE DEF alone, failed
<1> QED BY <1>1, <1>3

(* Both results are what the two functions return of the files given *)
FilesInv ==
    /\ FilesTypeOK
    /\ startup.run =>
          /\ startup.loaded = LoadFiles(files)
          /\ startup.ok <=> startup.loaded.error = NoError /\ ~(renaming /\ startup.loaded.masks # {})
    /\ validation.run => validation.failed = ValidateFiles(files)

(* For any set of files the start accepts the acceptable ones only, whatever   *)
(* their number and order, knows their tools and masked columns, and           *)
(* validate-tools says the same of them                                        *)
THEOREM ValidationPredicts == FilesSpec => []ValidationPredictsStartup
<1>1. FilesInit => FilesInv
  <2> SUFFICES ASSUME FilesInit PROVE FilesInv
    OBVIOUS
  <2>1. PICK n \in 1..MaxFiles : files \in [1..n -> FileSet]
    BY DEF FilesInit
  <2>2. n \in Nat
    BY <2>1
  <2>3. files \in Seq(FileSet)
    BY <2>1, <2>2
  <2> QED BY <2>3 DEF FilesInit, FilesInv, FilesTypeOK, NotRun
<1>2. FilesInv /\ [FilesNext]_fileSetVars => FilesInv'
  <2> SUFFICES ASSUME FilesInv, [FilesNext]_fileSetVars PROVE FilesInv'
    OBVIOUS
  <2>1. CASE StartUp
    <3>1. files' = files /\ renaming' = renaming /\ validation' = validation
      BY <2>1 DEF StartUp
    <3>2. startup' = [run |-> TRUE, loaded |-> LoadFiles(files),
                      ok |-> LoadFiles(files).error = NoError /\ ~(renaming /\ LoadFiles(files).masks # {})]
      BY <2>1, Zenon DEF StartUp
    <3>3. /\ startup'.run = TRUE /\ startup'.loaded = LoadFiles(files)
          /\ startup'.ok <=> LoadFiles(files).error = NoError /\ ~(renaming /\ LoadFiles(files).masks # {})
      BY <3>2
    <3> QED BY <3>1, <3>3 DEF FilesInv, FilesTypeOK
  <2>2. CASE RunValidateTools
    <3>1. files' = files /\ renaming' = renaming /\ startup' = startup
      BY <2>2 DEF RunValidateTools
    <3>2. validation' = [run |-> TRUE, failed |-> ValidateFiles(files)]
      BY <2>2 DEF RunValidateTools
    <3>3. validation'.run = TRUE /\ validation'.failed = ValidateFiles(files)
      BY <3>2
    <3> QED BY <3>1, <3>3 DEF FilesInv, FilesTypeOK
  <2>3. CASE UNCHANGED fileSetVars
    BY <2>3 DEF FilesInv, FilesTypeOK, fileSetVars
  <2> QED BY <2>1, <2>2, <2>3 DEF FilesNext
<1>3. FilesInv => ValidationPredictsStartup
  <2> SUFFICES ASSUME FilesInv PROVE ValidationPredictsStartup
    OBVIOUS
  <2>1. files \in Seq(FileSet) /\ FilesTypeOK
    BY DEF FilesInv, FilesTypeOK
  <2>2. ASSUME startup.run
        PROVE  /\ startup.loaded.error = NoError <=> Acceptable(files)
               /\ startup.ok => ~(renaming /\ MasksOf(files) # {})
               /\ startup.ok => {<<t.name, t.masked>> : t \in Range(startup.loaded.tools)}
                                = {<<t.name, t.plain \cap MasksOf(files)>> : t \in ToolsOf(files)}
    <3>1. /\ startup.loaded = LoadFiles(files)
          /\ startup.ok => startup.loaded.error = NoError /\ ~(renaming /\ startup.loaded.masks # {})
      BY <2>2 DEF FilesInv
    <3>2. LoadFiles(files).error = NoError <=> Acceptable(files)
      BY <2>1, LoadFacts
    <3>3. LoadFiles(files).error = NoError =>
             /\ LoadFiles(files).masks = MasksOf(files)
             /\ {<<t.name, t.masked>> : t \in Range(LoadFiles(files).tools)}
                = {<<t.name, t.plain \cap MasksOf(files)>> : t \in ToolsOf(files)}
      BY <2>1, LoadFacts
    <3> QED BY <3>1, <3>2, <3>3
  <2>3. ASSUME startup.run, validation.run
        PROVE  validation.failed = {} <=> startup.loaded.error = NoError
    BY <2>1, <2>3, ValidateFacts DEF FilesInv
  <2> QED BY <2>1, <2>2, <2>3 DEF ValidationPredictsStartup
<1> QED BY <1>1, <1>2, <1>3, PTL DEF FilesSpec

=============================================================================
