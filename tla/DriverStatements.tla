--------------------------- MODULE DriverStatements ---------------------------
(* Statements of the ODBC and JT400 drivers: a connection of the pool each,    *)
(* QUERY_TIMEOUT with its cancel and grace period, and the opening of an       *)
(* export's cursor, which can be aborted. The pools themselves, SQLCancel and  *)
(* QSYS2.CANCEL_SQL are outside the repository: a cancel may fail, and one     *)
(* that succeeds need not end the statement.                                   *)
(* Files: src/db/driver.ts, src/db/drivers/{odbc,jt400}.ts                     *)

CONSTANTS
    Statements,     \* statements under way
    Conns,          \* connections a pool can open
    NoConn

ASSUME NoConnAssumption == NoConn \notin Conns

VARIABLES
    driver,     \* "odbc" or "jt400"
    kind,       \* query with or without a time limit, or cursor
    cancels,    \* cancelJob is given (JT400 has no other way to cancel)
    exec,       \* the execution: the promise the caller's answer depends on
    handle,     \* the ODBC statement handle, or the JT400 job name, is known
    conn,       \* the connection held
    limitTimer, \* of withQueryTimeout()
    answer,     \* what the caller was told
    aborted,    \* the cursor's signal
    stopped     \* history: the abort came before the statement was executed

stmtVars == <<driver, kind, cancels, exec, handle, conn, limitTimer, answer, aborted, stopped>>
fixed == <<driver, kind, cancels>>

Kinds == {"timed", "untimed", "cursor"}
(* connect: waits for a connection. create: no handle yet. prepare: prepared   *)
(* and bound. run: executed. open: a cursor that can be read. ended: settled,  *)
(* the connection is on its way back.                                          *)
Steps == {"idle", "connect", "create", "prepare", "run", "open", "ended"}
Answers == {"none", "rows", "error", "cancelled", "running"}

StatementsTypeOK ==
    /\ driver \in {"odbc", "jt400"}
    /\ kind \in [Statements -> Kinds]
    /\ cancels \in BOOLEAN
    /\ exec \in [Statements -> Steps]
    /\ {handle, aborted, stopped} \subseteq [Statements -> BOOLEAN]
    /\ conn \in [Statements -> Conns \cup {NoConn}]
    /\ limitTimer \in [Statements -> {"off", "armed", "cancelling", "grace"}]
    /\ answer \in [Statements -> Answers]

StatementsInit ==
    /\ driver \in {"odbc", "jt400"}
    /\ kind \in [Statements -> Kinds]
    /\ cancels \in BOOLEAN
    /\ exec = [s \in Statements |-> "idle"]
    /\ handle = [s \in Statements |-> FALSE]
    /\ conn = [s \in Statements |-> NoConn]
    /\ limitTimer = [s \in Statements |-> "off"]
    /\ answer = [s \in Statements |-> "none"]
    /\ aborted = [s \in Statements |-> FALSE]
    /\ stopped = [s \in Statements |-> FALSE]

FreeConns == Conns \ {conn[s] : s \in Statements}
Settled(s) == answer[s] # "none"

(* JT400 gives its connection back before the promise settles; ODBC releases   *)
(* it in a callback of its own.                                                *)
GiveBack(s) == conn' = IF driver = "jt400" THEN [conn EXCEPT ![s] = NoConn] ELSE conn

(* The execution settles. Before the limit its outcome is the caller's; after  *)
(* it the outcome is dropped, and during the grace period it ends the wait.    *)
Settle(s, outcome) ==
    /\ exec' = [exec EXCEPT ![s] = "ended"]
    /\ GiveBack(s)
    /\ limitTimer' = [limitTimer EXCEPT ![s] = IF @ = "cancelling" THEN @ ELSE "off"]
    /\ answer' = [answer EXCEPT ![s] =
                    CASE Settled(s) \/ limitTimer[s] = "cancelling" -> @
                      [] limitTimer[s] = "grace"                    -> "cancelled"
                      [] OTHER                                 -> outcome]

-----------------------------------------------------------------------------
(* Execution *)

(* The ODBC limit starts with the connection: waiting for one is not limited.  *)
(* JT400 takes its connection inside the transaction, under the limit.         *)
ArmTimer(s, when) ==
    limitTimer' = IF kind[s] = "timed" /\ driver = when THEN [limitTimer EXCEPT ![s] = "armed"] ELSE limitTimer

Request(s) ==
    /\ exec[s] = "idle"
    /\ exec' = [exec EXCEPT ![s] = "connect"]
    /\ ArmTimer(s, "jt400")
    /\ UNCHANGED <<fixed, handle, conn, answer, aborted, stopped>>

(* openOdbcCursor() looks at the signal before anything else *)
Connect(s) ==
    /\ exec[s] = "connect"
    /\ \E c \in FreeConns : conn' = [conn EXCEPT ![s] = c]
    /\ IF aborted[s] /\ driver = "odbc"
       THEN exec' = [exec EXCEPT ![s] = "ended"] /\ answer' = [answer EXCEPT ![s] = "error"] /\ UNCHANGED limitTimer
       ELSE exec' = [exec EXCEPT ![s] = "create"] /\ ArmTimer(s, "odbc") /\ UNCHANGED answer
    /\ UNCHANGED <<fixed, handle, aborted, stopped>>

(* throwIfAborted(), right before the statement would be executed *)
Reject(s) ==
    /\ exec[s] = "prepare" /\ aborted[s]
    /\ Settle(s, "error")
    /\ UNCHANGED <<fixed, handle, aborted, stopped>>

(* ODBC: createStatement(). JT400: the job name, read only for a cancel; it    *)
(* may come back empty.                                                        *)
KnowHandle(s) ==
    /\ exec[s] = "create"
    /\ exec' = [exec EXCEPT ![s] = "prepare"]
    /\ \E known \in BOOLEAN :
          /\ driver = "odbc" => known = (kind[s] # "untimed")
          /\ driver = "jt400" => (known => cancels /\ kind[s] # "untimed")
          /\ handle' = [handle EXCEPT ![s] = known]
    /\ UNCHANGED <<fixed, conn, limitTimer, answer, aborted, stopped>>

(* Mutant: no look at the signal between the prepare and the execution *)
ExecuteAnyway(s) ==
    /\ exec[s] = "prepare"
    /\ exec' = [exec EXCEPT ![s] = "run"]
    /\ UNCHANGED <<fixed, handle, conn, limitTimer, answer, aborted, stopped>>

Execute(s) ==
    /\ exec[s] = "prepare" /\ ~aborted[s]
    /\ exec' = [exec EXCEPT ![s] = "run"]
    /\ UNCHANGED <<fixed, handle, conn, limitTimer, answer, aborted, stopped>>

(* A connection, a prepare or the statement fails, or it was cancelled *)
Fails(s) ==
    /\ exec[s] \in {"connect", "create", "prepare", "run"}
    /\ Settle(s, "error")
    /\ UNCHANGED <<fixed, handle, aborted, stopped>>

Answered(s) ==
    /\ exec[s] = "run" /\ kind[s] # "cursor"
    /\ Settle(s, "rows")
    /\ UNCHANGED <<fixed, handle, aborted, stopped>>

Opens(s) ==
    /\ exec[s] = "run" /\ kind[s] = "cursor"
    /\ exec' = [exec EXCEPT ![s] = "open"]
    /\ answer' = [answer EXCEPT ![s] = "rows"]
    /\ UNCHANGED <<fixed, handle, conn, limitTimer, aborted, stopped>>

(* close() of the cursor *)
CloseOpened(s) ==
    /\ exec[s] = "open"
    /\ exec' = [exec EXCEPT ![s] = "ended"]
    /\ GiveBack(s)
    /\ UNCHANGED <<fixed, handle, limitTimer, answer, aborted, stopped>>

(* The ODBC release: statement and connection are closed *)
Release(s) ==
    /\ exec[s] = "ended" /\ conn[s] # NoConn
    /\ conn' = [conn EXCEPT ![s] = NoConn]
    /\ UNCHANGED <<fixed, exec, handle, limitTimer, answer, aborted, stopped>>

-----------------------------------------------------------------------------
(* Time limit and abort *)

(* Without a handle, or a way to use it, there is nothing to cancel *)
TimerFires(s) ==
    /\ limitTimer[s] = "armed"
    /\ IF handle[s]
       THEN limitTimer' = [limitTimer EXCEPT ![s] = "cancelling"] /\ UNCHANGED answer
       ELSE limitTimer' = [limitTimer EXCEPT ![s] = "off"] /\ answer' = [answer EXCEPT ![s] = "running"]
    /\ UNCHANGED <<fixed, exec, handle, conn, aborted, stopped>>

CancelWorks(s) ==
    /\ limitTimer[s] = "cancelling"
    /\ IF exec[s] = "ended"
       THEN limitTimer' = [limitTimer EXCEPT ![s] = "off"] /\ answer' = [answer EXCEPT ![s] = "cancelled"]
       ELSE limitTimer' = [limitTimer EXCEPT ![s] = "grace"] /\ UNCHANGED answer
    /\ UNCHANGED <<fixed, exec, handle, conn, aborted, stopped>>

CancelFails(s) ==
    /\ limitTimer[s] = "cancelling"
    /\ limitTimer' = [limitTimer EXCEPT ![s] = "off"]
    /\ answer' = [answer EXCEPT ![s] = "running"]
    /\ UNCHANGED <<fixed, exec, handle, conn, aborted, stopped>>

(* Mutant: after a cancel the statement is waited for, however long it takes *)
GraceEndsSilently(s) ==
    /\ limitTimer[s] = "grace"
    /\ limitTimer' = [limitTimer EXCEPT ![s] = "off"]
    /\ UNCHANGED <<fixed, exec, handle, conn, answer, aborted, stopped>>

GraceEnds(s) ==
    /\ limitTimer[s] = "grace"
    /\ limitTimer' = [limitTimer EXCEPT ![s] = "off"]
    /\ answer' = [answer EXCEPT ![s] = "cancelled"]
    /\ UNCHANGED <<fixed, exec, handle, conn, aborted, stopped>>

(* The export's deadline. With a handle the statement is cancelled, which it   *)
(* need not notice; without one the opening has still to pass a check.         *)
Abort(s) ==
    /\ kind[s] = "cursor" /\ ~aborted[s]
    /\ exec[s] \in {"connect", "create", "prepare", "run"}
    /\ aborted' = [aborted EXCEPT ![s] = TRUE]
    /\ stopped' = [stopped EXCEPT ![s] = exec[s] # "run"]
    /\ UNCHANGED <<fixed, exec, handle, conn, limitTimer, answer>>

-----------------------------------------------------------------------------
StatementsNext ==
    \E s \in Statements :
        \/ Request(s) \/ Connect(s) \/ Reject(s) \/ KnowHandle(s)
        \/ Execute(s) \/ Fails(s) \/ Answered(s) \/ Opens(s) \/ CloseOpened(s) \/ Release(s)
        \/ TimerFires(s) \/ CancelWorks(s) \/ CancelFails(s) \/ GraceEnds(s)
        \/ Abort(s)

StatementsSpec == StatementsInit /\ [][StatementsNext]_stmtVars

(* Timers run and a cancel comes to an end. Nothing is assumed of a statement. *)
StatementsFairness ==
    \A s \in Statements :
        /\ WF_stmtVars(TimerFires(s)) /\ WF_stmtVars(GraceEnds(s))
        /\ WF_stmtVars(CancelWorks(s) \/ CancelFails(s))

-----------------------------------------------------------------------------
(* Properties *)

(* A connection carries one statement at a time: whatever the caller was told, *)
(* it is held until the statement ended. "Cancelled" is never told of a        *)
(* statement that had no handle to cancel, and an abort that comes before the  *)
(* statement is executed keeps it from being executed.                         *)
HeldWhileRunning ==
    /\ StatementsTypeOK
    /\ \A s, t \in Statements : s # t /\ conn[s] = conn[t] => conn[s] = NoConn
    /\ \A s \in Statements :
          /\ exec[s] \in {"create", "prepare", "run", "open"} => conn[s] # NoConn
          /\ answer[s] = "cancelled" => handle[s]
          /\ stopped[s] => exec[s] \notin {"run", "open"}

(* Once the time limit runs, the caller is answered, although the statement,   *)
(* its cancel's effect and the connection may never come to an end.            *)
TimedStatementsSettle ==
    \A s \in Statements : limitTimer[s] = "armed" ~> Settled(s)

=============================================================================
