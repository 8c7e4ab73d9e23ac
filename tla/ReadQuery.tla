------------------------------ MODULE ReadQuery ------------------------------
(* One read-only statement: the checks of execute_query and of a business tool *)
(* in their order, the row limit that is written into the statement, and the   *)
(* answer that says whether rows were left out. The tool files may be reloaded *)
(* while the IBM i is asked. What its parser and the read-only validator find  *)
(* in a text, and which selected columns a mask covers, is taken as given.     *)
(* Files: src/tools/{query,sqlLimit}.ts, src/customTools/{execute,filters,     *)
(* masking}.ts, src/config.ts                                                  *)
EXTENDS Naturals

CONSTANTS
    Tables,         \* annotated tables, each with one row filter
    Columns,        \* the columns that row filters name
    FilterColumn,   \* function: the column the filter of a table needs
    Counts,         \* row counts in statements, requests and settings
    MaxRows,        \* bound: rows that match a statement
    NoCount, NoTable

ASSUME CountsAssumption == Counts \subseteq Nat /\ MaxRows \in Nat /\ NoCount \notin Nat
ASSUME FilterAssumption == FilterColumn \in [Tables -> Columns] /\ NoTable \notin Tables

(* A statement as splitStatement() takes it apart. count is that of its own     *)
(* FETCH FIRST or LIMIT; a FETCH FIRST without one means one row. skip is an    *)
(* OFFSET in the head, or after LIMIT. columns: <<table, column>> of qualified  *)
(* names, <<NoTable, column>> of the others.                                    *)
SqlTexts == [clause : {"none", "fetch", "limit"}, count : Counts \cup {NoCount}, skip : Counts,
             tables : SUBSET Tables, columns : SUBSET ((Tables \cup {NoTable}) \X Columns)]

VARIABLES
    settings,       \* QUERY_PARSE_CHECK, QUERY_DEFAULT_LIMIT, QUERY_MAX_LIMIT, DB2I_ALLOWED_SCHEMAS
    filtered,       \* the loaded annotations with a row filter
    masking,        \* the loaded tool files mask columns
    request,        \* the call and where it is
    reply,          \* its answer
    steady          \* history: annotations that were loaded all through the call

queryVars == <<settings, filtered, masking, request, reply, steady>>

(* defaultLimit and maxLimit are at least 1 *)
Settings == [parseCheck : BOOLEAN, default : Counts \ {0}, max : Counts \ {0}, allowlist : BOOLEAN]
Requests == [pc : {"check", "parse", "explain", "execute"}, tool : BOOLEAN, sql : SqlTexts,
             limit : Counts \cup {NoCount}, skipped : SUBSET Tables, masked : BOOLEAN]
NoRequest == [pc |-> "idle"]
(* rows first..first+size-1 of the matching ones *)
Pages == [first : Nat, size : Nat]
Failures == {"security_validation", "bad_params", "allowlist", "masking", "parse_check", "sql_error"}
NoReply == [kind |-> "none"]
Replies == [kind : {"rows"}, sql : SqlTexts, page : Pages, truncated : BOOLEAN, limitApplied : Nat,
            skipped : SUBSET Tables, steady : SUBSET Tables, of : Nat]
           \cup [kind : Failures]

QueryTypeOK ==
    /\ settings \in Settings
    /\ filtered \subseteq Tables /\ steady \subseteq filtered
    /\ masking \in BOOLEAN
    /\ request \in Requests \cup {NoRequest}
    /\ reply \in Replies \cup {NoReply}

-----------------------------------------------------------------------------
(* Row limits *)

Least(a, b) == IF a < b THEN a ELSE b
Most(a, b) == IF a < b THEN b ELSE a

(* applyQueryLimit() *)
EffectiveLimit(requested) ==
    Least(Most(1, IF requested = NoCount THEN settings.default ELSE requested), settings.max)

(* applySqlRowLimit(): an own limit is clamped, and keeps its offset *)
OwnLimit(sql) == IF sql.count = NoCount THEN 1 ELSE sql.count
(* Mutant: the statement's own limit is raised to the server's *)
LimitedAlike(sql, limit) ==
    [sql EXCEPT !.clause = IF @ = "none" THEN "fetch" ELSE @, !.count = limit]

Limited(sql, limit) ==
    IF sql.clause = "none" THEN [sql EXCEPT !.clause = "fetch", !.count = limit]
    ELSE [sql EXCEPT !.count = Least(OwnLimit(sql), limit)]

(* What the IBM i returns for a statement of which n rows match *)
ResultOf(sql, n) ==
    LET left == IF n > sql.skip THEN n - sql.skip ELSE 0
    IN  [first |-> sql.skip + 1,
         size |-> IF sql.clause = "none" THEN left ELSE Least(OwnLimit(sql), left)]

(* takeRowsWithinLimit() *)
Within(page, limit) == [page EXCEPT !.size = Least(page.size, limit)]

-----------------------------------------------------------------------------
(* Row filters *)

(* checkRowFilters(): an unqualified column, which any table may have, counts   *)
(* as a use of the filter.                                                      *)
Uses(sql, t) ==
    \E owner \in {t, NoTable} : <<owner, FilterColumn[t]>> \in sql.columns
SkippedFilters(sql) == {t \in sql.tables \cap filtered : ~Uses(sql, t)}

-----------------------------------------------------------------------------
QueryInit ==
    /\ settings \in Settings
    /\ filtered \in SUBSET Tables
    /\ masking \in BOOLEAN
    /\ request = NoRequest
    /\ reply = NoReply
    /\ steady = {}

(* The tool files are reloaded during a call *)
ReloadFiles ==
    /\ request.pc \in {"parse", "explain", "execute"}
    /\ filtered' \in SUBSET Tables
    /\ masking' \in BOOLEAN
    /\ steady' = steady \cap filtered'
    /\ UNCHANGED <<settings, request, reply>>

(* A count that a limit clause has not is NoCount; LIMIT always has one *)
Wellformed(sql) ==
    CASE sql.clause = "none" -> sql.count = NoCount
      [] sql.clause = "limit" -> sql.count # NoCount
      [] OTHER -> TRUE

Ask ==
    /\ request = NoRequest /\ reply = NoReply
    /\ \E tool \in BOOLEAN, sql \in SqlTexts, limit \in Counts \cup {NoCount} :
          /\ Wellformed(sql)
          /\ limit # 0    \* positive in the schemas of both
          /\ request' = [pc |-> "check", tool |-> tool, sql |-> sql, limit |-> limit,
                         skipped |-> {}, masked |-> FALSE]
    /\ steady' = filtered
    /\ UNCHANGED <<settings, filtered, masking, reply>>

Rejected(why) == request' = NoRequest /\ reply' = [kind |-> why]

(* The answer leaves; another call follows. *)
Answer ==
    /\ reply # NoReply
    /\ reply' = NoReply
    /\ UNCHANGED <<settings, filtered, masking, request, steady>>

(* The synchronous checks. A business tool was validated when it was loaded,   *)
(* and its parse may be remembered. Without the parse check, masks refuse      *)
(* execute_query and row filters are not looked at.                            *)
Check ==
    /\ request.pc = "check"
    /\ \/ ~request.tool /\ Rejected("security_validation")
       \/ request.tool /\ Rejected("bad_params")
       \/ settings.allowlist /\ ~settings.parseCheck /\ Rejected("allowlist")
       \/ ~request.tool /\ masking /\ ~settings.parseCheck /\ Rejected("masking")
       \/ /\ request.tool \/ settings.parseCheck \/ ~masking
          /\ \E next \in {"parse", "execute"} :
                /\ next = "parse" => settings.parseCheck
                /\ next = "execute" => request.tool \/ ~settings.parseCheck
                /\ request' = [request EXCEPT !.pc = next]
          /\ UNCHANGED reply
    /\ UNCHANGED <<settings, filtered, masking, steady>>

(* PARSE_STATEMENT answered: the allowlist, the masks and the filters are      *)
(* judged in one go on what is loaded now, not when the call came in.          *)
Parsed ==
    /\ request.pc = "parse"
    /\ \/ Rejected("parse_check")   \* another statement type, or the service is missing
       \/ Rejected("sql_error")
       \/ settings.allowlist /\ Rejected("allowlist")
       \/ ~request.tool /\ masking /\ Rejected("masking")
       \/ \E covered \in BOOLEAN :
             /\ covered => request.tool \/ masking
             /\ request' = [request EXCEPT !.pc = "execute", !.masked = covered,
                               !.skipped = IF request.tool THEN {} ELSE SkippedFilters(request.sql)]
             /\ UNCHANGED reply
    /\ UNCHANGED <<settings, filtered, masking, steady>>

(* No row came back: the statement is prepared to learn why *)
ParsedEmpty ==
    /\ request.pc = "parse"
    /\ request' = [request EXCEPT !.pc = "explain"]
    /\ UNCHANGED <<settings, filtered, masking, reply, steady>>

Explain ==
    /\ request.pc = "explain"
    /\ Rejected("parse_check")
    /\ UNCHANGED <<settings, filtered, masking, steady>>

(* One row past the limit tells a full result from a cut one. A result without *)
(* a column that has a mask is not returned.                                   *)
Executed ==
    /\ request.pc = "execute"
    /\ \E matching \in 0..MaxRows :
       LET limit == EffectiveLimit(request.limit)
           fetched == ResultOf(Limited(request.sql, limit + 1), matching)
       IN  \/ /\ request' = NoRequest
              /\ reply' = [kind |-> "rows", sql |-> request.sql, page |-> Within(fetched, limit),
                           truncated |-> fetched.size > limit, limitApplied |-> limit,
                           skipped |-> request.skipped,
                           steady |-> IF request.tool THEN {} ELSE steady, of |-> matching]
           \/ request.masked /\ fetched.size > 0 /\ Rejected("masking")
    /\ UNCHANGED <<settings, filtered, masking, steady>>

ExecuteFails ==
    /\ request.pc = "execute"
    /\ Rejected("sql_error")
    /\ UNCHANGED <<settings, filtered, masking, steady>>

QueryNext ==
    \/ ReloadFiles
    \/ Ask \/ Answer \/ Check \/ Parsed \/ ParsedEmpty \/ Explain \/ Executed \/ ExecuteFails

QuerySpec == QueryInit /\ [][QueryNext]_queryVars

-----------------------------------------------------------------------------
(* Properties *)

(* An answer tells the truth about the statement as its author wrote it: the    *)
(* rows are the first ones of that statement's own result, offset and limit     *)
(* included, as many as the effective limit allows, which never passes          *)
(* QUERY_MAX_LIMIT; truncated says exactly whether that result has more; and    *)
(* with the parse check on, a filter the statement leaves out is told of, if it *)
(* was loaded all through the call, and no filter that the statement uses.      *)
AnswerIsExact ==
    reply.kind = "rows" =>
        LET own == ResultOf(reply.sql, reply.of)
        IN  /\ reply.page = Within(own, reply.limitApplied)
            /\ reply.truncated <=> own.size > reply.limitApplied
            /\ reply.limitApplied \in 1..settings.max
            /\ settings.parseCheck =>
                  {t \in reply.sql.tables \cap reply.steady : ~Uses(reply.sql, t)} \subseteq reply.skipped
            /\ \A t \in reply.skipped : t \in reply.sql.tables /\ ~Uses(reply.sql, t)

=============================================================================
