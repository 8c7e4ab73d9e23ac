------------------------------- MODULE MCTools -------------------------------
(* The small components around a tool call, side by side in one run. They share *)
(* no variable, so a product would only multiply their states: each behaviour   *)
(* belongs to one of them, the slice, and the others stay at one initial state. *)
EXTENDS ToolReload, RateLimiter, Lifecycle, DriverStatements, ReadQuery, NameLists,
        ErrorExplanations, SshTransport, ToolFiles, ExportWriters, TLC

CONSTANTS n1, q1, q2, A, B, t1, c1

Tool(q, b, m, s) == [sql |-> q, binds |-> b, masked |-> m, system |-> s]
ValidSets == { [n \in Names |-> Tool(q1, 1, FALSE, None)], [n \in Names |-> Tool(q1, 2, TRUE, None)],
               [n \in Names |-> Tool(q2, 1, FALSE, A)] }
PermittedLibraries == {<<q1, A>>, <<q1, B>>, <<q2, A>>}
FilterOf == [t \in {t1} |-> c1]

(* Files of business tools: what is wrong in some shows only beside others *)
YamlTool(n, v, plain, buried) == [name |-> n, valid |-> v, plain |-> plain, buried |-> buried]
YamlFile(p, sound, tools, annotated, masks, text) ==
    [path |-> p, sound |-> sound, tools |-> tools, annotations |-> annotated, masks |-> masks, text |-> text]
FileExamples == {
    YamlFile("a", TRUE, <<YamlTool("t1", TRUE, {"m"}, {})>>, {}, {}, 0),
    YamlFile("b", TRUE, <<YamlTool("t1", TRUE, {}, {})>>, {}, {}, 2),
    YamlFile("c", TRUE, <<YamlTool("t2", TRUE, {}, {"m"})>>, {}, {}, 0),
    YamlFile("d", TRUE, <<>>, {}, {"m"}, 0),
    YamlFile("e", TRUE, <<>>, {"o"}, {"m", "k"}, 0),
    YamlFile("f", TRUE, <<>>, {"o"}, {}, 2),
    YamlFile("g", FALSE, <<>>, {}, {}, 0),
    YamlFile("h", TRUE, <<YamlTool("q", TRUE, {}, {})>>, {}, {}, 0),
    YamlFile("i", TRUE, <<YamlTool("t3", FALSE, {}, {})>>, {}, {}, 0),
    YamlFile("j", TRUE, <<YamlTool("t3", TRUE, {"k"}, {}), YamlTool("t2", TRUE, {"m"}, {})>>, {}, {}, 1),
    YamlFile("k", TRUE, <<YamlTool("t3", TRUE, {}, {}), YamlTool("t3", TRUE, {"m"}, {})>>, {}, {}, 1),
    YamlFile("l", TRUE, <<YamlTool("t4", TRUE, {"k"}, {"m"})>>, {}, {"k"}, 4) }

VARIABLE slice

allVars == <<slice, vars, limiterVars, lifecycleVars, stmtVars, queryVars, listVars,
             errorVars, sshVars, fileSetVars, writerVars>>

Slices == {"reload", "limiter", "lifecycle", "statements", "query", "lists", "errors", "ssh", "files", "writers"}

(* Outside its slice a component rests at one initial state *)
MCInit ==
    /\ slice \in Slices
    /\ Init /\ (slice # "reload" => disk = CHOOSE set \in ToolSets : TRUE)
    /\ LimiterInit /\ (slice # "limiter" => maxRequests = CHOOSE limit \in Limits : TRUE)
    /\ LifecycleInit /\ (slice # "lifecycle" => mode = "both")
    /\ StatementsInit /\ (slice # "statements" => driver = "odbc" /\ cancels /\ kind = [s \in Statements |-> "timed"])
    /\ QueryInit /\ settings.default = 1 /\ settings.max = 2
    /\ slice # "query" => settings.parseCheck /\ settings.allowlist /\ filtered = {} /\ masking
    /\ ListsInit /\ (slice # "lists" => variant = "services")
    /\ ErrorsInit
    /\ SshInit
    /\ WritersInit /\ (slice # "writers" => fileFormat = "csv")
    /\ FilesInit /\ (slice # "files" => Len(files) = 1 /\ files[1].path = "a" /\ ~renaming)

MCNext ==
    \/ slice = "reload" /\ Next
       /\ UNCHANGED <<slice, limiterVars, lifecycleVars, stmtVars, queryVars, listVars,
                      errorVars, sshVars, fileSetVars, writerVars>>
    \/ slice = "limiter" /\ LimiterNext
       /\ UNCHANGED <<slice, vars, lifecycleVars, stmtVars, queryVars, listVars,
                      errorVars, sshVars, fileSetVars, writerVars>>
    \/ slice = "lifecycle" /\ LifecycleNext
       /\ UNCHANGED <<slice, vars, limiterVars, stmtVars, queryVars, listVars,
                      errorVars, sshVars, fileSetVars, writerVars>>
    \/ slice = "statements" /\ StatementsNext
       /\ UNCHANGED <<slice, vars, limiterVars, lifecycleVars, queryVars, listVars,
                      errorVars, sshVars, fileSetVars, writerVars>>
    \/ slice = "query" /\ QueryNext
       /\ UNCHANGED <<slice, vars, limiterVars, lifecycleVars, stmtVars, listVars,
                      errorVars, sshVars, fileSetVars, writerVars>>
    \/ slice = "lists" /\ ListsNext
       /\ UNCHANGED <<slice, vars, limiterVars, lifecycleVars, stmtVars, queryVars,
                      errorVars, sshVars, fileSetVars, writerVars>>
    \/ slice = "errors" /\ ErrorsNext
       /\ UNCHANGED <<slice, vars, limiterVars, lifecycleVars, stmtVars, queryVars,
                      listVars, sshVars, fileSetVars, writerVars>>
    \/ slice = "ssh" /\ SshNext
       /\ UNCHANGED <<slice, vars, limiterVars, lifecycleVars, stmtVars, queryVars,
                      listVars, errorVars, fileSetVars, writerVars>>
    \/ slice = "files" /\ FilesNext
       /\ UNCHANGED <<slice, vars, limiterVars, lifecycleVars, stmtVars, queryVars,
                      listVars, errorVars, sshVars, writerVars>>
    \/ slice = "writers" /\ WritersNext
       /\ UNCHANGED <<slice, vars, limiterVars, lifecycleVars, stmtVars, queryVars,
                      listVars, errorVars, sshVars, fileSetVars>>

MCSpec ==
    /\ MCInit /\ [][MCNext]_allVars
    /\ WF_vars(slice = "reload" /\ ScheduleReload) /\ WF_vars(slice = "reload" /\ Reload)
    /\ WF_lifecycleVars(slice = "lifecycle" /\ exit = "no" /\ ClientGone)
    /\ WF_lifecycleVars(slice = "lifecycle" /\ exit = "no" /\ Deadline)
    /\ \A s \in Statements :
          /\ WF_stmtVars(slice = "statements" /\ TimerFires(s)) /\ WF_stmtVars(slice = "statements" /\ GraceEnds(s))
          /\ WF_stmtVars(slice = "statements" /\ (CancelWorks(s) \/ CancelFails(s)))

=============================================================================
