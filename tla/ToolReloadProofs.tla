-------------------------- MODULE ToolReloadProofs ---------------------------
(***************************************************************************)
(* TLAPS proofs about business tools that are reloaded while they run: for *)
(* any tools, systems, servers, calls and contents of the files.           *)
(***************************************************************************)
EXTENDS ToolReload, TLAPS

USE NoneAssumption, SetsAssumption

(* A cached outcome is of the statement loaded under that name, or late *)
CacheFresh ==
    \A s \in Systems, n \in Names : cache[<<s, n>>] # None =>
        /\ cache[<<s, n>>].system = s
        /\ ~cache[<<s, n>>].late => loaded[n] # None /\ cache[<<s, n>>].of = loaded[n].sql

(* A call that no reload overtook runs the loaded statement of its tool *)
CallsFresh ==
    \A c \in Calls : call[c] # Idle /\ ~call[c].late =>
        loaded[call[c].name] # None /\ call[c].def.sql = loaded[call[c].name].sql

-----------------------------------------------------------------------------
(* Operators *)

LEMMA SessionToolsType ==
    ASSUME NEW set \in [Names -> Defs \cup {None}], NEW s
    PROVE  SessionTools(set, s) \in [Names -> Defs \cup {None}]
BY DEF SessionTools

LEMMA LoadedType ==
    ASSUME NEW set \in ToolSets
    PROVE  set \in [Names -> Defs \cup {None}] /\ set # Broken
OBVIOUS

LEMMA SyncType ==
    ASSUME NEW tools \in [Names -> Defs \cup {None}], NEW next \in [Names -> Defs \cup {None}]
    PROVE  SyncOneServer(tools, next) \in [Names -> Defs \cup {None}]
BY DEF SyncOneServer

(* What a server registers once it was brought up to date *)
LEMMA SyncFollows ==
    ASSUME NEW tools, NEW next, NEW n \in Names
    PROVE  \/ SyncOneServer(tools, next)[n] = next[n]
           \/ SameSignature(SyncOneServer(tools, next)[n], next[n])
BY DEF SyncOneServer

-----------------------------------------------------------------------------
(* Type correctness *)

LEMMA RunType ==
    ASSUME TypeOK, NEW c \in Calls, NEW d \in Busy, NEW o \in Outcomes, Run(c, d, o)
    PROVE  call' \in [Calls -> Busy \cup {Idle}]
<1>1. [d EXCEPT !.pc = "run", !.used = o] \in Busy
    BY DEF Busy
<1> QED
    BY <1>1 DEF Run, TypeOK

LEMMA OutcomeType ==
    ASSUME TypeOK, NEW c \in Calls, call[c] # Idle, NEW ok \in BOOLEAN
    PROVE  OutcomeOf(c, ok) \in Outcomes /\ call[c] \in Busy
<1>1. call[c] \in Busy
    BY DEF TypeOK
<1> QED
    BY <1>1 DEF OutcomeOf, Outcomes, Busy, Defs

LEMMA OffersType ==
    ASSUME TypeOK, NEW b \in Systems \cup {None}, NEW offer \in Offers(b)
    PROVE  offer[1] \in [Names -> Defs \cup {None}]
<1>1. CASE offer = <<SessionTools(loaded, b), b>>
    BY <1>1, SessionToolsType, LoadedType DEF TypeOK
<1>2. CASE \E v \in Servers : live[v] # None /\ offer = <<live[v], bound[v]>>
    BY <1>2 DEF TypeOK
<1> QED
    BY <1>1, <1>2 DEF Offers

LEMMA BeginType ==
    ASSUME TypeOK, NEW c \in Calls, NEW system \in Systems, NEW offer, NEW n \in Names,
           offer[1] \in [Names -> Defs \cup {None}], BeginWith(c, system, offer, n)
    PROVE  call' \in [Calls -> Busy \cup {Idle}]
<1>1. Started(n, offer[1][n], system) \in Busy
    BY DEF Started, Busy, BeginWith
<1>2. CASE cache[<<system, n>>] = None
    BY <1>1, <1>2 DEF TypeOK, BeginWith
<1>3. CASE cache[<<system, n>>] # None
    <2>1. cache[<<system, n>>] \in Outcomes
        BY <1>3 DEF TypeOK
    <2> QED
        BY <1>1, <1>3, <2>1, RunType DEF BeginWith
<1> QED
    BY <1>2, <1>3

LEMMA TypeInit == Init => TypeOK
<1> SUFFICES ASSUME Init PROVE TypeOK
    OBVIOUS
<1>1. disk \in ToolSets /\ loaded \in ToolSets /\ loads \in Nat
    BY DEF Init
<1>2. {missed, newDir, event, reloadTimer} \subseteq BOOLEAN /\ watching \in {"none", "on", "lost", "stopped"}
    BY DEF Init
<1>3. cache \in [Systems \X Names -> Outcomes \cup {None}]
    BY DEF Init
<1>4. /\ live \in [Servers -> [Names -> Defs \cup {None}] \cup {None}]
      /\ bound \in [Servers -> Systems \cup {None}]
      /\ call \in [Calls -> Busy \cup {Idle}]
    BY DEF Init
<1> QED
    BY <1>1, <1>2, <1>3, <1>4 DEF TypeOK

LEMMA TypeStep == TypeOK /\ [Next]_vars => TypeOK'
<1> SUFFICES ASSUME TypeOK, [Next]_vars PROVE TypeOK'
    OBVIOUS
<1>1. CASE FilesChange
    BY <1>1 DEF FilesChange, Save, ReplaceFile, SaveUnseen, MakeDir, TypeOK, registryVars, serverVars
<1>2. CASE ScheduleReload
    BY <1>2 DEF ScheduleReload, TypeOK, registryVars, serverVars
<1>3. CASE StartWatch \/ WatchFails \/ StopWatch
    BY <1>3 DEF StartWatch, WatchFails, StopWatch, TypeOK, fileVars, registryVars, serverVars
<1>4. CASE Reload
    <2>1. CASE disk = Broken
        BY <1>4, <2>1 DEF Reload, TypeOK, registryVars
    <2>2. CASE disk # Broken
        <3>1. disk \in ToolSets
            BY <2>2 DEF TypeOK
        <3>2. \A v \in Servers : live[v] # None =>
                SyncOneServer(live[v], SessionTools(disk, bound[v])) \in [Names -> Defs \cup {None}]
            BY <3>1, SyncType, SessionToolsType, LoadedType DEF TypeOK
        <3>3. live' \in [Servers -> [Names -> Defs \cup {None}] \cup {None}]
            BY <1>4, <2>2, <3>2 DEF Reload, SyncLive
        <3>4. \A d \in Busy : [d EXCEPT !.late = TRUE] \in Busy
            BY DEF Busy
        <3>5. call' \in [Calls -> Busy \cup {Idle}]
            BY <1>4, <2>2, <3>4 DEF Reload, TypeOK
        <3>6. loads' \in Nat /\ loaded' \in ToolSets
            BY <1>4, <2>2, <3>1 DEF Reload, TypeOK
        <3>7. cache' \in [Systems \X Names -> Outcomes \cup {None}]
            BY <1>4, <2>2 DEF Reload
        <3> QED
            BY <1>4, <2>2, <3>3, <3>5, <3>6, <3>7 DEF Reload, TypeOK
    <2> QED
        BY <2>1, <2>2
<1>5. ASSUME NEW v \in Servers, OpenServer(v) PROVE TypeOK'
    <2>1. PICK s \in Systems \cup {None} :
              /\ bound' = [bound EXCEPT ![v] = s]
              /\ live' = [live EXCEPT ![v] = SessionTools(loaded, s)]
        BY <1>5 DEF OpenServer
    <2>2. SessionTools(loaded, s) \in [Names -> Defs \cup {None}]
        BY SessionToolsType, LoadedType DEF TypeOK
    <2> QED
        BY <1>5, <2>1, <2>2 DEF OpenServer, TypeOK, fileVars, watchVars, registryVars
<1>6. ASSUME NEW v \in Servers, CloseServer(v) PROVE TypeOK'
    BY <1>6 DEF CloseServer, TypeOK, fileVars, watchVars, registryVars
<1>7. ASSUME NEW c \in Calls, Begin(c) PROVE TypeOK'
    <2>1. PICK system \in Systems, b \in Systems \cup {None} :
              \E offer \in Offers(b), n \in Names : BeginWith(c, system, offer, n)
        BY <1>7 DEF Begin
    <2>2. PICK offer \in Offers(b), n \in Names : BeginWith(c, system, offer, n)
        BY <2>1
    <2>3. call' \in [Calls -> Busy \cup {Idle}]
        BY <2>2, OffersType, BeginType
    <2> QED
        BY <1>7, <2>3 DEF Begin, TypeOK, fileVars, watchVars, registryVars, serverVars
<1>8. ASSUME NEW c \in Calls, ParseAnswers(c) PROVE TypeOK'
    <2>1. PICK ok \in BOOLEAN : Remember(c, OutcomeOf(c, ok)) /\ Run(c, call[c], OutcomeOf(c, ok))
        BY <1>8 DEF ParseAnswers
    <2>2. call[c] # Idle
        BY <1>8 DEF ParseAnswers, Idle
    <2>3. OutcomeOf(c, ok) \in Outcomes /\ call[c] \in Busy
        BY <2>2, OutcomeType
    <2>4. call' \in [Calls -> Busy \cup {Idle}]
        BY <2>1, <2>3, RunType
    <2>5. cache' \in [Systems \X Names -> Outcomes \cup {None}]
        BY <2>1, <2>3 DEF Remember, TypeOK
    <2> QED
        BY <1>8, <2>4, <2>5 DEF ParseAnswers, TypeOK, fileVars, watchVars, serverVars
<1>9. ASSUME NEW c \in Calls, ParseEmpty(c) PROVE TypeOK'
    <2>1. call[c] # Idle
        BY <1>9 DEF ParseEmpty, Idle
    <2>2. call[c] \in Busy
        BY <2>1 DEF TypeOK
    <2>3. [call[c] EXCEPT !.pc = "explain"] \in Busy
        BY <2>2 DEF Busy
    <2> QED
        BY <1>9, <2>3 DEF ParseEmpty, TypeOK, fileVars, watchVars, registryVars, serverVars
<1>10. ASSUME NEW c \in Calls, Explained(c) PROVE TypeOK'
    <2>1. call[c] # Idle
        BY <1>10 DEF Explained, Idle
    <2>2. OutcomeOf(c, FALSE) \in Outcomes /\ call[c] \in Busy
        BY <2>1, OutcomeType
    <2>3. cache' \in [Systems \X Names -> Outcomes \cup {None}]
        BY <1>10, <2>2 DEF Explained, Remember, TypeOK
    <2> QED
        BY <1>10, <2>3 DEF Explained, TypeOK, fileVars, watchVars, serverVars
<1>11. ASSUME NEW c \in Calls, CallEnds(c) PROVE TypeOK'
    BY <1>11 DEF CallEnds, TypeOK, fileVars, watchVars, registryVars, serverVars
<1>12. CASE UNCHANGED vars
    BY <1>12 DEF vars, TypeOK
<1> QED
    BY <1>1, <1>2, <1>3, <1>4, <1>5, <1>6, <1>7, <1>8, <1>9, <1>10, <1>11, <1>12 DEF Next

\* Every reachable state is of its type, for any tools, systems, servers and
\* calls.
THEOREM TypeCorrect == Spec => []TypeOK
BY TypeInit, TypeStep, PTL DEF Spec

-----------------------------------------------------------------------------
(* The servers that outlive a request *)

LEMMA FollowsInit == Init => LiveToolsFollow
BY DEF Init, LiveToolsFollow

LEMMA FollowsReload == TypeOK /\ LiveToolsFollow /\ Reload => LiveToolsFollow'
<1> SUFFICES ASSUME TypeOK, LiveToolsFollow, Reload, NEW v \in Servers, live'[v] # None, NEW n \in Names
             PROVE  \/ live'[v][n] = SessionTools(loaded', bound'[v])[n]
                    \/ SameSignature(live'[v][n], SessionTools(loaded', bound'[v])[n])
    BY DEF LiveToolsFollow
<1>1. CASE disk = Broken
    <2>1. loaded' = loaded /\ live' = live /\ bound' = bound
        BY <1>1 DEF Reload, registryVars
    <2> QED
        BY <2>1 DEF LiveToolsFollow
<1>2. CASE disk # Broken
    <2>1. loaded' = disk /\ bound' = bound /\ live' = SyncLive(disk)
        BY <1>2 DEF Reload
    <2>2. live'[v] = SyncOneServer(live[v], SessionTools(disk, bound[v]))
        BY <2>1 DEF SyncLive
    <2> QED
        BY <2>1, <2>2, SyncFollows
<1> QED
    BY <1>1, <1>2

LEMMA FollowsStep == TypeOK /\ LiveToolsFollow /\ [Next]_vars => LiveToolsFollow'
<1> SUFFICES ASSUME TypeOK, LiveToolsFollow, [Next]_vars PROVE LiveToolsFollow'
    OBVIOUS
<1>1. ASSUME UNCHANGED <<loaded, live, bound>> PROVE LiveToolsFollow'
    BY <1>1 DEF LiveToolsFollow
<1>2. CASE FilesChange
    BY <1>1, <1>2 DEF FilesChange, registryVars, serverVars
<1>3. CASE ScheduleReload
    BY <1>1, <1>3 DEF ScheduleReload, registryVars, serverVars
<1>4. CASE StartWatch \/ WatchFails \/ StopWatch
    BY <1>1, <1>4 DEF StartWatch, WatchFails, StopWatch, registryVars, serverVars
<1>5. CASE Reload
    BY <1>5, FollowsReload
<1>6. ASSUME NEW v \in Servers, OpenServer(v) PROVE LiveToolsFollow'
    <2>1. PICK s \in Systems \cup {None} :
              /\ bound' = [bound EXCEPT ![v] = s]
              /\ live' = [live EXCEPT ![v] = SessionTools(loaded, s)]
        BY <1>6 DEF OpenServer
    <2>2. loaded' = loaded
        BY <1>6 DEF OpenServer, registryVars
    <2>3. live'[v] = SessionTools(loaded, s) /\ bound'[v] = s
        BY <2>1 DEF TypeOK
    <2>4. \A w \in Servers \ {v} : live'[w] = live[w] /\ bound'[w] = bound[w]
        BY <2>1 DEF TypeOK
    <2> QED
        BY <2>2, <2>3, <2>4 DEF LiveToolsFollow
<1>7. ASSUME NEW v \in Servers, CloseServer(v) PROVE LiveToolsFollow'
    <2>1. loaded' = loaded /\ bound' = bound /\ live' = [live EXCEPT ![v] = None]
        BY <1>7 DEF CloseServer, registryVars
    <2> QED
        BY <2>1 DEF LiveToolsFollow, TypeOK
<1>8. ASSUME NEW c \in Calls,
             Begin(c) \/ ParseAnswers(c) \/ ParseEmpty(c) \/ Explained(c) \/ CallEnds(c)
      PROVE  LiveToolsFollow'
    BY <1>1, <1>8 DEF Begin, ParseAnswers, ParseEmpty, Explained, CallEnds, registryVars, serverVars
<1>9. CASE UNCHANGED vars
    BY <1>1, <1>9 DEF vars
<1> QED
    BY <1>2, <1>3, <1>4, <1>5, <1>6, <1>7, <1>8, <1>9 DEF Next

\* A server that outlives its request registers exactly the loaded tools its
\* session can reach, each with the loaded statement and system, whatever was
\* reloaded while it was open.
THEOREM LiveServersFollowTheRegistry == Spec => []LiveToolsFollow
<1>1. Init => TypeOK /\ LiveToolsFollow
    BY TypeInit, FollowsInit
<1>2. TypeOK /\ LiveToolsFollow /\ [Next]_vars => (TypeOK /\ LiveToolsFollow)'
    BY TypeStep, FollowsStep
<1> QED
    BY <1>1, <1>2, PTL DEF Spec

-----------------------------------------------------------------------------
(* Statements that run *)

(* Live or stateless, a server offers a tool with its loaded statement *)
LEMMA OfferedIsLoaded ==
    ASSUME TypeOK, LiveToolsFollow, NEW b \in Systems \cup {None}, NEW offer \in Offers(b),
           NEW n \in Names, offer[1][n] # None
    PROVE  loaded[n] # None /\ offer[1][n].sql = loaded[n].sql
<1>1. CASE offer = <<SessionTools(loaded, b), b>>
    BY <1>1 DEF SessionTools
<1>2. ASSUME NEW v \in Servers, live[v] # None, offer = <<live[v], bound[v]>>
      PROVE  loaded[n] # None /\ offer[1][n].sql = loaded[n].sql
    <2> DEFINE d == SessionTools(loaded, bound[v])[n]
    <2>1. live[v][n] = d \/ SameSignature(live[v][n], d)
        BY <1>2 DEF LiveToolsFollow
    <2>2. d # None /\ live[v][n].sql = d.sql
        BY <1>2, <2>1 DEF SameSignature, Signature
    <2>3. d = loaded[n]
        BY <2>2 DEF SessionTools
    <2> QED
        BY <1>2, <2>2, <2>3
<1> QED
    BY <1>1, <1>2 DEF Offers

LEMMA RunChecked ==
    ASSUME TypeOK, RunsOnItsOwnCheck, NEW c \in Calls, NEW d \in Busy, NEW o \in Outcomes,
           o.system = d.system, o.of = d.def.sql \/ o.late, Run(c, d, o)
    PROVE  RunsOnItsOwnCheck'
<1>1. CASE Judged(d, o)
    <2> DEFINE e == [d EXCEPT !.pc = "run", !.used = o]
    <2>1. call' = [call EXCEPT ![c] = e]
        BY <1>1 DEF Run
    <2>2. e.used = o /\ e.system = d.system /\ e.def = d.def
        BY DEF Busy
    <2>3. o.ok /\ <<o.of, o.system>> \in Permitted
        BY <1>1 DEF Judged
    <2>4. call'[c] = e /\ \A k \in Calls \ {c} : call'[k] = call[k]
        BY <2>1 DEF TypeOK
    <2> HIDE DEF e
    <2>5. SUFFICES ASSUME NEW k \in Calls, call'[k] # Idle, call'[k].pc = "run"
          PROVE  /\ call'[k].used.ok /\ <<call'[k].used.of, call'[k].used.system>> \in Permitted
                 /\ call'[k].used.system = call'[k].system
                 /\ call'[k].used.of = call'[k].def.sql \/ call'[k].used.late
        BY DEF RunsOnItsOwnCheck
    <2>6. CASE k = c
        BY <2>2, <2>3, <2>4, <2>6
    <2>7. CASE k # c
        BY <2>4, <2>5, <2>7 DEF RunsOnItsOwnCheck
    <2> QED
        BY <2>6, <2>7
<1>2. CASE ~Judged(d, o)
    BY <1>2 DEF Run, TypeOK, RunsOnItsOwnCheck
<1> QED
    BY <1>1, <1>2

LEMMA RunFresh ==
    ASSUME TypeOK, CallsFresh, NEW c \in Calls, NEW d \in Busy, NEW o \in Outcomes, Run(c, d, o),
           ~d.late => loaded[d.name] # None /\ d.def.sql = loaded[d.name].sql,
           loaded' = loaded
    PROVE  CallsFresh'
<1>1. CASE Judged(d, o)
    <2> DEFINE e == [d EXCEPT !.pc = "run", !.used = o]
    <2>1. call' = [call EXCEPT ![c] = e]
        BY <1>1 DEF Run
    <2>2. e.late = d.late /\ e.name = d.name /\ e.def = d.def
        BY DEF Busy
    <2>3. call'[c] = e /\ \A k \in Calls \ {c} : call'[k] = call[k]
        BY <2>1 DEF TypeOK
    <2> HIDE DEF e
    <2>4. SUFFICES ASSUME NEW k \in Calls, call'[k] # Idle, ~call'[k].late
          PROVE  loaded'[call'[k].name] # None /\ call'[k].def.sql = loaded'[call'[k].name].sql
        BY DEF CallsFresh
    <2>5. CASE k = c
        BY <2>2, <2>3, <2>4, <2>5
    <2>6. CASE k # c
        BY <2>3, <2>4, <2>6 DEF CallsFresh
    <2> QED
        BY <2>5, <2>6
<1>2. CASE ~Judged(d, o)
    BY <1>2 DEF Run, TypeOK, CallsFresh
<1> QED
    BY <1>1, <1>2

Checked == CacheFresh /\ CallsFresh /\ RunsOnItsOwnCheck

LEMMA CheckedInit == Init => Checked
BY DEF Init, Checked, CacheFresh, CallsFresh, RunsOnItsOwnCheck

LEMMA CheckedReload == TypeOK /\ Checked /\ Reload => Checked'
<1> SUFFICES ASSUME TypeOK, Checked, Reload PROVE Checked'
    OBVIOUS
<1>1. CASE disk = Broken
    BY <1>1 DEF Reload, registryVars, Checked, CacheFresh, CallsFresh, RunsOnItsOwnCheck
<1>2. CASE disk # Broken
    <2>1. CacheFresh'
        BY <1>2 DEF Reload, CacheFresh
    <2>2. \A c \in Calls : call[c] # Idle =>
              /\ call[c] \in Busy
              /\ call'[c] = [call[c] EXCEPT !.late = TRUE]
        BY <1>2 DEF Reload, TypeOK
    <2>3. \A c \in Calls : call[c] = Idle => call'[c] = Idle
        BY <1>2 DEF Reload
    <2>4. \A d \in Busy : LET e == [d EXCEPT !.late = TRUE]
                         IN  e.late /\ e.pc = d.pc /\ e.used = d.used /\ e.system = d.system /\ e.def = d.def
        BY DEF Busy
    <2>5. \A c \in Calls : call'[c] # Idle =>
              /\ call[c] # Idle /\ call'[c].late
              /\ call'[c].pc = call[c].pc /\ call'[c].used = call[c].used
              /\ call'[c].system = call[c].system /\ call'[c].def = call[c].def
        <3> TAKE c \in Calls
        <3>1. HAVE call'[c] # Idle
        <3>2. call[c] # Idle
            BY <2>3, <3>1
        <3>3. call[c] \in Busy /\ call'[c] = [call[c] EXCEPT !.late = TRUE]
            BY <2>2, <3>2
        <3> QED
            BY <2>4, <3>2, <3>3
    <2>6. CallsFresh' /\ RunsOnItsOwnCheck'
        BY <2>5 DEF Checked, CallsFresh, RunsOnItsOwnCheck
    <2> QED
        BY <2>1, <2>6 DEF Checked
<1> QED
    BY <1>1, <1>2

LEMMA CheckedBegin ==
    ASSUME TypeOK, LiveToolsFollow, Checked, NEW c \in Calls, Begin(c)
    PROVE  Checked'
<1>1. PICK system \in Systems, b \in Systems \cup {None} :
          \E offer \in Offers(b), n \in Names : BeginWith(c, system, offer, n)
    BY DEF Begin
<1>2. PICK offer \in Offers(b), n \in Names : BeginWith(c, system, offer, n)
    BY <1>1
<1> DEFINE d == Started(n, offer[1][n], system)
<1>3. offer[1][n] # None
    BY <1>2 DEF BeginWith
<1>4. loaded[n] # None /\ offer[1][n].sql = loaded[n].sql
    BY <1>3, OfferedIsLoaded
<1>5. d \in Busy
    BY <1>3, OffersType DEF Started, Busy
<1>6. ~d.late /\ d.name = n /\ d.def = offer[1][n] /\ d.system = system /\ d.pc = "parse"
    BY DEF Started
<1>7. cache' = cache /\ loaded' = loaded
    BY DEF Begin, registryVars
<1>8. CacheFresh'
    BY <1>7 DEF Checked, CacheFresh
<1>9. CASE cache[<<system, n>>] = None
    <2>1. call' = [call EXCEPT ![c] = d]
        BY <1>2, <1>9 DEF BeginWith
    <2>2. call'[c] = d /\ \A k \in Calls \ {c} : call'[k] = call[k]
        BY <2>1 DEF TypeOK
    <2>3. CallsFresh'
        BY <1>4, <1>6, <1>7, <2>2 DEF Checked, CallsFresh
    <2>4. RunsOnItsOwnCheck'
        BY <1>6, <2>2 DEF Checked, RunsOnItsOwnCheck
    <2> QED
        BY <1>8, <2>3, <2>4 DEF Checked
<1>10. CASE cache[<<system, n>>] # None
    <2> DEFINE o == cache[<<system, n>>]
    <2>1. Run(c, d, o)
        BY <1>2, <1>10 DEF BeginWith
    <2>2. o \in Outcomes
        BY <1>10 DEF TypeOK
    <2>3. o.system = system /\ (~o.late => o.of = loaded[n].sql)
        BY <1>10 DEF Checked, CacheFresh
    <2>4. RunsOnItsOwnCheck'
        BY <1>4, <1>5, <1>6, <2>1, <2>2, <2>3, RunChecked DEF Checked
    <2>5. CallsFresh'
        BY <1>4, <1>5, <1>6, <1>7, <2>1, <2>2, RunFresh DEF Checked
    <2> QED
        BY <1>8, <2>4, <2>5 DEF Checked
<1> QED
    BY <1>9, <1>10

(* An outcome goes to the cache of its tool and system *)
LEMMA RememberFresh ==
    ASSUME TypeOK, CacheFresh, CallsFresh, NEW c \in Calls, call[c] # Idle, NEW ok \in BOOLEAN,
           Remember(c, OutcomeOf(c, ok)), loaded' = loaded
    PROVE  CacheFresh'
<1>1. call[c] \in Busy
    BY DEF TypeOK
<1> DEFINE k == <<call[c].system, call[c].name>>  o == OutcomeOf(c, ok)
<1>2. k \in Systems \X Names
    BY <1>1 DEF Busy
<1>3. cache'[k] = o /\ \A j \in (Systems \X Names) \ {k} : cache'[j] = cache[j]
    BY <1>2 DEF Remember, TypeOK
<1>4. /\ o.system = call[c].system
      /\ ~o.late => loaded[call[c].name] # None /\ o.of = loaded[call[c].name].sql
    BY DEF OutcomeOf, CallsFresh
<1>5. SUFFICES ASSUME NEW s \in Systems, NEW n \in Names, cache'[<<s, n>>] # None
      PROVE  /\ cache'[<<s, n>>].system = s
             /\ ~cache'[<<s, n>>].late => loaded[n] # None /\ cache'[<<s, n>>].of = loaded[n].sql
    BY DEF CacheFresh
<1>6. CASE <<s, n>> = k
    BY <1>3, <1>4, <1>6
<1>7. CASE <<s, n>> # k
    <2>1. <<s, n>> \in Systems \X Names
        OBVIOUS
    <2>2. cache'[<<s, n>>] = cache[<<s, n>>]
        BY <1>3, <1>7, <2>1
    <2> QED
        BY <1>5, <2>2 DEF CacheFresh
<1> QED
    BY <1>6, <1>7

LEMMA CheckedAnswer ==
    ASSUME TypeOK, Checked, NEW c \in Calls, ParseAnswers(c)
    PROVE  Checked'
<1>1. PICK ok \in BOOLEAN : Remember(c, OutcomeOf(c, ok)) /\ Run(c, call[c], OutcomeOf(c, ok))
    BY DEF ParseAnswers
<1>2. call[c] # Idle /\ loaded' = loaded
    BY DEF ParseAnswers, Idle
<1>3. OutcomeOf(c, ok) \in Outcomes /\ call[c] \in Busy
    BY <1>2, OutcomeType
<1>4. OutcomeOf(c, ok).system = call[c].system /\ OutcomeOf(c, ok).of = call[c].def.sql
    BY DEF OutcomeOf
<1>5. CacheFresh'
    BY <1>1, <1>2, RememberFresh DEF Checked
<1>6. RunsOnItsOwnCheck'
    BY <1>1, <1>3, <1>4, RunChecked DEF Checked
<1>7. ~call[c].late => loaded[call[c].name] # None /\ call[c].def.sql = loaded[call[c].name].sql
    BY <1>2 DEF Checked, CallsFresh
<1>8. CallsFresh'
    BY <1>1, <1>2, <1>3, <1>7, RunFresh DEF Checked
<1> QED
    BY <1>5, <1>6, <1>8 DEF Checked

LEMMA CheckedStep == TypeOK /\ LiveToolsFollow /\ Checked /\ [Next]_vars => Checked'
<1> SUFFICES ASSUME TypeOK, LiveToolsFollow, Checked, [Next]_vars PROVE Checked'
    OBVIOUS
<1>1. ASSUME UNCHANGED <<loaded, cache, call>> PROVE Checked'
    BY <1>1 DEF Checked, CacheFresh, CallsFresh, RunsOnItsOwnCheck
<1>2. CASE StartWatch \/ WatchFails \/ FilesChange \/ ScheduleReload \/ StopWatch
    BY <1>1, <1>2 DEF StartWatch, WatchFails, FilesChange, ScheduleReload, StopWatch, registryVars
<1>3. CASE Reload
    BY <1>3, CheckedReload
<1>4. ASSUME NEW v \in Servers, OpenServer(v) \/ CloseServer(v) PROVE Checked'
    BY <1>1, <1>4 DEF OpenServer, CloseServer, registryVars
<1>5. ASSUME NEW c \in Calls, Begin(c) PROVE Checked'
    BY <1>5, CheckedBegin
<1>6. ASSUME NEW c \in Calls, ParseAnswers(c) PROVE Checked'
    BY <1>6, CheckedAnswer
<1>7. ASSUME NEW c \in Calls, ParseEmpty(c) PROVE Checked'
    <2>1. call[c] # Idle
        BY <1>7 DEF ParseEmpty, Idle
    <2>2. call[c] \in Busy
        BY <2>1 DEF TypeOK
    <2>3. loaded' = loaded /\ cache' = cache
        BY <1>7 DEF ParseEmpty, registryVars
    <2>4. /\ call'[c] = [call[c] EXCEPT !.pc = "explain"]
          /\ \A k \in Calls \ {c} : call'[k] = call[k]
        BY <1>7 DEF ParseEmpty, TypeOK
    <2>5. /\ call'[c].pc = "explain" /\ call'[c].late = call[c].late
          /\ call'[c].name = call[c].name /\ call'[c].def = call[c].def
        BY <2>2, <2>4 DEF Busy
    <2>6. CallsFresh'
        <3> SUFFICES ASSUME NEW k \in Calls, call'[k] # Idle, ~call'[k].late
            PROVE  loaded'[call'[k].name] # None /\ call'[k].def.sql = loaded'[call'[k].name].sql
            BY DEF CallsFresh
        <3>1. /\ call[k] # Idle /\ ~call[k].late
              /\ call'[k].name = call[k].name /\ call'[k].def = call[k].def
            BY <2>1, <2>4, <2>5
        <3> QED
            BY <2>3, <3>1 DEF Checked, CallsFresh
    <2>7. RunsOnItsOwnCheck'
        BY <2>4, <2>5 DEF Checked, RunsOnItsOwnCheck
    <2> QED
        BY <2>3, <2>6, <2>7 DEF Checked, CacheFresh
<1>8. ASSUME NEW c \in Calls, Explained(c) PROVE Checked'
    <2>1. call[c] # Idle /\ loaded' = loaded /\ call' = [call EXCEPT ![c] = Idle]
        BY <1>8 DEF Explained, Idle
    <2>2. CacheFresh'
        BY <1>8, <2>1, RememberFresh DEF Explained, Checked
    <2> QED
        BY <2>1, <2>2 DEF Checked, CallsFresh, RunsOnItsOwnCheck, TypeOK
<1>9. ASSUME NEW c \in Calls, CallEnds(c) PROVE Checked'
    BY <1>9 DEF CallEnds, registryVars, Checked, CacheFresh, CallsFresh, RunsOnItsOwnCheck, TypeOK
<1>10. CASE UNCHANGED vars
    BY <1>1, <1>10 DEF vars
<1> QED
    BY <1>2, <1>3, <1>4, <1>5, <1>6, <1>7, <1>8, <1>9, <1>10 DEF Next

\* A business tool's statement runs only on an outcome of that statement and
\* system that permits it, or on one that a call stored over a reload.
THEOREM StatementsRunChecked == Spec => []RunsOnItsOwnCheck
<1>1. Init => TypeOK /\ LiveToolsFollow /\ Checked
    BY TypeInit, FollowsInit, CheckedInit
<1>2. TypeOK /\ LiveToolsFollow /\ Checked /\ [Next]_vars => (TypeOK /\ LiveToolsFollow /\ Checked)'
    BY TypeStep, FollowsStep, CheckedStep
<1>3. Checked => RunsOnItsOwnCheck
    BY DEF Checked
<1> QED
    BY <1>1, <1>2, <1>3, PTL DEF Spec

=============================================================================
