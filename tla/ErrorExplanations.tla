-------------------------- MODULE ErrorExplanations --------------------------
(* Cause and recovery of SQL errors on one system: a lookup per SQLCODE that   *)
(* every failed statement with that code shares, kept unless it failed, and    *)
(* none at all once SYSTOOLS.SQLCODE_INFO is known to be missing.              *)
(* File: src/db/sqlErrorInfo.ts                                                *)

CONSTANTS
    Codes,          \* SQLCODEs
    Errors,         \* statements that fail
    Lookups,        \* promises of lookups, as many as there are errors
    NoLookup

ASSUME LookupsAssumption == NoLookup \notin Lookups

VARIABLES
    remembered,     \* the cached promise of a code
    lookup,         \* the promises
    failure,        \* a failed statement's progress
    functionMissing \* the system is in `unavailable`

errorVars == <<remembered, lookup, failure, functionMissing>>

NotFailed == [pc |-> "none"]
Failing == [pc : {"failed", "waiting", "reported"}, code : Codes, lookup : Lookups \cup {NoLookup},
            explained : BOOLEAN]
NotStarted == [state |-> "none"]
Promises == [state : {"pending", "found", "nothing", "failed"}, code : Codes]

ErrorsTypeOK ==
    /\ remembered \in [Codes -> Lookups \cup {NoLookup}]
    /\ lookup \in [Lookups -> Promises \cup {NotStarted}]
    /\ failure \in [Errors -> Failing \cup {NotFailed}]
    /\ functionMissing \in BOOLEAN

ErrorsInit ==
    /\ remembered = [c \in Codes |-> NoLookup]
    /\ lookup = [l \in Lookups |-> NotStarted]
    /\ failure = [e \in Errors |-> NotFailed]
    /\ functionMissing = FALSE

(* A driver error with a SQLCODE, and without a text of its own *)
StatementFails(e, c) ==
    /\ failure[e] = NotFailed
    /\ failure' = [failure EXCEPT ![e] = [pc |-> "failed", code |-> c, lookup |-> NoLookup, explained |-> FALSE]]
    /\ UNCHANGED <<remembered, lookup, functionMissing>>

ReportPlain(e) ==
    /\ failure[e].pc = "failed" /\ functionMissing
    /\ failure' = [failure EXCEPT ![e].pc = "reported"]
    /\ UNCHANGED <<remembered, lookup, functionMissing>>

Await(e, l) == failure' = [failure EXCEPT ![e].pc = "waiting", ![e].lookup = l]

(* explanationFor(): the cached promise, settled or not, or a new lookup *)
AskWhy(e) ==
    /\ failure[e].pc = "failed" /\ ~functionMissing
    /\ LET code == failure[e].code
           cached == remembered[code]
       IN  \/ cached # NoLookup /\ Await(e, cached) /\ UNCHANGED <<remembered, lookup>>
           \/ /\ cached = NoLookup
              /\ \E l \in Lookups :
                    /\ lookup[l] = NotStarted
                    /\ lookup' = [lookup EXCEPT ![l] = [state |-> "pending", code |-> code]]
                    /\ remembered' = [remembered EXCEPT ![code] = l]
                    /\ Await(e, l)
    /\ UNCHANGED functionMissing

(* Mutant: a failed lookup stays cached *)
LookupEndsKept(l) ==
    /\ lookup[l].state = "pending"
    /\ \E outcome \in {"found", "nothing", "failed"} :
          /\ lookup' = [lookup EXCEPT ![l].state = outcome]
          /\ functionMissing' \in {functionMissing, functionMissing \/ outcome = "failed"}
    /\ UNCHANGED <<remembered, failure>>

(* The lookup has a time limit of its own, and runs on the pool of the first   *)
(* statement. One that fails is forgotten before anyone who waits goes on.     *)
LookupEnds(l) ==
    /\ lookup[l].state = "pending"
    /\ \E outcome \in {"found", "nothing", "failed"} :
          /\ lookup' = [lookup EXCEPT ![l].state = outcome]
          /\ remembered' = [c \in Codes |-> IF remembered[c] = l /\ outcome = "failed" THEN NoLookup
                                            ELSE remembered[c]]
          /\ functionMissing' \in {functionMissing, functionMissing \/ outcome = "failed"}
    /\ UNCHANGED failure

ToldWhy(e) ==
    /\ failure[e].pc = "waiting" /\ lookup[failure[e].lookup].state # "pending"
    /\ failure' = [failure EXCEPT ![e].pc = "reported",
                                  ![e].explained = (lookup[failure[e].lookup].state = "found")]
    /\ UNCHANGED <<remembered, lookup, functionMissing>>

ErrorsNext ==
    \/ \E e \in Errors :
          ReportPlain(e) \/ AskWhy(e) \/ ToldWhy(e) \/ \E c \in Codes : StatementFails(e, c)
    \/ \E l \in Lookups : LookupEnds(l)

ErrorsSpec == ErrorsInit /\ [][ErrorsNext]_errorVars

-----------------------------------------------------------------------------
(* Properties *)

(* docs/development.md: "Each system and SQLCODE is looked up once and cached". *)
(* Of the lookups of a code all but one have failed, however many statements    *)
(* fail with it at a time; a failed one is never what a statement is given      *)
(* later, so a lookup that breaks down costs only those that waited for it.     *)
LookedUpOnce ==
    /\ ErrorsTypeOK
    /\ \A l, m \in Lookups :
          /\ l # m
          /\ lookup[l] # NotStarted /\ lookup[l].state # "failed"
          /\ lookup[m] # NotStarted /\ lookup[m].state # "failed"
          => lookup[l].code # lookup[m].code
    /\ \A c \in Codes : remembered[c] # NoLookup =>
          lookup[remembered[c]].code = c /\ lookup[remembered[c]].state # "failed"
    /\ \A e \in Errors : failure[e] # NotFailed /\ failure[e].lookup # NoLookup =>
          lookup[failure[e].lookup].code = failure[e].code

=============================================================================
