------------------------------ MODULE ExportLinks ------------------------------
(***************************************************************************)
(* What the export store promises of download links, without slots, files,  *)
(* sweeps, requests or restarts: the link of an export is published once at  *)
(* most, starts a bounded number of downloads, and works no more once it has *)
(* ended.  Exports implements this module.                                   *)
(***************************************************************************)
EXTENDS Naturals

CONSTANTS Ids, MaxDownloads

VARIABLES
    live,     \* links that work
    started,  \* downloads each link has started
    over      \* exports whose link has ended, or that ended without one

vars == <<live, started, over>>

Init ==
    /\ live = {}
    /\ started = [e \in Ids |-> 0]
    /\ over = {}

Publish(e) ==
    /\ e \notin live \cup over
    /\ live' = live \cup {e}
    /\ UNCHANGED <<started, over>>

\* The last download a link allows ends it
Download(e) ==
    /\ e \in live
    /\ started' = [started EXCEPT ![e] = @ + 1]
    /\ IF started'[e] < MaxDownloads
       THEN UNCHANGED <<live, over>>
       ELSE live' = live \ {e} /\ over' = over \cup {e}

\* Links expire or go with the store, exports fail or are refused
End(S) ==
    /\ live' = live \ S
    /\ over' = over \cup S
    /\ UNCHANGED started

Next ==
    \/ \E e \in Ids : Publish(e)
    \/ \E e \in Ids : Download(e)
    \/ \E S \in SUBSET Ids : End(S)

Spec == Init /\ [][Next]_vars

=============================================================================
