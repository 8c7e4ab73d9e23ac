---------------------------- MODULE PoolOwnership ----------------------------
(***************************************************************************)
(* What the pool registry promises its callers, without slots, owner       *)
(* objects, counters or closing loops: a pool is held by one key, changes  *)
(* hands only as a whole and only to a key that holds none, and once       *)
(* released is never held again and goes away.                             *)
(* PoolRegistry implements this module.                                    *)
(***************************************************************************)
CONSTANTS Keys, Pools

VARIABLES
    registered,  \* keys that may hold pools
    held,        \* the pools each key holds
    released,    \* pools no key holds any more, not gone yet
    gone         \* pools closed, or that could not be created

vars == <<registered, held, released, gone>>

Used == (UNION {held[k] : k \in Keys}) \cup released \cup gone

Init ==
    /\ registered = {}
    /\ held = [k \in Keys |-> {}]
    /\ released = {}
    /\ gone = {}

Register(k) ==
    /\ registered' = registered \cup {k}
    /\ UNCHANGED <<held, released, gone>>

\* Only a registered key opens a pool, and the pool is new
Open(k, p) ==
    /\ k \in registered
    /\ p \in Pools \ Used
    /\ held' = [held EXCEPT ![k] = @ \cup {p}]
    /\ UNCHANGED <<registered, released, gone>>

\* All the pools of a key become those of a key that holds none
HandOver(from, to) ==
    /\ from \in registered
    /\ from # to
    /\ held[to] = {}
    /\ registered' = (registered \ {from}) \cup {to}
    /\ held' = [held EXCEPT ![to] = held[from], ![from] = {}]
    /\ UNCHANGED <<released, gone>>

\* Keys give up every pool they hold; closed keys may not open more
Release(keys, closed) ==
    /\ registered' = registered \ closed
    /\ held' = [k \in Keys |-> IF k \in keys THEN {} ELSE held[k]]
    /\ released' = released \cup UNION {held[k] : k \in keys}
    /\ UNCHANGED gone

\* A released pool is gone, or a held one could not be created
Go(p) ==
    /\ p \in released \cup UNION {held[k] : k \in Keys}
    /\ held' = [k \in Keys |-> held[k] \ {p}]
    /\ released' = released \ {p}
    /\ gone' = gone \cup {p}
    /\ UNCHANGED registered

Next ==
    \/ \E k \in Keys : Register(k)
    \/ \E k \in Keys, p \in Pools : Open(k, p)
    \/ \E from, to \in Keys : HandOver(from, to)
    \/ \E keys, closed \in SUBSET Keys : closed \subseteq keys /\ Release(keys, closed)
    \/ \E p \in Pools : Go(p)

Spec == Init /\ [][Next]_vars

\* A released pool goes away
Fairness == \A p \in Pools : WF_vars(p \in released /\ Go(p))

FairSpec == Spec /\ Fairness

=============================================================================
