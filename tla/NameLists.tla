------------------------------ MODULE NameLists ------------------------------
(* Catalog lists the server keeps for a while: completions of library and      *)
(* table names, and the services of the IBM i. Lookups overlap, each takes its *)
(* time, and the number of lists is bounded.                                   *)
(* Files: src/resources.ts, src/db/sqlServices.ts                              *)
EXTENDS Naturals, Sequences

CONSTANTS
    ListKeys,       \* caller and list, or system and user
    Fetchers,       \* requests for a list that are under way
    Ttl,            \* COMPLETION_TTL_MS, SERVICES_CACHE_TTL_MS
    MaxLists,       \* MAX_CACHED_LISTS, SERVICES_CACHE_MAX_ENTRIES
    MaxClock        \* bound: length of the clock

ASSUME ListsAssumption == Ttl \in Nat \ {0} /\ MaxLists \in Nat \ {0} /\ MaxClock \in Nat

VARIABLES
    variant,        \* "completions" or "services"
    clock,          \* Date.now()
    lists,          \* the Map, in the order its keys were inserted
    fetch,          \* a request's progress
    served          \* history: what a request was answered

listVars == <<variant, clock, lists, fetch, served>>

Entries == [key : ListKeys, expires : Nat, readAt : Nat]
NotFetching == [pc |-> "idle"]
(* query: the statement is under way. read: the IBM i has read the catalog *)
Fetching == [pc : {"query", "read"}, key : ListKeys, since : Nat, readAt : Nat]

ListsTypeOK ==
    /\ variant \in {"completions", "services"}
    /\ clock \in Nat
    /\ lists \in Seq(Entries)
    /\ fetch \in [Fetchers -> Fetching \cup {NotFetching}]
    /\ served \in [Fetchers -> {"nothing", "fresh", "stale"}]

ListsInit ==
    /\ variant \in {"completions", "services"}
    /\ clock = 0
    /\ lists = <<>>
    /\ fetch = [f \in Fetchers |-> NotFetching]
    /\ served = [f \in Fetchers |-> "nothing"]

Keyed(k) == {i \in DOMAIN lists : lists[i].key = k}

(* Map.delete(): there is one list of a key at most *)
Without(seq, k) ==
    IF \A i \in DOMAIN seq : seq[i].key # k THEN seq
    ELSE LET i == CHOOSE i \in DOMAIN seq : seq[i].key = k
         IN  [j \in 1..Len(seq) - 1 |-> IF j < i THEN seq[j] ELSE seq[j + 1]]

(* Map.set(): a key that is there keeps its place *)
Put(seq, entry) ==
    IF \E i \in DOMAIN seq : seq[i].key = entry.key
    THEN [i \in DOMAIN seq |-> IF seq[i].key = entry.key THEN entry ELSE seq[i]]
    ELSE Append(seq, entry)

(* The oldest list goes when there are too many *)
PutBounded(seq, entry) ==
    Put(IF Len(seq) >= MaxLists THEN Tail(seq) ELSE seq, entry)

Hit(f, i) ==
    /\ lists[i].expires > clock
    /\ served' = [served EXCEPT ![f] = IF clock < lists[i].readAt + Ttl THEN "fresh" ELSE "stale"]
    /\ UNCHANGED <<lists, fetch>>

(* Completions forget a list that ran out, and ask the rate limiter first *)
Miss(f, k) ==
    /\ \A i \in Keyed(k) : lists[i].expires <= clock
    /\ lists' = IF variant = "completions" THEN Without(lists, k) ELSE lists
    /\ served' = [served EXCEPT ![f] = "nothing"]
    /\ \/ fetch' = [fetch EXCEPT ![f] = [pc |-> "query", key |-> k, since |-> clock, readAt |-> clock]]
       \/ variant = "completions" /\ UNCHANGED fetch

LookUp(f) ==
    /\ fetch[f] = NotFetching
    /\ \E k \in ListKeys : Miss(f, k) \/ \E i \in Keyed(k) : Hit(f, i)
    /\ UNCHANGED <<variant, clock>>

(* The IBM i reads the catalog at any time during the statement *)
ReadCatalog(f) ==
    /\ fetch[f].pc = "query"
    /\ fetch' = [fetch EXCEPT ![f].pc = "read", ![f].readAt = clock]
    /\ UNCHANGED <<variant, clock, lists, served>>

(* Mutant: the time to live counts from the end of the statement *)
FetchEndsLater(f) ==
    /\ fetch[f].pc = "read"
    /\ LET list == [key |-> fetch[f].key, expires |-> clock + Ttl, readAt |-> fetch[f].readAt]
           kept == IF variant = "services" THEN Without(lists, fetch[f].key) ELSE lists
       IN  lists' = PutBounded(kept, list)
    /\ served' = [served EXCEPT ![f] = "fresh"]
    /\ fetch' = [fetch EXCEPT ![f] = NotFetching]
    /\ UNCHANGED <<variant, clock>>

(* The time to live counts from before the statement. Services drop the old    *)
(* list of the key before they look whether there are too many.                *)
FetchEnds(f) ==
    /\ fetch[f].pc = "read"
    /\ LET list == [key |-> fetch[f].key, expires |-> fetch[f].since + Ttl, readAt |-> fetch[f].readAt]
           kept == IF variant = "services" THEN Without(lists, fetch[f].key) ELSE lists
       IN  lists' = PutBounded(kept, list)
    /\ served' = [served EXCEPT ![f] = "fresh"]
    /\ fetch' = [fetch EXCEPT ![f] = NotFetching]
    /\ UNCHANGED <<variant, clock>>

FetchFails(f) ==
    /\ fetch[f] # NotFetching
    /\ fetch' = [fetch EXCEPT ![f] = NotFetching]
    /\ UNCHANGED <<variant, clock, lists, served>>

ClockTicks ==
    /\ clock < MaxClock
    /\ clock' = clock + 1
    /\ UNCHANGED <<variant, lists, fetch, served>>

ListsNext ==
    \/ \E f \in Fetchers : LookUp(f) \/ ReadCatalog(f) \/ FetchEnds(f) \/ FetchFails(f)
    \/ ClockTicks

ListsSpec == ListsInit /\ [][ListsNext]_listVars

-----------------------------------------------------------------------------
(* Properties *)

(* However slow a lookup is and in whatever order overlapping ones end, a list  *)
(* that is served without a lookup was read from the catalog less than its time *)
(* to live ago, and there are never more lists than allowed, one for each key.  *)
ListsFreshAndFew ==
    /\ ListsTypeOK
    /\ \A f \in Fetchers : served[f] # "stale"
    /\ Len(lists) <= MaxLists
    /\ \A i, j \in DOMAIN lists : lists[i].key = lists[j].key => i = j

=============================================================================
