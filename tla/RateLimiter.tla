----------------------------- MODULE RateLimiter -----------------------------
(* The rate limiter of tool calls: a fixed window per key, reset by the first  *)
(* call after its end and forgotten by a sweep. File: src/utils/rateLimiter.ts *)
EXTENDS Naturals, Sequences

CONSTANTS
    Keys,       \* sessions, or the one key of stdio
    Window,     \* RATE_LIMIT_WINDOW_MS
    Limits,     \* values of RATE_LIMIT_MAX_REQUESTS
    Second,     \* refusals tell the time to wait in whole seconds
    MaxTime,    \* bound: length of the clock
    NoWindow

ASSUME WindowAssumption == Window \in Nat \ {0} /\ Second \in Nat \ {0}
ASSUME LimitsAssumption == Limits \subseteq Nat
ASSUME NoWindowAssumption == NoWindow \notin [count : Nat, start : Nat]

VARIABLES
    now,            \* Date.now(), taken to never run backwards
    maxRequests,
    windows,
    allowed,        \* history: the calls let through, with the window that counted them
    refused         \* history: last refusal, until when it told to wait, calls let through since

limiterVars == <<now, maxRequests, windows, allowed, refused>>

NeverRefused == [at |-> 0, until |-> 0, since |-> 0]

LimiterTypeOK ==
    /\ now \in Nat
    /\ maxRequests \in Limits
    /\ windows \in [Keys -> [count : Nat, start : Nat] \cup {NoWindow}]
    /\ allowed \in [Keys -> Seq([at : Nat, start : Nat])]
    /\ refused \in [Keys -> [at : Nat, until : Nat, since : Nat]]

LimiterInit ==
    /\ now = 0
    /\ maxRequests \in Limits
    /\ windows = [k \in Keys |-> NoWindow]
    /\ allowed = [k \in Keys |-> <<>>]
    /\ refused = [k \in Keys |-> NeverRefused]

(* A window that is over, or was never opened *)
Over(k) == windows[k] = NoWindow \/ now >= windows[k].start + Window

(* The window that counts a call made now *)
Current(k) == IF Over(k) THEN [count |-> 0, start |-> now] ELSE windows[k]

(* Mutant: the seconds are rounded down *)
RetryAfterFloored(k) == Second * ((Current(k).start + Window - now) \div Second)

(* retryAfterSeconds, rounded up *)
RetryAfter(k) ==
    LET left == Current(k).start + Window - now
    IN  Second * ((left + Second - 1) \div Second)

Refuse(k) ==
    /\ Current(k).count >= maxRequests
    /\ windows' = [windows EXCEPT ![k] = Current(k)]
    /\ refused' = [refused EXCEPT ![k] = [at |-> now, until |-> now + RetryAfter(k), since |-> 0]]
    /\ UNCHANGED <<now, maxRequests, allowed>>

Allow(k) ==
    /\ Current(k).count < maxRequests
    /\ windows' = [windows EXCEPT ![k] = [Current(k) EXCEPT !.count = @ + 1]]
    /\ allowed' = [allowed EXCEPT ![k] = Append(@, [at |-> now, start |-> Current(k).start])]
    /\ refused' = [refused EXCEPT ![k].since = @ + 1]
    /\ UNCHANGED <<now, maxRequests>>

CheckLimit(k) == Refuse(k) \/ Allow(k)

(* Mutant: the sweep forgets windows that still count *)
CleanupAll ==
    /\ windows' = [k \in Keys |-> NoWindow]
    /\ UNCHANGED <<now, maxRequests, allowed, refused>>

(* The interval timer forgets windows that are over *)
Cleanup ==
    /\ windows' = [k \in Keys |-> IF Over(k) THEN NoWindow ELSE windows[k]]
    /\ UNCHANGED <<now, maxRequests, allowed, refused>>

Tick ==
    /\ now < MaxTime
    /\ now' = now + 1
    /\ UNCHANGED <<maxRequests, windows, allowed, refused>>

LimiterNext ==
    \/ \E k \in Keys : CheckLimit(k)
    \/ Cleanup
    \/ Tick

LimiterSpec == LimiterInit /\ [][LimiterNext]_limiterVars

-----------------------------------------------------------------------------
(* Properties *)

(* Windows are fixed and not sliding: a key may use up two of them around a    *)
(* boundary, but never more. Of any 2 * maxRequests + 1 calls in a row the     *)
(* last comes at least a whole window after the first, whatever the cleanup    *)
(* forgot meanwhile; with a limit of zero no call is let through.              *)
TwicePerWindow ==
    \A k \in Keys : \A i, j \in 1..Len(allowed[k]) :
        j = i + 2 * maxRequests => allowed[k][j].at >= allowed[k][i].at + Window

(* A refusal tells the truth: who waits as long as it said is refused again    *)
(* only when maxRequests calls of the same key were let through meanwhile.     *)
RetryIsAnswered ==
    [][\A k \in Keys :
          refused'[k].at > refused[k].at /\ refused[k].until > 0 /\ now >= refused[k].until
              => refused[k].since >= maxRequests]_limiterVars

=============================================================================
