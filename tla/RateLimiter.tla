---------------------------- MODULE RateLimiter ----------------------------
(***************************************************************************)
(* The limit on requests per token, TokenRateLimiter of                    *)
(* src/server/rate_limit.py.  A key is a bucket with the hash of a token;  *)
(* the bucket has a number of requests that it admits within a window.     *)
(*                                                                         *)
(* check runs under the limiter's lock, so that a call is one step.  The   *)
(* time is read before the lock is taken: the times of successive calls    *)
(* may go down a little.  Calls are numbered as they take the lock; a list *)
(* of _hits, which is in that order, is the set of the numbers of its      *)
(* calls.  A key that is not in _hits has none.                            *)
(***************************************************************************)
EXTENDS Integers, Sequences, FiniteSets

CONSTANTS
    Keys,        \* pairs of a bucket and a token
    Limit,       \* key -> max_hits of its bucket
    Window,      \* key -> window_s of its bucket
    PruneAfter,  \* a key is forgotten that long after its last hit: 120 s
    Delay,       \* how long a call may wait for the lock after reading the time
    Gaps,        \* how much time may pass between two calls
    MaxCalls     \* bound on the number of calls

ASSUME LimiterAssumption ==
    /\ \A k \in Keys : /\ Limit[k] \in Nat \ {0} /\ Window[k] \in Nat \ {0}
                       /\ Window[k] + 2 * Delay <= PruneAfter
    /\ PruneAfter \in Nat /\ Delay \in Nat
    /\ Gaps \subseteq Nat
    /\ MaxCalls \in Nat

VARIABLES
    clock,  \* the time
    hits,   \* _hits: key -> the numbers of the calls that it keeps
    calls   \* history: the calls, the time they read and what they were answered

limiterVars == <<clock, hits, calls>>

LimiterInit ==
    /\ clock = 0
    /\ hits = [k \in Keys |-> {}]
    /\ calls = <<>>

IsOldest(i, of) == i \in of /\ \A j \in of : i <= j
IsLast(i, of) == i \in of /\ \A j \in of : j <= i

(* Faulty: forget the other keys by the window of this one. *)
prune_by_own_window(kept, now, keep) ==
    [k \in Keys |->
        IF k # keep /\ \E i \in kept[k] : IsLast(i, kept[k]) /\ now - calls[i].at >= Window[keep]
          THEN {} ELSE kept[k]]

_prune_expired(kept, now, keep) ==
    [k \in Keys |->
        IF k # keep /\ \E i \in kept[k] : IsLast(i, kept[k]) /\ now - calls[i].at >= PruneAfter
          THEN {} ELSE kept[k]]

(* A refused call is told how long to wait: until the oldest hit is out of *)
(* the window.                                                             *)
check(key, now) ==
    LET recent == {i \in hits[key] : now - calls[i].at < Window[key]}
        ok     == Cardinality(recent) < Limit[key]
        wait   == Window[key] - (now - calls[CHOOSE i \in recent : IsOldest(i, recent)].at)
    IN  /\ hits' = IF ok
                     THEN _prune_expired([hits EXCEPT ![key] = recent \cup {Len(calls) + 1}],
                                         now, key)
                     ELSE [hits EXCEPT ![key] = recent]
        /\ calls' = Append(calls, [key |-> key, at |-> now, ok |-> ok,
                                   retry |-> IF ok THEN 0 ELSE wait])

(* Time passes, and a call gets the lock that has read the time before.    *)
LimiterNext ==
    /\ Len(calls) < MaxCalls
    /\ \E gap \in Gaps : clock' = clock + gap
    /\ \E key \in Keys, now \in clock' - Delay .. clock' : check(key, now)

LimiterSpec == LimiterInit /\ [][LimiterNext]_limiterVars

-----------------------------------------------------------------------------
Answers == [key : Keys, at : Int, ok : BOOLEAN, retry : Int]

(* Time does not run backwards, and what is kept of a key are calls that   *)
(* were made with it and admitted.                                         *)
LimiterTypeOK ==
    /\ clock \in Nat
    /\ calls \in Seq(Answers)
    /\ hits \in [Keys -> SUBSET (1 .. Len(calls))]
    /\ \A k \in Keys : \A i \in hits[k] : calls[i].key = k /\ calls[i].ok

(* Call j was admitted and has been within the window of every call of its *)
(* key that came after it, up to call i.                                   *)
Remembered(j, i) ==
    calls[j].ok /\ \A c \in j + 1 .. i :
        calls[c].key = calls[j].key => calls[c].at - calls[j].at < Window[calls[j].key]

(* A call is admitted exactly when fewer than max_hits earlier calls of    *)
(* its key were admitted and have been within the window of every call of  *)
(* the key since, whatever calls of other keys made check forget in        *)
(* between (rate_limit.py:26-54).                                          *)
LimitsAsRemembered ==
    \A i \in DOMAIN calls :
        LET counted == {j \in 1 .. i - 1 : calls[j].key = calls[i].key /\ Remembered(j, i)}
        IN  calls[i].ok <=> Cardinality(counted) < Limit[calls[i].key]

(* A caller that is refused is told to wait, and would be admitted once it *)
(* has waited that long (retry_after_s, rate_limit.py:28-35).              *)
RetrySuffices ==
    \A i \in DOMAIN calls :
        LET key  == calls[i].key
            then == calls[i].at + calls[i].retry
        IN  i = Len(calls) /\ ~calls[i].ok =>
                /\ calls[i].retry > 0
                /\ Cardinality({j \in hits[key] : then - calls[j].at < Window[key]}) < Limit[key]
=============================================================================
