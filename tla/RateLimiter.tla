---------------------------- MODULE RateLimiter -----------------------------
(***************************************************************************)
(* FixedWindowLimiter (internal/oauth/ratelimit.go): at most Limit requests *)
(* of one client address per window, and the Retry-After header for the    *)
(* rest.                                                                   *)
(*                                                                         *)
(* Allow runs under the mutex and is one step.  Time is counted in ticks,  *)
(* Second of them to the second, because the header is in whole seconds    *)
(* and windows are not.  With Limit <= 0 Allow returns at once and nothing *)
(* here happens.                                                           *)
(*                                                                         *)
(* "passed" is history: the moments at which requests of an address were   *)
(* let through.                                                            *)
(***************************************************************************)
EXTENDS Integers, Sequences

CONSTANTS
    Keys,               \* client addresses
    Limit, Window,      \* Window in ticks
    Second,             \* ticks in a second
    MaxTime             \* bound: the clock stops here

ASSUME LimiterAssumption ==
    /\ Limit \in Nat \ {0} /\ Second \in Nat \ {0}
    /\ Window \in Nat /\ MaxTime \in Nat

VARIABLES buckets, passed, now

vars == <<buckets, passed, now>>

Bucket == [count: 1..Limit, resetAt: Nat]

\* An absent bucket is one whose window ended before time began.
Absent == [count |-> 0, resetAt |-> -1]

\* Mutant: the times are compared as Unix seconds.
OverInSeconds(k) == now \div Second > buckets[k].resetAt \div Second

Over(k) == now > buckets[k].resetAt

Full(k) == buckets[k].count >= Limit

Refused(k) == ~Over(k) /\ Full(k)

Init ==
    /\ buckets = [k \in Keys |-> Absent]
    /\ passed = [k \in Keys |-> <<>>]
    /\ now = 0

Pass(k) ==
    /\ passed' = [passed EXCEPT ![k] = Append(@, now)]
    /\ UNCHANGED now

\* The first request of a window.
Open(k) ==
    /\ Over(k)
    /\ buckets' = [buckets EXCEPT ![k] = [count |-> 1, resetAt |-> now + Window]]
    /\ Pass(k)

\* A further one.  Past the limit Allow changes nothing: see RetryAfter.
Count(k) ==
    /\ ~Over(k) /\ ~Full(k)
    /\ buckets' = [buckets EXCEPT ![k].count = @ + 1]
    /\ Pass(k)

\* Mutant: the whole map is dropped.
CleanupAll ==
    /\ buckets' = [k \in Keys |-> Absent]
    /\ UNCHANGED <<passed, now>>

\* Cleanup reads the clock before it takes the mutex; an older reading would
\* only drop less.
Cleanup ==
    /\ buckets' = [k \in Keys |-> IF Over(k) THEN Absent ELSE buckets[k]]
    /\ UNCHANGED <<passed, now>>

Tick ==
    /\ now < MaxTime
    /\ now' = now + 1
    /\ UNCHANGED <<buckets, passed>>

Next == (\E k \in Keys : Open(k) \/ Count(k)) \/ Cleanup \/ Tick

Spec == Init /\ [][Next]_vars

\* Mutant: the least answer is always given.
AlwaysOne(k) == 1

\* The header of a refusal: whole seconds to the end of the window, rounded
\* down, one at least (Middleware).
RetryAfter(k) ==
    LET secs == (buckets[k].resetAt - now) \div Second
    IN  IF secs < 1 THEN 1 ELSE secs

RetryAt(k) == now + RetryAfter(k) * Second

-----------------------------------------------------------------------------
\* Buckets count from one to the limit.
TypeOK ==
    /\ buckets \in [Keys -> Bucket \cup {Absent}]
    /\ passed \in [Keys -> Seq(Nat)]
    /\ now \in Nat

\* Wherever windows begin and whenever buckets are cleaned up, more than twice
\* the limit never passes within the length of one window (Allow, Cleanup).
PassBudget ==
    \A k \in Keys : \A i \in 1..(Len(passed[k]) - 2 * Limit) :
      passed[k][i + 2 * Limit] - passed[k][i] > Window

\* The header is short by less than a second: a client that comes back when
\* it says, is refused again, and waits one second more, finds this window
\* over.
RetryNearlyEnough ==
    \A k \in Keys : Refused(k) => RetryAt(k) + Second > buckets[k].resetAt

\* Nobody is refused for nothing: the last Limit requests let through lie
\* within one window of the refusal, whatever was cleaned up before (Allow,
\* Cleanup).
RefusedOnlyWhenSpent ==
    \A k \in Keys : Refused(k) =>
      /\ Len(passed[k]) >= Limit
      /\ now - passed[k][Len(passed[k]) - Limit + 1] <= Window

-----------------------------------------------------------------------------
\* Why PassBudget holds.  S marks the passes that opened a window: two of them
\* are more than Window apart, and Limit + 1 passes in a row never go without
\* one; the bucket knows the last.
Sorted(p, t) ==
    \A i, j \in 1..Len(p) : i <= j => p[i] <= p[j] /\ p[j] <= t

Spread(S, p) == \A s, t \in S : s < t => p[t] - p[s] > Window

Dense(S, n) == \A i \in 1..(n - Limit) : \E s \in S : i < s /\ s <= i + Limit

LastIs(s, S, k) ==
    /\ s \in S
    /\ s = Len(passed[k]) + 1 - buckets[k].count
    /\ buckets[k].resetAt = passed[k][s] + Window
    /\ \A t \in S : t <= s

OpenedAt(S, k) ==
    /\ S \subseteq 1..Len(passed[k])
    /\ Sorted(passed[k], now)
    /\ Spread(S, passed[k])
    /\ Dense(S, Len(passed[k]))
    /\ Over(k) => \A s \in S : now - passed[k][s] > Window
    /\ ~Over(k) => \E s \in S : LastIs(s, S, k)

WindowsApart == \A k \in Keys : \E S \in SUBSET (1..Len(passed[k])) : OpenedAt(S, k)
=============================================================================
