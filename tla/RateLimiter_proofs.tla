------------------------- MODULE RateLimiter_proofs -------------------------
(***************************************************************************)
(* Proofs about RateLimiter, for every limit, window and number of keys.   *)
(***************************************************************************)
EXTENDS RateLimiter, TLAPS

\* Buckets and history keep their shape.
LEMMA TypeStep == TypeOK /\ [Next]_vars => TypeOK'
<1> SUFFICES ASSUME TypeOK, [Next]_vars PROVE TypeOK'
  OBVIOUS
<1> USE LimiterAssumption
<1>1. ASSUME NEW k \in Keys, Open(k) PROVE TypeOK'
  <2>1. [count |-> 1, resetAt |-> now + Window] \in Bucket
    BY DEF Bucket, TypeOK
  <2> QED
    BY <1>1, <2>1 DEF TypeOK, Open, Pass
<1>2. ASSUME NEW k \in Keys, Count(k) PROVE TypeOK'
  <2>1. buckets[k] \in Bucket
    BY <1>2 DEF TypeOK, Count, Over, Absent
  <2>2. [buckets[k] EXCEPT !.count = @ + 1] \in Bucket
    BY <1>2, <2>1 DEF Bucket, Count, Full
  <2>3. buckets' = [buckets EXCEPT ![k] = [buckets[k] EXCEPT !.count = @ + 1]]
    BY <1>2 DEF Count
  <2> QED
    BY <1>2, <2>2, <2>3 DEF TypeOK, Count, Pass
<1>3. CASE Cleanup
  BY <1>3 DEF TypeOK, Cleanup
<1>4. CASE Tick
  BY <1>4 DEF TypeOK, Tick
<1>5. CASE UNCHANGED vars
  BY <1>5 DEF TypeOK, vars
<1> QED
  BY <1>1, <1>2, <1>3, <1>4, <1>5 DEF Next

\* Buckets always count from one to the limit.
THEOREM TypeCorrect == Spec => []TypeOK
<1>1. Init => TypeOK
  BY DEF Init, TypeOK
<1> QED
  BY <1>1, TypeStep, PTL DEF Spec

\* A request passes: the history grows by the present moment.
LEMMA PassAppends ==
  ASSUME TypeOK, NEW k \in Keys, Pass(k)
  PROVE  /\ passed[k] \in Seq(Nat) /\ Len(passed[k]) \in Nat
         /\ now' = now
         /\ Len(passed'[k]) = Len(passed[k]) + 1
         /\ \A i \in 1..Len(passed[k]) : passed'[k][i] = passed[k][i]
         /\ passed'[k][Len(passed[k]) + 1] = now
         /\ \A q \in Keys : q # k => passed'[q] = passed[q]
  BY DEF TypeOK, Pass

\* A sequence of moments with one more at its end is still sorted.
LEMMA SortedGrows ==
  ASSUME NEW p \in Seq(Nat), NEW q \in Seq(Nat), NEW t \in Nat, Sorted(p, t),
         Len(q) = Len(p) + 1, q[Len(p) + 1] = t,
         \A i \in 1..Len(p) : q[i] = p[i]
  PROVE  Sorted(q, t)
<1> DEFINE n == Len(p)
<1>1. n \in Nat /\ \A i \in 1..n : p[i] \in Nat
  OBVIOUS
<1>2. \A i, j \in 1..n : i <= j => p[i] <= p[j] /\ p[j] <= t
  BY DEF Sorted
<1>3. Len(q) = n + 1 /\ q[n + 1] = t /\ \A i \in 1..n : q[i] = p[i]
  OBVIOUS
<1> HIDE DEF n
<1> SUFFICES ASSUME NEW i \in 1..(n + 1), NEW j \in 1..(n + 1), i <= j
             PROVE  q[i] <= q[j] /\ q[j] <= t
  BY <1>3 DEF Sorted
<1>4. CASE j = n + 1
  <2>1. CASE i = n + 1
    BY <1>3, <1>4, <2>1
  <2>2. CASE i # n + 1
    <3>1. i \in 1..n
      BY <1>1, <2>2
    <3> QED
      BY <1>1, <1>2, <1>3, <1>4, <3>1
  <2> QED
    BY <2>1, <2>2
<1>5. CASE j # n + 1
  <2>1. i \in 1..n /\ j \in 1..n
    BY <1>1, <1>5
  <2> QED
    BY <1>2, <1>3, <2>1
<1> QED
  BY <1>4, <1>5

\* The marks stay dense when the history grows by one, if one of them is among
\* the last Limit passes.
LEMMA DenseGrows ==
  ASSUME NEW n \in Nat, NEW S, NEW T, S \subseteq T, T \subseteq Nat, Dense(S, n),
         NEW w \in T, n + 1 - Limit < w, w <= n + 1
  PROVE  Dense(T, n + 1)
<1> USE LimiterAssumption
<1>1. ASSUME NEW i \in 1..((n + 1) - Limit)
      PROVE  \E s \in T : i < s /\ s <= i + Limit
  <2>1. CASE i = n + 1 - Limit
    BY <2>1
  <2>2. CASE i # n + 1 - Limit
    <3>1. i \in 1..(n - Limit)
      BY <2>2
    <3> QED
      BY <3>1 DEF Dense
  <2> QED
    BY <2>1, <2>2
<1> HIDE LimiterAssumption
<1> QED
  BY ONLY <1>1 DEF Dense

\* The first request of a window.
LEMMA OpenStep ==
  ASSUME TypeOK, TypeOK', NEW k \in Keys, NEW S, OpenedAt(S, k), Open(k)
  PROVE  \E T : OpenedAt(T, k)'
<1>0. PICK p, q, n : p = passed[k] /\ q = passed'[k] /\ n = Len(passed[k])
  OBVIOUS
<1> DEFINE T == S \cup {n + 1}
<1> USE LimiterAssumption
<1>1. /\ p \in Seq(Nat) /\ q \in Seq(Nat) /\ n \in Nat /\ now \in Nat
      /\ S \subseteq 1..n
  BY <1>0 DEF TypeOK, OpenedAt
<1>2. /\ now' = now /\ Len(q) = n + 1 /\ q[n + 1] = now
      /\ \A i \in 1..n : q[i] = p[i]
  BY <1>0, PassAppends DEF Open
<1>3. buckets'[k].count = 1 /\ buckets'[k].resetAt = now + Window
  BY DEF Open, TypeOK
<1>4. \A s \in S : now - p[s] > Window
  BY <1>0 DEF Open, OpenedAt
<1>5. Sorted(p, now) /\ Spread(S, p) /\ Dense(S, n)
  BY <1>0 DEF OpenedAt
<1>6. T \subseteq 1..(n + 1)
  BY <1>1
<1>7. Sorted(q, now)
  BY <1>1, <1>2, <1>5, SortedGrows, <1>0
<1>8. Spread(T, q)
  <2> SUFFICES ASSUME NEW s \in T, NEW t \in T, s < t PROVE q[t] - q[s] > Window
    BY DEF Spread
  <2>1. s \in S /\ q[s] = p[s]
    BY <1>1, <1>2
  <2>2. CASE t = n + 1
    BY <1>2, <1>4, <2>1, <2>2
  <2>3. CASE t # n + 1
    BY <1>1, <1>2, <1>5, <2>1, <2>3 DEF Spread
  <2> QED
    BY <2>2, <2>3
<1>9. Dense(T, n + 1)
  <2>1. /\ n + 1 \in T /\ n + 1 - Limit < n + 1 /\ n + 1 <= n + 1 /\ T \subseteq Nat
        /\ S \subseteq T
    BY <1>1
  <2> QED
    BY <1>1, <1>5, <2>1, DenseGrows
<1>10. ~Over(k)'
  BY <1>1, <1>2, <1>3 DEF Over
<1>11. LastIs(n + 1, T, k)'
  BY <1>0, <1>1, <1>2, <1>3, <1>6 DEF LastIs
<1> QED
  BY <1>0, <1>2, <1>6, <1>7, <1>8, <1>9, <1>10, <1>11 DEF OpenedAt

\* A further request of a window.
LEMMA CountStep ==
  ASSUME TypeOK, TypeOK', NEW k \in Keys, NEW S, OpenedAt(S, k), Count(k)
  PROVE  OpenedAt(S, k)'
<1>0. PICK p, q, n : p = passed[k] /\ q = passed'[k] /\ n = Len(passed[k])
  OBVIOUS
<1> USE LimiterAssumption
<1>1. /\ p \in Seq(Nat) /\ q \in Seq(Nat) /\ n \in Nat /\ now \in Nat
      /\ S \subseteq 1..n
  BY <1>0 DEF TypeOK, OpenedAt
<1>2. /\ now' = now /\ Len(q) = n + 1 /\ q[n + 1] = now
      /\ \A i \in 1..n : q[i] = p[i]
  BY <1>0, PassAppends DEF Count
<1>3. /\ buckets'[k].count = buckets[k].count + 1
      /\ buckets'[k].resetAt = buckets[k].resetAt
      /\ buckets[k].count \in Nat /\ buckets[k].count < Limit
      /\ buckets[k].resetAt \in Int
  BY DEF Count, Full, TypeOK, Bucket, Absent
<1>4. PICK last \in S : LastIs(last, S, k)
  BY DEF Count, OpenedAt
<1>5. Sorted(p, now) /\ Spread(S, p) /\ Dense(S, n)
  BY <1>0 DEF OpenedAt
<1>6. /\ last = n + 1 - buckets[k].count
      /\ buckets[k].resetAt = p[last] + Window
      /\ \A t \in S : t <= last
  BY <1>0, <1>4 DEF LastIs
<1>7. ~Over(k)'
  BY <1>2, <1>3 DEF Count, Over
<1>8. Sorted(q, now)
  BY <1>1, <1>2, <1>5, SortedGrows, <1>0
<1>9. Spread(S, q)
  BY <1>1, <1>2, <1>5 DEF Spread
<1>10. Dense(S, n + 1)
  <2>1. n + 1 - Limit < last /\ last <= n + 1 /\ S \subseteq Nat
    <3>1. PICK c \in Nat : c = buckets[k].count
      BY <1>3
    <3>2. last = n + 1 - c /\ c < Limit
      BY <1>3, <1>6, <3>1
    <3>3. n \in Nat /\ Limit \in Nat
      BY <1>1
    <3>4. n + 1 - Limit < n + 1 - c /\ n + 1 - c <= n + 1
      BY <3>1, <3>2, <3>3
    <3>5. S \subseteq Nat
      BY <1>1
    <3> QED
      BY <3>2, <3>4, <3>5, Zenon
  <2> QED
    BY <1>1, <1>5, <2>1, DenseGrows
<1>11. LastIs(last, S, k)'
  <2>1. last \in 1..n /\ q[last] = p[last]
    BY <1>1, <1>2
  <2>2. last = (n + 1) + 1 - buckets'[k].count
    <3>1. PICK c \in Nat : c = buckets[k].count
      BY <1>3
    <3>2. buckets'[k].count = c + 1 /\ last = n + 1 - c
      BY <1>3, <1>6, <3>1
    <3>3. n \in Nat
      BY <1>1
    <3>4. n + 1 - c = (n + 1) + 1 - (c + 1)
      BY <3>1, <3>3
    <3> QED
      BY <3>2, <3>4, Zenon
  <2> QED
    BY <1>0, <1>2, <1>3, <1>6, <2>1, <2>2 DEF LastIs
<1>12. S \subseteq 1..(n + 1)
  BY <1>1
<1> QED
  BY <1>0, <1>2, <1>7, <1>8, <1>9, <1>10, <1>11, <1>12 DEF OpenedAt

\* A step that lets nothing through.
LEMMA QuietStep ==
  ASSUME TypeOK, NEW k \in Keys, NEW S, OpenedAt(S, k),
         passed'[k] = passed[k], now' \in {now, now + 1},
         buckets'[k] = buckets[k] \/ (Over(k) /\ buckets'[k] = Absent)
  PROVE  OpenedAt(S, k)'
<1> DEFINE p == passed[k]
           n == Len(p)
<1> USE LimiterAssumption
<1>0. /\ n \in Nat /\ now \in Nat /\ \A i \in 1..n : p[i] \in Nat
      /\ S \subseteq 1..n /\ buckets[k].resetAt \in Int
  BY DEF TypeOK, OpenedAt, Bucket, Absent
<1>1. Sorted(p, now')
  BY <1>0 DEF OpenedAt, Sorted
<1>2. CASE Over(k)
  <2>1. Over(k)' /\ \A s \in S : now' - p[s] > Window
    BY <1>0, <1>2 DEF OpenedAt, Over, Absent
  <2> QED
    BY <1>1, <2>1 DEF OpenedAt
<1>3. CASE ~Over(k)
  <2>1. PICK last \in S : LastIs(last, S, k)
    BY <1>3 DEF OpenedAt
  <2>2. \A t \in S : p[t] <= p[last]
    BY <1>0, <2>1 DEF OpenedAt, Sorted, LastIs
  <2>3. buckets'[k] = buckets[k] /\ buckets[k].resetAt = p[last] + Window
    BY <1>3, <2>1 DEF LastIs
  <2>4. Over(k)' => \A s \in S : now' - p[s] > Window
    BY <1>0, <2>2, <2>3 DEF Over
  <2>5. LastIs(last, S, k)'
    BY <2>1, <2>3 DEF LastIs
  <2> QED
    BY <1>1, <2>4, <2>5 DEF OpenedAt
<1> QED
  BY <1>2, <1>3

\* Every step keeps windows apart.
LEMMA ApartStep == TypeOK /\ TypeOK' /\ WindowsApart /\ [Next]_vars => WindowsApart'
<1> SUFFICES ASSUME TypeOK, TypeOK', WindowsApart, [Next]_vars, NEW q \in Keys
             PROVE  \E T \in SUBSET (1..Len(passed'[q])) : OpenedAt(T, q)'
  BY DEF WindowsApart
<1>1. PICK S : OpenedAt(S, q)
  BY DEF WindowsApart
<1>2. ASSUME NEW T, OpenedAt(T, q)'
      PROVE  T \in SUBSET (1..Len(passed'[q]))
  BY <1>2 DEF OpenedAt
<1>3. ASSUME NEW k \in Keys, Open(k) PROVE \E T : OpenedAt(T, q)'
  <2>1. CASE k = q
    BY <1>1, <1>3, <2>1, OpenStep
  <2>2. CASE k # q
    <3>1. passed'[q] = passed[q] /\ now' = now /\ buckets'[q] = buckets[q]
      BY <1>3, <2>2, PassAppends DEF Open, TypeOK
    <3> QED
      BY <1>1, <3>1, QuietStep
  <2> QED
    BY <2>1, <2>2
<1>4. ASSUME NEW k \in Keys, Count(k) PROVE \E T : OpenedAt(T, q)'
  <2>1. CASE k = q
    BY <1>1, <1>4, <2>1, CountStep
  <2>2. CASE k # q
    <3>1. passed'[q] = passed[q] /\ now' = now /\ buckets'[q] = buckets[q]
      BY <1>4, <2>2, PassAppends DEF Count, TypeOK
    <3> QED
      BY <1>1, <3>1, QuietStep
  <2> QED
    BY <2>1, <2>2
<1>5. CASE Cleanup \/ Tick \/ UNCHANGED vars
  <2>1. /\ passed'[q] = passed[q] /\ now' \in {now, now + 1}
        /\ buckets'[q] = buckets[q] \/ (Over(q) /\ buckets'[q] = Absent)
    BY <1>5 DEF Cleanup, Tick, vars, TypeOK
  <2>2. OpenedAt(S, q)'
    BY <1>1, <2>1, QuietStep
  <2> QED
    BY <1>2, <2>2
<1> QED
  BY <1>2, <1>3, <1>4, <1>5 DEF Next

\* Two windows' worth of requests are more than a window apart.
LEMMA ApartBudget == TypeOK /\ WindowsApart => PassBudget
<1> SUFFICES ASSUME TypeOK, WindowsApart, NEW k \in Keys,
                    NEW i \in 1..(Len(passed[k]) - 2 * Limit)
             PROVE  passed[k][i + 2 * Limit] - passed[k][i] > Window
  BY DEF PassBudget
<1> USE LimiterAssumption
<1> DEFINE p == passed[k]
           n == Len(p)
<1>1. PICK S : OpenedAt(S, k)
  BY DEF WindowsApart
<1>2. n \in Nat /\ (\A j \in 1..n : p[j] \in Nat) /\ S \subseteq 1..n
  BY <1>1 DEF TypeOK, OpenedAt
<1>3. \A j \in 1..(n - Limit) : \E s \in S : j < s /\ s <= j + Limit
  BY <1>1 DEF OpenedAt, Dense
<1>4. \A a, b \in 1..n : a <= b => p[a] <= p[b]
  BY <1>1 DEF OpenedAt, Sorted
<1>5. \A s, t \in S : s < t => p[t] - p[s] > Window
  BY <1>1 DEF OpenedAt, Spread
<1>6. i \in 1..(n - 2 * Limit)
  OBVIOUS
<1> HIDE DEF p, n
<1>7. i \in 1..(n - Limit) /\ i \in 1..n /\ i + 2 * Limit \in 1..n
  BY <1>2, <1>6
<1>8. PICK s \in S : i < s /\ s <= i + Limit
  BY <1>3, <1>7
<1>9. s \in 1..(n - Limit)
  BY <1>2, <1>6, <1>8
<1>10. PICK t \in S : s < t /\ t <= s + Limit
  BY <1>3, <1>9
<1>11. t <= i + 2 * Limit /\ s \in 1..n /\ t \in 1..n
  BY <1>2, <1>6, <1>8, <1>10
<1>12. p[i] <= p[s] /\ p[t] <= p[i + 2 * Limit] /\ p[t] - p[s] > Window
  BY <1>4, <1>5, <1>7, <1>8, <1>10, <1>11
<1>13. {p[i], p[s], p[t], p[i + 2 * Limit]} \subseteq Nat
  BY <1>2, <1>7, <1>11
<1> QED
  <2>1. {p[i], p[s], p[t], p[i + 2 * Limit]} \subseteq Int
    BY <1>13
  <2>2. p[i + 2 * Limit] - p[i] > Window
    BY <1>12, <1>13
  <2> QED
    BY <2>2 DEF p

\* Nothing has passed at first.
LEMMA ApartFirst == Init => WindowsApart
<1> SUFFICES ASSUME Init, NEW k \in Keys
             PROVE  \E S \in SUBSET (1..Len(passed[k])) : OpenedAt(S, k)
  BY DEF WindowsApart
<1>1. Len(passed[k]) = 0 /\ Over(k)
  BY DEF Init, Over, Absent
<1>2. OpenedAt({}, k)
  BY <1>1, LimiterAssumption DEF OpenedAt, Sorted, Spread, Dense
<1> QED
  BY <1>2

\* More than twice the limit never passes within the length of one window, for
\* every limit and window, wherever cleanups fall.
THEOREM BudgetKept == Spec => []PassBudget
<1>1. Init => TypeOK
  BY DEF Init, TypeOK
<1> QED
  BY <1>1, ApartFirst, TypeStep, ApartStep, ApartBudget, PTL DEF Spec

-----------------------------------------------------------------------------
\* The header: rounding a number of ticks down to whole seconds loses less than
\* a second.
LEMMA RoundingDown ==
  ASSUME NEW n \in Nat, NEW d \in Nat \ {0}
  PROVE  /\ n \div d \in Nat
         /\ (n \div d) * d + d > n
<1>1. n = d * (n \div d) + (n % d) /\ n % d \in 0..(d - 1)
  BY Z3
<1> QED
  BY <1>1

\* The Retry-After header is short by less than a second (Middleware).
THEOREM HeaderNearlyRight == Spec => []RetryNearlyEnough
<1>1. TypeOK => RetryNearlyEnough
  <2> SUFFICES ASSUME TypeOK, NEW k \in Keys, Refused(k)
               PROVE  RetryAt(k) + Second > buckets[k].resetAt
    BY DEF RetryNearlyEnough
  <2> DEFINE wait == buckets[k].resetAt - now
             secs == wait \div Second
  <2>1. buckets[k] \in Bucket /\ now \in Nat
    BY DEF TypeOK, Refused, Over, Full, Absent
  <2>2. wait \in Nat /\ Second \in Nat \ {0}
    BY <2>1, LimiterAssumption DEF Refused, Over, Bucket
  <2>3. secs \in Nat /\ secs * Second + Second > wait
    BY <2>2, RoundingDown
  <2>4. RetryAfter(k) \in Nat /\ RetryAfter(k) >= secs
    BY <2>3 DEF RetryAfter
  <2>5. RetryAfter(k) * Second >= secs * Second
    BY <2>2, <2>3, <2>4
  <2>6. buckets[k].resetAt = now + wait
    BY <2>1 DEF Bucket
  <2> HIDE DEF wait, secs
  <2> QED
    BY <2>1, <2>2, <2>3, <2>4, <2>5, <2>6 DEF RetryAt
<1> QED
  BY <1>1, TypeCorrect, PTL

-----------------------------------------------------------------------------
\* A full bucket counts the last Limit passes, and its window is not over.
LEMMA FullIsSpent == TypeOK /\ WindowsApart => RefusedOnlyWhenSpent
<1> SUFFICES ASSUME TypeOK, WindowsApart, NEW k \in Keys, Refused(k)
             PROVE  /\ Len(passed[k]) >= Limit
                    /\ now - passed[k][Len(passed[k]) - Limit + 1] <= Window
  BY DEF RefusedOnlyWhenSpent
<1>0. PICK p, n : p = passed[k] /\ n = Len(passed[k])
  OBVIOUS
<1>1. PICK S : OpenedAt(S, k)
  BY DEF WindowsApart
<1>2. PICK s \in S : LastIs(s, S, k)
  BY <1>1 DEF OpenedAt, Refused
<1>3. /\ n \in Nat /\ now \in Nat /\ s \in 1..n
      /\ \A i \in 1..n : p[i] \in Nat
  BY <1>0, <1>1 DEF TypeOK, OpenedAt
<1>4. PICK b \in Bucket : b = buckets[k]
  BY DEF TypeOK, Refused, Over, Absent
<1>5. b.count = Limit /\ now <= b.resetAt
  BY <1>3, <1>4, LimiterAssumption DEF Refused, Over, Full, Bucket
<1>6. s = n + 1 - Limit /\ b.resetAt = p[s] + Window
  BY <1>0, <1>2, <1>4, <1>5 DEF LastIs
<1>7. n >= Limit /\ s = n - Limit + 1
  BY <1>3, <1>6, LimiterAssumption
<1>8. now - p[s] <= Window
  <2>1. p[s] \in Nat
    BY <1>3
  <2> QED
    BY <1>3, <1>5, <1>6, <2>1, LimiterAssumption
<1> QED
  BY <1>0, <1>7, <1>8

\* Nobody is refused for nothing: the last Limit requests let through always
\* lie within one window of a refusal, wherever cleanups fall.
THEOREM RefusalsDue == Spec => []RefusedOnlyWhenSpent
<1>1. Init => TypeOK
  BY DEF Init, TypeOK
<1> QED
  BY <1>1, ApartFirst, TypeStep, ApartStep, FullIsSpent, PTL DEF Spec
=============================================================================
