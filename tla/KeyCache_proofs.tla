-------------------------- MODULE KeyCache_proofs ---------------------------
(***************************************************************************)
(* Proofs about KeyCache, for every number of keys and callers and every   *)
(* TTL.                                                                    *)
(***************************************************************************)
EXTENDS KeyCache, TLAPS

\* The lives of answers are natural numbers.
LEMMA LifeIsNat == \A r \in Replies : Life(r) \in Nat
  BY TTLAssumption DEF Life

\* What 1C says is a reply.
LEMMA OnecReplies == \A k : OnecSays(k) \in Replies
  BY DEF OnecSays, Replies

\* The type invariant of the cache is preserved by every step.
LEMMA TypeStep == TypeOK /\ [Next]_vars => TypeOK'
<1> SUFFICES ASSUME TypeOK, [Next]_vars PROVE TypeOK'
  OBVIOUS
<1> USE LifeIsNat, OnecReplies, TTLAssumption
<1>1. ASSUME NEW h \in Callers, NEW k \in Keys, Miss(h, k) PROVE TypeOK'
  BY <1>1 DEF TypeOK, Miss, Call
<1>2. ASSUME NEW c \in calls, Reply(c) PROVE TypeOK'
  BY <1>2 DEF TypeOK, Reply, Call
<1>3. ASSUME NEW c \in calls, Fail(c) PROVE TypeOK'
  BY <1>3 DEF TypeOK, Fail, Call, Replies
<1>4. ASSUME NEW c \in calls, Store(c) PROVE TypeOK'
  <2>1. c \in Call /\ c.reply \in Replies
    BY <1>4 DEF TypeOK, Store, Call
  <2>2. [reply |-> c.reply, expires |-> c.started + Life(c.reply)] \in Entry
    BY <2>1 DEF Entry, Call
  <2> QED
    BY <1>4, <2>1, <2>2 DEF TypeOK, Store, Replies, Call
<1>5. CASE Cleanup
  BY <1>5 DEF TypeOK, Cleanup, Entry, Absent, Replies
<1>6. ASSUME NEW k \in Keys, Switch(k) PROVE TypeOK'
  BY <1>6 DEF TypeOK, Switch
<1>7. CASE Tick
  BY <1>7 DEF TypeOK, Tick
<1>8. CASE UNCHANGED vars
  BY <1>8 DEF TypeOK, vars
<1> QED
  BY <1>1, <1>2, <1>3, <1>4, <1>5, <1>6, <1>7, <1>8 DEF Next, Verifying

\* The cache starts with the right shape.
LEMMA TypeInit == Init => TypeOK
  BY TTLAssumption, OnecReplies
  DEF Init, TypeOK, Entry, Absent, Replies, Never, Call, OnecSays

\* The cache and its callers always have the shape the code gives them.
THEOREM TypeCorrect == Spec => []TypeOK
  BY TypeInit, TypeStep, PTL DEF Spec

\* At the start 1C's replies are current and nothing is cached.
LEMMA TruthfulInit == Init => Truthful
  BY OnecReplies, TTLAssumption DEF Init, Truthful, OnecSays, Replies, Never

\* Every step keeps the cache truthful.
LEMMA TruthfulStep == TypeOK /\ Truthful /\ [Next]_vars => Truthful'
<1> SUFFICES ASSUME TypeOK, Truthful, [Next]_vars PROVE Truthful'
  OBVIOUS
<1> USE LifeIsNat, OnecReplies, TTLAssumption
<1>0. /\ \A k \in Keys, r \in Replies : said[k][r] \in Int
      /\ \A k \in Keys : entries[k] # Absent => entries[k].reply \in Replies
      /\ \A c \in calls : c \in Call
      /\ \A k \in Keys : entries[k].expires \in Nat
  BY DEF TypeOK, Entry
<1>1. ASSUME NEW h \in Callers, NEW k \in Keys, Miss(h, k) PROVE Truthful'
  BY <1>1, <1>0 DEF TypeOK, Truthful, Miss, OnecSays
<1>2. ASSUME NEW c \in calls, Reply(c) PROVE Truthful'
  BY <1>2, <1>0 DEF TypeOK, Truthful, Reply, OnecSays, Call
<1>3. ASSUME NEW c \in calls, Fail(c) PROVE Truthful'
  <2>1. \A k \in Keys, r \in Replies :
          said'[k][r] = IF k = c.key /\ r = "failed" THEN now ELSE said[k][r]
    BY <1>3, <1>0 DEF Fail, TypeOK, Call, Replies
  <2>2. \A k \in Keys, r \in Replies : said[k][r] <= said'[k][r]
    BY <2>1, <1>0 DEF Truthful, TypeOK
  <2>3. \A d \in calls' : d.reply # "none" => d.started <= said'[d.key][d.reply]
    <3> SUFFICES ASSUME NEW d \in calls', d.reply # "none"
                 PROVE  d.started <= said'[d.key][d.reply]
      OBVIOUS
    <3>1. CASE d \in calls
      <4>1. d.key \in Keys /\ d.reply \in Replies /\ d.started \in Nat
        BY <3>1, <1>0 DEF Call
      <4>2. d.started <= said[d.key][d.reply]
        BY <3>1 DEF Truthful
      <4>3. said'[d.key][d.reply] \in {said[d.key][d.reply], now}
        BY <4>1, <2>1
      <4> QED
        BY <4>1, <4>2, <4>3, <2>2, <1>0 DEF TypeOK
    <3>2. CASE d = [c EXCEPT !.reply = "failed"]
      BY <3>2, <2>1, <1>0 DEF Truthful, Call, Replies
    <3> QED
      BY <1>3, <3>1, <3>2 DEF Fail
  <2>4. \A d \in calls' : d.started <= now'
    <3>1. [c EXCEPT !.reply = "failed"].started = c.started
      BY <1>0 DEF Call
    <3> QED
      BY <1>3, <3>1 DEF Truthful, Fail
  <2>5. \A k \in Keys : entries[k] # Absent =>
          entries[k].expires <= said'[k][entries[k].reply] + Life(entries[k].reply)
    <3> SUFFICES ASSUME NEW k \in Keys, entries[k] # Absent
                 PROVE  entries[k].expires <=
                          said'[k][entries[k].reply] + Life(entries[k].reply)
      OBVIOUS
    <3> DEFINE r == entries[k].reply
    <3>1. r \in Replies /\ Life(r) \in Nat /\ entries[k].expires \in Nat
      BY <1>0
    <3>2. said[k][r] \in Int /\ said'[k][r] \in Int
      BY <3>1, <2>1, <1>0 DEF TypeOK
    <3>3. entries[k].expires <= said[k][r] + Life(r)
      BY DEF Truthful
    <3>4. said[k][r] <= said'[k][r]
      BY <3>1, <2>2
    <3> HIDE DEF r
    <3> QED
      BY <3>1, <3>2, <3>3, <3>4 DEF r
  <2>6. \A k \in Keys : said'[k][OnecSays(k)] = now
    BY <2>1, <1>0 DEF Truthful
  <2>7. \A k \in Keys, r \in Replies : said'[k][r] <= now
    BY <2>1, <1>0 DEF Truthful, TypeOK
  <2> QED
    BY <1>3, <2>3, <2>4, <2>5, <2>6, <2>7 DEF Truthful, Fail, OnecSays
<1>4. ASSUME NEW c \in calls, Store(c) PROVE Truthful'
  BY <1>4, <1>0 DEF TypeOK, Truthful, Store, OnecSays, Call
<1>5. CASE Cleanup
  BY <1>5, <1>0 DEF TypeOK, Truthful, Cleanup, OnecSays
<1>6. ASSUME NEW k \in Keys, Switch(k) PROVE Truthful'
  BY <1>6, <1>0 DEF TypeOK, Truthful, Switch, OnecSays, Replies, Call
<1>7. CASE Tick
  BY <1>7, <1>0 DEF TypeOK, Truthful, Tick, OnecSays, Replies, Call
<1>8. CASE UNCHANGED vars
  BY <1>8 DEF Truthful, vars, OnecSays
<1> QED
  BY <1>1, <1>2, <1>3, <1>4, <1>5, <1>6, <1>7, <1>8 DEF Next, Verifying

\* An entry that can be served bounds the age of its reply.
LEMMA TruthfulFades == TypeOK /\ Truthful => OldKeyFades /\ RefusalFades
<1> SUFFICES ASSUME TypeOK, Truthful, NEW k \in Keys, Fresh(k)
             PROVE  \A r \in Replies : entries[k].reply = r =>
                      now - said[k][r] < Life(r)
  BY TTLAssumption DEF OldKeyFades, RefusalFades, Life, Replies, Errors, TypeOK
<1> SUFFICES ASSUME NEW r \in Replies, entries[k].reply = r
             PROVE  now - said[k][r] < Life(r)
  OBVIOUS
<1>1. entries[k] # Absent
  BY DEF Replies, Absent
<1>2. entries[k].expires <= said[k][r] + Life(r)
  BY <1>1 DEF Truthful
<1>3. /\ now < entries[k].expires
      /\ entries[k].expires \in Nat /\ said[k][r] \in Int /\ now \in Nat
  BY DEF Fresh, TypeOK, Entry
<1> QED
  BY <1>2, <1>3, LifeIsNat

\* The cache is always truthful.
LEMMA AlwaysTruthful == Spec => [](TypeOK /\ Truthful)
<1>1. Init => TypeOK /\ Truthful
  BY TypeInit, TruthfulInit
<1>2. TypeOK /\ Truthful /\ [Next]_vars => (TypeOK /\ Truthful)'
  BY TypeStep, TruthfulStep
<1> QED
  BY <1>1, <1>2, PTL DEF Spec

\* A key that 1C no longer accepts is let in by the cache for less than TTL
\* after that: for every TTL, number of callers and duration of their calls.
THEOREM RotatedKeysFade == Spec => []OldKeyFades
  BY AlwaysTruthful, TruthfulFades, PTL

\* A refusal is served for less than the cap, and less than TTL, after it
\* was true.
THEOREM RefusalsFade == Spec => []RefusalFades
  BY AlwaysTruthful, TruthfulFades, PTL

-----------------------------------------------------------------------------
\* What 1C says of a key is an answer, and can be told.
LEMMA ToldAnswers ==
    \A k : /\ OnecSays(k) \in Told(k)
          /\ Told(k) \subseteq Answers
          /\ OnecSays(k) \in Answers
  BY DEF Told, OnecSays, Answers, Replies

\* At the start nothing is told but what 1C says.
LEMMA MemoryInit == Init => Memory!Init
<1> SUFFICES ASSUME Init PROVE Memory!Init
  OBVIOUS
<1>1. \A k \in Keys : Told(k) = {OnecSays(k)}
  BY ToldAnswers DEF Init, Told, Fresh, Absent, Answers, Replies
<1> QED
  BY <1>1, ToldAnswers DEF Memory!Init

\* As long as 1C does not change its mind, what can be told of a key only
\* dwindles.
LEMMA ToldDwindles ==
  ASSUME TypeOK,
         \/ Verifying
         \/ Cleanup
         \/ Tick
  PROVE  /\ accepts' = accepts
         /\ \A k \in Keys : Told(k)' \subseteq Told(k)
<1>0. now \in Nat /\ \A k \in Keys : entries[k].expires \in Nat
  BY DEF TypeOK, Entry
<1>1. ASSUME NEW h \in Callers, NEW j \in Keys, Miss(h, j)
      PROVE  accepts' = accepts /\ \A k \in Keys : Told(k)' \subseteq Told(k)
  BY <1>1 DEF Miss, Told, OnecSays, Fresh, Answers, Replies
<1>2. ASSUME NEW c \in calls, Reply(c)
      PROVE  accepts' = accepts /\ \A k \in Keys : Told(k)' \subseteq Told(k)
  BY <1>2, ToldAnswers DEF TypeOK, Call, Reply, Told, OnecSays, Fresh
<1>3. ASSUME NEW c \in calls, Fail(c)
      PROVE  accepts' = accepts /\ \A k \in Keys : Told(k)' \subseteq Told(k)
  BY <1>3 DEF TypeOK, Call, Fail, Told, OnecSays, Fresh, Answers, Replies
<1>4. ASSUME NEW c \in calls, Store(c)
      PROVE  accepts' = accepts /\ \A k \in Keys : Told(k)' \subseteq Told(k)
  <2>1. c.key \in Keys
    BY DEF TypeOK, Call
  <2>2. \A k \in Keys : \/ entries'[k] = entries[k]
                        \/ k = c.key /\ entries'[k].reply = c.reply
    BY <1>4, <2>1 DEF TypeOK, Store
  <2>3. now' = now /\ accepts' = accepts /\ calls' \subseteq calls
    BY <1>4 DEF Store
  <2> QED
    BY <2>2, <2>3 DEF Told, OnecSays, Fresh
<1>5. ASSUME Cleanup
      PROVE  accepts' = accepts /\ \A k \in Keys : Told(k)' \subseteq Told(k)
  BY <1>5 DEF Cleanup, Told, OnecSays, Fresh, Absent, Answers, Replies
<1>6. ASSUME Tick
      PROVE  accepts' = accepts /\ \A k \in Keys : Told(k)' \subseteq Told(k)
  BY <1>6, <1>0 DEF Tick, Told, OnecSays, Fresh
<1> QED
  BY <1>1, <1>2, <1>3, <1>4, <1>5, <1>6 DEF Verifying

\* A change of mind concerns one key, and adds what 1C now says of it.
LEMMA ToldOfSwitch ==
  ASSUME NEW j \in Keys, Switch(j)
  PROVE  /\ \A k \in Keys \ {j} : OnecSays(k)' = OnecSays(k) /\ Told(k)' = Told(k)
         /\ Told(j)' \subseteq Told(j) \cup {OnecSays(j)'}
  BY DEF Switch, Told, OnecSays, Fresh

\* Every step of the cache is one of the memory, or none.
LEMMA MemoryStep == TypeOK /\ [Next]_vars => [Memory!Next]_(Memory!vars)
<1> SUFFICES ASSUME TypeOK, [Next]_vars PROVE [Memory!Next]_(Memory!vars)
  OBVIOUS
<1>0. \A k : OnecSays(k)' \in Told(k)' /\ Told(k)' \subseteq Answers
             /\ OnecSays(k)' \in Answers
  BY DEF Told, OnecSays, Answers, Replies
<1>1. ASSUME NEW j \in Keys, Switch(j) PROVE Memory!Next
  <2>1. /\ \A k \in Keys \ {j} : OnecSays(k)' = OnecSays(k) /\ Told(k)' = Told(k)
        /\ Told(j)' \subseteq Told(j) \cup {OnecSays(j)'}
    BY <1>1, ToldOfSwitch
  <2>2. Memory!Change(j, OnecSays(j)')
    <3> DEFINE kept == Told(j)' \ {OnecSays(j)'}
    <3>1. kept \in SUBSET Told(j) /\ Told(j)' = kept \cup {OnecSays(j)'}
      BY <2>1, <1>0
    <3> HIDE DEF kept
    <3> QED
      BY <3>1, <2>1 DEF Memory!Change
  <2> QED
    BY <2>2, <1>0 DEF Memory!Next
<1>2. ASSUME Verifying \/ Cleanup \/ Tick PROVE Memory!Next
  <2>1. accepts' = accepts /\ \A k \in Keys : Told(k)' \subseteq Told(k)
    BY <1>2, ToldDwindles
  <2>2. \A k \in Keys : OnecSays(k)' = OnecSays(k)
    BY <2>1 DEF OnecSays
  <2>3. Memory!Forget
    BY <1>0, <2>1, <2>2 DEF Memory!Forget
  <2> QED
    BY <2>3 DEF Memory!Next
<1>3. ASSUME UNCHANGED vars PROVE UNCHANGED Memory!vars
  BY <1>3 DEF vars, Memory!vars, OnecSays, Told, Fresh
<1> QED
  BY <1>1, <1>2, <1>3 DEF Next

\* The cache is the memory that AuthServer logs in against, for every number
\* of racing callers and every TTL.
THEOREM RemembersLikeMemory == Spec => ImplementsReplyMemory
<1>1. Init => Memory!Init
  BY MemoryInit
<1>2. TypeOK /\ [Next]_vars => [Memory!Next]_(Memory!vars)
  BY MemoryStep
<1> QED
  BY <1>1, <1>2, TypeCorrect, PTL DEF Spec, ImplementsReplyMemory, Memory!Spec
=============================================================================
