------------------------ MODULE ResolveCache_proofs -------------------------
(***************************************************************************)
(* Proofs about ResolveCache, for every set of requests, number of         *)
(* callers, TTL (0 included), timeout and size.                            *)
(***************************************************************************)
EXTENDS ResolveCache, FiniteSetTheorems, TLAPS

\* The key of a request is among the keys, its view among the views, and the
\* absent entry is not an entry.
LEMMA Shapes ==
  /\ \A req \in Requests : Key(req) \in Keys /\ View(req) \in Views
  /\ Absent \notin Entry
  BY DEF Keys, Views, Absent, Entry

\* Two requests with one key are shown the same by 1C: what the answer
\* depends on is in the key.
LEMMA KeyDeterminesView ==
  ASSUME NEW a \in Requests, NEW b \in Requests, Key(a) = Key(b)
  PROVE  View(a) = View(b)
<1>1. /\ a \in Request /\ b \in Request
      /\ a.entity = b.entity /\ a.query = b.query /\ Part(a) = Part(b)
  BY CacheAssumption DEF Key
<1>2. CASE a.entity = "catalog"
  BY <1>1, <1>2 DEF View, Part
<1>3. CASE a.entity = "warehouse"
  BY <1>1, <1>3 DEF View, Part
<1>4. CASE a.entity = "firm"
  BY <1>1, <1>4 DEF View, Part
<1>5. CASE a.entity = "list"
  BY <1>1, <1>5 DEF View, Part
<1> QED
  BY <1>1, <1>2, <1>3, <1>4, <1>5 DEF Request, Entities

\* Keeping some of the entries leaves the rest absent.
LEMMA OnlyKeeps ==
  ASSUME TypeOK, NEW kept \in SUBSET Present
  PROVE  /\ Only(kept) \in [Keys -> Entry \cup {Absent}]
         /\ \A k \in Keys : Only(kept)[k] = IF k \in kept THEN entries[k] ELSE Absent
  BY DEF Only, TypeOK, Present

\* What Set keeps is part of what there was.
LEMMA RoomKeeps ==
  ASSUME NEW k, NEW kept \in SUBSET Present, Room(k, kept)
  PROVE  kept \subseteq Present
  OBVIOUS

\* The steps that only drop entries.
Drops ==
    \E kept \in SUBSET Present :
      /\ entries' = Only(kept)
      /\ now' = now

\* A new entry for an answered call.
Fresh(c) ==
    [view |-> View(c.req), at |-> c.at, expires |-> now + TTL]

\* Every step drops entries, leaves them alone, or stores one answer.
LEMMA StepKinds ==
  ASSUME TypeOK, [Next]_vars
  PROVE  \/ Drops
         \/ UNCHANGED entries
         \/ \E c \in calls : Store(c) /\ TTL # 0
<1>1. \A h \in Callers, req \in Requests : Ask(h, req) => Drops
  BY DEF Ask, Drops
<1>2. Sweep => Drops
  BY DEF Sweep, Drops, Unexpired
<1>3. \A c \in calls : Store(c) => UNCHANGED entries \/ TTL # 0
  BY DEF Store
<1> QED
  BY <1>1, <1>2, <1>3
  DEF Next, Resolving, Answer, Fail, Close, StopJanitor, Tick, vars

\* The type invariant holds at the start.
LEMMA TypeInit == Init => TypeOK
<1> SUFFICES ASSUME Init PROVE TypeOK
  OBVIOUS
<1>1. janitor \in BOOLEAN /\ closed \in BOOLEAN
  BY Zenon DEF Init
<1>2. /\ entries \in [Keys -> Entry \cup {Absent}]
      /\ calls \subseteq Call
      /\ now \in Nat
  BY DEF Init
<1> QED
  BY <1>1, <1>2, Zenon DEF TypeOK

\* Every step keeps the type invariant.
LEMMA TypeStep == TypeOK /\ [Next]_vars => TypeOK'
<1> SUFFICES ASSUME TypeOK, [Next]_vars PROVE TypeOK'
  OBVIOUS
<1> USE CacheAssumption
<1>1. ASSUME NEW h \in Callers, NEW req \in Requests, Ask(h, req) PROVE TypeOK'
  <2>1. Present \ {Key(req)} \in SUBSET Present
    OBVIOUS
  <2> QED
    BY <1>1, <2>1, OnlyKeeps DEF TypeOK, Ask, Call, NotYet
<1>2. ASSUME NEW c \in calls, Answer(c) PROVE TypeOK'
  BY <1>2 DEF TypeOK, Answer, Call
<1>3. ASSUME NEW c \in calls, Fail(c) PROVE TypeOK'
  BY <1>3 DEF TypeOK, Fail
<1>4. ASSUME NEW c \in calls, Store(c) PROVE TypeOK'
  <2>1. c \in Call /\ c.req \in Requests /\ c.at \in Nat
    BY <1>4 DEF TypeOK, Store, Call
  <2>2. Fresh(c) \in Entry
    BY <2>1, Shapes DEF Entry, Fresh, TypeOK
  <2>3. entries' \in [Keys -> Entry \cup {Absent}]
    <3>1. CASE TTL = 0
      BY <1>4, <3>1 DEF Store, TypeOK
    <3>2. CASE TTL # 0
      <4>1. PICK kept \in SUBSET Present :
              entries' = [Only(kept) EXCEPT ![Key(c.req)] = Fresh(c)]
        BY <1>4, <3>2 DEF Store, Fresh
      <4> QED
        BY <4>1, <2>2, OnlyKeeps
    <3> QED
      BY <3>1, <3>2
  <2> QED
    BY <1>4, <2>3 DEF TypeOK, Store
<1>5. CASE Sweep
  <2>1. Unexpired \in SUBSET Present
    BY DEF Unexpired
  <2> QED
    BY <1>5, <2>1, OnlyKeeps DEF TypeOK, Sweep
<1>6. CASE Close
  BY <1>6, Zenon DEF TypeOK, Close
<1>7. CASE StopJanitor
  BY <1>7, Zenon DEF TypeOK, StopJanitor
<1>8. CASE Tick
  <2>1. now' \in Nat
    BY <1>8 DEF TypeOK, Tick
  <2> QED
    BY <1>8, <2>1, Zenon DEF TypeOK, Tick
<1>9. CASE UNCHANGED vars
  BY <1>9, Zenon DEF TypeOK, vars
<1> QED
  BY <1>1, <1>2, <1>3, <1>4, <1>5, <1>6, <1>7, <1>8, <1>9
  DEF Next, Resolving

\* The cache and its callers always have the shape the code gives them.
THEOREM TypeCorrect == Spec => []TypeOK
  BY TypeInit, TypeStep, PTL DEF Spec

\* Storing an answer: what is kept, and where the answer goes.
LEMMA StoreKeeps ==
  ASSUME TypeOK, NEW c \in calls, Store(c), TTL # 0
  PROVE  /\ c \in Call /\ c.req \in Requests /\ c.at \in Nat
         /\ Key(c.req) \in Keys
         /\ \E kept \in SUBSET Present :
              /\ Room(Key(c.req), kept)
              /\ \A k \in Keys : entries'[k] =
                   IF k = Key(c.req) THEN Fresh(c)
                   ELSE IF k \in kept THEN entries[k] ELSE Absent
<1>1. c \in Call /\ c.req \in Requests /\ c.at \in Nat
  BY DEF TypeOK, Store, Call
<1>2. Key(c.req) \in Keys
  BY <1>1, Shapes
<1>3. PICK kept \in SUBSET Present :
        /\ Room(Key(c.req), kept)
        /\ entries' = [Only(kept) EXCEPT ![Key(c.req)] = Fresh(c)]
  BY DEF Store, Fresh
<1> QED
  BY <1>1, <1>2, <1>3, OnlyKeeps

\* Every step keeps each entry the view of a request with its key.
LEMMA LocatedStep == TypeOK /\ Located /\ [Next]_vars => Located'
<1> SUFFICES ASSUME TypeOK, Located, [Next]_vars, NEW k \in Present'
             PROVE  \E req \in Requests :
                      Key(req) = k /\ View(req) = entries'[k].view
  BY DEF Located
<1>0. k \in Keys /\ entries'[k] # Absent
  BY DEF Present
<1>1. CASE Drops
  BY <1>0, <1>1, OnlyKeeps DEF Drops, Located, Present
<1>2. CASE UNCHANGED entries
  BY <1>0, <1>2 DEF Located, Present
<1>3. ASSUME NEW c \in calls, Store(c), TTL # 0
      PROVE  \E req \in Requests : Key(req) = k /\ View(req) = entries'[k].view
  <2>1. CASE k = Key(c.req)
    <3>1. entries'[k] = Fresh(c) /\ c.req \in Requests
      BY <1>3, <2>1, <1>0, StoreKeeps
    <3>2. entries'[k].view = View(c.req)
      BY <3>1 DEF Fresh
    <3> QED
      BY <2>1, <3>1, <3>2
  <2>2. CASE k # Key(c.req)
    BY <1>3, <2>2, <1>0, StoreKeeps DEF Located, Present
  <2> QED
    BY <2>1, <2>2
<1> QED
  BY <1>1, <1>2, <1>3, StepKinds

\* A caller is answered from the cache with what 1C would show to it.
THEOREM CallersKeptApart == Spec => []AnswersTheCaller
<1>1. Init => Located
  BY DEF Init, Located, Present
<1>2. TypeOK /\ Located => AnswersTheCaller
  <2> SUFFICES ASSUME TypeOK, Located, NEW req \in Requests, Hit(req)
               PROVE  entries[Key(req)].view = View(req)
    BY DEF AnswersTheCaller
  <2>1. Key(req) \in Present
    BY Shapes DEF Hit, Expired, Present, Absent, TypeOK
  <2> QED
    BY <2>1, KeyDeterminesView DEF Located
<1> QED
  BY <1>1, <1>2, TypeInit, TypeStep, LocatedStep, PTL DEF Spec

\* Every step keeps calls and entries in the order of time.
LEMMA InOrderStep == TypeOK /\ InOrder /\ [Next]_vars => InOrder'
<1> SUFFICES ASSUME TypeOK, InOrder, [Next]_vars PROVE InOrder'
  OBVIOUS
<1> USE CacheAssumption
<1> DEFINE Timely(c, t) ==
             /\ c.started <= t
             /\ t <= c.started + Timeout
             /\ c.at # NotYet => c.started <= c.at /\ c.at <= t
<1>1. \A c \in calls' : Timely(c, now')
  <2>1. ASSUME NEW h \in Callers, NEW req \in Requests, Ask(h, req)
        PROVE  \A c \in calls' : Timely(c, now')
    BY <2>1 DEF Ask, InOrder, TypeOK, NotYet
  <2>2. ASSUME NEW c \in calls, Answer(c)
        PROVE  \A d \in calls' : Timely(d, now')
    <3> SUFFICES ASSUME NEW d \in calls' PROVE Timely(d, now)
      BY <2>2 DEF Answer
    <3>1. CASE d \in calls
      BY <3>1 DEF InOrder
    <3>2. CASE d = [c EXCEPT !.at = now]
      <4>1. c \in Call /\ d.started = c.started /\ d.at = now
        BY <2>2, <3>2 DEF TypeOK, Answer, Call
      <4> QED
        BY <4>1 DEF InOrder, TypeOK, Call
    <3> QED
      BY <2>2, <3>1, <3>2 DEF Answer
  <2>3. CASE calls' \subseteq calls /\ now' = now
    BY <2>3 DEF InOrder
  <2>4. CASE Tick
    <3> SUFFICES ASSUME NEW c \in calls PROVE Timely(c, now + 1)
      BY <2>4 DEF Tick
    <3>1. /\ c.started \in Nat /\ c.at \in Int /\ now \in Nat
          /\ now < c.started + Timeout
      BY <2>4 DEF TypeOK, Call, NotYet, Tick, InTime
    <3> QED
      BY <3>1 DEF InOrder
  <2> QED
    BY <2>1, <2>2, <2>3, <2>4
    DEF Next, Resolving, Fail, Store, Sweep, Close, StopJanitor, vars
<1>2. ASSUME NEW k \in Present'
      PROVE  entries'[k].expires <= entries'[k].at + TTL + Timeout
  <2>0. k \in Keys /\ entries'[k] # Absent
    BY DEF Present
  <2>1. CASE Drops
    BY <2>0, <2>1, OnlyKeeps DEF Drops, InOrder, Present
  <2>2. CASE UNCHANGED entries
    BY <2>0, <2>2 DEF InOrder, Present
  <2>3. ASSUME NEW c \in calls, Store(c), TTL # 0
        PROVE  entries'[k].expires <= entries'[k].at + TTL + Timeout
    <3>1. CASE k = Key(c.req)
      <4>1. entries'[k] = Fresh(c) /\ c \in Call /\ c.at \in Nat
        BY <2>3, <3>1, <2>0, StoreKeeps
      <4>2. entries'[k].expires = now + TTL /\ entries'[k].at = c.at
        BY <4>1 DEF Fresh
      <4>3. c.started <= c.at /\ now <= c.started + Timeout
        BY <2>3 DEF InOrder, Store
      <4>4. c.started \in Nat /\ now \in Nat
        BY <4>1 DEF Call, TypeOK
      <4> QED
        BY <4>1, <4>2, <4>3, <4>4
    <3>2. CASE k # Key(c.req)
      BY <2>3, <3>2, <2>0, StoreKeeps DEF InOrder, Present
    <3> QED
      BY <3>1, <3>2
  <2> QED
    BY <2>1, <2>2, <2>3, StepKinds
<1> QED
  BY <1>1, <1>2 DEF InOrder

\* However callers race, a cached answer is never served for longer than TTL
\* after the longest request.
THEOREM AnswersAge == Spec => []AgeBounded
<1>1. Init => InOrder
  BY DEF Init, InOrder, Present
<1>2. TypeOK /\ InOrder => AgeBounded
  <2> SUFFICES ASSUME TypeOK, InOrder, NEW k \in Keys, ~Expired(k)
               PROVE  now - entries[k].at <= TTL + Timeout
    BY DEF AgeBounded
  <2>1. k \in Present
    BY DEF Expired, Present, Absent, TypeOK
  <2>2. entries[k].expires <= entries[k].at + TTL + Timeout
    BY <2>1 DEF InOrder
  <2>3. entries[k].expires \in Nat /\ entries[k].at \in Nat
    BY <2>1 DEF TypeOK, Present, Entry
  <2> QED
    BY <2>2, <2>3, CacheAssumption DEF Expired, TypeOK
<1> QED
  BY <1>1, <1>2, TypeInit, TypeStep, InOrderStep, PTL DEF Spec

\* A finite map within the bound: Bounded, with what Cardinality needs.
FiniteBound == IsFiniteSet(Present) /\ Bounded

\* Fewer entries stay within the bound.
LEMMA FewerBounded ==
  ASSUME FiniteBound, NEW S, S \subseteq Present
  PROVE  IsFiniteSet(S) /\ Cardinality(S) <= MaxSize
<1>1. IsFiniteSet(S) /\ Cardinality(S) <= Cardinality(Present)
  BY FS_Subset DEF FiniteBound
<1>2. Cardinality(S) \in Nat /\ Cardinality(Present) \in Nat
  BY <1>1, FS_CardinalityType DEF FiniteBound
<1> QED
  BY <1>1, <1>2, CacheAssumption DEF FiniteBound, Bounded

\* What Set keeps leaves room for one more key, unless the key was there.
LEMMA RoomForOne ==
  ASSUME FiniteBound, NEW k, k \notin Present,
         NEW kept \in SUBSET Present, Room(k, kept)
  PROVE  IsFiniteSet(kept) /\ Cardinality(kept) < MaxSize
<1> USE CacheAssumption
<1>1. IsFiniteSet(kept) /\ Cardinality(kept) \in Nat
  BY FewerBounded, FS_CardinalityType
<1>2. Cardinality(Present) \in Nat
  BY FS_CardinalityType DEF FiniteBound
<1>3. CASE Full(k)
  BY <1>1, <1>3 DEF Room, Evicted
<1>4. CASE ~Full(k)
  BY <1>1, <1>2, <1>4 DEF Room, Full
<1> QED
  BY <1>3, <1>4

\* Every step keeps the map within the bound.
LEMMA BoundedStep == TypeOK /\ FiniteBound /\ [Next]_vars => FiniteBound'
<1> SUFFICES ASSUME TypeOK, FiniteBound, [Next]_vars PROVE FiniteBound'
  OBVIOUS
<1>1. CASE Present' \subseteq Present
  BY <1>1, FewerBounded DEF FiniteBound, Bounded
<1>2. CASE Drops
  <2>1. Present' \subseteq Present
    BY <1>2, OnlyKeeps DEF Drops, Present
  <2> QED
    BY <2>1, <1>1
<1>3. CASE UNCHANGED entries
  BY <1>3, <1>1 DEF Present
<1>4. ASSUME NEW c \in calls, Store(c), TTL # 0 PROVE FiniteBound'
  <2> DEFINE new == Key(c.req)
  <2>1. PICK kept \in SUBSET Present :
          /\ Room(new, kept)
          /\ \A k \in Keys : entries'[k] =
               IF k = new THEN Fresh(c)
               ELSE IF k \in kept THEN entries[k] ELSE Absent
    BY <1>4, StoreKeeps
  <2>2. Present' \subseteq kept \cup {new}
    BY <2>1 DEF Present
  <2>3. CASE new \in Present
    BY <2>1, <2>2, <2>3, <1>1
  <2>4. CASE new \notin Present
    <3>1. IsFiniteSet(kept) /\ Cardinality(kept) < MaxSize
      BY <2>1, <2>4, RoomForOne
    <3>2. new \notin kept
      BY <2>1, <2>4
    <3>3. /\ IsFiniteSet(kept \cup {new})
          /\ Cardinality(kept \cup {new}) = Cardinality(kept) + 1
      BY <3>1, <3>2, FS_AddElement
    <3>4. /\ IsFiniteSet(Present')
          /\ Cardinality(Present') <= Cardinality(kept \cup {new})
      BY <2>2, <3>3, FS_Subset
    <3>5. Cardinality(Present') \in Nat /\ Cardinality(kept) \in Nat
      BY <3>1, <3>4, FS_CardinalityType
    <3> QED
      BY <3>1, <3>3, <3>4, <3>5, CacheAssumption DEF FiniteBound, Bounded
  <2> QED
    BY <2>3, <2>4
<1> QED
  BY <1>2, <1>3, <1>4, StepKinds

\* An empty map is within the bound.
LEMMA BoundedInit == Init => FiniteBound
<1> SUFFICES ASSUME Init PROVE FiniteBound
  OBVIOUS
<1>1. Present = {}
  BY DEF Init, Present
<1> QED
  BY <1>1, FS_EmptySet, CacheAssumption DEF FiniteBound, Bounded

\* The map never outgrows MaxSize, whatever its callers do at once.
THEOREM NeverOverfull == Spec => []Bounded
  BY BoundedInit, TypeInit, TypeStep, BoundedStep, PTL DEF Spec, FiniteBound

\* A live entry is dropped by nothing but the storing of an answer: Get drops
\* the entry it found expired, the janitor what has expired.
LEMMA OnlyStoreDropsLive ==
  ASSUME TypeOK, [Next]_vars, NEW k \in Unexpired, entries'[k] = Absent
  PROVE  \E c \in calls : Store(c) /\ TTL # 0
<1>1. k \in Present /\ ~Expired(k) /\ entries[k] # Absent /\ k \in Keys
  BY DEF Unexpired, Present
<1>2. entries' # entries
  BY <1>1
<1>3. \A h \in Callers, req \in Requests : ~Ask(h, req)
  BY <1>1 DEF Ask, Only
<1>4. ~Sweep
  BY <1>1 DEF Sweep, Only
<1>5. \A c \in calls : Store(c) => TTL # 0
  BY <1>2 DEF Store
<1> QED
  BY <1>2, <1>3, <1>4, <1>5
  DEF Next, Resolving, Answer, Fail, Close, StopJanitor, Tick, vars

\* A live entry makes room only when no expired one could, and then only as
\* much room as is needed (evictLocked).
THEOREM LiveGoesLast == Spec => ExpiredGoFirst
<1> DEFINE LastResort == \A k \in Unexpired : entries'[k] = Absent =>
             /\ \A d \in Present' : d \in Unexpired \/ entries'[d] # entries[d]
             /\ Cardinality(Present') = MaxSize
<1>1. ASSUME TypeOK, FiniteBound, [Next]_vars PROVE [LastResort]_vars
  <2> SUFFICES ASSUME NEW k \in Unexpired, entries'[k] = Absent
               PROVE  /\ \A d \in Present' :
                           d \in Unexpired \/ entries'[d] # entries[d]
                      /\ Cardinality(Present') = MaxSize
    OBVIOUS
  <2>1. PICK c \in calls : Store(c) /\ TTL # 0
    BY <1>1, OnlyStoreDropsLive
  <2> DEFINE new == Key(c.req)
  <2>2. PICK kept \in SUBSET Present :
          /\ Room(new, kept)
          /\ \A d \in Keys : entries'[d] =
               IF d = new THEN Fresh(c)
               ELSE IF d \in kept THEN entries[d] ELSE Absent
    BY <1>1, <2>1, StoreKeeps
  <2>3. Fresh(c) # Absent /\ new \in Keys
    <3>1. now + TTL # -1
      BY <1>1, CacheAssumption DEF TypeOK
    <3>2. QED
      BY <1>1, <2>1, <3>1, StoreKeeps DEF Fresh, Absent
  <2>4. k \in Keys /\ k \in Present /\ entries[k] # Absent
    BY DEF Unexpired, Present
  <2>5. k # new /\ k \notin kept
    BY <2>2, <2>3, <2>4
  <2>6. Full(new) /\ Evicted(kept)
    BY <2>2, <2>4, <2>5 DEF Room
  <2>7. kept \subseteq Unexpired /\ Cardinality(kept) = MaxSize - 1
    BY <2>5, <2>6 DEF Evicted
  <2>8. new \notin Present /\ new \notin kept
    BY <2>2, <2>6 DEF Full
  <2>9. Present' = kept \cup {new}
    <3>1. \A d \in kept : d \in Keys /\ entries[d] # Absent
      BY <2>2 DEF Present
    <3>2. QED
      BY <2>2, <2>3, <3>1 DEF Present
  <2>10. IsFiniteSet(kept)
    BY <1>1, <2>2, FewerBounded
  <2>11. Cardinality(Present') = MaxSize
    <3>1. Cardinality(kept \cup {new}) = Cardinality(kept) + 1
      BY <2>8, <2>10, FS_AddElement
    <3>2. (MaxSize - 1) + 1 = MaxSize
      BY CacheAssumption
    <3>3. QED
      BY <2>7, <2>9, <3>1, <3>2
  <2>12. \A d \in Present' : d \in Unexpired \/ entries'[d] # entries[d]
    <3>1. entries[new] = Absent /\ entries'[new] = Fresh(c)
      BY <2>2, <2>3, <2>8 DEF Present
    <3>2. QED
      BY <2>3, <2>7, <2>9, <3>1
  <2>13. QED
    BY <2>11, <2>12
<1>2. QED
  BY <1>1, BoundedInit, TypeInit, TypeStep, BoundedStep, PTL
  DEF Spec, ExpiredGoFirst
=============================================================================
