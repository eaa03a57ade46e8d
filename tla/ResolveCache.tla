---------------------------- MODULE ResolveCache ----------------------------
(***************************************************************************)
(* The cache of resolve_* answers in the 1C client of one database         *)
(* (internal/onec/cache.go, the Resolve* methods of client.go), with its   *)
(* janitor goroutine.                                                      *)
(*                                                                         *)
(* A method looks into the cache, asks 1C when it finds nothing, and       *)
(* stores the answer; the mutex is held for the look and for the store,    *)
(* never for the request.  A payload is what tells answers apart: the view *)
(* 1C gave and the moment it gave it.  A query stands for the query as     *)
(* normalised by key() together with the limit.                            *)
(***************************************************************************)
EXTENDS Integers, FiniteSets

CONSTANTS
    Requests,           \* what callers ask: a subset of Request
    Queries, Subs,      \* Subs: accounts of 1C (UUIDs, "-" is none of them)
    Callers,
    TTL,                \* 0 switches the cache off
    MaxSize,            \* resolveCacheMaxEntries
    Timeout,            \* of an HTTP request to 1C
    MaxTime             \* bound: the clock stops here

\* "catalog" stands for customer, product, material and cost_article, which
\* take include_groups; "list" for sales_channel, cash and operation.
Entities == {"catalog", "warehouse", "firm", "list"}

Request == [entity: Entities, query: Queries, groups: BOOLEAN,
            sub: Subs, cost: BOOLEAN]

ASSUME CacheAssumption ==
    /\ Requests \subseteq Request
    /\ TTL \in Nat /\ Timeout \in Nat /\ MaxTime \in Nat
    /\ MaxSize \in Nat \ {0}

VARIABLES entries, calls, janitor, closed, now

vars == <<entries, calls, janitor, closed, now>>

\* The first part of the cache key: entity plus what 1C's answer depends on.
\* Mutant: the cost right is left out.
NoCostPart(req) ==
    CASE req.entity = "catalog" -> [groups |-> req.groups]
      [] req.entity = "firm" -> [sub |-> req.sub]
      [] OTHER -> [none |-> TRUE]

Part(req) ==
    CASE req.entity = "catalog" -> [groups |-> req.groups]
      [] req.entity = "warehouse" -> [production |-> req.cost]
      [] req.entity = "firm" -> [sub |-> req.sub]
      [] OTHER -> [none |-> TRUE]

Key(req) == [entity |-> req.entity, part |-> Part(req), query |-> req.query]

Keys == {Key(req) : req \in Requests}

\* What 1C shows to a caller: groups if they were asked for, production
\* warehouses to holders of the cost right, the firms the account may see.
View(req) ==
    [entity |-> req.entity,
     query  |-> req.query,
     groups |-> req.entity = "catalog" /\ req.groups,
     cost   |-> req.entity = "warehouse" /\ req.cost,
     firms  |-> IF req.entity = "firm" THEN {req.sub} ELSE {}]

Views == {View(req) : req \in Requests}

\* An absent entry is one that expired before time began.
Absent == [view |-> [entity |-> "none"], at |-> 0, expires |-> -1]

Entry == [view: Views, at: Nat, expires: Nat]

NotYet == -1

Call == [caller: Callers, req: Requests, started: Nat, at: Nat \cup {NotYet}]

Present == {k \in Keys : entries[k] # Absent}

Expired(k) == now > entries[k].expires

Hit(req) == ~Expired(Key(req))

Unexpired == {k \in Present : ~Expired(k)}

Only(kept) == [k \in Keys |-> IF k \in kept THEN entries[k] ELSE Absent]

Init ==
    /\ entries = [k \in Keys |-> Absent]
    /\ calls = {}
    /\ janitor \in BOOLEAN /\ (janitor <=> TTL > 0)
    /\ closed = FALSE
    /\ now = 0

\* Get misses, dropping the entry if it was there but expired, and the
\* method sends its request.  With a hit it returns and changes nothing.
Ask(h, req) ==
    /\ \A c \in calls : c.caller # h
    /\ Expired(Key(req))
    /\ entries' = Only(Present \ {Key(req)})
    /\ calls' = calls \cup
         {[caller |-> h, req |-> req, started |-> now, at |-> NotYet]}
    /\ UNCHANGED <<janitor, closed, now>>

\* 1C computes its answer.
Answer(c) ==
    /\ c \in calls /\ c.at = NotYet
    /\ calls' = (calls \ {c}) \cup {[c EXCEPT !.at = now]}
    /\ UNCHANGED <<entries, janitor, closed, now>>

\* An error of any kind, the timeout included, is returned and not cached.
Fail(c) ==
    /\ c \in calls
    /\ calls' = calls \ {c}
    /\ UNCHANGED <<entries, janitor, closed, now>>

\* Mutant: whatever comes first in the map goes.
EvictedAny(kept) ==
    kept \subseteq Present /\ Cardinality(kept) = MaxSize - 1

\* evictLocked: the expired entries go; if that made no room, live ones go
\* in the order of the map's iteration, until there is.
Evicted(kept) ==
    IF Cardinality(Unexpired) < MaxSize
      THEN kept = Unexpired
      ELSE kept \subseteq Unexpired /\ Cardinality(kept) = MaxSize - 1

\* Mutant: one too many.
FullTooLate(k) == k \notin Present /\ Cardinality(Present) > MaxSize

Full(k) == k \notin Present /\ Cardinality(Present) >= MaxSize

\* What Set keeps of the other entries.
Room(k, kept) ==
    IF Full(k) THEN Evicted(kept) ELSE kept = Present

\* The answer is stored under the key it was asked for, for TTL from now.
Store(c) ==
    /\ c \in calls /\ c.at # NotYet
    /\ calls' = calls \ {c}
    /\ IF TTL = 0 THEN UNCHANGED entries ELSE
         \E kept \in SUBSET Present :
           /\ Room(Key(c.req), kept)
           /\ entries' = [Only(kept) EXCEPT ![Key(c.req)] =
                [view |-> View(c.req), at |-> c.at, expires |-> now + TTL]]
    /\ UNCHANGED <<janitor, closed, now>>

\* Mutant: the comparison is the wrong way round.
SweepFresh ==
    /\ janitor
    /\ entries' = Only(Present \ Unexpired)
    /\ UNCHANGED <<calls, janitor, closed, now>>

\* The janitor wakes up.
Sweep ==
    /\ janitor
    /\ entries' = Only(Unexpired)
    /\ UNCHANGED <<calls, janitor, closed, now>>

\* Client.Close, by the registry; a second Close does nothing.
Close ==
    /\ closed' = TRUE
    /\ UNCHANGED <<entries, calls, janitor, now>>

\* Mutant: the janitor ranges over its ticker only.
StopNever ==
    /\ FALSE
    /\ UNCHANGED vars

StopJanitor ==
    /\ janitor /\ closed
    /\ janitor' = FALSE
    /\ UNCHANGED <<entries, calls, closed, now>>

\* A request to 1C ends, one way or another, within Timeout.  Mutant: an HTTP
\* client without a timeout.
AnyTime == TRUE

InTime == \A c \in calls : now < c.started + Timeout

Tick ==
    /\ now < MaxTime
    /\ InTime
    /\ now' = now + 1
    /\ UNCHANGED <<entries, calls, janitor, closed>>

Resolving ==
    \/ \E h \in Callers, req \in Requests : Ask(h, req)
    \/ \E c \in calls : Answer(c) \/ Fail(c) \/ Store(c)

Next == Resolving \/ Sweep \/ Close \/ StopJanitor \/ Tick

Spec == Init /\ [][Next]_vars

\* The janitor's ticker fires for as long as it listens, and a select whose
\* two channels are both ready does not choose the same one for ever.
FairSpec == Spec /\ WF_vars(Sweep) /\ SF_vars(StopJanitor)

-----------------------------------------------------------------------------
\* Entries and calls have the shape the code gives them.
TypeOK ==
    /\ entries \in [Keys -> Entry \cup {Absent}]
    /\ calls \subseteq Call
    /\ janitor \in BOOLEAN
    /\ closed \in BOOLEAN
    /\ now \in Nat

\* The map never holds more than MaxSize entries, whatever callers store at
\* the same time (Set, evictLocked).
Bounded == Cardinality(Present) <= MaxSize

\* A caller is answered from the cache with what 1C would show to it: never
\* with the production warehouses, the firms or the groups of somebody else
\* (ResolveWarehouse, ResolveFirm, ResolveCostArticle).
AnswersTheCaller ==
    \A req \in Requests : Hit(req) => entries[Key(req)].view = View(req)

\* However callers race, an answer is not served for longer than TTL after
\* the longest request to 1C.
AgeBounded ==
    \A k \in Keys : ~Expired(k) => now - entries[k].at <= TTL + Timeout

\* A live entry makes room only if no expired one could: when Set drops one,
\* all the expired are gone and the map is full again (evictLocked).
ExpiredGoFirst ==
    [][ \A k \in Unexpired : entries'[k] = Absent =>
          /\ \A d \in Present' : d \in Unexpired \/ entries'[d] # entries[d]
          /\ Cardinality(Present') = MaxSize ]_vars

\* A closed client's janitor comes to its end (Close).
JanitorStops == closed ~> ~janitor

\* Until the client is closed, an expired entry does not stay in the map.
ExpiredIsSwept ==
    \A k \in Keys : (entries[k] # Absent /\ Expired(k))
                      ~> (entries[k] = Absent \/ ~Expired(k) \/ closed)

\* What AnswersTheCaller rests on: an entry is the view of a request that has
\* its key.
Located ==
    \A k \in Present : \E req \in Requests :
      Key(req) = k /\ View(req) = entries[k].view

\* What AgeBounded rests on: an answer is as old as its call at most, and an
\* entry expires TTL after a call that has ended within Timeout.
InOrder ==
    /\ \A c \in calls : /\ c.started <= now
                        /\ now <= c.started + Timeout
                        /\ c.at # NotYet => c.started <= c.at /\ c.at <= now
    /\ \A k \in Present : entries[k].expires <= entries[k].at + TTL + Timeout
=============================================================================
