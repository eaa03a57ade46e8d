------------------------- MODULE AuthServer_proofs -------------------------
(***************************************************************************)
(* Proofs about AuthServer, for every set of databases, clients, apps,     *)
(* keys and scopes, and any number of changes in 1C and in /admin.         *)
(***************************************************************************)
EXTENDS AuthServer, TLAPS

-----------------------------------------------------------------------------
\* The records on the way.

\* A login that is not idle carries its request; one that knows its user
\* carries the user and the scope as well.
LEMMA LoginFacts ==
  ASSUME NEW l \in Login
  PROVE  /\ l.stage = "asked" => l.request \in Request
         /\ l.stage = "known" => /\ l.request \in Request
                                 /\ l.sub \in Subs
                                 /\ l.scope \in SUBSET Scopes
         /\ l # Idle => l.request \in Request
  BY DEF Login, Idle

\* What a login is granted is part of what the key may do.
LEMMA GrantedWithin ==
  ASSUME NEW requested \in SUBSET Scopes, NEW user \in SUBSET Scopes
  PROVE  GrantedScope(requested, user) \subseteq user
  BY DEF GrantedScope, IntersectScopes

\* A renewal narrows, if anything.
LEMMA NarrowedWithin ==
  ASSUME NEW requested \in SUBSET Scopes, NEW old \in SUBSET Scopes
  PROVE  NarrowedScope(requested, old) \subseteq old
  BY DEF NarrowedScope, IntersectScopes

\* A verdict is an answer and a scope list.
LEMMA VerdictFacts ==
  ASSUME NEW reply \in Verdict
  PROVE  reply.ok \in BOOLEAN /\ reply.scope \in SUBSET Scopes
<1>1. CASE reply = Refusal
  BY <1>1 DEF Refusal
<1>2. ASSUME NEW g \in SUBSET Scopes, reply = [ok |-> TRUE, scope |-> g]
      PROVE  reply.ok \in BOOLEAN /\ reply.scope \in SUBSET Scopes
  BY <1>2
<1>3. QED
  BY <1>1, <1>2 DEF Verdict

\* issueTokens writes rows of its schema.
LEMMA PairTyped ==
  ASSUME NEW p \in Pairs, NEW s \in Slugs, NEW row,
         row.client \in ClientIds, row.sub \in Subs,
         NEW scope \in SUBSET Scopes, NEW lapsed \in BOOLEAN
  PROVE  Pair(p, s, row, scope, lapsed) \in PairRow
  BY DEF Pair, PairRow

-----------------------------------------------------------------------------
\* Types.

\* The first state has empty tables and idle browsers.
LEMMA InitTyped == Init => TypeOK
<1> SUFFICES ASSUME Init PROVE TypeOK
  OBVIOUS
<1>1. granted \subseteq [tenant: Slugs, sub: Subs, scope: SUBSET Scopes]
  <2>1. \A a \in Slugs \X Keys :
          Grant(a[1], a[2], account[a].scope)
            \in [tenant: Slugs, sub: Subs, scope: SUBSET Scopes]
    BY VerdictFacts DEF Init, Grant, Subs
  <2>2. \A s \in Slugs : Grant(s, DevUser, Supported[s])
            \in [tenant: Slugs, sub: Subs, scope: SUBSET Scopes]
    BY ScopesAssumption DEF Grant, Subs
  <2>3. QED
    BY <2>1, <2>2 DEF Init
<1>2. logins \in [Visitors -> Login]
  BY DEF Init, Login, Idle
<1>3. QED
  BY <1>1, <1>2 DEF Init, TypeOK

\* A POST leaves a login that fits its stage.
LEMMA PostTyped ==
  ASSUME TypeOK, NEW v \in Visitors, NEW q \in Request, Post(v, q)
  PROVE  TypeOK'
<1>1. [stage |-> "asked", request |-> q] \in Login
  BY DEF Login
<1>2. [stage |-> "known", request |-> q, sub |-> DevUser,
       scope |-> GrantedScope(q.scope, Supported[q.tenant])] \in Login
  <2>1. q.scope \in SUBSET Scopes /\ Supported[q.tenant] \in SUBSET Scopes
    BY ScopesAssumption DEF Request
  <2>2. GrantedScope(q.scope, Supported[q.tenant]) \in SUBSET Scopes
    BY <2>1, GrantedWithin
  <2>3. QED
    BY <2>2 DEF Login, Subs
<1>3. logins' \in [Visitors -> Login]
  BY <1>1, <1>2 DEF Post, TypeOK
<1>4. QED
  BY <1>3 DEF Post, TypeOK, tables, outside

\* An accepted key gives a user and a scope.
LEMMA AcceptTyped ==
  ASSUME TypeOK, NEW v \in Visitors, Accept(v)
  PROVE  TypeOK'
<1>1. logins[v].request \in Request
  BY LoginFacts DEF Accept, TypeOK
<1>2. PICK reply \in remembered[<<logins[v].request.tenant,
                                  logins[v].request.key>>] :
        /\ reply.ok
        /\ logins' = [logins EXCEPT ![v] =
             [stage |-> "known", request |-> logins[v].request,
              sub |-> logins[v].request.key,
              scope |-> GrantedScope(logins[v].request.scope, reply.scope)]]
  BY DEF Accept
<1>3. /\ logins[v].request.tenant \in Slugs /\ logins[v].request.key \in Keys
      /\ logins[v].request.scope \in SUBSET Scopes
  BY <1>1 DEF Request
<1>4. reply \in Verdict
  BY <1>2, <1>3 DEF TypeOK
<1>5. GrantedScope(logins[v].request.scope, reply.scope) \in SUBSET Scopes
  BY <1>3, <1>4, VerdictFacts, GrantedWithin
<1>6. [stage |-> "known", request |-> logins[v].request,
       sub |-> logins[v].request.key,
       scope |-> GrantedScope(logins[v].request.scope, reply.scope)] \in Login
  BY <1>1, <1>3, <1>5 DEF Login, Subs
<1>7. logins' \in [Visitors -> Login]
  BY <1>2, <1>6 DEF TypeOK
<1>8. QED
  BY <1>7 DEF Accept, TypeOK, tables, outside

\* A stored code is a row of auth_codes.
LEMMA StoreTyped ==
  ASSUME TypeOK, NEW v \in Visitors, NEW c \in Codes, StoreCode(v, c)
  PROVE  TypeOK'
<1>1. /\ logins[v].request \in Request /\ logins[v].sub \in Subs
      /\ logins[v].scope \in SUBSET Scopes
  BY LoginFacts DEF StoreCode, TypeOK
<1>2. [code |-> c, tenant |-> logins[v].request.tenant,
       client |-> logins[v].request.client,
       redirect |-> logins[v].request.redirect,
       challenge |-> logins[v].request.app,
       sub |-> logins[v].sub, scope |-> logins[v].scope] \in CodeRow
  BY <1>1 DEF CodeRow, Request
<1>3. codes' \subseteq CodeRow
  BY <1>2 DEF StoreCode, TypeOK
<1>4. logins' \in [Visitors -> Login]
  BY DEF StoreCode, TypeOK, Login, Idle
<1>5. minted' \subseteq Codes \cup Pairs
  BY DEF StoreCode, TypeOK
<1>6. QED
  BY <1>3, <1>4, <1>5 DEF StoreCode, TypeOK, outside

\* An exchange writes a pair, or nothing.
LEMMA ExchangeTyped ==
  ASSUME TypeOK, NEW h \in Apps, NEW s \in Slugs, NEW c \in Codes,
         NEW client \in ClientIds, NEW redirect \in Redirects, NEW p \in Pairs,
         Exchange(h, s, c, client, redirect, p)
  PROVE  TypeOK'
<1>1. PICK row \in FoundCode(c, s) :
        /\ codes' = codes \ {row}
        /\ \/ /\ minted' = minted \cup {p}
              /\ pairs' = pairs \cup {Pair(p, s, row, row.scope, FALSE)}
           \/ UNCHANGED <<minted, pairs>>
        /\ UNCHANGED <<clients, logins, outside>>
  BY DEF Exchange
<1>2. row \in CodeRow
  BY DEF FoundCode, TypeOK
<1>3. Pair(p, s, row, row.scope, FALSE) \in PairRow
  BY <1>2, PairTyped DEF CodeRow
<1>4. pairs' \subseteq PairRow /\ minted' \subseteq Codes \cup Pairs
  BY <1>1, <1>3 DEF TypeOK
<1>5. codes' \subseteq CodeRow
  BY <1>1 DEF TypeOK
<1>6. QED
  BY <1>1, <1>4, <1>5 DEF TypeOK, outside

\* A renewal spends one pair and writes another, or none.
LEMMA RenewTyped ==
  ASSUME TypeOK, NEW row, NEW s \in Slugs, NEW client \in ClientIds,
         NEW requested \in SUBSET Scopes, NEW p \in Pairs,
         Renew(row, s, client, requested, p)
  PROVE  TypeOK'
<1>1. row \in PairRow
  BY DEF Renew, TypeOK
<1>2. Spend(row) \subseteq PairRow
  BY <1>1 DEF Spend, TypeOK, PairRow
<1>3. NarrowedScope(requested, row.scope) \in SUBSET Scopes
  BY <1>1, NarrowedWithin DEF PairRow
<1>4. Vouched(s, row.sub) \in BOOLEAN
  BY DEF Vouched
<1>5. Pair(p, s, row, NarrowedScope(requested, row.scope),
           ~Vouched(s, row.sub)) \in PairRow
  BY <1>1, <1>3, PairTyped DEF PairRow
<1>6. pairs' \subseteq PairRow /\ minted' \subseteq Codes \cup Pairs
  BY <1>2, <1>5 DEF Renew, TypeOK
<1>7. QED
  BY <1>6 DEF Renew, TypeOK, outside

\* A change in 1C keeps verdicts verdicts and grants grants.
LEMMA SwitchTyped ==
  ASSUME TypeOK, NEW s \in Slugs, NEW k \in Keys, NEW reply \in Verdict,
         Switch(s, k, reply)
  PROVE  TypeOK'
<1>1. Grant(s, k, reply.scope) \in [tenant: Slugs, sub: Subs, scope: SUBSET Scopes]
  BY VerdictFacts DEF Grant, Subs
<1>2. granted' \subseteq [tenant: Slugs, sub: Subs, scope: SUBSET Scopes]
  BY <1>1 DEF Switch, TypeOK
<1>3. /\ account' \in [Slugs \X Keys -> Verdict]
      /\ remembered' \in [Slugs \X Keys -> SUBSET Verdict]
      /\ changes' \in Nat
  BY DEF Switch, TypeOK
<1>4. QED
  BY <1>2, <1>3 DEF Switch, TypeOK, tables

\* The tables hold rows of their schemas, and every login carries what its
\* stage needs.
THEOREM TypeCorrect == Spec => []TypeOK
<1>1. TypeOK /\ [Next]_vars => TypeOK'
  <2> SUFFICES ASSUME TypeOK, [Next]_vars PROVE TypeOK'
    OBVIOUS
  <2>1. CASE Registering
    <3>1. PICK c \in ClientIds, s \in Slugs, uris \in SUBSET Redirects :
            Register(c, s, uris)
      BY <2>1 DEF Registering
    <3>2. clients' \subseteq Client
      BY <3>1 DEF Register, TypeOK, Client
    <3>3. QED
      BY <3>1, <3>2 DEF Register, TypeOK, outside
  <2>2. CASE LoggingIn
    <3>1. PICK v \in Visitors :
            \/ \E q \in Request : Post(v, q)
            \/ Accept(v)
            \/ GiveUp(v)
            \/ \E c \in Codes : StoreCode(v, c)
      BY <2>2 DEF LoggingIn
    <3>2. CASE GiveUp(v)
      <4>1. logins' \in [Visitors -> Login]
        BY <3>2 DEF GiveUp, TypeOK, Login, Idle
      <4>2. QED
        BY <3>2, <4>1 DEF GiveUp, TypeOK, tables, outside
    <3>3. QED
      BY <3>1, <3>2, PostTyped, AcceptTyped, StoreTyped
  <2>3. CASE Exchanging
    BY <2>3, ExchangeTyped DEF Exchanging
  <2>4. CASE Renewing
    BY <2>4, RenewTyped DEF Renewing
  <2>5. CASE Changing
    <3>1. PICK s \in Slugs :
            \/ \E k \in Keys : \/ \E reply \in Verdict : Switch(s, k, reply)
                               \/ Forget(s, k)
            \/ \E k \in Keys \cup {NoKey} : EditDevKey(s, k)
      BY <2>5 DEF Changing
    <3>2. ASSUME NEW k \in Keys, Forget(s, k) PROVE TypeOK'
      <4>1. remembered' \in [Slugs \X Keys -> SUBSET Verdict]
        BY <3>2 DEF Forget, TypeOK
      <4>2. QED
        BY <3>2, <4>1 DEF Forget, TypeOK, tables
    <3>3. ASSUME NEW k \in Keys \cup {NoKey}, EditDevKey(s, k) PROVE TypeOK'
      <4>1. devKey' \in [Slugs -> Keys \cup {NoKey}] /\ changes' \in Nat
        BY <3>3 DEF EditDevKey, TypeOK
      <4>2. QED
        BY <3>3, <4>1 DEF EditDevKey, TypeOK, tables
    <3>4. QED
      BY <3>1, <3>2, <3>3, SwitchTyped
  <2>6. CASE UNCHANGED vars
    BY <2>6 DEF TypeOK, vars
  <2>7. QED
    BY <2>1, <2>2, <2>3, <2>4, <2>5, <2>6 DEF Next
<1>2. QED
  BY InitTyped, <1>1, PTL DEF Spec

-----------------------------------------------------------------------------
\* Codes.

\* Clients stay: a request that was valid is valid afterwards.
LEMMA ClientsStay ==
  ASSUME [Next]_vars
  PROVE  clients \subseteq clients'
<1>1. CASE Registering
  BY <1>1 DEF Registering, Register
<1>2. CASE LoggingIn
  BY <1>2 DEF LoggingIn, Post, Accept, GiveUp, StoreCode, tables
<1>3. CASE Exchanging
  BY <1>3 DEF Exchanging, Exchange
<1>4. CASE Renewing
  BY <1>4 DEF Renewing, Renew
<1>5. CASE Changing
  BY <1>5 DEF Changing, Switch, Forget, EditDevKey, tables
<1>6. QED
  BY <1>1, <1>2, <1>3, <1>4, <1>5 DEF Next, vars

\* Logins keep the request that validateAuthorizeParams let through.
LEMMA RequestsStayValid ==
  ASSUME TypeOK, Homeward, [Next]_vars
  PROVE  Homeward'
<1> SUFFICES ASSUME NEW v \in Visitors, logins'[v] # Idle
             PROVE  \E row \in clients' :
                      /\ row.id = logins'[v].request.client
                      /\ row.tenant = logins'[v].request.tenant
                      /\ logins'[v].request.redirect \in row.redirects
  BY DEF Homeward, ValidRequest
<1>1. \/ logins'[v] # Idle /\ logins[v] # Idle
         /\ logins'[v].request = logins[v].request
      \/ ValidRequest(logins'[v].request)
  <2>1. CASE LoggingIn
    <3>1. PICK w \in Visitors :
            \/ \E q \in Request : Post(w, q)
            \/ Accept(w)
            \/ GiveUp(w)
            \/ \E c \in Codes : StoreCode(w, c)
      BY <2>1 DEF LoggingIn
    <3>2. CASE w # v
      BY <3>1, <3>2 DEF Post, Accept, GiveUp, StoreCode, TypeOK
    <3>3. ASSUME NEW q \in Request, Post(v, q)
          PROVE  ValidRequest(logins'[v].request)
      BY <3>3 DEF Post, TypeOK
    <3>4. CASE Accept(v)
      BY <3>4 DEF Accept, TypeOK, Idle
    <3>5. CASE GiveUp(v)
      BY <3>5 DEF GiveUp, TypeOK
    <3>6. ASSUME NEW c \in Codes, StoreCode(v, c) PROVE FALSE
      BY <3>6 DEF StoreCode, TypeOK
    <3>7. QED
      BY <3>1, <3>2, <3>3, <3>4, <3>5, <3>6
  <2>2. CASE UNCHANGED logins
    BY <2>2
  <2>3. QED
    BY <2>1, <2>2 DEF Next, Registering, Register, Exchanging, Exchange,
      Renewing, Renew, Changing, Switch, Forget, EditDevKey, vars
<1>2. \E row \in clients : /\ row.id = logins'[v].request.client
                           /\ row.tenant = logins'[v].request.tenant
                           /\ logins'[v].request.redirect \in row.redirects
  <2>1. CASE ValidRequest(logins'[v].request)
    BY <2>1 DEF ValidRequest
  <2>2. CASE logins[v] # Idle /\ logins'[v].request = logins[v].request
    BY <2>2 DEF Homeward, ValidRequest
  <2>3. QED
    BY <1>1, <2>1, <2>2
<1>3. QED
  BY <1>2, ClientsStay

\* A code only ever travels to an address its client registered with this
\* database (validateAuthorizeParams).
THEOREM CodesTravelHome == Spec => []CodeGoesHome
<1>1. Init => Homeward /\ CodeGoesHome
  BY DEF Init, Homeward, CodeGoesHome
<1>2. TypeOK /\ Homeward /\ CodeGoesHome /\ [Next]_vars => CodeGoesHome'
  <2> SUFFICES ASSUME TypeOK, Homeward, CodeGoesHome, [Next]_vars,
                      NEW row \in codes'
               PROVE  \E client \in clients' :
                        /\ client.id = row.client /\ client.tenant = row.tenant
                        /\ row.redirect \in client.redirects
    BY DEF CodeGoesHome
  <2>1. CASE row \in codes
    BY <2>1, ClientsStay DEF CodeGoesHome
  <2>2. CASE row \notin codes
    <3>1. PICK v \in Visitors, c \in Codes : StoreCode(v, c)
      BY <2>2 DEF Next, Registering, Register, LoggingIn, Post, Accept, GiveUp,
        Exchanging, Exchange, Renewing, Renew, Changing, Switch, Forget,
        EditDevKey, vars, tables
    <3>2. ValidRequest(logins[v].request)
      BY <3>1 DEF StoreCode, Homeward, Idle
    <3>3. /\ row.client = logins[v].request.client
          /\ row.tenant = logins[v].request.tenant
          /\ row.redirect = logins[v].request.redirect
      BY <2>2, <3>1 DEF StoreCode
    <3>4. QED
      BY <3>2, <3>3, ClientsStay DEF ValidRequest
  <2>3. QED
    BY <2>1, <2>2
<1>3. QED
  BY <1>1, <1>2, TypeCorrect, RequestsStayValid, PTL DEF Spec

-----------------------------------------------------------------------------
\* Scopes.

\* History is not rewritten.
LEMMA GrantsStay ==
  ASSUME [Next]_vars
  PROVE  granted \subseteq granted'
  BY DEF Next, Registering, Register, LoggingIn, Post, Accept, GiveUp,
    StoreCode, Exchanging, Exchange, Renewing, Renew, Changing, Switch, Forget,
    EditDevKey, vars, outside

\* At first the cache knows what 1C says, and 1C what it has granted.
LEMMA InitTraced == Init => Traced /\ TracesToKey
<1> SUFFICES ASSUME Init PROVE Traced /\ TracesToKey
  OBVIOUS
<1>1. \A a \in Slugs \X Keys : remembered[a] = {account[a]}
  BY DEF Init
<1>2. \A a \in Slugs \X Keys :
        account[a].ok => Grant(a[1], a[2], account[a].scope) \in granted
  BY DEF Init
<1>3. \A s \in Slugs : Grant(s, DevUser, Supported[s]) \in granted
  BY DEF Init
<1>4. RepliesTraced
  BY <1>1, <1>2, <1>3 DEF RepliesTraced
<1>5. LoginsTraced
  BY DEF Init, LoginsTraced, Idle
<1>6. CodesTraced /\ OwnResource /\ TracesToKey
  BY DEF Init, CodesTraced, OwnResource, TracesToKey, ServedAt
<1>7. QED
  BY <1>4, <1>5, <1>6 DEF Traced

\* Whatever changes in 1C, in the cache and in /admin, a reply that can still
\* come was a grant at its time.
LEMMA RepliesStayTraced ==
  ASSUME TypeOK, RepliesTraced, [Next]_vars
  PROVE  RepliesTraced'
<1>1. CASE UNCHANGED <<account, remembered, granted>>
  BY <1>1 DEF RepliesTraced, Grant
<1>2. ASSUME NEW s \in Slugs, NEW k \in Keys, NEW reply \in Verdict,
             Switch(s, k, reply)
      PROVE  RepliesTraced'
  <2>1. ASSUME NEW a \in Slugs \X Keys, NEW r \in remembered'[a], r.ok
        PROVE  Grant(a[1], a[2], r.scope) \in granted'
    <3>1. CASE r \in remembered[a]
      BY <2>1, <3>1, <1>2 DEF RepliesTraced, Switch
    <3>2. CASE r \notin remembered[a]
      <4>1. a = <<s, k>> /\ r = reply
        BY <2>1, <3>2, <1>2 DEF Switch, TypeOK
      <4>2. QED
        BY <2>1, <4>1, <1>2 DEF Switch
    <3>3. QED
      BY <3>1, <3>2
  <2>2. ASSUME NEW a \in Slugs \X Keys PROVE account'[a] \in remembered'[a]
    BY <1>2 DEF RepliesTraced, Switch, TypeOK
  <2>3. \A d \in Slugs : Grant(d, DevUser, Supported[d]) \in granted'
    BY <1>2 DEF RepliesTraced, Switch
  <2>4. QED
    BY <2>1, <2>2, <2>3 DEF RepliesTraced, Grant
<1>3. ASSUME NEW s \in Slugs, NEW k \in Keys, Forget(s, k)
      PROVE  RepliesTraced'
  <2>1. ASSUME NEW a \in Slugs \X Keys
        PROVE  /\ remembered'[a] \subseteq remembered[a]
               /\ account'[a] \in remembered'[a]
    BY <1>3 DEF RepliesTraced, Forget, TypeOK
  <2>2. QED
    BY <1>3, <2>1 DEF RepliesTraced, Forget, Grant
<1>4. QED
  BY <1>1, <1>2, <1>3 DEF Next, Registering, Register, LoggingIn, Post, Accept,
    GiveUp, StoreCode, Exchanging, Exchange, Renewing, Renew, Changing,
    EditDevKey, vars, outside

\* A login that knows its user holds part of what some reply gave the key.
LEMMA LoginsStayTraced ==
  ASSUME TypeOK, RepliesTraced, LoginsTraced, [Next]_vars
  PROVE  LoginsTraced'
<1> SUFFICES ASSUME NEW v \in Visitors, logins'[v].stage = "known"
             PROVE  \E g \in granted' :
                      /\ g.tenant = logins'[v].request.tenant
                      /\ g.sub = logins'[v].sub
                      /\ logins'[v].scope \subseteq g.scope
  BY DEF LoginsTraced
<1>1. CASE logins'[v] = logins[v]
  BY <1>1, GrantsStay DEF LoginsTraced
<1>2. CASE logins'[v] # logins[v]
  <2>1. PICK w \in Visitors :
          \/ \E q \in Request : Post(w, q)
          \/ Accept(w)
          \/ GiveUp(w)
          \/ \E c \in Codes : StoreCode(w, c)
    BY <1>2 DEF Next, Registering, Register, LoggingIn, Exchanging, Exchange,
      Renewing, Renew, Changing, Switch, Forget, EditDevKey, vars
  <2>2. v = w
    BY <1>2, <2>1 DEF Post, Accept, GiveUp, StoreCode, TypeOK
  <2>3. ASSUME NEW q \in Request, Post(v, q)
        PROVE  \E g \in granted' :
                 /\ g.tenant = logins'[v].request.tenant
                 /\ g.sub = logins'[v].sub
                 /\ logins'[v].scope \subseteq g.scope
    <3>1. logins'[v] = [stage |-> "known", request |-> q, sub |-> DevUser,
                        scope |-> GrantedScope(q.scope, Supported[q.tenant])]
      BY <2>3 DEF Post, TypeOK
    <3>2. /\ q.tenant \in Slugs /\ q.scope \in SUBSET Scopes
          /\ Supported[q.tenant] \in SUBSET Scopes
      BY ScopesAssumption DEF Request
    <3>3. Grant(q.tenant, DevUser, Supported[q.tenant]) \in granted'
      BY <3>2, GrantsStay DEF RepliesTraced
    <3>4. QED
      BY <3>1, <3>2, <3>3, GrantedWithin DEF Grant
  <2>4. CASE Accept(v)
    <3>1. logins[v].request \in Request
      BY <2>4, LoginFacts DEF Accept, TypeOK
    <3>2. PICK reply \in remembered[<<logins[v].request.tenant,
                                      logins[v].request.key>>] :
            /\ reply.ok
            /\ logins'[v] =
                 [stage |-> "known", request |-> logins[v].request,
                  sub |-> logins[v].request.key,
                  scope |-> GrantedScope(logins[v].request.scope, reply.scope)]
      BY <2>4 DEF Accept, TypeOK
    <3>3. /\ logins[v].request.tenant \in Slugs
          /\ logins[v].request.key \in Keys
          /\ logins[v].request.scope \in SUBSET Scopes
      BY <3>1 DEF Request
    <3>4. reply.scope \in SUBSET Scopes
      BY <3>2, <3>3, VerdictFacts DEF TypeOK
    <3>5. <<logins[v].request.tenant, logins[v].request.key>> \in Slugs \X Keys
      BY <3>3
    <3>6. Grant(logins[v].request.tenant, logins[v].request.key, reply.scope)
            \in granted'
      BY <3>2, <3>5, GrantsStay DEF RepliesTraced
    <3>7. GrantedScope(logins[v].request.scope, reply.scope)
            \subseteq reply.scope
      BY <3>3, <3>4, GrantedWithin
    <3>8. QED
      BY <3>2, <3>6, <3>7 DEF Grant
  <2>5. CASE GiveUp(v) \/ \E c \in Codes : StoreCode(v, c)
    BY <2>5 DEF GiveUp, StoreCode, TypeOK, Idle
  <2>6. QED
    BY <2>1, <2>2, <2>3, <2>4, <2>5
<1>3. QED
  BY <1>1, <1>2

\* A code holds what its login held.
LEMMA CodesStayTraced ==
  ASSUME LoginsTraced, CodesTraced, [Next]_vars
  PROVE  CodesTraced'
<1> SUFFICES ASSUME NEW row \in codes'
             PROVE  \E g \in granted' : /\ g.tenant = row.tenant
                                        /\ g.sub = row.sub
                                        /\ row.scope \subseteq g.scope
  BY DEF CodesTraced
<1>1. CASE row \in codes
  BY <1>1, GrantsStay DEF CodesTraced
<1>2. CASE row \notin codes
  <2>1. PICK v \in Visitors, c \in Codes : StoreCode(v, c)
    BY <1>2 DEF Next, Registering, Register, LoggingIn, Post, Accept, GiveUp,
      Exchanging, Exchange, Renewing, Renew, Changing, Switch, Forget,
      EditDevKey, vars, tables
  <2>2. /\ row.tenant = logins[v].request.tenant
        /\ row.sub = logins[v].sub /\ row.scope = logins[v].scope
        /\ logins[v].stage = "known"
    BY <1>2, <2>1 DEF StoreCode
  <2>3. QED
    BY <2>2, GrantsStay DEF LoginsTraced
<1>3. QED
  BY <1>1, <1>2

-----------------------------------------------------------------------------
\* Pairs.

\* Where a pair comes from: it or its predecessor was there before, with the
\* same user and no less scope, or it was issued for a code.
LEMMA PairSources ==
  ASSUME TypeOK, [Next]_vars, NEW row \in pairs'
  PROVE  \/ \E old \in pairs :
              /\ row.tenant = old.tenant /\ row.sub = old.sub
              /\ row.scope \subseteq old.scope
              /\ row.resource = old.resource \/ row.resource = row.tenant
         \/ \E code \in codes :
              /\ row.tenant = code.tenant /\ row.sub = code.sub
              /\ row.scope = code.scope /\ row.resource = row.tenant
<1>1. CASE row \in pairs
  BY <1>1
<1>2. CASE row \notin pairs
  <2>1. Exchanging \/ Renewing
    BY <1>2 DEF Next, Registering, Register, LoggingIn, Post, Accept, GiveUp,
      StoreCode, Changing, Switch, Forget, EditDevKey, vars, tables
  <2>2. CASE Exchanging
    <3>1. PICK h \in Apps, s \in Slugs, c \in Codes, client \in ClientIds,
               redirect \in Redirects, p \in Pairs :
            Exchange(h, s, c, client, redirect, p)
      BY <2>2 DEF Exchanging
    <3>2. PICK code \in FoundCode(c, s) :
            pairs' = pairs \cup {Pair(p, s, code, code.scope, FALSE)}
      BY <1>2, <3>1 DEF Exchange
    <3>3. row = Pair(p, s, code, code.scope, FALSE)
      BY <1>2, <3>2
    <3>4. code \in codes /\ code.tenant = s
      BY <3>2 DEF FoundCode
    <3>5. QED
      BY <3>3, <3>4 DEF Pair
  <2>3. CASE Renewing
    <3>1. PICK old \in pairs, s \in Slugs, client \in ClientIds,
               requested \in SUBSET Scopes, p \in Pairs :
            Renew(old, s, client, requested, p)
      BY <2>3 DEF Renewing
    <3>2. old \in PairRow
      BY DEF TypeOK
    <3>3. CASE row \in Spend(old)
      BY <1>2, <3>2, <3>3 DEF Spend, PairRow
    <3>4. CASE row \notin Spend(old)
      <4>1. row = Pair(p, s, old, NarrowedScope(requested, old.scope),
                       ~Vouched(s, old.sub))
        BY <3>1, <3>4 DEF Renew
      <4>2. old.tenant = s
        BY <3>1 DEF Renew
      <4>3. NarrowedScope(requested, old.scope) \subseteq old.scope
        BY <3>2, NarrowedWithin DEF PairRow
      <4>4. QED
        BY <4>1, <4>2, <4>3 DEF Pair
    <3>5. QED
      BY <3>3, <3>4
  <2>4. QED
    BY <2>1, <2>2, <2>3
<1>3. QED
  BY <1>1, <1>2

\* The resource of a pair is that of the Server that issued it.
LEMMA ResourceStaysOwn ==
  ASSUME TypeOK, OwnResource, [Next]_vars
  PROVE  OwnResource'
<1> SUFFICES ASSUME NEW row \in pairs' PROVE row.resource = row.tenant
  BY DEF OwnResource
<1>1. QED
  BY PairSources DEF OwnResource

\* The invariant behind TracesToKey, as a whole.
LEMMA TracedIsInductive ==
  ASSUME TypeOK, Traced, TracesToKey, [Next]_vars
  PROVE  Traced' /\ TracesToKey'
<1>1. Traced'
  BY RepliesStayTraced, LoginsStayTraced, CodesStayTraced, ResourceStaysOwn
    DEF Traced
<1>2. TracesToKey'
  <2> SUFFICES ASSUME NEW s \in Slugs, NEW row \in pairs', row.tenant = s
               PROVE  \E g \in granted' : /\ g.tenant = s /\ g.sub = row.sub
                                          /\ row.scope \subseteq g.scope
    BY DEF TracesToKey, ServedAt
  <2>1. ASSUME NEW old \in pairs,
               row.tenant = old.tenant, row.sub = old.sub,
               row.scope \subseteq old.scope
        PROVE  \E g \in granted' : /\ g.tenant = s /\ g.sub = row.sub
                                   /\ row.scope \subseteq g.scope
    <3>1. old \in ServedAt(s)
      BY <2>1 DEF ServedAt, Traced, OwnResource
    <3>2. QED
      BY <2>1, <3>1, GrantsStay DEF TracesToKey
  <2>2. ASSUME NEW code \in codes,
               row.tenant = code.tenant, row.sub = code.sub,
               row.scope = code.scope
        PROVE  \E g \in granted' : /\ g.tenant = s /\ g.sub = row.sub
                                   /\ row.scope \subseteq g.scope
    BY <2>2, GrantsStay DEF Traced, CodesTraced
  <2>3. QED
    BY <2>1, <2>2, PairSources
<1>3. QED
  BY <1>1, <1>2

\* What a served request may do was given by the 1C of the same database to
\* the key of the login, or is the dev user's (authorizePOST, Middleware).
THEOREM ScopesTraceToKey == Spec => []TracesToKey
<1>1. TypeOK /\ (Traced /\ TracesToKey) /\ [Next]_vars
        => (Traced /\ TracesToKey)'
  BY TracedIsInductive
<1>2. QED
  BY InitTraced, <1>1, TypeCorrect, PTL DEF Spec

-----------------------------------------------------------------------------
\* Every login is answered out of the memory that KeyCache is shown to be: one
\* entry for each database and key.
LoginMemory ==
    INSTANCE ReplyMemory WITH
        Keys <- Slugs \X Keys,
        Replies <- Verdict,
        says <- account,
        remembered <- remembered

\* Logins, codes, tokens and the settings of a database leave the memory alone.
LEMMA MemoryStep == TypeOK /\ Traced /\ [Next]_vars
                      => [LoginMemory!Next]_(LoginMemory!vars)
<1> SUFFICES ASSUME TypeOK, Traced, [Next]_vars
             PROVE  [LoginMemory!Next]_(LoginMemory!vars)
  OBVIOUS
<1>1. CASE UNCHANGED <<account, remembered>>
  BY <1>1 DEF LoginMemory!vars
<1>2. ASSUME NEW s \in Slugs, NEW k \in Keys, NEW reply \in Verdict,
             Switch(s, k, reply)
      PROVE  LoginMemory!Next
  <2>1. LoginMemory!Change(<<s, k>>, reply)
    BY <1>2 DEF Switch, LoginMemory!Change
  <2> QED
    BY <2>1 DEF LoginMemory!Next
<1>3. ASSUME NEW s \in Slugs, NEW k \in Keys, Forget(s, k)
      PROVE  LoginMemory!Next
  <2>1. remembered' \in [Slugs \X Keys -> SUBSET Verdict]
    BY <1>3 DEF TypeOK, Forget
  <2>2. \A a \in Slugs \X Keys : /\ account[a] \in remembered'[a]
                                 /\ remembered'[a] \subseteq remembered[a]
    BY <1>3 DEF TypeOK, Traced, RepliesTraced, Forget
  <2>3. account' = account
    BY <1>3 DEF Forget
  <2> QED
    BY <2>1, <2>2, <2>3 DEF LoginMemory!Next, LoginMemory!Forget
<1> QED
  BY <1>1, <1>2, <1>3 DEF Next, Registering, Register, LoggingIn, Post, Accept,
    GiveUp, StoreCode, Exchanging, Exchange, Renewing, Renew, Changing,
    EditDevKey, vars, outside

\* Logging in rests on no more than ReplyMemory promises: a reply that the
\* cache has forgotten is given again only after 1C has given it.
THEOREM LoginsUseMemory == Spec => LoginMemory!Spec
<1>1. Init => LoginMemory!Init
  BY DEF Init, LoginMemory!Init
<1>2. TypeOK /\ (Traced /\ TracesToKey) /\ [Next]_vars
        => (Traced /\ TracesToKey)'
  BY TracedIsInductive
<1>3. TypeOK /\ Traced /\ [Next]_vars
        => [LoginMemory!Next]_(LoginMemory!vars)
  BY MemoryStep
<1>4. QED
  BY <1>1, <1>2, <1>3, InitTraced, TypeCorrect, PTL DEF Spec, LoginMemory!Spec

-----------------------------------------------------------------------------
\* The codes and the pairs are a ledger.

\* Values are drawn once, so a code has one row, and so has a pair.
Drawn ==
    /\ \A row \in codes : row.code \in minted
    /\ \A row \in pairs : row.pair \in minted
    /\ \A row, old \in codes : row.code = old.code => row = old
    /\ \A row, old \in pairs : row.pair = old.pair => row = old

\* A spent pair is the same pair.
LEMMA SpentIsSame ==
  ASSUME TypeOK, NEW row \in pairs
  PROVE  /\ [row EXCEPT !.spent = TRUE].pair = row.pair
         /\ [row EXCEPT !.spent = TRUE].tenant = row.tenant
         /\ [row EXCEPT !.spent = TRUE].resource = row.resource
         /\ [row EXCEPT !.spent = TRUE].spent
         /\ TicketOf([row EXCEPT !.spent = TRUE]) = TicketOf(row)
<1>1. row \in PairRow
  BY DEF TypeOK
<1>2. QED
  BY <1>1 DEF PairRow, TicketOf

\* Spending a pair keeps one row for each.
LEMMA SpendKeepsOne ==
  ASSUME TypeOK, Drawn, NEW row \in pairs
  PROVE  /\ \A a \in Spend(row) : a.pair \in minted
         /\ \A a, b \in Spend(row) : a.pair = b.pair => a = b
<1> DEFINE spent == [row EXCEPT !.spent = TRUE]
<1>1. spent.pair = row.pair
  BY SpentIsSame
<1> HIDE DEF spent
<1>2. Spend(row) = (pairs \ {row}) \cup {spent}
  BY DEF Spend, spent
<1>3. QED
  BY <1>1, <1>2 DEF Drawn

\* The value of a pair.
LEMMA PairValue ==
  ASSUME NEW p, NEW s, NEW row, NEW scope, NEW lapsed
  PROVE  Pair(p, s, row, scope, lapsed).pair = p
  BY DEF Pair

\* A row with a new value keeps one row for each.
LEMMA NewRowKeepsOne ==
  ASSUME NEW rows, NEW used, NEW last,
         \A a \in rows : a.pair \in used,
         \A a, b \in rows : a.pair = b.pair => a = b,
         last.pair \notin used
  PROVE  /\ \A a \in rows \cup {last} : a.pair \in used \cup {last.pair}
         /\ \A a, b \in rows \cup {last} : a.pair = b.pair => a = b
  OBVIOUS

\* Whatever a step does to the tables, it draws new values for new rows.
LEMMA NextDrawn == TypeOK /\ Drawn /\ [Next]_vars => Drawn'
<1> SUFFICES ASSUME TypeOK, Drawn, [Next]_vars PROVE Drawn'
  OBVIOUS
<1>1. CASE UNCHANGED <<codes, pairs, minted>>
  BY <1>1 DEF Drawn
<1>2. ASSUME NEW v \in Visitors, NEW c \in Codes, StoreCode(v, c)
      PROVE  Drawn'
  <2>1. PICK new : /\ new.code = c
                   /\ codes' = codes \cup {new}
                   /\ c \notin minted /\ minted' = minted \cup {c}
                   /\ pairs' = pairs
    BY <1>2 DEF StoreCode
  <2>2. QED
    BY <2>1 DEF Drawn
<1>3. ASSUME NEW h \in Apps, NEW s \in Slugs, NEW c \in Codes,
             NEW client \in ClientIds, NEW redirect \in Redirects,
             NEW p \in Pairs, Exchange(h, s, c, client, redirect, p)
      PROVE  Drawn'
  <2>1. PICK row \in codes :
          /\ codes' = codes \ {row}
          /\ \/ /\ p \notin minted /\ minted' = minted \cup {p}
                /\ pairs' = pairs \cup {Pair(p, s, row, row.scope, FALSE)}
             \/ UNCHANGED <<minted, pairs>>
    BY <1>3 DEF Exchange, FoundCode
  <2>2. /\ \A a \in pairs' : a.pair \in minted'
        /\ \A a, b \in pairs' : a.pair = b.pair => a = b
    <3>1. CASE UNCHANGED <<minted, pairs>>
      BY <3>1 DEF Drawn
    <3>2. ASSUME NEW new, new.pair = p, p \notin minted,
                 minted' = minted \cup {p}, pairs' = pairs \cup {new}
          PROVE  /\ \A a \in pairs' : a.pair \in minted'
                 /\ \A a, b \in pairs' : a.pair = b.pair => a = b
      BY <3>2 DEF Drawn
    <3> DEFINE new == Pair(p, s, row, row.scope, FALSE)
    <3>3. new.pair = p
      BY DEF Pair
    <3>4. \/ p \notin minted /\ minted' = minted \cup {p}
                /\ pairs' = pairs \cup {new}
          \/ UNCHANGED <<minted, pairs>>
      BY <2>1
    <3> HIDE DEF new
    <3>5. QED
      BY <3>1, <3>2, <3>3, <3>4
  <2>3. QED
    BY <2>1, <2>2 DEF Drawn
<1>4. ASSUME NEW row \in pairs, NEW s \in Slugs, NEW client \in ClientIds,
             NEW requested \in SUBSET Scopes, NEW p \in Pairs,
             Renew(row, s, client, requested, p)
      PROVE  Drawn'
  <2>1. /\ codes' = codes
        /\ \/ /\ p \notin minted /\ minted' = minted \cup {p}
              /\ pairs' = Spend(row) \cup
                   {Pair(p, s, row, NarrowedScope(requested, row.scope),
                         ~Vouched(s, row.sub))}
           \/ pairs' = Spend(row) /\ UNCHANGED minted
    BY <1>4 DEF Renew
  <2>2. /\ \A a \in pairs' : a.pair \in minted'
        /\ \A a, b \in pairs' : a.pair = b.pair => a = b
    <3>1. CASE pairs' = Spend(row) /\ UNCHANGED minted
      BY <3>1, SpendKeepsOne
    <3>2. ASSUME NEW new, new.pair = p, p \notin minted,
                 minted' = minted \cup {p}, pairs' = Spend(row) \cup {new}
          PROVE  /\ \A a \in pairs' : a.pair \in minted'
                 /\ \A a, b \in pairs' : a.pair = b.pair => a = b
      BY <3>2, SpendKeepsOne, NewRowKeepsOne
    <3>3. QED
      BY <2>1, <3>1, <3>2, PairValue
  <2>3. QED
    BY <2>1, <2>2 DEF Drawn
<1>5. QED
  BY <1>1, <1>2, <1>3, <1>4 DEF Next, Registering, Register, LoggingIn, Post,
    Accept, GiveUp, Exchanging, Renewing, Changing, Switch, Forget, EditDevKey,
    vars, tables, outside

\* Every pair opens the database it was issued for.
LEMMA AllServed ==
  ASSUME NEW rows \in SUBSET PairRow,
         \A row \in rows : row.resource = row.tenant
  PROVE  UNION {{row \in rows : row.tenant = s /\ row.resource = s} : s \in Slugs}
           = rows
  BY DEF PairRow

\* The ticket of a new pair.
LEMMA NewTicket ==
  ASSUME NEW p, NEW s, NEW row, NEW scope, NEW lapsed
  PROVE  LET new == Pair(p, s, row, scope, lapsed)
         IN  /\ TicketOf(new) = Ledger!Ticket(p, s, row.client, scope)
             /\ ~new.spent
  BY DEF Pair, TicketOf, Ledger!Ticket

\* Storing a code offers a ticket.
LEMMA StoreOffers ==
  ASSUME TypeOK, NEW v \in Visitors, NEW c \in Codes, StoreCode(v, c)
  PROVE  Ledger!Next
<1>1. logins[v] \in Login /\ logins[v].stage = "known"
  BY DEF TypeOK, StoreCode
<1> DEFINE q == logins[v].request
           g == logins[v].scope
<1>2. q \in Request /\ g \in SUBSET Scopes
  BY <1>1, LoginFacts
<1>3. q.tenant \in Slugs /\ q.client \in ClientIds
  BY <1>2 DEF Request
<1>4. PICK new : /\ new.code = c /\ new.tenant = q.tenant
                 /\ new.client = q.client /\ new.scope = g
                 /\ codes' = codes \cup {new}
  BY DEF StoreCode
<1>5. OfferedTickets' = OfferedTickets
                          \cup {Ledger!Ticket(c, q.tenant, q.client, g)}
  BY <1>4 DEF OfferedTickets, Ledger!Ticket
<1>6. UNCHANGED <<HeldTickets, OpenTickets>>
  BY DEF StoreCode, HeldTickets, OpenTickets, ServedAt
<1>7. Ledger!Offer(c, q.tenant, q.client, g)
  BY <1>5, <1>6 DEF StoreCode, Ledger!Offer
<1>8. QED
  BY <1>2, <1>3, <1>7 DEF Ledger!Next

\* An exchange redeems the ticket of its code, or loses it.
LEMMA ExchangeRedeems ==
  ASSUME TypeOK, Drawn, OwnResource, OwnResource', TypeOK',
         NEW h \in Apps, NEW s \in Slugs, NEW c \in Codes,
         NEW client \in ClientIds, NEW redirect \in Redirects, NEW p \in Pairs,
         Exchange(h, s, c, client, redirect, p)
  PROVE  Ledger!Next
<1>1. PICK row \in codes :
        /\ row.tenant = s
        /\ codes' = codes \ {row}
        /\ \/ /\ p \in Pairs \ minted /\ minted' = minted \cup {p}
              /\ pairs' = pairs \cup {Pair(p, s, row, row.scope, FALSE)}
           \/ UNCHANGED <<minted, pairs>>
  BY DEF Exchange, FoundCode
<1> DEFINE old == [value |-> row.code, tenant |-> row.tenant,
                   client |-> row.client, scope |-> row.scope]
<1>2. old \in OfferedTickets
  BY DEF OfferedTickets
<1>3. OfferedTickets' = OfferedTickets \ {old}
  BY <1>1 DEF OfferedTickets, Drawn
<1>4. CASE UNCHANGED <<minted, pairs>>
  <2>1. UNCHANGED <<HeldTickets, OpenTickets>>
    BY <1>4 DEF HeldTickets, OpenTickets, ServedAt
  <2>2. Ledger!Lose
    BY <1>3, <1>4, <2>1 DEF Ledger!Lose
  <2>3. QED
    BY <2>2 DEF Ledger!Next
<1>5. CASE /\ p \in Pairs \ minted /\ minted' = minted \cup {p}
           /\ pairs' = pairs \cup {Pair(p, s, row, row.scope, FALSE)}
  <2> DEFINE new == Pair(p, s, row, row.scope, FALSE)
             ticket == Ledger!Ticket(p, row.tenant, row.client, row.scope)
  <2>1. TicketOf(new) = ticket /\ ~new.spent
    BY <1>1, NewTicket
  <2>2. pairs' = pairs \cup {new}
    BY <1>5
  <2> HIDE DEF new, ticket
  <2>8. {r \in pairs' : ~r.spent} = {r \in pairs : ~r.spent} \cup {new}
    BY <2>1, <2>2
  <2>3. HeldTickets' = HeldTickets \cup {ticket}
    BY <2>1, <2>8 DEF HeldTickets
  <2>4. /\ OpenTickets' = {TicketOf(r) : r \in pairs'}
        /\ OpenTickets = {TicketOf(r) : r \in pairs}
    BY AllServed DEF OpenTickets, ServedAt, TypeOK, OwnResource
  <2>5. OpenTickets' = OpenTickets \cup {ticket}
    BY <2>1, <2>2, <2>4
  <2>6. /\ old.tenant = row.tenant /\ old.client = row.client
        /\ old.scope = row.scope
    OBVIOUS
  <2>7. Ledger!Redeem(old, p)
    BY <1>2, <1>3, <1>5, <2>3, <2>5, <2>6 DEF Ledger!Redeem, ticket
  <2>9. QED
    BY <1>2, <2>7 DEF Ledger!Next
<1>6. QED
  BY <1>1, <1>4, <1>5

\* A renewal gives up the ticket of its pair for one with no more scopes.
LEMMA RenewRenews ==
  ASSUME TypeOK, Drawn, OwnResource, OwnResource', TypeOK',
         NEW row \in pairs, NEW s \in Slugs, NEW client \in ClientIds,
         NEW requested \in SUBSET Scopes, NEW p \in Pairs,
         Renew(row, s, client, requested, p)
  PROVE  Ledger!Next
<1> DEFINE spent == [row EXCEPT !.spent = TRUE]
           old == TicketOf(row)
           scope == NarrowedScope(requested, row.scope)
<1>1. spent.spent /\ TicketOf(spent) = old
  BY SpentIsSame
<1>2. row.scope \in SUBSET Scopes
  BY DEF TypeOK, PairRow
<1>3. scope \in SUBSET Scopes /\ scope \subseteq row.scope
  BY <1>2, NarrowedWithin
<1>4. old \in HeldTickets /\ old.tenant = row.tenant
        /\ old.client = row.client /\ old.scope = row.scope
  BY DEF HeldTickets, Renew, TicketOf
<1>5. /\ row.tenant = s /\ UNCHANGED codes
      /\ \/ /\ p \in Pairs \ minted /\ minted' = minted \cup {p}
            /\ pairs' = (pairs \ {row}) \cup {spent} \cup
                 {Pair(p, s, row, scope, ~Vouched(s, row.sub))}
         \/ pairs' = (pairs \ {row}) \cup {spent} /\ UNCHANGED minted
  BY DEF Renew, Spend
<1> DEFINE left == (pairs \ {row}) \cup {spent}
<1>6. {TicketOf(r) : r \in left} = {TicketOf(r) : r \in pairs}
  <2> HIDE DEF spent
  <2>1. QED
    BY <1>1
<1>7. {TicketOf(r) : r \in {q \in left : ~q.spent}} = HeldTickets \ {old}
  <2>1. \A q \in pairs : TicketOf(q) = old => q = row
    BY DEF Drawn, TicketOf
  <2> HIDE DEF spent, old
  <2>2. {q \in left : ~q.spent} = {q \in pairs : ~q.spent} \ {row}
    BY <1>1
  <2>3. TicketOf(row) = old
    BY DEF old
  <2>4. QED
    BY <2>1, <2>2, <2>3 DEF HeldTickets
<1>8. /\ OpenTickets' = {TicketOf(r) : r \in pairs'}
      /\ OpenTickets = {TicketOf(r) : r \in pairs}
  BY AllServed DEF OpenTickets, ServedAt, TypeOK, OwnResource
<1>9. OfferedTickets' = OfferedTickets
  BY <1>5 DEF OfferedTickets
<1>10. CASE pairs' = left /\ UNCHANGED minted
  <2>1. HeldTickets' = HeldTickets \ {old}
    BY <1>7, <1>10 DEF HeldTickets
  <2>2. OpenTickets' = OpenTickets
    BY <1>6, <1>8, <1>10
  <2>3. Ledger!Lose
    BY <1>9, <1>10, <2>1, <2>2 DEF Ledger!Lose
  <2>4. QED
    BY <2>3 DEF Ledger!Next
<1>11. CASE /\ p \in Pairs \ minted /\ minted' = minted \cup {p}
            /\ pairs' = left \cup
                 {Pair(p, s, row, scope, ~Vouched(s, row.sub))}
  <2> DEFINE new == Pair(p, s, row, scope, ~Vouched(s, row.sub))
             ticket == Ledger!Ticket(p, row.tenant, row.client, scope)
  <2>1. TicketOf(new) = ticket /\ ~new.spent
    BY <1>5, NewTicket
  <2>2. pairs' = left \cup {new}
    BY <1>11
  <2> HIDE DEF new, ticket, left, old, scope
  <2>3. {q \in pairs' : ~q.spent} = {q \in left : ~q.spent} \cup {new}
    BY <2>1, <2>2
  <2>4. HeldTickets' = (HeldTickets \ {old}) \cup {ticket}
    BY <1>7, <2>1, <2>3 DEF HeldTickets
  <2>5. OpenTickets' = OpenTickets \cup {ticket}
    BY <1>6, <1>8, <2>1, <2>2
  <2>6. Ledger!Renew(old, scope, p)
    BY <1>3, <1>4, <1>9, <1>11, <2>4, <2>5 DEF Ledger!Renew, ticket
  <2>7. QED
    BY <1>3, <1>4, <2>6 DEF Ledger!Next
<1>12. QED
  BY <1>5, <1>10, <1>11

\* Every step is a step of the ledger, or leaves it alone.
LEMMA LedgerStep ==
  ASSUME TypeOK, TypeOK', Drawn, OwnResource, OwnResource', [Next]_vars
  PROVE  [Ledger!Next]_(Ledger!vars)
<1>1. CASE UNCHANGED <<codes, pairs, minted>>
  BY <1>1 DEF Ledger!vars, OfferedTickets, HeldTickets, OpenTickets, ServedAt
<1>2. ASSUME NEW v \in Visitors, NEW c \in Codes, StoreCode(v, c)
      PROVE  Ledger!Next
  BY <1>2, StoreOffers
<1>3. ASSUME NEW h \in Apps, NEW s \in Slugs, NEW c \in Codes,
             NEW client \in ClientIds, NEW redirect \in Redirects,
             NEW p \in Pairs, Exchange(h, s, c, client, redirect, p)
      PROVE  Ledger!Next
  BY <1>3, ExchangeRedeems
<1>4. ASSUME NEW row \in pairs, NEW s \in Slugs, NEW client \in ClientIds,
             NEW requested \in SUBSET Scopes, NEW p \in Pairs,
             Renew(row, s, client, requested, p)
      PROVE  Ledger!Next
  BY <1>4, RenewRenews
<1>5. QED
  BY <1>1, <1>2, <1>3, <1>4 DEF Next, Registering, Register, LoggingIn, Post,
    Accept, GiveUp, Exchanging, Renewing, Changing, Switch, Forget, EditDevKey,
    vars, tables, outside

\* Logins, exchanges and renewals take codes and tokens to be what TokenLedger
\* says, which is what OAuthTokens keeps (server.go, token.go).
THEOREM TokensAreALedger == Spec => ImplementsLedger
<1>1. Init => Drawn /\ Ledger!Init
  <2> SUFFICES ASSUME Init PROVE Drawn /\ Ledger!Init
    OBVIOUS
  <2>1. OfferedTickets = {} /\ HeldTickets = {} /\ OpenTickets = {}
    BY DEF Init, OfferedTickets, HeldTickets, OpenTickets, ServedAt
  <2>2. QED
    BY <2>1 DEF Init, Drawn, Ledger!Init
<1>2. TypeOK /\ (Traced /\ TracesToKey) /\ [Next]_vars
        => (Traced /\ TracesToKey)'
  BY TracedIsInductive
<1>3. TypeOK /\ TypeOK' /\ Drawn /\ Traced /\ Traced' /\ [Next]_vars
        => [Ledger!Next]_(Ledger!vars)
  BY LedgerStep DEF Traced
<1>4. QED
  BY <1>1, <1>2, <1>3, InitTraced, NextDrawn, TypeCorrect, PTL
    DEF Spec, ImplementsLedger, Ledger!Spec

-----------------------------------------------------------------------------
\* Accounts.

\* What a pair or a code stands for stays accepted while 1C switches nothing
\* off.
OnAt(s, u) == u # DevUser => account[<<s, u>>].ok

\* No pair at all was renewed against the word of 1C.
NoneLapsed == \A row \in pairs : ~row.lapsed

\* An account that is on stays on.
LEMMA OnStays ==
  ASSUME TypeOK, [Next]_vars, [StaysOn]_vars, NEW s \in Slugs, NEW u \in Subs,
         OnAt(s, u)
  PROVE  OnAt(s, u)'
<1>1. CASE u = DevUser
  BY <1>1 DEF OnAt
<1>2. CASE u # DevUser
  <2>1. <<s, u>> \in Slugs \X Keys /\ account[<<s, u>>].ok
    BY <1>2 DEF Subs, OnAt
  <2>2. CASE StaysOn
    BY <2>1, <2>2 DEF StaysOn, OnAt
  <2>3. CASE UNCHANGED vars
    BY <2>1, <2>3 DEF vars, OnAt
  <2> QED
    BY <2>2, <2>3
<1> QED
  BY <1>1, <1>2

\* While 1C switches nothing off, the cache has accepted nobody whom 1C would
\* refuse.
LEMMA RepliesStayOn ==
  ASSUME TypeOK, AllOn, [Next]_vars, [StaysOn]_vars,
         NEW a \in Slugs \X Keys, NEW r \in remembered'[a], r.ok
  PROVE  account'[a].ok
<1>0. account[a].ok => account'[a].ok
  BY DEF StaysOn, vars
<1>1. CASE r \in remembered[a]
  BY <1>0, <1>1 DEF AllOn
<1>2. CASE r \notin remembered[a]
  <2>1. Changing
    BY <1>2 DEF Next, Registering, Register, LoggingIn, Post, Accept, GiveUp,
      StoreCode, Exchanging, Exchange, Renewing, Renew, vars, outside
  <2>2. PICK s \in Slugs :
          \/ \E k \in Keys : \/ \E reply \in Verdict : Switch(s, k, reply)
                             \/ Forget(s, k)
          \/ \E k \in Keys \cup {NoKey} : EditDevKey(s, k)
    BY <2>1 DEF Changing
  <2>3. ASSUME NEW k \in Keys, NEW reply \in Verdict, Switch(s, k, reply)
        PROVE  account'[a].ok
    <3>1. a = <<s, k>> /\ r = reply
      BY <1>2, <2>3 DEF Switch, TypeOK
    <3>2. account'[a] = reply
      BY <2>3, <3>1 DEF Switch, TypeOK
    <3> QED
      BY <3>1, <3>2
  <2>4. ASSUME NEW k \in Keys, Forget(s, k) PROVE FALSE
    <3>1. remembered'[a] \subseteq remembered[a]
      BY <2>4 DEF Forget, TypeOK
    <3> QED
      BY <1>2, <3>1
  <2>5. ASSUME NEW k \in Keys \cup {NoKey}, EditDevKey(s, k) PROVE FALSE
    BY <1>2, <2>5 DEF EditDevKey
  <2> QED
    BY <2>2, <2>3, <2>4, <2>5
<1> QED
  BY <1>1, <1>2

\* A login knows only users whom 1C accepts.
LEMMA LoginsStayOn ==
  ASSUME TypeOK, AllOn, [Next]_vars, [StaysOn]_vars,
         NEW v \in Visitors, logins'[v].stage = "known"
  PROVE  OnAt(logins[v].request.tenant, logins[v].sub)'
<1>1. CASE logins'[v] = logins[v]
  <2>1. /\ logins[v].request.tenant \in Slugs /\ logins[v].sub \in Subs
        /\ OnAt(logins[v].request.tenant, logins[v].sub)
    BY <1>1, LoginFacts DEF TypeOK, Request, AllOn, OnAt
  <2>2. PICK s \in Slugs, u \in Subs :
          s = logins[v].request.tenant /\ u = logins[v].sub
    BY <2>1
  <2>3. OnAt(s, u)'
    BY <2>1, <2>2, OnStays
  <2> QED
    BY <1>1, <2>2, <2>3 DEF OnAt
<1>2. CASE logins'[v] # logins[v]
  <2>1. PICK w \in Visitors :
          \/ \E q \in Request : Post(w, q)
          \/ Accept(w)
          \/ GiveUp(w)
          \/ \E c \in Codes : StoreCode(w, c)
    BY <1>2 DEF Next, Registering, Register, LoggingIn, Exchanging, Exchange,
      Renewing, Renew, Changing, Switch, Forget, EditDevKey, vars
  <2>2. v = w
    BY <1>2, <2>1 DEF Post, Accept, GiveUp, StoreCode, TypeOK
  <2>3. ASSUME NEW q \in Request, Post(v, q)
        PROVE  logins'[v].sub = DevUser
    BY <2>3 DEF Post, TypeOK
  <2>4. CASE Accept(v)
    <3>1. logins[v].request \in Request
      BY <2>4, LoginFacts DEF Accept, TypeOK
    <3>2. PICK reply \in remembered[<<logins[v].request.tenant,
                                      logins[v].request.key>>] :
            /\ reply.ok
            /\ logins'[v] =
                 [stage |-> "known", request |-> logins[v].request,
                  sub |-> logins[v].request.key,
                  scope |-> GrantedScope(logins[v].request.scope, reply.scope)]
      BY <2>4 DEF Accept, TypeOK
    <3>3. <<logins[v].request.tenant, logins[v].request.key>> \in Slugs \X Keys
      BY <3>1 DEF Request
    <3>4. account[<<logins[v].request.tenant, logins[v].request.key>>].ok
      BY <3>2, <3>3 DEF AllOn
    <3>5. account' = account
      BY <2>4 DEF Accept, outside
    <3> QED
      BY <3>2, <3>4, <3>5 DEF OnAt
  <2>5. CASE GiveUp(v) \/ \E c \in Codes : StoreCode(v, c)
    BY <2>5 DEF GiveUp, StoreCode, TypeOK, Idle
  <2>6. QED
    BY <2>1, <2>2, <2>3, <2>4, <2>5 DEF OnAt
<1>3. QED
  BY <1>1, <1>2

\* Codes and pairs only ever stand for users whom 1C accepts.
LEMMA RowsStayOn ==
  ASSUME TypeOK, AllOn, [Next]_vars, [StaysOn]_vars,
         NEW row \in codes' \cup pairs'
  PROVE  row.sub # DevUser => account'[<<row.tenant, row.sub>>].ok
<1>1. ASSUME NEW s \in Slugs, NEW u \in Subs, row.tenant = s, row.sub = u,
             OnAt(s, u)
      PROVE  row.sub # DevUser => account'[<<row.tenant, row.sub>>].ok
  <2>1. OnAt(s, u)'
    BY <1>1, OnStays
  <2> QED
    BY <1>1, <2>1 DEF OnAt
<1>2. ASSUME NEW old \in codes \cup pairs,
             row.tenant = old.tenant, row.sub = old.sub
      PROVE  row.sub # DevUser => account'[<<row.tenant, row.sub>>].ok
  <2>1. old.tenant \in Slugs /\ old.sub \in Subs /\ OnAt(old.tenant, old.sub)
    BY DEF TypeOK, CodeRow, PairRow, AllOn, OnAt
  <2> QED
    BY <1>1, <1>2, <2>1
<1>3. CASE row \in pairs'
  BY <1>2, <1>3, PairSources
<1>4. CASE row \in codes
  BY <1>2, <1>4
<1>5. CASE row \in codes' /\ row \notin codes
  <2>1. PICK v \in Visitors, c \in Codes : StoreCode(v, c)
    BY <1>5 DEF Next, Registering, Register, LoggingIn, Post, Accept, GiveUp,
      Exchanging, Exchange, Renewing, Renew, Changing, Switch, Forget,
      EditDevKey, vars, tables
  <2>2. /\ row.tenant = logins[v].request.tenant
        /\ row.sub = logins[v].sub
        /\ logins[v].stage = "known"
    BY <1>5, <2>1 DEF StoreCode
  <2>3. /\ logins[v].request.tenant \in Slugs /\ logins[v].sub \in Subs
        /\ OnAt(logins[v].request.tenant, logins[v].sub)
    BY <2>2, LoginFacts DEF TypeOK, Request, AllOn, OnAt
  <2> QED
    BY <1>1, <2>2, <2>3
<1> QED
  BY <1>3, <1>4, <1>5

\* A renewal for a user whom 1C accepts does not lapse.
LEMMA NoneLapses ==
  ASSUME TypeOK, AllOn, RepliesTraced, NoneLapsed, [Next]_vars
  PROVE  NoneLapsed'
<1> SUFFICES ASSUME NEW row \in pairs', row.lapsed PROVE FALSE
  BY DEF NoneLapsed
<1>1. CASE row \in pairs
  BY <1>1 DEF NoneLapsed
<1>2. CASE row \notin pairs
  <2>1. Exchanging \/ Renewing
    BY <1>2 DEF Next, Registering, Register, LoggingIn, Post, Accept, GiveUp,
      StoreCode, Changing, Switch, Forget, EditDevKey, vars, tables
  <2>2. CASE Exchanging
    BY <1>2, <2>2 DEF Exchanging, Exchange, Pair
  <2>3. CASE Renewing
    <3>1. PICK old \in pairs, s \in Slugs, client \in ClientIds,
               requested \in SUBSET Scopes, p \in Pairs :
            Renew(old, s, client, requested, p)
      BY <2>3 DEF Renewing
    <3>2. old \in PairRow /\ ~old.lapsed /\ old.tenant = s
      BY <3>1 DEF TypeOK, NoneLapsed, Renew
    <3>3. CASE row \in Spend(old)
      BY <1>2, <3>2, <3>3 DEF Spend, PairRow
    <3>4. CASE row \notin Spend(old)
      <4>1. row = Pair(p, s, old, NarrowedScope(requested, old.scope),
                       ~Vouched(s, old.sub))
        BY <3>1, <3>4 DEF Renew
      <4>2. CASE old.sub = DevUser
        BY <4>1, <4>2 DEF Pair, Vouched
      <4>3. CASE old.sub # DevUser
        <5>1. <<s, old.sub>> \in Slugs \X Keys
          BY <3>2, <4>3 DEF PairRow, Subs
        <5>2. account[<<s, old.sub>>].ok
          BY <3>2, <4>3 DEF AllOn
        <5>3. account[<<s, old.sub>>] \in remembered[<<s, old.sub>>]
          BY <5>1 DEF RepliesTraced
        <5>4. Vouched(s, old.sub)
          BY <5>2, <5>3 DEF Vouched
        <5> QED
          BY <4>1, <5>4 DEF Pair
      <4> QED
        BY <4>2, <4>3
    <3> QED
      BY <3>3, <3>4
  <2> QED
    BY <2>1, <2>2, <2>3
<1> QED
  BY <1>1, <1>2

\* The invariant of a 1C that switches nothing off.
LEMMA AllStayOn ==
  TypeOK /\ AllOn /\ [Next]_vars /\ [StaysOn]_vars => AllOn'
<1> SUFFICES ASSUME TypeOK, AllOn, [Next]_vars, [StaysOn]_vars PROVE AllOn'
  OBVIOUS
<1>1. \A a \in Slugs \X Keys : \A r \in remembered'[a] : r.ok => account'[a].ok
  BY RepliesStayOn
<1>2. \A v \in Visitors :
        logins'[v].stage = "known" /\ logins'[v].sub # DevUser =>
          account'[<<logins'[v].request.tenant, logins'[v].sub>>].ok
  BY LoginsStayOn DEF OnAt
<1>3. \A row \in codes' \cup pairs' :
        row.sub # DevUser => account'[<<row.tenant, row.sub>>].ok
  BY RowsStayOn
<1> QED
  BY <1>1, <1>2, <1>3 DEF AllOn

\* What the run "renewal" finds needs an account that 1C switches off: as long
\* as none is, no token is renewed that 1C or the cache would refuse, and so
\* rights that only change are never taken for a withdrawal (token.go:
\* tokenRefreshToken).
THEOREM OnlyOffLapses == Spec /\ NeverSwitchedOff => []OffEndsRenewal
<1> DEFINE IInv == TypeOK /\ Traced /\ TracesToKey
<1>1. Init => IInv /\ AllOn /\ NoneLapsed
  <2> SUFFICES ASSUME Init PROVE AllOn /\ NoneLapsed
    BY InitTyped, InitTraced
  <2>1. \A a \in Slugs \X Keys : remembered[a] = {account[a]}
    BY DEF Init
  <2> QED
    BY <2>1 DEF Init, AllOn, NoneLapsed, Idle
<1>2. IInv /\ [Next]_vars => Traced' /\ TracesToKey'
  BY TracedIsInductive
<1>3. IInv /\ AllOn /\ NoneLapsed /\ [Next]_vars => NoneLapsed'
  BY NoneLapses DEF Traced
<1>4. NoneLapsed => OffEndsRenewal
  BY DEF NoneLapsed, OffEndsRenewal, ServedAt
<1> QED
  BY <1>1, <1>2, <1>3, <1>4, TypeCorrect, AllStayOn, PTL
     DEF Spec, NeverSwitchedOff
=============================================================================
