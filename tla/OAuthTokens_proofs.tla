------------------------- MODULE OAuthTokens_proofs -------------------------
(***************************************************************************)
(* Proofs about OAuthTokens, for every set of tenants, clients, scopes,    *)
(* codes and tokens and every lifetime.                                    *)
(***************************************************************************)
EXTENDS OAuthTokens, TLAPS

-----------------------------------------------------------------------------
\* Rows stay rows: the three ways a statement changes a table.

\* An UPDATE that marks rows as revoked leaves access rows access rows.
LEMMA MarkAccess ==
  ASSUME NEW table \in SUBSET AccessRow, NEW rows \in SUBSET table
  PROVE  MarkRevoked(table, rows) \subseteq AccessRow
  BY DEF MarkRevoked, AccessRow

\* The same for the refresh table.
LEMMA MarkRefresh ==
  ASSUME NEW table \in SUBSET RefreshRow, NEW rows \in SUBSET table
  PROVE  MarkRevoked(table, rows) \subseteq RefreshRow
  BY DEF MarkRevoked, RefreshRow

\* Narrowing a scope gives a set of scopes again.
LEMMA NarrowedIsScope ==
  ASSUME NEW requested \in SUBSET Scopes, NEW old \in SUBSET Scopes
  PROVE  /\ NarrowedScope(requested, old) \in SUBSET Scopes
         /\ NarrowedScope(requested, old) \subseteq old
  BY DEF NarrowedScope, IntersectScopes

\* What the code grants is among what the key allows.
LEMMA GrantedIsScope ==
  ASSUME NEW requested \in SUBSET Scopes, NEW user \in SUBSET Scopes
  PROVE  GrantedScope(requested, user) \in SUBSET user
  BY DEF GrantedScope, IntersectScopes

\* Starting an exchange keeps the handlers and the history well typed.
LEMMA StartTyped ==
  ASSUME TypeOK, NEW new \in Tokens, NEW t \in Tenants, NEW k \in Clients,
         NEW s \in SUBSET Scopes, NEW rotated \in Families,
         NEW family \in Families, NEW source \in Codes \cup Tokens,
         StartExchange(new, t, k, s, rotated, family, source)
  PROVE  /\ minted' \subseteq Codes \cup Tokens
         /\ exchanges' \subseteq Exchange
         /\ grants' \subseteq Grant
<1> DEFINE chain == IF family = Empty THEN new ELSE family
<1>1. chain \in Tokens
  BY DEF Families
<1>2. minted' \subseteq Codes \cup Tokens
  BY DEF StartExchange, ChainOf, TypeOK
<1>3. exchanges' \subseteq Exchange
  BY <1>1 DEF StartExchange, ChainOf, TypeOK, Exchange
<1>4. grants' \subseteq Grant
  BY <1>1 DEF StartExchange, ChainOf, TypeOK, Grant
<1>5. QED
  BY <1>2, <1>3, <1>4

-----------------------------------------------------------------------------
\* Types hold initially and every step keeps them.
LEMMA InitTyped == Init => TypeOK
<1> SUFFICES ASSUME Init PROVE TypeOK
  OBVIOUS
<1> USE IdsAssumption, TimeAssumption
<1>1. PICK t \in Tenants, k \in Clients, s \in SUBSET Scopes :
        /\ access = {[token |-> l, tenant |-> t, client |-> k, scope |-> s,
                      family |-> Empty, revoked |-> FALSE,
                      expires |-> AccessTTL] : l \in Legacy}
        /\ refresh = {[token |-> l, tenant |-> t, client |-> k, scope |-> s,
                       family |-> Empty, rotated |-> Empty,
                       revoked |-> FALSE,
                       expires |-> RefreshTTL] : l \in Legacy}
  BY DEF Init
<1>2. access \subseteq AccessRow
  <2>1. \A l \in Legacy :
          [token |-> l, tenant |-> t, client |-> k, scope |-> s,
           family |-> Empty, revoked |-> FALSE,
           expires |-> AccessTTL] \in AccessRow
    BY DEF AccessRow, Families
  <2>2. QED
    BY <1>1, <2>1
<1>3. refresh \subseteq RefreshRow
  <2>1. \A l \in Legacy :
          [token |-> l, tenant |-> t, client |-> k, scope |-> s,
           family |-> Empty, rotated |-> Empty, revoked |-> FALSE,
           expires |-> RefreshTTL] \in RefreshRow
    BY DEF RefreshRow, Families
  <2>2. QED
    BY <1>1, <2>1
<1>4. QED
  BY <1>2, <1>3 DEF Init, TypeOK, SweepIdle

\* Every statement, handler step, crash and cleanup keeps the types.
LEMMA NextTyped == TypeOK /\ [Next]_vars => TypeOK'
<1> SUFFICES ASSUME TypeOK, [Next]_vars PROVE TypeOK'
  OBVIOUS
<1> USE IdsAssumption, TimeAssumption
<1>1. CASE Authorizing
  <2>1. PICK c \in Codes, t \in Tenants, k \in Clients,
             requested \in SUBSET Scopes, user \in SUBSET Scopes :
               Authorize(c, t, k, requested, user)
    BY <1>1 DEF Authorizing
  <2>2. codes' \subseteq CodeRow
    BY <2>1, GrantedIsScope DEF Authorize, TypeOK, CodeRow
  <2>3. QED
    BY <2>1, <2>2 DEF Authorize, TypeOK, history
<1>2. CASE Exchanging
  <2>1. PICK c \in Codes, t \in Tenants, k \in Clients, proof \in BOOLEAN,
             new \in Tokens : ExchangeCode(c, t, k, proof, new)
    BY <1>2 DEF Exchanging
  <2>2. PICK r \in codes :
          /\ codes' = {d \in codes : d.code # c}
          /\ \/ StartExchange(new, t, k, r.scope, Empty, Empty, c)
             \/ UNCHANGED <<minted, exchanges, grants>>
          /\ UNCHANGED <<access, refresh, replays, sweep, now, killed, settled>>
    BY <2>1 DEF ExchangeCode, CodesWithout
  <2>3. r.scope \in SUBSET Scopes
    BY DEF TypeOK, CodeRow
  <2>4. /\ minted' \subseteq Codes \cup Tokens
        /\ exchanges' \subseteq Exchange
        /\ grants' \subseteq Grant
    BY <2>2, <2>3, StartTyped DEF Families, TypeOK
  <2>5. QED
    BY <2>2, <2>4 DEF TypeOK
<1>3. CASE Rotating
  <2>1. PICK tok \in Tokens, t \in Tenants, k \in Clients,
             requested \in SUBSET Scopes, new \in Tokens :
               RotateRefresh(tok, t, k, requested, new)
    BY <1>3 DEF Rotating
  <2>2. PICK r \in refresh :
          /\ refresh' = MarkRevoked(refresh, {d \in refresh : d.token = tok})
          /\ \/ StartExchange(new, t, k, NarrowedScope(requested, r.scope),
                              tok, r.family, tok)
             \/ UNCHANGED <<minted, exchanges, grants>>
          /\ UNCHANGED <<codes, access, replays, sweep, now, killed, settled>>
    BY <2>1 DEF RotateRefresh, Usable
  <2>3. r.scope \in SUBSET Scopes /\ r.family \in Families
    BY DEF TypeOK, RefreshRow
  <2>4. /\ minted' \subseteq Codes \cup Tokens
        /\ exchanges' \subseteq Exchange
        /\ grants' \subseteq Grant
    BY <2>2, <2>3, StartTyped, NarrowedIsScope DEF Families, TypeOK
  <2>5. refresh' \subseteq RefreshRow
    BY <2>2, MarkRefresh DEF TypeOK
  <2>6. QED
    BY <2>2, <2>4, <2>5 DEF TypeOK
<1>4. CASE Replaying
  <2>1. PICK tok \in Tokens, t \in Tenants : DetectReplay(tok, t)
    BY <1>4 DEF Replaying
  <2>2. replays' \subseteq Replay
    BY <2>1 DEF DetectReplay, TypeOK, RefreshRow, Replay
  <2>3. QED
    BY <2>1, <2>2 DEF DetectReplay, TypeOK, tables, history
<1>5. CASE Revoking
  <2>1. PICK p \in replays : RevokeFamily(p)
    BY <1>5 DEF Revoking
  <2>2. access' \subseteq AccessRow /\ refresh' \subseteq RefreshRow
    BY <2>1, MarkAccess, MarkRefresh DEF RevokeFamily, TypeOK, RowsOf
  <2>3. killed' \subseteq Tokens /\ settled' \subseteq Tokens
    BY <2>1 DEF RevokeFamily, TypeOK, Replay, Families
  <2>4. QED
    BY <2>1, <2>2, <2>3 DEF RevokeFamily, TypeOK
<1>6. CASE Issuing
  <2>1. PICK x \in exchanges : InsertAccess(x) \/ InsertRefresh(x)
    BY <1>6 DEF Issuing
  <2>2. x \in Exchange
    BY DEF TypeOK
  <2>3. CASE InsertAccess(x)
    <3>0. [token |-> x.token, tenant |-> x.tenant, client |-> x.client,
           scope |-> x.scope, family |-> x.family, revoked |-> FALSE,
           expires |-> x.issued + AccessTTL] \in AccessRow
      BY <2>2 DEF Exchange, AccessRow, Families
    <3>1. access' \subseteq AccessRow
      BY <2>3, <3>0 DEF InsertAccess, TypeOK
    <3>2. exchanges' \subseteq Exchange
      BY <2>2, <2>3 DEF InsertAccess, TypeOK, Exchange
    <3>3. QED
      BY <2>3, <3>1, <3>2 DEF InsertAccess, TypeOK, history
  <2>4. CASE InsertRefresh(x)
    <3>0. [token |-> x.token, tenant |-> x.tenant, client |-> x.client,
           scope |-> x.scope, family |-> x.family, rotated |-> x.rotated,
           revoked |-> FALSE, expires |-> x.issued + RefreshTTL] \in RefreshRow
      BY <2>2 DEF Exchange, RefreshRow, Families
    <3>1. refresh' \subseteq RefreshRow
      BY <2>4, <3>0 DEF InsertRefresh, TypeOK
    <3>2. QED
      BY <2>4, <3>1 DEF InsertRefresh, TypeOK, history
  <2>5. QED
    BY <2>1, <2>3, <2>4
<1>7. CASE Failing
  BY <1>7 DEF Failing, FailExchange, FailRevoke, SweepFail, TypeOK,
              SweepIdle, tables, history
<1>8. CASE Crash
  BY <1>8 DEF Crash, TypeOK, SweepIdle, tables, history
<1>9. CASE Sweeping
  BY <1>9 DEF Sweeping, SweepCodes, SweepAccess, SweepRefresh, Purge, TypeOK,
              SweepIdle, history
<1>10. CASE Tick
  BY <1>10 DEF Tick, TypeOK, tables, history
<1>11. CASE UNCHANGED vars
  BY <1>11 DEF vars, TypeOK
<1>12. QED
  BY <1>1, <1>2, <1>3, <1>4, <1>5, <1>6, <1>7, <1>8, <1>9, <1>10, <1>11
     DEF Next

\* Every reachable state is well typed: the rows in the tables fit their
\* schema and the handlers in flight carry what they will write.
THEOREM TypeCorrect == Spec => []TypeOK
  BY InitTyped, NextTyped, PTL DEF Spec

-----------------------------------------------------------------------------
\* A value that randomToken returns is new to everything that exists.
LEMMA InitFresh == Init => Fresh
<1> SUFFICES ASSUME Init PROVE Fresh
  OBVIOUS
<1>1. \A r \in access : r.token \in minted /\ r.family = Empty
  BY DEF Init
<1>2. \A r \in refresh : r.token \in minted /\ r.family = Empty
  BY DEF Init
<1>3. QED
  BY <1>1, <1>2 DEF Init, Fresh, Chained

\* A new exchange refers to its own fresh token or to the family it
\* continues.
LEMMA StartFresh ==
  ASSUME Fresh, NEW new, NEW t, NEW k, NEW s, NEW rotated,
         NEW family \in minted \cup {Empty}, NEW source,
         StartExchange(new, t, k, s, rotated, family, source)
  PROVE  /\ minted \subseteq minted'
         /\ \A x \in exchanges' : /\ x.token \in minted'
                                  /\ x.family \in minted' \cup {Empty}
         /\ \A g \in grants' : g.family \in minted'
  BY DEF StartExchange, ChainOf, Fresh, Chained

\* Every step refers only to values that have been returned.
LEMMA NextFresh == TypeOK /\ Fresh /\ [Next]_vars => Fresh'
<1> SUFFICES ASSUME TypeOK, Fresh, [Next]_vars PROVE Fresh'
  OBVIOUS
<1>1. CASE Authorizing
  BY <1>1 DEF Authorizing, Authorize, Fresh, Chained, history
<1>2. CASE Exchanging
  <2>1. PICK c \in Codes, t \in Tenants, k \in Clients, proof \in BOOLEAN,
             new \in Tokens : ExchangeCode(c, t, k, proof, new)
    BY <1>2 DEF Exchanging
  <2>2. PICK r \in codes :
          \/ StartExchange(new, t, k, r.scope, Empty, Empty, c)
          \/ UNCHANGED <<minted, exchanges, grants>>
    BY <2>1 DEF ExchangeCode, CodesWithout
  <2>3. UNCHANGED <<access, refresh, replays, settled>>
    BY <2>1 DEF ExchangeCode, CodesWithout
  <2>4. CASE StartExchange(new, t, k, r.scope, Empty, Empty, c)
    BY <2>3, <2>4, StartFresh DEF Fresh, Chained
  <2>5. CASE UNCHANGED <<minted, exchanges, grants>>
    BY <2>3, <2>5 DEF Fresh, Chained
  <2>6. QED
    BY <2>2, <2>4, <2>5
<1>3. CASE Rotating
  <2>1. PICK tok \in Tokens, t \in Tenants, k \in Clients,
             requested \in SUBSET Scopes, new \in Tokens :
               RotateRefresh(tok, t, k, requested, new)
    BY <1>3 DEF Rotating
  <2>2. PICK r \in refresh :
          \/ StartExchange(new, t, k, NarrowedScope(requested, r.scope),
                           tok, r.family, tok)
          \/ UNCHANGED <<minted, exchanges, grants>>
    BY <2>1 DEF RotateRefresh, Usable
  <2>3. /\ refresh' = MarkRevoked(refresh, {d \in refresh : d.token = tok})
        /\ UNCHANGED <<access, replays, settled>>
    BY <2>1 DEF RotateRefresh, Usable
  <2>4. \A q \in refresh' : \E d \in refresh : q.token = d.token
                                               /\ q.family = d.family
    BY <2>3 DEF MarkRevoked, TypeOK, RefreshRow
  <2>5. r.family \in minted \cup {Empty}
    BY DEF Fresh, Chained
  <2>6. CASE StartExchange(new, t, k, NarrowedScope(requested, r.scope),
                           tok, r.family, tok)
    BY <2>3, <2>4, <2>5, <2>6, StartFresh DEF Fresh, Chained
  <2>7. CASE UNCHANGED <<minted, exchanges, grants>>
    BY <2>3, <2>4, <2>7 DEF Fresh, Chained
  <2>8. QED
    BY <2>2, <2>6, <2>7
<1>4. CASE Replaying
  BY <1>4 DEF Replaying, DetectReplay, tables, history, Fresh, Chained
<1>5. CASE Revoking
  <2>1. PICK p \in replays : RevokeFamily(p)
    BY <1>5 DEF Revoking
  <2>2. UNCHANGED <<exchanges, minted, grants>>
    BY <2>1 DEF RevokeFamily
  <2>3. CASE p.family = Empty
    BY <2>1, <2>2, <2>3 DEF RevokeFamily, Fresh, Chained
  <2>4. CASE p.family # Empty
    <3>1. \A q \in refresh' : \E d \in refresh : q.token = d.token
                                                 /\ q.family = d.family
      BY <2>1, <2>4 DEF RevokeFamily, RowsOf, MarkRevoked, TypeOK, RefreshRow
    <3>2. \A q \in access' : \E d \in access : q.token = d.token
                                               /\ q.family = d.family
      BY <2>1, <2>4 DEF RevokeFamily, RowsOf, MarkRevoked, TypeOK, AccessRow
    <3>3. p.family \in minted
      BY <2>4 DEF Fresh
    <3>4. QED
      BY <2>1, <2>2, <2>4, <3>1, <3>2, <3>3 DEF RevokeFamily, Fresh, Chained
  <2>5. QED
    BY <2>3, <2>4
<1>6. CASE Issuing
  <2>1. PICK x \in exchanges : InsertAccess(x) \/ InsertRefresh(x)
    BY <1>6 DEF Issuing
  <2>2. x.token \in minted /\ x.family \in minted \cup {Empty}
    BY DEF Fresh, Chained
  <2>3. UNCHANGED <<minted, replays, history>>
    BY <2>1 DEF InsertAccess, InsertRefresh
  <2>4. \A r \in refresh' : r.token \in minted /\ r.family \in minted \cup {Empty}
    BY <2>1, <2>2 DEF InsertAccess, InsertRefresh, Fresh, Chained
  <2>5. \A r \in access' : r.token \in minted /\ r.family \in minted \cup {Empty}
    BY <2>1, <2>2 DEF InsertAccess, InsertRefresh, Fresh, Chained
  <2>6. \A y \in exchanges' : /\ y.token \in minted
                              /\ y.family \in minted \cup {Empty}
    BY <2>1, <2>2 DEF InsertAccess, InsertRefresh, Fresh, Chained, TypeOK,
                      Exchange
  <2>7. QED
    BY <2>3, <2>4, <2>5, <2>6 DEF Fresh, Chained, history
<1>7. CASE Failing
  BY <1>7 DEF Failing, FailExchange, FailRevoke, SweepFail, tables, history,
              Fresh, Chained
<1>8. CASE Crash
  BY <1>8 DEF Crash, tables, history, Fresh, Chained
<1>9. CASE Sweeping
  BY <1>9 DEF Sweeping, SweepCodes, SweepAccess, SweepRefresh, Purge, history,
              Fresh, Chained
<1>10. CASE Tick
  BY <1>10 DEF Tick, tables, history, Fresh, Chained
<1>11. CASE UNCHANGED vars
  BY <1>11 DEF vars, Fresh, Chained
<1>12. QED
  BY <1>1, <1>2, <1>3, <1>4, <1>5, <1>6, <1>7, <1>8, <1>9, <1>10, <1>11
     DEF Next
-----------------------------------------------------------------------------
\* At most one way to continue.

\* A step after which there are fewer live refresh tokens and fewer exchanges
\* cannot fork a chain: refusals, revocations, failures, cleanups.
LEMMA FewerKeepsOneLive ==
  ASSUME AtMostOneLive,
         \A q \in refresh' : Live(q) => q \in refresh,
         exchanges' \subseteq exchanges
  PROVE  AtMostOneLive'
  BY DEF AtMostOneLive, Live

\* Marking rows leaves no live row that was not there before, and none of
\* the marked ones.
LEMMA MarkLeavesLive ==
  ASSUME NEW table \in SUBSET RefreshRow, NEW rows \in SUBSET table,
         NEW q \in MarkRevoked(table, rows), Live(q)
  PROVE  q \in table \ rows
  BY DEF MarkRevoked, RefreshRow, Live

\* An exchange that opens a family opens a new one; one that continues a
\* family does so when its live token has just been spent.
LEMMA StartKeepsOneLive ==
  ASSUME TypeOK, Fresh, AtMostOneLive,
         NEW new, NEW t, NEW k, NEW s, NEW rotated, NEW family, NEW source,
         StartExchange(new, t, k, s, rotated, family, source),
         \A q \in refresh' : Live(q) => q \in refresh,
         family # Empty =>
           /\ \A q \in refresh' : Live(q) => q.family # family
           /\ \A x \in exchanges : x.family # family
  PROVE  AtMostOneLive'
<1> DEFINE chain == IF family = Empty THEN new ELSE family
           y == [stage |-> "access", token |-> new, tenant |-> t, client |-> k,
                 scope |-> s, family |-> chain, rotated |-> rotated,
                 issued |-> now]
<1> USE IdsAssumption
<1>1. exchanges' = exchanges \cup {y} /\ y.family = chain
  BY DEF StartExchange, ChainOf
<1>2. \A x \in exchanges : x.family # chain
  BY DEF StartExchange, ChainOf, Fresh, Chained
<1>3. \A q \in refresh' : Live(q) => q.family # chain
  BY DEF StartExchange, ChainOf, Fresh, Chained
<1> HIDE DEF y, chain
<1>4. \A r, q \in refresh' :
        r.family = q.family /\ r.family # Empty /\ Live(r) /\ Live(q) => r = q
  BY DEF AtMostOneLive
<1>5. \A x, z \in exchanges' : x.family = z.family => x = z
  BY <1>1, <1>2 DEF AtMostOneLive
<1>6. \A r \in refresh', x \in exchanges' : r.family = x.family => ~Live(r)
  BY <1>1, <1>3 DEF AtMostOneLive
<1>7. QED
  BY <1>4, <1>5, <1>6 DEF AtMostOneLive, Live

\* Rows that predate the family column belong to no family.
LEMMA InitOneLive == Init => AtMostOneLive
<1> SUFFICES ASSUME Init PROVE AtMostOneLive
  OBVIOUS
<1>1. \A r \in refresh : r.family = Empty
  BY DEF Init
<1>2. QED
  BY <1>1 DEF Init, AtMostOneLive

\* Every step leaves a family at most one live token or exchange.
LEMMA NextOneLive == TypeOK /\ Fresh /\ AtMostOneLive /\ [Next]_vars
                       => AtMostOneLive'
<1> SUFFICES ASSUME TypeOK, Fresh, AtMostOneLive, [Next]_vars
             PROVE  AtMostOneLive'
  OBVIOUS
<1>1. CASE Authorizing
  BY <1>1, FewerKeepsOneLive DEF Authorizing, Authorize
<1>2. CASE Exchanging
  <2>1. PICK c \in Codes, t \in Tenants, k \in Clients, proof \in BOOLEAN,
             new \in Tokens : ExchangeCode(c, t, k, proof, new)
    BY <1>2 DEF Exchanging
  <2>2. PICK r \in codes :
          \/ StartExchange(new, t, k, r.scope, Empty, Empty, c)
          \/ UNCHANGED <<minted, exchanges, grants>>
    BY <2>1 DEF ExchangeCode, CodesWithout
  <2>3. refresh' = refresh
    BY <2>1 DEF ExchangeCode, CodesWithout
  <2>4. CASE StartExchange(new, t, k, r.scope, Empty, Empty, c)
    BY <2>3, <2>4, StartKeepsOneLive
  <2>5. CASE UNCHANGED <<minted, exchanges, grants>>
    BY <2>3, <2>5, FewerKeepsOneLive
  <2>6. QED
    BY <2>2, <2>4, <2>5
<1>3. CASE Rotating
  <2>1. PICK tok \in Tokens, t \in Tenants, k \in Clients,
             requested \in SUBSET Scopes, new \in Tokens :
               RotateRefresh(tok, t, k, requested, new)
    BY <1>3 DEF Rotating
  <2>2. PICK r \in refresh :
          /\ r.token = tok /\ Live(r)
          /\ refresh' = MarkRevoked(refresh, {d \in refresh : d.token = tok})
          /\ \/ StartExchange(new, t, k, NarrowedScope(requested, r.scope),
                              tok, r.family, tok)
             \/ UNCHANGED <<minted, exchanges, grants>>
    BY <2>1 DEF RotateRefresh, Usable, Live
  <2>3. \A q \in refresh' : Live(q) => q \in refresh /\ q.token # tok
    BY <2>2, MarkLeavesLive DEF TypeOK
  <2>4. CASE UNCHANGED <<minted, exchanges, grants>>
    BY <2>3, <2>4, FewerKeepsOneLive
  <2>5. CASE StartExchange(new, t, k, NarrowedScope(requested, r.scope),
                           tok, r.family, tok)
    <3>1. r.family # Empty =>
            /\ \A q \in refresh' : Live(q) => q.family # r.family
            /\ \A x \in exchanges : x.family # r.family
      BY <2>2, <2>3 DEF AtMostOneLive
    <3>2. QED
      BY <2>3, <2>5, <3>1, StartKeepsOneLive
  <2>6. QED
    BY <2>2, <2>4, <2>5
<1>4. CASE Replaying
  BY <1>4, FewerKeepsOneLive DEF Replaying, DetectReplay, tables
<1>5. CASE Revoking
  <2>1. PICK p \in replays : RevokeFamily(p)
    BY <1>5 DEF Revoking
  <2>2. \A q \in refresh' : Live(q) => q \in refresh
    <3>1. CASE p.family = Empty
      BY <2>1, <3>1 DEF RevokeFamily
    <3>2. CASE p.family # Empty
      BY <2>1, <3>2, MarkLeavesLive DEF RevokeFamily, RowsOf, TypeOK
    <3>3. QED
      BY <3>1, <3>2
  <2>3. QED
    BY <2>1, <2>2, FewerKeepsOneLive DEF RevokeFamily
<1>6. CASE Issuing
  <2>1. PICK x \in exchanges : InsertAccess(x) \/ InsertRefresh(x)
    BY <1>6 DEF Issuing
  <2>2. x.family # Empty /\ x \in Exchange
    BY IdsAssumption DEF TypeOK, Exchange
  <2>3. CASE InsertAccess(x)
    <3>1. \A y \in exchanges' : \E z \in exchanges : z.family = y.family
      BY <2>2, <2>3 DEF InsertAccess, Exchange
    <3>2. \A y, z \in exchanges' : y.family = z.family => y = z
      BY <2>2, <2>3 DEF InsertAccess, AtMostOneLive, Exchange
    <3>3. QED
      BY <2>3, <3>1, <3>2 DEF InsertAccess, AtMostOneLive, Live
  <2>4. CASE InsertRefresh(x)
    <3> DEFINE row == [token |-> x.token, tenant |-> x.tenant,
                       client |-> x.client, scope |-> x.scope,
                       family |-> x.family, rotated |-> x.rotated,
                       revoked |-> FALSE, expires |-> x.issued + RefreshTTL]
    <3>1. refresh' = refresh \cup {row} /\ row.family = x.family
      BY <2>4 DEF InsertRefresh
    <3> HIDE DEF row
    <3>2. \A r \in refresh : r.family = x.family => ~Live(r)
      BY DEF AtMostOneLive
    <3>3. /\ exchanges' \subseteq exchanges
          /\ \A y \in exchanges' : y.family # x.family
      BY <2>4 DEF InsertRefresh, AtMostOneLive
    <3>4. QED
      BY <3>1, <3>2, <3>3 DEF AtMostOneLive, Live
  <2>5. QED
    BY <2>1, <2>3, <2>4
<1>7. CASE Failing
  BY <1>7, FewerKeepsOneLive
     DEF Failing, FailExchange, FailRevoke, SweepFail, tables
<1>8. CASE Crash
  BY <1>8, FewerKeepsOneLive DEF Crash, tables
<1>9. CASE Sweeping
  BY <1>9, FewerKeepsOneLive
     DEF Sweeping, SweepCodes, SweepAccess, SweepRefresh, Purge
<1>10. CASE Tick
  BY <1>10, FewerKeepsOneLive DEF Tick, tables
<1>11. CASE UNCHANGED vars
  BY <1>11, FewerKeepsOneLive DEF vars
<1>12. QED
  BY <1>1, <1>2, <1>3, <1>4, <1>5, <1>6, <1>7, <1>8, <1>9, <1>10, <1>11
     DEF Next

\* However requests race, fail and are retried, a family never has two live
\* refresh tokens, nor one next to an exchange that is about to write one.
THEOREM OneLivePerFamily == Spec => []AtMostOneLive
<1>1. Init => TypeOK /\ Fresh /\ AtMostOneLive
  BY InitTyped, InitFresh, InitOneLive
<1>2. TypeOK /\ Fresh /\ AtMostOneLive /\ [Next]_vars
        => (TypeOK /\ Fresh /\ AtMostOneLive)'
  BY NextTyped, NextFresh, NextOneLive
<1>3. QED
  BY <1>1, <1>2, PTL DEF Spec
-----------------------------------------------------------------------------
\* Where rows come from.

Kin(r, q) == /\ r.family = q.family /\ r.tenant = q.tenant
             /\ r.client = q.client /\ r.scope = q.scope

\* A table, or the set of exchanges, in which everything continues something
\* of the state before.
Descends(table) == \A r \in table : \E q \in Chained : Kin(r, q)

\* What continues something within its grant is within its grant.
LEMMA DescendantsWithinGrant ==
  ASSUME ChainWithinGrant, grants \subseteq grants', NEW table,
         Descends(table), NEW r \in table, r.family # Empty
  PROVE  \E g \in grants' : /\ g.family = r.family
                            /\ g.tenant = r.tenant
                            /\ g.client = r.client
                            /\ r.scope \subseteq g.scope
  BY DEF ChainWithinGrant, Descends, Kin

\* So a step after which everything descends keeps the invariant.
LEMMA KeepsWithinGrant ==
  ASSUME ChainWithinGrant, grants \subseteq grants',
         Descends(access'), Descends(refresh'), Descends(exchanges')
  PROVE  ChainWithinGrant'
  BY DescendantsWithinGrant DEF ChainWithinGrant, Chained

\* A step that adds neither a grant nor a replay keeps families rooted.
LEMMA SameRootsKept ==
  ASSUME Rooted, grants' = grants, replays' \subseteq replays
  PROVE  Rooted'
  BY DEF Rooted

\* Rows and exchanges that were there before continue themselves.
LEMMA SubsetDescends ==
  ASSUME NEW table, table \subseteq Chained
  PROVE  Descends(table)
  BY DEF Descends, Kin

\* A row marked as revoked continues the row it was.
LEMMA MarkDescends ==
  /\ TypeOK => \A rows \in SUBSET refresh : Descends(MarkRevoked(refresh, rows))
  /\ TypeOK => \A rows \in SUBSET access : Descends(MarkRevoked(access, rows))
<1>1. ASSUME TypeOK, NEW rows \in SUBSET refresh
      PROVE  Descends(MarkRevoked(refresh, rows))
  <2>1. \A r \in MarkRevoked(refresh, rows) : \E q \in refresh : Kin(r, q)
    BY <1>1 DEF MarkRevoked, Kin, TypeOK, RefreshRow
  <2>2. QED
    BY <2>1 DEF Descends, Chained
<1>2. ASSUME TypeOK, NEW rows \in SUBSET access
      PROVE  Descends(MarkRevoked(access, rows))
  <2>1. \A r \in MarkRevoked(access, rows) : \E q \in access : Kin(r, q)
    BY <1>2 DEF MarkRevoked, Kin, TypeOK, AccessRow
  <2>2. QED
    BY <2>1 DEF Descends, Chained
<1>3. QED
  BY <1>1, <1>2

\* A new exchange carries a scope of the grant: of the one it opens, or of
\* the row it continues.
LEMMA StartWithinGrant ==
  ASSUME TypeOK, Fresh, ChainWithinGrant, Rooted,
         NEW new, NEW t, NEW k, NEW s, NEW rotated, NEW family, NEW source,
         StartExchange(new, t, k, s, rotated, family, source),
         family = Empty \/ \E q \in Chained : /\ q.family = family
                                              /\ q.tenant = t /\ q.client = k
                                              /\ s \subseteq q.scope,
         access' = access, replays' = replays, Descends(refresh')
  PROVE  ChainWithinGrant' /\ Rooted'
<1> DEFINE chain == IF family = Empty THEN new ELSE family
           y == [stage |-> "access", token |-> new, tenant |-> t, client |-> k,
                 scope |-> s, family |-> chain, rotated |-> rotated,
                 issued |-> now]
           g0 == [family |-> chain, source |-> source, tenant |-> t,
                  client |-> k, scope |-> s]
<1> USE IdsAssumption
<1>1. /\ exchanges' = exchanges \cup {y}
      /\ y.family = chain /\ y.tenant = t /\ y.client = k /\ y.scope = s
  BY DEF StartExchange, ChainOf
<1>2. /\ grants' = IF family # Empty THEN grants ELSE grants \cup {g0}
      /\ g0.family = chain /\ g0.tenant = t /\ g0.client = k /\ g0.scope = s
  BY DEF StartExchange, ChainOf
<1>3. family = Empty => \A g \in grants : g.family # chain
  BY DEF StartExchange, ChainOf, Fresh
<1> HIDE DEF y, g0
<1>4. \E g \in grants' : /\ g.family = chain /\ g.tenant = t /\ g.client = k
                         /\ s \subseteq g.scope
  <2>1. CASE family = Empty
    BY <1>2, <2>1
  <2>2. CASE family # Empty
    BY <1>2, <2>2 DEF ChainWithinGrant
  <2>3. QED
    BY <2>1, <2>2
<1>5. Rooted'
  BY <1>2, <1>3 DEF Rooted
<1>6. ChainWithinGrant'
  <2>1. grants \subseteq grants'
    BY <1>2
  <2>2. Descends(access') /\ Descends(exchanges)
    BY SubsetDescends DEF Chained
  <2> SUFFICES ASSUME NEW r \in Chained', r.family # Empty
               PROVE  \E g \in grants' : /\ g.family = r.family
                                         /\ g.tenant = r.tenant
                                         /\ g.client = r.client
                                         /\ r.scope \subseteq g.scope
    BY DEF ChainWithinGrant
  <2>3. CASE r = y
    BY <1>1, <1>4, <2>3
  <2>4. CASE r \in exchanges
    BY <2>1, <2>2, <2>4, DescendantsWithinGrant
  <2>5. CASE r \in access' \cup refresh'
    BY <2>1, <2>2, <2>5, DescendantsWithinGrant
  <2>6. QED
    BY <1>1, <2>3, <2>4, <2>5 DEF Chained
<1>7. QED
  BY <1>5, <1>6

\* At the start nothing belongs to a family.
LEMMA InitWithinGrant == Init => ChainWithinGrant /\ Rooted
<1> SUFFICES ASSUME Init PROVE ChainWithinGrant /\ Rooted
  OBVIOUS
<1>1. \A r \in access : r.family = Empty
  BY DEF Init
<1>2. \A r \in refresh : r.family = Empty
  BY DEF Init
<1>3. QED
  BY <1>1, <1>2 DEF Init, ChainWithinGrant, Chained, Rooted

\* Every step keeps tenant and client and at most narrows the scope.
LEMMA NextWithinGrant ==
  TypeOK /\ Fresh /\ ChainWithinGrant /\ Rooted /\ [Next]_vars
    => ChainWithinGrant' /\ Rooted'
<1> SUFFICES ASSUME TypeOK, Fresh, ChainWithinGrant, Rooted, [Next]_vars
             PROVE  ChainWithinGrant' /\ Rooted'
  OBVIOUS
<1> DEFINE Quiet == /\ access' \subseteq access /\ refresh' \subseteq refresh
                    /\ exchanges' \subseteq exchanges
                    /\ replays' \subseteq replays /\ grants' = grants
<1>0. ASSUME Quiet PROVE ChainWithinGrant' /\ Rooted'
  <2>1. Descends(access') /\ Descends(refresh') /\ Descends(exchanges')
    BY <1>0, SubsetDescends DEF Chained
  <2>2. QED
    BY <1>0, <2>1, KeepsWithinGrant, SameRootsKept
<1>1. CASE Authorizing
  <2>1. Quiet
    BY <1>1 DEF Authorizing, Authorize, history
  <2>2. QED
    BY <1>0, <2>1
<1>2. CASE Exchanging
  <2>1. PICK c \in Codes, t \in Tenants, k \in Clients, proof \in BOOLEAN,
             new \in Tokens : ExchangeCode(c, t, k, proof, new)
    BY <1>2 DEF Exchanging
  <2>2. PICK r \in codes :
          \/ StartExchange(new, t, k, r.scope, Empty, Empty, c)
          \/ UNCHANGED <<minted, exchanges, grants>>
    BY <2>1 DEF ExchangeCode, CodesWithout
  <2>3. UNCHANGED <<access, refresh, replays>>
    BY <2>1 DEF ExchangeCode, CodesWithout
  <2>4. CASE StartExchange(new, t, k, r.scope, Empty, Empty, c)
    <3>1. Descends(refresh')
      BY <2>3, SubsetDescends DEF Chained
    <3>2. QED
      BY <2>3, <2>4, <3>1, StartWithinGrant
  <2>5. CASE UNCHANGED <<minted, exchanges, grants>>
    BY <1>0, <2>3, <2>5
  <2>6. QED
    BY <2>2, <2>4, <2>5
<1>3. CASE Rotating
  <2>1. PICK tok \in Tokens, t \in Tenants, k \in Clients,
             requested \in SUBSET Scopes, new \in Tokens :
               RotateRefresh(tok, t, k, requested, new)
    BY <1>3 DEF Rotating
  <2>2. PICK r \in refresh :
          /\ r.tenant = t
          /\ refresh' = MarkRevoked(refresh, {d \in refresh : d.token = tok})
          /\ \/ /\ r.client = k
                /\ StartExchange(new, t, k, NarrowedScope(requested, r.scope),
                                 tok, r.family, tok)
             \/ UNCHANGED <<minted, exchanges, grants>>
          /\ UNCHANGED <<access, replays>>
    BY <2>1 DEF RotateRefresh, Usable
  <2>3. Descends(refresh') /\ Descends(access') /\ Descends(exchanges)
    <3>1. {d \in refresh : d.token = tok} \in SUBSET refresh
      OBVIOUS
    <3>2. Descends(refresh')
      BY <2>2, <3>1, MarkDescends
    <3>3. QED
      BY <2>2, <3>2, SubsetDescends DEF Chained
  <2>4. CASE UNCHANGED <<minted, exchanges, grants>>
    BY <2>2, <2>3, <2>4, KeepsWithinGrant, SameRootsKept
  <2>5. CASE r.client = k /\ StartExchange(new, t, k,
                                NarrowedScope(requested, r.scope),
                                tok, r.family, tok)
    <3>1. r \in Chained /\ NarrowedScope(requested, r.scope) \subseteq r.scope
      BY NarrowedIsScope DEF Chained, TypeOK, RefreshRow
    <3>2. QED
      BY <2>2, <2>3, <2>5, <3>1, StartWithinGrant
  <2>6. QED
    BY <2>2, <2>4, <2>5
<1>4. CASE Replaying
  <2>1. PICK tok \in Tokens, t \in Tenants : DetectReplay(tok, t)
    BY <1>4 DEF Replaying
  <2>2. PICK r \in refresh :
          /\ r.tenant = t
          /\ replays' = replays \cup {[tenant |-> t, family |-> r.family]}
    BY <2>1 DEF DetectReplay
  <2>3. UNCHANGED <<access, refresh, exchanges, grants>>
    BY <2>1 DEF DetectReplay, tables, history
  <2>4. r.family # Empty =>
          \E g \in grants : g.family = r.family /\ g.tenant = t
    BY <2>2 DEF ChainWithinGrant, Chained
  <2>5. Rooted'
    BY <2>2, <2>3, <2>4 DEF Rooted
  <2>6. ChainWithinGrant'
    BY <2>3 DEF ChainWithinGrant, Chained
  <2>7. QED
    BY <2>5, <2>6
<1>5. CASE Revoking
  <2>1. PICK p \in replays : RevokeFamily(p)
    BY <1>5 DEF Revoking
  <2>2. UNCHANGED <<exchanges, grants>> /\ replays' \subseteq replays
    BY <2>1 DEF RevokeFamily
  <2>3. Descends(access') /\ Descends(refresh')
    <3>1. CASE p.family = Empty
      BY <2>1, <3>1, SubsetDescends DEF RevokeFamily, Chained
    <3>2. CASE p.family # Empty
      <4>1. RowsOf(p, refresh) \in SUBSET refresh
            /\ RowsOf(p, access) \in SUBSET access
        BY DEF RowsOf
      <4>2. QED
        BY <2>1, <3>2, <4>1, MarkDescends DEF RevokeFamily
    <3>3. QED
      BY <3>1, <3>2
  <2>4. Descends(exchanges')
    BY <2>2, SubsetDescends DEF Chained
  <2>5. QED
    BY <2>2, <2>3, <2>4, KeepsWithinGrant, SameRootsKept
<1>6. CASE Issuing
  <2>1. PICK x \in exchanges : InsertAccess(x) \/ InsertRefresh(x)
    BY <1>6 DEF Issuing
  <2>2. x \in Exchange /\ x \in Chained
    BY DEF TypeOK, Chained
  <2>3. UNCHANGED <<replays, grants>>
    BY <2>1 DEF InsertAccess, InsertRefresh, history
  <2>4. Descends(access')
    BY <2>1, <2>2 DEF InsertAccess, InsertRefresh, Descends, Kin, Chained
  <2>5. Descends(refresh')
    BY <2>1, <2>2 DEF InsertAccess, InsertRefresh, Descends, Kin, Chained
  <2>6. Descends(exchanges')
    BY <2>1, <2>2 DEF InsertAccess, InsertRefresh, Descends, Kin, Chained,
                      Exchange
  <2>7. QED
    BY <2>3, <2>4, <2>5, <2>6, KeepsWithinGrant, SameRootsKept
<1>7. CASE Failing
  <2>1. Quiet
    BY <1>7 DEF Failing, FailExchange, FailRevoke, SweepFail, tables, history
  <2>2. QED
    BY <1>0, <2>1
<1>8. CASE Crash
  <2>1. Quiet
    BY <1>8 DEF Crash, tables, history
  <2>2. QED
    BY <1>0, <2>1
<1>9. CASE Sweeping
  <2>1. Quiet
    BY <1>9 DEF Sweeping, SweepCodes, SweepAccess, SweepRefresh, Purge, history
  <2>2. QED
    BY <1>0, <2>1
<1>10. CASE Tick
  <2>1. Quiet
    BY <1>10 DEF Tick, tables, history
  <2>2. QED
    BY <1>0, <2>1
<1>11. CASE UNCHANGED vars
  <2>1. Quiet
    BY <1>11 DEF vars
  <2>2. QED
    BY <1>0, <2>1
<1>12. QED
  BY <1>1, <1>2, <1>3, <1>4, <1>5, <1>6, <1>7, <1>8, <1>9, <1>10, <1>11
     DEF Next

\* No rotation, retry or revocation moves a chain to another tenant or client
\* or widens its scope beyond the grant it started from.
THEOREM ScopeNeverWidens == Spec => []ChainWithinGrant
<1>1. Init => TypeOK /\ Fresh /\ ChainWithinGrant /\ Rooted
  BY InitTyped, InitFresh, InitWithinGrant
<1>2. TypeOK /\ Fresh /\ ChainWithinGrant /\ Rooted /\ [Next]_vars
        => (TypeOK /\ Fresh /\ ChainWithinGrant /\ Rooted)'
  BY NextTyped, NextFresh, NextWithinGrant
<1>3. QED
  BY <1>1, <1>2, PTL DEF Spec
-----------------------------------------------------------------------------
\* Revocation is final.

\* Fewer live rows and fewer exchanges cannot bring a settled family back.
LEMMA FewerKeepsSettled ==
  ASSUME SettledStaysDead, settled' = settled,
         \A r \in access' \cup refresh' : Live(r) => r \in access \cup refresh,
         exchanges' \subseteq exchanges
  PROVE  SettledStaysDead'
  BY DEF SettledStaysDead, Live

\* Of a marked access table only the rows not marked can be live.
LEMMA MarkedAccessRevoked ==
  ASSUME NEW table \in SUBSET AccessRow, NEW rows \in SUBSET table,
         NEW q \in MarkRevoked(table, rows), Live(q)
  PROVE  q \in table \ rows
  BY DEF MarkRevoked, AccessRow, Live

\* A new exchange belongs to a family that is not settled: a new one, or one
\* that had a live token a moment ago.
LEMMA StartKeepsSettled ==
  ASSUME Fresh, SettledStaysDead, settled' = settled, access' = access,
         NEW new, NEW t, NEW k, NEW s, NEW rotated, NEW family, NEW source,
         StartExchange(new, t, k, s, rotated, family, source),
         family = Empty \/ family \notin settled,
         \A r \in refresh' : Live(r) => r \in refresh
  PROVE  SettledStaysDead'
<1> DEFINE chain == IF family = Empty THEN new ELSE family
           y == [stage |-> "access", token |-> new, tenant |-> t, client |-> k,
                 scope |-> s, family |-> chain, rotated |-> rotated,
                 issued |-> now]
<1>1. exchanges' = exchanges \cup {y} /\ y.family = chain
  BY DEF StartExchange, ChainOf
<1>2. chain \notin settled
  BY DEF StartExchange, ChainOf, Fresh
<1> HIDE DEF y, chain
<1>3. QED
  BY <1>1, <1>2 DEF SettledStaysDead, Live

\* No step revives a settled family.
LEMMA NextSettled ==
  TypeOK /\ Fresh /\ ChainWithinGrant /\ Rooted /\ SettledStaysDead
    /\ [Next]_vars => SettledStaysDead'
<1> SUFFICES ASSUME TypeOK, Fresh, ChainWithinGrant, Rooted, SettledStaysDead,
                    [Next]_vars
             PROVE  SettledStaysDead'
  OBVIOUS
<1>1. CASE Authorizing
  BY <1>1, FewerKeepsSettled DEF Authorizing, Authorize, history
<1>2. CASE Exchanging
  <2>1. PICK c \in Codes, t \in Tenants, k \in Clients, proof \in BOOLEAN,
             new \in Tokens : ExchangeCode(c, t, k, proof, new)
    BY <1>2 DEF Exchanging
  <2>2. PICK r \in codes :
          \/ StartExchange(new, t, k, r.scope, Empty, Empty, c)
          \/ UNCHANGED <<minted, exchanges, grants>>
    BY <2>1 DEF ExchangeCode, CodesWithout
  <2>3. UNCHANGED <<access, refresh, settled>>
    BY <2>1 DEF ExchangeCode, CodesWithout
  <2>4. CASE StartExchange(new, t, k, r.scope, Empty, Empty, c)
    BY <2>3, <2>4, StartKeepsSettled
  <2>5. CASE UNCHANGED <<minted, exchanges, grants>>
    BY <2>3, <2>5, FewerKeepsSettled
  <2>6. QED
    BY <2>2, <2>4, <2>5
<1>3. CASE Rotating
  <2>1. PICK tok \in Tokens, t \in Tenants, k \in Clients,
             requested \in SUBSET Scopes, new \in Tokens :
               RotateRefresh(tok, t, k, requested, new)
    BY <1>3 DEF Rotating
  <2>2. PICK r \in refresh :
          /\ Live(r)
          /\ refresh' = MarkRevoked(refresh, {d \in refresh : d.token = tok})
          /\ \/ StartExchange(new, t, k, NarrowedScope(requested, r.scope),
                              tok, r.family, tok)
             \/ UNCHANGED <<minted, exchanges, grants>>
          /\ UNCHANGED <<access, settled>>
    BY <2>1 DEF RotateRefresh, Usable, Live
  <2>3. \A q \in refresh' : Live(q) => q \in refresh
    BY <2>2, MarkLeavesLive DEF TypeOK
  <2>4. CASE UNCHANGED <<minted, exchanges, grants>>
    BY <2>2, <2>3, <2>4, FewerKeepsSettled
  <2>5. CASE StartExchange(new, t, k, NarrowedScope(requested, r.scope),
                           tok, r.family, tok)
    <3>1. r.family \notin settled
      BY <2>2 DEF SettledStaysDead
    <3>2. QED
      BY <2>2, <2>3, <2>5, <3>1, StartKeepsSettled
  <2>6. QED
    BY <2>2, <2>4, <2>5
<1>4. CASE Replaying
  BY <1>4, FewerKeepsSettled DEF Replaying, DetectReplay, tables, history
<1>5. CASE Revoking
  <2>1. PICK p \in replays : RevokeFamily(p)
    BY <1>5 DEF Revoking
  <2>2. CASE p.family = Empty
    BY <2>1, <2>2, FewerKeepsSettled DEF RevokeFamily
  <2>3. CASE p.family # Empty
    <3>1. /\ refresh' = MarkRevoked(refresh, RowsOf(p, refresh))
          /\ access' = MarkRevoked(access, RowsOf(p, access))
          /\ exchanges' = exchanges
          /\ settled' \subseteq settled \cup {p.family}
          /\ p.family \in settled' \ settled =>
               \A x \in exchanges : x.family # p.family
      BY <2>1, <2>3 DEF RevokeFamily
    <3>2. RowsOf(p, refresh) \in SUBSET refresh
          /\ RowsOf(p, access) \in SUBSET access
      BY DEF RowsOf
    <3>3. \A r \in access \cup refresh :
            r.family = p.family => r.tenant = p.tenant
      BY <2>3 DEF ChainWithinGrant, Rooted, Chained
    <3>4. \A q \in refresh' : Live(q) => q \in refresh /\ q.family # p.family
      BY <3>1, <3>2, <3>3, MarkLeavesLive DEF TypeOK, RowsOf
    <3>5. \A q \in access' : Live(q) => q \in access /\ q.family # p.family
      BY <3>1, <3>2, <3>3, MarkedAccessRevoked DEF TypeOK, RowsOf
    <3>6. \A r \in access' \cup refresh' : r.family \in settled' => ~Live(r)
      BY <3>1, <3>4, <3>5 DEF SettledStaysDead
    <3>7. \A x \in exchanges' : x.family \notin settled'
      BY <3>1 DEF SettledStaysDead
    <3>8. QED
      BY <3>6, <3>7 DEF SettledStaysDead, Live
  <2>4. QED
    BY <2>2, <2>3
<1>6. CASE Issuing
  <2>1. PICK x \in exchanges : InsertAccess(x) \/ InsertRefresh(x)
    BY <1>6 DEF Issuing
  <2>2. x \in Exchange /\ x.family \notin settled
    BY DEF TypeOK, SettledStaysDead
  <2>3. settled' = settled
    BY <2>1 DEF InsertAccess, InsertRefresh, history
  <2>4. \A y \in exchanges' : y.family \notin settled
    BY <2>1, <2>2 DEF InsertAccess, InsertRefresh, SettledStaysDead, Exchange
  <2>5. \A r \in access' : r.family \in settled => ~Live(r)
    BY <2>1, <2>2 DEF InsertAccess, InsertRefresh, SettledStaysDead
  <2>6. \A r \in refresh' : r.family \in settled => ~Live(r)
    BY <2>1, <2>2 DEF InsertAccess, InsertRefresh, SettledStaysDead
  <2>7. QED
    BY <2>3, <2>4, <2>5, <2>6 DEF SettledStaysDead, Live
<1>7. CASE Failing
  BY <1>7, FewerKeepsSettled
     DEF Failing, FailExchange, FailRevoke, SweepFail, tables, history
<1>8. CASE Crash
  BY <1>8, FewerKeepsSettled DEF Crash, tables, history
<1>9. CASE Sweeping
  BY <1>9, FewerKeepsSettled
     DEF Sweeping, SweepCodes, SweepAccess, SweepRefresh, Purge, history
<1>10. CASE Tick
  BY <1>10, FewerKeepsSettled DEF Tick, tables, history
<1>11. CASE UNCHANGED vars
  BY <1>11, FewerKeepsSettled DEF vars
<1>12. QED
  BY <1>1, <1>2, <1>3, <1>4, <1>5, <1>6, <1>7, <1>8, <1>9, <1>10, <1>11
     DEF Next

\* A family that was revoked while none of its exchanges was in flight stays
\* revoked for ever: no row of it is live again and no exchange starts in it.
THEOREM RevocationIsFinal == Spec => []SettledStaysDead
<1> DEFINE IInv == /\ TypeOK /\ Fresh /\ ChainWithinGrant /\ Rooted
                   /\ SettledStaysDead
<1>1. Init => IInv
  BY InitTyped, InitFresh, InitWithinGrant DEF Init, SettledStaysDead
<1>2. IInv /\ [Next]_vars => IInv'
  BY NextTyped, NextFresh, NextWithinGrant, NextSettled
<1>3. IInv => SettledStaysDead
  OBVIOUS
<1>4. QED
  BY <1>1, <1>2, <1>3, PTL DEF Spec
-----------------------------------------------------------------------------
\* A credential is spent once.

\* A table that has only lost and marked rows.
Worn(table) ==
    /\ \A q \in table : \E d \in refresh : /\ q.token = d.token
                                           /\ q.rotated = d.rotated
    /\ \A q \in table : Live(q) => q \in refresh
    /\ \A q, r \in table : q.token = r.token => q = r

\* A DELETE wears a table.
LEMMA SubsetWorn ==
  ASSUME Unspent, NEW table \in SUBSET refresh
  PROVE  Worn(table)
  BY DEF Unspent, Worn

\* So does an UPDATE that revokes.
LEMMA MarkWorn ==
  ASSUME TypeOK, Unspent, NEW rows \in SUBSET refresh
  PROVE  Worn(MarkRevoked(refresh, rows))
<1>1. \A q \in MarkRevoked(refresh, rows) :
        \E d \in refresh : /\ q.token = d.token /\ q.rotated = d.rotated
                           /\ q = IF d \in rows
                                    THEN [d EXCEPT !.revoked = TRUE] ELSE d
  BY DEF MarkRevoked, TypeOK, RefreshRow
<1>2. \A q \in MarkRevoked(refresh, rows) : Live(q) => q \in refresh
  BY MarkLeavesLive DEF TypeOK
<1>3. ASSUME NEW q \in MarkRevoked(refresh, rows),
             NEW r \in MarkRevoked(refresh, rows), q.token = r.token
      PROVE  q = r
  <2>1. PICK d \in refresh : /\ q.token = d.token
                             /\ q = IF d \in rows
                                      THEN [d EXCEPT !.revoked = TRUE] ELSE d
    BY <1>1
  <2>2. PICK e \in refresh : /\ r.token = e.token
                             /\ r = IF e \in rows
                                      THEN [e EXCEPT !.revoked = TRUE] ELSE e
    BY <1>1
  <2>3. d = e
    BY <1>3, <2>1, <2>2 DEF Unspent
  <2>4. QED
    BY <2>1, <2>2, <2>3
<1>4. QED
  BY <1>1, <1>2, <1>3 DEF Worn

\* What only loses and marks rows, and starts nothing, spends nothing twice.
LEMMA FewerKeepsSpent ==
  ASSUME SpentOnce, Unspent, codes' \subseteq codes,
         exchanges' \subseteq exchanges, grants' = grants, minted' = minted,
         Worn(refresh')
  PROVE  SpentOnce' /\ Unspent'
<1>1. \A a \in refresh' \cup exchanges' : \E d \in refresh \cup exchanges :
        a.token = d.token /\ a.rotated = d.rotated
  BY DEF Worn
<1>2. SpentOnce'
  BY <1>1 DEF SpentOnce
<1>3. \A r \in {q \in refresh' : Live(q)} \cup exchanges' :
        r \in {q \in refresh : Live(q)} \cup exchanges
  BY DEF Worn
<1>4. /\ \A x, y \in exchanges' : x.token = y.token => x = y
      /\ \A r \in refresh', x \in exchanges' : r.token # x.token
      /\ \A c \in codes' : c.code \in minted' /\ \A g \in grants' : g.source # c.code
      /\ \A g \in grants' : g.source \in minted'
  BY DEF Unspent, Worn
<1>5. \A a \in refresh' \cup exchanges' : a.rotated \in minted' \cup {Empty}
  BY <1>1 DEF Unspent
<1>6. \A r \in {q \in refresh' : Live(q)} \cup exchanges' :
        /\ \A a \in refresh' \cup exchanges' : a.rotated # r.token
        /\ \A g \in grants' : g.source # r.token
  BY <1>1, <1>3 DEF Unspent
<1>7. QED
  BY <1>2, <1>4, <1>5, <1>6 DEF Unspent, Worn, Live

\* Starting an exchange is the one moment at which something is spent.  What
\* it spends had not been, and is not spendable any more.
LEMMA StartKeepsSpent ==
  ASSUME TypeOK, Fresh, SpentOnce, Unspent,
         NEW new, NEW t, NEW k, NEW s, NEW rotated, NEW family,
         NEW source \in minted,
         StartExchange(new, t, k, s, rotated, family, source),
         rotated \in {Empty, source},
         \A a \in refresh \cup exchanges : a.rotated # source,
         \A g \in grants : g.source # source,
         codes' \subseteq codes, \A c \in codes' : c.code # source,
         \A x \in exchanges : x.token # source,
         \A q \in refresh' : Live(q) => q.token # source,
         Worn(refresh')
  PROVE  SpentOnce' /\ Unspent'
<1> DEFINE chain == IF family = Empty THEN new ELSE family
           y == [stage |-> "access", token |-> new, tenant |-> t, client |-> k,
                 scope |-> s, family |-> chain, rotated |-> rotated,
                 issued |-> now]
           g0 == [family |-> chain, source |-> source, tenant |-> t,
                  client |-> k, scope |-> s]
<1> USE IdsAssumption
<1>1. exchanges' = exchanges \cup {y} /\ y.token = new /\ y.rotated = rotated
  BY DEF StartExchange, ChainOf
<1>2. g0.source = source /\ grants' \subseteq grants \cup {g0}
  BY DEF StartExchange, ChainOf
<1>3. /\ new \in Tokens /\ new \notin minted /\ new # Empty
      /\ minted' = minted \cup {new}
  BY DEF StartExchange, ChainOf
<1> HIDE DEF y, g0
<1>4. \A a \in refresh' \cup exchanges :
        /\ \E d \in refresh \cup exchanges : a.token = d.token
                                             /\ a.rotated = d.rotated
        /\ a.token \in minted /\ a.rotated \in minted \cup {Empty}
        /\ a.rotated # source
  BY DEF Worn, Fresh, Chained, Unspent
<1>5. SpentOnce'
  <2>1. \A a, b \in refresh' \cup exchanges' :
          a.rotated # Empty /\ a.rotated = b.rotated => a.token = b.token
    BY <1>1, <1>4 DEF SpentOnce
  <2>2. \A g, h \in grants' : g.source = h.source => g = h
    BY <1>2 DEF SpentOnce
  <2>3. QED
    BY <2>1, <2>2 DEF SpentOnce
<1>6. /\ \A x, z \in exchanges' : x.token = z.token => x = z
      /\ \A r \in refresh', x \in exchanges' : r.token # x.token
  BY <1>1, <1>3, <1>4 DEF Unspent, Worn
<1>7. \A c \in codes' : c.code \in minted' /\ \A g \in grants' : g.source # c.code
  BY <1>2, <1>3 DEF Unspent
<1>8. /\ \A a \in refresh' \cup exchanges' : a.rotated \in minted' \cup {Empty}
      /\ \A g \in grants' : g.source \in minted'
  BY <1>1, <1>2, <1>3, <1>4 DEF Unspent
<1>9. ASSUME NEW r \in {q \in refresh' : Live(q)} \cup exchanges'
      PROVE  /\ \A a \in refresh' \cup exchanges' : a.rotated # r.token
             /\ \A g \in grants' : g.source # r.token
  <2>1. CASE r = y
    <3>1. \A a \in refresh' \cup exchanges' : a.rotated # new
      BY <1>1, <1>3, <1>4
    <3>2. \A g \in grants' : g.source # new
      BY <1>2, <1>3 DEF Unspent
    <3>3. QED
      BY <1>1, <2>1, <3>1, <3>2
  <2>2. CASE r # y
    <3>1. r \in {q \in refresh : Live(q)} \cup exchanges /\ r.token # source
      BY <1>1, <2>2 DEF Worn
    <3>2. r.token # Empty
      BY <3>1 DEF TypeOK, RefreshRow, Exchange
    <3>3. \A a \in refresh' \cup exchanges' : a.rotated # r.token
      BY <1>1, <1>4, <3>1, <3>2 DEF Unspent
    <3>4. \A g \in grants' : g.source # r.token
      BY <1>2, <3>1 DEF Unspent
    <3>5. QED
      BY <3>3, <3>4
  <2>3. QED
    BY <2>1, <2>2
<1>10. QED
  BY <1>5, <1>6, <1>7, <1>8, <1>9 DEF Unspent, Worn, Live

\* At the start nothing has been spent.
LEMMA InitSpent == Init => SpentOnce /\ Unspent
<1> SUFFICES ASSUME Init PROVE SpentOnce /\ Unspent
  OBVIOUS
<1> USE IdsAssumption
<1>1. /\ exchanges = {} /\ grants = {} /\ codes = {}
      /\ \A r \in refresh : r.rotated = Empty
  BY DEF Init
<1>2. \A r, q \in refresh : r.token = q.token => r = q
  <2>1. PICK t \in Tenants, k \in Clients, s \in SUBSET Scopes :
          refresh = {[token |-> l, tenant |-> t, client |-> k, scope |-> s,
                      family |-> Empty, rotated |-> Empty, revoked |-> FALSE,
                      expires |-> RefreshTTL] : l \in Legacy}
    BY DEF Init
  <2> DEFINE row(l) == [token |-> l, tenant |-> t, client |-> k, scope |-> s,
                        family |-> Empty, rotated |-> Empty, revoked |-> FALSE,
                        expires |-> RefreshTTL]
  <2>2. \A r \in refresh : r = row(r.token)
    BY <2>1
  <2> HIDE DEF row
  <2>3. QED
    BY <2>2
<1>3. \A r \in refresh : r.token # Empty
  BY DEF Init
<1>4. QED
  BY <1>1, <1>2, <1>3 DEF SpentOnce, Unspent

\* Every step spends a credential that has not been spent before.
LEMMA NextSpent ==
  TypeOK /\ Fresh /\ SpentOnce /\ Unspent /\ [Next]_vars
    => SpentOnce' /\ Unspent'
<1> SUFFICES ASSUME TypeOK, Fresh, SpentOnce, Unspent, [Next]_vars
             PROVE  SpentOnce' /\ Unspent'
  OBVIOUS
<1> USE IdsAssumption
<1> DEFINE Quiet == /\ codes' \subseteq codes /\ refresh' \subseteq refresh
                    /\ exchanges' \subseteq exchanges
                    /\ grants' = grants /\ minted' = minted
<1>0. ASSUME Quiet PROVE SpentOnce' /\ Unspent'
  BY <1>0, SubsetWorn, FewerKeepsSpent
<1>1. CASE Authorizing
  <2>1. PICK c \in Codes, t \in Tenants, k \in Clients,
             requested \in SUBSET Scopes, user \in SUBSET Scopes :
               Authorize(c, t, k, requested, user)
    BY <1>1 DEF Authorizing
  <2>2. /\ UNCHANGED <<refresh, exchanges, grants>>
        /\ minted \subseteq minted'
        /\ c \notin minted /\ c \in minted'
        /\ \A d \in codes' : d \in codes \/ d.code = c
    BY <2>1 DEF Authorize, history
  <2>3. QED
    BY <2>2 DEF SpentOnce, Unspent, Live
<1>2. CASE Exchanging
  <2>1. PICK c \in Codes, t \in Tenants, k \in Clients, proof \in BOOLEAN,
             new \in Tokens : ExchangeCode(c, t, k, proof, new)
    BY <1>2 DEF Exchanging
  <2>2. PICK r \in codes :
          /\ r.code = c
          /\ codes' = {d \in codes : d.code # c}
          /\ \/ StartExchange(new, t, k, r.scope, Empty, Empty, c)
             \/ UNCHANGED <<minted, exchanges, grants>>
          /\ refresh' = refresh
    BY <2>1 DEF ExchangeCode, CodesWithout
  <2>3. CASE UNCHANGED <<minted, exchanges, grants>>
    BY <1>0, <2>2, <2>3
  <2>4. CASE StartExchange(new, t, k, r.scope, Empty, Empty, c)
    <3>1. /\ c \in minted /\ \A g \in grants : g.source # c
          /\ \A d \in codes' : d.code # c
      BY <2>2 DEF Unspent
    <3>2. /\ \A a \in refresh \cup exchanges : a.rotated \in Families
          /\ \A a \in refresh \cup exchanges : a.token \in Tokens
      BY DEF TypeOK, RefreshRow, Exchange
    <3>3. c # Empty /\ c \notin Tokens /\ c \notin Families
      BY DEF Families
    <3>4. Worn(refresh')
      BY <2>2, SubsetWorn
    <3>5. QED
      BY <2>2, <2>4, <3>1, <3>2, <3>3, <3>4, StartKeepsSpent
  <2>5. QED
    BY <2>2, <2>3, <2>4
<1>3. CASE Rotating
  <2>1. PICK tok \in Tokens, t \in Tenants, k \in Clients,
             requested \in SUBSET Scopes, new \in Tokens :
               RotateRefresh(tok, t, k, requested, new)
    BY <1>3 DEF Rotating
  <2>2. PICK r \in refresh :
          /\ r.token = tok /\ Live(r)
          /\ refresh' = MarkRevoked(refresh, {d \in refresh : d.token = tok})
          /\ \/ StartExchange(new, t, k, NarrowedScope(requested, r.scope),
                              tok, r.family, tok)
             \/ UNCHANGED <<minted, exchanges, grants>>
          /\ codes' = codes
    BY <2>1 DEF RotateRefresh, Usable, Live
  <2>3. Worn(refresh')
    BY <2>2, MarkWorn
  <2>4. CASE UNCHANGED <<minted, exchanges, grants>>
    BY <2>2, <2>3, <2>4, FewerKeepsSpent
  <2>5. CASE StartExchange(new, t, k, NarrowedScope(requested, r.scope),
                           tok, r.family, tok)
    <3>1. /\ tok \in minted
          /\ \A a \in refresh \cup exchanges : a.rotated # tok
          /\ \A g \in grants : g.source # tok
          /\ \A x \in exchanges : x.token # tok
      BY <2>2 DEF Unspent, Fresh, Chained
    <3>2. \A q \in refresh' : Live(q) => q.token # tok
      BY <2>2, MarkLeavesLive DEF TypeOK
    <3>3. \A c \in codes' : c.code # tok
      BY <2>2 DEF TypeOK, CodeRow
    <3>4. QED
      BY <2>2, <2>3, <2>5, <3>1, <3>2, <3>3, StartKeepsSpent
  <2>6. QED
    BY <2>2, <2>4, <2>5
<1>4. CASE Replaying
  <2>1. Quiet
    BY <1>4 DEF Replaying, DetectReplay, tables, history
  <2>2. QED
    BY <1>0, <2>1
<1>5. CASE Revoking
  <2>1. PICK p \in replays : RevokeFamily(p)
    BY <1>5 DEF Revoking
  <2>2. UNCHANGED <<codes, exchanges, grants, minted>>
    BY <2>1 DEF RevokeFamily
  <2>3. Worn(refresh')
    <3>1. CASE p.family = Empty
      BY <2>1, <3>1, SubsetWorn DEF RevokeFamily
    <3>2. CASE p.family # Empty
      <4>1. RowsOf(p, refresh) \in SUBSET refresh
        BY DEF RowsOf
      <4>2. QED
        BY <2>1, <3>2, <4>1, MarkWorn DEF RevokeFamily
    <3>3. QED
      BY <3>1, <3>2
  <2>4. QED
    BY <2>2, <2>3, FewerKeepsSpent
<1>6. CASE Issuing
  <2>1. PICK x \in exchanges : InsertAccess(x) \/ InsertRefresh(x)
    BY <1>6 DEF Issuing
  <2>2. x \in Exchange
    BY DEF TypeOK
  <2>3. CASE InsertAccess(x)
    <3> DEFINE y == [x EXCEPT !.stage = "refresh"]
    <3>1. /\ exchanges' = (exchanges \ {x}) \cup {y}
          /\ y.token = x.token /\ y.rotated = x.rotated
      BY <2>2, <2>3 DEF InsertAccess, Exchange
    <3>2. UNCHANGED <<codes, refresh, minted, grants>>
      BY <2>3 DEF InsertAccess, history
    <3> HIDE DEF y
    <3>3. \A a \in exchanges' : \E d \in exchanges :
            a.token = d.token /\ a.rotated = d.rotated
      BY <3>1
    <3>4. \A a, b \in exchanges' : a.token = b.token => a = b
      BY <3>1 DEF Unspent
    <3>5. SpentOnce'
      BY <3>2, <3>3 DEF SpentOnce
    <3>6. Unspent'
      BY <3>2, <3>3, <3>4 DEF Unspent, Live
    <3>7. QED
      BY <3>5, <3>6
  <2>4. CASE InsertRefresh(x)
    <3> DEFINE row == [token |-> x.token, tenant |-> x.tenant,
                       client |-> x.client, scope |-> x.scope,
                       family |-> x.family, rotated |-> x.rotated,
                       revoked |-> FALSE, expires |-> x.issued + RefreshTTL]
    <3>1. /\ refresh' = refresh \cup {row}
          /\ row.token = x.token /\ row.rotated = x.rotated
          /\ exchanges' = exchanges \ {x}
      BY <2>4 DEF InsertRefresh
    <3>2. UNCHANGED <<codes, minted, grants>>
      BY <2>4 DEF InsertRefresh, history
    <3> HIDE DEF row
    <3>3. \A a \in refresh' \cup exchanges' : \E d \in refresh \cup exchanges :
            a.token = d.token /\ a.rotated = d.rotated
      BY <3>1
    <3>4. SpentOnce'
      BY <3>2, <3>3 DEF SpentOnce
    <3>5. \A r, q \in refresh' : r.token = q.token => r = q
      BY <3>1 DEF Unspent
    <3>6. \A r \in refresh', y \in exchanges' : r.token # y.token
      BY <3>1 DEF Unspent
    <3>7. \A r \in {q \in refresh' : Live(q)} \cup exchanges' :
            /\ \A a \in refresh' \cup exchanges' : a.rotated # r.token
            /\ \A g \in grants' : g.source # r.token
      <4>1. \A r \in {q \in refresh' : Live(q)} \cup exchanges' :
              \E d \in {q \in refresh : Live(q)} \cup exchanges :
                 r.token = d.token
        BY <3>1
      <4>2. QED
        BY <3>2, <3>3, <4>1 DEF Unspent
    <3>8. QED
      BY <3>1, <3>2, <3>3, <3>4, <3>5, <3>6, <3>7 DEF Unspent, Live
  <2>5. QED
    BY <2>1, <2>3, <2>4
<1>7. CASE Failing
  <2>1. Quiet
    BY <1>7 DEF Failing, FailExchange, FailRevoke, SweepFail, tables, history
  <2>2. QED
    BY <1>0, <2>1
<1>8. CASE Crash
  <2>1. Quiet
    BY <1>8 DEF Crash, tables, history
  <2>2. QED
    BY <1>0, <2>1
<1>9. CASE Sweeping
  <2>1. Quiet
    BY <1>9 DEF Sweeping, SweepCodes, SweepAccess, SweepRefresh, Purge, history
  <2>2. QED
    BY <1>0, <2>1
<1>10. CASE Tick
  <2>1. Quiet
    BY <1>10 DEF Tick, tables, history
  <2>2. QED
    BY <1>0, <2>1
<1>11. CASE UNCHANGED vars
  <2>1. Quiet
    BY <1>11 DEF vars
  <2>2. QED
    BY <1>0, <2>1
<1>12. QED
  BY <1>1, <1>2, <1>3, <1>4, <1>5, <1>6, <1>7, <1>8, <1>9, <1>10, <1>11
     DEF Next

\* No code starts two families and no refresh token is rotated twice, with a
\* family or without one.
THEOREM SpentAtMostOnce == Spec => []SpentOnce
<1> DEFINE IInv == TypeOK /\ Fresh /\ SpentOnce /\ Unspent
<1>1. Init => IInv
  BY InitTyped, InitFresh, InitSpent
<1>2. IInv /\ [Next]_vars => IInv'
  BY NextTyped, NextFresh, NextSpent
<1>3. IInv => SpentOnce
  OBVIOUS
<1>4. QED
  BY <1>1, <1>2, <1>3, PTL DEF Spec

-----------------------------------------------------------------------------
\* What cleanups and revocations leave alone.

\* A cleanup compares with a moment that has passed.
CutoffPassed == sweep.cutoff <= now

\* Time goes on while a cleanup is under way.
LEMMA NextCutoff == TypeOK /\ CutoffPassed /\ [Next]_vars => CutoffPassed'
<1> SUFFICES ASSUME TypeOK, CutoffPassed, [Next]_vars PROVE CutoffPassed'
  OBVIOUS
<1>1. now \in Nat /\ sweep.cutoff \in Nat
  BY DEF TypeOK
<1>2. CASE UNCHANGED <<sweep, now>>
  BY <1>2 DEF CutoffPassed
<1>3. CASE Tick
  BY <1>1, <1>3 DEF Tick, CutoffPassed
<1>4. CASE SweepCodes
  BY <1>1, <1>4 DEF SweepCodes, CutoffPassed
<1>5. CASE SweepAccess
  BY <1>1, <1>5 DEF SweepAccess, CutoffPassed, TypeOK
<1>6. CASE sweep' = SweepIdle /\ UNCHANGED now
  BY <1>1, <1>6 DEF SweepIdle, CutoffPassed
<1>7. UNCHANGED <<sweep, now>> \/ Tick \/ SweepCodes \/ SweepAccess
        \/ (sweep' = SweepIdle /\ UNCHANGED now)
  BY DEF Next, vars, Authorizing, Authorize, Exchanging, ExchangeCode,
         Rotating, RotateRefresh, Replaying, DetectReplay, Revoking,
         RevokeFamily, Issuing, InsertAccess, InsertRefresh, Failing,
         FailExchange, FailRevoke, SweepFail, Crash, Sweeping, SweepRefresh
<1>8. QED
  BY <1>2, <1>3, <1>4, <1>5, <1>6, <1>7

\* A DELETE with such a cutoff takes rows that have expired.
LEMMA PurgeSpares ==
  ASSUME TypeOK, CutoffPassed, NEW table, NEW r \in table, r.expires \in Nat,
         NEW cutoff \in Nat, cutoff <= now
  PROVE  Expired(r) \/ r \in Purge(table, cutoff)
  BY DEF TypeOK, Purge, Expired

\* No step of the cleanup takes a code, an access token or a refresh token,
\* spent ones included, before its time (CleanupExpired).
THEOREM CleanupSparesRows == Spec => SweepSparesUnexpired
<1> DEFINE Spared == sweep' # sweep =>
             /\ \A r \in codes : Expired(r) \/ r \in codes'
             /\ \A r \in access : Expired(r) \/ r \in access'
             /\ \A r \in refresh : Expired(r) \/ r \in refresh'
<1>1. Init => CutoffPassed
  BY DEF Init, SweepIdle, CutoffPassed
<1>2. ASSUME TypeOK, CutoffPassed, [Next]_vars PROVE [Spared]_vars
  <2>1. /\ sweep.cutoff \in Nat /\ now \in Nat
        /\ \A r \in codes \cup access \cup refresh : r.expires \in Nat
    BY <1>2 DEF TypeOK, CodeRow, AccessRow, RefreshRow
  <2>2. CASE UNCHANGED tables
    BY <2>2 DEF tables
  <2>3. CASE SweepCodes
    BY <1>2, <2>1, <2>3, PurgeSpares DEF SweepCodes
  <2>4. CASE SweepAccess
    BY <1>2, <2>1, <2>4, PurgeSpares DEF SweepAccess, CutoffPassed
  <2>5. CASE SweepRefresh
    BY <1>2, <2>1, <2>5, PurgeSpares DEF SweepRefresh, CutoffPassed
  <2>6. UNCHANGED sweep \/ UNCHANGED tables
          \/ SweepCodes \/ SweepAccess \/ SweepRefresh
    BY <1>2 DEF Next, vars, tables, Authorizing, Authorize, Exchanging,
         ExchangeCode, Rotating, RotateRefresh, Replaying, DetectReplay,
         Revoking, RevokeFamily, Issuing, InsertAccess, InsertRefresh, Failing,
         FailExchange, FailRevoke, SweepFail, Crash, Sweeping, Tick
  <2>7. QED
    BY <2>2, <2>3, <2>4, <2>5, <2>6
<1>3. QED
  BY <1>1, <1>2, NextCutoff, TypeCorrect, PTL DEF Spec, SweepSparesUnexpired

\* An access token has one row, and one that is still to be written has none.
OneRowEach ==
    /\ \A a, b \in access : a.token = b.token => a = b
    /\ \A a \in access, x \in exchanges :
         x.stage = "access" => a.token # x.token

\* What an UPDATE leaves of the access rows: each with its token, revoked if
\* the UPDATE was about it.
LEMMA MarkedRows ==
  ASSUME TypeOK, NEW rows \in SUBSET access
  PROVE  \A q \in MarkRevoked(access, rows) : \E d \in access :
           /\ q.token = d.token
           /\ q = IF d \in rows THEN [d EXCEPT !.revoked = TRUE] ELSE d
  BY DEF MarkRevoked, TypeOK, AccessRow

\* A table of rows that were there, marked or not, and handlers that were
\* there keep this.
LEMMA FewerKeepsOneRow ==
  ASSUME OneRowEach, exchanges' \subseteq exchanges, access' \subseteq access
  PROVE  OneRowEach'
  BY DEF OneRowEach

\* Every step keeps it: new strings are new, and a string is inserted once.
LEMMA NextOneRow ==
  TypeOK /\ Fresh /\ Unspent /\ OneRowEach /\ [Next]_vars => OneRowEach'
<1> SUFFICES ASSUME TypeOK, Fresh, Unspent, OneRowEach, [Next]_vars
             PROVE  OneRowEach'
  OBVIOUS
<1>1. ASSUME UNCHANGED access,
             NEW new \in Tokens, NEW t, NEW k, NEW sc, NEW rotated, NEW family,
             NEW source, StartExchange(new, t, k, sc, rotated, family, source)
      PROVE  OneRowEach'
  BY <1>1 DEF StartExchange, OneRowEach, Fresh, Chained
<1>2. CASE Exchanging
  <2> SUFFICES ASSUME NEW c \in Codes, NEW t \in Tenants, NEW k \in Clients,
                      NEW proof \in BOOLEAN, NEW new \in Tokens,
                      ExchangeCode(c, t, k, proof, new)
               PROVE  OneRowEach'
    BY <1>2 DEF Exchanging
  <2>1. QED
    BY <1>1, FewerKeepsOneRow DEF ExchangeCode
<1>3. CASE Rotating
  <2> SUFFICES ASSUME NEW tok \in Tokens, NEW t \in Tenants, NEW k \in Clients,
                      NEW requested \in SUBSET Scopes, NEW new \in Tokens,
                      RotateRefresh(tok, t, k, requested, new)
               PROVE  OneRowEach'
    BY <1>3 DEF Rotating
  <2>1. QED
    BY <1>1, FewerKeepsOneRow DEF RotateRefresh
<1>4. ASSUME NEW p \in replays, RevokeFamily(p) PROVE OneRowEach'
  <2>1. CASE p.family = Empty
    BY <1>4, <2>1, FewerKeepsOneRow DEF RevokeFamily
  <2>2. CASE p.family # Empty
    <3> DEFINE rows == RowsOf(p, access)
    <3>1. access' = MarkRevoked(access, rows) /\ UNCHANGED exchanges
      BY <1>4, <2>2 DEF RevokeFamily
    <3>2. rows \in SUBSET access
      BY DEF RowsOf
    <3>3. \A q \in access' : \E d \in access :
            /\ q.token = d.token
            /\ q = IF d \in rows THEN [d EXCEPT !.revoked = TRUE] ELSE d
      BY <3>1, <3>2, MarkedRows
    <3> HIDE DEF rows
    <3>4. ASSUME NEW q \in access', NEW r \in access', q.token = r.token
          PROVE  q = r
      <4>1. PICK d \in access :
              /\ q.token = d.token
              /\ q = IF d \in rows THEN [d EXCEPT !.revoked = TRUE] ELSE d
        BY <3>3
      <4>2. PICK e \in access :
              /\ r.token = e.token
              /\ r = IF e \in rows THEN [e EXCEPT !.revoked = TRUE] ELSE e
        BY <3>3
      <4>3. d = e
        BY <3>4, <4>1, <4>2 DEF OneRowEach
      <4>4. QED
        BY <4>1, <4>2, <4>3
    <3>5. \A q \in access', x \in exchanges' :
            x.stage = "access" => q.token # x.token
      BY <3>1, <3>3 DEF OneRowEach
    <3>6. QED
      BY <3>4, <3>5 DEF OneRowEach
  <2>3. QED
    BY <2>1, <2>2
<1>5. ASSUME NEW x \in exchanges, InsertAccess(x) PROVE OneRowEach'
  <2> DEFINE done == [x EXCEPT !.stage = "refresh"]
  <2>1. x \in Exchange /\ x.stage = "access"
    BY <1>5 DEF InsertAccess, TypeOK
  <2>2. done.stage = "refresh"
    BY <2>1 DEF Exchange
  <2>3. \A y \in exchanges' : y.stage = "access" => y \in exchanges /\ y # x
    BY <1>5, <2>2 DEF InsertAccess
  <2>4. \A y \in exchanges' : y.stage = "access" => y.token # x.token
    BY <2>3 DEF Unspent
  <2>5. \A a \in access' : a \in access \/ a.token = x.token
    BY <1>5 DEF InsertAccess
  <2>6. \A a, b \in access' : a.token = b.token => a = b
    <3> SUFFICES ASSUME NEW a \in access', NEW b \in access',
                        a.token = b.token
                 PROVE  a = b
      OBVIOUS
    <3>1. \A r \in access : r.token # x.token
      BY <2>1 DEF OneRowEach
    <3>2. \A r, q \in access' : r \notin access /\ q \notin access => r = q
      BY <1>5 DEF InsertAccess
    <3>3. QED
      BY <2>5, <3>1, <3>2 DEF OneRowEach
  <2>7. QED
    BY <2>3, <2>4, <2>5, <2>6 DEF OneRowEach
<1>6. CASE /\ access' \subseteq access /\ exchanges' \subseteq exchanges
  BY <1>6, FewerKeepsOneRow
<1>7. \/ Exchanging \/ Rotating
      \/ (\E p \in replays : RevokeFamily(p))
      \/ (\E x \in exchanges : InsertAccess(x))
      \/ (access' \subseteq access /\ exchanges' \subseteq exchanges)
  BY DEF Next, vars, tables, Authorizing, Authorize, Replaying, DetectReplay,
         Revoking, Issuing, InsertRefresh, Failing, FailExchange, FailRevoke,
         SweepFail, Crash, Sweeping, SweepCodes, SweepAccess, SweepRefresh,
         Purge, Tick
<1>8. QED
  BY <1>2, <1>3, <1>4, <1>5, <1>6, <1>7

\* An access token is revoked only by a replay in its own family and tenant,
\* and never if it has no family (RevokeFamily).
THEOREM RevocationStaysInFamily == Spec => RevocationIsPrecise
<1> DEFINE Inv == /\ TypeOK /\ Fresh /\ SpentOnce /\ Unspent
                  /\ OneRowEach
           Precise == \A a \in access :
             Live(a) /\ [a EXCEPT !.revoked = TRUE] \in access' =>
               /\ a.family # Empty
               /\ [tenant |-> a.tenant, family |-> a.family] \in replays
<1>1. Init => Inv
  <2>1. ASSUME Init PROVE OneRowEach
    <3>1. PICK t \in Tenants, k \in Clients, sc \in SUBSET Scopes :
            access = {[token |-> l, tenant |-> t, client |-> k, scope |-> sc,
                       family |-> Empty, revoked |-> FALSE,
                       expires |-> AccessTTL] : l \in Legacy}
      BY <2>1 DEF Init
    <3> DEFINE Old(l) == [token |-> l, tenant |-> t, client |-> k, scope |-> sc,
                          family |-> Empty, revoked |-> FALSE,
                          expires |-> AccessTTL]
    <3>2. \A a, b \in access : a.token = b.token => a = b
      <4>1. \A a \in access : \E l \in Legacy : a = Old(l)
        BY <3>1
      <4>2. \A l : Old(l).token = l
        OBVIOUS
      <4> HIDE DEF Old
      <4>3. QED
        BY <4>1, <4>2
    <3>3. exchanges = {}
      BY <2>1 DEF Init
    <3>4. QED
      BY <3>2, <3>3 DEF OneRowEach
  <2>2. QED
    BY <2>1, InitTyped, InitFresh, InitSpent
<1>2. Inv /\ [Next]_vars => Inv'
  BY NextTyped, NextFresh, NextSpent, NextOneRow
<1>3. ASSUME Inv, [Next]_vars PROVE [Precise]_vars
  <2> SUFFICES ASSUME NEW a \in access, Live(a),
                      [a EXCEPT !.revoked = TRUE] \in access'
               PROVE  /\ a.family # Empty
                      /\ [tenant |-> a.tenant, family |-> a.family] \in replays
    OBVIOUS
  <2> DEFINE out == [a EXCEPT !.revoked = TRUE]
  <2>1. out.revoked /\ out.token = a.token /\ out # a
    BY <1>3 DEF TypeOK, AccessRow, Live
  <2>2. out \notin access
    BY <1>3, <2>1 DEF OneRowEach
  <2>3. \A x \in exchanges : ~InsertAccess(x)
    BY <2>1, <2>2 DEF InsertAccess
  <2>4. PICK p \in replays : RevokeFamily(p) /\ p.family # Empty
    BY <1>3, <2>2, <2>3
    DEF Next, vars, tables, Authorizing, Authorize, Exchanging, ExchangeCode,
        Rotating, RotateRefresh, Replaying, DetectReplay, Revoking,
        RevokeFamily, Issuing, InsertRefresh, Failing, FailExchange,
        FailRevoke, SweepFail, Crash, Sweeping, SweepCodes, SweepAccess,
        SweepRefresh, Purge, Tick
  <2>5. PICK d \in access :
          /\ out.token = d.token
          /\ out = IF d \in RowsOf(p, access) THEN [d EXCEPT !.revoked = TRUE]
                                               ELSE d
    <3>1. access' = MarkRevoked(access, RowsOf(p, access))
      BY <2>4 DEF RevokeFamily
    <3>2. RowsOf(p, access) \in SUBSET access
      BY DEF RowsOf
    <3>3. QED
      BY <1>3, <3>1, <3>2, MarkedRows
  <2>6. d = a /\ a \in RowsOf(p, access)
    BY <1>3, <2>1, <2>2, <2>5 DEF OneRowEach
  <2>7. p = [tenant |-> a.tenant, family |-> a.family]
    BY <1>3, <2>6 DEF RowsOf, TypeOK, Replay
  <2>8. QED
    BY <2>4, <2>7
<1>4. QED
  BY <1>1, <1>2, <1>3, PTL DEF Spec, RevocationIsPrecise

-----------------------------------------------------------------------------
\* The token endpoint implements GrantChain: what a chain may still be
\* presented or carried on as is a single row, and every statement moves that
\* row along, replaces it or drops it.

\* The values of Codes are as fresh as those of Tokens, and the rows that are
\* older than the family column have been there from the start.
Begun ==
    /\ Legacy \subseteq minted
    /\ \A c, d \in codes : c.code = d.code => c = d

\* The phase and the scope of a chain, by what carries it.
PhaseFrom(P, I, born) ==
    IF \E a, b \in P \cup I : a # b THEN "forked"
    ELSE IF I # {} THEN "moving"
    ELSE IF P # {} THEN "held"
    ELSE IF born THEN "closed" ELSE "unborn"

ScopeFrom(P, I) == UNION {r.scope : r \in P \cup I}

ScopeOf(s) == ScopeFrom(Presentable(s), InFlight(s))

\* At most one carrier, and none before the chain begins.
Baton(P, I, born) ==
    \/ P = {} /\ I = {}
    \/ born /\ I = {} /\ \E a : P = {a}
    \/ born /\ P = {} /\ \E x : I = {x}

\* A step of one chain.
Advances(s) ==
    \/ Phase(s) = "unborn" /\ Phase(s)' = "held"
    \/ /\ Phase(s) = "held" /\ Phase(s)' = "moving"
       /\ ScopeOf(s)' \subseteq ScopeOf(s)
    \/ /\ Phase(s) = "moving" /\ Phase(s)' = "held"
       /\ ScopeOf(s)' = ScopeOf(s)
    \/ Phase(s) \in {"held", "moving"} /\ Phase(s)' = "closed"
    \/ Phase(s)' = Phase(s) /\ ScopeOf(s)' = ScopeOf(s)

\* What the phases are when there is at most one carrier.
LEMMA PhaseValues ==
  /\ PhaseFrom({}, {}, TRUE) = "closed"
  /\ PhaseFrom({}, {}, FALSE) = "unborn"
  /\ \A b, a : /\ PhaseFrom({a}, {}, b) = "held"
               /\ PhaseFrom({}, {a}, b) = "moving"
  /\ \A a : ScopeFrom({a}, {}) = a.scope /\ ScopeFrom({}, {a}) = a.scope
  BY DEF PhaseFrom, ScopeFrom

\* A chain is in the phase of its carriers, now and after a step.
LEMMA PhaseByCarriers ==
  ASSUME NEW s
  PROVE  /\ Phase(s) = PhaseFrom(Presentable(s), InFlight(s), s \in minted)
         /\ Phase(s)' = PhaseFrom(Presentable(s)', InFlight(s)', s \in minted')
         /\ ScopeOf(s) = ScopeFrom(Presentable(s), InFlight(s))
         /\ ScopeOf(s)' = ScopeFrom(Presentable(s)', InFlight(s)')
  BY DEF Phase, Carriers, PhaseFrom, ScopeOf, ScopeFrom

\* One carrier, now or after a step, says it all.
LEMMA CarriedAs ==
  ASSUME NEW s, NEW a
  PROVE  /\ Presentable(s) = {a} /\ InFlight(s) = {}
              => Phase(s) = "held" /\ ScopeOf(s) = a.scope
         /\ Presentable(s) = {} /\ InFlight(s) = {a}
              => Phase(s) = "moving" /\ ScopeOf(s) = a.scope
         /\ Presentable(s)' = {a} /\ InFlight(s)' = {}
              => Phase(s)' = "held" /\ ScopeOf(s)' = a.scope
         /\ Presentable(s)' = {} /\ InFlight(s)' = {a}
              => Phase(s)' = "moving" /\ ScopeOf(s)' = a.scope
<1> DEFINE held(P, I, b) == PhaseFrom(P, I, b) = "held" /\ ScopeFrom(P, I) = a.scope
           moving(P, I, b) == PhaseFrom(P, I, b) = "moving" /\ ScopeFrom(P, I) = a.scope
<1>1. /\ held({a}, {}, s \in minted) /\ moving({}, {a}, s \in minted)
      /\ held({a}, {}, s \in minted') /\ moving({}, {a}, s \in minted')
  BY PhaseValues DEF PhaseFrom
<1> QED
  BY <1>1, PhaseByCarriers

\* No carrier: the chain has ended, or has not begun.
LEMMA UncarriedAs ==
  ASSUME NEW s, Presentable(s) = {}, InFlight(s) = {}, s \notin minted
  PROVE  Phase(s) = "unborn" /\ ScopeOf(s) = {}
<1>1. Carriers(s) = {}
  BY DEF Carriers
<1>2. ScopeOf(s) = {}
  BY <1>1 DEF Carriers, ScopeOf, ScopeFrom
<1> QED
  BY <1>1, <1>2 DEF Phase

\* When every chain makes a step of its own, that is a step of GrantChain.
LEMMA ChainSteps ==
  ASSUME \A s \in Sources : Advances(s)
  PROVE  Chain!Next
<1> SUFFICES ASSUME NEW s \in Sources
             PROVE  Chain!Grant(s) \/ Chain!Take(s) \/ Chain!Give(s)
                      \/ Chain!Close(s) \/ Chain!Stay(s)
  BY DEF Chain!Next
<1>1. Advances(s)
  OBVIOUS
<1> QED
  BY <1>1 DEF Advances, ScopeOf, ScopeFrom, Carriers,
              Chain!Grant, Chain!Take, Chain!Give, Chain!Close, Chain!Stay

\* A chain that can only lose its carrier stays or closes.
LEMMA LosingCloses ==
  ASSUME NEW s,
         Baton(Presentable(s), InFlight(s), s \in minted),
         Presentable(s)' \subseteq Presentable(s),
         InFlight(s)' \subseteq InFlight(s),
         s \in minted' <=> s \in minted
  PROVE  Advances(s)
<1> DEFINE P == Presentable(s)  I == InFlight(s)  b == s \in minted
           P1 == Presentable(s)'  I1 == InFlight(s)'  b1 == s \in minted'
<1>1. /\ Phase(s) = PhaseFrom(P, I, b) /\ Phase(s)' = PhaseFrom(P1, I1, b1)
      /\ ScopeOf(s) = ScopeFrom(P, I) /\ ScopeOf(s)' = ScopeFrom(P1, I1)
  BY PhaseByCarriers
<1>2. P1 \subseteq P /\ I1 \subseteq I /\ b1 = b /\ Baton(P, I, b)
  OBVIOUS
<1>3. b \in BOOLEAN
  OBVIOUS
<1> HIDE DEF P, I, b, P1, I1, b1
<1>4. CASE P1 = P /\ I1 = I
  BY <1>1, <1>2, <1>4 DEF Advances
<1>5. CASE ~(P1 = P /\ I1 = I)
  <2>1. P1 = {} /\ I1 = {} /\ b = TRUE
    BY <1>2, <1>3, <1>5 DEF Baton
  <2>2. PhaseFrom(P, I, b) \in {"held", "moving"}
    BY <1>2, <1>5, <2>1, PhaseValues DEF Baton
  <2> QED
    BY <1>1, <1>2, <2>1, <2>2, PhaseValues DEF Advances
<1> QED
  BY <1>4, <1>5

\* A chain cannot begin before its code is returned, and has one carrier.
LEMMA OneBaton ==
  ASSUME TypeOK, Fresh, AtMostOneLive, SpentOnce, Unspent, Begun,
         NEW s \in Sources
  PROVE  /\ Baton(Presentable(s), InFlight(s), s \in minted)
         /\ s \notin minted => FamilyOf(s) = {}
<1> USE IdsAssumption
<1>1. \A r \in refresh : r.token \in Tokens /\ r.token \in minted
  BY DEF TypeOK, RefreshRow, Fresh, Chained
<1>2. \A g \in grants : g.family \in Tokens /\ g.source \in minted
  BY DEF TypeOK, Grant, Unspent
<1>3. \A f, g \in FamilyOf(s) : f = g
  BY DEF FamilyOf, SpentOnce
<1>4. FamilyOf(s) # {} => s \in minted
  BY <1>2 DEF FamilyOf
<1>5. Empty \notin FamilyOf(s)
  BY <1>2 DEF FamilyOf
<1>6. ASSUME NEW c \in codes, c.code = s
      PROVE  Presentable(s) = {c} /\ InFlight(s) = {} /\ s \in minted
  <2>1. c.code \in Codes /\ c.code \in minted
    BY DEF TypeOK, CodeRow, Unspent
  <2>2. FamilyOf(s) = {}
    BY <1>6 DEF FamilyOf, Unspent
  <2>3. {d \in codes : d.code = s} = {c}
    BY <1>6 DEF Begun
  <2> QED
    BY <1>1, <1>6, <2>1, <2>2, <2>3 DEF Presentable, InFlight
<1>7. ASSUME NEW r \in refresh, Live(r), r.family = Empty, r.token = s,
             \A c \in codes : c.code # s
      PROVE  Presentable(s) = {r} /\ InFlight(s) = {} /\ s \in minted
  <2>1. FamilyOf(s) = {}
    BY <1>7 DEF FamilyOf, Unspent
  <2>2. {q \in refresh : q.token = s} = {r}
    BY <1>7 DEF Unspent
  <2> QED
    BY <1>1, <1>7, <2>1, <2>2 DEF Presentable, InFlight
<1>8. ASSUME \A c \in codes : c.code # s,
             \A r \in refresh : Live(r) /\ r.family = Empty => r.token # s
      PROVE  Baton(Presentable(s), InFlight(s), s \in minted)
  <2>1. Presentable(s) = {r \in refresh : Live(r) /\ r.family \in FamilyOf(s)}
    BY <1>8 DEF Presentable
  <2>2. \A r, q \in Presentable(s) : r = q
    BY <2>1, <1>3, <1>5 DEF AtMostOneLive
  <2>3. \A x, y \in InFlight(s) : x = y
    BY <1>3 DEF InFlight, AtMostOneLive
  <2>4. \A r \in Presentable(s), x \in InFlight(s) : FALSE
    BY <2>1, <1>3 DEF InFlight, AtMostOneLive
  <2>5. Presentable(s) # {} \/ InFlight(s) # {} => s \in minted
    BY <2>1, <1>4 DEF InFlight
  <2>6. CASE Presentable(s) # {}
    <3>1. PICK a : Presentable(s) = {a}
      BY <2>2, <2>6
    <3> QED
      BY <3>1, <2>4, <2>5 DEF Baton
  <2>7. CASE InFlight(s) # {}
    <3>1. PICK x : InFlight(s) = {x}
      BY <2>3, <2>7
    <3> QED
      BY <3>1, <2>4, <2>5 DEF Baton
  <2> QED
    BY <2>6, <2>7 DEF Baton
<1> QED
  BY <1>4, <1>6, <1>7, <1>8 DEF Baton

\* A statement that adds no code, no live token, no exchange and no grant
\* leaves every chain where it was, or closes it.
LEMMA FewerCloses ==
  ASSUME NEW s,
         Baton(Presentable(s), InFlight(s), s \in minted),
         codes' \subseteq codes,
         \A q \in refresh' : Live(q) => q \in refresh,
         exchanges' \subseteq exchanges,
         grants' = grants, minted' = minted
  PROVE  Advances(s)
<1>1. FamilyOf(s)' = FamilyOf(s)
  BY DEF FamilyOf
<1>2. Presentable(s)' \subseteq Presentable(s)
  BY <1>1 DEF Presentable, Live
<1>3. InFlight(s)' \subseteq InFlight(s)
  BY <1>1 DEF InFlight
<1> QED
  BY <1>2, <1>3, LosingCloses

\* An exchange that starts for the row a takes the chain of a, and no other.
LEMMA StartTakes ==
  ASSUME TypeOK, Fresh, Begun, NEW a, NEW new, NEW t, NEW k, NEW sc,
         NEW rotated, NEW family, NEW source,
         StartExchange(new, t, k, sc, rotated, family, source),
         sc \subseteq a.scope,
         codes' \subseteq codes,
         \A q \in refresh' : Live(q) => q \in refresh,
         NEW s \in Sources,
         Baton(Presentable(s), InFlight(s), s \in minted),
         a \notin Presentable(s)',
         family = Empty => /\ a \in Presentable(s) <=> s = source
                           /\ s = source => FamilyOf(s) = {},
         family # Empty => (a \in Presentable(s) <=> family \in FamilyOf(s))
  PROVE  Advances(s)
<1> DEFINE chain == IF family = Empty THEN new ELSE family
           y == [stage |-> "access", token |-> new, tenant |-> t, client |-> k,
                 scope |-> sc, family |-> chain, rotated |-> rotated,
                 issued |-> now]
<1> USE IdsAssumption
<1>1. /\ new \in Tokens \ minted /\ new # Empty
      /\ minted' = minted \cup {new}
      /\ exchanges' = exchanges \cup {y}
      /\ y.family = chain /\ y.scope = sc
  BY DEF StartExchange, ChainOf
<1>2. s \in minted' <=> s \in minted
  BY <1>1 DEF Sources, Begun
<1>3. /\ \A r \in refresh : r.family # new
      /\ \A x \in exchanges : x.family # new
      /\ new \notin FamilyOf(s)
  BY <1>1 DEF Fresh, Chained, FamilyOf
<1>4. /\ FamilyOf(s) \subseteq FamilyOf(s)'
      /\ FamilyOf(s)' \subseteq FamilyOf(s) \cup {new}
      /\ chain \in FamilyOf(s)' <=> a \in Presentable(s)
  <2>1. CASE family = Empty
    <3> DEFINE g == [family |-> new, source |-> source, tenant |-> t,
                     client |-> k, scope |-> sc]
    <3>1. grants' = grants \cup {g} /\ g.family = new /\ g.source = source
      BY <2>1 DEF StartExchange, ChainOf
    <3> HIDE DEF g
    <3>2. FamilyOf(s)' = IF s = source THEN FamilyOf(s) \cup {new} ELSE FamilyOf(s)
      BY <3>1 DEF FamilyOf
    <3> QED
      BY <2>1, <3>2, <1>3
  <2>2. CASE family # Empty
    <3>1. grants' = grants
      BY <2>2 DEF StartExchange
    <3>2. FamilyOf(s)' = FamilyOf(s)
      BY <3>1 DEF FamilyOf
    <3> QED
      BY <2>2, <3>2
  <2> QED
    BY <2>1, <2>2
<1> HIDE DEF chain, y
<1>5. Presentable(s)' \subseteq Presentable(s)
  BY <1>3, <1>4 DEF Presentable, Live
<1>6. InFlight(s)' = IF a \in Presentable(s) THEN InFlight(s) \cup {y}
                                              ELSE InFlight(s)
  BY <1>1, <1>3, <1>4 DEF InFlight
<1>7. CASE a \in Presentable(s)
  <2>1. Presentable(s) = {a} /\ InFlight(s) = {}
    BY <1>7 DEF Baton
  <2>2. Presentable(s)' = {} /\ InFlight(s)' = {y}
    BY <1>5, <1>6, <1>7, <2>1
  <2>3. Phase(s) = "held" /\ ScopeOf(s) = a.scope
    BY <2>1, CarriedAs
  <2>4. Phase(s)' = "moving" /\ ScopeOf(s)' = y.scope
    BY <2>2, CarriedAs
  <2> QED
    BY <1>1, <2>3, <2>4 DEF Advances
<1>8. CASE a \notin Presentable(s)
  BY <1>2, <1>5, <1>6, <1>8, LosingCloses
<1> QED
  BY <1>7, <1>8

\* Codes stay apart, and no token is lost from minted.
LEMMA NextBegun == TypeOK /\ Unspent /\ Begun /\ [Next]_vars => Begun'
<1> SUFFICES ASSUME TypeOK, Unspent, Begun, [Next]_vars PROVE Begun'
  OBVIOUS
<1>1. CASE Authorizing
  <2>1. PICK c \in Codes, t \in Tenants, k \in Clients,
             requested \in SUBSET Scopes, user \in SUBSET Scopes :
               Authorize(c, t, k, requested, user)
    BY <1>1 DEF Authorizing
  <2> QED
    BY <2>1 DEF Authorize, Begun, Unspent
<1>2. CASE Exchanging
  <2>1. PICK c \in Codes, t \in Tenants, k \in Clients, proof \in BOOLEAN,
             new \in Tokens : ExchangeCode(c, t, k, proof, new)
    BY <1>2 DEF Exchanging
  <2>2. codes' \subseteq codes /\ minted \subseteq minted'
    BY <2>1 DEF ExchangeCode, CodesWithout, StartExchange
  <2> QED
    BY <2>2 DEF Begun
<1>3. CASE Rotating
  <2>1. PICK tok \in Tokens, t \in Tenants, k \in Clients,
             requested \in SUBSET Scopes, new \in Tokens :
               RotateRefresh(tok, t, k, requested, new)
    BY <1>3 DEF Rotating
  <2>2. codes' = codes /\ minted \subseteq minted'
    BY <2>1 DEF RotateRefresh, StartExchange
  <2> QED
    BY <2>2 DEF Begun
<1>4. CASE ~(Authorizing \/ Exchanging \/ Rotating)
  <2>1. codes' \subseteq codes /\ minted' = minted
    <3>1. CASE Replaying \/ Revoking \/ Issuing
      BY <3>1 DEF Replaying, DetectReplay, Revoking, RevokeFamily, Issuing,
                  InsertAccess, InsertRefresh, tables
    <3>2. CASE Failing \/ Crash
      BY <3>2 DEF Failing, FailExchange, FailRevoke, SweepFail, Crash, tables
    <3>3. CASE Sweeping \/ Tick \/ UNCHANGED vars
      BY <3>3 DEF Sweeping, SweepCodes, SweepAccess, SweepRefresh, Purge,
                  Tick, tables, vars
    <3> QED
      BY <1>4, <3>1, <3>2, <3>3 DEF Next
  <2> QED
    BY <2>1 DEF Begun
<1> QED
  BY <1>1, <1>2, <1>3, <1>4

\* Every step is one of the chains', or none of them notices.
LEMMA ChainStep ==
  TypeOK /\ Fresh /\ AtMostOneLive /\ SpentOnce /\ Unspent /\ Begun
    /\ [Next]_vars => Chain!Next
<1> SUFFICES ASSUME TypeOK, Fresh, AtMostOneLive, SpentOnce, Unspent, Begun,
                    [Next]_vars,
                    NEW s \in Sources
             PROVE  Advances(s)
  BY ChainSteps
<1> USE IdsAssumption
<1>0. /\ Baton(Presentable(s), InFlight(s), s \in minted)
      /\ s \notin minted => FamilyOf(s) = {}
  BY OneBaton
<1> DEFINE Fewer == /\ codes' \subseteq codes
                    /\ \A q \in refresh' : Live(q) => q \in refresh
                    /\ exchanges' \subseteq exchanges
                    /\ grants' = grants /\ minted' = minted
<1>f. Fewer => Advances(s)
  BY <1>0, FewerCloses
<1>1. CASE Authorizing
  <2>1. PICK c \in Codes, t \in Tenants, k \in Clients,
             requested \in SUBSET Scopes, user \in SUBSET Scopes :
               Authorize(c, t, k, requested, user)
    BY <1>1 DEF Authorizing
  <2> DEFINE row == [code |-> c, tenant |-> t, client |-> k,
                     scope |-> GrantedScope(requested, user),
                     expires |-> now + CodeTTL]
  <2>2. /\ codes' = codes \cup {row} /\ row.code = c
        /\ c \notin minted /\ minted' = minted \cup {c}
        /\ refresh' = refresh /\ exchanges' = exchanges /\ grants' = grants
    BY <2>1 DEF Authorize, history
  <2> HIDE DEF row
  <2>3. FamilyOf(s)' = FamilyOf(s) /\ InFlight(s)' = InFlight(s)
    BY <2>2 DEF FamilyOf, InFlight
  <2>4. Presentable(s)' = Presentable(s) \cup (IF s = c THEN {row} ELSE {})
    BY <2>2, <2>3 DEF Presentable, Live
  <2>5. CASE s = c
    <3>1. Presentable(s) = {} /\ InFlight(s) = {} /\ s \notin minted
      BY <1>0, <2>2, <2>5 DEF Baton
    <3>2. Phase(s) = "unborn"
      BY <3>1, UncarriedAs
    <3>3. Phase(s)' = "held"
      <4>1. Presentable(s)' = {row} /\ InFlight(s)' = {}
        BY <2>3, <2>4, <2>5, <3>1
      <4> QED
        BY <4>1, CarriedAs
    <3> QED
      BY <3>2, <3>3 DEF Advances
  <2>6. CASE s # c
    BY <1>0, <2>2, <2>3, <2>4, <2>6, LosingCloses
  <2> QED
    BY <2>5, <2>6
<1>2. CASE Exchanging
  <2>1. PICK c \in Codes, t \in Tenants, k \in Clients, proof \in BOOLEAN,
             new \in Tokens : ExchangeCode(c, t, k, proof, new)
    BY <1>2 DEF Exchanging
  <2>2. PICK r \in codes :
          /\ r.code = c
          /\ codes' = {d \in codes : d.code # c}
          /\ refresh' = refresh
          /\ \/ StartExchange(new, t, k, r.scope, Empty, Empty, c)
             \/ UNCHANGED <<minted, exchanges, grants>>
    BY <2>1 DEF ExchangeCode, CodesWithout
  <2>3. CASE UNCHANGED <<minted, exchanges, grants>>
    BY <2>2, <2>3, <1>f
  <2>4. CASE StartExchange(new, t, k, r.scope, Empty, Empty, c)
    <3>1. \A q \in refresh : q \notin codes
      BY DEF TypeOK, CodeRow, RefreshRow
    <3>2. r \in Presentable(s) <=> s = c
      BY <2>2, <3>1 DEF Presentable
    <3>3. s = c => FamilyOf(s) = {}
      BY <2>2 DEF FamilyOf, Unspent
    <3>4. r \notin Presentable(s)'
      BY <2>2, <3>1 DEF Presentable
    <3> QED
      BY <1>0, <2>2, <2>4, <3>2, <3>3, <3>4, StartTakes
  <2> QED
    BY <2>2, <2>3, <2>4
<1>3. CASE Rotating
  <2>1. PICK tok \in Tokens, t \in Tenants, k \in Clients,
             requested \in SUBSET Scopes, new \in Tokens :
               RotateRefresh(tok, t, k, requested, new)
    BY <1>3 DEF Rotating
  <2>2. PICK r \in refresh :
          /\ r.token = tok /\ Live(r)
          /\ codes' = codes
          /\ refresh' = MarkRevoked(refresh, {d \in refresh : d.token = tok})
          /\ \/ StartExchange(new, t, k, NarrowedScope(requested, r.scope),
                              tok, r.family, tok)
             \/ UNCHANGED <<minted, exchanges, grants>>
    BY <2>1 DEF RotateRefresh, Usable, Live
  <2>3. \A q \in refresh' : Live(q) => q \in refresh /\ q.token # tok
    BY <2>2, MarkLeavesLive DEF TypeOK
  <2>4. CASE UNCHANGED <<minted, exchanges, grants>>
    BY <2>2, <2>3, <2>4, <1>f
  <2>5. CASE StartExchange(new, t, k, NarrowedScope(requested, r.scope),
                           tok, r.family, tok)
    <3> DEFINE sc == NarrowedScope(requested, r.scope)
    <3>1. sc \subseteq r.scope
      BY NarrowedIsScope DEF TypeOK, RefreshRow
    <3>2. r \notin codes
      BY DEF TypeOK, CodeRow, RefreshRow
    <3>3. Empty \notin FamilyOf(s)
      BY DEF FamilyOf, TypeOK, Grant
    <3>4. r.family = Empty => /\ r \in Presentable(s) <=> s = tok
                              /\ s = tok => FamilyOf(s) = {}
      BY <2>2, <3>2, <3>3 DEF Presentable, FamilyOf, Unspent
    <3>5. r.family # Empty => (r \in Presentable(s) <=> r.family \in FamilyOf(s))
      BY <2>2, <3>2 DEF Presentable
    <3>6. r \notin Presentable(s)'
      BY <2>2, <2>3, <3>2 DEF Presentable, Live
    <3> HIDE DEF sc
    <3> QED
      BY <1>0, <2>2, <2>3, <2>5, <3>1, <3>4, <3>5, <3>6, StartTakes DEF sc
  <2> QED
    BY <2>2, <2>4, <2>5
<1>4. CASE Replaying
  BY <1>4, <1>f DEF Replaying, DetectReplay, tables, history
<1>5. CASE Revoking
  <2>1. PICK p \in replays : RevokeFamily(p)
    BY <1>5 DEF Revoking
  <2>2. \A q \in refresh' : Live(q) => q \in refresh
    <3>1. CASE p.family = Empty
      BY <2>1, <3>1 DEF RevokeFamily
    <3>2. CASE p.family # Empty
      BY <2>1, <3>2, MarkLeavesLive DEF RevokeFamily, RowsOf, TypeOK
    <3> QED
      BY <3>1, <3>2
  <2> QED
    BY <2>1, <2>2, <1>f DEF RevokeFamily
<1>6. CASE Issuing
  <2>1. PICK x \in exchanges : InsertAccess(x) \/ InsertRefresh(x)
    BY <1>6 DEF Issuing
  <2>2. x \in Exchange /\ x.family # Empty
    BY DEF TypeOK, Exchange
  <2>3. x \in InFlight(s) =>
          Presentable(s) = {} /\ InFlight(s) = {x} /\ s \in minted
    BY <1>0 DEF Baton
  <2>4. CASE InsertAccess(x)
    <3> DEFINE y == [x EXCEPT !.stage = "refresh"]
    <3>1. /\ exchanges' = (exchanges \ {x}) \cup {y}
          /\ y.family = x.family /\ y.scope = x.scope
          /\ codes' = codes /\ refresh' = refresh
          /\ grants' = grants /\ minted' = minted
      BY <2>2, <2>4 DEF InsertAccess, history, Exchange
    <3> HIDE DEF y
    <3>2. FamilyOf(s)' = FamilyOf(s)
      BY <3>1 DEF FamilyOf
    <3>3. Presentable(s)' = Presentable(s)
      BY <3>1, <3>2 DEF Presentable, Live
    <3>4. CASE x \in InFlight(s)
      <4>1. InFlight(s)' = {y} /\ Presentable(s)' = {}
        BY <2>3, <3>1, <3>2, <3>3, <3>4 DEF InFlight
      <4>2. Phase(s)' = "moving" /\ ScopeOf(s)' = x.scope
        BY <3>1, <4>1, CarriedAs
      <4>3. Phase(s) = "moving" /\ ScopeOf(s) = x.scope
        BY <2>3, <3>4, CarriedAs
      <4> QED
        BY <4>2, <4>3 DEF Advances
    <3>5. CASE x \notin InFlight(s)
      <4>1. InFlight(s)' \subseteq InFlight(s)
        BY <3>1, <3>2, <3>5 DEF InFlight
      <4> QED
        BY <1>0, <3>1, <3>3, <4>1, LosingCloses
    <3> QED
      BY <3>4, <3>5
  <2>5. CASE InsertRefresh(x)
    <3> DEFINE row == [token |-> x.token, tenant |-> x.tenant,
                       client |-> x.client, scope |-> x.scope,
                       family |-> x.family, rotated |-> x.rotated,
                       revoked |-> FALSE, expires |-> x.issued + RefreshTTL]
    <3>1. /\ refresh' = refresh \cup {row}
          /\ row.family = x.family /\ row.scope = x.scope /\ ~row.revoked
          /\ exchanges' = exchanges \ {x}
          /\ codes' = codes /\ grants' = grants /\ minted' = minted
      BY <2>5 DEF InsertRefresh, history
    <3> HIDE DEF row
    <3>2. FamilyOf(s)' = FamilyOf(s)
      BY <3>1 DEF FamilyOf
    <3>3. InFlight(s)' = InFlight(s) \ {x}
      BY <3>1, <3>2 DEF InFlight
    <3>4. Presentable(s)' = Presentable(s) \cup
                              (IF x \in InFlight(s) THEN {row} ELSE {})
      BY <2>2, <3>1, <3>2 DEF Presentable, InFlight, Live
    <3>5. CASE x \in InFlight(s)
      <4>1. InFlight(s)' = {} /\ Presentable(s)' = {row}
        BY <2>3, <3>3, <3>4, <3>5
      <4>2. Phase(s)' = "held" /\ ScopeOf(s)' = x.scope
        BY <3>1, <4>1, CarriedAs
      <4>3. Phase(s) = "moving" /\ ScopeOf(s) = x.scope
        BY <2>3, <3>5, CarriedAs
      <4> QED
        BY <4>2, <4>3 DEF Advances
    <3>6. CASE x \notin InFlight(s)
      BY <1>0, <3>1, <3>3, <3>4, <3>6, LosingCloses
    <3> QED
      BY <3>5, <3>6
  <2> QED
    BY <2>1, <2>4, <2>5
<1>7. CASE Failing
  BY <1>7, <1>f DEF Failing, FailExchange, FailRevoke, SweepFail, tables, history
<1>8. CASE Crash
  BY <1>8, <1>f DEF Crash, tables, history
<1>9. CASE Sweeping
  BY <1>9, <1>f
     DEF Sweeping, SweepCodes, SweepAccess, SweepRefresh, Purge, history
<1>10. CASE Tick
  BY <1>10, <1>f DEF Tick, tables, history
<1>11. CASE UNCHANGED vars
  BY <1>11, <1>f DEF vars
<1> QED
  BY <1>1, <1>2, <1>3, <1>4, <1>5, <1>6, <1>7, <1>8, <1>9, <1>10, <1>11
     DEF Next

\* At the start the only chains are those of the tokens without a family.
LEMMA ChainInit == Init => Begun /\ Chain!Init
<1> SUFFICES ASSUME Init PROVE Begun /\ Chain!Init
  OBVIOUS
<1>1. Begun
  BY DEF Init, Begun
<1>2. /\ TypeOK /\ Fresh /\ AtMostOneLive /\ SpentOnce /\ Unspent
  BY InitTyped, InitFresh, InitOneLive, InitSpent
<1>3. ASSUME NEW s \in Sources
      PROVE  /\ Phase(s) \in {"unborn", "held"}
             /\ ScopeOf(s) \in SUBSET Scopes
  <2>1. Baton(Presentable(s), InFlight(s), s \in minted)
    BY <1>1, <1>2, OneBaton
  <2>2. InFlight(s) = {}
    BY DEF Init, InFlight
  <2>3. \A r \in Presentable(s) : r.scope \in SUBSET Scopes
    BY <1>2 DEF Presentable, TypeOK, CodeRow, RefreshRow
  <2>4. CASE Presentable(s) = {}
    <3>1. s \notin minted
      <4>1. ASSUME s \in Legacy PROVE FALSE
        <5>1. PICK t \in Tenants, k \in Clients, sc \in SUBSET Scopes :
                refresh = {[token |-> l, tenant |-> t, client |-> k,
                            scope |-> sc, family |-> Empty, rotated |-> Empty,
                            revoked |-> FALSE, expires |-> RefreshTTL]
                             : l \in Legacy}
          BY DEF Init
        <5> DEFINE r == [token |-> s, tenant |-> t, client |-> k,
                         scope |-> sc, family |-> Empty, rotated |-> Empty,
                         revoked |-> FALSE, expires |-> RefreshTTL]
        <5>2. r \in refresh /\ r.token = s /\ r.family = Empty /\ ~r.revoked
          BY <4>1, <5>1
        <5> HIDE DEF r
        <5> QED
          BY <5>2, <2>4 DEF Presentable, Live
      <4> QED
        BY <4>1 DEF Init
    <3> QED
      BY <2>2, <2>4, <3>1, UncarriedAs
  <2>5. CASE Presentable(s) # {}
    <3>1. PICK a \in Presentable(s) : Presentable(s) = {a}
      BY <2>1, <2>5 DEF Baton
    <3>2. Phase(s) = "held" /\ ScopeOf(s) = a.scope
      BY <2>2, <3>1, CarriedAs
    <3> QED
      BY <2>3, <3>2
  <2> QED
    BY <2>4, <2>5
<1>4. Chain!Init
  BY <1>3 DEF Chain!Init, ScopeOf, ScopeFrom, Carriers
<1> QED
  BY <1>1, <1>4

\* However requests race, fail, are replayed and are cleaned up after, each
\* authorization is a single baton: the tables and handlers of the token
\* endpoint implement GrantChain.
THEOREM TokensAreChains == Spec => ImplementsGrantChain
<1> DEFINE IInv == /\ TypeOK /\ Fresh /\ AtMostOneLive
                   /\ SpentOnce /\ Unspent /\ Begun
<1>1. Init => IInv /\ Chain!Init
  BY InitTyped, InitFresh, InitOneLive, InitSpent, ChainInit
<1>2. IInv /\ [Next]_vars => IInv'
  BY NextTyped, NextFresh, NextOneLive, NextSpent, NextBegun
<1>3. IInv /\ [Next]_vars => Chain!Next
  BY ChainStep
<1> QED
  BY <1>1, <1>2, <1>3, PTL DEF Spec, ImplementsGrantChain, Chain!Spec

-----------------------------------------------------------------------------
\* The tables and the exchanges are a ledger.

\* The code of a row, as a ticket.
CodeTicket(r) == [value |-> r.code, tenant |-> r.tenant, client |-> r.client,
                  scope |-> r.scope]

\* What TicketOf says of a row.
LEMMA TicketFields ==
  ASSUME NEW r
  PROVE  /\ TicketOf(r).value = r.token /\ TicketOf(r).tenant = r.tenant
         /\ TicketOf(r).client = r.client /\ TicketOf(r).scope = r.scope
         /\ CodeTicket(r).value = r.code /\ CodeTicket(r).tenant = r.tenant
         /\ CodeTicket(r).client = r.client /\ CodeTicket(r).scope = r.scope
  BY DEF TicketOf, CodeTicket

\* Where there are fewer codes, live rows and exchanges, tickets are lost.
LEMMA FewerLoses ==
  ASSUME codes' \subseteq codes,
         \A q \in refresh' : Live(q) => q \in refresh,
         \A a \in access' : Live(a) => a \in access,
         exchanges' \subseteq exchanges,
         minted' = minted
  PROVE  Ledger!Next
<1>1. OfferedTickets' \subseteq OfferedTickets
  BY DEF OfferedTickets
<1>2. HeldTickets' \subseteq HeldTickets
  BY DEF HeldTickets, Live
<1>3. OpenTickets' \subseteq OpenTickets
  BY DEF OpenTickets, Live
<1>4. Ledger!Lose
  BY <1>1, <1>2, <1>3 DEF Ledger!Lose
<1> QED
  BY <1>4 DEF Ledger!Next

\* An exchange that starts is a ticket with a new value.
LEMMA StartIssues ==
  ASSUME NEW new, NEW t, NEW k, NEW sc, NEW rotated, NEW family, NEW source,
         StartExchange(new, t, k, sc, rotated, family, source),
         access' = access
  PROVE  /\ new \in Tokens \ minted
         /\ minted' = minted \cup {new}
         /\ OpenTickets' = OpenTickets \cup {Ledger!Ticket(new, t, k, sc)}
         /\ {TicketOf(x) : x \in exchanges'} =
              {TicketOf(x) : x \in exchanges} \cup {Ledger!Ticket(new, t, k, sc)}
<1> DEFINE y == [stage |-> "access", token |-> new, tenant |-> t, client |-> k,
                 scope |-> sc, family |-> ChainOf(new, family),
                 rotated |-> rotated, issued |-> now]
           ticket == Ledger!Ticket(new, t, k, sc)
<1>1. exchanges' = exchanges \cup {y} /\ y.stage = "access"
  BY DEF StartExchange
<1>2. TicketOf(y) = ticket
  BY DEF TicketOf, Ledger!Ticket
<1> HIDE DEF y, ticket
<1>3. {x \in exchanges' : x.stage = "access"} =
        {x \in exchanges : x.stage = "access"} \cup {y}
  BY <1>1
<1>4. OpenTickets' = OpenTickets \cup {ticket}
  BY <1>2, <1>3 DEF OpenTickets, Live
<1>5. {TicketOf(x) : x \in exchanges'} =
        {TicketOf(x) : x \in exchanges} \cup {ticket}
  BY <1>1, <1>2
<1>6. new \in Tokens \ minted /\ minted' = minted \cup {new}
  BY DEF StartExchange
<1> QED
  BY <1>4, <1>5, <1>6 DEF ticket

\* The tickets held, table by table.
LEMMA HeldParts ==
  HeldTickets = {TicketOf(r) : r \in {q \in refresh : Live(q)}}
                  \cup {TicketOf(x) : x \in exchanges}
  BY DEF HeldTickets

\* A code that is exchanged is redeemed, or lost.
LEMMA ExchangeRedeems ==
  ASSUME TypeOK, Begun, NEW c \in Codes, NEW t \in Tenants, NEW k \in Clients,
         NEW proof \in BOOLEAN, NEW new \in Tokens,
         ExchangeCode(c, t, k, proof, new)
  PROVE  Ledger!Next
<1>1. PICK r \in codes :
        /\ r.code = c /\ r.tenant = t
        /\ codes' = {d \in codes : d.code # c}
        /\ UNCHANGED <<access, refresh>>
        /\ \/ r.client = k /\ StartExchange(new, t, k, r.scope, Empty, Empty, c)
           \/ UNCHANGED <<minted, exchanges>>
  BY DEF ExchangeCode, CodesWithout
<1>2. CASE UNCHANGED <<minted, exchanges>>
  BY <1>1, <1>2, FewerLoses
<1>3. CASE r.client = k /\ StartExchange(new, t, k, r.scope, Empty, Empty, c)
  <2> DEFINE old == CodeTicket(r)
             ticket == Ledger!Ticket(new, t, k, r.scope)
  <2>1. /\ new \in Tokens \ minted /\ minted' = minted \cup {new}
        /\ OpenTickets' = OpenTickets \cup {ticket}
        /\ {TicketOf(x) : x \in exchanges'} =
             {TicketOf(x) : x \in exchanges} \cup {ticket}
    BY <1>1, <1>3, StartIssues
  <2>2. old \in OfferedTickets /\ OfferedTickets' = OfferedTickets \ {old}
    BY <1>1 DEF OfferedTickets, CodeTicket, Begun
  <2> HIDE DEF old, ticket
  <2>3. HeldTickets' = HeldTickets \cup {ticket}
    <3>1. HeldTickets' = {TicketOf(l) : l \in {q \in refresh : Live(q)}}'
                           \cup {TicketOf(x) : x \in exchanges}'
      BY DEF HeldTickets
    <3>2. {TicketOf(l) : l \in {q \in refresh : Live(q)}}' =
            {TicketOf(l) : l \in {q \in refresh : Live(q)}}
      BY <1>1 DEF Live
    <3> QED
      BY <2>1, <3>1, <3>2, HeldParts
  <2>4. ticket = Ledger!Ticket(new, old.tenant, old.client, old.scope)
    BY <1>1, <1>3, TicketFields DEF old, ticket
  <2>5. Ledger!Redeem(old, new)
    BY <2>1, <2>2, <2>3, <2>4 DEF Ledger!Redeem
  <2> QED
    BY <2>2, <2>5 DEF Ledger!Next
<1> QED
  BY <1>1, <1>2, <1>3

\* A refresh token that is spent is renewed, or lost.
LEMMA RotateRenews ==
  ASSUME TypeOK, Unspent, NEW tok \in Tokens, NEW t \in Tenants,
         NEW k \in Clients, NEW requested \in SUBSET Scopes, NEW new \in Tokens,
         RotateRefresh(tok, t, k, requested, new)
  PROVE  Ledger!Next
<1>1. PICK r \in refresh :
        /\ r.token = tok /\ r.tenant = t /\ Live(r)
        /\ refresh' = MarkRevoked(refresh, {d \in refresh : d.token = tok})
        /\ UNCHANGED <<codes, access>>
        /\ \/ /\ r.client = k
              /\ StartExchange(new, t, k, NarrowedScope(requested, r.scope),
                               tok, r.family, tok)
           \/ UNCHANGED <<minted, exchanges>>
  BY DEF RotateRefresh, Usable, Live
<1>2. r \in RefreshRow
  BY DEF TypeOK
<1>3. {d \in refresh : d.token = tok} = {r}
  BY <1>1 DEF Unspent
<1>4. refresh' = (refresh \ {r}) \cup {[r EXCEPT !.revoked = TRUE]}
  BY <1>1, <1>3 DEF MarkRevoked
<1>5. ~Live([r EXCEPT !.revoked = TRUE])
  BY <1>2 DEF RefreshRow, Live
<1>6. {q \in refresh' : Live(q)} = {q \in refresh : Live(q)} \ {r}
  BY <1>4, <1>5
<1>7. CASE UNCHANGED <<minted, exchanges>>
  <2>1. \A q \in refresh' : Live(q) => q \in refresh
    BY <1>6
  <2> QED
    BY <1>1, <1>7, <2>1, FewerLoses
<1>8. CASE /\ r.client = k
           /\ StartExchange(new, t, k, NarrowedScope(requested, r.scope),
                            tok, r.family, tok)
  <2> DEFINE scope == NarrowedScope(requested, r.scope)
             old == TicketOf(r)
             ticket == Ledger!Ticket(new, t, k, scope)
  <2>1. /\ new \in Tokens \ minted /\ minted' = minted \cup {new}
        /\ OpenTickets' = OpenTickets \cup {ticket}
        /\ {TicketOf(x) : x \in exchanges'} =
             {TicketOf(x) : x \in exchanges} \cup {ticket}
    BY <1>1, <1>8, StartIssues
  <2>2. scope \in SUBSET Scopes /\ scope \subseteq r.scope
    BY <1>2, NarrowedIsScope DEF RefreshRow
  <2>3. \A q \in refresh \cup exchanges : TicketOf(q) = old => q = r
    <3>1. \A q : TicketOf(q) = old => q.token = r.token
      BY DEF TicketOf
    <3> QED
      BY <3>1 DEF Unspent
  <2>4. old \in HeldTickets
    BY <1>1 DEF HeldTickets
  <2>5. OfferedTickets' = OfferedTickets
    BY <1>1 DEF OfferedTickets
  <2>6. r \notin exchanges
    BY DEF Unspent
  <2>7. ticket = Ledger!Ticket(new, old.tenant, old.client, scope)
          /\ scope \subseteq old.scope
    BY <1>1, <1>8, <2>2, TicketFields
  <2>8. {TicketOf(q) : q \in {q \in refresh : Live(q)} \ {r}} \cup
          {TicketOf(x) : x \in exchanges} = HeldTickets \ {old}
    <3> HIDE DEF old
    <3>1. TicketOf(r) = old
      BY DEF old
    <3> QED
      BY <2>3, <2>6, <3>1 DEF HeldTickets
  <2> HIDE DEF old, ticket, scope
  <2>9. HeldTickets' = (HeldTickets \ {old}) \cup {ticket}
    <3>1. HeldTickets' = {TicketOf(q) : q \in {q \in refresh' : Live(q)}}
                           \cup {TicketOf(x) : x \in exchanges'}
      BY DEF HeldTickets, Live
    <3> QED
      BY <1>6, <2>1, <2>8, <3>1
  <2>10. Ledger!Renew(old, scope, new)
    BY <2>1, <2>4, <2>5, <2>7, <2>9 DEF Ledger!Renew
  <2> QED
    BY <2>2, <2>4, <2>10 DEF Ledger!Next
<1> QED
  BY <1>1, <1>7, <1>8

\* The INSERTs of issueTokens write what the ledger has long counted.
LEMMA InsertsAreSilent ==
  ASSUME TypeOK, NEW x \in exchanges, InsertAccess(x) \/ InsertRefresh(x)
  PROVE  UNCHANGED Ledger!vars \/ Ledger!Next
<1>1. x \in Exchange
  BY DEF TypeOK
<1>2. CASE InsertAccess(x)
  <2> DEFINE y == [x EXCEPT !.stage = "refresh"]
             row == [token |-> x.token, tenant |-> x.tenant,
                     client |-> x.client, scope |-> x.scope,
                     family |-> x.family, revoked |-> FALSE,
                     expires |-> x.issued + AccessTTL]
  <2>1. /\ x.stage = "access"
        /\ access' = access \cup {row}
        /\ exchanges' = (exchanges \ {x}) \cup {y}
        /\ UNCHANGED <<codes, refresh, minted>>
    BY <1>2 DEF InsertAccess
  <2>2. y.stage = "refresh" /\ TicketOf(y) = TicketOf(x)
    BY <1>1 DEF Exchange, TicketOf
  <2>3. Live(row) /\ TicketOf(row) = TicketOf(x)
    BY DEF Live, TicketOf
  <2> HIDE DEF y, row
  <2>4. OpenTickets' = OpenTickets
    <3>1. {e \in exchanges' : e.stage = "access"} =
            {e \in exchanges : e.stage = "access"} \ {x}
      BY <2>1, <2>2
    <3>2. {a \in access' : Live(a)} = {a \in access : Live(a)} \cup {row}
      BY <2>1, <2>3
    <3>3. OpenTickets' = {TicketOf(r) : r \in {a \in access' : Live(a)} \cup
                                          {e \in exchanges' : e.stage = "access"}}
      BY DEF OpenTickets, Live
    <3> QED
      BY <2>1, <2>3, <3>1, <3>2, <3>3 DEF OpenTickets
  <2>5. HeldTickets' = HeldTickets
    <3>1. {TicketOf(e) : e \in exchanges'} = {TicketOf(e) : e \in exchanges}
      BY <2>1, <2>2
    <3>2. HeldTickets' = {TicketOf(q) : q \in {q \in refresh' : Live(q)}}
                           \cup {TicketOf(e) : e \in exchanges'}
      BY DEF HeldTickets, Live
    <3> QED
      BY <2>1, <3>1, <3>2, HeldParts
  <2>6. OfferedTickets' = OfferedTickets
    BY <2>1 DEF OfferedTickets
  <2> QED
    BY <2>1, <2>4, <2>5, <2>6 DEF Ledger!vars
<1>3. CASE InsertRefresh(x)
  <2> DEFINE row == [token |-> x.token, tenant |-> x.tenant,
                     client |-> x.client, scope |-> x.scope,
                     family |-> x.family, rotated |-> x.rotated,
                     revoked |-> FALSE, expires |-> x.issued + RefreshTTL]
  <2>1. /\ x.stage = "refresh"
        /\ refresh' = refresh \cup {row}
        /\ exchanges' = exchanges \ {x}
        /\ UNCHANGED <<codes, access, minted>>
    BY <1>3 DEF InsertRefresh
  <2>2. Live(row) /\ TicketOf(row) = TicketOf(x)
    BY DEF Live, TicketOf
  <2> HIDE DEF row
  <2>3. HeldTickets' = HeldTickets
    <3>1. {q \in refresh' : Live(q)} = {q \in refresh : Live(q)} \cup {row}
      BY <2>1, <2>2
    <3>2. HeldTickets' = {TicketOf(r) : r \in {q \in refresh' : Live(q)}
                                                \cup exchanges'}
      BY DEF HeldTickets, Live
    <3> QED
      BY <2>1, <2>2, <3>1, <3>2 DEF HeldTickets
  <2>4. {e \in exchanges' : e.stage = "access"} =
          {e \in exchanges : e.stage = "access"}
    BY <2>1
  <2>5. OpenTickets' = OpenTickets
    BY <2>1, <2>4 DEF OpenTickets, Live
  <2>6. OfferedTickets' = OfferedTickets
    BY <2>1 DEF OfferedTickets
  <2> QED
    BY <2>1, <2>3, <2>5, <2>6 DEF Ledger!vars
<1> QED
  BY <1>2, <1>3

\* Every step of the endpoint is a step of the ledger, or none.
LEMMA LedgerStep ==
  ASSUME TypeOK, Unspent, Begun, [Next]_vars
  PROVE  [Ledger!Next]_(Ledger!vars)
<1> DEFINE Fewer == /\ codes' \subseteq codes
                    /\ \A q \in refresh' : Live(q) => q \in refresh
                    /\ \A a \in access' : Live(a) => a \in access
                    /\ exchanges' \subseteq exchanges
                    /\ minted' = minted
<1>f. Fewer => Ledger!Next
  BY FewerLoses
<1>1. CASE Authorizing
  <2>1. PICK c \in Codes, t \in Tenants, k \in Clients,
             requested \in SUBSET Scopes, user \in SUBSET Scopes :
               Authorize(c, t, k, requested, user)
    BY <1>1 DEF Authorizing
  <2> DEFINE scope == GrantedScope(requested, user)
             row == [code |-> c, tenant |-> t, client |-> k,
                     scope |-> scope, expires |-> now + CodeTTL]
  <2>2. /\ codes' = codes \cup {row}
        /\ c \in Codes \ minted /\ minted' = minted \cup {c}
        /\ UNCHANGED <<access, refresh, exchanges>>
    BY <2>1 DEF Authorize
  <2>3. CodeTicket(row) = Ledger!Ticket(c, t, k, scope)
    BY DEF CodeTicket, Ledger!Ticket
  <2>4. scope \in SUBSET Scopes
    BY GrantedIsScope
  <2> HIDE DEF row, scope
  <2>5. OfferedTickets' = OfferedTickets \cup {CodeTicket(row)}
    BY <2>2 DEF OfferedTickets, CodeTicket
  <2>6. UNCHANGED <<HeldTickets, OpenTickets>>
    BY <2>2 DEF HeldTickets, OpenTickets, Live
  <2>7. Ledger!Offer(c, t, k, scope)
    BY <2>2, <2>3, <2>5, <2>6 DEF Ledger!Offer
  <2> QED
    BY <2>4, <2>7 DEF Ledger!Next
<1>2. CASE Exchanging
  BY <1>2, ExchangeRedeems DEF Exchanging
<1>3. CASE Rotating
  BY <1>3, RotateRenews DEF Rotating
<1>4. CASE Replaying
  BY <1>4, <1>f DEF Replaying, DetectReplay, tables, history
<1>5. CASE Revoking
  <2>1. PICK p \in replays : RevokeFamily(p)
    BY <1>5 DEF Revoking
  <2>2. \A q \in refresh' : Live(q) => q \in refresh
    <3>1. CASE p.family = Empty
      BY <2>1, <3>1 DEF RevokeFamily
    <3>2. CASE p.family # Empty
      BY <2>1, <3>2, MarkLeavesLive DEF RevokeFamily, RowsOf, TypeOK
    <3> QED
      BY <3>1, <3>2
  <2>3. \A a \in access' : Live(a) => a \in access
    <3>1. CASE p.family = Empty
      BY <2>1, <3>1 DEF RevokeFamily
    <3>2. CASE p.family # Empty
      BY <2>1, <3>2, MarkedAccessRevoked DEF RevokeFamily, RowsOf, TypeOK
    <3> QED
      BY <3>1, <3>2
  <2>4. UNCHANGED <<codes, exchanges, minted>>
    BY <2>1 DEF RevokeFamily
  <2> QED
    BY <2>2, <2>3, <2>4, <1>f
<1>6. CASE Issuing
  BY <1>6, InsertsAreSilent DEF Issuing
<1>7. CASE Failing
  BY <1>7, <1>f DEF Failing, FailExchange, FailRevoke, SweepFail, tables, history
<1>8. CASE Crash
  BY <1>8, <1>f DEF Crash, tables, history
<1>9. CASE Sweeping
  BY <1>9, <1>f
     DEF Sweeping, SweepCodes, SweepAccess, SweepRefresh, Purge, history
<1>10. CASE Tick
  BY <1>10, <1>f DEF Tick, tables, history
<1>11. CASE UNCHANGED vars
  BY <1>11, <1>f DEF vars
<1> QED
  BY <1>1, <1>2, <1>3, <1>4, <1>5, <1>6, <1>7, <1>8, <1>9, <1>10, <1>11
     DEF Next

\* The tokens an older version left are in the ledger from the start.
LEMMA LedgerInit == Init => Ledger!Init
<1> SUFFICES ASSUME Init PROVE Ledger!Init
  OBVIOUS
<1>1. TypeOK /\ Fresh
  BY InitTyped, InitFresh
<1>2. \A r \in refresh \cup access :
        TicketOf(r) \in [value: minted, tenant: Tenants, client: Clients,
                         scope: SUBSET Scopes]
  BY <1>1 DEF TypeOK, Fresh, Chained, RefreshRow, AccessRow, TicketOf
<1>3. exchanges = {} /\ codes = {} /\ minted \subseteq Tokens
  BY IdsAssumption DEF Init
<1>4. OfferedTickets = {}
  BY <1>3 DEF OfferedTickets
<1>5. /\ HeldTickets \subseteq {TicketOf(r) : r \in refresh}
      /\ OpenTickets \subseteq {TicketOf(r) : r \in access}
  BY <1>3 DEF HeldTickets, OpenTickets
<1> QED
  BY <1>2, <1>3, <1>4, <1>5 DEF Ledger!Init

\* To those who hold codes and tokens the endpoint is a ledger: in one step a
\* credential goes and its successor is there, whatever the statements,
\* failures and restarts underneath (issueTokens, ConsumeAuthCode,
\* ConsumeRefreshToken).
THEOREM TokensAreALedger == Spec => ImplementsLedger
<1> DEFINE IInv == /\ TypeOK /\ Fresh /\ AtMostOneLive
                   /\ SpentOnce /\ Unspent /\ Begun
<1>1. Init => IInv /\ Ledger!Init
  BY InitTyped, InitFresh, InitOneLive, InitSpent, ChainInit, LedgerInit
<1>2. IInv /\ [Next]_vars => IInv'
  BY NextTyped, NextFresh, NextOneLive, NextSpent, NextBegun
<1>3. IInv /\ [Next]_vars => [Ledger!Next]_(Ledger!vars)
  BY LedgerStep
<1> QED
  BY <1>1, <1>2, <1>3, PTL DEF Spec, ImplementsLedger, Ledger!Spec

-----------------------------------------------------------------------------
\* Every family that was revoked is settled.
KilledSettled == killed \subseteq settled

\* A family revoked with no exchange of it in flight is settled.
LEMMA AloneSettles ==
  KilledSettled /\ [Next]_vars /\ [KillsNoneInFlight]_vars
    => KilledSettled'
<1> SUFFICES ASSUME KilledSettled, [Next]_vars,
                    [KillsNoneInFlight]_vars
             PROVE  KilledSettled'
  OBVIOUS
<1>1. CASE Revoking
  <2>1. PICK p \in replays : RevokeFamily(p)
    BY <1>1 DEF Revoking
  <2>2. CASE p.family = Empty
    BY <2>1, <2>2 DEF KilledSettled, RevokeFamily, KillsNoneInFlight, vars
  <2>3. CASE p.family # Empty /\ \E x \in exchanges : x.family = p.family
    BY <2>1, <2>3 DEF KilledSettled, RevokeFamily, KillsNoneInFlight, vars
  <2>4. CASE p.family # Empty /\ ~\E x \in exchanges : x.family = p.family
    BY <2>1, <2>4 DEF KilledSettled, RevokeFamily, KillsNoneInFlight, vars
  <2> QED
    BY <2>2, <2>3, <2>4
<1>2. CASE ~Revoking
  <2>1. UNCHANGED <<killed, settled>>
    BY <1>2 DEF Next, vars, history, Authorizing, Authorize, Exchanging,
       ExchangeCode, Rotating, RotateRefresh, Replaying, DetectReplay, Issuing,
       InsertAccess, InsertRefresh, Failing, FailExchange, FailRevoke, SweepFail,
       Crash, Sweeping, SweepCodes, SweepAccess, SweepRefresh, Tick
  <2> QED
    BY <2>1 DEF KilledSettled
<1> QED
  BY <1>1, <1>2

\* The interleaving that the run "race" finds is the only way a revoked family
\* can come back: a replay that is acted upon while no exchange of the family
\* is in flight leaves nothing of it alive (storage.go: RevokeFamily).
THEOREM RaceAloneRevives == Spec /\ RevokedAlone => []ReplayEndsFamily
<1>1. Init => KilledSettled
  BY DEF Init, KilledSettled
<1>2. KilledSettled /\ SettledStaysDead => ReplayEndsFamily
  BY DEF KilledSettled, SettledStaysDead, ReplayEndsFamily
<1> QED
  BY <1>1, <1>2, AloneSettles, RevocationIsFinal, PTL DEF Spec, RevokedAlone

-----------------------------------------------------------------------------
\* The two rows of a pair.

\* What a DELETE or an UPDATE that revokes leaves of a table.
Remains(after, before) ==
    \A q \in after : \E d \in before : q.token = d.token /\ OfOneMind(q, d)

\* A DELETE.
LEMMA SubsetRemains ==
  ASSUME NEW before, NEW after \in SUBSET before
  PROVE  Remains(after, before)
  BY DEF Remains, OfOneMind

\* An UPDATE.
LEMMA MarkRemains ==
  ASSUME TypeOK, NEW table \in {access, refresh}, NEW rows \in SUBSET table
  PROVE  Remains(MarkRevoked(table, rows), table)
<1>1. CASE table = access
  <2>1. \A d \in table :
          /\ [d EXCEPT !.revoked = TRUE].token = d.token
          /\ OfOneMind([d EXCEPT !.revoked = TRUE], d)
    BY <1>1 DEF TypeOK, AccessRow, OfOneMind
  <2> QED
    BY <2>1 DEF Remains, MarkRevoked, OfOneMind
<1>2. CASE table = refresh
  <2>1. \A d \in table :
          /\ [d EXCEPT !.revoked = TRUE].token = d.token
          /\ OfOneMind([d EXCEPT !.revoked = TRUE], d)
    BY <1>2 DEF TypeOK, RefreshRow, OfOneMind
  <2> QED
    BY <2>1 DEF Remains, MarkRevoked, OfOneMind
<1> QED
  BY <1>1, <1>2

\* Where nothing is inserted and nothing started, pairs go on agreeing.
LEMMA RemainsAgree ==
  ASSUME PairsAgree, Remains(access', access), Remains(refresh', refresh),
         exchanges' \subseteq exchanges
  PROVE  PairsAgree'
<1> SUFFICES ASSUME NEW a \in access', NEW r \in refresh' \cup exchanges',
                    a.token = r.token
             PROVE  OfOneMind(a, r)
  BY DEF PairsAgree, OfOneMind
<1>1. PICK b \in access : a.token = b.token /\ OfOneMind(a, b)
  BY DEF Remains
<1>2. PICK q \in refresh \cup exchanges : r.token = q.token /\ OfOneMind(r, q)
  BY DEF Remains, OfOneMind
<1>3. OfOneMind(b, q)
  BY <1>1, <1>2 DEF PairsAgree
<1> QED
  BY <1>1, <1>2, <1>3 DEF OfOneMind

\* A new exchange has a token that no row has.
LEMMA StartAgrees ==
  ASSUME Fresh, PairsAgree, access' = access, Remains(refresh', refresh),
         NEW new \in Tokens, NEW t, NEW k, NEW sc, NEW rotated, NEW family,
         NEW source, StartExchange(new, t, k, sc, rotated, family, source)
  PROVE  PairsAgree'
<1>1. PICK y : exchanges' = exchanges \cup {y} /\ y.token = new
  <2>1. [stage |-> "access", token |-> new, tenant |-> t, client |-> k,
         scope |-> sc, family |-> ChainOf(new, family), rotated |-> rotated,
         issued |-> now].token = new
    OBVIOUS
  <2> QED
    BY <2>1 DEF StartExchange
<1>2. \A a \in access : a.token # new
  BY DEF StartExchange, Fresh, Chained
<1> SUFFICES ASSUME NEW a \in access, NEW r \in refresh' \cup exchanges',
                    a.token = r.token
             PROVE  OfOneMind(a, r)
  BY DEF PairsAgree, OfOneMind
<1>3. PICK q \in refresh \cup exchanges : r.token = q.token /\ OfOneMind(r, q)
  BY <1>1, <1>2 DEF Remains, OfOneMind
<1>4. OfOneMind(a, q)
  BY <1>3 DEF PairsAgree
<1> QED
  BY <1>3, <1>4 DEF OfOneMind

\* Every step keeps pairs in agreement.
LEMMA NextAgree ==
  TypeOK /\ Fresh /\ Unspent /\ PairsAgree /\ [Next]_vars => PairsAgree'
<1> SUFFICES ASSUME TypeOK, Fresh, Unspent, PairsAgree, [Next]_vars
             PROVE  PairsAgree'
  OBVIOUS
<1>0. Remains(access, access) /\ Remains(refresh, refresh)
  BY SubsetRemains
<1>1. CASE Exchanging
  <2>1. PICK c \in Codes, t \in Tenants, k \in Clients, proof \in BOOLEAN,
             new \in Tokens : ExchangeCode(c, t, k, proof, new)
    BY <1>1 DEF Exchanging
  <2>2. PICK r \in codes :
          \/ StartExchange(new, t, k, r.scope, Empty, Empty, c)
          \/ UNCHANGED exchanges
    BY <2>1 DEF ExchangeCode
  <2>3. access' = access /\ refresh' = refresh
    BY <2>1 DEF ExchangeCode
  <2> QED
    BY <1>0, <2>2, <2>3, StartAgrees, RemainsAgree
<1>2. CASE Rotating
  <2>1. PICK tok \in Tokens, t \in Tenants, k \in Clients,
             requested \in SUBSET Scopes, new \in Tokens :
               RotateRefresh(tok, t, k, requested, new)
    BY <1>2 DEF Rotating
  <2>2. PICK r \in refresh :
          \/ StartExchange(new, t, k, NarrowedScope(requested, r.scope),
                           tok, r.family, tok)
          \/ UNCHANGED exchanges
    BY <2>1 DEF RotateRefresh
  <2>3. /\ access' = access
        /\ refresh' = MarkRevoked(refresh, {d \in refresh : d.token = tok})
    BY <2>1 DEF RotateRefresh
  <2>4. Remains(refresh', refresh)
    BY <2>3, MarkRemains
  <2> QED
    BY <1>0, <2>2, <2>3, <2>4, StartAgrees, RemainsAgree
<1>3. CASE Revoking
  <2>1. PICK p \in replays : RevokeFamily(p)
    BY <1>3 DEF Revoking
  <2>2. /\ refresh' \in {refresh, MarkRevoked(refresh, RowsOf(p, refresh))}
        /\ access' \in {access, MarkRevoked(access, RowsOf(p, access))}
        /\ exchanges' = exchanges
    BY <2>1 DEF RevokeFamily
  <2>3. /\ RowsOf(p, refresh) \in SUBSET refresh
        /\ RowsOf(p, access) \in SUBSET access
    BY DEF RowsOf
  <2>4. Remains(refresh', refresh) /\ Remains(access', access)
    BY <1>0, <2>2, <2>3, MarkRemains
  <2> QED
    BY <2>2, <2>4, RemainsAgree
<1>4. ASSUME NEW x \in exchanges, InsertAccess(x)
      PROVE  PairsAgree'
  <2>1. x \in Exchange
    BY DEF TypeOK
  <2>2. PICK row : /\ access' = access \cup {row}
                   /\ row.token = x.token /\ OfOneMind(row, x)
    <3>1. PICK row : row =
            [token |-> x.token, tenant |-> x.tenant, client |-> x.client,
             scope |-> x.scope, family |-> x.family, revoked |-> FALSE,
             expires |-> x.issued + AccessTTL]
      OBVIOUS
    <3>2. access' = access \cup {row}
      BY <1>4, <3>1 DEF InsertAccess
    <3>3. row.token = x.token /\ OfOneMind(row, x)
      BY <3>1 DEF OfOneMind
    <3> QED
      BY <3>2, <3>3
  <2>3. PICK y : /\ exchanges' = (exchanges \ {x}) \cup {y}
                 /\ y.token = x.token /\ OfOneMind(y, x)
    <3>1. PICK y : y = [x EXCEPT !.stage = "refresh"]
      OBVIOUS
    <3>2. exchanges' = (exchanges \ {x}) \cup {y}
      BY <1>4, <3>1 DEF InsertAccess
    <3>3. y.token = x.token /\ OfOneMind(y, x)
      BY <2>1, <3>1 DEF Exchange, OfOneMind
    <3> QED
      BY <3>2, <3>3
  <2>4. refresh' = refresh
    BY <1>4 DEF InsertAccess
  <2> SUFFICES ASSUME NEW a \in access', NEW r \in refresh \cup exchanges',
                      a.token = r.token
               PROVE  OfOneMind(a, r)
    BY <2>4 DEF PairsAgree, OfOneMind
  <2>5. PICK q \in refresh \cup exchanges : q.token = r.token /\ OfOneMind(r, q)
    BY <2>3 DEF OfOneMind
  <2>6. CASE a \in access
    BY <2>5, <2>6 DEF PairsAgree, OfOneMind
  <2>7. CASE a = row
    <3>1. q = x
      BY <2>2, <2>5, <2>7 DEF Unspent
    <3> QED
      BY <2>2, <2>5, <2>7, <3>1 DEF OfOneMind
  <2> QED
    BY <2>2, <2>6, <2>7
<1>5. ASSUME NEW x \in exchanges, InsertRefresh(x)
      PROVE  PairsAgree'
  <2>1. PICK row : /\ refresh' = refresh \cup {row}
                   /\ row.token = x.token /\ OfOneMind(row, x)
    <3>1. PICK row : row =
            [token |-> x.token, tenant |-> x.tenant, client |-> x.client,
             scope |-> x.scope, family |-> x.family, rotated |-> x.rotated,
             revoked |-> FALSE, expires |-> x.issued + RefreshTTL]
      OBVIOUS
    <3>2. refresh' = refresh \cup {row}
      BY <1>5, <3>1 DEF InsertRefresh
    <3>3. row.token = x.token /\ OfOneMind(row, x)
      BY <3>1 DEF OfOneMind
    <3> QED
      BY <3>2, <3>3
  <2>2. access' = access /\ exchanges' = exchanges \ {x}
    BY <1>5 DEF InsertRefresh
  <2> SUFFICES ASSUME NEW a \in access, NEW r \in refresh' \cup exchanges',
                      a.token = r.token
               PROVE  OfOneMind(a, r)
    BY <2>2 DEF PairsAgree, OfOneMind
  <2>3. PICK q \in refresh \cup exchanges : q.token = r.token /\ OfOneMind(r, q)
    BY <2>1, <2>2 DEF OfOneMind
  <2> QED
    BY <2>3 DEF PairsAgree, OfOneMind
<1>6. CASE ~(Exchanging \/ Rotating \/ Revoking \/ Issuing)
  <2>1. /\ access' \subseteq access /\ refresh' \subseteq refresh
        /\ exchanges' \subseteq exchanges
    BY <1>6 DEF Next, vars, tables, Authorizing, Authorize, Replaying,
       DetectReplay, Failing, FailExchange, FailRevoke, SweepFail, Crash,
       Sweeping, SweepCodes, SweepAccess, SweepRefresh, Purge, Tick
  <2> QED
    BY <2>1, SubsetRemains, RemainsAgree
<1> QED
  BY <1>1, <1>2, <1>3, <1>4, <1>5, <1>6 DEF Issuing

\* An access token and the refresh token it was issued with stand for the same
\* rights of the same client in the same database for as long as both are there
\* (issueTokens).
THEOREM PairsOfOneMind == Spec => []PairsAgree
<1> DEFINE IInv == TypeOK /\ Fresh /\ SpentOnce /\ Unspent /\ PairsAgree
<1>1. Init => PairsAgree
  <2> SUFFICES ASSUME Init, NEW a \in access, NEW r \in refresh \cup exchanges,
                      a.token = r.token
               PROVE  OfOneMind(a, r)
    BY DEF PairsAgree
  <2>1. PICK t \in Tenants, k \in Clients, s \in SUBSET Scopes :
         /\ access = {[token |-> l, tenant |-> t, client |-> k, scope |-> s,
                       family |-> Empty, revoked |-> FALSE,
                       expires |-> AccessTTL] : l \in Legacy}
         /\ refresh = {[token |-> l, tenant |-> t, client |-> k, scope |-> s,
                        family |-> Empty, rotated |-> Empty,
                        revoked |-> FALSE,
                        expires |-> RefreshTTL] : l \in Legacy}
         /\ exchanges = {}
    BY DEF Init
  <2> QED
    BY <2>1 DEF OfOneMind
<1>2. Init => IInv
  BY <1>1, InitTyped, InitFresh, InitSpent
<1>3. IInv /\ [Next]_vars => IInv'
  BY NextTyped, NextFresh, NextSpent, NextAgree
<1> QED
  BY <1>2, <1>3, PTL DEF Spec
=============================================================================
