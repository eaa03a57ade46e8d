---------------------------- MODULE OAuthTokens ----------------------------
(***************************************************************************)
(* The token endpoint of the gate and the three SQLite tables behind it    *)
(* (internal/oauth/token.go, storage.go, the insert of authorize.go).      *)
(*                                                                         *)
(* A table is a set of rows; an INSERT adds one, an UPDATE maps the set, a *)
(* DELETE filters it.  Every statement runs alone: the process has one     *)
(* connection to the database, and a transaction keeps it to the end.  A   *)
(* handler runs several of them in a row and other handlers, the cleanup   *)
(* goroutine and a crash come in between, so a handler that has consumed   *)
(* its credential and has not yet written the successor is a record in     *)
(* "exchanges", and one that saw a replay and has not yet revoked the      *)
(* family is a record in "replays".                                        *)
(*                                                                         *)
(* Time is time.Now().Unix().  The random strings of the code are the      *)
(* members of Codes and Tokens, each minted once; a family is named after  *)
(* the first token of its chain.                                           *)
(***************************************************************************)
EXTENDS Integers, FiniteSets, ScopeRules

CONSTANTS
    Tenants, Clients, Scopes,   \* slugs, client_ids, scope names
    Codes, Tokens,              \* the values randomToken can return
    Legacy,                     \* tokens whose rows predate the family column
    Empty,                      \* the empty string in a column
    CodeTTL, AccessTTL, RefreshTTL,
    MaxTime                     \* bound: the clock stops here

ASSUME IdsAssumption ==
    /\ Legacy \subseteq Tokens
    /\ Codes \cap Tokens = {}
    /\ Empty \notin Codes \cup Tokens

ASSUME TimeAssumption ==
    CodeTTL \in Nat /\ AccessTTL \in Nat /\ RefreshTTL \in Nat /\ MaxTime \in Nat

VARIABLES
    codes, access, refresh,     \* the tables
    exchanges, replays,         \* handlers in flight
    sweep,                      \* the cleanup goroutine
    now,                        \* the clock
    minted,                     \* values randomToken has returned
    grants,                     \* history: where each family came from
    killed, settled             \* history: families RevokeFamily has run for,
                                \* and those with no exchange in flight then

tables == <<codes, access, refresh>>
history == <<grants, killed, settled>>
vars == <<codes, access, refresh, exchanges, replays, sweep, now, minted,
          grants, killed, settled>>

Families == Tokens \cup {Empty}

CodeRow == [code: Codes, tenant: Tenants, client: Clients,
            scope: SUBSET Scopes, expires: Nat]

AccessRow == [token: Tokens, tenant: Tenants, client: Clients,
              scope: SUBSET Scopes, family: Families,
              revoked: BOOLEAN, expires: Nat]

RefreshRow == [token: Tokens, tenant: Tenants, client: Clients,
               scope: SUBSET Scopes, family: Families, rotated: Families,
               revoked: BOOLEAN, expires: Nat]

\* A handler between the consumption of a credential and its last INSERT.
Exchange == [stage: {"access", "refresh"}, token: Tokens, tenant: Tenants,
             client: Clients, scope: SUBSET Scopes, family: Tokens,
             rotated: Families, issued: Nat]

Replay == [tenant: Tenants, family: Families]

Grant == [family: Tokens, source: Codes \cup Tokens, tenant: Tenants,
          client: Clients, scope: SUBSET Scopes]

SweepIdle == [stage |-> "idle", cutoff |-> 0]

-----------------------------------------------------------------------------
Expired(row) == now > row.expires

\* ConsumeRefreshToken looks for the replay first, then at the expiry.
\* Mutant: the replay goes unnoticed.
UnexpiredOnly(row) == ~Expired(row)

Usable(row) == ~row.revoked /\ ~Expired(row)

\* UPDATE ... SET revoked = 1.  Mutant: the update is lost.
MarkNothing(table, rows) == table

MarkRevoked(table, rows) ==
    (table \ rows) \cup {[r EXCEPT !.revoked = TRUE] : r \in rows}

-----------------------------------------------------------------------------
\* A database that an older version of the gate has already used: some
\* refresh and access tokens carry no family.
Init ==
    /\ codes = {}
    /\ \E t \in Tenants, k \in Clients, s \in SUBSET Scopes :
         /\ access = {[token |-> l, tenant |-> t, client |-> k, scope |-> s,
                       family |-> Empty, revoked |-> FALSE,
                       expires |-> AccessTTL] : l \in Legacy}
         /\ refresh = {[token |-> l, tenant |-> t, client |-> k, scope |-> s,
                        family |-> Empty, rotated |-> Empty,
                        revoked |-> FALSE,
                        expires |-> RefreshTTL] : l \in Legacy}
    /\ exchanges = {}
    /\ replays = {}
    /\ sweep = SweepIdle
    /\ now = 0
    /\ minted = Legacy
    /\ grants = {}
    /\ killed = {}
    /\ settled = {}

\* authorizePOST after the key has been verified: the code is stored.
Authorize(c, t, k, requested, user) ==
    /\ c \notin minted
    /\ minted' = minted \cup {c}
    /\ codes' = codes \cup {[code |-> c, tenant |-> t, client |-> k,
                             scope |-> GrantedScope(requested, user),
                             expires |-> now + CodeTTL]}
    /\ UNCHANGED <<access, refresh, exchanges, replays, sweep, now, history>>

\* The family is inherited, or started when there is none.
ChainOf(new, family) == IF family = Empty THEN new ELSE family

\* The part of issueTokens that comes before the first INSERT: fresh strings,
\* the family and the time.
StartExchange(new, t, k, scope, rotated, family, source) ==
    LET chain == ChainOf(new, family)
    IN  /\ new \in Tokens \ minted
        /\ minted' = minted \cup {new}
        /\ exchanges' = exchanges \cup
             {[stage |-> "access", token |-> new, tenant |-> t, client |-> k,
               scope |-> scope, family |-> chain, rotated |-> rotated,
               issued |-> now]}
        /\ grants' = IF family # Empty THEN grants ELSE grants \cup
             {[family |-> chain, source |-> source, tenant |-> t,
               client |-> k, scope |-> scope]}

\* Mutant: the code survives its use.
CodesKept(c) == codes

CodesWithout(c) == {d \in codes : d.code # c}

\* ConsumeAuthCode deletes the row in its transaction; only then are the
\* expiry, the client and redirect_uri, and the PKCE verifier looked at.
\* "proof" stands for a matching redirect_uri and verifier.
ExchangeCode(c, t, k, proof, new) ==
    \E r \in codes :
      /\ r.code = c /\ r.tenant = t
      /\ codes' = CodesWithout(c)
      /\ IF ~Expired(r) /\ r.client = k /\ proof
           THEN StartExchange(new, t, k, r.scope, Empty, Empty, c)
           ELSE UNCHANGED <<minted, exchanges, grants>>
      /\ UNCHANGED <<access, refresh, replays, sweep, now, killed, settled>>

\* tokenRefreshToken with a live token.  The row is marked before the client
\* and the scope are checked, so a failed check still spends the token.
RotateRefresh(tok, t, k, requested, new) ==
    \E r \in refresh :
      /\ r.token = tok /\ r.tenant = t
      /\ Usable(r)
      /\ refresh' = MarkRevoked(refresh, {d \in refresh : d.token = tok})
      /\ IF r.client = k /\ ~ScopeRefused(requested, r.scope)
           THEN StartExchange(new, t, k, NarrowedScope(requested, r.scope),
                              tok, r.family, tok)
           ELSE UNCHANGED <<minted, exchanges, grants>>
      /\ UNCHANGED <<codes, access, replays, sweep, now, killed, settled>>

\* tokenRefreshToken with a spent token: ConsumeRefreshToken reports the
\* replay (before it looks at the expiry) and the handler goes on to revoke.
DetectReplay(tok, t) ==
    \E r \in refresh :
      /\ r.token = tok /\ r.tenant = t
      /\ r.revoked
      /\ replays' = replays \cup {[tenant |-> t, family |-> r.family]}
      /\ UNCHANGED <<tables, exchanges, sweep, now, minted, history>>

\* Mutant: the whole tenant.
RowsOfTenant(p, table) == {r \in table : r.tenant = p.tenant}

RowsOf(p, table) ==
    {r \in table : r.family = p.family /\ r.tenant = p.tenant}

\* Mutant: the access tokens are left to expire.
RevokeRefreshOnly(p) ==
    /\ p \in replays
    /\ replays' = replays \ {p}
    /\ refresh' = MarkRevoked(refresh, RowsOf(p, refresh))
    /\ killed' = killed \cup {p.family}
    /\ settled' = settled \cup ({p.family} \ {x.family : x \in exchanges})
    /\ UNCHANGED <<codes, access, exchanges, sweep, now, minted, grants>>

\* Mutant: rows without a family are taken for one family.
RevokeUnnamed(p) ==
    /\ p \in replays
    /\ replays' = replays \ {p}
    /\ refresh' = MarkRevoked(refresh, RowsOf(p, refresh))
    /\ access' = MarkRevoked(access, RowsOf(p, access))
    /\ UNCHANGED <<codes, exchanges, sweep, now, minted, history>>

\* RevokeFamily: both UPDATEs in one transaction; no family, no UPDATE.
RevokeFamily(p) ==
    /\ p \in replays
    /\ replays' = replays \ {p}
    /\ IF p.family = Empty
         THEN UNCHANGED <<access, refresh, killed, settled>>
         ELSE /\ refresh' = MarkRevoked(refresh, RowsOf(p, refresh))
              /\ access' = MarkRevoked(access, RowsOf(p, access))
              /\ killed' = killed \cup {p.family}
              /\ settled' = IF \E x \in exchanges : x.family = p.family
                              THEN settled ELSE settled \cup {p.family}
    /\ UNCHANGED <<codes, exchanges, sweep, now, minted, grants>>

\* CreateAccessToken
InsertAccess(x) ==
    /\ x \in exchanges /\ x.stage = "access"
    /\ access' = access \cup
         {[token |-> x.token, tenant |-> x.tenant, client |-> x.client,
           scope |-> x.scope, family |-> x.family, revoked |-> FALSE,
           expires |-> x.issued + AccessTTL]}
    /\ exchanges' = (exchanges \ {x}) \cup {[x EXCEPT !.stage = "refresh"]}
    /\ UNCHANGED <<codes, refresh, replays, sweep, now, minted, history>>

\* CreateRefreshToken; the handler answers and is done.
InsertRefresh(x) ==
    /\ x \in exchanges /\ x.stage = "refresh"
    /\ refresh' = refresh \cup
         {[token |-> x.token, tenant |-> x.tenant, client |-> x.client,
           scope |-> x.scope, family |-> x.family, rotated |-> x.rotated,
           revoked |-> FALSE, expires |-> x.issued + RefreshTTL]}
    /\ exchanges' = exchanges \ {x}
    /\ UNCHANGED <<codes, access, replays, sweep, now, minted, history>>

\* A statement fails, or the client went away and the request context was
\* cancelled: issueTokens returns its error, a failed RevokeFamily is logged.
FailExchange(x) ==
    /\ x \in exchanges
    /\ exchanges' = exchanges \ {x}
    /\ UNCHANGED <<tables, replays, sweep, now, minted, history>>

FailRevoke(p) ==
    /\ p \in replays
    /\ replays' = replays \ {p}
    /\ UNCHANGED <<tables, exchanges, sweep, now, minted, history>>

\* The process stops and starts again on the same database.
Crash ==
    /\ exchanges # {} \/ replays # {} \/ sweep # SweepIdle
    /\ exchanges' = {}
    /\ replays' = {}
    /\ sweep' = SweepIdle
    /\ UNCHANGED <<tables, now, minted, history>>

\* CleanupExpired: one cutoff, three DELETEs outside any transaction; an
\* error in one returns before the next.
\* Mutant: off by one second.
PurgeEarly(table, cutoff) == {r \in table : r.expires > cutoff}

Purge(table, cutoff) == {r \in table : ~(r.expires < cutoff)}

SweepCodes ==
    /\ sweep = SweepIdle
    /\ codes' = Purge(codes, now)
    /\ sweep' = [stage |-> "access", cutoff |-> now]
    /\ UNCHANGED <<access, refresh, exchanges, replays, now, minted, history>>

\* Mutant: the second DELETE is the last.
SweepStopsEarly ==
    /\ sweep.stage = "access"
    /\ access' = Purge(access, sweep.cutoff)
    /\ sweep' = SweepIdle
    /\ UNCHANGED <<codes, refresh, exchanges, replays, now, minted, history>>

SweepAccess ==
    /\ sweep.stage = "access"
    /\ access' = Purge(access, sweep.cutoff)
    /\ sweep' = [sweep EXCEPT !.stage = "refresh"]
    /\ UNCHANGED <<codes, refresh, exchanges, replays, now, minted, history>>

SweepRefresh ==
    /\ sweep.stage = "refresh"
    /\ refresh' = Purge(refresh, sweep.cutoff)
    /\ sweep' = SweepIdle
    /\ UNCHANGED <<codes, access, exchanges, replays, now, minted, history>>

SweepFail ==
    /\ sweep # SweepIdle
    /\ sweep' = SweepIdle
    /\ UNCHANGED <<tables, exchanges, replays, now, minted, history>>

Tick ==
    /\ now < MaxTime
    /\ now' = now + 1
    /\ UNCHANGED <<tables, exchanges, replays, sweep, minted, history>>

-----------------------------------------------------------------------------
Authorizing ==
    \E c \in Codes, t \in Tenants, k \in Clients :
      \E requested \in SUBSET Scopes, user \in SUBSET Scopes :
        Authorize(c, t, k, requested, user)

Exchanging ==
    \E c \in Codes, t \in Tenants, k \in Clients, proof \in BOOLEAN,
       new \in Tokens : ExchangeCode(c, t, k, proof, new)

Rotating ==
    \E tok \in Tokens, t \in Tenants, k \in Clients,
       requested \in SUBSET Scopes, new \in Tokens :
         RotateRefresh(tok, t, k, requested, new)

Replaying == \E tok \in Tokens, t \in Tenants : DetectReplay(tok, t)

Revoking == \E p \in replays : RevokeFamily(p)

Issuing == \E x \in exchanges : InsertAccess(x) \/ InsertRefresh(x)

Failing ==
    \/ \E x \in exchanges : FailExchange(x)
    \/ \E p \in replays : FailRevoke(p)
    \/ SweepFail

Sweeping == SweepCodes \/ SweepAccess \/ SweepRefresh

Next ==
    \/ Authorizing \/ Exchanging \/ Rotating \/ Replaying \/ Revoking
    \/ Issuing \/ Failing \/ Crash \/ Sweeping \/ Tick

Spec == Init /\ [][Next]_vars

\* The hourly ticker never stops (main.go), and a statement of the cleanup
\* does not fail every single time it is tried.
Fairness ==
    /\ WF_vars(SweepCodes)
    /\ SF_vars(SweepAccess)
    /\ SF_vars(SweepRefresh)

FairSpec == Spec /\ Fairness

-----------------------------------------------------------------------------
Live(row) == ~row.revoked

Chained == access \cup refresh \cup exchanges

\* Every table holds rows of its schema, every handler in flight carries
\* what its stage needs.
TypeOK ==
    /\ codes \subseteq CodeRow
    /\ access \subseteq AccessRow
    /\ refresh \subseteq RefreshRow
    /\ exchanges \subseteq Exchange
    /\ replays \subseteq Replay
    /\ sweep \in [stage: {"idle", "access", "refresh"}, cutoff: Nat]
    /\ now \in Nat
    /\ minted \subseteq Codes \cup Tokens
    /\ grants \subseteq Grant
    /\ killed \subseteq Tokens
    /\ settled \subseteq Tokens

\* A family never has two ways to continue: of its live refresh tokens and
\* the exchanges that are about to write one there is at most one, whatever
\* consumes, failures, revocations and cleanups came before
\* (ConsumeRefreshToken, issueTokens).
AtMostOneLive ==
    /\ \A r, q \in refresh :
         r.family = q.family /\ r.family # Empty /\ Live(r) /\ Live(q)
           => r = q
    /\ \A x, y \in exchanges : x.family = y.family => x = y
    /\ \A r \in refresh, x \in exchanges : r.family = x.family => ~Live(r)

\* Nothing refers to a value before randomToken has returned it: what the
\* uniqueness of chains rests on.
Fresh ==
    /\ \A r \in Chained : r.token \in minted /\ r.family \in minted \cup {Empty}
    /\ \A p \in replays : p.family \in minted \cup {Empty}
    /\ \A g \in grants : g.family \in minted
    /\ settled \subseteq minted

\* A credential is spent at most once, even when requests race and even when
\* its row has no family: no two tokens were rotated from the same one, no
\* two families started from the same code.
SpentOnce ==
    /\ \A a, b \in refresh \cup exchanges :
         a.rotated # Empty /\ a.rotated = b.rotated => a.token = b.token
    /\ \A g, h \in grants : g.source = h.source => g = h

\* What still can be spent has not been spent yet.
Unspent ==
    /\ \A r, q \in refresh : r.token = q.token => r = q
    /\ \A x, y \in exchanges : x.token = y.token => x = y
    /\ \A r \in refresh, x \in exchanges : r.token # x.token
    /\ \A c \in codes : c.code \in minted /\ \A g \in grants : g.source # c.code
    /\ \A a \in refresh \cup exchanges : a.rotated \in minted \cup {Empty}
    /\ \A g \in grants : g.source \in minted
    /\ \A r \in {q \in refresh : Live(q)} \cup exchanges :
         /\ \A a \in refresh \cup exchanges : a.rotated # r.token
         /\ \A g \in grants : g.source # r.token

\* Whatever a chain goes through, its rows keep the tenant and the client of
\* the grant it started from, and never carry a scope the grant lacked.
ChainWithinGrant ==
    \A r \in Chained : r.family # Empty =>
      \E g \in grants : /\ g.family = r.family
                        /\ g.tenant = r.tenant
                        /\ g.client = r.client
                        /\ r.scope \subseteq g.scope

\* A family comes from one grant, and a replay is answered in its tenant.
Rooted ==
    /\ \A g, h \in grants : g.family = h.family => g = h
    /\ \A p \in replays : p.family # Empty =>
         \E g \in grants : g.family = p.family /\ g.tenant = p.tenant

\* Once RevokeFamily has run while no exchange of the family was in flight,
\* nothing of the family is usable again, ever (storage.go, RevokeFamily).
SettledStaysDead ==
    /\ \A r \in access \cup refresh : r.family \in settled => ~Live(r)
    /\ \A x \in exchanges : x.family \notin settled

\* CleanupExpired never takes what still counts: a code, an access token
\* somebody may present, and a refresh token, spent ones included: their
\* rows are how a replay is recognised.
SweepSparesUnexpired ==
    [][ sweep' # sweep =>
          /\ \A r \in codes : Expired(r) \/ r \in codes'
          /\ \A r \in access : Expired(r) \/ r \in access'
          /\ \A r \in refresh : Expired(r) \/ r \in refresh' ]_vars

\* An access token is revoked only by a replay inside its own family: other
\* sessions, and the rows without a family, are never swept up with it.
RevocationIsPrecise ==
    [][ \A a \in access :
          Live(a) /\ [a EXCEPT !.revoked = TRUE] \in access' =>
            /\ a.family # Empty
            /\ [tenant |-> a.tenant, family |-> a.family] \in replays ]_vars

\* A replay, once it has been acted upon, leaves nothing alive in the family.
ReplayEndsFamily ==
    \A r \in access \cup refresh : r.family \in killed => ~Live(r)

\* No family is revoked while one of its exchanges is in flight: what would
\* make ReplayEndsFamily hold, and what nothing in token.go sees to.
KillsNoneInFlight ==
    \A x \in exchanges : x.family \in killed' => x.family \in killed

RevokedAlone == [][KillsNoneInFlight]_vars

\* The two rows of a pair are of one mind, however far apart they are written,
\* revoked and swept: same database, client, rights and family.  AuthServer
\* takes them for one row (issueTokens).
OfOneMind(a, r) ==
    /\ a.tenant = r.tenant /\ a.client = r.client
    /\ a.scope = r.scope /\ a.family = r.family

PairsAgree ==
    \A a \in access, r \in refresh \cup exchanges :
      a.token = r.token => OfOneMind(a, r)

\* An expired row does not stay in the database for ever.
ExpiredIsPurged ==
    /\ \A c \in Codes : (\E r \in codes : r.code = c /\ Expired(r))
                          ~> (\A r \in codes : r.code # c)
    /\ \A t \in Tokens : (\E r \in refresh : r.token = t /\ Expired(r))
                           ~> (\A r \in refresh : r.token # t)
    /\ \A t \in Tokens : (\E r \in access : r.token = t /\ Expired(r))
                           ~> (\A r \in access : r.token # t)

-----------------------------------------------------------------------------
\* The chain that grew out of one authorization, seen from outside: see
\* GrantChain.  A chain is known by its code, or by its pre-family token.
Sources == Codes \cup Legacy

FamilyOf(s) == {g.family : g \in {h \in grants : h.source = s}}

Presentable(s) ==
    {r \in codes : r.code = s} \cup
    {r \in refresh : /\ Live(r)
                     /\ \/ r.family \in FamilyOf(s)
                        \/ r.family = Empty /\ r.token = s}

InFlight(s) == {x \in exchanges : x.family \in FamilyOf(s)}

Carriers(s) == Presentable(s) \cup InFlight(s)

Phase(s) ==
    IF \E a, b \in Carriers(s) : a # b THEN "forked"
    ELSE IF InFlight(s) # {} THEN "moving"
    ELSE IF Presentable(s) # {} THEN "held"
    ELSE IF s \in minted THEN "closed" ELSE "unborn"

Chain == INSTANCE GrantChain
           WITH phase <- [s \in Sources |-> Phase(s)],
                scope <- [s \in Sources |-> UNION {r.scope : r \in Carriers(s)}]

\* The token endpoint implements the chain of GrantChain for every grant.
ImplementsGrantChain == Chain!Spec

-----------------------------------------------------------------------------
\* The tables and the exchanges as one ledger: see TokenLedger.  A token that
\* is about to be written counts from the moment its predecessor was spent.
TicketOf(row) ==
    [value |-> row.token, tenant |-> row.tenant, client |-> row.client,
     scope |-> row.scope]

OfferedTickets ==
    {[value |-> r.code, tenant |-> r.tenant, client |-> r.client,
      scope |-> r.scope] : r \in codes}

HeldTickets == {TicketOf(r) : r \in {q \in refresh : Live(q)} \cup exchanges}

OpenTickets ==
    {TicketOf(r) : r \in {a \in access : Live(a)} \cup
                         {x \in exchanges : x.stage = "access"}}

Ledger == INSTANCE TokenLedger
            WITH drawn <- minted, offered <- OfferedTickets,
                 held <- HeldTickets, open <- OpenTickets

\* To whoever holds a code or a token, the endpoint is the ledger of
\* TokenLedger: however its statements, failures and restarts fall, no token
\* ever appears but in the place of one that is gone, and with its rights
\* (issueTokens, ConsumeAuthCode, ConsumeRefreshToken).
ImplementsLedger == Ledger!Spec
=============================================================================
