----------------------------- MODULE AuthServer -----------------------------
(***************************************************************************)
(* The way of one access key to the scopes of a served request, in several *)
(* databases at once: registration of a client, the login form, the code,  *)
(* the token pair and its renewals, the bearer check (register.go,         *)
(* authorize.go, middleware.go and server.go of internal/oauth, and what   *)
(* token.go decides).                                                      *)
(*                                                                         *)
(* Every database (slug) has a Server of its own over shared tables, told  *)
(* apart by the tenant column.  A POST of the login form that waits for 1C *)
(* to answer, or has the answer and has not yet stored its code, is an     *)
(* entry of "logins"; 1C, the settings of the database and other requests  *)
(* move on meanwhile.  The steps between the consumption of a credential   *)
(* and the last INSERT, expiry and cleanup are taken apart in OAuthTokens: *)
(* here an issue is one step and rows are never dropped, which can only    *)
(* add to what the invariants quantify over.  The cache in front of 1C is  *)
(* taken apart in KeyCache: here it may repeat any reply it has not yet    *)
(* forgotten, or an error.                                                 *)
(*                                                                         *)
(* An app stands for one installation of an MCP client: it knows its own   *)
(* PKCE verifier, and the challenge in a request is named after it.  A     *)
(* request that is malformed (response_type, PKCE method, an empty field)  *)
(* or names the resource of another database is refused before anything    *)
(* changes and has no step here; neither has the GET of the form, which    *)
(* only reads.                                                             *)
(***************************************************************************)
EXTENDS Integers, FiniteSets, ScopeRules

CONSTANTS
    Slugs, ClientIds, Redirects,
    Allowed,                    \* redirect URIs that are https or local
    Apps, Visitors,             \* PKCE verifiers; browsers at the login form
    Keys, Scopes,
    Supported,                  \* per slug: SupportedScopes of the Server
    DevUser, NoKey,             \* the sub "dev-user"; no dev key is set
    Codes, Pairs,               \* the values randomToken can return
    MaxChanges                  \* bound: changes in 1C and in /admin

ASSUME NamesAssumption == DevUser \notin Keys /\ NoKey \notin Keys

ASSUME ScopesAssumption ==
    Supported \in [Slugs -> SUBSET Scopes] /\ Allowed \subseteq Redirects

ASSUME BoundAssumption == MaxChanges \in Nat

VARIABLES
    clients, codes, pairs,      \* the tables
    logins,                     \* POSTs of the form in progress
    devKey,                     \* the setting of each database
    account,                    \* 1C: what it says of a key now
    remembered,                 \* replies the cache may still give
    minted,                     \* values randomToken has returned
    changes,                    \* counts what MaxChanges bounds
    granted                     \* history: every scope list a key has stood for

tables == <<clients, codes, pairs>>
outside == <<devKey, account, remembered, changes, granted>>
vars == <<clients, codes, pairs, logins, devKey, account, remembered,
          minted, changes, granted>>

Subs == Keys \cup {DevUser}

\* What POST /mcp/auth/verify says of a key: a user with scopes, perhaps none,
\* or 401.
Refusal == [ok |-> FALSE, scope |-> {}]

Verdict == {[ok |-> TRUE, scope |-> g] : g \in SUBSET Scopes} \cup {Refusal}

Client == [id: ClientIds, tenant: Slugs, redirects: SUBSET Redirects]

\* What a login asks for.
Request == [tenant: Slugs, client: ClientIds, redirect: Redirects,
            app: Apps, scope: SUBSET Scopes, key: Keys]

\* "asked" waits for 1C, "known" has a user and a scope and no code yet.
Login == [stage: {"idle"}]
           \cup [stage: {"asked"}, request: Request]
           \cup [stage: {"known"}, request: Request, sub: Subs,
                 scope: SUBSET Scopes]

CodeRow == [code: Codes, tenant: Slugs, client: ClientIds,
            redirect: Redirects, challenge: Apps, sub: Subs,
            scope: SUBSET Scopes]

\* The two rows that issueTokens writes.  "spent" is the revoked column of the
\* refresh row; "lapsed" is history: whether the pair was renewed when neither
\* 1C nor the cache accepted the key any more.
PairRow == [pair: Pairs, tenant: Slugs, resource: Slugs, client: ClientIds,
            sub: Subs, scope: SUBSET Scopes, spent: BOOLEAN, lapsed: BOOLEAN]

Idle == [stage |-> "idle"]

Grant(s, u, g) == [tenant |-> s, sub |-> u, scope |-> g]

-----------------------------------------------------------------------------
Init ==
    /\ clients = {} /\ codes = {} /\ pairs = {}
    /\ logins = [v \in Visitors |-> Idle]
    /\ devKey \in [Slugs -> Keys \cup {NoKey}]
    /\ account \in [Slugs \X Keys -> Verdict]
    /\ remembered = [a \in Slugs \X Keys |-> {account[a]}]
    /\ minted = {}
    /\ changes = 0
    /\ granted = {Grant(a[1], a[2], account[a].scope) :
                    a \in {b \in Slugs \X Keys : account[b].ok}}
                 \cup {Grant(s, DevUser, Supported[s]) : s \in Slugs}

\* HandleRegister.  The scope of the client is stored and never read again.
Register(c, s, uris) ==
    /\ uris # {} /\ uris \subseteq Allowed
    /\ \A row \in clients : row.id # c
    /\ clients' = clients \cup {[id |-> c, tenant |-> s, redirects |-> uris]}
    /\ UNCHANGED <<codes, pairs, logins, minted, outside>>

\* validateAuthorizeParams: the client of this database, and one of its own
\* redirect URIs.  Mutant: what the form carries is trusted on the POST.
KnownClient(q) ==
    \E row \in clients : row.id = q.client /\ row.tenant = q.tenant

ValidRequest(q) ==
    \E row \in clients : /\ row.id = q.client
                         /\ row.tenant = q.tenant
                         /\ q.redirect \in row.redirects

\* The POST of the form up to the call of VerifyKey.  The dev key of the
\* database, if it has one, is tried first and needs no call.
Post(v, q) ==
    /\ logins[v] = Idle
    /\ ValidRequest(q)
    /\ logins' = [logins EXCEPT ![v] =
         IF q.key = devKey[q.tenant]
           THEN [stage |-> "known", request |-> q, sub |-> DevUser,
                 scope |-> GrantedScope(q.scope, Supported[q.tenant])]
           ELSE [stage |-> "asked", request |-> q]]
    /\ UNCHANGED <<tables, minted, outside>>

\* VerifyKey returns a user, from 1C or from the cache.
Accept(v) ==
    /\ logins[v].stage = "asked"
    /\ LET q == logins[v].request
       IN  \E reply \in remembered[<<q.tenant, q.key>>] :
             /\ reply.ok
             /\ logins' = [logins EXCEPT ![v] =
                  [stage |-> "known", request |-> q, sub |-> q.key,
                   scope |-> GrantedScope(q.scope, reply.scope)]]
    /\ UNCHANGED <<tables, minted, outside>>

\* VerifyKey returns an error, a refusal or a failed call, or CreateAuthCode
\* does: the form or an error page is shown.
GiveUp(v) ==
    /\ logins[v] # Idle
    /\ logins' = [logins EXCEPT ![v] = Idle]
    /\ UNCHANGED <<tables, minted, outside>>

\* CreateAuthCode and the redirect with the code.
StoreCode(v, c) ==
    /\ logins[v].stage = "known"
    /\ c \in Codes \ minted
    /\ minted' = minted \cup {c}
    /\ LET login == logins[v]
       IN  codes' = codes \cup
             {[code |-> c, tenant |-> login.request.tenant,
               client |-> login.request.client,
               redirect |-> login.request.redirect,
               challenge |-> login.request.app,
               sub |-> login.sub, scope |-> login.scope]}
    /\ logins' = [logins EXCEPT ![v] = Idle]
    /\ UNCHANGED <<clients, pairs, outside>>

\* issueTokens as the Server of database s runs it.
Pair(p, s, row, scope, lapsed) ==
    [pair |-> p, tenant |-> s, resource |-> s, client |-> row.client,
     sub |-> row.sub, scope |-> scope, spent |-> FALSE, lapsed |-> lapsed]

\* ConsumeAuthCode.  Mutant: the tenant is left out of the WHERE.
AnyCode(c, s) == {row \in codes : row.code = c}

FoundCode(c, s) == {row \in codes : row.code = c /\ row.tenant = s}

\* What is looked at once the code is gone.
Matches(row, h, client, redirect) ==
    /\ row.client = client /\ row.redirect = redirect
    /\ row.challenge = h

\* tokenAuthorizationCode: app h presents a code to the Server of s.  The code
\* is spent before the rest is checked.
Exchange(h, s, c, client, redirect, p) ==
    \E row \in FoundCode(c, s) :
      /\ codes' = codes \ {row}
      /\ IF Matches(row, h, client, redirect)
           THEN /\ p \in Pairs \ minted
                /\ minted' = minted \cup {p}
                /\ pairs' = pairs \cup {Pair(p, s, row, row.scope, FALSE)}
           ELSE UNCHANGED <<minted, pairs>>
      /\ UNCHANGED <<clients, logins, outside>>

Vouched(s, u) ==
    u = DevUser \/ \E reply \in remembered[<<s, u>>] : reply.ok

\* ConsumeRefreshToken.  Mutant: the token that was presented stays good.
Unspent(row) == pairs

Spend(row) == (pairs \ {row}) \cup {[row EXCEPT !.spent = TRUE]}

\* tokenRefreshToken: the holder of a pair renews it.  Nobody asks 1C.
Renew(row, s, client, requested, p) ==
    /\ row \in pairs /\ row.tenant = s /\ ~row.spent
    /\ IF row.client = client /\ ~ScopeRefused(requested, row.scope)
         THEN /\ p \in Pairs \ minted
              /\ minted' = minted \cup {p}
              /\ pairs' = Spend(row) \cup
                   {Pair(p, s, row, NarrowedScope(requested, row.scope),
                         ~Vouched(s, row.sub))}
         ELSE pairs' = Spend(row) /\ UNCHANGED minted
    /\ UNCHANGED <<clients, codes, logins, outside>>

\* The administrator of 1C changes an account: rights, the key, the flag.
Switch(s, k, reply) ==
    /\ changes < MaxChanges /\ reply # account[<<s, k>>]
    /\ changes' = changes + 1
    /\ account' = [account EXCEPT ![<<s, k>>] = reply]
    /\ remembered' = [remembered EXCEPT ![<<s, k>>] = @ \cup {reply}]
    /\ granted' = IF reply.ok THEN granted \cup {Grant(s, k, reply.scope)}
                              ELSE granted
    /\ UNCHANGED <<tables, logins, devKey, minted>>

\* Entries of the cache ran out, or the database was saved in /admin and has a
\* new Server with an empty cache.
Forget(s, k) ==
    \E kept \in SUBSET remembered[<<s, k>>] :
      /\ account[<<s, k>>] \in kept /\ kept # remembered[<<s, k>>]
      /\ remembered' = [remembered EXCEPT ![<<s, k>>] = kept]
      /\ UNCHANGED <<tables, logins, devKey, account, minted, changes, granted>>

\* The dev key of a database is set, changed or cleared in /admin.
EditDevKey(s, k) ==
    /\ changes < MaxChanges /\ k # devKey[s]
    /\ changes' = changes + 1
    /\ devKey' = [devKey EXCEPT ![s] = k]
    /\ UNCHANGED <<tables, logins, account, remembered, minted, granted>>

-----------------------------------------------------------------------------
Registering ==
    \E c \in ClientIds, s \in Slugs, uris \in SUBSET Redirects :
      Register(c, s, uris)

LoggingIn ==
    \E v \in Visitors :
      \/ \E q \in Request : Post(v, q)
      \/ Accept(v)
      \/ GiveUp(v)
      \/ \E c \in Codes : StoreCode(v, c)

Exchanging ==
    \E h \in Apps, s \in Slugs, c \in Codes, client \in ClientIds,
       redirect \in Redirects, p \in Pairs :
         Exchange(h, s, c, client, redirect, p)

Renewing ==
    \E row \in pairs, s \in Slugs, client \in ClientIds,
       requested \in SUBSET Scopes, p \in Pairs :
         Renew(row, s, client, requested, p)

Changing ==
    \E s \in Slugs :
      \/ \E k \in Keys : \/ \E reply \in Verdict : Switch(s, k, reply)
                         \/ Forget(s, k)
      \/ \E k \in Keys \cup {NoKey} : EditDevKey(s, k)

Next == Registering \/ LoggingIn \/ Exchanging \/ Renewing \/ Changing

Spec == Init /\ [][Next]_vars

-----------------------------------------------------------------------------
\* Middleware: the pairs whose access token opens database s.
ServedAt(s) == {row \in pairs : row.tenant = s /\ row.resource = s}

TypeOK ==
    /\ clients \subseteq Client
    /\ codes \subseteq CodeRow
    /\ pairs \subseteq PairRow
    /\ logins \in [Visitors -> Login]
    /\ devKey \in [Slugs -> Keys \cup {NoKey}]
    /\ account \in [Slugs \X Keys -> Verdict]
    /\ remembered \in [Slugs \X Keys -> SUBSET Verdict]
    /\ minted \subseteq Codes \cup Pairs
    /\ changes \in Nat
    /\ granted \subseteq [tenant: Slugs, sub: Subs, scope: SUBSET Scopes]

\* A code only ever travels to an address that its client has registered with
\* this very database, whatever the browser posts and whoever else registers
\* meanwhile (validateAuthorizeParams).
CodeGoesHome ==
    \A row \in codes : \E client \in clients :
      /\ client.id = row.client /\ client.tenant = row.tenant
      /\ row.redirect \in client.redirects

\* What a request may do in a database goes back to that database's own 1C:
\* it once gave all of these scopes to the key of the login at one time, or
\* they are those of the dev user; neither the fallback for an empty
\* intersection, nor renewals, nor another database add any (authorizePOST,
\* Middleware).
TracesToKey ==
    \A s \in Slugs : \A row \in ServedAt(s) : \E g \in granted :
      g.tenant = s /\ g.sub = row.sub /\ row.scope \subseteq g.scope

\* An account switched off in 1C is not handed new access tokens once the
\* cache has forgotten it: the user keeps the token in hand until it expires
\* (oauth-setup.md, withdrawal of access).
OffEndsRenewal == \A s \in Slugs : \A row \in ServedAt(s) : ~row.lapsed

\* 1C never switches an account off: what would make OffEndsRenewal hold.
StaysOn == \A a \in Slugs \X Keys : account[a].ok => account'[a].ok

NeverSwitchedOff == [][StaysOn]_vars

\* What makes it inductive then: whoever was accepted is still accepted.
AllOn ==
    /\ \A a \in Slugs \X Keys : \A reply \in remembered[a] :
         reply.ok => account[a].ok
    /\ \A v \in Visitors :
         logins[v].stage = "known" /\ logins[v].sub # DevUser =>
           account[<<logins[v].request.tenant, logins[v].sub>>].ok
    /\ \A row \in codes \cup pairs :
         row.sub # DevUser => account[<<row.tenant, row.sub>>].ok

\* What makes TracesToKey inductive: 1C and the cache only give what is on
\* record, and so do the logins and the codes on the way; the resource of a
\* pair is that of the Server that issued it.
RepliesTraced ==
    /\ \A a \in Slugs \X Keys : \A reply \in remembered[a] :
         reply.ok => Grant(a[1], a[2], reply.scope) \in granted
    /\ \A a \in Slugs \X Keys : account[a] \in remembered[a]
    /\ \A s \in Slugs : Grant(s, DevUser, Supported[s]) \in granted

LoginsTraced ==
    \A v \in Visitors : logins[v].stage = "known" =>
      \E g \in granted : /\ g.tenant = logins[v].request.tenant
                         /\ g.sub = logins[v].sub
                         /\ logins[v].scope \subseteq g.scope

CodesTraced ==
    \A row \in codes : \E g \in granted :
      g.tenant = row.tenant /\ g.sub = row.sub /\ row.scope \subseteq g.scope

OwnResource == \A row \in pairs : row.resource = row.tenant

Traced == RepliesTraced /\ LoginsTraced /\ CodesTraced /\ OwnResource

\* What makes CodeGoesHome inductive: clients are never deleted or edited.
Homeward ==
    \A v \in Visitors : logins[v] # Idle => ValidRequest(logins[v].request)

-----------------------------------------------------------------------------
\* What this module takes the token endpoint to be: see TokenLedger.
OfferedTickets ==
    {[value |-> row.code, tenant |-> row.tenant, client |-> row.client,
      scope |-> row.scope] : row \in codes}

TicketOf(row) ==
    [value |-> row.pair, tenant |-> row.tenant, client |-> row.client,
     scope |-> row.scope]

HeldTickets == {TicketOf(row) : row \in {r \in pairs : ~r.spent}}

OpenTickets == {TicketOf(row) : row \in UNION {ServedAt(s) : s \in Slugs}}

Ledger == INSTANCE TokenLedger
            WITH Tokens <- Pairs, Tenants <- Slugs, Clients <- ClientIds,
                 drawn <- minted, offered <- OfferedTickets,
                 held <- HeldTickets, open <- OpenTickets

\* Logins, exchanges and renewals draw on codes and tokens as on a ledger that
\* OAuthTokens keeps: nothing opens a database but the successor of a code or
\* of a token that was given up for it in that database (server.go, token.go).
ImplementsLedger == Ledger!Spec
=============================================================================
