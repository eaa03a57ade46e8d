# Formal model of the 1C gate (onec-mcp)

The repository is an HTTP gate in Go in front of one or more 1C databases
("tenants"). It publishes each database as an MCP server and a REST facade,
runs an OAuth 2.1 authorization server for it, keeps tokens and settings in one
SQLite file, and lets an administrator edit the databases while it runs.

This directory holds TLA+ modules of the parts of that program whose behaviour
depends on the order of steps, the TLC configurations that check them on small
instances, and TLAPS proofs for every size.

## 1. The system

| Component | Source | State | Operations | Hard part |
|---|---|---|---|---|
| Token endpoint and OAuth storage | `internal/oauth/token.go`, `storage.go` | tables `auth_codes`, `access_tokens`, `refresh_tokens` | exchange a code, rotate a refresh token, detect a replay, revoke a family, clean up | several statements per handler, handlers interleave, any of them fails, the process restarts |
| Admin UI, tenant store, registry | `internal/admin`, `internal/tenant`, `internal/api/registry.go`, `buildTenants` of `cmd/server/main.go` | table `tenants`; the installed runtimes | create, update, delete, reload | two requests overlap; a reload reads, swaps and closes at different times |
| Authorize, registration, resource server | `internal/oauth/authorize.go`, `register.go`, `middleware.go`, `server.go` | `oauth_clients` | register a client, log in with a key, check a bearer token | scopes and tenants must stay apart through several steps |
| Key verification cache | `internal/oauth/verify_cache.go` | map of hashed keys | verify, clean up | the call to 1C runs outside the lock |
| Rate limiter | `internal/oauth/ratelimit.go` | one window per client address | allow, clean up | window boundary, truncated Retry-After |
| 1C client, resolve cache, capabilities | `internal/onec/client.go`, `cache.go` | resolve cache, capabilities, janitor goroutine | resolve, reports, capabilities, close | fetches race with each other and with expiry |
| Start-up migration | `migrate*` in `internal/oauth/storage.go` | schema, marker | add columns, hash secrets once | a crash between two steps |
| MCP dispatch | `internal/mcp` | none | initialize, tools/list, tools/call | what is listed and what may be called must agree |
| Router, REST facade | `internal/api` | the registry; requests in progress | find the runtime of a slug, check the token of the route, pass one call on to 1C | a request keeps the runtime it found while the registry is edited and swapped; two doors to one database |
| Views, discovery, types, configuration, logging | rest | none | | no control of interest |

The HTTP server runs every handler in a goroutine of its own. SQLite is opened
with one connection (`internal/store/store.go`), so a statement, or a
transaction, runs alone, but nothing holds that connection between two
statements of a handler. The ticker goroutine of `main.go` cleans up every hour.

What makes each part correct:

- **Tokens.** An authorization is a single baton: at no time are there two ways
  to go on with it, its rights only shrink, a replay ends it, and no cleanup
  takes a row that still counts.
- **Registry.** Requests are never served by a closed runtime, no runtime is
  forgotten with its janitor running, and a saved edit is in effect when the
  handlers are done.
- **Authorization server.** What a request may do goes back to what the 1C of
  that very database granted to the key of the login; codes go only to addresses
  that their client registered there.
- **Key cache.** A changed mind of 1C is noticed within the announced times.
- **Rate limiter.** Never more than two windows' worth of requests in the
  length of one window.
- **Resolve cache.** Nobody is answered with what 1C would show to somebody
  else; size and age are bounded; its goroutine ends with its client.
- **Migration.** Whatever version left the database and wherever the process
  stops, the gate comes up, every session that names its database survives, and
  those older than the tenant column become invalid, as they are meant to.
- **MCP dispatch.** What reaches 1C is within the rights of the caller and
  carries all of its filters, as far as arguments are named in the letters of the
  schema; what is offered can be called.
- **Router and REST.** A call goes to a database that the token it came with
  opens, however the registry changes meanwhile; REST asks 1C for nothing that
  the tool it mirrors would not ask for.

## 2. The modules

`X_proofs.tla` holds the theorems about `X.tla`, `MCX.tla` the definitions TLC
needs for a small instance of it.

| Module | Stands for | Composed with |
|---|---|---|
| `ScopeRules` | the pure rules on scope lists: `intersectScopes`, the fallback of `authorizePOST`, the narrowing of `tokenRefreshToken` | extended by the next and by `AuthServer` |
| `OAuthTokens` | `/oauth/token`, the three token tables, cleanup | implements `GrantChain` and `TokenLedger`, which is proved |
| `GrantChain` | abstract: what the token endpoint promises about one authorization | |
| `TokenLedger` | abstract: codes and tokens as tickets, each turned into its successor in one step | stands between `AuthServer` and `OAuthTokens` |
| `AuthServer` | registration, login, code, pair, bearer check, in several databases | uses `ReplyMemory`, implements `TokenLedger`, which is proved |
| `Publication` | abstract: what requests see of the table of databases | |
| `AdminRegistry` | `/admin`, the `tenants` table, `Registry.Reload` | implements `Publication`, which is proved; extended by the next |
| `Gateway` | `Registry.Handle`, the checks in front of REST and `/mcp`, the sessions a slug has, while `AdminRegistry` runs | implements `AdminRegistry`; its theorems are in `AdminRegistry_proofs` |
| `ReplyMemory` | abstract: what may be known of 1C's opinion of a key | stands between `AuthServer` and `KeyCache` |
| `KeyCache` | `CachedVerifier` | implements `ReplyMemory`, which is proved |
| `ResolveCache` | `resolveCache` and the `Resolve*` methods around it | |
| `RateLimiter` | `FixedWindowLimiter` and its middleware | |
| `WholeUpgrade` | abstract: the upgrade of a database as its users see it | |
| `SecretMigration` | `migrate`, `addColumnIfMissing`, `migrateHashSecrets` | implements `WholeUpgrade`, which is proved |
| `McpDispatch` | `tools/list`, `tools/call`, `Client.Capabilities`, the REST handlers | instantiated with the next |
| `ToolContract` | the tables of `tools.go`: schemas, scopes, closed measures, request structs; the whitelists and structs of `internal/api` | |

Three conventions hold throughout.

*Steps.* A piece of code that nothing can interrupt is one action: a statement
or a transaction of SQLite (one connection), a section under a mutex, the code
between two calls to 1C. Where other goroutines can come in between, the
handler is a record in a variable that says how far it is and what it remembers
(`exchanges`, `replays`, `admins`, `requests`, `calls`, `logins`, `handlers`).

*Clocks.* A clock is an integer that only `Tick` advances. Several readings of
it within one uninterrupted piece of code are one. `CachedVerifier.Verify` reads
it once before the call to 1C, and the model keeps that reading
(`started`).

*History.* Variables named as history in the comments (`grants`, `killed`,
`settled`, `writes`, `newest`, `lost`, `created`, `deleted`, `said`, `passed`,
`granted`, and fields such as `seen`, `asof` or `login`) record what happened and are read by properties
only; the one guard that reads one is the bound on `writes`.

### OAuthTokens and GrantChain

State: `codes`, `access`, `refresh` are the tables as sets of rows. An exchange
between the transaction that consumed its credential and its last `INSERT` is a
record in `exchanges`; a request that was found to replay a spent token and has
not yet revoked the family is a record in `replays`; `sweep` is the position of
`CleanupExpired` between its three statements.

| Action | Code |
|---|---|
| `Authorize` | `CreateAuthCode` at the end of `authorizePOST` |
| `ExchangeCode` | `tokenAuthorizationCode` up to and with `ConsumeAuthCode` |
| `RotateRefresh` | `tokenRefreshToken` up to and with `ConsumeRefreshToken`, success |
| `DetectReplay`, `RevokeFamily`, `FailRevoke` | the replay branch: found spent; family revoked; the revocation failed |
| `InsertAccess`, `InsertRefresh`, `FailExchange` | `issueTokens`: its two inserts, and an error before either |
| `SweepCodes`, `SweepAccess`, `SweepRefresh`, `SweepFail` | `CleanupExpired`, statement by statement |
| `Crash` | the process ends: what was in flight is gone, the tables stay |

The two strings of a pair are generated together and never compared with each
other; one value stands for both. A family, a random string of its own in the
code, is named after the first token of its chain. Rows without a family
(`Legacy`) are those written before the column existed. Hashes are left to
`SecretMigration`.

`GrantChain` says what all this is for: a chain is *unborn*, *held* as one
credential, *moving* inside one exchange, or *closed*; it never forks and never
reopens, and its scope never grows. `OAuthTokens` implements it under the
mapping `Phase` at the end of the module, which reads the phase of a chain off
the tables and the exchanges in flight. A fork would be the value "forked",
which `GrantChain` does not have.

`TokenLedger` looks at all authorizations at once, and at what the holder of a
credential can tell: a code is on offer or not, a refresh token can be renewed
or not, an access token opens its database or not; the credential that is spent
and the one that takes its place change in a single step, and nothing appears in
any other way. The mapping counts a token from the transaction that consumes its
predecessor, so the inserts of `issueTokens` are steps that change nothing, and
an insert that fails is a loss. `AuthServer` has one step where `OAuthTokens` has
several; that both implement the same ledger is why it may.

### AuthServer

State: `clients`, `codes`, `pairs` (shared tables, told apart by the tenant
column), `logins` (POSTs of the form: waiting for 1C, or answered and not yet
stored), `devKey` and `account` (what the settings of a database and its 1C say
now), `remembered` (what the verification cache may still answer). Actions:
`Register`; `Post`, `Accept`, `GiveUp` and `StoreCode` for the login, split at
the call to 1C and before the insert; `Exchange`; `Renew`; `Switch`, `Forget`
and `EditDevKey` for the world around.

It takes from the other modules what they show: an issue is one step
(`TokenLedger`), the two rows of a pair are one (`PairsOfOneMind` is the theorem
about `OAuthTokens` that allows it), rows are never dropped (a property about all
rows is then only harder to satisfy), and the cache is `ReplyMemory`: it may repeat any reply it has not forgotten, and
`Forget` lets go of any of them at any time. That `AuthServer` uses no more of
the cache than `ReplyMemory` offers, and that `KeyCache` offers it, is proved on
either side (`LoginsUseMemory`, `RemembersLikeMemory`); the mapping of the second
reads what can still be told of a key (`Told`) off the entries and the lookups in
flight. A reply on its way when an entry expires is still "remembered", which is
why the memory is a set.

Each key is the key of one account, and the holder of a pair renews it. The scope of a registered client
is stored by the code and read by nothing; the model leaves it out.

### AdminRegistry and Gateway

State: `store` (rows of `tenants`), `admins` (each handler: idle, about to
update, about to build, about to swap, about to close), `registry` (the build
installed), `closed`. A row keeps its slug, whether it is enabled, the password,
which stands for the target of its calls and is the only setting that an edit may
leave alone, and the two tokens that open its routes, `api` and `mcp`. `Forms`
are the rows an administrator submits. A runtime is known by the build that made
it, for a build makes all of them. `Create`, `Update` in two halves (row read, row written), `Delete`,
then `BuildRuntimes`, `FailBuild`, `Swap`, `CloseOld`, and `Restart`.

`Publication` is the registry as requests see it: what is on show is a whole
state that the table was in, and gives way to another such state at once. The
copies that may still be shown are those of the handlers about to swap. It says
nothing of which of two copies is younger, because the code does not see to that
(section 4).

`Gateway` adds the requests that run while all this happens. State: `oauth` (the
switch in the configuration file, read anew by a restart), `requests` (each:
idle, let in with the runtime it found, asked of 1C, or a login), `sessions`
(per slug, the session whose rows are in the tables of OAuth), and the history
of creations and deletions.

| Action | Code |
|---|---|
| `Arrive` | `Registry.Handle`, then `restEndpoint` with `BearerAuth`, or `serveMCP` over what `buildTenants` mounted: OAuth's middleware, or the handler with its static token |
| `Ask` | the handler calls the client it was built with |
| `StartLogin`, `FinishLogin` | a login through the OAuth server of the runtime, to its first pair |
| `Finish` | answered, refused later on, or given up |
| `EndSession` | the rows of a session expire, are revoked or swept |

A request that is refused changes nothing and has no step. A slug has at most
one session, named by the latest edit that the runtime of its login had seen; a
bearer token of it is written as the slug, for tokens are looked up by tenant and
audience and both are made of the slug. `mcp.enabled` is on. A step of `Gateway`
is a step of `AdminRegistry` or leaves all of its variables alone
(`GatewayIsRegistry`), so what is proved of the registry holds while it serves.

### KeyCache, ResolveCache, RateLimiter

`KeyCache`: `Miss`, `Reply`, `Fail`, `Store` are the parts of `Verify`, with the
lock released in between; `Switch` is an account edited in 1C. An error of the
call and a refusal by 1C are different replies that `Verify` treats alike.

`ResolveCache`: `Ask`, `Answer`, `Fail`, `Store` for the `Resolve*` methods,
`Sweep` and `StopJanitor` for the goroutine, `Close` (any number of times). The
data of an answer is the view 1C gave and the moment it gave it. The HTTP
timeout is a guard of `Tick` (`InTime`): time does not pass the deadline of a
request in progress. Which entry `evictLocked` drops is the choice of Go's map
iteration: any.

`RateLimiter`: `Open`, `Count`, `Cleanup`; a refusal changes nothing and is the
operator `RetryAfter`. A second is several ticks, so that rounding down shows.

### SecretMigration

A row is how often its secret has been hashed, the predecessor it stores, and
its tenant: not there yet, empty, or a slug. `Init` is any database an older
version can have left: any rows, the first so many of the seven columns that
`migrate` adds, with or without the marker, and with a slug only where a gate
that wrote slugs can have run. `AddColumnIfMissing` also does what `DEFAULT ''`
does to the rows there are: they get an empty tenant, which is no slug, so no
look-up finds them any more. That is intended (`storage.go:103`-`110`,
`docs/oauth-setup.md:323`), and `SessionsSurvive` says both halves: a running gate
finds a row if and only if it names a database. The other actions are `Start`,
`ReadMarker`, `HashTarget` (once per column to hash, on the transaction's copy),
`Commit`, `Issue` while serving, and `Stop` between any two of them. `WholeUpgrade` has one step for all of this: sessions
are in clear, then all of them are hashed and the gate is open; a session belongs
to a database or to none, and stays so. The mapping reads the form of the
sessions, and whether they name a database, off the rows that are committed, so
columns, the transaction's copy and interrupted attempts do not show.

### McpDispatch and ToolContract

State: `health` (what 1C would report as its profile), `caps` (the cached
profile with its expiry), `handlers`. A `tools/list` looks at the profile
(`List`), may wait for `GET /mcp/health` (`HealthAnswers`, `HealthFails`), and
stores (`StoreCaps`). A `tools/call` is checked and decoded in one step (`Call`)
and then waits for 1C (`Reply`).

An argument comes in one of the forms that language models use: as the schema
says, as a string with JSON in it, or as a string that does not parse. Checks
and decoders see the form, because whether they open it alike is the question.
One number stands for all counts of a call (`limit`, `top`, `max_depth`, ...),
plain, out of the range of `int`, or unparsable. The names `measures` and
`filters` come in the letters of the schema or in letters of another case
(`Spellings`): the checks look them up in a map under the exact name (`Under`),
while the decoder, `encoding/json`, takes any case, so `BodyOf` does not ask. A
call gives each argument once. `group_by`, `sort`, `period` and texts are left
out. Of what a profile adds nothing is assumed: it may well be what the contract
announces already, or what the rights of the caller have closed.

The REST routes are one action, `Mirror`: a handler checks its required fields
and its whitelists (`RestAccepts`), decodes what its struct has fields for, and
sends a body (`RestBody`). The property about it asks whether the tool of the
same name, called with what went out, would have been let through and would have
sent the same. That the whitelists stay within the schemas is `MirrorAssumption`,
which TLC evaluates on the real tables, like the next.

`ToolContract` is the gate's real table of tools, so that the assumptions
`ContractAssumption` and the property `ListedIsCallable` are about every tool
the gate has: that each filter a schema declares has a field in the struct that
receives it, for instance, is an assumption of the proofs that TLC evaluates on
the real tables.

## 3. The runs

Each run answers one question. `PROJECT.json` names for every property a mutant,
a plausible mistake in the code under which TLC finds that very property
violated in the run's own configuration.

| Run | Configuration | What it checks |
|---|---|---|
| `chain` | `OAuthTokens_chain.cfg` | one authorization through two rotations, with expiry, cleanup, failures and restarts: `AtMostOneLive`, `SpentOnce`, `ChainWithinGrant`, `SettledStaysDead`, `SweepSparesUnexpired`, `ImplementsGrantChain`, and `ImplementsLedger` |
| `sessions` | `OAuthTokens_sessions.cfg` | two databases, a new and a pre-family session: a revocation touches only its own family (`RevocationIsPrecise`); expired rows go in the end (`ExpiredIsPurged`) |
| `race` | `OAuthTokens_race.cfg` | **violated**: `ReplayEndsFamily` |
| `registry` | `Gateway.cfg` | two administrators and a request: `NeverServesClosed`, `NothingLeaks`, `StaleOnlyIfOvertaken`, `BlankKeepsPassword`, `CredentialMeetsTarget`, `OrphansNeedRebirth`, and `ImplementsPublication` |
| `overtaken` | `AdminRegistry_overtaken.cfg` | **violated**: `SavesTakeEffect` |
| `logins` | `AuthServer.cfg` | two databases, two apps of one client, one browser: `CodeGoesHome`, `TracesToKey`, and `ImplementsLedger` |
| `renewal` | `AuthServer_renewal.cfg` | **violated**: `OffEndsRenewal` |
| `keys` | `KeyCache.cfg` | two lookups of one key while 1C changes its mind: `OldKeyFades`, `RefusalFades`, `ExpiredIsDropped`, and `ImplementsReplyMemory` |
| `resolve` | `ResolveCache.cfg` | two callers, three keys, two places: `AnswersTheCaller`, `Bounded`, `AgeBounded`, `ExpiredGoFirst`, `JanitorStops`, `ExpiredIsSwept` |
| `limiter` | `RateLimiter.cfg` | bursts around window ends: `PassBudget`, `RetryNearlyEnough`, `RefusedOnlyWhenSpent` |
| `upgrade` | `SecretMigration.cfg` | every older database, two stops: `SessionsSurvive`, `ComesUp`, and `ImplementsWholeUpgrade` |
| `dispatch` | `McpDispatch.cfg` | two listings and a call, of a tool or of a REST route, against the real tables: `WithinRights`, `FiltersKept`, `RestSaysWhatToolsSay`, `ListedIsCallable`, `ProfileFresh` |

Every module has a type invariant, and each is proved, by induction over the
steps and for every size, so no run repeats it. `ChainConverges` of
`SecretMigration` and `PairsAgree` of `OAuthTokens` are likewise proved and not
run.

### Bounds

- `chain`: three token values are a first pair and two rotations, or a rotation
  and a replay of what it consumed. Two scopes are needed for a scope to shrink
  and be asked for again. With `CodeTTL = AccessTTL = 1`, `RefreshTTL = 2` and a
  clock up to 3, each kind of row meets the cleanup before, at and after the end
  of its life, and a refresh token outlives the access token of its pair.
- `sessions`: two databases, one row that predates families and one new chain,
  which is the smallest state in which a revocation could take too much. All
  lives are 0 and the clock goes to 1, so that everything expires.
- `registry`: two handlers overlap in every way, with a request or a login at any
  point between them. Three edits let one fall between the two halves of an
  update, or be a deletion and a creation under the same slug; three builds are
  the initial one and two reloads that overlap. One slug is enough: rows are
  found by their slug alone, and the theorems are about any number. Of the three
  forms one publishes REST, one publishes `/mcp` and moves the database, and one
  switches it off and leaves the password blank. `CHECK_DEADLOCK FALSE`: the
  bounds on edits and builds end the behaviours.
- `logins`: two databases, two apps that share the only client, a redirect URI
  that may not be registered besides two that may, one change in 1C or of a dev
  key, two pairs: an exchange and a renewal.
- `keys`: `TTL = 2`, `NegCap = 1`, a clock to 5: two lives in a row, and the cap
  is below TTL.
- `resolve`: three keys for two places; a life and a timeout of one tick each, a
  clock to 3, so that an answer may be as late as it can be and then expire.
- `limiter`: two per window, a window of five ticks, two ticks to the second, so
  that a window is no whole number of seconds; the clock goes over two windows.
- `upgrade`: two secrets make a rotation chain, and two rows of one table of
  which one may name a database and the other not; the seven columns are those of
  the code, and `Init` has each number of them; two stops, so that an interrupted recovery is
  interrupted. `CHECK_DEADLOCK FALSE`: once all rows are issued nothing is left.
- `dispatch`: the tables are whole; the profile is the one in
  `internal/mcp/testdata/upp_profile.json`, in part, with a required parameter
  removed, a measure of its own and a closed one added, and one of a newer
  version; calls of a tool of each kind, each with arguments in every form, and
  one that spells the names of its arguments in its own way.

Symmetry is used for values that are only compared for equality, in runs with
safety properties only; the `.cfg` files of `sessions`, `keys`, `resolve` and
`upgrade`, which check liveness, use none.

### Fairness

- `sessions`: weak fairness of `SweepCodes` (the ticker of `main.go` fires as
  long as the process runs) and strong fairness of `SweepAccess` and
  `SweepRefresh`: a statement of the cleanup may fail again and again, and what
  is assumed is that it does not fail every time.
- `keys`: weak fairness of `Cleanup`, the same ticker.
- `resolve`: weak fairness of `Sweep`, and strong fairness of `StopJanitor`: a
  `select` whose two channels are both ready chooses at random, so it does not
  choose the ticker for ever.
- `upgrade`: weak fairness of `Starting`: whoever runs the gate starts it again
  after it stopped, which happens `MaxStops` times at most.

No fairness is assumed of requests, of 1C, or of administrators. The violated
properties are all invariants.

## 4. What the checks show

### Where the program does not do what is said of it

**A rotation outlives the revocation of its family** (`race`,
`ReplayEndsFamily`). `RevokeFamily` (`storage.go:487`) updates rows that exist. A
rotation that has consumed its token, and has not yet run the inserts of
`issueTokens`, then adds a live pair to the family just revoked. The code
promises that the whole chain is put out (`storage_test.go:194`, `token.go:136`).
What does hold is `SettledStaysDead`: a revocation that ran while no exchange of
the family was in flight is final. `RaceAloneRevives` proves that this is the
only gap: if no revocation falls into an exchange of its family,
`ReplayEndsFamily` holds. Consuming and inserting in one transaction
would close the gap.

**An older reload wins** (`overtaken`, `SavesTakeEffect`). `Reload` lists the
table, builds, and only then takes the lock (`registry.go:84`). Of two reloads
that overlap, the one that listed first may swap last, and the later edit is not
in effect although it was saved and its handler is done; it stays so until the
next edit or restart. The documentation says that changes take effect at once
(`README.md:77`, `docs/oauth-setup.md:186`). `StaleOnlyIfOvertaken` shows that
this and a failed reload are the only ways, `OnlyOvertakenIsStale` proves that
`SavesTakeEffect` holds for any number of administrators as long as no build
replaces a younger one, and `LoneEditorSeesSaves` that one administrator alone
is not affected. Until it is repaired, what is shown is an old state of the
table and never a mixture: `ShowsWholeTables`.

**Renewals never ask 1C** (`renewal`, `OffEndsRenewal`). `docs/oauth-setup.md:185`
says that a user whose account is switched off loses access when the cache
(5 minutes) and the access token (1 hour) have run out. `tokenRefreshToken`
(`token.go:173`) exchanges a refresh token without asking 1C or the cache, and
each renewal brings a new refresh token with a whole life, so the session goes
on for as long as it is renewed in time. Saving the database in `/admin`, which
the page recommends to cut it short, clears the cache and not the tokens.
`OnlyOffLapses` proves that nothing else has this effect: as long as no account
is switched off, neither a change of its scopes nor an edit of a dev key does.

### Smaller observations

Met while modelling; none of them is a run of its own.

- Any error of the call to 1C, a timeout or a request cancelled by its client
  included, is cached like a refusal (`verify_cache.go:60`), though the comment at
  `client.go:569` asks callers to tell them apart. `RefusalFades` bounds the
  time this lasts.
- `docs/oauth-setup.md:288` says that scopes added to an account work after the
  cache has expired; the scope of a token is fixed at the login, and only a new
  login brings the added ones.
- `Retry-After` is rounded down (`ratelimit.go:79`), so the moment it names may
  lie before the end of the window, up to a second: `RetryNearlyEnough`.
- A row without a family starts one with its first rotation (`token.go:212`),
  which its own row is not in: a later replay of it revokes nothing.
- An update with a blank password that overlaps another edit writes back the
  password it read before it (`admin.go:183`, `205`): `BlankKeepsPassword` holds
  only when the table was not edited in between.
- Filters in a string that does not parse are dropped without an error
  (`models.go:30`, as its comment says), unlike filters with an unknown key:
  hence the exception in `FiltersKept`.
- The checks of `tools/call` look up `measures` and `filters` under these very
  names (`handler.go:1304`, `1228`); `mapToStruct` (`handler.go:1376`) decodes with
  `encoding/json`, which takes a name in any letter case. The comment at
  `handler.go:1218` says that the check cannot come apart from the schema, and it
  does not; it comes apart from the decoder when a
  call writes `Measures` or `Filters`: what is closed or unknown is then not
  refused, and a filter without a field is dropped. `WithinRights` and
  `FiltersKept` promise what holds of every call (the tool is permitted, limits
  are kept, declared filters arrive) and the rest on the condition that the name
  is the schema's. Looking the name up without regard to case would remove the
  condition.
- `addFacets` runs after `stripCostMeasures` (`profile.go:94`), so a profile whose
  `extra` names a closed measure puts it back on offer, and `tools/call` then
  refuses it. `docs/onec-integration.md:551` says that `extra` is what the common
  schema does not declare; the gate does not look. `ListedIsCallable` states that
  this is the only way.
- The scope that a client registers with is stored (`register.go:101`) and not
  looked at by `authorizePOST`, which narrows the request by the rights of the
  user alone.
- `tenant/store.go:167` calls the tokens of a deleted database unreachable; they
  are reachable again if a database is created under the same slug before they
  expire. `OrphansNeedRebirth` says that this is the only way.
- The same comment counts on the clients being cleaned up; `CleanupExpired`
  (`storage.go:521`) has no statement for `oauth_clients`.
- `docs/api.md:246` gives `/reports/sales` a filter `product_ids`, which
  `api.SalesFilters` (`internal/api/models.go:59`) has no field for: REST drops
  it and reports on all products, where the tool `sales_report` would filter.
- REST refuses the group `firm` and, for sales, the measures of cost, which the
  tools of the same name take. `RestSaysWhatToolsSay` is about the other
  direction: nothing passes REST which the tool does not know.
- `README.md:143`-`147` lists REST routes for cash, receivables, payables and
  purchases; `router.go:92`-`97` mounts the resolvers, sales and stock.
- A `tools/list` whose client hangs up while it waits stores an empty profile for
  five minutes (`client.go:605`), for the request to 1C runs under the context of
  that client. The offer is then uncut, which `ListedIsCallable` allows for.
- One database with settings that `oauth.NewServer` refuses makes the reload fail
  for all of them (`main.go:207`); `FailBuild` is the effect of this too.

## 5. What is proved

The theorems hold for every value of the constants under the assumptions named
in the modules (`IdsAssumption`, `TimeAssumption`, `BlankAssumption`, ...), which
say only that bounds are naturals and that special values differ from the
others; TLC evaluates them in every run. The bounds of the runs (`MaxTime`,
`MaxWrites`, ...) are constants too, so a theorem covers every bound.

| Theorem | States | Rests on |
|---|---|---|
| `OAuthTokens_proofs` `TypeCorrect` | `TypeOK` | inductive by itself |
| `OneLivePerFamily` | `AtMostOneLive` | `TypeOK`, `Fresh`: no row refers to a value that has not been drawn, so a new chain collides with none |
| `ScopeNeverWidens` | `ChainWithinGrant` | `Rooted`: a family has one grant |
| `RevocationIsFinal` | `SettledStaysDead` | both of the above: the only way back would be an exchange in flight, and a settled family has none and gets none, having no live refresh token |
| `SpentAtMostOnce` | `SpentOnce` | `Unspent`: what can still be presented has no successor yet |
| `CleanupSparesRows` | `SweepSparesUnexpired` | `CutoffPassed`: the cutoff of a cleanup under way is a moment that has passed |
| `RevocationStaysInFamily` | `RevocationIsPrecise` | `OneRowEach`: an access token has one row, so a row that becomes revoked was the one updated |
| `TokensAreChains` | `ImplementsGrantChain` | `AtMostOneLive`, `Fresh`, `Unspent` and `Begun`. Lemma `OneBaton`: a chain is carried by one row or one exchange at most; each statement moves that carrier along, replaces it or drops it (`StartTakes`, `LosingCloses`) |
| `TokensAreALedger` | `ImplementsLedger` | `Fresh`, `Unspent`, `Begun` and `AtMostOneLive`. Each of the three sets of tickets is followed through each statement: an insert moves a ticket from the exchange to its row and leaves the set as it was |
| `RaceAloneRevives` | `ReplayEndsFamily`, if no revocation falls into an exchange of its family | lemmas `AloneSettles`, `KilledSettled`: then every family that was revoked is settled, and `SettledStaysDead` |
| `PairsOfOneMind` | `PairsAgree` | `Fresh`, for a new pair has no older rows; what is left of a pair keeps agreeing |
| `AdminRegistry_proofs` `ServingIsOpen`, `NoRuntimeForgotten` | `NeverServesClosed`, `NothingLeaks` | `Numbered`: builds are numbered in order, so a new one is held by nobody |
| `StaleOnlyByOvertaking` | `StaleOnlyIfOvertaken` | `EditOnItsWay`: the latest edit is installed, or some handler is on its way to install it, or its reload failed |
| `LoneEditorSeesSaves` | `SavesTakeEffect`, for a single admin handler | the same and `InOrder` |
| `OnlyOvertakenIsStale` | `SavesTakeEffect`, if no build replaces a younger one | `EditOnItsWay`, and that the build on show is then the latest installed (`Latest`) |
| `ShowsWholeTables` | `ImplementsPublication` | one row per slug; the mapping to the copies in the hands of the handlers |
| `BlankIsNoPassword` | `BlankKeepsPassword` | `Remembered`: what an update has read is in the table until an edit |
| `GatewayIsRegistry`, `RegistryWhileServing` | `Gateway` implements `AdminRegistry`, and the invariants above hold of it | a step of a request leaves the registry's variables alone |
| `CredentialsHold` | `CredentialMeetsTarget` | a request carries the row it was checked against, and the rows of a build are enabled |
| `OrphansAreReborn` | `OrphansNeedRebirth` | a build shows the slugs that were in the table as of the edit it knows, so one that has seen a deletion and shows the slug has seen a later creation |
| `AuthServer_proofs` `CodesTravelHome` | `CodeGoesHome` | `Homeward`: the request of a login in progress stays valid, for clients are never changed or removed |
| `ScopesTraceToKey` | `TracesToKey` | `Traced`: each station on the way (replies of the cache, logins, codes, pairs) carries at most what was granted, and a pair's resource is its own database |
| `TokensAreALedger` | `ImplementsLedger` of `AuthServer` | no value is drawn twice, so a code or token that goes is one ticket |
| `OnlyOffLapses` | `OffEndsRenewal`, if 1C switches no account off | replies, logins, codes and pairs stay with accounts that are on |
| `LoginsUseMemory` | `AuthServer` asks of the cache no more than `ReplyMemory` offers | |
| `KeyCache_proofs` `RemembersLikeMemory` | `ImplementsReplyMemory` | lemma `ToldDwindles`: as long as 1C keeps its mind, what can be told of a key only shrinks |
| `RotatedKeysFade`, `RefusalsFade` | `OldKeyFades`, `RefusalFades` | `Truthful`: a reply was true at some time after its lookup began, and an entry outlives that time by no more than the life of its reply |
| `ResolveCache_proofs` `CallersKeptApart`, `AnswersAge`, `NeverOverfull` | `AnswersTheCaller`, `AgeBounded`, `Bounded` | `Located`, `InOrder`, `FiniteBound` |
| `LiveGoesLast` | `ExpiredGoFirst` | `FiniteBound`, and that nothing but the storing of an answer drops a live entry |
| `RateLimiter_proofs` `BudgetKept` | `PassBudget` | `WindowsApart`: among the requests let through there is a set, those that opened a window, two of which are more than a window apart and which occurs in any `Limit + 1` in a row |
| `RefusalsDue` | `RefusedOnlyWhenSpent` | `WindowsApart` and lemmas `ApartFirst`, `FullIsSpent`: a full window holds the last `Limit` requests let through |
| `HeaderNearlyRight` | `RetryNearlyEnough` | lemma `RoundingDown` |
| `SecretMigration_proofs` `UpgradeKeepsSessions`, `RotationConverges` | `SessionsSurvive`, `ChainConverges` | `MarkerTells`, `Progress`: the marker tells how the database is stored, a row has a tenant when its table has the column, and the transaction's copy is hashed exactly as far as it has come |
| `UpgradeIsWhole` | `ImplementsWholeUpgrade` | the same, and `Unlost`: no secret leaves its table. `Commit` is the upgrade, a `ReadMarker` that finds the marker opens, a stop closes; the other steps before serving are not seen. Lemma `BackFillingKeepsSessions`: a new column changes neither what is stored nor who is named |
| `McpDispatch_proofs` `CallsWithinRights`, `NoFilterLost`, `RestIsAMirror`, `OfferIsCallable`, `ProfileStaysFresh` | `WithinRights`, `FiltersKept`, `RestSaysWhatToolsSay`, `ListedIsCallable`, `ProfileFresh` | for every table of tools that satisfies `ContractAssumption` and `MirrorAssumption`; lemma `LetThrough` (what passes the checks under the names of the schema decodes to what is allowed), schemas that stay sound under a profile up to what it adds itself, and `Timely` |
| `RightsOnlyOpen` | more rights never hide a tool, narrow its schema or refuse a call | lemma `ProfileKeepsWider`: what a profile takes and adds does not depend on the rights |

Each `_proofs` module also proves the type invariant of its module.

Only model-checked is liveness (`ExpiredIsPurged`, `ExpiredIsDropped`,
`JanitorStops`, `ExpiredIsSwept`, `ComesUp`), which this prover cannot handle
under fairness.

## 6. What is not modelled

- Of `internal/api`: `/health`, the request log, the shape of answers and the
  order of the rows in a report.
- Views, discovery documents, JSON-RPC types, configuration, logging: no control
  whose order matters.
- Of `/oauth`: pages, error texts, the metadata endpoints, and requests refused
  before anything changes.
- Of MCP: `initialize`, unknown methods and notifications, which answer from
  constants; the formatting of answers.
- Of the 1C client: the report calls, single requests without state, apart from
  what `McpDispatch` says of the body they send.
- Graceful shutdown: a request that is cut off by it is a `Crash` to the models.

## 7. Plan

Done in this order: `OAuthTokens` with `GrantChain`, `AdminRegistry`, the two
caches, the limiter, the migration, `McpDispatch`, `AuthServer`; then what
composes them: `Gateway` over `AdminRegistry`, `ReplyMemory` between `AuthServer`
and `KeyCache`, REST beside the tools it mirrors; then the refinements of
`GrantChain`, `TokenLedger`, `Publication` and `WholeUpgrade`, and the theorems
that the causes of the three findings are the only ones. Each module has its run
and its proofs.

Worth doing next:

1. The token tables of `OAuthTokens` in place of the sessions of `Gateway`, so
   that a deletion, a creation under the same slug and a rotation meet in one
   state space.
2. A version of `issueTokens` that consumes and inserts in one transaction,
   should the code go that way: it meets the condition of `RaceAloneRevives`.
