------------------------------ MODULE Gateway ------------------------------
(***************************************************************************)
(* The requests that the gate serves while AdminRegistry edits and swaps   *)
(* what they are served from: router.go, Registry.Handle and BearerAuth of *)
(* internal/api, what buildTenants mounts, and the checks in front of the  *)
(* MCP handler.                                                            *)
(*                                                                         *)
(* A request takes the runtime of its slug out of the registry once, is    *)
(* checked against that runtime, and keeps it to the end; by the time it   *)
(* asks 1C the database may have been edited, switched off, deleted or     *)
(* created anew, and the runtime displaced and closed.  A refused request  *)
(* changes nothing and has no step.  mcp.enabled is on.                    *)
(*                                                                         *)
(* The sessions of OAuth are taken apart in AuthServer and OAuthTokens.    *)
(* Here a slug has at most one, known by the edit that the runtime of its  *)
(* token request had seen; its rows are found by the slug alone, for the   *)
(* audience of a token is a function of the slug.                          *)
(***************************************************************************)
EXTENDS AdminRegistry

CONSTANTS
    Requests,       \* requests that can be in progress at once
    NoSession

ASSUME SessionsAssumption ==
    NoSession \notin Nat /\ Slugs \cap (Tokens \cup {NoToken}) = {}

VARIABLES
    oauth,          \* oauth.enabled of the configuration file
    requests,       \* where each request is
    sessions,       \* per slug: the session in the tables of OAuth
    created, deleted \* history: the latest edit that did this to a slug

served == <<oauth, requests, sessions>>
recorded == <<created, deleted>>
gvars == <<vars, served, recorded>>

\* What the Authorization header holds; a slug stands for the access token of
\* its session.
Bearers == Tokens \cup {NoToken} \cup Slugs

Never == -1

NoRequest == [stage |-> "idle"]

\* A request keeps its runtime, of which the row and the age of the build
\* matter.  "asked" has sent something to 1C.
Routes == {"rest", "mcp"}

Request ==
    [stage: {"idle"}]
    \cup [stage: {"login"}, row: Row, asof: Nat]
    \cup [stage: {"admitted"}, route: Routes, row: Row, asof: Nat,
          bearer: Bearers, session: Nat \cup {NoSession}]
    \cup [stage: {"asked"}, route: Routes, bearer: Bearers, target: Row]

InTable(rows) == {r.slug : r \in rows}

-----------------------------------------------------------------------------
GInit ==
    /\ Init
    /\ oauth \in BOOLEAN
    /\ requests = [q \in Requests |-> NoRequest]
    /\ sessions \in [Slugs -> {0, NoSession}]
    /\ created = [s \in Slugs |-> 0]
    /\ deleted = [s \in Slugs |-> Never]

\* BearerAuth, and authenticate of the MCP handler: where no token is set
\* nobody is asked for one.
PassesBearer(token, bearer) == token = NoToken \/ bearer = token

\* restEndpoint: without api_token there is no route.
\* Mutant: there is one, and its middleware lets everybody pass.
RestAlways(row, bearer) == PassesBearer(row.api, bearer)

RestAdmits(row, bearer) ==
    row.api # NoToken /\ PassesBearer(row.api, bearer)

\* serveMCP over what buildTenants mounted: with OAuth the handler itself asks
\* for nothing and the Middleware stands before it; without it the handler is
\* mounted only where there is a token.
\* Mutant: with OAuth the handler keeps the static token and no Middleware.
MCPStatic(row, bearer) ==
    row.mcp # NoToken /\ PassesBearer(row.mcp, bearer)

MCPAdmits(row, bearer) ==
    IF oauth THEN bearer = row.slug /\ sessions[row.slug] # NoSession
             ELSE row.mcp # NoToken /\ PassesBearer(row.mcp, bearer)

-----------------------------------------------------------------------------
Goes(q, where) == requests' = [requests EXCEPT ![q] = where]

\* Registry.Handle and the middleware behind it.
Arrive(q, slug, route, bearer) ==
    /\ requests[q] = NoRequest
    /\ \E row \in registry.rows :
         /\ row.slug = slug
         /\ \/ route = "rest" /\ RestAdmits(row, bearer)
            \/ route = "mcp" /\ MCPAdmits(row, bearer)
         /\ Goes(q, [stage |-> "admitted", route |-> route, row |-> row,
                     asof |-> registry.asof, bearer |-> bearer,
                     session |-> sessions[slug]])
    /\ UNCHANGED <<oauth, sessions>>

Sent(r, row) ==
    [stage |-> "asked", route |-> r.route, bearer |-> r.bearer, target |-> row]

\* The handler calls the client it was built with.
\* Mutant: the slug is looked up again for the call.
AskCurrent(q) ==
    /\ requests[q].stage = "admitted"
    /\ \E row \in registry.rows :
         row.slug = requests[q].row.slug /\ Goes(q, Sent(requests[q], row))
    /\ UNCHANGED <<oauth, sessions>>

Ask(q) ==
    /\ requests[q].stage = "admitted"
    /\ Goes(q, Sent(requests[q], requests[q].row))
    /\ UNCHANGED <<oauth, sessions>>

\* A login arrives at the Server of its slug and runs to the token pair.
StartLogin(q, slug) ==
    /\ requests[q] = NoRequest /\ oauth
    /\ \E row \in registry.rows :
         /\ row.slug = slug
         /\ Goes(q, [stage |-> "login", row |-> row, asof |-> registry.asof])
    /\ UNCHANGED <<oauth, sessions>>

FinishLogin(q) ==
    /\ requests[q].stage = "login"
    /\ sessions' = [sessions EXCEPT ![requests[q].row.slug] = requests[q].asof]
    /\ Goes(q, NoRequest)
    /\ UNCHANGED oauth

\* Answered, refused later on, or given up.
Finish(q) ==
    /\ requests[q] # NoRequest
    /\ Goes(q, NoRequest)
    /\ UNCHANGED <<oauth, sessions>>

\* The rows of a session expire, are revoked or swept.
EndSession(s) ==
    /\ sessions[s] # NoSession
    /\ sessions' = [sessions EXCEPT ![s] = NoSession]
    /\ UNCHANGED <<oauth, requests>>

Serving(q) ==
    \/ \E slug \in Slugs :
         \/ StartLogin(q, slug)
         \/ \E route \in Routes, bearer \in Bearers :
              Arrive(q, slug, route, bearer)
    \/ Ask(q) \/ FinishLogin(q) \/ Finish(q)

\* What an edit leaves behind in the history.
Recorded ==
    /\ created' = [s \in Slugs |->
         IF s \in InTable(store') \ InTable(store) THEN writes' ELSE created[s]]
    /\ deleted' = [s \in Slugs |->
         IF s \in InTable(store) \ InTable(store') THEN writes' ELSE deleted[s]]

\* A restart takes the requests with it and reads the configuration anew.
GNext ==
    \/ /\ \E a \in Admins : Editing(a) \/ Reloading(a)
       /\ Recorded /\ UNCHANGED served
    \/ /\ Restart
       /\ oauth' \in BOOLEAN
       /\ requests' = [q \in Requests |-> NoRequest]
       /\ UNCHANGED <<sessions, recorded>>
    \/ /\ \/ \E q \in Requests : Serving(q)
          \/ \E s \in Slugs : EndSession(s)
       /\ UNCHANGED <<vars, recorded>>

GSpec == GInit /\ [][GNext]_gvars

-----------------------------------------------------------------------------
\* What may be asked of a row: REST with its api_token, and /mcp with a
\* session of its slug under OAuth, with its mcp_token without.
Entitled(route, bearer, row) ==
    /\ row.enabled /\ bearer # NoToken
    /\ \/ route = "rest" /\ bearer = row.api
       \/ route = "mcp" /\ oauth /\ bearer = row.slug
       \/ route = "mcp" /\ ~oauth /\ bearer = row.mcp

\* Whatever was edited, swapped or closed between the check of a request and
\* its call to 1C: the target belongs to an enabled row, and that very row
\* also holds the token the request came with or, at /mcp under OAuth, has
\* the slug of its session (restEndpoint, serveMCP, Registry.Handle).
CredentialMeetsTarget ==
    \A q \in Requests :
      LET r == requests[q]
      IN  r.stage = "asked" => Entitled(r.route, r.bearer, r.target)

\* A session whose database was deleted opens nothing, unless a database has
\* been created under its slug since: a runtime that has seen the deletion and
\* still lets the session in belongs to the new one (tenant/store.go, Delete).
OrphansNeedRebirth ==
    \A q \in Requests :
      LET r == requests[q]
      IN  r.stage = "admitted" /\ r.bearer = r.row.slug
          /\ r.session < deleted[r.bearer] /\ deleted[r.bearer] <= r.asof
            => created[r.bearer] > deleted[r.bearer]
=============================================================================
