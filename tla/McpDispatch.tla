---------------------------- MODULE McpDispatch ----------------------------
(***************************************************************************)
(* The MCP endpoint of one database (internal/mcp): what tools/list offers *)
(* to a caller, what tools/call refuses and what it sends on to 1C, the    *)
(* cached profile of the database that the offer depends on                *)
(* (onec.Client.Capabilities), and the REST routes that mirror some of the *)
(* tools (internal/api/handlers.go).                                       *)
(*                                                                         *)
(* A caller is known by its rights: the scopes of its token, or Everything *)
(* when the database works with a static token.  The arguments of a call   *)
(* are reduced to the three that are checked, each once and with the form  *)
(* a model gives it: as the schema has it, as a string holding the JSON,   *)
(* or as a string that does not parse.  A model may also spell the name of *)
(* an argument in letters of another case: the checks look a name up in a  *)
(* map and do not find it then, encoding/json does.                        *)
(*                                                                         *)
(* The lock of the profile is held for a look and for a store, not for the *)
(* request in between, so a handler that waits for GET /mcp/health is a    *)
(* record in "handlers".  Methods that answer from constants (initialize,  *)
(* an unknown method, a notification) change nothing and are left out.     *)
(***************************************************************************)
EXTENDS Integers

CONSTANTS
    Tools,
    Contract,           \* tool -> schema, as GetTools builds it
    ToolScopes,         \* tool -> the scope it needs
    CostMeasures,       \* tool -> measures closed by CostScope
    Kind,               \* tool -> the handler method that serves it
    FilterFields,       \* tool -> filters with a field in the request to 1C
    Mirrored,           \* the tools with a REST route
    RestRequired, RestMeasures, RestGroups, RestFilters,
                        \* per route: what it checks and what it decodes
    Scopes, CostScope,
    Everything,         \* the rights of a caller without OAuth
    Rights,             \* the rights callers have: sets of scopes, Everything
    Profiles, NoProfile,
    Version,            \* CapabilitiesVersion
    Requested,          \* bound: tool -> the arguments callers send
    RestRequested,      \* bound: the same for the REST routes
    MaxRows, ResolveLimit, MaxDepth,
    Listers, Callers,   \* the tools/list and tools/call in progress at once
    TTL, Timeout,       \* CapabilitiesTTL, the limit of a request to 1C
    MaxTime             \* bound: the clock stops here

Forms == {"plain", "encoded", "garbled"}

\* The name of an argument: as in the schema, or in letters of another case.
Spellings == {"schema", "other"}

\* "huge" is a number outside the range of int.  No check asks for the number,
\* so the spelling of its name makes no difference.
Args == [measures: SUBSET STRING, mname: Spellings, mform: Forms,
         filters: SUBSET STRING, fname: Spellings, fform: Forms,
         number: Int, nform: {"plain", "huge", "garbled"}]

\* The body of a REST request; "given" are the required fields that are there.
RestArgs == [given: SUBSET STRING, measures: SUBSET STRING,
             groups: SUBSET STRING, filters: SUBSET STRING, number: Int]

Schema == [params: SUBSET STRING, required: SUBSET STRING,
           filters: SUBSET STRING, groups: SUBSET STRING,
           measures: SUBSET STRING]

Kinds == {"resolve", "report", "top_products", "customer_summary", "admin",
          "specification", "plain"}

ASSUME ContractAssumption ==
    /\ Contract \in [Tools -> Schema]
    /\ ToolScopes \in [Tools -> Scopes]
    /\ CostMeasures \in [Tools -> SUBSET STRING]
    /\ Kind \in [Tools -> Kinds]
    /\ FilterFields \in [Tools -> SUBSET STRING]
    /\ \A t \in Tools : Kind[t] # "report" => CostMeasures[t] = {}
    /\ \A t \in Tools : CostMeasures[t] \subseteq Contract[t].measures
    /\ \A t \in Tools : Contract[t].filters \subseteq FilterFields[t]
    /\ \A t \in Tools : "filters" \in Contract[t].params
                         => Kind[t] \in {"report", "top_products"}
    /\ \A t \in Tools : Contract[t].required \subseteq Contract[t].params

\* The whitelists of REST are kept in step with the schemas by hand.
ASSUME MirrorAssumption ==
    /\ Mirrored \subseteq {t \in Tools : Kind[t] \in {"resolve", "report"}}
    /\ \A t \in Mirrored :
         /\ RestMeasures[t] \subseteq Contract[t].measures
         /\ RestGroups[t] \subseteq Contract[t].groups
         /\ RestFilters[t] \subseteq Contract[t].filters
         /\ Contract[t].required \subseteq RestRequired[t]

ASSUME CallersAssumption ==
    /\ \A rights \in Rights \ {Everything} : rights \subseteq Scopes
    /\ Requested \in [Tools -> SUBSET Args]
    /\ RestRequested \in [Mirrored -> SUBSET RestArgs]
    /\ Listers \cap Callers = {}

ASSUME LimitsAssumption ==
    /\ MaxRows \in Nat \ {0} /\ ResolveLimit \in Nat \ {0} /\ MaxDepth \in Nat
    /\ TTL \in Nat /\ Timeout \in Nat /\ MaxTime \in Nat

Facets == [params: SUBSET STRING, filters: SUBSET STRING,
           groups: SUBSET STRING, measures: SUBSET STRING]

\* Nothing is assumed of what a profile calls extra: the gate does not look
\* whether the contract, or CostMeasures, has it.
ASSUME ProfilesAssumption ==
    /\ NoProfile \notin Profiles
    /\ \A p \in Profiles :
         /\ \A t \in Tools \cap DOMAIN p.unsupported :
              p.unsupported[t] \in Facets
         /\ \A t \in Tools \cap DOMAIN p.extra : p.extra[t] \in Facets

VARIABLES
    health,             \* what 1C says of itself now
    caps,               \* the cached profile and when it expires
    handlers,           \* where each request is, by lister or caller
    now

vars == <<health, caps, handlers, now>>

Idle == [stage |-> "idle"]

\* The zero time of capsExpire is in the past.
NeverAsked == [profile |-> NoProfile, at |-> 0, expires |-> 0]

Fresh == now < caps.expires

Goto(h, where) == handlers' = [handlers EXCEPT ![h] = where]

-----------------------------------------------------------------------------
\* Rights.

Holds(rights, scope) == rights = Everything \/ scope \in rights

Permitted(rights, t) == Holds(rights, ToolScopes[t])

\* The measures that are closed to a caller.
ClosedTo(rights, t) == IF Holds(rights, CostScope) THEN {} ELSE CostMeasures[t]

-----------------------------------------------------------------------------
\* tools/list.  An enumeration is dropped with its parameter.

StripCostMeasures(rights, t) ==
    [Contract[t] EXCEPT !.measures = @ \ ClosedTo(rights, t)]

\* Mutant: a parameter that is removed stays required.
StripOffered(s, f) ==
    [s EXCEPT !.params = @ \ f.params, !.filters = @ \ f.filters,
              !.groups = @ \ f.groups, !.measures = @ \ f.measures]

StripFacets(s, f) ==
    LET params == s.params \ f.params
        Left(name, values) == IF name \in params THEN values ELSE {}
    IN  [params |-> params,
         required |-> s.required \ f.params,
         filters |-> Left("filters", s.filters \ f.filters),
         groups |-> Left("group_by", s.groups \ f.groups),
         measures |-> Left("measures", s.measures \ f.measures)]

AddFacets(s, f) ==
    LET Also(name, values) == IF name \in s.params THEN values ELSE {}
    IN  [params |-> s.params, required |-> s.required, filters |-> s.filters,
         groups |-> s.groups \cup Also("group_by", f.groups),
         measures |-> s.measures \cup Also("measures", f.measures)]

Shaped(s, t, p) ==
    LET less == IF t \in DOMAIN p.unsupported
                  THEN StripFacets(s, p.unsupported[t]) ELSE s
    IN  IF t \in DOMAIN p.extra THEN AddFacets(less, p.extra[t]) ELSE less

\* handleToolsList: the rights decide first, then the profile, if there is one.
Listing(rights, p) ==
    LET allowed == {t \in Tools : Permitted(rights, t)}
    IN  IF p = NoProfile
          THEN [t \in allowed |-> StripCostMeasures(rights, t)]
          ELSE [t \in allowed \ p.unavailable |->
                  Shaped(StripCostMeasures(rights, t), t, p)]

\* The answer on its way is the listing for these rights and this profile.
Listed(rights, p) == [stage |-> "listed", rights |-> rights, profile |-> p]

-----------------------------------------------------------------------------
\* tools/call: what is refused.

\* unstringifyJSON opens a string that holds JSON and leaves any other alone.
\* Mutant: strings are not opened.
Seen(values, form) == IF form = "plain" THEN values ELSE {}

Opened(values, form) == IF form = "garbled" THEN {} ELSE values

\* m["measures"] and m["filters"]: what a check finds under a name.
Under(name, values) == IF name = "schema" THEN values ELSE {}

\* Mutant: the string form is not looked into.
PlainCostMeasuresIn(t, a) ==
    Under(a.mname, Seen(a.measures, a.mform)) \cap CostMeasures[t]

CostMeasuresIn(t, a) ==
    Under(a.mname, Opened(a.measures, a.mform)) \cap CostMeasures[t]

\* Mutant: unknown keys are left to the decoder.
NothingUnknown(t, a) == {}

\* A tool that declares no filters is not checked.
UnknownFilterKeys(t, a) ==
    IF "filters" \in Contract[t].params
      THEN Under(a.fname, Opened(a.filters, a.fform)) \ Contract[t].filters
      ELSE {}

Refused(rights, t, a) ==
    \/ ~Permitted(rights, t)
    \/ CostMeasuresIn(t, a) \cap ClosedTo(rights, t) # {}
    \/ UnknownFilterKeys(t, a) # {}

\* mapToStruct: what does not parse fails the call, where there is a field
\* for it.  Filters that do not parse are dropped instead.  A field takes its
\* argument from the name in any case of letters, so spelling does not enter.
Decodes(t, a) ==
    /\ Kind[t] = "report" => a.mform # "garbled"
    /\ Kind[t] \notin {"admin", "plain"} => a.nform # "garbled"

\* What flexInt makes of a number: one that int cannot hold comes out as the
\* least or as the greatest int, by the processor the gate is built for.
Huge == MaxRows + ResolveLimit + MaxDepth

Whole(a) == IF a.nform = "huge" THEN {-1, Huge} ELSE {a.number}

-----------------------------------------------------------------------------
\* tools/call: what is sent on to 1C.  A count of 0 is left out of the body.

ClampLimit(n) == IF n <= 0 \/ n > ResolveLimit THEN ResolveLimit ELSE n

\* clampRows and clampDepth.
Cut(n, limit) == IF n <= 0 THEN 0 ELSE IF n > limit THEN limit ELSE n

ClampTopDefault(n, def) == Cut(IF n <= 0 THEN def ELSE n, MaxRows)

DecodedFilters(t, a) == Opened(a.filters, a.fform) \cap FilterFields[t]

Sends(measures, filters, rows, depth) ==
    [measures |-> measures, filters |-> filters, rows |-> rows, depth |-> depth]

ResolveBody(n) == Sends({}, {}, ClampLimit(n), 0)

ReportBody(t, a, n) ==
    Sends(Opened(a.measures, a.mform), DecodedFilters(t, a),
          ClampTopDefault(n, MaxRows), 0)

TopProductsBody(t, a, n) ==
    Sends({}, DecodedFilters(t, a), ClampTopDefault(n, 10), 0)

CustomerSummaryBody(n) == Sends({}, {}, ClampTopDefault(n, 5), 0)

SpecificationBody(n) == Sends({}, {}, Cut(n, MaxRows), Cut(n, MaxDepth))

PlainBody == Sends({}, {}, 0, 0)

\* callEventLog and callFindDocument pass the arguments on; 1C parses them.
AdminBody(a, n) ==
    Sends(Opened(a.measures, a.mform), Opened(a.filters, a.fform), n, n)

BodyOf(t, a, n) ==
    [resolve |-> ResolveBody(n),
     report |-> ReportBody(t, a, n),
     top_products |-> TopProductsBody(t, a, n),
     customer_summary |-> CustomerSummaryBody(n),
     specification |-> SpecificationBody(n),
     admin |-> AdminBody(a, n),
     plain |-> PlainBody][Kind[t]]

-----------------------------------------------------------------------------
\* REST.  The routes of the resolvers decode nothing but query and limit.

\* Mutant: the groups are left to 1C, which drops what it does not know.
MeasuresAccepted(t, a) ==
    /\ RestRequired[t] \subseteq a.given
    /\ Kind[t] = "report" => a.measures \subseteq RestMeasures[t]

RestAccepts(t, a) ==
    /\ RestRequired[t] \subseteq a.given
    /\ Kind[t] = "report" => /\ a.measures \subseteq RestMeasures[t]
                             /\ a.groups \subseteq RestGroups[t]

\* Filters without a field in the request of the route are dropped.
RestBody(t, a) ==
    IF Kind[t] = "resolve" THEN ResolveBody(a.number)
    ELSE Sends(a.measures, a.filters \cap RestFilters[t],
               ClampTopDefault(a.number, MaxRows), 0)

\* What goes out, with what came in that the tool would have asked for.
Relayed(t, a) ==
    [stage |-> "mirrored", tool |-> t, given |-> a.given,
     groups |-> IF Kind[t] = "resolve" THEN {} ELSE a.groups,
     body |-> RestBody(t, a)]

-----------------------------------------------------------------------------
Init ==
    /\ health \in Profiles \cup {NoProfile}
    /\ caps = NeverAsked
    /\ handlers = [h \in Listers \cup Callers |-> Idle]
    /\ now = 0

\* handleToolsList up to the request of Capabilities, if there is one.
List(l, rights) ==
    /\ handlers[l] = Idle
    /\ Goto(l, IF Fresh THEN Listed(rights, caps.profile)
                        ELSE [stage |-> "fetch", rights |-> rights,
                              started |-> now])
    /\ UNCHANGED <<health, caps, now>>

\* A profile whose structure the gate does not know is not used at all.
Understood(p) ==
    IF p # NoProfile /\ p.version = Version THEN p ELSE NoProfile

Fetched(l, profile, at) ==
    /\ handlers[l].stage = "fetch"
    /\ Goto(l, [stage |-> "fetched", rights |-> handlers[l].rights,
                started |-> handlers[l].started,
                profile |-> profile, at |-> at])
    /\ UNCHANGED <<health, caps, now>>

HealthAnswers(l) == Fetched(l, Understood(health), now)

\* Mutant: a failure keeps the profile there was.
KeepProfile(l) == Fetched(l, caps.profile, caps.at)

\* An error or a timeout; the failure is cached like an answer.
HealthFails(l) == Fetched(l, NoProfile, now)

\* storeCapabilities, and the rest of handleToolsList.
StoreCaps(l) ==
    /\ handlers[l].stage = "fetched"
    /\ caps' = [profile |-> handlers[l].profile, at |-> handlers[l].at,
                expires |-> now + TTL]
    /\ Goto(l, Listed(handlers[l].rights, handlers[l].profile))
    /\ UNCHANGED <<health, now>>

\* handleToolsCall up to the request to 1C.  A call that is refused or does
\* not parse is answered at once and changes nothing.
Call(c, rights, t, a) ==
    /\ handlers[c] = Idle
    /\ ~Refused(rights, t, a)
    /\ Decodes(t, a)
    /\ \E n \in Whole(a) :
         Goto(c, [stage |-> "asked", rights |-> rights, tool |-> t,
                  args |-> a, body |-> BodyOf(t, a, n)])
    /\ UNCHANGED <<health, caps, now>>

\* A REST handler up to its request to 1C; what it does not accept is a 400.
Mirror(c, t, a) ==
    /\ handlers[c] = Idle
    /\ RestAccepts(t, a)
    /\ Goto(c, Relayed(t, a))
    /\ UNCHANGED <<health, caps, now>>

\* The answer goes to the caller; whatever 1C says is passed on.  (REST turns
\* an error of 1C into a status, and a report of more than MaxRows into a 400.)
Reply(h) ==
    /\ handlers[h].stage \in {"listed", "asked", "mirrored"}
    /\ Goto(h, Idle)
    /\ UNCHANGED <<health, caps, now>>

\* 1C is updated, or stops reporting a profile.
HealthChanges ==
    /\ health' \in (Profiles \cup {NoProfile}) \ {health}
    /\ UNCHANGED <<caps, handlers, now>>

\* The HTTP client gives up after Timeout, and the answer is stored at once.
Tick ==
    /\ now < MaxTime
    /\ \A l \in Listers :
         handlers[l].stage \in {"fetch", "fetched"}
           => now < handlers[l].started + Timeout
    /\ now' = now + 1
    /\ UNCHANGED <<health, caps, handlers>>

Next ==
    \/ \E l \in Listers :
         \/ \E rights \in Rights : List(l, rights)
         \/ HealthAnswers(l) \/ HealthFails(l) \/ StoreCaps(l)
    \/ \E c \in Callers, rights \in Rights, t \in Tools :
         \E a \in Requested[t] : Call(c, rights, t, a)
    \/ \E c \in Callers, t \in Mirrored :
         \E a \in RestRequested[t] : Mirror(c, t, a)
    \/ \E h \in Listers \cup Callers : Reply(h)
    \/ HealthChanges
    \/ Tick

Spec == Init /\ [][Next]_vars

-----------------------------------------------------------------------------
Bodies == [measures: SUBSET STRING, filters: SUBSET STRING,
           rows: Int, depth: Int]

Usable == {p \in Profiles : p.version = Version} \cup {NoProfile}

CapsType == [profile: Usable, at: Nat, expires: Nat]

AtList ==
    {Idle}
    \cup [stage: {"fetch"}, rights: Rights, started: Nat]
    \cup [stage: {"fetched"}, rights: Rights, started: Nat,
          profile: Usable, at: Nat]
    \cup [stage: {"listed"}, rights: Rights, profile: Usable]

AtCall ==
    {Idle}
    \cup [stage: {"asked"}, rights: Rights, tool: Tools, args: Args, body: Bodies]
    \cup [stage: {"mirrored"}, tool: Mirrored, given: SUBSET STRING,
           groups: SUBSET STRING, body: Bodies]

\* Types, and that no profile is used whose structure the gate does not know
\* (Capabilities compares the version before it stores anything).  A listing is
\* known by its rights and its profile: GetTools builds anew for every request
\* the schemas that stripCostMeasures and applyProfile then edit in place.
TypeOK ==
    /\ health \in Profiles \cup {NoProfile}
    /\ caps \in CapsType
    /\ DOMAIN handlers = Listers \cup Callers
    /\ \A l \in Listers : handlers[l] \in AtList
    /\ \A c \in Callers : handlers[c] \in AtCall
    /\ now \in Nat

\* What reaches 1C is of a tool the caller may call, and within the limits of
\* the gate, whatever form and spelling a call gives its arguments; and it asks
\* for no measure closed to the caller when the name "measures" is spelled as in
\* the schema, in whatever form its value comes (costMeasuresIn against
\* mapToStruct; clampTop, clampLimit, clampDepth).  Under another spelling the
\* check sees no measures where the decoder does, and nothing is promised.  The
\* admin tools alone pass their counts on unseen.
WithinRights ==
    \A c \in Callers : handlers[c].stage = "asked" =>
      LET call == handlers[c]  sent == call.body  kind == Kind[call.tool]
      IN  /\ Permitted(call.rights, call.tool)
          /\ call.args.mname = "schema" =>
               sent.measures \cap ClosedTo(call.rights, call.tool) = {}
          /\ kind # "admin" =>
               /\ sent.rows \in 0..(IF kind = "resolve" THEN ResolveLimit
                                                         ELSE MaxRows)
               /\ sent.depth \in 0..MaxDepth

\* A filter that the schema declares always reaches 1C, and under the name
\* "filters" as the schema spells it any other filter is refused, so the call
\* goes on with all the filters it was made with; except that filters in a
\* string that does not parse are lost (unknownFilterKeys against the structs
\* that filters are decoded into).  Under another spelling what the schema does
\* not declare is not refused, and may be lost.
FiltersKept ==
    \A c \in Callers :
      LET call == handlers[c]
      IN  /\ call.stage = "asked"
          /\ call.args.fform # "garbled"
          /\ "filters" \in Contract[call.tool].params
          => /\ call.args.filters \cap Contract[call.tool].filters
                  \subseteq call.body.filters
             /\ call.args.fname = "schema" =>
                  call.body.filters = call.args.filters

\* The arguments of a call that spells their names as the schema does.
AsInSchema(measures, filters, form, number) ==
    [measures |-> measures, mname |-> "schema", mform |-> form,
     filters |-> filters, fname |-> "schema", fform |-> form,
     number |-> number, nform |-> "plain"]

\* What REST sends to 1C, a call of the tool it mirrors would have sent too
\* from a caller with all rights: nothing in it would be refused, the body is
\* the one that the tool makes of it, and it asks for groups and gives fields
\* that the schema knows.  The two doors share no code but the client, and
\* their tables are written twice (validMeasures, validGroupBy and the clamps
\* of api/handlers.go against GetTools and mcp/handler.go).
RestSaysWhatToolsSay ==
    \A c \in Callers : handlers[c].stage = "mirrored" =>
      LET sent == handlers[c].body
          tool == handlers[c].tool
          same == AsInSchema(sent.measures, sent.filters, "plain", sent.rows)
      IN  /\ ~Refused(Everything, tool, same)
          /\ sent = BodyOf(tool, same, sent.rows)
          /\ handlers[c].groups \subseteq Contract[tool].groups
          /\ Contract[tool].required \subseteq handlers[c].given

\* Measures that a profile adds to a tool, which may be closed ones: addFacets
\* works on what stripCostMeasures has left.
AddedBy(p, t) ==
    IF p # NoProfile /\ t \in DOMAIN p.extra THEN p.extra[t].measures ELSE {}

\* What tools/list offers, tools/call takes from a caller of the same rights,
\* all at once and whatever the profile has removed or added, but for closed
\* measures: of those nothing is offered that the profile does not add itself.
\* No parameter is required that the schema does not have (stripCostMeasures,
\* applyProfile and removeRequired against the checks of handleToolsCall).
ListedIsCallable ==
    \A l \in Listers : handlers[l].stage = "listed" =>
      LET rights == handlers[l].rights
          p == handlers[l].profile
          tools == Listing(rights, p)
      IN  \A t \in DOMAIN tools :
            LET s == tools[t]
                closed == ClosedTo(rights, t)
            IN  /\ s.required \subseteq s.params
                /\ s.measures \cap closed \subseteq AddedBy(p, t)
                /\ \A form \in {"plain", "encoded"} :
                     LET all == AsInSchema(s.measures \ closed, s.filters, form, 0)
                     IN  /\ ~Refused(rights, t, all)
                         /\ DecodedFilters(t, all) = s.filters

\* A profile is used for no longer after 1C reported it than the request for it
\* could take and TTL together, whoever asked and however requests overtake one
\* another (Capabilities fetches outside the lock).
ProfileFresh ==
    Fresh => now < caps.at + Timeout + TTL
=============================================================================
