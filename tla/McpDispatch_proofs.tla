------------------------ MODULE McpDispatch_proofs ------------------------
(***************************************************************************)
(* Proofs about McpDispatch, for every table of tools that satisfies       *)
(* ContractAssumption and every profile: types, the rights and limits of   *)
(* what is sent to 1C, filters that are not lost, the REST mirror,         *)
(* listings that can be called, and the age of the profile.                *)
(***************************************************************************)
EXTENDS McpDispatch, TLAPS

USE DEF Idle

-----------------------------------------------------------------------------
\* Every count of a body is within the limit of its kind (clampLimit,
\* clampTopDefault, clampRows, clampDepth).
LEMMA CutBounds ==
    ASSUME NEW n \in Int, NEW limit \in Nat
    PROVE  Cut(n, limit) \in 0..limit
BY DEF Cut

\* The same of each count in a body.
LEMMA Counts ==
    ASSUME NEW n \in Int
    PROVE  /\ ClampLimit(n) \in 0..ResolveLimit
           /\ Cut(n, MaxRows) \in 0..MaxRows
           /\ Cut(n, MaxDepth) \in 0..MaxDepth
           /\ \A def \in Int : ClampTopDefault(n, def) \in 0..MaxRows
<1>1. MaxRows \in Nat /\ ResolveLimit \in Nat /\ MaxDepth \in Nat
  BY LimitsAssumption
<1>2. ClampLimit(n) \in 0..ResolveLimit
  BY <1>1, LimitsAssumption DEF ClampLimit
<1>3. ASSUME NEW def \in Int
      PROVE  ClampTopDefault(n, def) \in 0..MaxRows
  <2> DEFINE k == IF n <= 0 THEN def ELSE n
  <2>1. k \in Int
    OBVIOUS
  <2> QED
    BY <2>1, <1>1, CutBounds DEF ClampTopDefault
<1> QED
  BY <1>1, <1>2, <1>3, CutBounds

\* What the handler of each kind sends: the counts are cut, and measures and
\* filters are there only for the kinds that have them.
LEMMA BodyFacts ==
    ASSUME NEW t \in Tools, NEW a \in Args, NEW n \in Int
    PROVE  LET b == BodyOf(t, a, n)
           IN  /\ b \in Bodies
               /\ Kind[t] \notin {"report", "admin"} => b.measures = {}
               /\ Kind[t] = "report" => b.measures = Opened(a.measures, a.mform)
               /\ Kind[t] \in {"report", "top_products"}
                    => b.filters = DecodedFilters(t, a)
               /\ Kind[t] = "resolve" => b.rows \in 0..ResolveLimit
               /\ Kind[t] \notin {"admin", "resolve"} => b.rows \in 0..MaxRows
               /\ Kind[t] # "admin" => b.depth \in 0..MaxDepth
<1>1. Kind[t] \in Kinds
  BY ContractAssumption
<1>2. /\ Opened(a.measures, a.mform) \in SUBSET STRING
      /\ Opened(a.filters, a.fform) \in SUBSET STRING
      /\ DecodedFilters(t, a) \in SUBSET STRING
  BY DEF Args, Opened, DecodedFilters
<1>3. MaxRows \in Nat /\ ResolveLimit \in Nat /\ MaxDepth \in Nat
  BY LimitsAssumption
<1>4. ASSUME NEW m \in SUBSET STRING, NEW f \in SUBSET STRING,
             NEW k \in Int, NEW d \in Int
      PROVE  LET b == Sends(m, f, k, d)
             IN  /\ b \in Bodies
                 /\ b.measures = m /\ b.filters = f /\ b.rows = k /\ b.depth = d
  BY DEF Sends, Bodies
<1>5. \A def \in {MaxRows, 10, 5} :
        ClampTopDefault(n, def) \in 0..MaxRows /\ ClampTopDefault(n, def) \in Int
  BY <1>3, Counts
<1>6. /\ ClampLimit(n) \in Int /\ Cut(n, MaxRows) \in Int /\ Cut(n, MaxDepth) \in Int
      /\ ClampLimit(n) \in 0..ResolveLimit
      /\ Cut(n, MaxRows) \in 0..MaxRows /\ Cut(n, MaxDepth) \in 0..MaxDepth
      /\ 0 \in 0..MaxRows /\ 0 \in 0..MaxDepth
  BY <1>3, Counts
<1>7. CASE Kind[t] = "resolve"
  <2>1. BodyOf(t, a, n) = Sends({}, {}, ClampLimit(n), 0)
    BY <1>7 DEF BodyOf, ResolveBody
  <2> QED
    BY <1>2, <1>4, <1>5, <1>6, <1>7, <2>1
<1>8. CASE Kind[t] = "report"
  <2>1. BodyOf(t, a, n) = Sends(Opened(a.measures, a.mform), DecodedFilters(t, a),
                               ClampTopDefault(n, MaxRows), 0)
    BY <1>8 DEF BodyOf, ReportBody
  <2> QED
    BY <1>2, <1>4, <1>5, <1>6, <1>8, <2>1
<1>9. CASE Kind[t] = "top_products"
  <2>1. BodyOf(t, a, n) = Sends({}, DecodedFilters(t, a), ClampTopDefault(n, 10), 0)
    BY <1>9 DEF BodyOf, TopProductsBody
  <2> QED
    BY <1>2, <1>4, <1>5, <1>6, <1>9, <2>1
<1>10. CASE Kind[t] = "customer_summary"
  <2>1. BodyOf(t, a, n) = Sends({}, {}, ClampTopDefault(n, 5), 0)
    BY <1>10 DEF BodyOf, CustomerSummaryBody
  <2> QED
    BY <1>2, <1>4, <1>5, <1>6, <1>10, <2>1
<1>11. CASE Kind[t] = "specification"
  <2>1. BodyOf(t, a, n) = Sends({}, {}, Cut(n, MaxRows), Cut(n, MaxDepth))
    BY <1>11 DEF BodyOf, SpecificationBody
  <2> QED
    BY <1>2, <1>4, <1>5, <1>6, <1>11, <2>1
<1>12. CASE Kind[t] = "admin"
  <2>1. BodyOf(t, a, n) = Sends(Opened(a.measures, a.mform),
                               Opened(a.filters, a.fform), n, n)
    BY <1>12 DEF BodyOf, AdminBody
  <2> QED
    BY <1>2, <1>4, <1>5, <1>6, <1>12, <2>1
<1>13. CASE Kind[t] = "plain"
  <2>1. BodyOf(t, a, n) = Sends({}, {}, 0, 0)
    BY <1>13 DEF BodyOf, PlainBody
  <2> QED
    BY <1>2, <1>4, <1>5, <1>6, <1>13, <2>1
<1> QED
  BY <1>1, <1>7, <1>8, <1>9, <1>10, <1>11, <1>12, <1>13 DEF Kinds

\* Whatever flexInt makes of a number is an integer.
LEMMA WholeInt ==
    ASSUME NEW a \in Args
    PROVE  Whole(a) \subseteq Int
BY LimitsAssumption DEF Args, Whole, Huge

\* What a REST handler sends is what the tool it mirrors makes of the same
\* measures, filters and count: cutting a count twice is cutting it once.
LEMMA RestFacts ==
    ASSUME NEW t \in Mirrored, NEW a \in RestArgs, RestAccepts(t, a)
    PROVE  LET b == RestBody(t, a)
               same == AsInSchema(b.measures, b.filters, "plain", b.rows)
           IN  /\ b \in Bodies
               /\ b.measures \subseteq Contract[t].measures
               /\ b.filters \subseteq Contract[t].filters
               /\ b = BodyOf(t, same, b.rows)
<1>1. /\ t \in Tools /\ Kind[t] \in {"resolve", "report"}
      /\ RestMeasures[t] \subseteq Contract[t].measures
      /\ RestFilters[t] \subseteq Contract[t].filters
      /\ Contract[t].filters \subseteq FilterFields[t]
  BY MirrorAssumption, ContractAssumption
<1>2. a.number \in Int /\ a.measures \in SUBSET STRING /\ a.filters \in SUBSET STRING
  BY DEF RestArgs
<1>3. MaxRows \in Nat \ {0} /\ ResolveLimit \in Nat \ {0}
  BY LimitsAssumption
<1>4. CASE Kind[t] = "resolve"
  <2>1. RestBody(t, a) = Sends({}, {}, ClampLimit(a.number), 0)
    BY <1>4 DEF RestBody, ResolveBody
  <2>2. ClampLimit(a.number) \in Int
        /\ ClampLimit(ClampLimit(a.number)) = ClampLimit(a.number)
    BY <1>2, <1>3 DEF ClampLimit
  <2>3. \A c, n : BodyOf(t, c, n) = Sends({}, {}, ClampLimit(n), 0)
    BY <1>4 DEF BodyOf, ResolveBody
  <2>4. RestBody(t, a).rows = ClampLimit(a.number)
    BY <2>1 DEF Sends
  <2> QED
    BY <2>1, <2>2, <2>3, <2>4 DEF Sends, Bodies
<1>5. CASE Kind[t] = "report"
  <2> DEFINE F == a.filters \cap RestFilters[t]
             k == ClampTopDefault(a.number, MaxRows)
  <2>1. RestBody(t, a) = Sends(a.measures, F, k, 0)
    BY <1>5 DEF RestBody
  <2>2. k \in Int /\ ClampTopDefault(k, MaxRows) = k
    BY <1>2, <1>3 DEF ClampTopDefault, Cut
  <2>3. /\ a.measures \subseteq Contract[t].measures
        /\ F \subseteq Contract[t].filters /\ F \cap FilterFields[t] = F
        /\ F \in SUBSET STRING
    BY <1>1, <1>2, <1>5 DEF RestAccepts
  <2>4. \A c, n : BodyOf(t, c, n) =
          Sends(Opened(c.measures, c.mform), DecodedFilters(t, c),
                ClampTopDefault(n, MaxRows), 0)
    BY <1>5 DEF BodyOf, ReportBody
  <2> HIDE DEF F, k
  <2>5. RestBody(t, a).measures = a.measures /\ RestBody(t, a).filters = F
        /\ RestBody(t, a).rows = k /\ RestBody(t, a) \in Bodies
    BY <1>2, <2>1, <2>2, <2>3 DEF Sends, Bodies
  <2> DEFINE same == AsInSchema(a.measures, F, "plain", k)
  <2>6. /\ Opened(same.measures, same.mform) = a.measures
        /\ DecodedFilters(t, same) = F
    BY <2>3 DEF AsInSchema, Opened, DecodedFilters
  <2>7. BodyOf(t, same, k) = Sends(a.measures, F, k, 0)
    BY <2>2, <2>4, <2>6
  <2> QED
    BY <2>1, <2>3, <2>5, <2>7
<1> QED
  BY <1>1, <1>4, <1>5

-----------------------------------------------------------------------------
\* What the steps do to requests in progress.

\* A caller's request is left alone, is over, or is a call that was let through.
LEMMA CallerStep ==
    ASSUME TypeOK, [Next]_vars, NEW c \in Callers
    PROVE  \/ handlers'[c] = handlers[c]
           \/ handlers'[c] = Idle
           \/ \E rights \in Rights, t \in Tools, a \in Args, n \in Int :
                /\ ~Refused(rights, t, a)
                /\ handlers'[c] =
                     [stage |-> "asked", rights |-> rights, tool |-> t,
                      args |-> a, body |-> BodyOf(t, a, n)]
           \/ \E t \in Mirrored, a \in RestArgs :
                RestAccepts(t, a) /\ handlers'[c] = Relayed(t, a)
<1>1. ASSUME NEW l \in Listers, NEW where, Goto(l, where)
      PROVE  handlers'[c] = handlers[c]
  BY <1>1, CallersAssumption DEF Goto, TypeOK
<1>2. ASSUME NEW l \in Listers, NEW rights \in Rights, List(l, rights)
      PROVE  handlers'[c] = handlers[c]
  BY <1>1, <1>2 DEF List
<1>3. ASSUME NEW l \in Listers, HealthAnswers(l) \/ HealthFails(l) \/ StoreCaps(l)
      PROVE  handlers'[c] = handlers[c]
  BY <1>1, <1>3 DEF HealthAnswers, HealthFails, Fetched, StoreCaps
<1>4. ASSUME NEW b \in Callers, NEW rights \in Rights, NEW t \in Tools,
             NEW a \in Requested[t], Call(b, rights, t, a)
      PROVE  \/ handlers'[c] = handlers[c]
             \/ \E d \in Args, n \in Int :
                  /\ ~Refused(rights, t, d)
                  /\ handlers'[c] =
                       [stage |-> "asked", rights |-> rights, tool |-> t,
                        args |-> d, body |-> BodyOf(t, d, n)]
  <2>1. a \in Args
    BY CallersAssumption
  <2>2. PICK n \in Whole(a) :
          Goto(b, [stage |-> "asked", rights |-> rights, tool |-> t,
                   args |-> a, body |-> BodyOf(t, a, n)])
    BY <1>4 DEF Call
  <2>3. n \in Int
    BY <2>1, <2>2, WholeInt
  <2>4. CASE b = c
    <3>1. handlers'[c] = [stage |-> "asked", rights |-> rights, tool |-> t,
                          args |-> a, body |-> BodyOf(t, a, n)]
      BY <2>2, <2>4 DEF Goto, TypeOK
    <3>2. ~Refused(rights, t, a)
      BY <1>4 DEF Call
    <3> QED
      BY <2>1, <2>3, <3>1, <3>2
  <2>5. CASE b # c
    BY <2>2, <2>5 DEF Goto, TypeOK
  <2> QED
    BY <2>4, <2>5
<1>5. ASSUME NEW h \in Listers \cup Callers, Reply(h)
      PROVE  handlers'[c] = handlers[c] \/ handlers'[c] = Idle
  BY <1>5 DEF Reply, Goto, TypeOK
<1>6. CASE HealthChanges \/ Tick \/ UNCHANGED vars
  BY <1>6 DEF HealthChanges, Tick, vars
<1>7. ASSUME NEW b \in Callers, NEW t \in Mirrored, NEW a \in RestRequested[t],
             Mirror(b, t, a)
      PROVE  \/ handlers'[c] = handlers[c]
             \/ \E d \in RestArgs :
                  RestAccepts(t, d) /\ handlers'[c] = Relayed(t, d)
  <2>1. a \in RestArgs
    BY CallersAssumption
  <2>2. handlers' = [handlers EXCEPT ![b] = Relayed(t, a)] /\ RestAccepts(t, a)
    BY <1>7 DEF Mirror, Goto
  <2> QED
    BY <2>1, <2>2 DEF TypeOK
<1> QED
  BY <1>2, <1>3, <1>4, <1>5, <1>6, <1>7 DEF Next

\* A lister's request is left alone, is over, is one of List, or is one of the
\* steps of Capabilities.
LEMMA ListerStep ==
    ASSUME TypeOK, [Next]_vars, NEW l \in Listers
    PROVE  \/ handlers'[l] = handlers[l]
           \/ handlers'[l] = Idle
           \/ /\ \E rights \in Rights : List(l, rights)
              /\ \E rights \in Rights :
                   \/ Fresh /\ handlers'[l] = Listed(rights, caps.profile)
                   \/ handlers'[l] = [stage |-> "fetch", rights |-> rights,
                                      started |-> now]
           \/ /\ handlers[l].stage = "fetch" /\ now' = now
              /\ \E p \in {Understood(health), NoProfile} :
                   handlers'[l] =
                     [stage |-> "fetched", rights |-> handlers[l].rights,
                      started |-> handlers[l].started,
                      profile |-> p, at |-> now]
           \/ /\ handlers[l].stage = "fetched"
              /\ handlers'[l] = Listed(handlers[l].rights, handlers[l].profile)
<1>1. ASSUME NEW h \in (Listers \cup Callers) \ {l}, NEW where, Goto(h, where)
      PROVE  handlers'[l] = handlers[l]
  BY <1>1 DEF Goto, TypeOK
<1>2. ASSUME NEW where, Goto(l, where)
      PROVE  handlers'[l] = where
  BY <1>2 DEF Goto, TypeOK
<1>3. ASSUME NEW k \in Listers, NEW rights \in Rights, List(k, rights)
      PROVE  \/ handlers'[l] = handlers[l]
             \/ /\ List(l, rights)
                /\ \/ Fresh /\ handlers'[l] = Listed(rights, caps.profile)
                   \/ handlers'[l] = [stage |-> "fetch", rights |-> rights,
                                      started |-> now]
  BY <1>1, <1>2, <1>3 DEF List
<1>4. ASSUME NEW k \in Listers, HealthAnswers(k) \/ HealthFails(k)
      PROVE  \/ handlers'[l] = handlers[l]
             \/ /\ handlers[l].stage = "fetch" /\ now' = now
                /\ \E p \in {Understood(health), NoProfile} :
                     handlers'[l] =
                       [stage |-> "fetched", rights |-> handlers[l].rights,
                        started |-> handlers[l].started,
                        profile |-> p, at |-> now]
  BY <1>1, <1>2, <1>4 DEF HealthAnswers, HealthFails, Fetched
<1>5. ASSUME NEW k \in Listers, StoreCaps(k)
      PROVE  \/ handlers'[l] = handlers[l]
             \/ /\ handlers[l].stage = "fetched"
                /\ handlers'[l] = Listed(handlers[l].rights, handlers[l].profile)
  BY <1>1, <1>2, <1>5 DEF StoreCaps
<1>6. ASSUME NEW b \in Callers, NEW rights \in Rights, NEW t \in Tools,
             NEW a \in Requested[t], Call(b, rights, t, a)
      PROVE  handlers'[l] = handlers[l]
  <2>1. b \in (Listers \cup Callers) \ {l}
    BY CallersAssumption
  <2> QED
    BY <1>1, <1>6, <2>1 DEF Call
<1>7. ASSUME NEW h \in Listers \cup Callers, Reply(h)
      PROVE  handlers'[l] = handlers[l] \/ handlers'[l] = Idle
  BY <1>7 DEF Reply, Goto, TypeOK
<1>8. CASE HealthChanges \/ Tick \/ UNCHANGED vars
  BY <1>8 DEF HealthChanges, Tick, vars
<1>9. ASSUME NEW b \in Callers, NEW t \in Mirrored, NEW a \in RestRequested[t],
             Mirror(b, t, a)
      PROVE  handlers'[l] = handlers[l]
  <2>1. b \in (Listers \cup Callers) \ {l}
    BY CallersAssumption
  <2> QED
    BY <1>1, <1>9, <2>1 DEF Mirror
<1> QED
  BY <1>3, <1>4, <1>5, <1>6, <1>7, <1>8, <1>9 DEF Next

-----------------------------------------------------------------------------
\* The clock and the cached profile.
LEMMA TimeStep ==
    ASSUME TypeOK, [Next]_vars
    PROVE  /\ health' \in Profiles \cup {NoProfile}
           /\ \/ now' = now
              \/ now' = now + 1 /\ Tick /\ caps' = caps
           /\ \/ caps' = caps
              \/ \E l \in Listers :
                   /\ StoreCaps(l)
                   /\ handlers[l].stage = "fetched"
                   /\ caps' = [profile |-> handlers[l].profile,
                               at |-> handlers[l].at, expires |-> now + TTL]
BY DEF TypeOK, Next, vars, List, HealthAnswers, HealthFails, Fetched, StoreCaps,
       Call, Mirror, Reply, HealthChanges, Tick

\* The types hold before the first request.
LEMMA TypeInit ==
    Init => TypeOK
BY DEF Init, TypeOK, NeverAsked, CapsType, Usable, AtList, AtCall

\* Every step keeps the types.
LEMMA TypeNext ==
    ASSUME TypeOK, [Next]_vars
    PROVE  TypeOK'
<1>1. now' \in Nat
  BY TimeStep DEF TypeOK
<1>2. caps' \in CapsType
  <2>1. ASSUME NEW l \in Listers, handlers[l].stage = "fetched"
        PROVE  handlers[l].profile \in Usable /\ handlers[l].at \in Nat
    BY <2>1 DEF TypeOK, AtList
  <2>2. now + TTL \in Nat
    BY LimitsAssumption DEF TypeOK
  <2> QED
    BY <2>1, <2>2, TimeStep DEF TypeOK, CapsType
<1>3. DOMAIN handlers' = Listers \cup Callers
  BY DEF TypeOK, Next, vars, List, HealthAnswers, HealthFails, Fetched, StoreCaps,
         Call, Mirror, Reply, HealthChanges, Tick, Goto
<1>4. ASSUME NEW l \in Listers
      PROVE  handlers'[l] \in AtList
  <2>1. handlers[l] \in AtList
    BY DEF TypeOK
  <2>2. now \in Nat /\ caps.profile \in Usable
    BY DEF TypeOK, CapsType
  <2>3. Understood(health) \in Usable /\ NoProfile \in Usable
    BY DEF TypeOK, Understood, Usable
  <2>4. ASSUME handlers[l].stage = "fetch"
        PROVE  handlers[l].rights \in Rights /\ handlers[l].started \in Nat
    BY <2>1, <2>4 DEF AtList
  <2>5. ASSUME handlers[l].stage = "fetched"
        PROVE  handlers[l].rights \in Rights /\ handlers[l].profile \in Usable
    BY <2>1, <2>5 DEF AtList
  <2>6. ASSUME NEW rights \in Rights, NEW p \in Usable
        PROVE  Listed(rights, p) \in AtList
    BY DEF Listed, AtList
  <2>7. ASSUME NEW rights \in Rights
        PROVE  [stage |-> "fetch", rights |-> rights, started |-> now] \in AtList
    BY <2>2 DEF AtList
  <2>8. ASSUME NEW rights \in Rights, NEW p \in Usable, NEW started \in Nat
        PROVE  [stage |-> "fetched", rights |-> rights, started |-> started,
                profile |-> p, at |-> now] \in AtList
    BY <2>2 DEF AtList
  <2>9. Idle \in AtList
    BY DEF AtList
  <2> HIDE DEF Idle
  <2> QED
    BY <2>1, <2>2, <2>3, <2>4, <2>5, <2>6, <2>7, <2>8, <2>9, ListerStep
<1>5. ASSUME NEW c \in Callers
      PROVE  handlers'[c] \in AtCall
  <2>1. ASSUME NEW rights \in Rights, NEW t \in Tools, NEW a \in Args, NEW n \in Int
        PROVE  [stage |-> "asked", rights |-> rights, tool |-> t,
                args |-> a, body |-> BodyOf(t, a, n)] \in AtCall
    <3>1. BodyOf(t, a, n) \in Bodies
      BY BodyFacts
    <3> QED
      BY <3>1 DEF AtCall
  <2>2. handlers[c] \in AtCall /\ Idle \in AtCall
    BY DEF TypeOK, AtCall
  <2>3. ASSUME NEW t \in Mirrored, NEW a \in RestArgs, RestAccepts(t, a)
        PROVE  Relayed(t, a) \in AtCall
    <3>1. RestBody(t, a) \in Bodies
      BY <2>3, RestFacts
    <3> QED
      BY <3>1 DEF Relayed, AtCall, RestArgs
  <2> QED
    BY <2>1, <2>2, <2>3, CallerStep
<1> QED
  BY <1>1, <1>2, <1>3, <1>4, <1>5, TimeStep DEF TypeOK

\* Types, and no profile in use whose structure the gate does not know
\* (Capabilities, storeCapabilities).
THEOREM Typing == Spec => []TypeOK
<1>1. Init => TypeOK
  BY TypeInit
<1>2. TypeOK /\ [Next]_vars => TypeOK'
  BY TypeNext
<1> QED
  BY <1>1, <1>2, PTL DEF Spec

-----------------------------------------------------------------------------
\* The rights of a call, and its filters.

\* A call that is not refused sends no count beyond a limit and every declared
\* filter, and, when it spells the names as the schema does, no closed measure
\* and every filter it has (costMeasuresIn and unknownFilterKeys, against what
\* mapToStruct leaves in the body).
LEMMA LetThrough ==
    ASSUME NEW rights \in Rights, NEW t \in Tools, NEW a \in Args, NEW n \in Int,
           ~Refused(rights, t, a)
    PROVE  LET b == BodyOf(t, a, n)
           IN  /\ Permitted(rights, t)
               /\ a.mname = "schema" => b.measures \cap ClosedTo(rights, t) = {}
               /\ Kind[t] # "admin" =>
                    /\ b.rows \in 0..(IF Kind[t] = "resolve" THEN ResolveLimit
                                                            ELSE MaxRows)
                    /\ b.depth \in 0..MaxDepth
               /\ a.fform # "garbled" /\ "filters" \in Contract[t].params
                    => /\ a.filters \cap Contract[t].filters \subseteq b.filters
                       /\ a.fname = "schema" => b.filters = a.filters
<1> DEFINE b == BodyOf(t, a, n)
<1>1. Permitted(rights, t)
  BY DEF Refused
<1>2. ClosedTo(rights, t) \subseteq CostMeasures[t]
  BY DEF ClosedTo
<1>3. ASSUME a.mname = "schema"
      PROVE  b.measures \cap ClosedTo(rights, t) = {}
  <2>1. CASE Kind[t] = "report"
    <3>1. b.measures = Opened(a.measures, a.mform)
      BY <2>1, BodyFacts
    <3>2. Opened(a.measures, a.mform) \cap CostMeasures[t] \cap ClosedTo(rights, t) = {}
      BY <1>3 DEF Refused, CostMeasuresIn, Under
    <3> QED
      BY <1>2, <3>1, <3>2
  <2>2. CASE Kind[t] # "report"
    <3>1. CostMeasures[t] = {}
      BY <2>2, ContractAssumption
    <3> QED
      BY <1>2, <3>1
  <2> QED
    BY <2>1, <2>2
<1>4. ASSUME a.fform # "garbled", "filters" \in Contract[t].params
      PROVE  /\ a.filters \cap Contract[t].filters \subseteq b.filters
             /\ a.fname = "schema" => b.filters = a.filters
  <2>1. b.filters = DecodedFilters(t, a)
    BY <1>4, BodyFacts, ContractAssumption
  <2>2. Opened(a.filters, a.fform) = a.filters
    BY <1>4 DEF Opened
  <2>3. a.fname = "schema" => a.filters \subseteq Contract[t].filters
    BY <1>4, <2>2 DEF Refused, UnknownFilterKeys, Under
  <2>4. Contract[t].filters \subseteq FilterFields[t]
    BY ContractAssumption
  <2> QED
    BY <2>1, <2>2, <2>3, <2>4 DEF DecodedFilters
<1> QED
  BY <1>1, <1>3, <1>4, BodyFacts

\* A call is in progress only as far as LetThrough allows, and goes on so.
LEMMA CallsInit ==
    Init => WithinRights /\ FiltersKept
BY DEF Init, WithinRights, FiltersKept

\* Every step keeps both: only Call puts a call in progress.
LEMMA CallsNext ==
    ASSUME TypeOK, WithinRights, FiltersKept, [Next]_vars
    PROVE  WithinRights' /\ FiltersKept'
<1>1. ASSUME NEW c \in Callers, handlers'[c] = Idle
      PROVE  handlers'[c].stage # "asked"
  BY <1>1
<1>2. ASSUME NEW c \in Callers, handlers'[c].stage = "asked",
             handlers'[c] # handlers[c]
      PROVE  \E rights \in Rights, t \in Tools, a \in Args, n \in Int :
                /\ ~Refused(rights, t, a)
                /\ handlers'[c] =
                     [stage |-> "asked", rights |-> rights, tool |-> t,
                      args |-> a, body |-> BodyOf(t, a, n)]
  <2>1. \A t, a : Relayed(t, a).stage = "mirrored"
    BY DEF Relayed
  <2>2. handlers'[c] # Idle
    BY <1>1, <1>2
  <2> HIDE DEF Idle
  <2> QED
    BY <1>2, <2>1, <2>2, CallerStep
<1>3. ASSUME NEW c \in Callers, handlers'[c].stage = "asked"
      PROVE  LET call == handlers'[c]  sent == call.body  kind == Kind[call.tool]
             IN  /\ Permitted(call.rights, call.tool)
                 /\ call.args.mname = "schema" =>
                      sent.measures \cap ClosedTo(call.rights, call.tool) = {}
                 /\ kind # "admin" =>
                      /\ sent.rows \in 0..(IF kind = "resolve" THEN ResolveLimit
                                                                ELSE MaxRows)
                      /\ sent.depth \in 0..MaxDepth
                 /\ call.args.fform # "garbled"
                    /\ "filters" \in Contract[call.tool].params
                    => /\ call.args.filters \cap Contract[call.tool].filters
                            \subseteq sent.filters
                       /\ call.args.fname = "schema" =>
                            sent.filters = call.args.filters
  <2>1. CASE handlers'[c] = handlers[c]
    BY <1>3, <2>1 DEF WithinRights, FiltersKept
  <2>2. CASE handlers'[c] # handlers[c]
    <3>1. PICK rights \in Rights, t \in Tools, a \in Args, n \in Int :
            /\ ~Refused(rights, t, a)
            /\ handlers'[c] =
                 [stage |-> "asked", rights |-> rights, tool |-> t,
                  args |-> a, body |-> BodyOf(t, a, n)]
      BY <1>2, <1>3, <2>2
    <3>2. /\ handlers'[c].rights = rights /\ handlers'[c].tool = t
          /\ handlers'[c].args = a /\ handlers'[c].body = BodyOf(t, a, n)
      BY <3>1
    <3> QED
      BY <3>1, <3>2, LetThrough
  <2> QED
    BY <2>1, <2>2
<1>4. WithinRights'
  BY <1>3 DEF WithinRights, Permitted, ClosedTo, Holds
<1>5. FiltersKept'
  BY <1>3 DEF FiltersKept
<1> QED
  BY <1>4, <1>5

\* What reaches 1C is of a permitted tool and within the limits of the gate, for
\* every table of tools, set of rights and call; and it asks for no measure
\* closed to the caller if the name of the argument is the one of the schema.
THEOREM CallsWithinRights == Spec => []WithinRights
<1>1. Init => TypeOK /\ WithinRights /\ FiltersKept
  BY TypeInit, CallsInit
<1>2. TypeOK /\ WithinRights /\ FiltersKept /\ [Next]_vars
        => (TypeOK /\ WithinRights /\ FiltersKept)'
  BY TypeNext, CallsNext
<1> QED
  BY <1>1, <1>2, PTL DEF Spec

\* Unless the filters do not parse, a declared filter reaches 1C, and under the
\* schema's own name for them any filter is refused or reaches 1C.
THEOREM NoFilterLost == Spec => []FiltersKept
<1>1. Init => TypeOK /\ WithinRights /\ FiltersKept
  BY TypeInit, CallsInit
<1>2. TypeOK /\ WithinRights /\ FiltersKept /\ [Next]_vars
        => (TypeOK /\ WithinRights /\ FiltersKept)'
  BY TypeNext, CallsNext
<1> QED
  BY <1>1, <1>2, PTL DEF Spec

\* The REST mirror says to 1C only what the tools say, for every table whose
\* whitelists are within the schemas and every request.
THEOREM RestIsAMirror == Spec => []RestSaysWhatToolsSay
<1>1. Init => RestSaysWhatToolsSay
  BY DEF Init, RestSaysWhatToolsSay
<1>2. ASSUME NEW t \in Mirrored, NEW a \in RestArgs, RestAccepts(t, a)
      PROVE  LET sent == RestBody(t, a)
                 same == AsInSchema(sent.measures, sent.filters, "plain", sent.rows)
             IN  /\ ~Refused(Everything, t, same)
                 /\ sent = BodyOf(t, same, sent.rows)
                 /\ Relayed(t, a).groups \subseteq Contract[t].groups
                 /\ Contract[t].required \subseteq a.given
  <2> DEFINE sent == RestBody(t, a)
             same == AsInSchema(sent.measures, sent.filters, "plain", sent.rows)
  <2>1. sent.filters \subseteq Contract[t].filters /\ sent = BodyOf(t, same, sent.rows)
    BY <1>2, RestFacts
  <2>2. Contract[t].required \subseteq a.given
    BY <1>2, MirrorAssumption DEF RestAccepts
  <2>3. Relayed(t, a).groups \subseteq Contract[t].groups
    BY <1>2, MirrorAssumption DEF RestAccepts, Relayed
  <2> HIDE DEF sent
  <2>4. ~Refused(Everything, t, same)
    BY <2>1 DEF Refused, Permitted, Holds, ClosedTo, UnknownFilterKeys, Opened,
                AsInSchema, Under
  <2> QED
    BY <2>1, <2>2, <2>3, <2>4 DEF sent
<1>3. ASSUME TypeOK, RestSaysWhatToolsSay, [Next]_vars
      PROVE  RestSaysWhatToolsSay'
  <2> SUFFICES ASSUME NEW c \in Callers, handlers'[c].stage = "mirrored"
               PROVE  LET sent == handlers'[c].body
                          tool == handlers'[c].tool
                          same == AsInSchema(sent.measures, sent.filters, "plain",
                                             sent.rows)
                      IN  /\ ~Refused(Everything, tool, same)
                          /\ sent = BodyOf(tool, same, sent.rows)
                          /\ handlers'[c].groups \subseteq Contract[tool].groups
                          /\ Contract[tool].required \subseteq handlers'[c].given
    BY DEF RestSaysWhatToolsSay
  <2>1. CASE handlers'[c] = handlers[c]
    BY <1>3, <2>1 DEF RestSaysWhatToolsSay
  <2>2. CASE handlers'[c] # handlers[c]
    <3>1. PICK t \in Mirrored, a \in RestArgs :
            RestAccepts(t, a) /\ handlers'[c] = Relayed(t, a)
      <4>1. handlers'[c] # Idle
        BY <2>2
      <4>2. \A rights, t, d, b :
              handlers'[c] # [stage |-> "asked", rights |-> rights, tool |-> t,
                              args |-> d, body |-> b]
        OBVIOUS
      <4> HIDE DEF Idle
      <4> QED
        BY <1>3, <2>2, <4>1, <4>2, CallerStep
    <3>2. /\ handlers'[c].body = RestBody(t, a) /\ handlers'[c].tool = t
          /\ handlers'[c].given = a.given
      BY <3>1 DEF Relayed
    <3> QED
      BY <1>2, <3>1, <3>2
  <2> QED
    BY <2>1, <2>2
<1> QED
  BY <1>1, <1>3, Typing, PTL DEF Spec

-----------------------------------------------------------------------------
\* Listings.

\* What must hold of an offered schema for calls of it to go through; "added"
\* are the measures a profile put there.
Sound(s, rights, t, added) ==
    /\ s \in Schema
    /\ s.required \subseteq s.params
    /\ s.measures \cap ClosedTo(rights, t) \subseteq added
    /\ s.filters \subseteq Contract[t].filters

\* stripCostMeasures makes a schema sound; stripFacets of a profile keeps it so,
\* and addFacets puts back no closed measure but its own.
LEMMA StripIsSound ==
    ASSUME NEW rights, NEW t \in Tools
    PROVE  Sound(StripCostMeasures(rights, t), rights, t, {})
<1>1. Contract[t] \in Schema /\ Contract[t].required \subseteq Contract[t].params
  BY ContractAssumption
<1>2. StripCostMeasures(rights, t) =
        [params |-> Contract[t].params, required |-> Contract[t].required,
         filters |-> Contract[t].filters, groups |-> Contract[t].groups,
         measures |-> Contract[t].measures \ ClosedTo(rights, t)]
  BY <1>1 DEF StripCostMeasures, Schema
<1> QED
  BY <1>1, <1>2 DEF Sound, Schema

\* The second half: stripFacets and addFacets.
LEMMA FacetsKeepSound ==
    ASSUME NEW rights, NEW t \in Tools, NEW s, Sound(s, rights, t, {}),
           NEW f \in Facets
    PROVE  /\ Sound(StripFacets(s, f), rights, t, {})
           /\ Sound(AddFacets(s, f), rights, t, f.measures)
<1>1. /\ f.params \in SUBSET STRING /\ f.filters \in SUBSET STRING
      /\ f.groups \in SUBSET STRING /\ f.measures \in SUBSET STRING
      /\ s.params \in SUBSET STRING /\ s.required \in SUBSET STRING
      /\ s.filters \in SUBSET STRING
      /\ s.groups \in SUBSET STRING /\ s.measures \in SUBSET STRING
  BY DEF Sound, Schema, Facets
<1> DEFINE S(p, r, F, G, M) == [params |-> p, required |-> r, filters |-> F,
                                groups |-> G, measures |-> M]
<1>2. ASSUME NEW p \in SUBSET STRING, NEW r \in SUBSET p,
             NEW F \in SUBSET Contract[t].filters, NEW G \in SUBSET STRING,
             NEW M \in SUBSET STRING, NEW added,
             M \cap ClosedTo(rights, t) \subseteq added
      PROVE  Sound(S(p, r, F, G, M), rights, t, added)
  <2>1. F \in SUBSET STRING
    BY ContractAssumption DEF Schema
  <2> QED
    BY <1>2, <2>1 DEF Sound, Schema
<1>3. Sound(StripFacets(s, f), rights, t, {})
  <2>1. PICK F \in SUBSET s.filters, G \in SUBSET s.groups, M \in SUBSET s.measures :
          StripFacets(s, f) =
            S(s.params \ f.params, s.required \ f.params, F, G, M)
    BY DEF StripFacets
  <2>2. /\ s.required \ f.params \in SUBSET (s.params \ f.params)
        /\ F \in SUBSET Contract[t].filters /\ M \cap ClosedTo(rights, t) \subseteq {}
        /\ G \in SUBSET STRING /\ M \in SUBSET STRING
        /\ s.params \ f.params \in SUBSET STRING
    BY <1>1, <2>1 DEF Sound
  <2> HIDE DEF S
  <2> QED
    BY <1>2, <2>1, <2>2
<1>4. Sound(AddFacets(s, f), rights, t, f.measures)
  <2> DEFINE G == IF "group_by" \in s.params THEN f.groups ELSE {}
             M == IF "measures" \in s.params THEN f.measures ELSE {}
  <2>1. AddFacets(s, f) =
          S(s.params, s.required, s.filters, s.groups \cup G, s.measures \cup M)
    BY DEF AddFacets
  <2>2. /\ s.required \in SUBSET s.params /\ s.filters \in SUBSET Contract[t].filters
        /\ (s.measures \cup M) \cap ClosedTo(rights, t) \subseteq f.measures
        /\ s.groups \cup G \in SUBSET STRING /\ s.measures \cup M \in SUBSET STRING
    BY <1>1 DEF Sound
  <2> HIDE DEF S, G, M
  <2> QED
    BY <1>1, <1>2, <2>1, <2>2
<1> QED
  BY <1>3, <1>4

\* Every schema of a listing is sound, and of a tool the rights permit
\* (handleToolsList and applyProfile).
LEMMA ListingIsSound ==
    ASSUME NEW rights, NEW p \in Profiles \cup {NoProfile},
           NEW t \in DOMAIN Listing(rights, p)
    PROVE  /\ t \in Tools /\ Permitted(rights, t)
           /\ Sound(Listing(rights, p)[t], rights, t, AddedBy(p, t))
<1>1. t \in Tools /\ Permitted(rights, t)
  BY DEF Listing
<1> DEFINE s == StripCostMeasures(rights, t)
<1>2. Sound(s, rights, t, {})
  BY <1>1, StripIsSound
<1>3. CASE p = NoProfile
  BY <1>1, <1>2, <1>3 DEF Listing, AddedBy
<1>4. CASE p # NoProfile
  <2>1. Listing(rights, p)[t] = Shaped(s, t, p)
    BY <1>1, <1>4 DEF Listing
  <2>2. p \in Profiles
    BY <1>4
  <2> DEFINE less == IF t \in DOMAIN p.unsupported
                       THEN StripFacets(s, p.unsupported[t]) ELSE s
  <2>3. Sound(less, rights, t, {})
    <3>1. CASE t \in DOMAIN p.unsupported
      <4>1. p.unsupported[t] \in Facets
        BY <1>1, <2>2, <3>1, ProfilesAssumption
      <4> QED
        BY <1>1, <1>2, <3>1, <4>1, FacetsKeepSound
    <3> QED
      BY <1>2, <3>1
  <2>4. CASE t \in DOMAIN p.extra
    <3>1. p.extra[t] \in Facets
      BY <1>1, <2>2, <2>4, ProfilesAssumption
    <3>2. Sound(AddFacets(less, p.extra[t]), rights, t, p.extra[t].measures)
      BY <1>1, <2>3, <3>1, FacetsKeepSound
    <3>3. Shaped(s, t, p) = AddFacets(less, p.extra[t])
      BY <2>4 DEF Shaped
    <3>4. AddedBy(p, t) = p.extra[t].measures
      BY <1>4, <2>4 DEF AddedBy
    <3> QED
      BY <1>1, <2>1, <3>2, <3>3, <3>4
  <2>5. CASE t \notin DOMAIN p.extra
    <3>1. Shaped(s, t, p) = less
      BY <2>5 DEF Shaped
    <3>2. AddedBy(p, t) = {}
      BY <2>5 DEF AddedBy
    <3> QED
      BY <1>1, <2>1, <2>3, <3>1, <3>2
  <2> QED
    BY <2>4, <2>5
<1> QED
  BY <1>3, <1>4

\* What is listed, but for closed measures, can be called with the same rights,
\* all at once.
LEMMA SoundIsCallable ==
    ASSUME NEW rights, NEW t \in Tools, NEW s, NEW added, Permitted(rights, t),
           Sound(s, rights, t, added), NEW form \in {"plain", "encoded"}
    PROVE  LET all == AsInSchema(s.measures \ ClosedTo(rights, t), s.filters, form, 0)
           IN  /\ ~Refused(rights, t, all)
               /\ DecodedFilters(t, all) = s.filters
<1> DEFINE a == AsInSchema(s.measures \ ClosedTo(rights, t), s.filters, form, 0)
<1>1. /\ Opened(a.measures, a.mform) = s.measures \ ClosedTo(rights, t)
      /\ Opened(a.filters, a.fform) = s.filters
  BY DEF Opened, AsInSchema
<1>2. s.filters \subseteq Contract[t].filters
  BY DEF Sound
<1>3. CostMeasuresIn(t, a) \cap ClosedTo(rights, t) = {}
  BY <1>1 DEF CostMeasuresIn, Under
<1>4. UnknownFilterKeys(t, a) = {}
  BY <1>1, <1>2 DEF UnknownFilterKeys, Under
<1>5. Contract[t].filters \subseteq FilterFields[t]
  BY ContractAssumption
<1> QED
  BY <1>1, <1>2, <1>3, <1>4, <1>5 DEF Refused, DecodedFilters

\* What tools/list offers, tools/call takes, for every table, every profile and
\* all rights; and a closed measure is on offer only when the profile itself
\* adds it to the tool.
THEOREM OfferIsCallable == Spec => []ListedIsCallable
<1>1. TypeOK => ListedIsCallable
  <2> SUFFICES ASSUME TypeOK, NEW l \in Listers, handlers[l].stage = "listed",
                      NEW t \in DOMAIN Listing(handlers[l].rights, handlers[l].profile)
               PROVE  LET s == Listing(handlers[l].rights, handlers[l].profile)[t]
                          closed == ClosedTo(handlers[l].rights, t)
                      IN  /\ s.required \subseteq s.params
                          /\ s.measures \cap closed
                               \subseteq AddedBy(handlers[l].profile, t)
                          /\ \A form \in {"plain", "encoded"} :
                               LET all == AsInSchema(s.measures \ closed, s.filters,
                                                     form, 0)
                               IN  /\ ~Refused(handlers[l].rights, t, all)
                                   /\ DecodedFilters(t, all) = s.filters
    BY DEF ListedIsCallable
  <2> DEFINE rights == handlers[l].rights
             p == handlers[l].profile
             s == Listing(rights, p)[t]
             closed == ClosedTo(rights, t)
  <2>1. p \in Profiles \cup {NoProfile}
    BY DEF TypeOK, AtList, Usable
  <2>2. t \in Tools /\ Permitted(rights, t) /\ Sound(s, rights, t, AddedBy(p, t))
    BY <2>1, ListingIsSound
  <2>3. s.required \subseteq s.params /\ s.measures \cap closed \subseteq AddedBy(p, t)
    BY <2>2 DEF Sound
  <2> HIDE DEF s, rights, p
  <2>4. ASSUME NEW form \in {"plain", "encoded"}
        PROVE  LET all == AsInSchema(s.measures \ closed, s.filters, form, 0)
               IN  ~Refused(rights, t, all) /\ DecodedFilters(t, all) = s.filters
    BY <2>2, SoundIsCallable
  <2> QED
    BY <2>3, <2>4 DEF s, rights, p
<1> QED
  BY <1>1, Typing, PTL

-----------------------------------------------------------------------------
\* The age of the profile.

\* A request for the profile ends within Timeout, so what it stores was said by
\* 1C no longer ago than that.
Timely ==
    /\ \A l \in Listers :
         /\ handlers[l].stage = "fetch"
              => now >= handlers[l].started /\ now <= handlers[l].started + Timeout
         /\ handlers[l].stage = "fetched"
              => /\ now <= handlers[l].started + Timeout
                 /\ handlers[l].started <= handlers[l].at
    /\ caps.expires <= caps.at + Timeout + TTL

\* Every step keeps Timely: the clock waits for requests that are due, and what
\* is stored was asked for in time.
LEMMA TimelyNext ==
    ASSUME TypeOK, Timely, [Next]_vars
    PROVE  Timely'
<1>1. TTL \in Nat /\ Timeout \in Nat /\ now \in Nat
  BY LimitsAssumption DEF TypeOK
<1>2. ASSUME NEW l \in Listers
      PROVE  /\ handlers[l].stage = "fetch" => handlers[l].started \in Nat
             /\ handlers[l].stage = "fetched"
                  => handlers[l].started \in Nat /\ handlers[l].at \in Nat
  BY DEF TypeOK, AtList
<1>3. caps'.expires <= caps'.at + Timeout + TTL
  <2>1. ASSUME NEW l \in Listers, handlers[l].stage = "fetched"
        PROVE  now + TTL <= handlers[l].at + Timeout + TTL
    BY <1>1, <1>2, <2>1 DEF Timely
  <2> QED
    BY <2>1, TimeStep DEF Timely
<1>4. ASSUME NEW l \in Listers
      PROVE  /\ handlers'[l].stage = "fetch"
                  => /\ now' >= handlers'[l].started
                     /\ now' <= handlers'[l].started + Timeout
             /\ handlers'[l].stage = "fetched"
                  => /\ now' <= handlers'[l].started + Timeout
                     /\ handlers'[l].started <= handlers'[l].at
  <2>1. CASE Tick
    <3>1. handlers' = handlers /\ now' = now + 1
      BY <2>1 DEF Tick
    <3>2. handlers[l].stage \in {"fetch", "fetched"}
            => now < handlers[l].started + Timeout
      BY <2>1 DEF Tick
    <3> QED
      BY <1>1, <1>2, <3>1, <3>2 DEF Timely
  <2>2. CASE ~Tick
    <3>1. now' = now
      BY <2>2, TimeStep
    <3>2. ASSUME NEW rights, NEW p
          PROVE  Listed(rights, p).stage = "listed"
      BY DEF Listed
    <3>3. CASE handlers'[l] = handlers[l]
      BY <3>1, <3>3 DEF Timely
    <3>4. CASE handlers'[l].stage \notin {"fetch", "fetched"}
      BY <3>4
    <3>5. CASE \E rights \in Rights :
                 handlers'[l] = [stage |-> "fetch", rights |-> rights,
                                 started |-> now]
      BY <1>1, <3>1, <3>5
    <3>6. CASE /\ handlers[l].stage = "fetch"
               /\ \E p \in {Understood(health), NoProfile} :
                    handlers'[l] =
                      [stage |-> "fetched", rights |-> handlers[l].rights,
                       started |-> handlers[l].started,
                       profile |-> p, at |-> now]
      BY <1>1, <1>2, <3>1, <3>6 DEF Timely
    <3> QED
      BY <3>2, <3>3, <3>4, <3>5, <3>6, ListerStep
  <2> QED
    BY <2>1, <2>2
<1> QED
  BY <1>3, <1>4 DEF Timely

\* A profile in use was reported no longer ago than TTL and the time a request
\* for it may take, however many requests store theirs.
THEOREM ProfileStaysFresh == Spec => []ProfileFresh
<1>1. Init => TypeOK /\ Timely
  <2>1. Init => Timely
    BY LimitsAssumption DEF Init, Timely, NeverAsked
  <2> QED
    BY <2>1, TypeInit
<1>2. TypeOK /\ Timely /\ [Next]_vars => (TypeOK /\ Timely)'
  BY TypeNext, TimelyNext
<1>3. TypeOK /\ Timely => ProfileFresh
  BY LimitsAssumption DEF TypeOK, CapsType, Timely, ProfileFresh, Fresh
<1> QED
  BY <1>1, <1>2, <1>3, PTL DEF Spec

-----------------------------------------------------------------------------
\* More rights.

\* A schema that offers what another does, and perhaps more measures.
Wider(s, u) ==
    /\ s.params = u.params /\ s.required = u.required
    /\ s.filters = u.filters /\ s.groups = u.groups
    /\ u.measures \subseteq s.measures

\* What a profile takes and adds does not depend on the rights.
LEMMA FacetsKeepWider ==
    ASSUME NEW s, NEW u, Wider(s, u), NEW f
    PROVE  /\ Wider(StripFacets(s, f), StripFacets(u, f))
           /\ Wider(AddFacets(s, f), AddFacets(u, f))
<1>1. Wider(StripFacets(s, f), StripFacets(u, f))
  BY DEF Wider, StripFacets
<1>2. Wider(AddFacets(s, f), AddFacets(u, f))
  BY DEF Wider, AddFacets
<1> QED
  BY <1>1, <1>2

\* A profile as a whole.
LEMMA ProfileKeepsWider ==
    ASSUME NEW s, NEW u, Wider(s, u), NEW t, NEW p
    PROVE  Wider(Shaped(s, t, p), Shaped(u, t, p))
<1> DEFINE Less(v) == IF t \in DOMAIN p.unsupported
                        THEN StripFacets(v, p.unsupported[t]) ELSE v
<1>1. Wider(Less(s), Less(u))
  BY FacetsKeepWider
<1>2. /\ Shaped(s, t, p) = IF t \in DOMAIN p.extra
                             THEN AddFacets(Less(s), p.extra[t]) ELSE Less(s)
      /\ Shaped(u, t, p) = IF t \in DOMAIN p.extra
                             THEN AddFacets(Less(u), p.extra[t]) ELSE Less(u)
  BY DEF Shaped
<1> HIDE DEF Less
<1> QED
  BY <1>1, <1>2, FacetsKeepWider

\* Rights only ever open: a caller with more of them sees every tool that the
\* other one sees, with all it offers to that one, and is refused nothing that
\* the other one may call (stripCostMeasures before applyProfile in
\* handleToolsList, the checks of handleToolsCall).
THEOREM RightsOnlyOpen ==
    ASSUME NEW more, NEW less, \A s \in Scopes \cup {CostScope} :
                                 Holds(less, s) => Holds(more, s)
    PROVE  /\ \A p \in Profiles \cup {NoProfile} : \A t \in DOMAIN Listing(less, p) :
                /\ t \in DOMAIN Listing(more, p)
                /\ Wider(Listing(more, p)[t], Listing(less, p)[t])
           /\ \A t \in Tools : \A a \in Args :
                Refused(more, t, a) => Refused(less, t, a)
<1>1. ASSUME NEW t \in Tools
      PROVE  /\ Permitted(less, t) => Permitted(more, t)
             /\ ClosedTo(more, t) \subseteq ClosedTo(less, t)
  BY ContractAssumption DEF Permitted, ClosedTo
<1>2. ASSUME NEW t \in Tools
      PROVE  Wider(StripCostMeasures(more, t), StripCostMeasures(less, t))
  <2>1. Contract[t] \in Schema
    BY ContractAssumption
  <2> QED
    BY <1>1, <2>1 DEF Wider, StripCostMeasures, Schema
<1>3. ASSUME NEW p \in Profiles \cup {NoProfile}, NEW t \in DOMAIN Listing(less, p)
      PROVE  /\ t \in DOMAIN Listing(more, p)
             /\ Wider(Listing(more, p)[t], Listing(less, p)[t])
  <2>1. t \in Tools /\ Permitted(less, t) /\ Permitted(more, t)
    BY <1>1, <1>3 DEF Listing
  <2>2. CASE p = NoProfile
    BY <1>2, <2>1, <2>2 DEF Listing
  <2>3. CASE p # NoProfile
    <3>1. t \notin p.unavailable
      BY <1>3, <2>3 DEF Listing
    <3>2. /\ t \in DOMAIN Listing(more, p)
          /\ Listing(more, p)[t] = Shaped(StripCostMeasures(more, t), t, p)
          /\ Listing(less, p)[t] = Shaped(StripCostMeasures(less, t), t, p)
      BY <2>1, <2>3, <3>1 DEF Listing
    <3> QED
      BY <1>2, <2>1, <3>2, ProfileKeepsWider
  <2> QED
    BY <2>2, <2>3
<1>4. ASSUME NEW t \in Tools, NEW a \in Args, Refused(more, t, a)
      PROVE  Refused(less, t, a)
  BY <1>1, <1>4 DEF Refused
<1> QED
  BY <1>3, <1>4
=============================================================================
