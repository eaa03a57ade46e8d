---------------------------- MODULE MCMcpDispatch ----------------------------
(* Instances of McpDispatch for TLC: the tools of the gate, and a few of the  *)
(* profiles and calls that meet them.                                         *)
EXTENDS McpDispatch, TLC

Table == INSTANCE ToolContract

MCTools == Table!AllTools
MCContract == Table!GetTools
MCToolScopes == Table!ScopesByTool
MCCostMeasures == Table!MeasuresByTool
MCKind == Table!MethodByTool
MCFilterFields == Table!FilterStructs
MCMirrored == Table!RestRoutes
MCRestRequired == Table!MustHave
MCRestMeasures == Table!ValidMeasures
MCRestGroups == Table!ValidGroupBy
MCRestFilters == Table!RestFilterStructs
MCCostScope == Table!ScopeReportCost

MCScopes == {"mcp:resolve", "mcp:report:sales", "mcp:report:stock",
             "mcp:report:money", "mcp:admin:eventlog", MCCostScope}

MCRights == {Everything, {"mcp:report:sales", "mcp:report:stock"}}

Nothing == [params |-> {}, filters |-> {}, groups |-> {}, measures |-> {}]

\* internal/mcp/testdata/upp_profile.json in part; sales without a period and
\* two measures of stock are added to it, so that a required parameter goes and
\* an enumeration with closed measures grows, once by a measure of its own and
\* once by a closed one.
Upp ==
    [version |-> 1,
     unsupported |->
        [sales_report |-> [Nothing EXCEPT
            !.params = {"period"},
            !.filters = {"sales_channel_ids", "customer_cohort"},
            !.groups = {"sales_channel", "cohort"}],
         purchases_report |-> [Nothing EXCEPT
            !.params = {"in_transit"}, !.filters = {"warehouse_ids"},
            !.groups = {"warehouse", "in_transit"},
            !.measures = {"amount_currency"}],
         cash_flow |-> [Nothing EXCEPT !.params = {"filters"}],
         specification_cost |-> [Nothing EXCEPT !.params = Table!Sections]],
     extra |->
        [purchases_report |-> [Nothing EXCEPT
            !.groups = {"contract", "document"}],
         stock_balance |-> [Nothing EXCEPT !.measures = {"reserved_qty", "amount"}]],
     unavailable |-> {"goods_in_transit", "product_details"}]

\* A profile of a structure the gate does not know.
Newer == [Upp EXCEPT !.version = 2]

MCProfiles == {Upp, Newer}

Plain ==
    [measures |-> {}, mname |-> "schema", mform |-> "plain",
     filters |-> {}, fname |-> "schema", fform |-> "plain",
     number |-> 0, nform |-> "plain"]

\* Calls of a tool of each kind and of those with closed measures; one of them
\* spells the names in its own way.  (What is listed, and the assumptions, are
\* checked for every tool.)
Called ==
    {"resolve_customer", "product_details", "event_log", "customer_summary",
     "top_products", "product_specification"} \cup DOMAIN Table!Closed

MCRequested ==
    [t \in Tools |->
       IF t \notin Called THEN {} ELSE
       {[Plain EXCEPT !.number = 12, !.measures = {"qty"}, !.mform = "garbled"],
        [Plain EXCEPT !.nform = "huge", !.filters = {"fabric_ids"}]}
       \cup IF Contract[t].filters = {} THEN {}
            ELSE {[Plain EXCEPT !.filters = Contract[t].filters, !.number = -1,
                                !.measures = {"amount"}],
                  [Plain EXCEPT !.filters = {"firm_ids"}, !.fform = "encoded",
                                !.measures = {"qty", "amount", "profit"},
                                !.mform = "encoded", !.number = 2],
                  [Plain EXCEPT !.filters = {"firm_ids", "fabric_ids"},
                                !.fname = "other", !.mname = "other",
                                !.measures = {"qty", "amount"}, !.number = 5],
                  [Plain EXCEPT !.filters = {"firm_ids"}, !.fform = "garbled",
                                !.nform = "garbled"]}]

\* A request that every route takes, with filters that it may not have a field
\* for; one for a cost; one for groups the route does not know; one that gives
\* nothing.
MCRestRequested ==
    [t \in Mirrored |->
       LET given == Contract[t].required
       IN  {[given |-> given, measures |-> {"qty"}, groups |-> {"product"},
             filters |-> Contract[t].filters, number |-> 12],
            [given |-> given, measures |-> {"qty", "profit"}, groups |-> {},
             filters |-> {}, number |-> 2],
            [given |-> given, measures |-> {"amount"}, groups |-> {"supplier"},
             filters |-> {}, number |-> -1],
            [given |-> {}, measures |-> {}, groups |-> {}, filters |-> {},
             number |-> 0]}]

MCSymmetry == Permutations(Listers)
=============================================================================
