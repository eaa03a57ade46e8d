---------------------------- MODULE ToolContract ----------------------------
(***************************************************************************)
(* The tools the gate publishes (internal/mcp/tools.go): the right each of *)
(* them needs, the measures closed by the cost right, the schema that      *)
(* tools/list announces, and the handler that tools/call sends it to.      *)
(*                                                                         *)
(* A schema is reduced to the names a call can get wrong: its parameters,  *)
(* those required, the keys of "filters" and the two enumerations.  Types  *)
(* and descriptions are left out, and of the parameters those that no code *)
(* and no profile singles out (sort, top, limit, qty, ...).                *)
(***************************************************************************)
LOCAL INSTANCE TLC

Schema(params, required, filters, groups, measures) ==
    [params |-> params, required |-> required, filters |-> filters,
     groups |-> groups, measures |-> measures]

Bare(params, required) == Schema(params, required, {}, {}, {})

Report(params, required, filters, groups, measures) ==
    Schema(params \cup {"filters", "group_by", "measures"},
           required, filters, groups, measures)

Resolvers ==
    {"resolve_customer", "resolve_warehouse", "resolve_product",
     "resolve_material", "resolve_sales_channel", "resolve_firm"}

MoneyResolvers == {"resolve_cash", "resolve_cost_article", "resolve_operation"}

Catalog ==
    [t \in Resolvers |-> Bare({"query"}, {"query"})]
    @@ "product_details" :> Bare({"product_ids", "fields"}, {"product_ids"})

Days == {"day", "week", "month"}

Sales ==
    [sales_report |-> Report({"period"}, {"period"},
        {"customer_cohort", "customer_ids", "firm_ids", "product_ids",
         "product_status", "sales_channel_ids", "warehouse_ids"},
        Days \cup {"warehouse", "customer", "product", "seller", "sales_channel",
                   "cohort", "product_group", "customer_group", "firm"},
        {"amount", "qty", "receipts", "avg_check", "customers",
         "cost", "profit", "margin"}),
     top_products |-> Schema({"period", "filters", "by"}, {"period"},
        {"customer_ids", "firm_ids", "product_ids", "warehouse_ids"}, {}, {}),
     customer_summary |-> Bare({"customer_id", "period"}, {"customer_id", "period"})]

Stock ==
    [stock_balance |-> Report({"date"}, {},
        {"firm_ids", "product_ids", "product_status", "warehouse_ids"},
        {"warehouse", "product", "product_group", "firm"}, {"qty", "amount"}),
     availability_report |-> Report({"period"}, {"period"},
        {"firm_ids", "product_ids", "warehouse_ids"},
        {"product", "product_group", "warehouse", "week", "firm"},
        {"oos_days", "days", "availability_pct", "avg_qty"})]

Cash ==
    [t \in MoneyResolvers |-> Bare({"query"}, {"query"})]
    @@ [cash_balance |-> Report({"date"}, {}, {"cash_ids", "firm_ids"},
            {"cash", "firm"}, {"balance"}),
        cash_flow |-> Report({"period"}, {"period"},
            {"cash_ids", "cost_article_ids", "customer_ids", "firm_ids",
             "operation_ids"},
            Days \cup {"account", "operation", "analytics", "firm"},
            {"inflow", "outflow", "net"})]

Settlements ==
    [receivables_balance |-> Report({"date"}, {}, {"customer_ids", "firm_ids"},
        {"customer", "firm"}, {"receivable", "advance", "net"}),
     payables_balance |-> Report({"date"}, {}, {"supplier_ids", "firm_ids"},
        {"supplier", "firm"}, {"payable", "advance", "net"})]

Purchases ==
    [purchases_report |-> Report({"period", "in_transit"}, {"period"},
        {"firm_ids", "product_ids", "supplier_ids", "warehouse_ids"},
        Days \cup {"supplier", "firm", "warehouse", "product", "product_group",
                   "currency", "in_transit", "delivery_date"},
        {"amount", "amount_currency", "amount_without_vat", "qty", "documents"}),
     goods_in_transit |-> Report({"date"}, {},
        {"firm_ids", "product_ids", "status_ids", "supplier_ids",
         "warehouse_ids"},
        {"warehouse", "product", "product_group", "firm", "status", "supplier",
         "document", "delivery_date"},
        {"qty", "amount", "amount_in_currency"})]

Reserves ==
    [stock_reserves |-> Report({}, {},
        {"customer_ids", "expires_before", "firm_ids", "product_ids",
         "warehouse_ids"},
        {"warehouse", "product", "product_group", "customer", "firm",
         "document", "reserved_at", "reserved_until"},
        {"qty", "documents"})]

Admin ==
    [event_log |-> Bare({"period"}, {}),
     object_history |-> Bare({"object_type", "object_id"}, {"object_type"}),
     find_document |-> Bare({"doc_type", "number"}, {"doc_type"})]

Sections == {"matrix_id", "composition_type_id", "production_group_id"}

Specifications ==
    [product_specification |-> Bare(Sections \cup {"product_id", "product_ids"}, {}),
     specification_cost |-> Bare(Sections \cup {"product_id", "product_ids"}, {}),
     specification_explode |-> Bare(Sections \cup {"product_id"}, {"product_id"}),
     specification_where_used |->
        Bare(Sections \cup {"material_id", "material_ids"}, {}),
     specification_versions |-> Bare(Sections \cup {"product_id"}, {"product_id"}),
     specification_list |-> Bare(Sections \cup {"product_ids"}, {})]

\* productionSchema
ProductionSchema(filters, groups, measures) ==
    Report({"period", "operation_type"}, {"period"},
        filters \cup {"product_ids", "warehouse_ids", "matrix_ids",
                      "composition_type_ids", "production_group_ids",
                      "firm_ids"},
        groups \cup Days \cup {"product", "product_group", "warehouse", "matrix",
                      "composition_type", "production_group", "firm",
                      "operation", "document"},
        measures \cup {"qty", "amount", "amount_novat", "documents"})

Production ==
    [production_output |-> ProductionSchema({"employee_ids"}, {"employee"},
        {"qty_plan", "raw_qty_plan", "qty_variance"}),
     production_consumption |-> ProductionSchema({"material_ids"},
        {"material", "material_group"}, {}),
     production_document |-> Bare({"document_id"}, {"document_id"})]

GetTools ==
    Catalog @@ Sales @@ Stock @@ Cash @@ Settlements @@ Purchases @@ Reserves
            @@ Admin @@ Specifications @@ Production

AllTools == DOMAIN GetTools

Goods == {"product_ids", "warehouse_ids", "firm_ids"}

Turnover == Goods \cup {"material_ids", "employee_ids", "matrix_ids",
                       "composition_type_ids", "production_group_ids"}

\* The fields of the struct that each tool decodes its filters into: a key
\* without a field here never reaches 1C.
FilterStructs ==
    [sales_report |-> Goods \cup {"customer_ids", "sales_channel_ids",
                                 "customer_cohort", "product_status"},
     top_products |-> Goods \cup {"customer_ids"},
     stock_balance |-> Goods \cup {"product_status"},
     availability_report |-> Goods,
     cash_balance |-> {"cash_ids", "firm_ids"},
     cash_flow |-> {"cash_ids", "operation_ids", "cost_article_ids",
                    "customer_ids", "firm_ids"},
     receivables_balance |-> {"customer_ids", "firm_ids"},
     payables_balance |-> {"supplier_ids", "firm_ids"},
     purchases_report |-> Goods \cup {"supplier_ids"},
     goods_in_transit |-> Goods \cup {"status_ids", "supplier_ids"},
     stock_reserves |-> Goods \cup {"customer_ids", "expires_before"},
     production_output |-> Turnover,
     production_consumption |-> Turnover]
    @@ [t \in AllTools |-> {}]

ScopeReportCost == "mcp:report:cost"

Closed ==
    [sales_report |-> {"cost", "profit", "margin"},
     stock_balance |-> {"amount"},
     goods_in_transit |-> {"amount", "amount_in_currency"}]

MeasuresByTool ==
    [t \in AllTools |-> IF t \in DOMAIN Closed THEN Closed[t] ELSE {}]

ScopeOf(t) ==
    CASE t \in (Resolvers \ {"resolve_material"}) \cup {"product_details"}
           -> "mcp:resolve"
      [] t \in DOMAIN Sales -> "mcp:report:sales"
      [] t \in DOMAIN Stock \cup {"goods_in_transit", "stock_reserves"}
           -> "mcp:report:stock"
      [] t \in DOMAIN Cash \cup DOMAIN Settlements \cup {"purchases_report"}
           -> "mcp:report:money"
      [] t \in DOMAIN Admin -> "mcp:admin:eventlog"
      [] OTHER -> ScopeReportCost

ScopesByTool == [t \in AllTools |-> ScopeOf(t)]

\* The methods of Handler that do the same with their arguments.
KindOf(t) ==
    CASE t \in Resolvers \cup MoneyResolvers -> "resolve"
      [] t \in {"top_products", "customer_summary"} -> t
      [] t \in DOMAIN Admin -> "admin"
      [] t \in DOMAIN Specifications -> "specification"
      [] t \in {"product_details", "production_document"} -> "plain"
      [] OTHER -> "report"

MethodByTool == [t \in AllTools |-> KindOf(t)]

-----------------------------------------------------------------------------
\* The REST routes of a database, and what their handlers know of the tools
\* they mirror (internal/api): the fields they insist on, the whitelists, and
\* the filters that the request has a field for.
RestRoutes ==
    {"resolve_customer", "resolve_warehouse", "resolve_product",
     "resolve_sales_channel", "sales_report", "stock_balance"}

PerRoute(sales, stock, resolver) ==
    [t \in RestRoutes |-> CASE t = "sales_report" -> sales
                            [] t = "stock_balance" -> stock
                            [] OTHER -> resolver]

MustHave == PerRoute({"period"}, {}, {"query"})

ValidMeasures ==
    PerRoute({"amount", "qty", "receipts", "avg_check", "customers"},
             {"qty", "amount"}, {})

ValidGroupBy ==
    PerRoute(Days \cup {"customer", "warehouse", "product", "seller",
                        "sales_channel", "cohort", "product_group",
                        "customer_group"},
             {"warehouse", "product", "product_group"}, {})

RestFilterStructs ==
    PerRoute({"customer_ids", "warehouse_ids", "sales_channel_ids"},
             {"product_ids", "warehouse_ids"}, {})
=============================================================================
