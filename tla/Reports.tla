------------------------------- MODULE Reports -------------------------------
(***************************************************************************)
(* The reports over sales orders, suppliers and stock.  A report is made of *)
(* statements of their own, which no transaction holds together: others may *)
(* write between two of them, in any order of a Promise.all.                *)
(***************************************************************************)
EXTENDS Integers, FiniteSetsExt

CONSTANTS
  OrderNos, DetailNos,    \* rows of SOHeader and of SODetail
  SupplierNos,            \* rows of Supplier
  Places, Goods,          \* warehouses and SKUs of the stock rows
  Amounts,                \* totals of orders and lines, and stock quantities
  Ratings,                \* in tenths of a point
  Nothing                 \* NULL, a parameter left out, a part not read

ASSUME ReportsAssumption ==
  /\ IsFiniteSet(OrderNos) /\ IsFiniteSet(DetailNos) /\ IsFiniteSet(SupplierNos)
  /\ IsFiniteSet(Places) /\ IsFiniteSet(Goods)
  /\ Amounts \subseteq Nat /\ Ratings \subseteq 0..50 /\ Nothing \notin Int

VARIABLES
  orders,     \* number -> [status, customer, day, amount], a header
  details,    \* number -> [order, sku, amount], a line
  partners,   \* number -> [active, category, rating, month], a supplier
  held,       \* <<warehouse, SKU>> -> [quantity, reservedQty] or Nothing
  report,     \* the report being made
  disturbed   \* history: something was written between its statements

reportVars == <<orders, details, partners, held, report, disturbed>>

-----------------------------------------------------------------------------
(* Sales orders.                                                           *)

\* What an overview, a series and a ranking count: dates are from and to.
Counted(p) == {o \in OrderNos :
  /\ orders[o].status \notin {"CANCELLED", "DRAFT"}
  /\ p.from = Nothing \/ orders[o].day >= p.from
  /\ p.to = Nothing \/ orders[o].day <= p.to
  /\ p.customer = Nothing \/ orders[o].customer = p.customer}

Revenue(S) == SumFunction([o \in S |-> orders[o].amount])
CountAndSum(S) == [count |-> Cardinality(S), revenue |-> Revenue(S)]

\* GROUP BY a column, for the rows S.
GroupedBy(column, S) ==
  [v \in {column[o] : o \in S} |-> CountAndSum({o \in S : column[o] = v})]

Status == [o \in OrderNos |-> orders[o].status]
Day == [o \in OrderNos |-> orders[o].day]
Customer == [o \in OrderNos |-> orders[o].customer]

OfCustomer(p) == {o \in OrderNos :
  p.customer = Nothing \/ orders[o].customer = p.customer}
OpenOrders(p) == {o \in OfCustomer(p) : orders[o].status = "OPEN"}

\* The lines joined with the headers S, by SKU: a line's total has no part in
\* the discount of its header, and an order counts once however many lines
\* have the SKU.
DetailsOf(S) == {d \in DetailNos : details[d].order \in S}
LineRevenue(D) == SumFunction([d \in D |-> details[d].amount])
GroupedBySku(S) ==
  [x \in {details[d].sku : d \in DetailsOf(S)} |->
     LET D == {d \in DetailsOf(S) : details[d].sku = x}
     IN  [count |-> Cardinality({details[d].order : d \in D}),
          revenue |-> LineRevenue(D)]]

\* ORDER BY the revenue, descending, LIMIT n: where revenues tie, any of them.
Top(groups, n) ==
  {chosen \in SUBSET DOMAIN groups :
     /\ Cardinality(chosen) = Min({n, Cardinality(DOMAIN groups)})
     /\ \A v \in chosen, w \in DOMAIN groups \ chosen :
          groups[v].revenue >= groups[w].revenue}
TopOf(groups, n) ==
  {[v \in chosen |-> groups[v]] : chosen \in Top(groups, n)}

-----------------------------------------------------------------------------
(* Suppliers.                                                              *)

\* The filters, of which one on isActive is shown.
Asked(p) == {s \in SupplierNos :
  p.isActive = Nothing \/ partners[s].active = p.isActive}

Rated(S) == {s \in S : partners[s].rating # Nothing}
RangesOfRating == 0..4

\* A slip: five points are in no range.
InOpenRange(s, min) ==
  /\ partners[s].rating # Nothing
  /\ partners[s].rating >= 10 * min
  /\ partners[s].rating < 10 * (min + 1)

\* "4-5" ends past 5, the others before the next.
InRange(s, min) ==
  /\ partners[s].rating # Nothing
  /\ partners[s].rating >= 10 * min
  /\ partners[s].rating < IF min = 4 THEN 51 ELSE 10 * (min + 1)
RatingDistribution(S) ==
  [min \in RangesOfRating |-> Cardinality({s \in S : InRange(s, min)})]

\* COUNT(category) of a group: of the group without a category it is 0.
ByCategory(S) ==
  [v \in {partners[s].category : s \in S} |->
     IF v = Nothing THEN 0
     ELSE Cardinality({s \in S : partners[s].category = v})]

\* Months are numbered through, and this year starts with month 13.
CreatedIn(S, from, to) ==
  Cardinality({s \in S : /\ partners[s].month >= from
                         /\ to = Nothing \/ partners[s].month < to})
Created(S, now) ==
  [thisMonth |-> CreatedIn(S, now, Nothing),
   thisYear  |-> CreatedIn(S, 13, Nothing),
   lastMonth |-> CreatedIn(S, now - 1, now),
   lastYear  |-> CreatedIn(S, 1, 13)]

RatingStats(S) ==
  LET values == {partners[s].rating : s \in Rated(S)}
  IN  [count |-> Cardinality(Rated(S)),
       sum |-> SumFunction([s \in Rated(S) |-> partners[s].rating]),
       min |-> IF values = {} THEN 0 ELSE Min(values),
       max |-> IF values = {} THEN 0 ELSE Max(values)]

\* Groups by one column; without the count metric a group says 0.
CustomGroups(S, metrics) ==
  [v \in {partners[s].category : s \in S} |->
     LET group == {s \in S : partners[s].category = v}
     IN  [count |-> IF "count" \in metrics THEN Cardinality(group) ELSE 0,
          stats |-> RatingStats(group)]]

-----------------------------------------------------------------------------
(* Stock.                                                                  *)

RowsOf(sku) == {k \in DOMAIN held : k[2] = sku /\ held[k] # Nothing}
SumOfRows(rows) ==
  LET quantity == SumFunction([k \in rows |-> held[k].quantity])
      reserved == SumFunction([k \in rows |-> held[k].reservedQty])
  IN  [rows |-> Cardinality(rows), quantity |-> quantity,
       reserved |-> reserved, available |-> quantity - reserved]
StockByWarehouse(sku) ==
  [k \in RowsOf(sku) |-> held[k].quantity - held[k].reservedQty]

-----------------------------------------------------------------------------
(* A report: what was asked, and what its statements answered so far.      *)

Statements(kind) ==
  CASE kind = "summary" -> {"totalOrders", "openOrders", "totalValue",
                               "openValue"}
    [] kind = "overview" -> {"totals", "byStatus"}
    [] kind = "series" -> {"series"}
    [] kind \in {"customers", "skus"} -> {"top"}
    [] kind = "statistics" -> {"total", "active", "inactive", "ratings",
         "byCategory", "ratingDistribution", "created", "unrated"}
    [] kind = "active status" -> {"active", "inactive"}
    [] kind = "custom" -> {"groups", "total"}
    [] kind = "overall" -> {"count", "stats"}
    [] OTHER -> {"rows", "sum"}

\* Statements that are sent when others have been answered.
Before(part) ==
  CASE part = "unrated" -> Statements("statistics") \ {"unrated"}
    [] part = "total" /\ report.kind = "custom" -> {"groups"}
    [] part = "stats" -> {"count"}
    [] OTHER -> {}

\* Active suppliers: the filter on isActive is put aside by one report and
\* met together with the count's own condition by the other.
OfActivity(kind, p, active) ==
  LET asked == IF kind = "active status" THEN SupplierNos ELSE Asked(p)
  IN  Cardinality({s \in asked : partners[s].active = active})

\* What a statement may answer.
Answers(kind, part, p) ==
  CASE part = "totalOrders" -> {Cardinality(OfCustomer(p))}
    [] part = "openOrders" -> {Cardinality(OpenOrders(p))}
    [] part = "totalValue" -> {Revenue(OfCustomer(p))}
    [] part = "openValue" -> {Revenue(OpenOrders(p))}
    [] part = "totals" -> {CountAndSum(Counted(p))}
    [] part = "byStatus" -> {GroupedBy(Status, Counted(p))}
    [] part = "series" -> {GroupedBy(Day, Counted(p))}
    [] part = "top" /\ kind = "customers" ->
         TopOf(GroupedBy(Customer, Counted([p EXCEPT !.customer = Nothing])),
               p.limit)
    [] part = "top" /\ kind = "skus" -> TopOf(GroupedBySku(Counted(p)), p.limit)
    [] part \in {"total", "count"} -> {Cardinality(Asked(p))}
    [] part = "active" -> {OfActivity(kind, p, TRUE)}
    [] part = "inactive" -> {OfActivity(kind, p, FALSE)}
    [] part \in {"ratings", "stats"} -> {RatingStats(Asked(p))}
    [] part = "byCategory" -> {ByCategory(Asked(p))}
    [] part = "ratingDistribution" -> {RatingDistribution(Asked(p))}
    [] part = "created" -> {Created(Asked(p), p.now)}
    [] part = "unrated" -> {Cardinality(Asked(p) \ Rated(Asked(p)))}
    [] part = "groups" -> {CustomGroups(Asked(p), p.metrics)}
    [] part = "rows" -> {StockByWarehouse(p.sku)}
    [] OTHER -> {SumOfRows(RowsOf(p.sku))}

NoReport == [kind |-> Nothing, asked |-> Nothing, read |-> <<>>]

\* What the query string may ask for.
OrderReports == {"summary", "overview", "series", "customers", "skus"}
SupplierReports == {"statistics", "active status", "custom", "overall"}
Query == [from |-> Nothing, to |-> Nothing, customer |-> Nothing, limit |-> 1,
          isActive |-> Nothing, metrics |-> {"count"}, now |-> 14, sku |-> Nothing]
OrderQueries ==
  {[Query EXCEPT !.from = f, !.to = t, !.customer = c] :
     f, t \in {Nothing, 2}, c \in {Nothing, "c"}}
ActivitiesAsked == {Nothing, TRUE}
MetricsOf(kind) ==
  IF kind = "custom" THEN {{"count"}, {"min", "max"}} ELSE {{"count"}}
MonthsOf(kind) == IF kind = "statistics" THEN {13, 14} ELSE {14}
SupplierQuery(active, metrics, now) ==
  [Query EXCEPT !.isActive = active, !.metrics = metrics, !.now = now]
SupplierQueries(kind) ==
  {SupplierQuery(a, m, now) :
     a \in ActivitiesAsked, m \in MetricsOf(kind), now \in MonthsOf(kind)}
StockQueries == {[Query EXCEPT !.sku = x] : x \in Goods}

AskReport(kind, p) ==
  /\ report = NoReport
  /\ report' = [kind |-> kind, asked |-> p,
                read |-> [part \in Statements(kind) |-> Nothing]]
  /\ UNCHANGED <<orders, details, partners, held, disturbed>>

InProgress == report.kind # Nothing
Unread == {part \in DOMAIN report.read : report.read[part] = Nothing}

ReadPart ==
  /\ InProgress
  /\ \E part \in Unread :
       /\ Before(part) \cap Unread = {}
       /\ \E v \in Answers(report.kind, part, report.asked) :
            report' = [report EXCEPT !.read[part] = v]
  /\ UNCHANGED <<orders, details, partners, held, disturbed>>

\* Another request writes a row between two statements (bound: one does).
Disturb ==
  /\ InProgress /\ ~disturbed
  /\ Unread # {} /\ Unread # DOMAIN report.read
  /\ disturbed' = TRUE
  /\ UNCHANGED <<details, report>>
WriteOrder(o, r) ==
  Disturb /\ orders' = [orders EXCEPT ![o] = r] /\ UNCHANGED <<partners, held>>
WritePartner(s, r) ==
  Disturb /\ partners' = [partners EXCEPT ![s] = r] /\ UNCHANGED <<orders, held>>
WriteStock(k, r) ==
  Disturb /\ held' = [held EXCEPT ![k] = r] /\ UNCHANGED <<orders, partners>>

OrderReportsNext ==
  \/ \E kind \in OrderReports, p \in OrderQueries : AskReport(kind, p)
  \/ ReadPart
  \/ \E o \in OrderNos, st \in {"OPEN", "CANCELLED"}, a \in Amounts :
       WriteOrder(o, [orders[o] EXCEPT !.status = st, !.amount = a])

SupplierReportsNext ==
  \/ \E kind \in SupplierReports : \E p \in SupplierQueries(kind) : AskReport(kind, p)
  \/ ReadPart
  \/ \E s \in SupplierNos, a \in BOOLEAN :
       WritePartner(s, [partners[s] EXCEPT !.active = a, !.rating = 0])

StockReportsNext ==
  \/ \E p \in StockQueries : AskReport("stock", p)
  \/ ReadPart
  \/ \E k \in DOMAIN held, a \in Amounts :
       WriteStock(k, [quantity |-> a, reservedQty |-> 0])

ReportsTyped ==
  /\ \A o \in OrderNos : orders[o].amount \in Amounts
  /\ \A d \in DetailNos : details[d].order \in OrderNos
  /\ \A s \in SupplierNos : partners[s].rating \in Ratings \cup {Nothing}
  /\ \A k \in DOMAIN held : k \in Places \X Goods
  /\ DOMAIN report = DOMAIN NoReport
  /\ disturbed \in BOOLEAN

-----------------------------------------------------------------------------
Count(groups) == SumFunction([v \in DOMAIN groups |-> groups[v].count])
Total(groups) == SumFunction([v \in DOMAIN groups |-> groups[v].revenue])

\* A ranking shows a part of the revenue, and all when it shows fewer groups
\* than it may.
PartOf(top, p, revenue) ==
  /\ Total(top) <= revenue
  /\ Cardinality(DOMAIN top) < p.limit => Total(top) = revenue

OrdersAddUp(kind, p, read) ==
  /\ kind = "overview" =>
       /\ read.totals = [count |-> Count(read.byStatus),
                         revenue |-> Total(read.byStatus)]
       /\ DOMAIN read.byStatus \cap {"DRAFT", "CANCELLED"} = {}
  /\ kind = "summary" =>
       /\ read.openOrders <= read.totalOrders
       /\ read.openValue <= read.totalValue
  /\ kind = "series" =>
       CountAndSum(Counted(p)) = [count |-> Count(read.series),
                                  revenue |-> Total(read.series)]
  /\ kind = "customers" =>
       PartOf(read.top, p, Revenue(Counted([p EXCEPT !.customer = Nothing])))
  /\ kind = "skus" =>
       /\ PartOf(read.top, p, LineRevenue(DetailsOf(Counted(p))))
       /\ \A x \in DOMAIN read.top : read.top[x].count <= Cardinality(Counted(p))

SuppliersAddUp(kind, p, read) ==
  /\ kind = "statistics" =>
       /\ read.active + read.inactive = read.total
       /\ read.ratings.count + read.unrated = read.total
       /\ SumFunction(read.ratingDistribution) = read.ratings.count
       /\ read.ratings.min <= read.ratings.max
       /\ SumFunction(read.byCategory)
            = read.total - Cardinality({s \in Asked(p) : partners[s].category = Nothing})
       /\ read.created.thisMonth <= read.created.thisYear
       /\ read.created.thisYear + read.created.lastYear <= read.total
       /\ read.created.lastMonth <=
            IF p.now = 13 THEN read.created.lastYear
            ELSE read.created.thisYear - read.created.thisMonth
  /\ kind = "active status" =>
       read.active + read.inactive = Cardinality(SupplierNos)
  /\ kind = "custom" /\ "count" \in p.metrics => Count(read.groups) = read.total
  /\ kind = "overall" => read.stats.sum <= 50 * read.count

StockAddsUp(kind, read) ==
  kind = "stock" =>
    /\ read.sum.available = SumFunction(read.rows)
    /\ read.sum.rows = Cardinality(DOMAIN read.rows)

\* A report that nothing was written during adds up: its groups to its totals
\* and its kinds to the whole, with the orders that are no revenue left out of
\* every part of it, SKUs by the totals of their lines, and suppliers without a
\* rating or a category accounted for (so-analytics.service.ts,
\* supplier-aggregation.service.ts, so-query.service.ts getSummary,
\* warehouse-query.service.ts).
ReportsAddUp ==
  [][InProgress' /\ Unread' = {} /\ ~disturbed =>
       /\ OrdersAddUp(report.kind, report.asked, report'.read)
       /\ SuppliersAddUp(report.kind, report.asked, report'.read)
       /\ StockAddsUp(report.kind, report'.read)]_report
=============================================================================
