------------------------------ MODULE MCQueries ------------------------------
(***************************************************************************)
(* The lists, the reports, the prices and the units for TLC.  As in         *)
(* MCRecords, a behaviour is about one of them.                             *)
(***************************************************************************)
EXTENDS Listing, Reports, OrderPricing, UnitConversion

VARIABLE part

vars == <<part, listVars, reportVars, pricingVars, unitVars>>

Parts == {"lists", "order reports", "supplier reports", "stock reports",
          "prices", "units"}

\* Three rows, two of which the filters ask for, and room for one more.
ListsFirst(first) ==
  /\ NoWalkYet
  /\ \E keys \in [RowIds -> Keys], match \in BOOLEAN :
       row = [x \in RowIds |->
         CASE x > first -> [st |-> "free", key |-> 1, match |-> FALSE]
           [] OTHER -> [st |-> "live", key |-> keys[x],
                        match |-> x # 2 \/ match]]

\* Rows that differ in what the reports tell apart.
Order(status, day, who, amount) ==
  [status |-> status, day |-> day, customer |-> who, amount |-> amount]
OrdersFirst ==
  \E st1, st2 \in {"DRAFT", "OPEN", "CLOSED", "CANCELLED"}, a \in Amounts :
    orders = [o \in OrderNos |->
      CASE o = 1 -> Order(st1, 1, "c", 1)
        [] o = 2 -> Order(st2, 2, "c", a)
        [] OTHER -> Order("OPEN", 2, "d", 2)]

\* Two lines of a SKU in one order, and totals above that of their header.
Lines == [d \in DetailNos |->
  CASE d <= 2 -> [order |-> 1, sku |-> "x", amount |-> 1]
    [] d = 3 -> [order |-> 2, sku |-> "x", amount |-> 1]
    [] OTHER -> [order |-> d - 2, sku |-> "y", amount |-> 2]]

Partner(active, category, rating, month) ==
  [active |-> active, category |-> category, rating |-> rating, month |-> month]
PartnersOfReports ==
  \E a \in BOOLEAN, c \in {"a", Nothing}, r \in {50, Nothing}, m \in {12, 13} :
    partners = [s \in SupplierNos |->
      IF s = 1 THEN Partner(a, c, r, m) ELSE Partner(TRUE, "a", 45, 14)]

StockRows == {Nothing} \cup [quantity: Amounts, reservedQty: {0, 1}]

ReportsFirst ==
  /\ report = NoReport /\ disturbed = FALSE /\ details = Lines
  /\ IF part = "order reports" THEN OrdersFirst
     ELSE orders = [o \in OrderNos |-> Order("DRAFT", 1, "c", 1)]
  /\ IF part = "supplier reports" THEN PartnersOfReports
     ELSE partners = [s \in SupplierNos |-> Partner(TRUE, "a", 45, 14)]
  /\ IF part = "stock reports" THEN held \in [Places \X Goods -> StockRows]
     ELSE held = [k \in Places \X Goods |-> Nothing]

MCInit ==
  /\ part \in Parts
  /\ ListsFirst(IF part = "lists" THEN 3 ELSE 0)
  /\ ReportsFirst
  /\ PricingInit
  /\ UnitsInit /\ (part # "units" => bases = [item |-> NoUnit, sku |-> NoUnit])

MCNext ==
  \/ /\ part = "lists" /\ ListingNext
     /\ UNCHANGED <<part, reportVars, pricingVars, unitVars>>
  \/ /\ part = "order reports" /\ OrderReportsNext
     /\ UNCHANGED <<part, listVars, pricingVars, unitVars>>
  \/ /\ part = "supplier reports" /\ SupplierReportsNext
     /\ UNCHANGED <<part, listVars, pricingVars, unitVars>>
  \/ /\ part = "stock reports" /\ StockReportsNext
     /\ UNCHANGED <<part, listVars, pricingVars, unitVars>>
  \/ /\ part = "prices" /\ PricingNext
     /\ UNCHANGED <<part, listVars, reportVars, unitVars>>
  \/ /\ part = "units" /\ UnitsNext
     /\ UNCHANGED <<part, listVars, reportVars, pricingVars>>

MCSpec == MCInit /\ [][MCNext]_vars
=============================================================================
