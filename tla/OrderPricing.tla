----------------------------- MODULE OrderPricing -----------------------------
(***************************************************************************)
(* The amounts of one sales order.  A handler loads the order, computes in  *)
(* floating point, and saves columns that keep two decimals; the update     *)
(* reads the saved rows back before it commits, and constructing a line     *)
(* checks that its percentage and its amount agree.  Requests about the     *)
(* amounts come one at a time here (SalesOrderShipping interleaves them).   *)
(*                                                                         *)
(* Columns count cents, and percentages, quantities and prices in steps of  *)
(* their own (10,000 to the whole, 10,000 to the piece, 100 to the cent in  *)
(* the database).  A request may give more decimals: Fine of its steps make *)
(* one of the column.  In memory an amount has Unit units to the cent and a *)
(* percentage is a fraction, which stands for the precision of a double.    *)
(***************************************************************************)
EXTENDS Integers, FiniteSetsExt

CONSTANTS
  Grain, QtyGrain, PriceGrain,  \* steps of a column: of the whole, a piece, a cent
  Fine,                  \* steps of a request to one of a column
  LineNums,              \* rows of SODetail, 1..n
  Quantities, UnitPrices,
  Percents, DiscountAmounts,  \* what a request may give, in its own steps
  MaxChanges,            \* bound: requests
  NotGiven

ASSUME PricingAssumption ==
  /\ {Grain, QtyGrain, PriceGrain, Fine} \subseteq Nat \ {0} /\ MaxChanges \in Nat
  /\ IsFiniteSet(LineNums) /\ 1 \in LineNums
  /\ NotGiven \notin Int /\ NotGiven \notin [n: Int, d: Nat]
  /\ Quantities \subseteq Nat \ {0}
  /\ UnitPrices \subseteq Nat
  /\ DiscountAmounts \subseteq Nat /\ Percents \subseteq Nat

VARIABLES
  header,    \* the stored row of SOHeader
  lines,     \* number -> the stored row of SODetail
  stale,     \* history: a stored line is not the one the totals were computed from
  lossy,     \* history: the order was created with more decimals than columns keep
  patches,   \* history: discounts set on the header since then
  changes    \* requests so far (bound)

pricingVars == <<header, lines, stale, lossy, patches, changes>>

\* Of an amount, a request's step of it, and of a quantity times a price.
FineCent == QtyGrain * PriceGrain * Fine * Grain * Grain
Unit == Fine * FineCent
Cents(n) == n * Unit
Base(qty, price) == qty * price * (Grain * Grain)

\* Rounding half up to a column, and reading it back.
Stored(x) == (x + Unit \div 2) \div Unit
ToColumn(n) == (2 * n + Fine) \div (2 * Fine)
FromColumn(n) == n * Fine
Fits(n) == FromColumn(ToColumn(n)) = n

Fraction(n) == [n |-> n, d |-> Grain]
Given(n) == [n |-> n, d |-> Grain * Fine]
StoredPercent(p) == (2 * p.n * Grain + p.d) \div (2 * p.d)
Part(base, p) == (base * p.n) \div p.d
Distance(x, y) == IF x < y THEN y - x ELSE x - y

-----------------------------------------------------------------------------
(* A line.                                                                 *)

\* resolvePricingComponent: a percentage, an amount, or both, which must
\* agree to two cents.
Resolve(base, percent, amount) ==
  LET p == IF percent # NotGiven THEN percent
           ELSE IF amount # NotGiven /\ base > 0 THEN [n |-> amount, d |-> base]
           ELSE Fraction(0)
      a == IF amount # NotGiven THEN amount
           ELSE IF percent # NotGiven THEN Part(base, percent) ELSE 0
  IN  [ok |-> /\ NotGiven \notin {percent, amount} =>
                   Distance(Part(base, percent), amount) <= Cents(2)
              /\ p.n <= p.d /\ p.n >= 0 /\ a >= 0,
       percent |-> p, amount |-> a]

\* The constructor of a line, in memory; tax is an amount only when loaded.
SOLine(qty, price, dPercent, dAmount, tPercent, tAmount) ==
  LET d == Resolve(Base(qty, price), dPercent, dAmount)
      t == Resolve(Base(qty, price) - d.amount, tPercent, tAmount)
  IN  [ok |-> qty > 0 /\ d.ok /\ t.ok, qty |-> qty, price |-> price, d |-> d, t |-> t]

Loaded(r) ==
  SOLine(FromColumn(r.qty), FromColumn(r.price), Fraction(r.dPercent),
         Cents(r.dAmount), Fraction(r.tPercent), Cents(r.tAmount))

RowOf(l) ==
  [st |-> "live", qty |-> ToColumn(l.qty), price |-> ToColumn(l.price),
   dPercent |-> StoredPercent(l.d.percent), dAmount |-> Stored(l.d.amount),
   tPercent |-> StoredPercent(l.t.percent), tAmount |-> Stored(l.t.amount)]

Subtotal(l) == Base(l.qty, l.price)
LineTotal(l) == Subtotal(l) - l.d.amount + l.t.amount

NoLine == [st |-> "free", qty |-> 1, price |-> 0, dPercent |-> 0,
           dAmount |-> 0, tPercent |-> 0, tAmount |-> 0]
LiveLines == {n \in LineNums : lines[n].st = "live"}

\* recalculateAll, after the quantity or the price changed: the discount and
\* the tax follow their percentages.
Repriced(l, qty, price) ==
  LET base == Base(qty, price)
      discount == Part(base, l.d.percent)
  IN  [l EXCEPT !.qty = qty, !.price = price, !.d.amount = discount,
                !.t.amount = Part(base - discount, l.t.percent)]

\* updateDiscount, with one of the two, and the tax after it.
Discounted(l, percent, amount) ==
  LET d == Resolve(Subtotal(l), percent, amount)
  IN  [l EXCEPT !.ok = @ /\ d.ok, !.d = d,
                !.t.amount = Part(Subtotal(l) - d.amount, l.t.percent)]

\* updateTax.
Taxed(l, percent) ==
  LET t == Resolve(Subtotal(l) - l.d.amount, percent, NotGiven)
  IN  [l EXCEPT !.ok = @ /\ t.ok, !.t = t]

-----------------------------------------------------------------------------
(* The header.                                                             *)

\* In memory: the base amount is the lines' totals, their tax included.
LoadedHeader ==
  [ok |-> TRUE, percent |-> Fraction(header.dPercent),
   discount |-> Cents(header.dAmount), tax |-> Cents(header.tax),
   base |-> Cents(header.total + header.dAmount - header.tax),
   subtotal |-> Cents(header.subtotal), linesDiscount |-> Cents(header.linesDiscount)]

\* recalculate, from the lines held in memory.
Recalculated(h, held) ==
  LET base == SumFunction([n \in DOMAIN held |-> LineTotal(held[n])])
  IN  [h EXCEPT !.ok = @ /\ base >= 0, !.base = base,
                !.discount = IF h.percent.n > 0 THEN Part(base, h.percent)
                             ELSE IF h.discount > base THEN base ELSE h.discount,
                !.tax = SumFunction([n \in DOMAIN held |-> held[n].t.amount]),
                !.subtotal = SumFunction([n \in DOMAIN held |-> Subtotal(held[n])]),
                !.linesDiscount = SumFunction([n \in DOMAIN held |-> held[n].d.amount])]

\* setDiscountPercent and setDiscountAmount.
SetDiscount(h, type, value) ==
  CASE type = "PERCENT" ->
         [h EXCEPT !.ok = @ /\ value <= Grain * Fine, !.percent = Given(value),
                   !.discount = Part(h.base, Given(value))]
    [] type = "AMOUNT" ->
         [h EXCEPT !.ok = @ /\ value * FineCent <= h.base,
                   !.percent = IF h.base > 0 THEN [n |-> value * FineCent, d |-> h.base]
                               ELSE Fraction(0),
                   !.discount = value * FineCent]
    [] OTHER -> h

HeaderRow(h) ==
  [st |-> "live", dPercent |-> StoredPercent(h.percent), dAmount |-> Stored(h.discount),
   tax |-> Stored(h.tax), total |-> Stored(h.base - h.discount + h.tax),
   subtotal |-> Stored(h.subtotal), linesDiscount |-> Stored(h.linesDiscount)]
NoHeader == [st |-> "free", dPercent |-> 0, dAmount |-> 0, tax |-> 0, total |-> 0,
             subtotal |-> 0, linesDiscount |-> 0]

Loads(rows) == \A n \in DOMAIN rows : rows[n].st = "live" => Loaded(rows[n]).ok

\* The lines of the order, in memory.
Held == [n \in LiveLines |-> Loaded(lines[n])]
Without(held, gone) == [n \in DOMAIN held \ gone |-> held[n]]
With(held, n, line) == [m \in DOMAIN held \cup {n} |-> IF m = n THEN line ELSE held[m]]
RowsWith(ns, line) ==
  [n \in LineNums |-> IF n \in ns THEN RowOf(line) ELSE lines[n]]
Erased(gone) == [n \in LineNums |-> IF n \in gone THEN NoLine ELSE lines[n]]

-----------------------------------------------------------------------------
(* Requests.                                                               *)

\* repository.update: the rows are written and read back in one transaction,
\* which is rolled back when a constructor refuses them.
NoReadBack(rows) == DOMAIN rows # {}  \* a slip: returns what it sent
ReadBack(rows) == Loads(rows)

Update(h, rows) ==
  /\ h.ok /\ ReadBack(rows)
  /\ header' = HeaderRow(h) /\ lines' = rows

Requested == changes < MaxChanges /\ changes' = changes + 1
Placed == Requested /\ header.st = "live" /\ Loads(lines) /\ UNCHANGED lossy
Followed(exact) == stale' = ~exact /\ patches' = 0

\* What a request gives as a discount.
Discounts ==
  {[type |-> "NONE", value |-> 0]}
    \cup [type: {"PERCENT"}, value: Percents \ {0}]
    \cup [type: {"AMOUNT"}, value: DiscountAmounts]
PercentOf(d, otherwise) == IF d.type = "PERCENT" THEN Given(d.value) ELSE otherwise
AmountOf(d, otherwise) == IF d.type = "AMOUNT" THEN d.value * FineCent ELSE otherwise

\* Only the PUT of an order lets a price be nothing.
LineRequests == [qty: Quantities, price: UnitPrices, discount: Discounts, tax: Percents]
NewLineRequests == {r \in LineRequests : r.price > 0}

\* The columns keep what the base is made of, or all of the line.
Exact(r) == Fits(r.qty) /\ Fits(r.price)
Kept(r) == /\ Exact(r) /\ Fits(r.tax)
           /\ r.discount.type = "PERCENT" => Fits(r.discount.value)

\* The line of a new or a whole order gives the discount twice: what was not
\* asked for is zero.  One added on its own leaves it out.
NewLine(r) ==
  SOLine(r.qty, r.price, PercentOf(r.discount, Fraction(0)),
         AmountOf(r.discount, Cents(0)), Given(r.tax), NotGiven)
AddedLine(r) ==
  SOLine(r.qty, r.price, PercentOf(r.discount, NotGiven),
         AmountOf(r.discount, NotGiven), Given(r.tax), NotGiven)

\* POST /sales-orders.  What was inserted is read after it is committed, and
\* stays when it cannot be read.
Create ==
  /\ header.st = "free"
  /\ \E r \in NewLineRequests, d \in Discounts :
    LET line == NewLine(r)
        asked == [ok |-> d.type = "PERCENT" => d.value <= Grain * Fine,
                  percent |-> PercentOf(d, Fraction(0)),
                  discount |-> AmountOf(d, Cents(0)), tax |-> 0, base |-> 0,
                  subtotal |-> 0, linesDiscount |-> 0]
        h == Recalculated(asked, [n \in {1} |-> line])
    IN  /\ Requested /\ line.ok /\ h.ok
        /\ header' = HeaderRow(h) /\ lines' = RowsWith({1}, line)
        /\ lossy' = ~Kept(r) /\ Followed(Exact(r))

\* POST /sales-orders/:id/lines.
AddLine ==
  \E n \in LineNums \ LiveLines, r \in NewLineRequests :
    LET line == AddedLine(r)
    IN  /\ Placed /\ line.ok
        /\ Update(Recalculated(LoadedHeader, With(Held, n, line)), RowsWith({n}, line))
        /\ Followed(Exact(r))

\* PATCH of a line: each part given is applied in turn; the header is saved
\* as it was loaded.
UpdateLine ==
  \E n \in LiveLines, price \in UnitPrices \cup {NotGiven},
     qty \in Quantities \cup {NotGiven}, d \in Discounts, tax \in Percents \cup {NotGiven} :
    LET l0 == Loaded(lines[n])
        l1 == IF price = NotGiven THEN l0 ELSE Repriced(l0, l0.qty, price)
        l2 == IF qty = NotGiven THEN l1 ELSE Repriced(l1, qty, l1.price)
        l3 == IF d.type = "NONE" THEN l2
              ELSE Discounted(l2, PercentOf(d, NotGiven), AmountOf(d, NotGiven))
        l4 == IF tax = NotGiven THEN l3 ELSE Taxed(l3, Given(tax))
    IN  /\ Placed /\ l4.ok
        /\ Update(LoadedHeader, RowsWith({n}, l4))
        /\ stale' = TRUE /\ UNCHANGED patches

\* PATCH of the header.
UpdateHeader ==
  \E d \in Discounts :
    /\ Placed /\ Update(SetDiscount(LoadedHeader, d.type, d.value), lines)
    /\ patches' = patches + 1 /\ UNCHANGED stale

\* DELETE of a line.
DeleteLine ==
  \E n \in LiveLines :
    /\ Placed
    /\ Update(Recalculated(LoadedHeader, Without(Held, {n})), Erased({n}))
    /\ Followed(TRUE)

\* PUT of the order with its lines: the discount, the lines to delete, then
\* the line sent.  One sent with its id is taken out and put back in memory;
\* the database only loses it.
UpdateWithLines ==
  /\ Placed
  /\ LET held == Held
         loaded == LoadedHeader
     IN  \E n \in LineNums, r \in LineRequests :
           LET line == NewLine(r)
               sent == n \in LiveLines
               Stay(gone) == Without(held, IF sent THEN gone \cup {n} ELSE gone)
           IN  /\ line.ok
               /\ \E d \in Discounts, gone \in SUBSET LiveLines :
                    LET h0 == SetDiscount(loaded, d.type, d.value)
                        h1 == IF gone = {} THEN h0 ELSE Recalculated(h0, Without(held, gone))
                        h2 == IF sent THEN Recalculated(h1, Stay(gone)) ELSE h1
                        h3 == Recalculated(h2, With(Stay(gone), n, line))
                    IN  Update(h3, IF sent THEN Erased(gone \cup {n})
                                   ELSE [Erased(gone) EXCEPT ![n] = RowOf(line)])
               /\ IF sent THEN stale' = TRUE /\ UNCHANGED patches ELSE Followed(Exact(r))

PricingNext ==
  Create \/ AddLine \/ UpdateLine \/ UpdateHeader \/ DeleteLine \/ UpdateWithLines

PricingInit ==
  /\ header = NoHeader /\ lines = [n \in LineNums |-> NoLine]
  /\ stale = FALSE /\ lossy = FALSE /\ patches = 0 /\ changes = 0

-----------------------------------------------------------------------------
StoredOrdersLoad == header.st = "live" /\ ~lossy => Loads(lines)

\* Each stored amount is within half a cent of what was computed, and so is
\* each amount a discount on the header wrote again.
TotalsFollowLines ==
  LET gross == [n \in LiveLines |-> Subtotal(Loaded(lines[n]))]
      net == [n \in LiveLines |-> LineTotal(Loaded(lines[n]))]
      discount == [n \in LiveLines |-> lines[n].dAmount]
      tax == [n \in LiveLines |-> lines[n].tAmount]
      count == Cardinality(LiveLines)
  IN  header.st = "live" /\ ~stale =>
        /\ 2 * Distance(Cents(header.subtotal), SumFunction(gross)) <= Unit
        /\ 2 * Distance(header.linesDiscount, SumFunction(discount)) <= count + 1
        /\ 2 * Distance(header.tax, SumFunction(tax)) <= count + 1
        /\ 2 * Distance(Cents(header.total + header.dAmount - header.tax), SumFunction(net))
             <= Cents(2 * count + 3 + 2 * patches)

(* A stored order can be loaded again unless it was created with more         *)
(* decimals than its columns keep: what is rounded to cents passes the        *)
(* agreement check of its lines (so-line.entity.ts:137), and an update that   *)
(* does not is rolled back (so.repository.ts:240).  And the totals of the     *)
(* header are those of the lines stored beside it, up to the rounding, from   *)
(* any request that recalculates until a line is changed on its own.          *)
PricesHold == StoredOrdersLoad /\ TotalsFollowLines
=============================================================================
