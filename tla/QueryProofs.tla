---- MODULE QueryProofs ----
(***************************************************************************)
(* What TLAPS proves of the parts the services answer with: the factors    *)
(* between units of measure, the totals of a sales order, the pages of a   *)
(* list and the numbers of a report.  Each section has the specification   *)
(* of one part alone, its inductive invariant, one lemma per action and    *)
(* the theorem at its end.                                                 *)
(***************************************************************************)
EXTENDS MCQueries, FiniteSums, SequenceTheorems

(***************************************************************************)
(* Units.  A row is what its table can hold; the base unit has no row,     *)
(* unless it had one when it was made the base.                            *)
(***************************************************************************)
UnitsSpec == UnitsInit /\ [][UnitsNext]_unitVars

Rows(rows, base) ==
  /\ DOMAIN rows = Units
  /\ \A u \in Units : rows[u] # NoUnit => rows[u] \in UnitRow /\ (u = base => u \in rebased)

UnitsTyped ==
  /\ Rows(itemUnits, bases.item) /\ Rows(skuUnits, bases.sku)
  /\ bases = [item |-> bases.item, sku |-> bases.sku]
  /\ ask = [op |-> ask.op, from |-> ask.from, to |-> ask.to, count |-> ask.count,
            row |-> ask.row, base |-> ask.base, own |-> ask.own, answer |-> ask.answer]

TheList == AvailableUoms(bases.sku, skuUnits, itemUnits)

(* What a request that no write disturbed has read and answered.           *)
AskKnows ==
  /\ ask.op \in {"from", "to", "converted"} =>
       /\ ask.from \in Units /\ ask.to \in Units /\ ask.count \in Nat
       /\ ask.op # "converted" => ask.from # ask.to
  /\ ask.op = "to" => ask.row = skuUnits[ask.from] /\ ask.row # NoUnit
  /\ ask.op = "item" => ask.base = bases.sku /\ ask.own = skuUnits
  /\ ask.op = "listed" => ask.answer = TheList
  /\ ask.op = "converted" =>
       \/ /\ ask.from = ask.to
          /\ ask.answer = [finite |-> TRUE, precision |-> 0, value |-> ask.count]
       \/ /\ skuUnits[ask.from] # NoUnit /\ skuUnits[ask.to] # NoUnit
          /\ ask.answer = Convert(ask.count, skuUnits[ask.from], skuUnits[ask.to])

UnitsInv == UnitsTyped /\ (~moved => AskKnows)

LEMMA UnitsStart == UnitsInit => UnitsInv
  BY UnitsAssumption DEF UnitsInit, UnitsInv, UnitsTyped, Rows, AskKnows, Idle

LEMMA UnitsStep == UnitsInv /\ [UnitsNext]_unitVars => UnitsInv'
<1> SUFFICES ASSUME UnitsInv, [UnitsNext]_unitVars
             PROVE  UnitsInv'
  OBVIOUS
<1> USE DEF UnitsInv, UnitsTyped
<1>1. CASE AskConversion
  <2>1. UNCHANGED <<bases, itemUnits, skuUnits, rebased>>
    BY <1>1 DEF AskConversion
  <2>2. PICK from \in Units, to \in Units, count \in UnitCounts :
          IF from = to
          THEN ask' = [Idle EXCEPT !.op = "converted", !.from = from, !.to = to,
                         !.count = count,
                         !.answer = [finite |-> TRUE, precision |-> 0, value |-> count]]
          ELSE ask' = [Idle EXCEPT !.op = "from", !.from = from, !.to = to, !.count = count]
    BY <1>1 DEF AskConversion
  <2>3. count \in Nat
    BY UnitsAssumption
  <2>4. UnitsTyped'
    BY <2>1, <2>2 DEF Idle, Rows
  <2>5. AskKnows'
    <3>1. CASE from = to
      <4>1. /\ ask'.op = "converted" /\ ask'.from = from /\ ask'.to = from
            /\ ask'.count = count
            /\ ask'.answer = [finite |-> TRUE, precision |-> 0, value |-> count]
        BY <2>2, <3>1 DEF Idle
      <4> QED BY <2>3, <4>1 DEF AskKnows
    <3>2. CASE from # to
      <4>1. /\ ask'.op = "from" /\ ask'.from = from /\ ask'.to = to
            /\ ask'.count = count
        BY <2>2, <3>2 DEF Idle
      <4> QED BY <2>3, <3>2, <4>1 DEF AskKnows
    <3> QED BY <3>1, <3>2
  <2> QED BY <2>4, <2>5
<1>2. CASE FindFrom
  BY <1>2 DEF FindFrom, Idle, Rows, AskKnows
<1>3. CASE FindTo
  <2>1. UNCHANGED <<bases, itemUnits, skuUnits, rebased, moved>>
    BY <1>3 DEF FindTo
  <2>2. CASE skuUnits[ask.to] = NoUnit
    BY <1>3, <2>1, <2>2 DEF FindTo, Idle, Rows, AskKnows
  <2>3. CASE skuUnits[ask.to] # NoUnit
    <3>1. ask' = [ask EXCEPT !.op = "converted",
                    !.answer = Convert(ask.count, ask.row, skuUnits[ask.to])]
      BY <1>3, <2>3 DEF FindTo
    <3> HIDE DEF UnitsInv
    <3>2. /\ ask'.op = "converted" /\ ask'.from = ask.from /\ ask'.to = ask.to
          /\ ask'.count = ask.count
          /\ ask'.answer = Convert(ask.count, ask.row, skuUnits[ask.to])
          /\ UnitsTyped'
      BY <2>1, <3>1 DEF UnitsInv, Rows
    <3>3. ~moved => ask.op = "to" /\ AskKnows
      BY <1>3 DEF FindTo, UnitsInv
    <3>4. ~moved => AskKnows'
      <4> SUFFICES ASSUME ~moved PROVE AskKnows'
        OBVIOUS
      <4>1. /\ ask.from \in Units /\ ask.to \in Units /\ ask.count \in Nat
            /\ ask.row = skuUnits[ask.from] /\ ask.row # NoUnit
        BY <3>3 DEF AskKnows
      <4>2. skuUnits' = skuUnits
        BY <2>1
      <4> QED BY <2>3, <3>2, <4>1, <4>2 DEF AskKnows
    <3>5. UnitsTyped' /\ moved' = moved
      BY <2>1, <3>2
    <3> QED BY <3>4, <3>5 DEF UnitsInv
  <2> QED BY <2>2, <2>3
<1>4. CASE AskList
  BY <1>4 DEF AskList, Idle, Rows, AskKnows
<1>5. CASE FindItem
  <2>1. /\ UNCHANGED <<bases, itemUnits, skuUnits, rebased, moved>>
        /\ ask' = [ask EXCEPT !.op = "listed",
                     !.answer = AvailableUoms(ask.base, ask.own, itemUnits)]
        /\ ask.op = "item"
    BY <1>5 DEF FindItem
  <2>2. /\ UnitsTyped' /\ ask'.op = "listed"
        /\ ask'.answer = AvailableUoms(ask.base, ask.own, itemUnits)
    BY <2>1 DEF Rows
  <2>3. TheList' = TheList
    BY <2>1 DEF TheList, AvailableUoms, BaseEntry, Hidden, Active, Present, Entry
  <2> QED BY <2>1, <2>2, <2>3 DEF AskKnows, TheList
<1>6. CASE AddItemUnit
  BY <1>6 DEF AddItemUnit, UnitWritten, WriteCounted, Rows, Present
<1>7. CASE RemoveItemUnit
  BY <1>7 DEF RemoveItemUnit, UnitWritten, WriteCounted, Rows, Present
<1>8. CASE AddSkuUnit
  BY <1>8 DEF AddSkuUnit, UnitWritten, WriteCounted, Rows, Present
<1>9. CASE SetSkuUnit
  BY <1>9 DEF SetSkuUnit, UnitWritten, WriteCounted, Rows, Present
<1>10. CASE RemoveSkuUnit
  BY <1>10 DEF RemoveSkuUnit, UnitWritten, WriteCounted, Rows, Present
<1>11. CASE SetItemBase
  BY <1>11 DEF SetItemBase, WriteCounted, Rows, Present
<1>12. CASE SetSkuBase
  BY <1>12 DEF SetSkuBase, WriteCounted, Rows, Present
<1>13. CASE UNCHANGED unitVars
  BY <1>13 DEF unitVars, Rows, AskKnows, TheList, AvailableUoms, BaseEntry, Hidden,
               Active, Present, Entry, Convert
<1> QED
  BY <1>1, <1>2, <1>3, <1>4, <1>5, <1>6, <1>7, <1>8, <1>9, <1>10, <1>11, <1>12, <1>13
     DEF UnitsNext

(* Every entry of the list is the base unit, a row of the SKU, or a row of *)
(* the item whose unit the SKU does not have.                              *)
LEMMA EntriesOfTheList ==
  ASSUME UnitsTyped, NEW a \in TheList
  PROVE  \/ a.source = "BASE" /\ a.unit = bases.sku /\ bases.sku # NoUnit
            /\ a = Entry(a.unit, "BASE", [factor |-> 1, precision |-> 2])
         \/ /\ a.unit \in Active(skuUnits)
            /\ a = Entry(a.unit, IF bases.item = bases.sku /\ a.unit \in Hidden(skuUnits, itemUnits)
                                 THEN "SKU_OVERRIDE" ELSE "SKU", skuUnits[a.unit])
         \/ /\ bases.item = bases.sku /\ a.unit \in Active(itemUnits) \ Active(skuUnits)
            /\ a = Entry(a.unit, "ITEM", itemUnits[a.unit])
  BY DEF TheList, AvailableUoms, BaseEntry, Entry, Hidden

LEMMA ListGivesOneFactor ==
  ASSUME UnitsTyped
  PROVE  ListIsUnambiguous(TheList)
<1> DEFINE list == TheList
<1>1. ASSUME NEW a \in list, NEW b \in list, a.unit = b.unit
      PROVE  a = b \/ (a.unit \in rebased /\ "BASE" \in {a.source, b.source})
  BY <1>1, EntriesOfTheList DEF UnitsTyped, Rows, Active, Present
<1>2. ASSUME NEW u \in Active(skuUnits)
      PROVE  Entry(u, "SKU", skuUnits[u]) \in {[a EXCEPT !.source = "SKU"] : a \in list}
  <2> DEFINE a == Entry(u, IF bases.item = bases.sku /\ u \in Hidden(skuUnits, itemUnits)
                           THEN "SKU_OVERRIDE" ELSE "SKU", skuUnits[u])
  <2>1. a \in list
    BY <1>2 DEF TheList, AvailableUoms
  <2>2. [a EXCEPT !.source = "SKU"] = Entry(u, "SKU", skuUnits[u])
    BY DEF Entry
  <2> HIDE DEF a, list
  <2> QED BY <2>1, <2>2
<1> QED BY <1>1, <1>2 DEF ListIsUnambiguous

(* A quotient rounded half up is within half of its last decimal.          *)
LEMMA Rounded ==
  ASSUME NEW e \in Nat, NEW t \in Nat \ {0}
  PROVE  LET v == (2 * e + t) \div (2 * t)
         IN  v \in Int /\ 2 * e - t <= 2 * (v * t) /\ 2 * (v * t) <= 2 * e + t
<1>1. PICK v \in Int : v = (2 * e + t) \div (2 * t)
  OBVIOUS
<1>2. (2 * t) * v <= 2 * e + t /\ 2 * e + t < (2 * t) * v + 2 * t
  BY <1>1
<1>3. (2 * t) * v = 2 * (v * t) /\ v * t \in Int
  OBVIOUS
<1> QED BY <1>1, <1>2, <1>3

LEMMA ConversionIsListed ==
  ASSUME UnitsTyped, ~moved, AskKnows, ask.op = "converted",
         NEW a \in TheList, NEW b \in TheList,
         {a.source, b.source} \subseteq {"SKU", "SKU_OVERRIDE"}, a.unit = ask.from, b.unit = ask.to
  PROVE  Faithful(ask.answer, ask.count, a.factor, b.factor)
<1>1. ask.count \in Nat
  BY DEF AskKnows
<1>2. CASE ask.from = ask.to /\ ask.answer = [finite |-> TRUE, precision |-> 0, value |-> ask.count]
  <2>1. a = b
    BY <1>2, ListGivesOneFactor DEF ListIsUnambiguous
  <2>2. a.factor \in Nat
    BY EntriesOfTheList, UnitsAssumption DEF Entry, UnitsTyped, Rows, Active, Present, UnitRow
  <2>3. ask.count * a.factor * Power(ask.answer.precision) = ask.answer.value * a.factor
    BY <1>1, <1>2, <2>2 DEF Power
  <2>4. ask.count * a.factor * Power(ask.answer.precision) \in Int
    BY <1>1, <1>2, <2>2 DEF Power
  <2> QED BY <2>1, <2>2, <2>3, <2>4 DEF Faithful
<1>3. CASE /\ skuUnits[ask.from] # NoUnit /\ skuUnits[ask.to] # NoUnit
           /\ ask.answer = Convert(ask.count, skuUnits[ask.from], skuUnits[ask.to])
  <2> DEFINE from == skuUnits[ask.from]
             to   == skuUnits[ask.to]
  <2>1. from \in UnitRow /\ to \in UnitRow /\ a.factor = from.factor /\ b.factor = to.factor
    BY <1>3, EntriesOfTheList DEF Entry, UnitsTyped, Rows, Active, Present, AskKnows
  <2>2. /\ from.factor \in Nat /\ to.factor \in Nat
        /\ Power(to.precision) \in Nat
    BY <2>1, UnitsAssumption DEF UnitRow, Power
  <2>3. /\ ask.answer.finite = (to.factor # 0) /\ ask.answer.precision = to.precision
        /\ ask.answer.value = IF to.factor = 0 THEN 0
             ELSE (2 * ask.count * from.factor * Power(to.precision) + to.factor)
                    \div (2 * to.factor)
    BY <1>3 DEF Convert
  <2> HIDE DEF from, to
  <2> DEFINE e == ask.count * from.factor * Power(to.precision)
             v == ask.answer.value
             t == to.factor
  <2>4. CASE t = 0
    BY <2>3, <2>4 DEF Faithful
  <2>5. CASE t # 0
    <3>1. e \in Nat /\ t \in Nat \ {0}
      BY <1>1, <2>2, <2>5
    <3>2. 2 * ask.count * from.factor * Power(to.precision) = 2 * e
      BY <1>1, <2>2
    <3>3. v = (2 * e + t) \div (2 * t)
      BY <2>3, <2>5, <3>2
    <3> HIDE DEF e, t
    <3>4. v \in Int /\ 2 * e - t <= 2 * (v * t) /\ 2 * (v * t) <= 2 * e + t
      BY <3>1, <3>3, Rounded
    <3> HIDE DEF v
    <3>5. v * t \in Int
      BY <3>1, <3>4
    <3>6. 2 * (IF e < v * t THEN v * t - e ELSE e - v * t) <= t
      BY <3>1, <3>4, <3>5
    <3> QED BY <2>1, <2>3, <3>6 DEF Faithful, e, v, t
  <2> QED BY <2>4, <2>5
<1> QED BY <1>2, <1>3 DEF AskKnows

(* For any units, factors and writes: the list of a SKU gives each unit one  *)
(* factor, but for units made a base while they had a row, and a conversion  *)
(* between units of the SKU is by the factors of their rows, to half of its  *)
(* last decimal, unless a unit was written between the statements.           *)
THEOREM UnitsAgree == UnitsSpec => []UnitsConvertAsListed
<1>1. UnitsInv => UnitsConvertAsListed
  BY ListGivesOneFactor, ConversionIsListed DEF UnitsInv, UnitsConvertAsListed, AskKnows, TheList
<1> QED BY <1>1, UnitsStart, UnitsStep, PTL DEF UnitsSpec

(***************************************************************************)
(* Prices.                                                                 *)
(***************************************************************************)
PricingSpec == PricingInit /\ [][PricingNext]_pricingVars

Fractions == [n: Int, d: Nat \ {0}]
Component == [ok: BOOLEAN, percent: Fractions, amount: Int]
LineInMemory == [ok: BOOLEAN, qty: Int, price: Int, d: Component, t: Component]
HeaderInMemory == [ok: BOOLEAN, percent: Fractions, discount: Int, tax: Int,
                   base: Int, subtotal: Int, linesDiscount: Int]
LineRow == [st: {"free", "live"}, qty: Int, price: Int, dPercent: Int, dAmount: Int,
            tPercent: Int, tAmount: Int]
OrderRow == [st: {"free", "live"}, dPercent: Int, dAmount: Int, tax: Int, total: Int,
             subtotal: Int, linesDiscount: Int]

LEMMA Product == ASSUME NEW x \in Nat \ {0}, NEW y \in Nat \ {0} PROVE x * y \in Nat \ {0}
  OBVIOUS

LEMMA Steps ==
  /\ Grain \in Nat \ {0} /\ Fine \in Nat \ {0} /\ Grain * Fine \in Nat \ {0}
  /\ Grain * Grain \in Nat \ {0} /\ FineCent \in Nat \ {0}
<1>1. /\ Grain \in Nat \ {0} /\ Fine \in Nat \ {0}
      /\ QtyGrain \in Nat \ {0} /\ PriceGrain \in Nat \ {0}
  BY PricingAssumption
<1>2. QtyGrain * PriceGrain \in Nat \ {0}
  BY <1>1, Product
<1>3. QtyGrain * PriceGrain * Fine \in Nat \ {0}
  BY <1>1, <1>2, Product
<1>4. QtyGrain * PriceGrain * Fine * Grain \in Nat \ {0}
  BY <1>1, <1>3, Product
<1>5. QtyGrain * PriceGrain * Fine * Grain * Grain \in Nat \ {0}
  BY <1>1, <1>4, Product
<1> QED BY <1>1, <1>5, Product DEF FineCent

LEMMA UnitPositive == Unit \in Nat \ {0} /\ Unit \div 2 \in Int
<1>1. Unit \in Nat \ {0}
  BY Steps, Product DEF Unit
<1> QED BY <1>1

LEMMA Dividing ==
  ASSUME NEW x \in Int, NEW y \in Nat \ {0}
  PROVE  x \div y \in Int /\ y * (x \div y) <= x /\ x < y * (x \div y) + y
  OBVIOUS

(* What is stored is within half a cent of what was computed.              *)
LEMMA StoredNear ==
  ASSUME NEW x \in Int
  PROVE  /\ Stored(x) \in Int
         /\ -Unit <= 2 * Unit * Stored(x) - 2 * x /\ 2 * Unit * Stored(x) - 2 * x <= Unit
<1> DEFINE h == Unit \div 2
           q == (x + h) \div Unit
<1>1. h \in Int /\ 2 * h <= Unit /\ Unit < 2 * h + 2
  BY UnitPositive, Dividing
<1>2. q \in Int /\ Unit * q <= x + h /\ x + h < Unit * q + Unit
  BY <1>1, UnitPositive, Dividing
<1>3. Stored(x) = q
  BY DEF Stored
<1>4. Unit * q \in Int /\ 2 * Unit * q = 2 * (Unit * q)
  BY <1>2, UnitPositive
<1> HIDE DEF h, q
<1> QED BY <1>1, <1>2, <1>3, <1>4, UnitPositive

LEMMA CentsType == ASSUME NEW n \in Int PROVE Cents(n) \in Int
  BY UnitPositive DEF Cents

(* Whole cents are stored as they are.                                     *)
LEMMA StoredCents ==
  ASSUME NEW n \in Int
  PROVE  Stored(Cents(n)) = n
<1> DEFINE s == Stored(Cents(n))
<1>1. s \in Int /\ -Unit <= 2 * Unit * s - 2 * (n * Unit) /\ 2 * Unit * s - 2 * (n * Unit) <= Unit
  BY StoredNear, CentsType DEF Cents
<1> HIDE DEF s
<1>2. 2 * Unit * s - 2 * (n * Unit) = (2 * (s - n)) * Unit
  BY <1>1, UnitPositive
<1>3. 2 * (s - n) <= 1 /\ -1 <= 2 * (s - n)
  BY <1>1, <1>2, UnitPositive
<1> QED BY <1>1, <1>3 DEF s

LEMMA StoredPercentType ==
  ASSUME NEW p \in Fractions
  PROVE  StoredPercent(p) \in Int
<1>1. 2 * p.n * Grain + p.d \in Int /\ 2 * p.d \in Nat \ {0}
  BY Steps DEF Fractions
<1> QED BY <1>1, Dividing DEF StoredPercent

(* Half of d more, divided by d, is what d was multiplied by.               *)
LEMMA RoundsToItself ==
  ASSUME NEW n \in Int, NEW d \in Nat \ {0}
  PROVE  (2 * (n * d) + d) \div (2 * d) = n
<1> DEFINE x == 2 * (n * d) + d
           q == x \div (2 * d)
<1>1. q \in Int /\ (2 * d) * q <= x /\ x < (2 * d) * q + 2 * d
  <2>1. x \in Int /\ 2 * d \in Nat \ {0}
    OBVIOUS
  <2> HIDE DEF x
  <2> QED BY <2>1, Dividing
<1> HIDE DEF q
<1>2. x - (2 * d) * q = (2 * (n - q) + 1) * d
  BY <1>1
<1>3. 0 <= (2 * (n - q) + 1) * d /\ (2 * (n - q) + 1) * d < 2 * d
  BY <1>1, <1>2
<1>4. 0 <= 2 * (n - q) + 1 /\ 2 * (n - q) + 1 < 2
  BY <1>1, <1>3
<1>5. q = n
  BY <1>1, <1>4
<1> QED BY <1>5 DEF q

LEMMA ColumnType ==
  ASSUME NEW n \in Int
  PROVE  ToColumn(n) \in Int /\ FromColumn(n) \in Int /\ ToColumn(FromColumn(n)) = n
<1>1. 2 * n + Fine \in Int /\ 2 * Fine \in Nat \ {0}
  BY Steps
<1>2. ToColumn(n) \in Int
  BY <1>1, Dividing DEF ToColumn
<1> QED BY <1>2, Steps, RoundsToItself DEF ToColumn, FromColumn

LEMMA FractionType ==
  ASSUME NEW n \in Int
  PROVE  Fraction(n) \in Fractions /\ Fraction(n) # NotGiven
<1>1. Fraction(n) \in [n: Int, d: Nat]
  BY Steps DEF Fraction
<1> QED BY <1>1, Steps, PricingAssumption DEF Fraction, Fractions

LEMMA GivenType ==
  ASSUME NEW n \in Int
  PROVE  Given(n) \in Fractions /\ Given(n) # NotGiven
<1>1. Given(n) \in [n: Int, d: Nat \ {0}]
  BY Steps DEF Given
<1> QED BY <1>1, PricingAssumption DEF Fractions

(* A percentage that fits its column is stored as it is.                   *)
LEMMA StoredFits ==
  ASSUME NEW m \in Int
  PROVE  /\ StoredPercent(Fraction(m)) = m
         /\ StoredPercent(Given(FromColumn(m))) = m
<1>1. StoredPercent(Fraction(m)) = m
  <2>1. 2 * m * Grain = 2 * (m * Grain)
    BY Steps
  <2> QED BY <2>1, Steps, RoundsToItself DEF StoredPercent, Fraction
<1>2. StoredPercent(Given(FromColumn(m))) = m
  <2>1. 2 * (m * Fine) * Grain = 2 * (m * (Grain * Fine))
    BY Steps
  <2> QED BY <2>1, Steps, RoundsToItself DEF StoredPercent, Given, FromColumn
<1> QED BY <1>1, <1>2

LEMMA PartType ==
  ASSUME NEW base \in Int, NEW p \in Fractions
  PROVE  Part(base, p) \in Int
<1>1. base * p.n \in Int /\ p.d \in Nat \ {0}
  BY DEF Fractions
<1> QED BY <1>1, Dividing DEF Part

LEMMA ResolveType ==
  ASSUME NEW base \in Int, NEW percent \in Fractions \cup {NotGiven},
         NEW amount \in Int \cup {NotGiven}
  PROVE  /\ Resolve(base, percent, amount) \in Component
         /\ amount # NotGiven => Resolve(base, percent, amount).amount = amount
         /\ percent # NotGiven => Resolve(base, percent, amount).percent = percent
<1> DEFINE p == IF percent # NotGiven THEN percent
                ELSE IF amount # NotGiven /\ base > 0 THEN [n |-> amount, d |-> base]
                ELSE Fraction(0)
           a == IF amount # NotGiven THEN amount
                ELSE IF percent # NotGiven THEN Part(base, percent) ELSE 0
<1>1. p \in Fractions
  BY FractionType DEF Fractions
<1>2. a \in Int
  BY PartType
<1> QED BY <1>1, <1>2 DEF Resolve, Component

LEMMA BaseType == ASSUME NEW q \in Int, NEW p \in Int PROVE Base(q, p) \in Int
<1>1. q * p \in Int
  OBVIOUS
<1> QED BY <1>1, Steps DEF Base

(***************************************************************************)
(* Lines.                                                                  *)
(***************************************************************************)
LEMMA LineType ==
  ASSUME NEW qty \in Int, NEW price \in Int,
         NEW dp \in Fractions \cup {NotGiven}, NEW da \in Int \cup {NotGiven},
         NEW tp \in Fractions \cup {NotGiven}, NEW ta \in Int \cup {NotGiven}
  PROVE  /\ SOLine(qty, price, dp, da, tp, ta) \in LineInMemory
         /\ SOLine(qty, price, dp, da, tp, ta).qty = qty
         /\ SOLine(qty, price, dp, da, tp, ta).price = price
         /\ SOLine(qty, price, dp, da, tp, ta).d = Resolve(Base(qty, price), dp, da)
         /\ SOLine(qty, price, dp, da, tp, ta).t =
              Resolve(Base(qty, price) - Resolve(Base(qty, price), dp, da).amount, tp, ta)
<1> DEFINE d == Resolve(Base(qty, price), dp, da)
           t == Resolve(Base(qty, price) - d.amount, tp, ta)
<1>1. Base(qty, price) \in Int
  BY BaseType
<1>2. d \in Component
  BY <1>1, ResolveType
<1>3. d.amount \in Int /\ d.ok \in BOOLEAN
  BY <1>2 DEF Component
<1>4. Base(qty, price) - d.amount \in Int
  BY <1>1, <1>3
<1>5. t \in Component
  BY <1>4, ResolveType
<1>6. t.ok \in BOOLEAN
  BY <1>5 DEF Component
<1>7. SOLine(qty, price, dp, da, tp, ta) =
        [ok |-> qty > 0 /\ d.ok /\ t.ok, qty |-> qty, price |-> price, d |-> d, t |-> t]
  BY DEF SOLine
<1> HIDE DEF d, t
<1>8. SOLine(qty, price, dp, da, tp, ta) \in LineInMemory
  <2>1. (qty > 0 /\ d.ok /\ t.ok) \in BOOLEAN
    OBVIOUS
  <2> QED BY <1>2, <1>5, <1>7, <2>1 DEF LineInMemory
<1>9. /\ SOLine(qty, price, dp, da, tp, ta).qty = qty
      /\ SOLine(qty, price, dp, da, tp, ta).price = price
      /\ SOLine(qty, price, dp, da, tp, ta).d = d
      /\ SOLine(qty, price, dp, da, tp, ta).t = t
  BY <1>7
<1> QED BY <1>8, <1>9 DEF d, t

LEMMA LoadedType ==
  ASSUME NEW r \in LineRow
  PROVE  /\ Loaded(r) \in LineInMemory
         /\ Loaded(r).qty = FromColumn(r.qty) /\ Loaded(r).price = FromColumn(r.price)
         /\ Loaded(r).d.amount = Cents(r.dAmount) /\ Loaded(r).t.amount = Cents(r.tAmount)
<1>1. /\ FromColumn(r.qty) \in Int /\ FromColumn(r.price) \in Int
      /\ Fraction(r.dPercent) \in Fractions /\ Cents(r.dAmount) \in Int
      /\ Fraction(r.tPercent) \in Fractions /\ Cents(r.tAmount) \in Int
  BY ColumnType, FractionType, CentsType DEF LineRow
<1>2. Cents(r.dAmount) # NotGiven /\ Cents(r.tAmount) # NotGiven
  BY <1>1, PricingAssumption
<1> DEFINE base == Base(FromColumn(r.qty), FromColumn(r.price))
           d == Resolve(base, Fraction(r.dPercent), Cents(r.dAmount))
<1>3. base \in Int
  BY <1>1, BaseType
<1>4. d \in Component /\ d.amount = Cents(r.dAmount)
  BY <1>1, <1>2, <1>3, ResolveType
<1>5. base - d.amount \in Int
  BY <1>1, <1>3, <1>4
<1>6. Resolve(base - d.amount, Fraction(r.tPercent), Cents(r.tAmount)).amount = Cents(r.tAmount)
  BY <1>1, <1>2, <1>5, ResolveType
<1> QED BY <1>1, <1>4, <1>6, LineType DEF Loaded

LEMMA RowType ==
  ASSUME NEW l \in LineInMemory
  PROVE  RowOf(l) \in LineRow
<1>1. /\ l.qty \in Int /\ l.price \in Int
      /\ l.d.percent \in Fractions /\ l.d.amount \in Int
      /\ l.t.percent \in Fractions /\ l.t.amount \in Int
  BY DEF LineInMemory, Component
<1> QED BY <1>1, ColumnType, StoredNear, StoredPercentType DEF RowOf, LineRow

LEMMA RepricedType ==
  ASSUME NEW l \in LineInMemory, NEW qty \in Int, NEW price \in Int
  PROVE  Repriced(l, qty, price) \in LineInMemory
<1> DEFINE base == Base(qty, price)
           discount == Part(base, l.d.percent)
           tax == Part(base - discount, l.t.percent)
<1>1. l.d.percent \in Fractions /\ l.t.percent \in Fractions
  BY DEF LineInMemory, Component
<1>2. base \in Int /\ discount \in Int
  BY <1>1, BaseType, PartType
<1>3. base - discount \in Int
  BY <1>2
<1>4. tax \in Int
  BY <1>1, <1>3, PartType
<1>5. Repriced(l, qty, price) =
        [l EXCEPT !.qty = qty, !.price = price, !.d.amount = discount, !.t.amount = tax]
  BY DEF Repriced
<1> HIDE DEF discount, tax
<1>6. [l.d EXCEPT !.amount = discount] \in Component /\ [l.t EXCEPT !.amount = tax] \in Component
  BY <1>2, <1>4 DEF LineInMemory, Component
<1>7. Repriced(l, qty, price) =
        [l EXCEPT !.qty = qty, !.price = price,
                  !.d = [l.d EXCEPT !.amount = discount], !.t = [l.t EXCEPT !.amount = tax]]
  BY <1>5 DEF LineInMemory
<1> QED BY <1>6, <1>7 DEF LineInMemory

LEMMA DiscountedType ==
  ASSUME NEW l \in LineInMemory, NEW percent \in Fractions \cup {NotGiven},
         NEW amount \in Int \cup {NotGiven}
  PROVE  Discounted(l, percent, amount) \in LineInMemory
<1> DEFINE d == Resolve(Subtotal(l), percent, amount)
           tax == Part(Subtotal(l) - d.amount, l.t.percent)
<1>1. Subtotal(l) \in Int /\ l.t.percent \in Fractions
  BY BaseType DEF Subtotal, LineInMemory, Component
<1>2. d \in Component
  BY <1>1, ResolveType
<1>3. Subtotal(l) - d.amount \in Int
  BY <1>1, <1>2 DEF Component
<1>4. tax \in Int
  BY <1>1, <1>3, PartType
<1>5. Discounted(l, percent, amount) =
        [l EXCEPT !.ok = @ /\ d.ok, !.d = d, !.t.amount = tax]
  BY DEF Discounted
<1> HIDE DEF d, tax
<1>6. [l.t EXCEPT !.amount = tax] \in Component /\ d.ok \in BOOLEAN
  BY <1>2, <1>4 DEF LineInMemory, Component
<1>7. Discounted(l, percent, amount) =
        [l EXCEPT !.ok = @ /\ d.ok, !.d = d, !.t = [l.t EXCEPT !.amount = tax]]
  BY <1>5 DEF LineInMemory
<1>8. (l.ok /\ d.ok) \in BOOLEAN
  OBVIOUS
<1> QED BY <1>2, <1>6, <1>7, <1>8 DEF LineInMemory

LEMMA TaxedType ==
  ASSUME NEW l \in LineInMemory, NEW percent \in Fractions
  PROVE  Taxed(l, percent) \in LineInMemory
<1> DEFINE t == Resolve(Subtotal(l) - l.d.amount, percent, NotGiven)
<1>1. Subtotal(l) \in Int /\ l.d.amount \in Int
  BY BaseType DEF Subtotal, LineInMemory, Component
<1>2. Subtotal(l) - l.d.amount \in Int
  BY <1>1
<1>3. t \in Component
  BY <1>2, ResolveType
<1>4. Taxed(l, percent) = [l EXCEPT !.ok = @ /\ t.ok, !.t = t]
  BY DEF Taxed
<1> HIDE DEF t
<1> QED BY <1>3, <1>4 DEF LineInMemory, Component

(***************************************************************************)
(* Totals.                                                                 *)
(***************************************************************************)

(* The row that keeps a line in memory.                                    *)
Keeps(r, l) ==
  /\ r \in LineRow /\ l \in LineInMemory
  /\ FromColumn(r.qty) = l.qty /\ FromColumn(r.price) = l.price
  /\ r.dAmount = Stored(l.d.amount) /\ r.tAmount = Stored(l.t.amount)

Gross(rows, D)    == [n \in D |-> Subtotal(Loaded(rows[n]))]
Discount(rows, D) == [n \in D |-> rows[n].dAmount]
Tax(rows, D)      == [n \in D |-> rows[n].tAmount]
Net(rows, D)      == [n \in D |-> LineTotal(Loaded(rows[n]))]

Totals(h, rows, D, more) ==
  /\ 2 * Distance(Cents(h.subtotal), SumFunction(Gross(rows, D))) <= Unit
  /\ 2 * Distance(h.linesDiscount, SumFunction(Discount(rows, D))) <= Cardinality(D) + 1
  /\ 2 * Distance(h.tax, SumFunction(Tax(rows, D))) <= Cardinality(D) + 1
  /\ 2 * Distance(Cents(h.total + h.dAmount - h.tax), SumFunction(Net(rows, D)))
       <= Cents(2 * Cardinality(D) + 3 + 2 * more)

LEMMA LoadedIsKept == ASSUME NEW r \in LineRow PROVE Keeps(r, Loaded(r))
  BY LoadedType, StoredCents DEF Keeps, LineRow

LEMMA SavedIsKept ==
  ASSUME NEW l \in LineInMemory, Fits(l.qty), Fits(l.price)
  PROVE  Keeps(RowOf(l), l)
  BY RowType DEF Keeps, RowOf, Fits

LEMMA Cancel ==
  ASSUME NEW a \in Int, NEW b \in Int, a * Unit <= b * Unit
  PROVE  a <= b
<1>1. (b - a) * Unit >= 0
  BY UnitPositive
<1> QED BY <1>1, UnitPositive

LEMMA DistanceWithin ==
  ASSUME NEW x \in Int, NEW y \in Int, NEW k \in Int,
         -k <= 2 * x - 2 * y, 2 * x - 2 * y <= k
  PROVE  2 * Distance(x, y) <= k
  BY DEF Distance

LEMMA NearCents ==
  ASSUME NEW x \in Int, NEW a \in Int, NEW k \in Int,
         -(Unit * k) <= 2 * Unit * a - 2 * x, 2 * Unit * a - 2 * x <= Unit * k
  PROVE  2 * Distance(Stored(x), a) <= k + 1
<1> DEFINE s == Stored(x)
<1>1. s \in Int /\ -Unit <= 2 * Unit * s - 2 * x /\ 2 * Unit * s - 2 * x <= Unit
  BY StoredNear
<1> HIDE DEF s
<1>2. /\ (2 * s - 2 * a) * Unit = (2 * Unit * s - 2 * x) - (2 * Unit * a - 2 * x)
      /\ (k + 1) * Unit = Unit * k + Unit /\ (-(k + 1)) * Unit = -(Unit * k) - Unit
  BY <1>1, UnitPositive
<1>3. 2 * Unit * s - 2 * x \in Int /\ 2 * Unit * a - 2 * x \in Int /\ Unit * k \in Int /\ Unit \in Int
  BY <1>1, UnitPositive
<1>4. (2 * s - 2 * a) * Unit <= (k + 1) * Unit /\ (-(k + 1)) * Unit <= (2 * s - 2 * a) * Unit
  BY <1>1, <1>2, <1>3
<1>5. 2 * s - 2 * a <= k + 1 /\ -(k + 1) <= 2 * s - 2 * a
  BY <1>1, <1>4, Cancel
<1> QED BY <1>1, <1>5, DistanceWithin DEF s

LEMMA TotalNear ==
  ASSUME NEW b \in Int, NEW x \in Int, NEW t \in Int, NEW a \in Int, NEW k \in Int,
         -k <= 2 * a - 2 * b, 2 * a - 2 * b <= k
  PROVE  2 * Distance(Cents(Stored(b - x + t) + Stored(x) - Stored(t)), a) <= 3 * Unit + k
<1> DEFINE p == Stored(b - x + t)
           q == Stored(x)
           r == Stored(t)
<1>1. p \in Int /\ -Unit <= 2 * Unit * p - 2 * (b - x + t) /\ 2 * Unit * p - 2 * (b - x + t) <= Unit
  BY StoredNear
<1>2. q \in Int /\ -Unit <= 2 * Unit * q - 2 * x /\ 2 * Unit * q - 2 * x <= Unit
  BY StoredNear
<1>3. r \in Int /\ -Unit <= 2 * Unit * r - 2 * t /\ 2 * Unit * r - 2 * t <= Unit
  BY StoredNear
<1> HIDE DEF p, q, r
<1> DEFINE c == Cents(p + q - r)
<1>4. /\ 2 * Unit * p \in Int /\ 2 * Unit * q \in Int /\ 2 * Unit * r \in Int
      /\ 2 * c = 2 * Unit * p + 2 * Unit * q - 2 * Unit * r
      /\ c \in Int /\ Unit \in Int /\ p + q - r \in Int
  BY <1>1, <1>2, <1>3, UnitPositive DEF Cents
<1> HIDE DEF c
<1>5. -(3 * Unit + k) <= 2 * c - 2 * a /\ 2 * c - 2 * a <= 3 * Unit + k
  BY <1>1, <1>2, <1>3, <1>4
<1>6. 3 * Unit + k \in Int
  BY <1>4
<1>7. 2 * Distance(c, a) <= 3 * Unit + k
  BY <1>4, <1>5, <1>6, DistanceWithin
<1> QED BY <1>7 DEF c, p, q, r

LEMMA LineNear ==
  ASSUME NEW r, NEW l, Keeps(r, l)
  PROVE  LET gross == Subtotal(Loaded(r))
             net   == LineTotal(Loaded(r))
         IN  /\ gross \in Int /\ Subtotal(l) = gross
             /\ l.d.amount \in Int /\ l.t.amount \in Int /\ LineTotal(l) \in Int
             /\ r.dAmount \in Int /\ r.tAmount \in Int /\ net \in Int
             /\ -Unit <= 2 * Unit * r.dAmount - 2 * l.d.amount
             /\ 2 * Unit * r.dAmount - 2 * l.d.amount <= Unit
             /\ -Unit <= 2 * Unit * r.tAmount - 2 * l.t.amount
             /\ 2 * Unit * r.tAmount - 2 * l.t.amount <= Unit
             /\ -(2 * Unit) <= 2 * net - 2 * LineTotal(l)
             /\ 2 * net - 2 * LineTotal(l) <= 2 * Unit
<1> DEFINE g == Subtotal(Loaded(r))
           d == r.dAmount
           t == r.tAmount
           x == l.d.amount
           y == l.t.amount
<1>1. /\ r \in LineRow /\ l.qty \in Int /\ l.price \in Int /\ d \in Int /\ t \in Int
      /\ x \in Int /\ y \in Int
  BY DEF Keeps, LineRow, LineInMemory, Component
<1>2. g \in Int /\ Subtotal(l) = g
  BY <1>1, LoadedType, BaseType DEF Keeps, Subtotal
<1>3. /\ -Unit <= 2 * Unit * d - 2 * x /\ 2 * Unit * d - 2 * x <= Unit
      /\ -Unit <= 2 * Unit * t - 2 * y /\ 2 * Unit * t - 2 * y <= Unit
  BY <1>1, StoredNear DEF Keeps
<1>4. LineTotal(l) = g - x + y /\ LineTotal(Loaded(r)) = g - Cents(d) + Cents(t)
  BY <1>1, <1>2, LoadedType DEF LineTotal
<1> HIDE DEF g, d, t, x, y
<1>5. /\ Cents(d) \in Int /\ Cents(t) \in Int /\ Unit \in Int
      /\ 2 * Unit * d = 2 * Cents(d) /\ 2 * Unit * t = 2 * Cents(t)
  BY <1>1, UnitPositive DEF Cents
<1>6. /\ -(2 * Unit) <= 2 * LineTotal(Loaded(r)) - 2 * LineTotal(l)
      /\ 2 * LineTotal(Loaded(r)) - 2 * LineTotal(l) <= 2 * Unit
  BY <1>1, <1>2, <1>3, <1>4, <1>5
<1>7. LineTotal(l) \in Int /\ LineTotal(Loaded(r)) \in Int
  BY <1>1, <1>2, <1>4, <1>5
<1> QED BY <1>1, <1>2, <1>3, <1>6, <1>7 DEF g, d, t, x, y

Holds(kept, rows, D) ==
  /\ IsFiniteSet(D) /\ DOMAIN kept = D
  /\ \A n \in D : Keeps(rows[n], kept[n])

Lined(kept) ==
  /\ IsFiniteSet(DOMAIN kept)
  /\ \A n \in DOMAIN kept : kept[n] \in LineInMemory

LEMMA HoldsLines ==
  ASSUME NEW kept, NEW rows, NEW D, Holds(kept, rows, D)
  PROVE  Lined(kept)
  BY DEF Holds, Lined, Keeps

LEMMA RecalculatedRow ==
  ASSUME NEW h \in HeaderInMemory, NEW kept, Lined(kept)
  PROVE  LET totals == SumFunction([n \in DOMAIN kept |-> LineTotal(kept[n])])
             taxes == SumFunction([n \in DOMAIN kept |-> kept[n].t.amount])
             new == Recalculated(h, kept)
         IN  /\ new \in HeaderInMemory
             /\ new.base = totals /\ new.tax = taxes
             /\ new.subtotal = SumFunction([n \in DOMAIN kept |-> Subtotal(kept[n])])
             /\ new.linesDiscount = SumFunction([n \in DOMAIN kept |-> kept[n].d.amount])
<1> DEFINE fb == [n \in DOMAIN kept |-> LineTotal(kept[n])]
           ft == [n \in DOMAIN kept |-> kept[n].t.amount]
           fs == [n \in DOMAIN kept |-> Subtotal(kept[n])]
           fd == [n \in DOMAIN kept |-> kept[n].d.amount]
           x == IF h.percent.n > 0 THEN Part(SumFunction(fb), h.percent)
                ELSE IF h.discount > SumFunction(fb) THEN SumFunction(fb) ELSE h.discount
<1>1. /\ SumFunction(fb) \in Int /\ SumFunction(ft) \in Int
      /\ SumFunction(fs) \in Int /\ SumFunction(fd) \in Int
  <2> DEFINE D == DOMAIN kept
  <2>1. /\ DOMAIN fb = D /\ DOMAIN ft = D /\ DOMAIN fs = D /\ DOMAIN fd = D
        /\ D \in SUBSET D /\ IsFiniteSet(D)
    BY DEF Lined
  <2>2. \A n \in D : fb[n] \in Int /\ ft[n] \in Int /\ fs[n] \in Int /\ fd[n] \in Int
    <3> TAKE n \in D
    <3>1. /\ kept[n].d.amount \in Int /\ kept[n].t.amount \in Int
          /\ kept[n].qty \in Int /\ kept[n].price \in Int
      BY DEF Lined, LineInMemory, Component
    <3>2. Subtotal(kept[n]) \in Int
      BY <3>1, BaseType DEF Subtotal
    <3>3. LineTotal(kept[n]) \in Int
      BY <3>1, <3>2 DEF LineTotal
    <3> QED BY <3>1, <3>2, <3>3
  <2> HIDE DEF fb, ft, fs, fd, D
  <2> QED BY <2>1, <2>2, SumType DEF SumFunction
<1>2. Recalculated(h, kept) =
        [h EXCEPT !.ok = @ /\ SumFunction(fb) >= 0, !.base = SumFunction(fb), !.discount = x,
                  !.tax = SumFunction(ft), !.subtotal = SumFunction(fs),
                  !.linesDiscount = SumFunction(fd)]
  BY DEF Recalculated
<1> HIDE DEF fb, ft, fs, fd
<1>3. x \in Int
  BY <1>1, PartType DEF HeaderInMemory
<1>4. (h.ok /\ SumFunction(fb) >= 0) \in BOOLEAN
  OBVIOUS
<1> HIDE DEF x
<1>5. Recalculated(h, kept) \in HeaderInMemory
  BY <1>1, <1>2, <1>3, <1>4 DEF HeaderInMemory
<1>6. /\ Recalculated(h, kept).base = SumFunction(fb)
      /\ Recalculated(h, kept).tax = SumFunction(ft)
      /\ Recalculated(h, kept).subtotal = SumFunction(fs)
      /\ Recalculated(h, kept).linesDiscount = SumFunction(fd)
  BY <1>2 DEF HeaderInMemory
<1> QED BY <1>5, <1>6 DEF fb, ft, fs, fd

LEMMA RecalculatedTotals ==
  ASSUME NEW h \in HeaderInMemory, NEW kept, NEW rows, NEW D, Holds(kept, rows, D)
  PROVE  Totals(HeaderRow(Recalculated(h, kept)), rows, D, 0)
<1> DEFINE new == Recalculated(h, kept)
           c   == Cardinality(D)
           fb == [n \in DOMAIN kept |-> LineTotal(kept[n])]
           ft == [n \in DOMAIN kept |-> kept[n].t.amount]
           fs == [n \in DOMAIN kept |-> Subtotal(kept[n])]
           fd == [n \in DOMAIN kept |-> kept[n].d.amount]
           G == Gross(rows, D)
           X == Discount(rows, D)
           Y == Tax(rows, D)
           N == Net(rows, D)
<1>1. /\ new \in HeaderInMemory
      /\ new.base = SumFunction(fb) /\ new.tax = SumFunction(ft)
      /\ new.subtotal = SumFunction(fs) /\ new.linesDiscount = SumFunction(fd)
  BY HoldsLines, RecalculatedRow
<1>2. /\ DOMAIN fb = D /\ DOMAIN ft = D /\ DOMAIN fs = D /\ DOMAIN fd = D
      /\ DOMAIN G = D /\ DOMAIN X = D /\ DOMAIN Y = D /\ DOMAIN N = D
      /\ D \in SUBSET D /\ IsFiniteSet(D) /\ c \in Nat
  BY FS_CardinalityType DEF Holds, Gross, Discount, Tax, Net
<1>3. ASSUME NEW n \in D
      PROVE  /\ G[n] \in Int /\ fs[n] \in Int /\ fs[n] = G[n]
             /\ fd[n] \in Int /\ ft[n] \in Int /\ fb[n] \in Int
             /\ X[n] \in Int /\ Y[n] \in Int /\ N[n] \in Int
             /\ -Unit <= 2 * Unit * X[n] - 2 * fd[n] /\ 2 * Unit * X[n] - 2 * fd[n] <= Unit
             /\ -Unit <= 2 * Unit * Y[n] - 2 * ft[n] /\ 2 * Unit * Y[n] - 2 * ft[n] <= Unit
             /\ -(2 * Unit) <= 2 * N[n] - 2 * fb[n]
             /\ 2 * N[n] - 2 * fb[n] <= 2 * Unit
  <2>1. Keeps(rows[n], kept[n]) /\ n \in DOMAIN kept
    BY DEF Holds
  <2>2. /\ G[n] = Subtotal(Loaded(rows[n])) /\ X[n] = rows[n].dAmount
        /\ Y[n] = rows[n].tAmount /\ N[n] = LineTotal(Loaded(rows[n]))
    BY DEF Gross, Discount, Tax, Net
  <2>3. /\ fb[n] = LineTotal(kept[n]) /\ ft[n] = kept[n].t.amount
        /\ fs[n] = Subtotal(kept[n]) /\ fd[n] = kept[n].d.amount
    BY <2>1
  <2> HIDE DEF fb, ft, fs, fd, G, X, Y, N
  <2> QED BY <2>1, <2>2, <2>3, LineNear
<1> HIDE DEF fb, ft, fs, fd, G, X, Y, N, c, new
<1>4. /\ SumFunction(fb) \in Int /\ SumFunction(ft) \in Int
      /\ SumFunction(fs) \in Int /\ SumFunction(fd) \in Int
      /\ SumFunction(G) \in Int /\ SumFunction(X) \in Int
      /\ SumFunction(Y) \in Int /\ SumFunction(N) \in Int
  BY <1>2, <1>3, SumType DEF SumFunction
<1>5. SumFunction(fs) = SumFunction(G)
  <2>1. \A n \in D : fs[n] = G[n]
    BY <1>3
  <2> QED BY <1>2, <2>1, SumSame DEF SumFunction
<1>6. /\ -(Unit * c) <= 2 * Unit * SumFunction(X) - 2 * SumFunction(fd)
      /\ 2 * Unit * SumFunction(X) - 2 * SumFunction(fd) <= Unit * c
  <2>1. /\ \A n \in D : X[n] \in Int /\ fd[n] \in Int
        /\ \A n \in D : -(Unit) <= 2 * Unit * X[n] - 2 * fd[n] /\ 2 * Unit * X[n] - 2 * fd[n] <= Unit
    BY <1>3, UnitPositive
  <2>2. 2 * Unit \in Int /\ 2 \in Int /\ Unit \in Int /\ IsFiniteSet(D)
    BY <1>2, UnitPositive
  <2>3. /\ -(Unit * Cardinality(D)) <= 2 * Unit * SumFunctionOnSet(X, D) - 2 * SumFunctionOnSet(fd, D)
        /\ 2 * Unit * SumFunctionOnSet(X, D) - 2 * SumFunctionOnSet(fd, D) <= Unit * Cardinality(D)
    BY <2>1, <2>2, SumNear
  <2> QED BY <1>2, <2>3 DEF SumFunction, c
<1>7. /\ -(Unit * c) <= 2 * Unit * SumFunction(Y) - 2 * SumFunction(ft)
      /\ 2 * Unit * SumFunction(Y) - 2 * SumFunction(ft) <= Unit * c
  <2>1. /\ \A n \in D : Y[n] \in Int /\ ft[n] \in Int
        /\ \A n \in D : -(Unit) <= 2 * Unit * Y[n] - 2 * ft[n] /\ 2 * Unit * Y[n] - 2 * ft[n] <= Unit
    BY <1>3, UnitPositive
  <2>2. 2 * Unit \in Int /\ 2 \in Int /\ Unit \in Int /\ IsFiniteSet(D)
    BY <1>2, UnitPositive
  <2>3. /\ -(Unit * Cardinality(D)) <= 2 * Unit * SumFunctionOnSet(Y, D) - 2 * SumFunctionOnSet(ft, D)
        /\ 2 * Unit * SumFunctionOnSet(Y, D) - 2 * SumFunctionOnSet(ft, D) <= Unit * Cardinality(D)
    BY <2>1, <2>2, SumNear
  <2> QED BY <1>2, <2>3 DEF SumFunction, c
<1>8. /\ -(2 * Unit * c) <= 2 * SumFunction(N) - 2 * SumFunction(fb)
      /\ 2 * SumFunction(N) - 2 * SumFunction(fb) <= 2 * Unit * c
  <2>1. /\ \A n \in D : N[n] \in Int /\ fb[n] \in Int
        /\ \A n \in D : -(2 * Unit) <= 2 * N[n] - 2 * fb[n] /\ 2 * N[n] - 2 * fb[n] <= 2 * Unit
    BY <1>3, UnitPositive
  <2>2. 2 \in Int /\ 2 * Unit \in Int /\ IsFiniteSet(D)
    BY <1>2, UnitPositive
  <2>3. /\ -(2 * Unit * Cardinality(D)) <= 2 * SumFunctionOnSet(N, D) - 2 * SumFunctionOnSet(fb, D)
        /\ 2 * SumFunctionOnSet(N, D) - 2 * SumFunctionOnSet(fb, D) <= 2 * Unit * Cardinality(D)
    BY <2>1, <2>2, SumNear
  <2> QED BY <1>2, <2>3 DEF SumFunction, c
<1>9. /\ HeaderRow(new).subtotal = Stored(new.subtotal)
      /\ HeaderRow(new).linesDiscount = Stored(new.linesDiscount)
      /\ HeaderRow(new).tax = Stored(new.tax) /\ HeaderRow(new).dAmount = Stored(new.discount)
      /\ HeaderRow(new).total = Stored(new.base - new.discount + new.tax)
      /\ new.discount \in Int
  BY <1>1 DEF HeaderRow, HeaderInMemory
<1>10. 2 * Distance(Cents(HeaderRow(new).subtotal), SumFunction(G)) <= Unit
  <2> DEFINE x == SumFunction(G)
             m == Stored(x)
  <2>1. x \in Int /\ HeaderRow(new).subtotal = m
    BY <1>1, <1>4, <1>5, <1>9
  <2> HIDE DEF x
  <2>2. m \in Int /\ -Unit <= 2 * Unit * m - 2 * x /\ 2 * Unit * m - 2 * x <= Unit
    BY <2>1, StoredNear
  <2> HIDE DEF m
  <2>3. Cents(m) \in Int /\ Unit \in Int /\ 2 * Unit * m = 2 * Cents(m)
    BY <2>2, UnitPositive DEF Cents
  <2>4. 2 * Distance(Cents(m), x) <= Unit
    BY <2>1, <2>2, <2>3, DistanceWithin
  <2> QED BY <2>1, <2>4 DEF x
<1>11. 2 * Distance(HeaderRow(new).linesDiscount, SumFunction(X)) <= c + 1
  BY <1>1, <1>2, <1>4, <1>6, <1>9, NearCents
<1>12. 2 * Distance(HeaderRow(new).tax, SumFunction(Y)) <= c + 1
  BY <1>1, <1>2, <1>4, <1>7, <1>9, NearCents
<1>13. 2 * Distance(Cents(HeaderRow(new).total + HeaderRow(new).dAmount - HeaderRow(new).tax),
                    SumFunction(N)) <= Cents(2 * c + 3 + 2 * 0)
  <2>1. /\ SumFunction(fb) \in Int /\ SumFunction(ft) \in Int /\ SumFunction(N) \in Int
        /\ new.discount \in Int /\ c \in Int /\ 2 * Unit * c \in Int
    BY <1>2, <1>4, <1>9, UnitPositive
  <2>2. 2 * Distance(Cents(Stored(SumFunction(fb) - new.discount + SumFunction(ft))
                       + Stored(new.discount) - Stored(SumFunction(ft))), SumFunction(N))
          <= 3 * Unit + 2 * Unit * c
    BY <2>1, <1>8, TotalNear
  <2>3. 3 * Unit + 2 * Unit * c = Cents(2 * c + 3 + 2 * 0)
    BY <2>1, UnitPositive DEF Cents
  <2> QED BY <1>1, <1>9, <2>2, <2>3
<1> QED BY <1>2, <1>10, <1>11, <1>12, <1>13 DEF Totals, c, new, G, X, Y, N

(***************************************************************************)
(* Requests.                                                               *)
(***************************************************************************)
PricingTyped ==
  /\ header \in OrderRow /\ lines \in [LineNums -> LineRow] /\ patches \in Nat
  /\ header.st = "free" => LiveLines = {} /\ ~lossy
  /\ stale \in BOOLEAN /\ lossy \in BOOLEAN

PricingInv == PricingTyped /\ PricesHold

LEMMA TotalsMean ==
  TotalsFollowLines <=>
    (header.st = "live" /\ ~stale => Totals(header, lines, LiveLines, patches))
  BY DEF TotalsFollowLines, Totals, Gross, Discount, Tax, Net

LEMMA LoadedHeaderType == PricingTyped => LoadedHeader \in HeaderInMemory
<1> SUFFICES ASSUME PricingTyped PROVE LoadedHeader \in HeaderInMemory
  OBVIOUS
<1>1. /\ header.dPercent \in Int /\ header.dAmount \in Int /\ header.tax \in Int
      /\ header.total \in Int /\ header.subtotal \in Int /\ header.linesDiscount \in Int
  BY DEF PricingTyped, OrderRow
<1>2. header.total + header.dAmount - header.tax \in Int
  BY <1>1
<1> QED BY <1>1, <1>2, FractionType, CentsType DEF LoadedHeader, HeaderInMemory

LEMMA RequestTypes ==
  /\ Quantities \subseteq Int /\ UnitPrices \subseteq Int
  /\ DiscountAmounts \subseteq Int /\ Percents \subseteq Int
  BY PricingAssumption

LEMMA AmountType == ASSUME NEW n \in Int PROVE n * FineCent \in Int
  BY Steps

LEMMA DiscountTypes ==
  ASSUME NEW d \in Discounts
  PROVE  /\ d.type \in {"NONE", "PERCENT", "AMOUNT"} /\ d.value \in Int
         /\ PercentOf(d, Fraction(0)) \in Fractions
         /\ AmountOf(d, Cents(0)) \in Int
         /\ PercentOf(d, NotGiven) \in Fractions \cup {NotGiven}
         /\ AmountOf(d, NotGiven) \in Int \cup {NotGiven}
<1>1. d.type \in {"NONE", "PERCENT", "AMOUNT"} /\ d.value \in Int
  <2>1. CASE d = [type |-> "NONE", value |-> 0]
    BY <2>1
  <2>2. CASE d \in [type: {"PERCENT"}, value: Percents \ {0}]
    BY <2>2, RequestTypes
  <2>3. CASE d \in [type: {"AMOUNT"}, value: DiscountAmounts]
    BY <2>3, RequestTypes
  <2> QED BY <2>1, <2>2, <2>3 DEF Discounts
<1>2. /\ Given(d.value) \in Fractions /\ d.value * FineCent \in Int
      /\ Fraction(0) \in Fractions /\ Cents(0) \in Int
  BY <1>1, GivenType, AmountType, FractionType, CentsType
<1> QED BY <1>1, <1>2 DEF PercentOf, AmountOf

LEMMA SetDiscountType ==
  ASSUME NEW h \in HeaderInMemory, NEW d \in Discounts
  PROVE  LET new == SetDiscount(h, d.type, d.value)
         IN  /\ new \in HeaderInMemory
             /\ new.base = h.base /\ new.tax = h.tax
             /\ new.subtotal = h.subtotal /\ new.linesDiscount = h.linesDiscount
<1> DEFINE new == SetDiscount(h, d.type, d.value)
<1>1. /\ d.type \in {"NONE", "PERCENT", "AMOUNT"} /\ d.value \in Int
      /\ d.value * FineCent \in Int /\ Given(d.value) \in Fractions
      /\ Fraction(0) \in Fractions
  BY DiscountTypes, AmountType, GivenType, FractionType
<1> DEFINE amount == d.value * FineCent
<1>2. CASE d.type = "PERCENT"
  <2> DEFINE x == Part(h.base, Given(d.value))
             o == h.ok /\ d.value <= Grain * Fine
  <2>1. x \in Int /\ o \in BOOLEAN
    BY <1>1, PartType DEF HeaderInMemory
  <2>2. new = [h EXCEPT !.ok = o, !.percent = Given(d.value), !.discount = x]
    BY <1>2 DEF SetDiscount, HeaderInMemory
  <2> HIDE DEF o, x, new
  <2> QED BY <1>1, <2>1, <2>2 DEF HeaderInMemory, new
<1>3. CASE d.type = "AMOUNT"
  <2> DEFINE q == IF h.base > 0 THEN [n |-> amount, d |-> h.base] ELSE Fraction(0)
             o == h.ok /\ amount <= h.base
  <2>1. q \in Fractions /\ o \in BOOLEAN
    BY <1>1 DEF Fractions, HeaderInMemory
  <2>2. new = [h EXCEPT !.ok = o, !.percent = q, !.discount = amount]
    BY <1>3 DEF SetDiscount, HeaderInMemory
  <2>3. amount \in Int
    BY <1>1
  <2> HIDE DEF q, o, amount, new
  <2> QED BY <2>1, <2>2, <2>3 DEF HeaderInMemory, new
<1>4. CASE d.type = "NONE"
  BY <1>4 DEF SetDiscount
<1> QED BY <1>1, <1>2, <1>3, <1>4

LEMMA HeaderRowType ==
  ASSUME NEW h \in HeaderInMemory
  PROVE  HeaderRow(h) \in OrderRow /\ HeaderRow(h).st = "live"
<1>1. /\ h.percent \in Fractions /\ h.discount \in Int /\ h.tax \in Int
      /\ h.base \in Int /\ h.subtotal \in Int /\ h.linesDiscount \in Int
  BY DEF HeaderInMemory
<1>2. h.base - h.discount + h.tax \in Int
  BY <1>1
<1> QED BY <1>1, <1>2, StoredNear, StoredPercentType DEF HeaderRow, OrderRow

LEMMA NewLineType ==
  ASSUME NEW r \in LineRequests
  PROVE  NewLine(r) \in LineInMemory /\ AddedLine(r) \in LineInMemory
<1>1. r.qty \in Int /\ r.price \in Int /\ r.tax \in Int /\ r.discount \in Discounts
  BY RequestTypes DEF LineRequests
<1>2. /\ PercentOf(r.discount, Fraction(0)) \in Fractions
      /\ AmountOf(r.discount, Cents(0)) \in Int
      /\ PercentOf(r.discount, NotGiven) \in Fractions \cup {NotGiven}
      /\ AmountOf(r.discount, NotGiven) \in Int \cup {NotGiven}
      /\ Given(r.tax) \in Fractions
  BY <1>1, DiscountTypes, GivenType
<1> QED BY <1>1, <1>2, LineType DEF NewLine, AddedLine

(* The columns that keep what a line's base is made of keep the line.      *)
LEMMA ExactIsKept ==
  ASSUME NEW r \in LineRequests, Exact(r)
  PROVE  /\ Keeps(RowOf(NewLine(r)), NewLine(r))
         /\ Keeps(RowOf(AddedLine(r)), AddedLine(r))
<1>1. /\ NewLine(r).qty = r.qty /\ NewLine(r).price = r.price
      /\ AddedLine(r).qty = r.qty /\ AddedLine(r).price = r.price
  BY DEF NewLine, AddedLine, SOLine
<1> QED BY <1>1, NewLineType, SavedIsKept DEF Exact

LEMMA CancelBy ==
  ASSUME NEW a \in Int, NEW b \in Int, NEW f \in Nat \ {0}, a * f <= b * f
  PROVE  a <= b
<1>1. (b - a) * f >= 0
  OBVIOUS
<1> QED BY <1>1

(* The quotient is the only number within a divisor below.                 *)
LEMMA Quotient ==
  ASSUME NEW x \in Int, NEW y \in Nat \ {0}, NEW q \in Int,
         y * q <= x, x < y * q + y
  PROVE  x \div y = q
<1> DEFINE w == x \div y
<1>1. w \in Int /\ y * w <= x /\ x < y * w + y
  BY Dividing
<1> HIDE DEF w
<1>2. (q - w) * y < y /\ (w - q) * y < y
  BY <1>1
<1>3. q - w < 1 /\ w - q < 1
  BY <1>1, <1>2
<1>4. w = q
  BY <1>1, <1>3
<1> QED BY <1>4 DEF w

LEMMA SamePart ==
  ASSUME NEW base \in Int, NEW m \in Int
  PROVE  Part(base, Given(FromColumn(m))) = Part(base, Fraction(m))
<1> DEFINE x == base * m
           q == x \div Grain
<1>1. x \in Int /\ q \in Int /\ Grain * q <= x /\ x < Grain * q + Grain
  BY Steps, Dividing
<1>2. Part(base, Fraction(m)) = q
  BY DEF Part, Fraction
<1>3. Part(base, Given(FromColumn(m))) = (x * Fine) \div (Grain * Fine)
  <2>1. base * (m * Fine) = x * Fine
    BY Steps
  <2> QED BY <2>1 DEF Part, Given, FromColumn
<1> HIDE DEF x, q
<1>4. (Grain * Fine) * q <= x * Fine /\ x * Fine < (Grain * Fine) * q + Grain * Fine
  <2> DEFINE w == Grain * q
  <2>1. /\ w \in Int /\ w <= x /\ x < w + Grain /\ Fine \in Nat \ {0} /\ Grain \in Int
        /\ (Grain * Fine) * q = w * Fine
    BY <1>1, Steps
  <2> HIDE DEF w
  <2>2. /\ (x - w) * Fine >= 0 /\ (w + Grain - x) * Fine > 0
    BY <1>1, <2>1
  <2>3. w * Fine <= x * Fine /\ x * Fine < w * Fine + Grain * Fine
    BY <1>1, <2>1, <2>2
  <2> QED BY <2>1, <2>3
<1>5. (x * Fine) \div (Grain * Fine) = q
  <2>1. x * Fine \in Int /\ Grain * Fine \in Nat \ {0}
    BY <1>1, Steps
  <2> QED BY <1>1, <1>4, <2>1, Quotient
<1> QED BY <1>2, <1>3, <1>5

(* What a percentage that fits its column becomes when it is stored.        *)
LEMMA KeptPercent ==
  ASSUME NEW p, p = Fraction(0) \/ \E v \in Int : p = Given(v) /\ Fits(v)
  PROVE  \E m \in Int :
           /\ StoredPercent(p) = m
           /\ \A base \in Int : Part(base, p) = Part(base, Fraction(m))
           /\ p.n >= 0 /\ p.n <= p.d => m \in 0..Grain
<1>1. CASE p = Fraction(0)
  <2>1. StoredPercent(p) = 0 /\ 0 \in 0..Grain /\ 0 \in Int
    BY <1>1, StoredFits, Steps
  <2> QED BY <1>1, <2>1
<1>2. CASE \E v \in Int : p = Given(v) /\ Fits(v)
  <2>1. PICK v \in Int : p = Given(v) /\ Fits(v)
    BY <1>2
  <2> DEFINE m == ToColumn(v)
  <2>2. m \in Int /\ v = FromColumn(m) /\ v = m * Fine
    BY <2>1, ColumnType DEF Fits, FromColumn
  <2> HIDE DEF m
  <2>3. StoredPercent(p) = m /\ \A base \in Int : Part(base, p) = Part(base, Fraction(m))
    BY <2>1, <2>2, StoredFits, SamePart
  <2>4. ASSUME p.n >= 0, p.n <= p.d PROVE m \in 0..Grain
    <3>1. m * Fine >= 0 * Fine /\ m * Fine <= Grain * Fine
      BY <2>1, <2>2, <2>4, Steps DEF Given
    <3>2. 0 <= m /\ m <= Grain
      BY <2>2, <3>1, Steps, CancelBy
    <3> QED BY <2>2, <3>2, Steps
  <2> QED BY <2>2, <2>3, <2>4
<1> QED BY <1>1, <1>2

(* A part of two amounts differs by no more than they do, but for the       *)
(* rounding.                                                               *)
LEMMA PartGrows ==
  ASSUME NEW x \in Int, NEW y \in Int, NEW k \in Nat, x - y <= k, NEW n \in 0..Grain
  PROVE  Part(x, Fraction(n)) - Part(y, Fraction(n)) <= k + 1
<1> DEFINE a == x * n
           b == y * n
           u == a \div Grain
           w == b \div Grain
<1>1. a \in Int /\ b \in Int /\ Grain \in Nat \ {0} /\ n \in Nat /\ n <= Grain
  BY Steps
<1>2. Part(x, Fraction(n)) = u /\ Part(y, Fraction(n)) = w
  BY DEF Part, Fraction
<1>3. a - b <= k * Grain
  <2>1. (k - (x - y)) * n >= 0 /\ (Grain - n) * k >= 0
    BY <1>1
  <2>2. (k - (x - y)) * n = k * n - (a - b) /\ (Grain - n) * k = k * Grain - k * n
    BY <1>1
  <2>3. k * n \in Int /\ k * Grain \in Int
    BY <1>1
  <2> HIDE DEF a, b
  <2> QED BY <1>1, <2>1, <2>2, <2>3
<1> HIDE DEF a, b
<1>4. /\ u \in Int /\ Grain * u <= a /\ a < Grain * u + Grain
      /\ w \in Int /\ Grain * w <= b /\ b < Grain * w + Grain
  BY <1>1, Dividing
<1> HIDE DEF u, w
<1>5. (u - w) * Grain <= (k + 1) * Grain
  <2>1. /\ (u - w) * Grain = Grain * u - Grain * w /\ (k + 1) * Grain = k * Grain + Grain
        /\ Grain * u \in Int /\ Grain * w \in Int /\ k * Grain \in Int
    BY <1>1, <1>4
  <2> QED BY <1>1, <1>3, <1>4, <2>1
<1>6. u - w <= k + 1
  BY <1>1, <1>4, <1>5, CancelBy
<1> QED BY <1>2, <1>6

(* An amount and its base, rounded, agree with the percentage as the amount *)
(* and the base did.                                                       *)
LEMMA RoundingAgrees ==
  ASSUME NEW x \in Int, NEW y \in Int, NEW n \in 0..Grain,
         2 * Distance(x, y) <= Unit
  PROVE  Distance(Part(y, Fraction(n)), Cents(Stored(Part(x, Fraction(n))))) <= Cents(2)
<1> DEFINE a == Part(x, Fraction(n))
           b == Part(y, Fraction(n))
           k == Distance(x, y)
           m == Stored(a)
<1>1. a \in Int /\ b \in Int
  BY FractionType, PartType
<1>2. k \in Nat /\ x - y <= k /\ y - x <= k /\ 2 * k <= Unit
  BY DEF Distance
<1> HIDE DEF k
<1>3. a - b <= k + 1 /\ b - a <= k + 1
  BY <1>2, PartGrows
<1> HIDE DEF a, b
<1>4. m \in Int /\ -Unit <= 2 * Unit * m - 2 * a /\ 2 * Unit * m - 2 * a <= Unit
  BY <1>1, StoredNear
<1> HIDE DEF m
<1>5. /\ Cents(m) \in Int /\ Unit \in Int /\ 2 * Unit * m = 2 * Cents(m) /\ Cents(2) = 2 * Unit
      /\ 1 <= Unit
  BY <1>4, UnitPositive DEF Cents
<1>6. /\ -Cents(2) <= b - Cents(m) /\ b - Cents(m) <= Cents(2)
  BY <1>1, <1>2, <1>3, <1>4, <1>5
<1>7. Distance(b, Cents(m)) <= Cents(2)
  BY <1>1, <1>5, <1>6 DEF Distance
<1> QED BY <1>7 DEF a, b, m

LEMMA StoredNatural ==
  ASSUME NEW x \in Int, x >= 0
  PROVE  Stored(x) \in Int /\ Cents(Stored(x)) >= 0
<1> DEFINE m == Stored(x)
<1>1. m \in Int /\ -Unit <= 2 * Unit * m - 2 * x
  BY StoredNear
<1> HIDE DEF m
<1>2. (2 * m + 1) * Unit >= 0
  <2>1. 2 * Unit * m \in Int /\ (2 * m + 1) * Unit = 2 * Unit * m + Unit /\ Unit \in Int
    BY <1>1, UnitPositive
  <2> QED BY <1>1, <2>1
<1>3. m >= 0
  BY <1>1, <1>2, UnitPositive
<1> QED BY <1>1, <1>3, UnitPositive DEF Cents, m

(* A component that both was given and agreed agrees as it is stored.       *)
LEMMA DiscountLoads ==
  ASSUME NEW r \in LineRequests, Kept(r), NEW base \in Int, NEW m \in Int,
         Resolve(base, PercentOf(r.discount, Fraction(0)), AmountOf(r.discount, Cents(0))).ok,
         \A x \in Int : Part(x, PercentOf(r.discount, Fraction(0))) = Part(x, Fraction(m)),
         m \in 0..Grain
  PROVE  LET a == AmountOf(r.discount, Cents(0))
         IN  /\ a \in Int /\ a >= 0
             /\ Resolve(base, Fraction(m), Cents(Stored(a))).ok
             /\ Resolve(base, Fraction(m), Cents(Stored(a))).amount = Cents(Stored(a))
<1> DEFINE p == PercentOf(r.discount, Fraction(0))
           a == AmountOf(r.discount, Cents(0))
           s == Stored(a)
<1>1. r.discount \in Discounts
  BY DEF LineRequests
<1>2. /\ p \in Fractions /\ p # NotGiven /\ a \in Int /\ a # NotGiven
      /\ Fraction(m) \in Fractions /\ Fraction(m) # NotGiven
  <2>1. /\ p \in Fractions /\ a \in Int /\ Fraction(m) \in Fractions /\ Fraction(m) # NotGiven
    BY <1>1, DiscountTypes, FractionType
  <2>2. p # NotGiven
    BY <1>1, DiscountTypes, GivenType, FractionType DEF PercentOf
  <2> QED BY <2>1, <2>2, PricingAssumption
<1>3. Distance(Part(base, p), a) <= Cents(2) /\ a >= 0
  <2>1. Resolve(base, p, a).ok
    OBVIOUS
  <2> HIDE DEF p, a
  <2> QED BY <1>2, <2>1 DEF Resolve
<1>4. s \in Int /\ Cents(s) \in Int /\ Cents(s) >= 0 /\ Cents(s) # NotGiven
  <2> HIDE DEF a
  <2>1. s \in Int /\ Cents(s) >= 0
    BY <1>2, <1>3, StoredNatural
  <2> HIDE DEF s
  <2> QED BY <2>1, CentsType, PricingAssumption
<1>5. Distance(Part(base, Fraction(m)), Cents(s)) <= Cents(2)
  <2>1. Part(base, Fraction(m)) = Part(base, p) /\ Part(base, p) \in Int
    BY <1>2, PartType
  <2>2. CASE r.discount.type = "AMOUNT"
    <3>1. Part(base, p) = 0
      <4>1. p = Fraction(0)
        BY <2>2 DEF PercentOf
      <4>2. Part(base, Fraction(0)) = (base * 0) \div Grain /\ base * 0 = 0
        BY DEF Part, Fraction
      <4>3. 0 \div Grain = 0
        <5>1. Grain * 0 <= 0 /\ 0 < Grain * 0 + Grain
          BY Steps
        <5> QED BY <5>1, Steps, Quotient
      <4> QED BY <4>1, <4>2, <4>3
    <3>2. a <= Cents(2)
      <4> HIDE DEF p, a
      <4> QED BY <1>2, <1>3, <3>1 DEF Distance
    <3>3. -Unit <= 2 * Unit * s - 2 * a /\ 2 * Unit * s - 2 * a <= Unit
      <4> HIDE DEF a
      <4> QED BY <1>2, StoredNear
    <3> HIDE DEF s, a
    <3>4. s <= 2
      <4>1. /\ 2 * Unit * s \in Int /\ Unit \in Int /\ Cents(2) = 2 * Unit
            /\ (2 * s - 5) * Unit = 2 * Unit * s - 5 * Unit
        BY <1>4, UnitPositive DEF Cents
      <4>2. (2 * s - 5) * Unit <= 0
        BY <1>2, <3>2, <3>3, <4>1
      <4>3. 2 * s - 5 <= 0
        BY <1>4, <4>2, UnitPositive
      <4> QED BY <1>4, <4>3
    <3>5. Cents(s) <= Cents(2)
      <4>1. (2 - s) * Unit >= 0
        BY <1>4, <3>4, UnitPositive
      <4> QED BY <1>4, <4>1, UnitPositive DEF Cents
    <3> HIDE DEF p
    <3> QED BY <1>4, <2>1, <3>1, <3>5 DEF Distance
  <2>3. CASE r.discount.type # "AMOUNT"
    <3>1. a = Cents(0) /\ Cents(s) = a
      BY <2>3, StoredCents DEF AmountOf
    <3> HIDE DEF p, a, s
    <3> QED BY <1>3, <2>1, <3>1
  <2> QED BY <2>2, <2>3
<1>6. Fraction(m).n <= Fraction(m).d /\ Fraction(m).n >= 0
  BY Steps DEF Fraction
<1> DEFINE q == Fraction(m)
           v == Resolve(base, q, Cents(s))
<1> HIDE DEF q, s, a, p
<1>7. v.ok /\ v.amount = Cents(s)
  BY <1>2, <1>4, <1>5, <1>6 DEF q, Resolve
<1> QED BY <1>2, <1>3, <1>7 DEF q, s, a

(* A line that was given no more decimals than its columns keep can be      *)
(* loaded again: its percentages are those it had, and its amounts, rounded *)
(* to cents, agree with them.                                              *)
LEMMA NewLineLoads ==
  ASSUME NEW r \in LineRequests, NewLine(r).ok, Kept(r)
  PROVE  Loaded(RowOf(NewLine(r))).ok
<1>1. r.qty \in Int /\ r.price \in Int /\ r.tax \in Int /\ r.discount \in Discounts
  BY RequestTypes DEF LineRequests
<1> DEFINE l == NewLine(r)
           base == Base(r.qty, r.price)
           p == PercentOf(r.discount, Fraction(0))
           a == AmountOf(r.discount, Cents(0))
           f == Given(r.tax)
           d == Resolve(base, p, a)
           t == Resolve(base - d.amount, f, NotGiven)
<1>2. /\ p \in Fractions /\ p # NotGiven /\ a \in Int /\ a # NotGiven
      /\ f \in Fractions /\ f # NotGiven /\ base \in Int
  <2>1. p # NotGiven
    BY <1>1, DiscountTypes, GivenType, FractionType DEF PercentOf
  <2> QED BY <1>1, <2>1, DiscountTypes, GivenType, BaseType, PricingAssumption
<1>3. l = [ok |-> r.qty > 0 /\ d.ok /\ t.ok, qty |-> r.qty, price |-> r.price, d |-> d, t |-> t]
  BY DEF NewLine, SOLine
<1>4. PICK m \in Int :
        /\ StoredPercent(p) = m
        /\ \A x \in Int : Part(x, p) = Part(x, Fraction(m))
        /\ p.n >= 0 /\ p.n <= p.d => m \in 0..Grain
  <2>1. p = Fraction(0) \/ \E v \in Int : p = Given(v) /\ Fits(v)
    BY <1>1, DiscountTypes DEF PercentOf, Kept
  <2> HIDE DEF p
  <2> QED BY <2>1, KeptPercent
<1>5. PICK w \in Int :
        /\ StoredPercent(f) = w
        /\ \A x \in Int : Part(x, f) = Part(x, Fraction(w))
        /\ f.n >= 0 /\ f.n <= f.d => w \in 0..Grain
  <2>1. \E v \in Int : f = Given(v) /\ Fits(v)
    BY <1>1 DEF Kept
  <2> HIDE DEF f
  <2> QED BY <2>1, KeptPercent
<1>6. d.percent = p /\ d.amount = a /\ d.ok /\ d.ok \in BOOLEAN
  <2>1. d.percent = p /\ d.amount = a /\ d \in Component
    <3> HIDE DEF p, a, base
    <3> QED BY <1>2, ResolveType
  <2>2. l.ok
    OBVIOUS
  <2> HIDE DEF l, d, t
  <2> QED BY <1>3, <2>1, <2>2 DEF Component
<1>7. p.n >= 0 /\ p.n <= p.d
  <2> HIDE DEF p, a, base
  <2> QED BY <1>2, <1>6 DEF Resolve
<1> DEFINE rest == base - a
           ta == Part(rest, f)
<1>8. rest \in Int /\ ta \in Int
  <2> HIDE DEF base, a, f
  <2>1. rest \in Int
    BY <1>2
  <2> QED BY <1>2, <2>1, PartType
<1>9. t.percent = f /\ t.amount = ta /\ f.n >= 0 /\ f.n <= f.d /\ ta >= 0 /\ r.qty > 0
  <2>1. l.ok
    OBVIOUS
  <2>2. t.ok /\ r.qty > 0
    <3> HIDE DEF l, d, t
    <3> QED BY <1>3, <2>1
  <2>3. t = Resolve(rest, f, NotGiven)
    <3> HIDE DEF d
    <3> QED BY <1>6
  <2> HIDE DEF t, rest, f, l, d
  <2>4. t.percent = f /\ t.amount = Part(rest, f) /\ f.n <= f.d /\ f.n >= 0 /\ t.amount >= 0
    BY <1>2, <2>2, <2>3 DEF Resolve
  <2> QED BY <2>2, <2>4
<1>10. m \in 0..Grain /\ w \in 0..Grain
  BY <1>4, <1>5, <1>7, <1>9
<1> DEFINE sa == Stored(a)
           st == Stored(ta)
           e == Resolve(base, Fraction(m), Cents(sa))
           u == Resolve(base - e.amount, Fraction(w), Cents(st))
<1>11. RowOf(l) = [st |-> "live", qty |-> ToColumn(r.qty), price |-> ToColumn(r.price),
                   dPercent |-> m, dAmount |-> sa, tPercent |-> w, tAmount |-> st]
  <2>1. /\ l.qty = r.qty /\ l.price = r.price /\ l.d.percent = p
        /\ l.d.amount = a /\ l.t.percent = f /\ l.t.amount = ta
    <3> HIDE DEF d, t, p, a, f, ta
    <3> QED BY <1>3, <1>6, <1>9
  <2> HIDE DEF l, p, a, f, ta
  <2> QED BY <1>4, <1>5, <2>1 DEF RowOf
<1>12. FromColumn(ToColumn(r.qty)) = r.qty /\ FromColumn(ToColumn(r.price)) = r.price
  BY DEF Kept, Exact, Fits
<1>13. Loaded(RowOf(l)).ok = (r.qty > 0 /\ e.ok /\ u.ok)
  <2> HIDE DEF l, sa, st
  <2> QED BY <1>11, <1>12 DEF Loaded, SOLine
<1>14. a >= 0 /\ e.ok /\ e.amount = Cents(sa)
  <2>1. Resolve(base, p, a).ok
    BY <1>6
  <2> HIDE DEF base
  <2> QED BY <1>2, <1>4, <1>10, <2>1, DiscountLoads
<1> HIDE DEF e
<1>15. u.ok
  <2> DEFINE y == base - Cents(sa)
  <2>1. /\ sa \in Int /\ -Unit <= 2 * Unit * sa - 2 * a /\ 2 * Unit * sa - 2 * a <= Unit
    <3> HIDE DEF a
    <3> QED BY <1>2, StoredNear
  <2> HIDE DEF sa
  <2>2. Cents(sa) \in Int /\ 2 * Unit * sa = 2 * Cents(sa) /\ Unit \in Int
    BY <2>1, UnitPositive DEF Cents
  <2>3. y \in Int /\ 2 * Distance(rest, y) <= Unit
    <3> HIDE DEF base, a
    <3>1. y \in Int /\ rest - y = Cents(sa) - a
      BY <1>2, <2>2
    <3>2. -Unit <= 2 * rest - 2 * y /\ 2 * rest - 2 * y <= Unit
      BY <1>2, <2>1, <2>2
    <3> HIDE DEF y, rest
    <3> QED BY <1>8, <2>2, <3>1, <3>2, DistanceWithin
  <2>4. ta = Part(rest, Fraction(w))
    <3> HIDE DEF rest, f
    <3> QED BY <1>5, <1>8
  <2> HIDE DEF y, rest
  <2>5. Distance(Part(y, Fraction(w)), Cents(st)) <= Cents(2)
    <3> HIDE DEF ta
    <3> QED BY <1>8, <1>10, <2>3, <2>4, RoundingAgrees
  <2>6. st \in Int /\ Cents(st) >= 0
    <3> HIDE DEF ta
    <3> QED BY <1>8, <1>9, StoredNatural
  <2> HIDE DEF st, base
  <2>7. Cents(st) \in Int /\ Cents(st) # NotGiven
    BY <2>6, CentsType, PricingAssumption
  <2>8. Fraction(w) # NotGiven /\ Fraction(w).n <= Fraction(w).d /\ Fraction(w).n >= 0
    BY <1>10, FractionType, Steps DEF Fraction
  <2>9. u = Resolve(y, Fraction(w), Cents(st))
    BY <1>14 DEF y
  <2> DEFINE q == Fraction(w)
  <2> HIDE DEF q, u
  <2> QED BY <2>5, <2>6, <2>7, <2>8, <2>9 DEF q, Resolve
<1> QED BY <1>9, <1>13, <1>14, <1>15

LEMMA LiveFinite == IsFiniteSet(LiveLines) /\ LiveLines \subseteq LineNums
  BY PricingAssumption, FS_Subset DEF LiveLines

LiveIn(rows) == {n \in LineNums : rows[n].st = "live"}

LEMMA HeldIsKept == PricingTyped => Holds(Held, lines, LiveLines)
  BY LiveFinite, LoadedIsKept DEF PricingTyped, Holds, Held, LiveLines

(* A request that recalculates the totals from the lines it stores, or from *)
(* lines that their columns do not keep.                                   *)
LEMMA TotalsRecomputed ==
  ASSUME NEW h \in HeaderInMemory, NEW kept, NEW rows \in [LineNums -> LineRow], NEW exact,
         Lined(kept), exact => Holds(kept, rows, LiveIn(rows)), ~lossy' => Loads(rows),
         lossy' \in BOOLEAN,
         header' = HeaderRow(Recalculated(h, kept)), lines' = rows, Followed(exact)
  PROVE  PricingInv'
<1>1. Recalculated(h, kept) \in HeaderInMemory
  BY RecalculatedRow
<1>2. header' \in OrderRow /\ header'.st = "live"
  BY <1>1, HeaderRowType
<1>3. exact => Totals(header', rows, LiveIn(rows), 0)
  BY RecalculatedTotals
<1>4. LiveLines' = LiveIn(rows) /\ patches' = 0 /\ stale' = ~exact
  BY DEF LiveLines, LiveIn, Followed
<1>5. StoredOrdersLoad'
  BY DEF StoredOrdersLoad, Loads
<1>6. TotalsFollowLines'
  BY <1>3, <1>4 DEF TotalsFollowLines, Totals, Gross, Discount, Tax, Net
<1>7. PricingTyped'
  BY <1>2, <1>4 DEF PricingTyped
<1> QED BY <1>5, <1>6, <1>7 DEF PricingInv, PricesHold

(* A request that leaves the totals behind its lines.                      *)
LEMMA TotalsLeft ==
  ASSUME PricingTyped, NEW h \in HeaderInMemory, NEW rows \in [LineNums -> LineRow], Loads(rows),
         header' = HeaderRow(h), lines' = rows, stale' = TRUE, UNCHANGED <<patches, lossy>>
  PROVE  PricingInv'
<1>1. header' \in OrderRow /\ header'.st = "live"
  BY HeaderRowType
<1>2. StoredOrdersLoad'
  BY DEF StoredOrdersLoad, Loads
<1>3. TotalsFollowLines'
  BY DEF TotalsFollowLines
<1>4. PricingTyped'
  BY <1>1 DEF PricingTyped
<1> QED BY <1>2, <1>3, <1>4 DEF PricingInv, PricesHold

LEMMA RowsType ==
  ASSUME lines \in [LineNums -> LineRow], NEW l \in LineInMemory, NEW ns
  PROVE  /\ RowsWith(ns, l) \in [LineNums -> LineRow] /\ Erased(ns) \in [LineNums -> LineRow]
         /\ \A n \in LineNums : RowsWith(ns, l)[n] = IF n \in ns THEN RowOf(l) ELSE lines[n]
         /\ \A n \in LineNums : Erased(ns)[n] = IF n \in ns THEN NoLine ELSE lines[n]
  BY RowType DEF RowsWith, Erased, NoLine, LineRow

LEMMA CreateHolds == PricingInv /\ Create => PricingInv'
<1> SUFFICES ASSUME PricingInv, Create PROVE PricingInv'
  OBVIOUS
<1>1. PICK r \in NewLineRequests, d \in Discounts :
        LET line == NewLine(r)
            asked == [ok |-> d.type = "PERCENT" => d.value <= Grain * Fine,
                      percent |-> PercentOf(d, Fraction(0)),
                      discount |-> AmountOf(d, Cents(0)), tax |-> 0, base |-> 0,
                      subtotal |-> 0, linesDiscount |-> 0]
            h == Recalculated(asked, [n \in {1} |-> line])
        IN  /\ Requested /\ line.ok /\ h.ok
            /\ header' = HeaderRow(h) /\ lines' = RowsWith({1}, line)
            /\ lossy' = ~Kept(r) /\ Followed(Exact(r))
  BY DEF Create
<1> DEFINE line == NewLine(r)
           asked == [ok |-> d.type = "PERCENT" => d.value <= Grain * Fine,
                     percent |-> PercentOf(d, Fraction(0)),
                     discount |-> AmountOf(d, Cents(0)), tax |-> 0, base |-> 0,
                     subtotal |-> 0, linesDiscount |-> 0]
           kept == [n \in {1} |-> line]
           rows == RowsWith({1}, line)
<1>2. asked \in HeaderInMemory
  <2>1. (d.type = "PERCENT" => d.value <= Grain * Fine) \in BOOLEAN
    OBVIOUS
  <2> QED BY <2>1, DiscountTypes DEF HeaderInMemory
<1>3. r \in LineRequests /\ line \in LineInMemory /\ (Kept(r) => Loaded(RowOf(line)).ok)
  BY <1>1, NewLineType, NewLineLoads DEF NewLineRequests
<1>4. lines \in [LineNums -> LineRow] /\ LiveLines = {} /\ 1 \in LineNums
  BY PricingAssumption DEF PricingInv, PricingTyped, Create, OrderRow
<1>5. Exact(r) => Keeps(RowOf(line), line)
  BY <1>3, ExactIsKept
<1>6. lossy' = ~Kept(r)
  BY <1>1
<1> HIDE DEF line
<1>7. rows \in [LineNums -> LineRow] /\ rows[1] = RowOf(line)
      /\ \A n \in LineNums \ {1} : rows[n] = lines[n]
  BY <1>3, <1>4, RowsType
<1> HIDE DEF rows, asked
<1>8. LiveIn(rows) = {1}
  BY <1>4, <1>7 DEF LiveIn, LiveLines, RowOf
<1>9. Lined(kept) /\ (Exact(r) => Holds(kept, rows, LiveIn(rows)))
  <2>1. IsFiniteSet({1}) /\ DOMAIN kept = {1} /\ kept[1] = line
    BY FS_Singleton
  <2> HIDE DEF kept
  <2> QED BY <1>3, <1>5, <1>7, <1>8, <2>1 DEF Holds, Lined
<1>10. ~lossy' => Loads(rows)
  BY <1>3, <1>4, <1>6, <1>7 DEF Loads, LiveLines
<1>11. /\ header' = HeaderRow(Recalculated(asked, kept)) /\ lines' = rows
       /\ Followed(Exact(r)) /\ lossy' \in BOOLEAN
  BY <1>1, <1>6 DEF line, asked, rows
<1> HIDE DEF kept
<1> QED BY <1>2, <1>7, <1>9, <1>10, <1>11, TotalsRecomputed

LEMMA WithALine ==
  ASSUME NEW kept, NEW rows, NEW D, Holds(kept, rows, D),
         NEW n, NEW l \in LineInMemory, NEW more,
         \A m \in D \ {n} : more[m] = rows[m]
  PROVE  /\ Lined(With(kept, n, l))
         /\ Keeps(more[n], l) => Holds(With(kept, n, l), more, D \cup {n})
<1>1. IsFiniteSet(D \cup {n})
  BY FS_AddElement DEF Holds
<1>2. DOMAIN With(kept, n, l) = D \cup {n}
  BY DEF With, Holds
<1>3. ASSUME NEW m \in D \cup {n}
      PROVE  /\ With(kept, n, l)[m] \in LineInMemory
             /\ Keeps(more[n], l) => Keeps(more[m], With(kept, n, l)[m])
  BY DEF With, Holds, Keeps
<1> QED BY <1>1, <1>2, <1>3 DEF Holds, Lined

LEMMA WithoutLines ==
  ASSUME NEW kept, NEW rows, NEW D, Holds(kept, rows, D), NEW gone, NEW fewer,
         \A m \in D \ gone : fewer[m] = rows[m]
  PROVE  Holds(Without(kept, gone), fewer, D \ gone)
<1>1. IsFiniteSet(D \ gone)
  BY FS_Subset DEF Holds
<1> QED BY <1>1 DEF Holds, Without

LEMMA AddHolds == PricingInv /\ AddLine => PricingInv'
<1> SUFFICES ASSUME PricingInv, AddLine PROVE PricingInv'
  OBVIOUS
<1>1. PICK n \in LineNums \ LiveLines, r \in NewLineRequests :
        LET line == AddedLine(r)
        IN  /\ Placed /\ line.ok
            /\ Update(Recalculated(LoadedHeader, With(Held, n, line)), RowsWith({n}, line))
            /\ Followed(Exact(r))
  BY DEF AddLine
<1> DEFINE line == AddedLine(r)
           kept == With(Held, n, line)
           rows == RowsWith({n}, line)
<1>2. /\ Loads(rows) /\ header' = HeaderRow(Recalculated(LoadedHeader, kept))
      /\ lines' = rows /\ Followed(Exact(r)) /\ UNCHANGED lossy
  BY <1>1 DEF Update, ReadBack, Placed
<1>3. PricingTyped /\ lines \in [LineNums -> LineRow] /\ lossy' \in BOOLEAN
  BY <1>2 DEF PricingInv, PricingTyped
<1>4. line \in LineInMemory /\ (Exact(r) => Keeps(RowOf(line), line))
  BY NewLineType, ExactIsKept DEF NewLineRequests
<1> HIDE DEF line
<1>5. rows \in [LineNums -> LineRow] /\ rows[n] = RowOf(line)
      /\ \A m \in LineNums \ {n} : rows[m] = lines[m]
  BY <1>3, <1>4, RowsType
<1> HIDE DEF rows
<1>6. LiveIn(rows) = LiveLines \cup {n}
  BY <1>5 DEF LiveIn, LiveLines, RowOf
<1>7. Lined(kept) /\ (Exact(r) => Holds(kept, rows, LiveIn(rows)))
  <2>1. Holds(Held, lines, LiveLines)
    BY <1>3, HeldIsKept
  <2>2. \A m \in LiveLines \ {n} : rows[m] = lines[m]
    BY <1>5, LiveFinite
  <2>3. /\ Lined(With(Held, n, line))
        /\ Keeps(rows[n], line) => Holds(With(Held, n, line), rows, LiveLines \cup {n})
    BY <1>4, <2>1, <2>2, WithALine
  <2> QED BY <1>4, <1>5, <1>6, <2>3
<1> HIDE DEF kept
<1> QED BY <1>2, <1>3, <1>5, <1>7, LoadedHeaderType, TotalsRecomputed

LEMMA DeleteHolds == PricingInv /\ DeleteLine => PricingInv'
<1> SUFFICES ASSUME PricingInv, DeleteLine PROVE PricingInv'
  OBVIOUS
<1>1. PICK n \in LiveLines :
        /\ Placed
        /\ Update(Recalculated(LoadedHeader, Without(Held, {n})), Erased({n}))
        /\ Followed(TRUE)
  BY DEF DeleteLine
<1> DEFINE kept == Without(Held, {n})
           rows == Erased({n})
<1>2. /\ Loads(rows) /\ header' = HeaderRow(Recalculated(LoadedHeader, kept))
      /\ lines' = rows /\ Followed(TRUE) /\ UNCHANGED lossy
  BY <1>1 DEF Update, ReadBack, Placed
<1>3. PricingTyped /\ lines \in [LineNums -> LineRow] /\ lossy' \in BOOLEAN
  BY <1>2 DEF PricingInv, PricingTyped
<1>4. PICK l \in LineInMemory : TRUE
  BY <1>3, LoadedType, PricingAssumption
<1>5. rows \in [LineNums -> LineRow] /\ rows[n] = NoLine
      /\ \A m \in LineNums \ {n} : rows[m] = lines[m]
  BY <1>3, <1>4, RowsType, LiveFinite
<1> HIDE DEF rows
<1>6. LiveIn(rows) = LiveLines \ {n}
  BY <1>5, LiveFinite DEF LiveIn, LiveLines, NoLine
<1>7. Holds(kept, rows, LiveIn(rows)) /\ Lined(kept)
  <2>1. Holds(kept, rows, LiveIn(rows))
    BY <1>3, <1>5, <1>6, HeldIsKept, LiveFinite, WithoutLines
  <2> QED BY <2>1, HoldsLines
<1> HIDE DEF kept
<1> QED BY <1>2, <1>3, <1>5, <1>7, LoadedHeaderType, TotalsRecomputed

LEMMA UpdateLineHolds == PricingInv /\ UpdateLine => PricingInv'
<1> SUFFICES ASSUME PricingInv, UpdateLine PROVE PricingInv'
  OBVIOUS
<1>1. PICK n \in LiveLines, price \in UnitPrices \cup {NotGiven},
           qty \in Quantities \cup {NotGiven}, d \in Discounts, tax \in Percents \cup {NotGiven} :
        LET l0 == Loaded(lines[n])
            l1 == IF price = NotGiven THEN l0 ELSE Repriced(l0, l0.qty, price)
            l2 == IF qty = NotGiven THEN l1 ELSE Repriced(l1, qty, l1.price)
            l3 == IF d.type = "NONE" THEN l2
                  ELSE Discounted(l2, PercentOf(d, NotGiven), AmountOf(d, NotGiven))
            l4 == IF tax = NotGiven THEN l3 ELSE Taxed(l3, Given(tax))
        IN  /\ Placed /\ l4.ok
            /\ Update(LoadedHeader, RowsWith({n}, l4))
            /\ stale' = TRUE /\ UNCHANGED patches
  BY DEF UpdateLine
<1> DEFINE l0 == Loaded(lines[n])
           l1 == IF price = NotGiven THEN l0 ELSE Repriced(l0, l0.qty, price)
           l2 == IF qty = NotGiven THEN l1 ELSE Repriced(l1, qty, l1.price)
           l3 == IF d.type = "NONE" THEN l2
                 ELSE Discounted(l2, PercentOf(d, NotGiven), AmountOf(d, NotGiven))
           l4 == IF tax = NotGiven THEN l3 ELSE Taxed(l3, Given(tax))
           rows == RowsWith({n}, l4)
<1>2. Update(LoadedHeader, rows) /\ stale' = TRUE /\ UNCHANGED <<patches, lossy>>
  <2> HIDE DEF l4
  <2>1. /\ Update(LoadedHeader, RowsWith({n}, l4)) /\ stale' = TRUE
        /\ UNCHANGED <<patches, lossy>>
    BY <1>1 DEF l4, Placed
  <2> QED BY <2>1
<1>3. PricingTyped /\ lines \in [LineNums -> LineRow] /\ n \in LineNums
  BY LiveFinite DEF PricingInv, PricingTyped
<1>4. l0 \in LineInMemory
  BY <1>3, LoadedType
<1> HIDE DEF l0
<1>5. l1 \in LineInMemory
  BY <1>4, RepricedType, RequestTypes DEF LineInMemory
<1> HIDE DEF l1
<1>6. l2 \in LineInMemory
  <2>1. l1.price \in Int
    BY <1>5 DEF LineInMemory
  <2> QED BY <1>5, <2>1, RepricedType, RequestTypes
<1> HIDE DEF l2
<1>7. l3 \in LineInMemory
  BY <1>6, DiscountedType, DiscountTypes
<1> HIDE DEF l3
<1>8. l4 \in LineInMemory
  BY <1>7, TaxedType, GivenType, RequestTypes
<1> HIDE DEF l4
<1>9. rows \in [LineNums -> LineRow]
  BY <1>3, <1>8, RowsType
<1> HIDE DEF rows
<1> QED BY <1>2, <1>3, <1>9, LoadedHeaderType, TotalsLeft DEF Update, ReadBack

(* The amounts of the header, two of them written again, still add up to   *)
(* what they did, but for a cent.                                          *)
LEMMA OneCentOff ==
  ASSUME NEW c \in Int, NEW t \in Int, NEW x \in Int
  PROVE  Distance(Stored(Cents(c) - x + Cents(t)) + Stored(x) - t, c) <= 1
<1>1. Cents(c) \in Int /\ Cents(t) \in Int /\ Cents(c) = c * Unit
  BY CentsType DEF Cents
<1> DEFINE b == Cents(c)
           w == Cents(t)
           y == Stored(b - x + w) + Stored(x) - t
<1>2. b \in Int /\ w \in Int /\ 0 \in Int /\ -0 <= 2 * b - 2 * b /\ 2 * b - 2 * b <= 0
  BY <1>1
<1> HIDE DEF b, w
<1>3. y \in Int
  <2>1. b - x + w \in Int
    BY <1>2
  <2> QED BY <2>1, StoredNear
<1>4. 2 * Distance(Cents(y), b) <= 3 * Unit + 0
  <2>1. 2 * Distance(Cents(Stored(b - x + w) + Stored(x) - Stored(w)), b) <= 3 * Unit + 0
    BY <1>2, TotalNear
  <2> QED BY <2>1, StoredCents DEF w
<1> HIDE DEF y
<1>5. Cents(y) \in Int /\ Unit \in Int /\ 2 * Cents(y) - 2 * b = (2 * y - 2 * c) * Unit
  BY <1>3, UnitPositive DEF Cents, b
<1>6. (2 * y - 2 * c) * Unit <= 3 * Unit /\ (-3) * Unit <= (2 * y - 2 * c) * Unit
  BY <1>2, <1>4, <1>5 DEF Distance
<1>7. 2 * y - 2 * c <= 3 /\ -3 <= 2 * y - 2 * c
  BY <1>3, <1>6, Cancel
<1>8. Distance(y, c) <= 1
  BY <1>3, <1>7 DEF Distance
<1> QED BY <1>8 DEF y, b, w

LEMMA UpdateHeaderHolds == PricingInv /\ UpdateHeader => PricingInv'
<1> SUFFICES ASSUME PricingInv, UpdateHeader PROVE PricingInv'
  OBVIOUS
<1>1. PICK d \in Discounts :
        /\ Placed /\ Update(SetDiscount(LoadedHeader, d.type, d.value), lines)
        /\ patches' = patches + 1 /\ UNCHANGED stale
  BY DEF UpdateHeader
<1> DEFINE h == SetDiscount(LoadedHeader, d.type, d.value)
           c == header.total + header.dAmount - header.tax
<1>2. /\ header' = HeaderRow(h) /\ UNCHANGED <<lines, lossy>> /\ Loads(lines) /\ header.st = "live"
  BY <1>1 DEF Update, ReadBack, Placed
<1>3. /\ PricingTyped /\ patches \in Nat /\ c \in Int
      /\ header.tax \in Int /\ header.subtotal \in Int /\ header.linesDiscount \in Int
  BY DEF PricingInv, PricingTyped, OrderRow
<1>4. h \in HeaderInMemory
  BY <1>3, LoadedHeaderType, SetDiscountType
<1>5. /\ h.base = Cents(c) /\ h.tax = Cents(header.tax)
      /\ h.subtotal = Cents(header.subtotal) /\ h.linesDiscount = Cents(header.linesDiscount)
  <2>1. /\ LoadedHeader.base = Cents(c) /\ LoadedHeader.tax = Cents(header.tax)
        /\ LoadedHeader.subtotal = Cents(header.subtotal)
        /\ LoadedHeader.linesDiscount = Cents(header.linesDiscount)
    BY DEF LoadedHeader
  <2>2. /\ h.base = LoadedHeader.base /\ h.tax = LoadedHeader.tax
        /\ h.subtotal = LoadedHeader.subtotal
        /\ h.linesDiscount = LoadedHeader.linesDiscount
    BY <1>3, LoadedHeaderType, SetDiscountType
  <2> QED BY <2>1, <2>2
<1> HIDE DEF h, c
<1>6. h.discount \in Int
  BY <1>4 DEF HeaderInMemory
<1>7. /\ header'.subtotal = header.subtotal /\ header'.linesDiscount = header.linesDiscount
      /\ header'.tax = header.tax
      /\ header'.dAmount = Stored(h.discount)
      /\ header'.total = Stored(Cents(c) - h.discount + Cents(header.tax))
  BY <1>2, <1>3, <1>5, StoredCents DEF HeaderRow
<1>8. /\ Distance(header'.total + header'.dAmount - header'.tax, c) <= 1
      /\ header'.total \in Int /\ header'.dAmount \in Int
  <2>1. Cents(c) - h.discount + Cents(header.tax) \in Int
    BY <1>3, <1>6, CentsType
  <2> QED BY <1>3, <1>6, <1>7, <2>1, OneCentOff, StoredNear
<1>9. header' \in OrderRow /\ header'.st = "live"
  BY <1>2, <1>4, HeaderRowType
<1>10. PricingTyped'
  BY <1>1, <1>2, <1>3, <1>9 DEF PricingTyped
<1>11. StoredOrdersLoad'
  BY <1>2 DEF StoredOrdersLoad, Loads
<1>12. TotalsFollowLines'
  <2>1. CASE stale
    BY <1>1, <2>1 DEF TotalsFollowLines
  <2>2. CASE ~stale
    <3> DEFINE N == SumFunction(Net(lines, LiveLines))
               k == Cardinality(LiveLines)
    <3>1. Totals(header, lines, LiveLines, patches)
      BY <1>2, <2>2, TotalsMean DEF PricingInv, PricesHold
    <3>2. N \in Int /\ k \in Int
      <4>1. \A n \in LiveLines : Net(lines, LiveLines)[n] \in Int
        <5> TAKE n \in LiveLines
        <5>1. Keeps(lines[n], Loaded(lines[n]))
          BY <1>3, LiveFinite, LoadedIsKept DEF PricingTyped
        <5> QED BY <5>1, LineNear DEF Net
      <4>2. DOMAIN Net(lines, LiveLines) = LiveLines /\ LiveLines \in SUBSET LiveLines
        BY DEF Net
      <4> QED BY <4>1, <4>2, LiveFinite, FS_CardinalityType, SumType DEF SumFunction
    <3>3. 2 * Distance(Cents(c), N) <= Cents(2 * k + 3 + 2 * patches)
      BY <3>1 DEF Totals, c
    <3> HIDE DEF N, k
    <3> DEFINE y == header'.total + header'.dAmount - header'.tax
    <3>4. 2 * Distance(Cents(y), N) <= Cents(2 * k + 3 + 2 * (patches + 1))
      <4>1. y \in Int /\ y - c <= 1 /\ c - y <= 1
        BY <1>3, <1>7, <1>8 DEF Distance
      <4> HIDE DEF y
      <4>2. /\ Cents(y) \in Int /\ Cents(c) \in Int /\ Unit \in Int
            /\ Cents(y) - Cents(c) <= Unit /\ Cents(c) - Cents(y) <= Unit
        <5>1. (1 - (y - c)) * Unit >= 0 /\ (1 - (c - y)) * Unit >= 0
          BY <1>3, <4>1, UnitPositive
        <5>2. /\ (1 - (y - c)) * Unit = Unit - Cents(y) + Cents(c)
              /\ (1 - (c - y)) * Unit = Unit - Cents(c) + Cents(y)
          BY <1>3, <4>1, UnitPositive DEF Cents
        <5>3. Cents(y) \in Int /\ Cents(c) \in Int /\ Unit \in Int
          BY <1>3, <4>1, CentsType, UnitPositive
        <5> QED BY <5>1, <5>2, <5>3
      <4> DEFINE e == Cents(2 * k + 3 + 2 * patches)
      <4>3. e \in Int /\ Cents(2 * k + 3 + 2 * (patches + 1)) = e + 2 * Unit
        BY <1>3, <3>2, UnitPositive DEF Cents
      <4>4. 2 * Distance(Cents(c), N) <= e
        BY <3>3
      <4> HIDE DEF e
      <4>5. 2 * Distance(Cents(y), N) <= e + 2 * Unit
        BY <3>2, <4>2, <4>3, <4>4 DEF Distance
      <4> QED BY <4>3, <4>5
    <3>5. Totals(header', lines, LiveLines, patches + 1)
      BY <1>7, <3>1, <3>4 DEF Totals, N, k
    <3>6. LiveLines' = LiveLines
      BY <1>2 DEF LiveLines
    <3> QED BY <1>1, <1>2, <3>5, <3>6 DEF TotalsFollowLines, Totals, Gross, Discount, Tax, Net
  <2> QED BY <2>1, <2>2
<1> QED BY <1>10, <1>11, <1>12 DEF PricingInv, PricesHold

LEMMA UpdateWithLinesHolds == PricingInv /\ UpdateWithLines => PricingInv'
<1> SUFFICES ASSUME PricingInv, UpdateWithLines PROVE PricingInv'
  OBVIOUS
<1>1. PICK n \in LineNums, r \in LineRequests, d \in Discounts, gone \in SUBSET LiveLines :
        LET kept == Held
            line == NewLine(r)
            sent == n \in LiveLines
            Stay(x) == Without(kept, IF sent THEN x \cup {n} ELSE x)
            h0 == SetDiscount(LoadedHeader, d.type, d.value)
            h1 == IF gone = {} THEN h0 ELSE Recalculated(h0, Without(kept, gone))
            h2 == IF sent THEN Recalculated(h1, Stay(gone)) ELSE h1
            h3 == Recalculated(h2, With(Stay(gone), n, line))
        IN  /\ Update(h3, IF sent THEN Erased(gone \cup {n})
                          ELSE [Erased(gone) EXCEPT ![n] = RowOf(line)])
            /\ IF sent THEN stale' = TRUE /\ UNCHANGED patches ELSE Followed(Exact(r))
  BY DEF UpdateWithLines
<1> DEFINE sent == n \in LiveLines
           line == NewLine(r)
           drop == IF sent THEN gone \cup {n} ELSE gone
           kept == Without(Held, drop)
           h0 == SetDiscount(LoadedHeader, d.type, d.value)
           h1 == IF gone = {} THEN h0 ELSE Recalculated(h0, Without(Held, gone))
           h2 == IF sent THEN Recalculated(h1, kept) ELSE h1
           now == With(kept, n, line)
           rows == IF sent THEN Erased(gone \cup {n}) ELSE [Erased(gone) EXCEPT ![n] = RowOf(line)]
           inMemory == [m \in LineNums |-> IF m = n THEN RowOf(line) ELSE lines[m]]
<1>2. /\ Update(Recalculated(h2, now), rows)
      /\ IF sent THEN stale' = TRUE /\ UNCHANGED patches ELSE Followed(Exact(r))
  BY <1>1
<1>3. PricingTyped /\ UNCHANGED lossy /\ lossy' \in BOOLEAN /\ lines \in [LineNums -> LineRow] /\ LiveLines \subseteq LineNums
  BY LiveFinite DEF PricingInv, PricingTyped, UpdateWithLines, Placed
<1>4. /\ line \in LineInMemory /\ RowOf(line) \in LineRow
      /\ Exact(r) => Keeps(RowOf(line), line)
  BY NewLineType, RowType, ExactIsKept
<1> HIDE DEF line
<1>5. Holds(Without(Held, gone), lines, LiveLines \ gone)
  BY <1>3, HeldIsKept, WithoutLines
<1>6. Holds(kept, lines, LiveLines \ drop)
  BY <1>3, HeldIsKept, WithoutLines
<1>7. Lined(now) /\ (Exact(r) => Holds(now, inMemory, (LiveLines \ drop) \cup {n}))
  <2>1. inMemory[n] = RowOf(line) /\ \A m \in (LiveLines \ drop) \ {n} : inMemory[m] = lines[m]
    BY <1>3
  <2> HIDE DEF inMemory, kept, drop
  <2> QED BY <1>4, <1>6, <2>1, WithALine
<1> HIDE DEF kept, now
<1>8. h0 \in HeaderInMemory
  BY <1>3, LoadedHeaderType, SetDiscountType
<1> HIDE DEF h0
<1>9. h1 \in HeaderInMemory
  BY <1>5, <1>8, HoldsLines, RecalculatedRow
<1> HIDE DEF h1
<1>10. h2 \in HeaderInMemory
  BY <1>6, <1>9, HoldsLines, RecalculatedRow
<1> HIDE DEF h2
<1>11. /\ header' = HeaderRow(Recalculated(h2, now)) /\ lines' = rows /\ Loads(rows)
  BY <1>2 DEF Update, ReadBack
<1>12. Recalculated(h2, now) \in HeaderInMemory
  BY <1>7, <1>10, RecalculatedRow
<1>13. CASE sent
  <2>1. rows \in [LineNums -> LineRow]
    BY <1>3, <1>4, <1>13, RowsType
  <2> HIDE DEF rows
  <2> QED BY <1>2, <1>3, <1>11, <1>12, <1>13, <2>1, TotalsLeft
<1>14. CASE ~sent
  <2>1. /\ Erased(gone) \in [LineNums -> LineRow]
        /\ \A m \in LineNums : Erased(gone)[m] = IF m \in gone THEN NoLine ELSE lines[m]
    BY <1>3, <1>4, RowsType
  <2>2. /\ rows \in [LineNums -> LineRow] /\ rows[n] = RowOf(line)
        /\ \A m \in LineNums \ {n} : rows[m] = IF m \in gone THEN NoLine ELSE lines[m]
    BY <1>4, <1>14, <2>1
  <2> HIDE DEF rows
  <2>3. LiveIn(rows) = (LiveLines \ gone) \cup {n} /\ drop = gone
    BY <1>14, <2>2 DEF LiveIn, LiveLines, RowOf, NoLine
  <2>4. \A m \in LiveIn(rows) : rows[m] = inMemory[m]
    BY <1>3, <2>2, <2>3
  <2> HIDE DEF inMemory, drop
  <2>5. Exact(r) => Holds(now, rows, LiveIn(rows))
    BY <1>7, <2>3, <2>4 DEF Holds
  <2> QED BY <1>2, <1>3, <1>7, <1>10, <1>11, <1>14, <2>2, <2>5, TotalsRecomputed
<1> QED BY <1>13, <1>14

LEMMA PricingStart == PricingInit => PricingInv
<1> SUFFICES ASSUME PricingInit PROVE PricingInv
  OBVIOUS
<1>1. NoLine \in LineRow /\ NoLine.st = "free" /\ NoHeader \in OrderRow /\ NoHeader.st = "free"
  BY DEF NoLine, LineRow, NoHeader, OrderRow
<1>2. /\ header = NoHeader /\ lines = [n \in LineNums |-> NoLine]
      /\ stale = FALSE /\ lossy = FALSE /\ patches = 0
  BY DEF PricingInit
<1> HIDE DEF NoLine, NoHeader
<1>3. LiveLines = {}
  BY <1>1, <1>2 DEF LiveLines
<1>4. PricingTyped
  BY <1>1, <1>2, <1>3 DEF PricingTyped
<1>5. StoredOrdersLoad /\ TotalsFollowLines
  BY <1>1, <1>2 DEF StoredOrdersLoad, TotalsFollowLines
<1> QED BY <1>4, <1>5 DEF PricingInv, PricesHold

LEMMA PricingStep == PricingInv /\ [PricingNext]_pricingVars => PricingInv'
<1> SUFFICES ASSUME PricingInv, [PricingNext]_pricingVars PROVE PricingInv'
  OBVIOUS
<1>1. CASE UNCHANGED pricingVars
  BY <1>1 DEF pricingVars, PricingInv, PricingTyped, PricesHold, StoredOrdersLoad,
     TotalsFollowLines, LiveLines, Loads
<1> QED
  BY <1>1, CreateHolds, AddHolds, UpdateLineHolds, UpdateHeaderHolds, DeleteHolds,
     UpdateWithLinesHolds DEF PricingNext

(* For any lines, quantities, prices, percentages and decimals of a request: *)
(* every stored order loads again that was not created with more decimals    *)
(* than its columns keep, and its totals are those of its lines up to the    *)
(* rounding, until a line is changed on its own.                             *)
THEOREM TotalsHold == PricingSpec => []PricesHold
<1>1. PricingInv => PricesHold
  BY DEF PricingInv
<1> QED BY <1>1, PricingStart, PricingStep, PTL DEF PricingSpec

(***************************************************************************)
(* Lists.                                                                  *)
(***************************************************************************)
ListingSpec == NoWalkYet /\ ListingTyped /\ [][ListingNext]_listVars

LEMMA SortedMeans ==
  ASSUME NEW S \in SUBSET RowIds, NEW by, NEW q \in Sorted(S, by)
  PROVE  /\ IsFiniteSet(S) /\ Cardinality(S) \in Nat
         /\ q \in [1..Cardinality(S) -> S]
         /\ q \in Seq(RowIds) /\ Len(q) = Cardinality(S)
         /\ \A i, j \in 1..Cardinality(S) : i # j => q[i] # q[j]
         /\ \A i, j \in 1..Cardinality(S) : i < j => ~Precedes(q[j], q[i], by)
         /\ \A x \in S : \E i \in 1..Cardinality(S) : q[i] = x
<1> DEFINE n == Cardinality(S)
<1>1. IsFiniteSet(S) /\ n \in Nat
  BY ListingAssumption, FS_Subset, FS_CardinalityType
<1>2. q \in [1..n -> S] /\ \A i, j \in 1..n : i # j => q[i] # q[j]
  BY DEF Sorted, SetToSeqs
<1>3. \A i, j \in 1..n : i < j => ~Precedes(q[j], q[i], by)
  BY <1>2 DEF Sorted
<1>4. q \in [1..n -> RowIds]
  BY <1>2
<1>5. q \in Seq(RowIds) /\ Len(q) = n
  <2> HIDE DEF n
  <2>1. q \in Seq(RowIds)
    BY <1>1, <1>4, SeqDef
  <2>2. DOMAIN q = 1..n /\ DOMAIN q = 1..Len(q) /\ Len(q) \in Nat
    BY <1>4, <2>1, LenProperties
  <2> QED BY <1>1, <2>1, <2>2
<1>6. q \in Surjection(1..n, S)
  <2>1. q \in Injection(1..n, S)
    BY <1>2 DEF Injection, IsInjective
  <2>2. Cardinality(1..n) = n
    BY <1>1, FS_Interval
  <2> QED BY <1>1, <2>1, <2>2, FS_Injection
<1>7. \A x \in S : \E i \in 1..n : q[i] = x
  BY <1>6 DEF Surjection
<1> QED BY <1>1, <1>2, <1>3, <1>5, <1>7

(* Where the sort tells all rows apart, they have one order.               *)
LEMMA OneOrder ==
  ASSUME NEW S \in SUBSET RowIds, NEW by,
         \A x, y \in S : x = y \/ Precedes(x, y, by) \/ Precedes(y, x, by),
         NEW q \in Sorted(S, by), NEW r \in Sorted(S, by)
  PROVE  q = r
<1> DEFINE n == Cardinality(S)
           B == {i \in 1..n : q[i] # r[i]}
<1>1. /\ n \in Nat
      /\ q \in [1..n -> S] /\ r \in [1..n -> S]
      /\ \A i, j \in 1..n : i # j => q[i] # q[j] /\ r[i] # r[j]
      /\ \A i, j \in 1..n : i < j => ~Precedes(q[j], q[i], by) /\ ~Precedes(r[j], r[i], by)
      /\ \A x \in S : \E i \in 1..n : q[i] = x
      /\ \A x \in S : \E i \in 1..n : r[i] = x
  BY SortedMeans
<1> HIDE DEF n
<1> SUFFICES ASSUME B # {} PROVE FALSE
  <2>1. \A i \in 1..n : q[i] = r[i]
    OBVIOUS
  <2> QED BY <1>1, <2>1
<1>2. PICK m \in B : \A i \in B : m <= i
  <2>1. B \subseteq Nat
    BY <1>1
  <2> HIDE DEF B
  <2> QED BY <2>1, MinOfNat
<1>3. m \in 1..n /\ q[m] # r[m]
  OBVIOUS
<1>4. \A i \in 1..n : i < m => q[i] = r[i]
  BY <1>1, <1>2, <1>3
<1>5. PICK j \in 1..n : q[j] = r[m]
  BY <1>1, <1>3
<1>6. PICK k \in 1..n : r[k] = q[m]
  BY <1>1, <1>3
<1>7. m < j
  <2>1. j # m
    BY <1>3, <1>5
  <2>2. ASSUME j < m PROVE FALSE
    <3>1. q[j] = r[j]
      BY <1>4, <2>2
    <3>2. r[j] # r[m]
      BY <1>1, <1>3, <2>1
    <3> QED BY <1>5, <3>1, <3>2
  <2>3. j \in Int /\ m \in Int
    BY <1>1, <1>3
  <2> QED BY <2>1, <2>2, <2>3
<1>8. m < k
  <2>1. k # m
    BY <1>3, <1>6
  <2>2. ASSUME k < m PROVE FALSE
    <3>1. q[k] = r[k]
      BY <1>4, <2>2
    <3>2. q[k] # q[m]
      BY <1>1, <1>3, <2>1
    <3> QED BY <1>3, <1>6, <3>1, <3>2
  <2>3. k \in Int /\ m \in Int
    BY <1>1, <1>3
  <2> QED BY <2>1, <2>2, <2>3
<1>9. ~Precedes(r[m], q[m], by) /\ ~Precedes(q[m], r[m], by)
  BY <1>1, <1>3, <1>5, <1>6, <1>7, <1>8
<1> QED BY <1>1, <1>3, <1>9

(* The sort by cursor.                                                     *)
LEMMA ByKeyThenNumber ==
  ASSUME ListingTyped, NEW x \in RowIds, NEW y \in RowIds
  PROVE  /\ row[x].key \in Nat /\ row[y].key \in Nat /\ x \in Nat /\ y \in Nat
         /\ Precedes(x, y, <<"key", "num">>)
              <=> \/ row[x].key < row[y].key
                  \/ row[x].key = row[y].key /\ x < y
<1>1. row[x].key \in Nat /\ row[y].key \in Nat /\ x \in Nat /\ y \in Nat
  <2>1. \A z \in RowIds : z \in Nat
    <3>1. Cardinality(RowIds) \in Nat
      BY ListingAssumption, FS_CardinalityType
    <3>2. \A z \in 1..Cardinality(RowIds) : z \in Nat
      BY <3>1
    <3> QED BY <3>2, ListingAssumption
  <2>2. row[x].key \in Keys /\ row[y].key \in Keys
    BY DEF ListingTyped
  <2> QED BY <2>1, <2>2, ListingAssumption
<1> DEFINE by == <<"key", "num">>
<1>2. /\ Column(x, by[1]) = row[x].key /\ Column(y, by[1]) = row[y].key
      /\ Column(x, by[2]) = x /\ Column(y, by[2]) = y
      /\ DOMAIN by = 1..2
  BY DEF Column
<1>3. Precedes(x, y, by) <=> \/ Column(x, by[1]) < Column(y, by[1])
                             \/ /\ Column(x, by[2]) < Column(y, by[2])
                                /\ Column(x, by[1]) = Column(y, by[1])
  <2> HIDE DEF by
  <2>1. \A i \in DOMAIN by : i = 1 \/ i = 2
    BY <1>2
  <2>2. 1 \in DOMAIN by /\ 2 \in DOMAIN by
    BY <1>2
  <2>3. \A j : j \notin 1..(1 - 1)
    OBVIOUS
  <2>4. \A j : j \in 1..(2 - 1) <=> j = 1
    OBVIOUS
  <2> QED BY <2>1, <2>2, <2>3, <2>4 DEF Precedes
<1> QED BY <1>1, <1>2, <1>3

(* The rows of a page, and what they add to what was seen.                 *)
LEMMA UptoMeans ==
  ASSUME NEW q \in Seq(RowIds), NEW k \in Nat
  PROVE  /\ Upto(q, k) \in Seq(RowIds)
         /\ Len(Upto(q, k)) = IF k < Len(q) THEN k ELSE Len(q)
         /\ \A i \in 1..Len(Upto(q, k)) : Upto(q, k)[i] = q[i]
<1> DEFINE m == IF k < Len(q) THEN k ELSE Len(q)
<1>1. Len(q) \in Nat /\ m \in Nat /\ m <= Len(q)
  BY LenProperties
<1>2. \A i \in 1..m : q[i] \in RowIds
  BY <1>1, ElementOfSeq
<1>3. Upto(q, k) = SubSeq(q, 1, m)
  BY DEF Upto
<1> HIDE DEF m
<1>4. /\ SubSeq(q, 1, m) \in Seq(RowIds)
      /\ Len(SubSeq(q, 1, m)) = IF 1 <= m THEN m - 1 + 1 ELSE 0
      /\ \A i \in 1..(m - 1 + 1) : SubSeq(q, 1, m)[i] = q[1 + i - 1]
  BY <1>1, <1>2, SubSeqProperties
<1>5. Len(SubSeq(q, 1, m)) = m
  BY <1>1, <1>4
<1>6. \A i \in 1..m : SubSeq(q, 1, m)[i] = q[i]
  BY <1>1, <1>4
<1> QED BY <1>3, <1>4, <1>5, <1>6 DEF m

LEMMA SeenType ==
  ASSUME ListingTyped, NEW q \in Seq(RowIds)
  PROVE  /\ Seen(q) \in [RowIds -> Nat]
         /\ \A x \in RowIds :
              Seen(q)[x] = walk.seen[x] + Cardinality({i \in DOMAIN q : q[i] = x})
<1>1. Len(q) \in Nat /\ DOMAIN q = 1..Len(q)
  BY LenProperties
<1> DEFINE at(y) == {i \in DOMAIN q : q[i] = y}
<1>2. \A y \in RowIds : Cardinality(at(y)) \in Nat
  <2> TAKE y \in RowIds
  <2>1. IsFiniteSet(at(y))
    <3>1. at(y) \subseteq 1..Len(q) /\ IsFiniteSet(1..Len(q))
      BY <1>1, FS_Interval
    <3> HIDE DEF at
    <3> QED BY <3>1, FS_Subset
  <2> HIDE DEF at
  <2> QED BY <2>1, FS_CardinalityType
<1>3. Seen(q) = [y \in RowIds |-> walk.seen[y] + Cardinality(at(y))]
  BY DEF Seen
<1>4. \A y \in RowIds : Seen(q)[y] = walk.seen[y] + Cardinality(at(y))
  BY <1>3
<1>5. \A y \in RowIds : walk.seen[y] \in Nat
  BY DEF ListingTyped
<1>6. \A y \in RowIds : walk.seen[y] + Cardinality(at(y)) \in Nat
  <2> HIDE DEF at
  <2> QED BY <1>2, <1>5
<1>7. Seen(q) \in [RowIds -> Nat]
  <2> HIDE DEF at
  <2> QED BY <1>3, <1>6
<1> QED BY <1>4, <1>7

LEMMA SeenOnce ==
  ASSUME ListingTyped, NEW q \in Seq(RowIds), NEW i \in 1..Len(q),
         \A j \in 1..Len(q) : i # j => q[i] # q[j]
  PROVE  Seen(q)[q[i]] = walk.seen[q[i]] + 1
<1>1. Len(q) \in Nat /\ DOMAIN q = 1..Len(q) /\ q[i] \in RowIds
  BY LenProperties, ElementOfSeq
<1>2. {j \in DOMAIN q : q[j] = q[i]} = {i}
  BY <1>1
<1>3. Cardinality({j \in DOMAIN q : q[j] = q[i]}) = 1
  BY <1>2, FS_Singleton
<1> QED BY <1>1, <1>3, SeenType

LEMMA NotSeen ==
  ASSUME ListingTyped, NEW q \in Seq(RowIds), NEW x \in RowIds,
         \A i \in 1..Len(q) : q[i] # x
  PROVE  Seen(q)[x] = walk.seen[x]
<1>1. Len(q) \in Nat /\ DOMAIN q = 1..Len(q)
  BY LenProperties
<1>2. {j \in DOMAIN q : q[j] = x} = {}
  BY <1>1
<1>3. Cardinality({j \in DOMAIN q : q[j] = x}) = 0
  BY <1>2, FS_EmptySet
<1>4. walk.seen[x] \in Nat
  BY DEF ListingTyped
<1> QED BY <1>3, <1>4, SeenType

\* What is left of n elements, cut after k + t of them and then before k.
LEMMA CutLength ==
  ASSUME NEW k \in Nat, NEW t \in Nat, NEW n \in Nat, NEW m, NEW l,
         m = IF k + t < n THEN k + t ELSE n,
         l = IF k + 1 <= m THEN m - (k + 1) + 1 ELSE 0
  PROVE  l \in Nat /\ l = IF k + t < n THEN t ELSE IF k < n THEN n - k ELSE 0
<1>1. CASE k + t < n
  BY <1>1
<1>2. CASE ~(k + t < n)
  BY <1>2
<1> QED BY <1>1, <1>2

(* A page cut from an order of the rows.                                   *)
LEMMA PageMeans ==
  ASSUME NEW q \in Seq(RowIds), walk.limit # NoValue,
         NEW skip \in Nat, skip = SkipOf(walk.page, Take), Take \in Nat
  PROVE  LET n == Len(PageOf(q))
         IN  /\ PageOf(q) \in Seq(RowIds) /\ n \in Nat
             /\ n = IF skip + Take < Len(q) THEN Take
                    ELSE IF skip < Len(q) THEN Len(q) - skip ELSE 0
             /\ \A i \in 1..n : skip + i \in 1..Len(q) /\ PageOf(q)[i] = q[skip + i]
<1> DEFINE p == Upto(q, skip + Take)
           m == Len(p)
           s == SubSeq(p, skip + 1, m)
<1>1. Len(q) \in Nat /\ skip + Take \in Nat
  BY LenProperties
<1>2. /\ p \in Seq(RowIds)
      /\ m = IF skip + Take < Len(q) THEN skip + Take ELSE Len(q)
      /\ \A i \in 1..m : p[i] = q[i]
  BY <1>1, UptoMeans
<1>3. PageOf(q) = s
  BY DEF PageOf
<1> HIDE DEF p
<1>4. m \in Nat
  BY <1>1, <1>2
<1>5. \A i \in (skip + 1)..m : p[i] \in RowIds
  BY <1>2, <1>4, ElementOfSeq
<1> HIDE DEF m
<1>6. /\ s \in Seq(RowIds)
      /\ Len(s) = IF skip + 1 <= m THEN m - (skip + 1) + 1 ELSE 0
      /\ \A i \in 1..(m - (skip + 1) + 1) : s[i] = p[skip + 1 + i - 1]
  <2>1. skip + 1 \in Int /\ m \in Int
    BY <1>4
  <2> QED BY <1>5, <2>1, SubSeqProperties
<1> HIDE DEF s
<1>7. /\ Len(s) \in Nat
      /\ Len(s) = IF skip + Take < Len(q) THEN Take
                  ELSE IF skip < Len(q) THEN Len(q) - skip ELSE 0
  <2>1. m = IF skip + Take < Len(q) THEN skip + Take ELSE Len(q)
    BY <1>2
  <2>2. Len(s) = IF skip + 1 <= m THEN m - (skip + 1) + 1 ELSE 0
    BY <1>6
  <2>3. Len(q) \in Nat /\ skip \in Nat /\ Take \in Nat
    BY <1>1
  <2> QED BY <2>1, <2>2, <2>3, CutLength
<1>8. ASSUME NEW i \in 1..Len(s)
      PROVE  skip + i \in 1..Len(q) /\ s[i] = q[skip + i]
  <2>1. i \in 1..(m - (skip + 1) + 1) /\ skip + i \in 1..m /\ skip + 1 + i - 1 = skip + i
    <3>1. i \in Int /\ 1 <= i /\ i <= Len(s)
      BY <1>7
    <3>2. Len(s) = IF skip + 1 <= m THEN m - (skip + 1) + 1 ELSE 0
      BY <1>6
    <3> QED BY <1>4, <3>1, <3>2
  <2>2. s[i] = p[skip + i]
    BY <1>6, <2>1
  <2>3. p[skip + i] = q[skip + i]
    BY <1>2, <2>1
  <2>4. skip + i \in 1..Len(q)
    BY <1>1, <1>2, <1>4, <2>1
  <2> QED BY <2>2, <2>3, <2>4
<1> QED BY <1>3, <1>6, <1>7, <1>8

-----------------------------------------------------------------------------
Orders == Sorted(Matching, walk.by)
TellsApart == \A x, y \in Matching :
  x = y \/ Precedes(x, y, walk.by) \/ Precedes(y, x, walk.by)
Passed == (walk.page - 1) * walk.limit

WalkTyped ==
  /\ walk = [at |-> walk.at, list |-> walk.list, by |-> walk.by,
             limit |-> walk.limit, page |-> walk.page, cursor |-> walk.cursor,
             rows |-> walk.rows, total |-> walk.total, start |-> walk.start,
             seen |-> walk.seen]
  /\ walk.at = "page" => walk.list \in Lists

(* A walk by cursor has returned what lies before the cursor.              *)
CursorKnows ==
  walk.at = "page" /\ walk.list = "by cursor" =>
    /\ walk.by = <<"key", "num">> /\ walk.limit \in Nat \ {0}
    /\ walk.rows = NoValue
    /\ walk.cursor # NoValue => walk.cursor \in [key: Nat, num: Nat]
    /\ \A x \in walk.start \ touched :
         /\ x \in Matching
         /\ walk.seen[x] =
              IF walk.cursor # NoValue /\ ~AfterCursor(walk.cursor, x) THEN 1 ELSE 0

(* A walk by page has returned the pages before this one, cut from the one *)
(* order there is, as long as nothing was written.                         *)
PagesPassed ==
  /\ walk.start = Matching
  /\ walk.rows # NoValue => \E q \in Orders : walk.rows = PageOf(q)
  /\ walk.total # NoValue => walk.total = Cardinality(Matching)
  /\ walk.limit = NoValue => walk.page = 1 /\ \A x \in Matching : walk.seen[x] = 0
  /\ walk.limit # NoValue /\ Take = walk.limit /\ TellsApart =>
       \A q \in Orders : \A i \in 1..Cardinality(Matching) :
         walk.seen[q[i]] = IF i <= Passed THEN 1 ELSE 0

PageKnows ==
  walk.at = "page" /\ walk.list \in ByPage =>
    /\ walk.limit = NoValue \/ walk.limit \in Nat \ {0}
    /\ walk.page \in Nat \ {0}
    /\ walk.list = "purchases" => walk.limit # NoValue
    /\ walk.rows # NoValue => walk.rows \in Seq(RowIds)
    /\ touched = {} => PagesPassed

ListInv == ListingTyped /\ WalkTyped /\ CursorKnows /\ PageKnows

LEMMA ListStart == NoWalkYet /\ ListingTyped => ListInv
  BY DEF NoWalkYet, NoWalk, ListInv, WalkTyped, CursorKnows, PageKnows

LEMMA TakeType ==
  ASSUME walk.limit \in Nat \ {0}
  PROVE  Take \in Nat \ {0}
  BY ListingAssumption DEF Take

LEMMA MaxLimitType == MaxLimit \in Nat \ {0}
  BY ListingAssumption

LEMMA MatchingRows == Matching \subseteq RowIds
  BY DEF Matching, LiveRows

(* Nothing written: the rows and their orders stay.                        *)
LEMMA SameRows ==
  ASSUME UNCHANGED row, walk'.by = walk.by
  PROVE  /\ Matching' = Matching /\ Orders' = Orders /\ TellsApart' = TellsApart
<1>1. Matching' = Matching
  BY DEF Matching, LiveRows
<1>2. \A x, y : Precedes(x, y, walk.by)' = Precedes(x, y, walk.by)
  BY DEF Precedes, Column
<1>3. Orders' = Orders
  BY <1>1, <1>2 DEF Orders, Sorted
<1>4. TellsApart' = TellsApart
  BY <1>1, <1>2 DEF TellsApart
<1> QED BY <1>1, <1>3, <1>4

LEMMA StartStep == ListInv /\ StartWalk => ListInv'
<1> SUFFICES ASSUME ListInv, StartWalk PROVE ListInv'
  OBVIOUS
<1>0. PICK list \in Lists : \E sort \in SortsOf(list), limit \in LimitsOf(list) :
        walk' = [NoWalk EXCEPT !.at = "page", !.list = list, !.limit = limit,
                               !.by = OrderBy(list, sort), !.start = Matching]
  BY DEF StartWalk
<1>1. PICK sort \in SortsOf(list), limit \in LimitsOf(list) :
        walk' = [NoWalk EXCEPT !.at = "page", !.list = list, !.limit = limit,
                               !.by = OrderBy(list, sort), !.start = Matching]
  BY <1>0
<1>2. walk' = [at |-> "page", list |-> list, by |-> OrderBy(list, sort),
               limit |-> limit, page |-> 1, cursor |-> NoValue, rows |-> NoValue,
               total |-> NoValue, start |-> Matching, seen |-> [x \in RowIds |-> 0]]
  BY <1>1 DEF NoWalk
<1>3. UNCHANGED <<row, touched, writes>>
  BY DEF StartWalk
<1>4. Matching' = Matching
  BY <1>3 DEF Matching, LiveRows
<1>5. ListingTyped' /\ WalkTyped'
  BY <1>2, <1>3, MatchingRows DEF ListInv, ListingTyped, WalkTyped
<1>6. \A n \in 1..MaxLimit : n \in Nat \ {0}
  BY ListingAssumption
<1>7. limit = NoValue \/ limit \in Nat \ {0}
  <2>2. \A n \in 1..(MaxLimit + 1) : n \in Nat \ {0}
    BY ListingAssumption
  <2>3. CASE list = "by cursor"
    BY <1>6, <2>3 DEF LimitsOf
  <2>4. CASE list # "by cursor" /\ list \in {"orders", "items", "models"}
    <3>1. LimitsOf(list) = 1..(MaxLimit + 1) \cup {NoValue}
      BY <2>4 DEF LimitsOf
    <3> QED BY <2>2, <3>1
  <2>5. CASE list # "by cursor" /\ list \notin {"orders", "items", "models"}
    <3>1. LimitsOf(list) = 1..(MaxLimit + 1)
      BY <2>5 DEF LimitsOf
    <3> QED BY <2>2, <3>1
  <2> QED BY <2>3, <2>4, <2>5
<1>8. CursorKnows'
  <2> SUFFICES ASSUME list = "by cursor" PROVE CursorKnows'
    BY <1>2 DEF CursorKnows
  <2>1. OrderBy(list, sort) = <<"key", "num">> /\ limit \in Nat \ {0}
    <3>1. sort = NoValue
      BY DEF SortsOf
    <3>2. limit \in 1..MaxLimit
      BY DEF LimitsOf
    <3>3. limit \in Nat \ {0}
      BY <1>6, <3>2
    <3>4. list \notin Built
      BY DEF Built
    <3>5. OrderBy(list, sort) = DefaultSort(list)
      BY <3>1, <3>4 DEF OrderBy
    <3>6. DefaultSort(list) = <<"key", "num">>
      BY DEF DefaultSort
    <3> QED BY <3>3, <3>5, <3>6
  <2>2. \A x \in Matching : x \in Matching' /\ walk'.seen[x] = 0
    BY <1>2, <1>4, MatchingRows
  <2> QED BY <1>2, <2>1, <2>2 DEF CursorKnows
<1>9. PageKnows'
  <2> SUFFICES ASSUME list \in ByPage PROVE PageKnows'
    BY <1>2 DEF PageKnows
  <2>1. list = "purchases" => limit # NoValue
    <3> SUFFICES ASSUME list = "purchases" PROVE limit # NoValue
      OBVIOUS
    <3>1. limit \in 1..(MaxLimit + 1)
      BY DEF LimitsOf
    <3> QED BY <3>1, ListingAssumption
  <2>2. PagesPassed'
    <3>1. walk'.start = Matching' /\ walk'.rows = NoValue /\ walk'.total = NoValue
          /\ walk'.page = 1
      BY <1>2, <1>4
    <3>2. \A x \in Matching' : walk'.seen[x] = 0
      BY <1>2, <1>4, MatchingRows
    <3>3. ASSUME NEW q \in Orders', walk'.limit # NoValue,
                 NEW i \in 1..Cardinality(Matching')
          PROVE  walk'.seen[q[i]] = IF i <= Passed' THEN 1 ELSE 0
      <4>1. q \in [1..Cardinality(Matching') -> Matching']
        BY <3>3 DEF Orders, Sorted, SetToSeqs
      <4>2. walk'.seen[q[i]] = 0
        BY <3>2, <3>3, <4>1
      <4>3. Passed' = 0
        BY <1>2, <1>7, <3>1, <3>3 DEF Passed
      <4>4. i \in Int /\ ~(i <= 0)
        BY <3>3
      <4> QED BY <4>2, <4>3, <4>4
    <3> QED BY <3>1, <3>2, <3>3 DEF PagesPassed
  <2> QED BY <1>2, <1>7, <2>1, <2>2 DEF PageKnows
<1> QED BY <1>5, <1>8, <1>9 DEF ListInv

LEMMA ReadStep == ListInv /\ ReadRows => ListInv'
<1> SUFFICES ASSUME ListInv, ReadRows PROVE ListInv'
  OBVIOUS
<1>1. PICK q \in Orders : walk' = [walk EXCEPT !.rows = PageOf(q)]
  BY DEF ReadRows, Orders
<1>2. /\ walk' = [at |-> walk.at, list |-> walk.list, by |-> walk.by,
                  limit |-> walk.limit, page |-> walk.page, cursor |-> walk.cursor,
                  rows |-> PageOf(q), total |-> walk.total, start |-> walk.start,
                  seen |-> walk.seen]
      /\ walk.at = "page" /\ walk.list \in ByPage
      /\ UNCHANGED <<row, touched, writes>>
  BY <1>1 DEF ReadRows, ListInv, WalkTyped
<1>3. ListingTyped' /\ WalkTyped'
  BY <1>2 DEF ListInv, ListingTyped, WalkTyped
<1>4. CursorKnows'
  BY <1>2 DEF CursorKnows, ByPage, Built
<1>5. Matching' = Matching /\ Orders' = Orders /\ TellsApart' = TellsApart
  BY <1>2, SameRows
<1>6. Take' = Take /\ Passed' = Passed /\ PageOf(q)' = PageOf(q)
  BY <1>2 DEF Take, Passed, PageOf, SkipOf, Upto
<1>7. PageOf(q) \in Seq(RowIds)
  <2>1. q \in Seq(RowIds)
    BY MatchingRows, SortedMeans DEF Orders
  <2>2. CASE walk.limit = NoValue
    BY <2>1, <2>2 DEF PageOf
  <2>3. CASE walk.limit # NoValue
    <3>1. walk.limit \in Nat \ {0} /\ walk.page \in Nat \ {0}
      BY <1>2, <2>3 DEF ListInv, PageKnows
    <3>2. Take \in Nat \ {0}
      BY <3>1, TakeType
    <3>3. SkipOf(walk.page, Take) \in Nat
      BY <3>1, <3>2 DEF SkipOf
    <3> QED BY <2>1, <2>3, <3>2, <3>3, PageMeans
  <2> QED BY <2>2, <2>3
<1>8. PageKnows'
  <2>1. touched = {} => PagesPassed
    BY <1>2 DEF ListInv, PageKnows
  <2>2. ASSUME touched = {} PROVE PagesPassed'
    <3>1. \E r \in Orders' : walk'.rows = PageOf(r)'
      <4>1. walk'.rows = PageOf(q)'
        BY <1>2, <1>6
      <4> QED BY <1>5, <4>1
    <3>2. /\ walk'.start = walk.start /\ walk'.total = walk.total
          /\ walk'.limit = walk.limit /\ walk'.page = walk.page
          /\ walk'.seen = walk.seen
      BY <1>2
    <3> QED BY <1>5, <1>6, <2>1, <2>2, <3>1, <3>2 DEF PagesPassed
  <2> QED BY <1>2, <1>7, <2>2 DEF PageKnows, ListInv
<1> QED BY <1>3, <1>4, <1>8 DEF ListInv

LEMMA CountStep == ListInv /\ CountRows => ListInv'
<1> SUFFICES ASSUME ListInv, CountRows PROVE ListInv'
  OBVIOUS
<1>2. /\ walk' = [at |-> walk.at, list |-> walk.list, by |-> walk.by,
                  limit |-> walk.limit, page |-> walk.page, cursor |-> walk.cursor,
                  rows |-> walk.rows, total |-> Cardinality(Matching),
                  start |-> walk.start, seen |-> walk.seen]
      /\ walk.at = "page" /\ walk.list \in ByPage
      /\ UNCHANGED <<row, touched, writes>>
  BY DEF CountRows, ListInv, WalkTyped
<1>3. ListingTyped' /\ WalkTyped'
  BY <1>2 DEF ListInv, ListingTyped, WalkTyped
<1>4. CursorKnows'
  BY <1>2 DEF CursorKnows, ByPage, Built
<1>5. Matching' = Matching /\ Orders' = Orders /\ TellsApart' = TellsApart
  BY <1>2, SameRows
<1>6. Take' = Take /\ Passed' = Passed /\ \A q : PageOf(q)' = PageOf(q)
  BY <1>2 DEF Take, Passed, PageOf, SkipOf, Upto
<1>7. PageKnows'
  <2>1. touched = {} => PagesPassed
    BY <1>2 DEF ListInv, PageKnows
  <2>2. ASSUME touched = {} PROVE PagesPassed'
    <3>2. /\ walk'.start = walk.start /\ walk'.rows = walk.rows
          /\ walk'.total = Cardinality(Matching)
          /\ walk'.limit = walk.limit /\ walk'.page = walk.page
          /\ walk'.seen = walk.seen
      BY <1>2
    <3> QED BY <1>5, <1>6, <2>1, <2>2, <3>2 DEF PagesPassed
  <2> QED BY <1>2, <2>2 DEF PageKnows, ListInv
<1> QED BY <1>3, <1>4, <1>7 DEF ListInv

(* What a page adds: the rows of its places, once each.                    *)
LEMMA PageAdds ==
  ASSUME ListingTyped, NEW q \in Orders, walk.limit # NoValue,
         NEW skip \in Nat, skip = SkipOf(walk.page, Take), Take \in Nat,
         NEW i \in 1..Cardinality(Matching)
  PROVE  /\ walk.seen[q[i]] \in Nat
         /\ Seen(PageOf(q))[q[i]] =
              walk.seen[q[i]] + IF skip < i /\ i <= skip + Take THEN 1 ELSE 0
<1> DEFINE n == Cardinality(Matching)
           p == PageOf(q)
           k == Len(p)
<1>1. /\ n \in Nat /\ q \in Seq(RowIds) /\ Len(q) = n
      /\ \A a, b \in 1..n : a # b => q[a] # q[b]
      /\ q[i] \in RowIds
  <2>1. /\ n \in Nat /\ q \in Seq(RowIds) /\ Len(q) = n
        /\ \A a, b \in 1..n : a # b => q[a] # q[b]
    BY MatchingRows, SortedMeans DEF Orders
  <2> QED BY <2>1, ElementOfSeq
<1>2. /\ p \in Seq(RowIds) /\ k \in Nat
      /\ k = IF skip + Take < n THEN Take ELSE IF skip < n THEN n - skip ELSE 0
      /\ \A j \in 1..k : skip + j \in 1..n /\ p[j] = q[skip + j]
  BY <1>1, PageMeans
<1>3. walk.seen[q[i]] \in Nat
  BY <1>1 DEF ListingTyped
<1> HIDE DEF n, p
<1>4. i \in 1..n
  BY DEF n
<1>5. CASE skip < i /\ i <= skip + Take
  <2> DEFINE j == i - skip
  <2>1. j \in 1..k /\ skip + j = i
    BY <1>1, <1>2, <1>4, <1>5
  <2>2. p[j] = q[i]
    BY <1>2, <2>1
  <2>3. \A l \in 1..k : j # l => p[j] # p[l]
    <3> SUFFICES ASSUME NEW l \in 1..k, j # l PROVE p[j] # p[l]
      OBVIOUS
    <3>1. p[l] = q[skip + l] /\ skip + l \in 1..n
      BY <1>2
    <3>2. skip + l # i
      BY <1>4, <1>2
    <3>3. q[skip + l] # q[i]
      BY <1>1, <1>4, <3>1, <3>2
    <3> QED BY <2>2, <3>1, <3>3
  <2> HIDE DEF j
  <2>4. Seen(p)[p[j]] = walk.seen[p[j]] + 1
    BY <1>2, <2>1, <2>3, SeenOnce
  <2> QED BY <1>3, <1>5, <2>2, <2>4 DEF p
<1>6. CASE ~(skip < i /\ i <= skip + Take)
  <2>1. \A j \in 1..k : p[j] # q[i]
    <3> TAKE j \in 1..k
    <3>1. p[j] = q[skip + j] /\ skip + j \in 1..n
      BY <1>2
    <3>2. k <= Take
      BY <1>1, <1>2
    <3>3. skip + j # i
      <4>1. j \in Int /\ 1 <= j /\ j <= k /\ i \in Int
        BY <1>1, <1>2, <1>4
      <4> QED BY <1>2, <1>6, <3>2, <4>1
    <3>4. q[skip + j] # q[i]
      BY <1>1, <1>4, <3>1, <3>3
    <3> QED BY <3>1, <3>4
  <2>2. Seen(p)[q[i]] = walk.seen[q[i]]
    BY <1>1, <1>2, <2>1, NotSeen
  <2> QED BY <1>3, <1>6, <2>2 DEF p
<1> QED BY <1>5, <1>6

(* Without a limit the page is all there is.                               *)
LEMMA OnlyPage ==
  ASSUME ListingTyped, NEW q \in Orders, walk.limit = NoValue, NEW x \in Matching
  PROVE  Seen(PageOf(q))[x] = walk.seen[x] + 1
<1> DEFINE n == Cardinality(Matching)
<1>1. /\ q \in Seq(RowIds) /\ Len(q) = n
      /\ \A a, b \in 1..n : a # b => q[a] # q[b]
      /\ \E i \in 1..n : q[i] = x
  BY MatchingRows, SortedMeans DEF Orders
<1>2. PICK i \in 1..n : q[i] = x
  BY <1>1
<1>3. PageOf(q) = q
  BY DEF PageOf
<1> HIDE DEF n
<1>4. Seen(q)[q[i]] = walk.seen[q[i]] + 1
  BY <1>1, SeenOnce
<1> QED BY <1>2, <1>3, <1>4

(* The client turns the page; the walk ends only past the last row.        *)
TurnsKeepTheirPromise ==
  walk'.at = "done" /\ Dependable => \A x \in walk.start \ touched : walk'.seen[x] = 1

LEMMA CeilDivBound ==
  ASSUME NEW n \in Nat, NEW d \in Nat \ {0}, NEW p \in Nat, ~(p < CeilDiv(n, d))
  PROVE  n <= p * d
<1> DEFINE c == (n + d - 1) \div d
<1>1. n + d - 1 \in Int
  OBVIOUS
<1>2. c \in Int /\ n + d - 1 < d * c + d
  BY <1>1
<1>3. c <= p
  BY <1>2 DEF CeilDiv
<1> HIDE DEF c
<1>4. d * c <= d * p
  BY <1>2, <1>3
<1>5. d * c \in Int /\ d * p \in Int /\ p * d = d * p
  BY <1>2
<1> QED BY <1>2, <1>4, <1>5

LEMMA TurnStep == ListInv /\ TurnPage => ListInv' /\ TurnsKeepTheirPromise
<1> SUFFICES ASSUME ListInv, TurnPage PROVE ListInv' /\ TurnsKeepTheirPromise
  OBVIOUS
<1>1. /\ walk' = [at |-> IF HasNextPage THEN "page" ELSE "done",
                  list |-> walk.list, by |-> walk.by, limit |-> walk.limit,
                  page |-> IF HasNextPage THEN walk.page + 1 ELSE walk.page,
                  cursor |-> walk.cursor, rows |-> NoValue, total |-> NoValue,
                  start |-> walk.start, seen |-> Seen(walk.rows)]
      /\ walk.at = "page" /\ walk.rows # NoValue /\ walk.total # NoValue
      /\ UNCHANGED <<row, touched, writes>>
  BY DEF TurnPage, ListInv, WalkTyped
<1>2. walk.list \in ByPage
  BY <1>1 DEF ListInv, WalkTyped, CursorKnows, Lists
<1>3. /\ walk.limit = NoValue \/ walk.limit \in Nat \ {0}
      /\ walk.page \in Nat \ {0}
      /\ walk.list = "purchases" => walk.limit # NoValue
      /\ walk.rows \in Seq(RowIds)
      /\ touched = {} => PagesPassed
  BY <1>1, <1>2 DEF ListInv, PageKnows
<1>4. ListingTyped' /\ WalkTyped'
  <2>1. Seen(walk.rows) \in [RowIds -> Nat]
    BY <1>3, SeenType DEF ListInv
  <2> QED BY <1>1, <2>1 DEF ListInv, ListingTyped, WalkTyped
<1>5. CursorKnows'
  BY <1>1, <1>2 DEF CursorKnows, ByPage, Built
<1>6. Matching' = Matching /\ Orders' = Orders /\ TellsApart' = TellsApart
  BY <1>1, SameRows
<1>7. Take' = Take
  BY <1>1 DEF Take
<1>8. Cardinality(Matching) \in Nat
  BY ListingAssumption, MatchingRows, FS_Subset, FS_CardinalityType
<1>9. ASSUME touched = {}, walk.limit # NoValue, Take = walk.limit, TellsApart,
             NEW q \in Orders
      PROVE  /\ \A i \in 1..Cardinality(Matching) :
                  Seen(walk.rows)[q[i]] = IF i <= walk.page * walk.limit THEN 1 ELSE 0
             /\ ~HasNextPage => Cardinality(Matching) <= walk.page * walk.limit
  <2> DEFINE skip == Passed
             limit == walk.limit
             n == Cardinality(Matching)
  <2>1. PagesPassed
    BY <1>3, <1>9
  <2>2. PICK r \in Orders : walk.rows = PageOf(r)
    BY <1>1, <2>1 DEF PagesPassed
  <2>3. walk.rows = PageOf(q)
    <3>1. q = r
      BY <1>9, <2>2, MatchingRows, OneOrder DEF Orders, TellsApart
    <3> QED BY <2>2, <3>1
  <2>4. /\ limit \in Nat \ {0} /\ skip \in Nat
        /\ walk.page * limit = skip + limit
        /\ skip = SkipOf(walk.page, Take)
    <3>1. limit \in Nat \ {0}
      BY <1>3, <1>9
    <3>2. walk.page - 1 \in Nat /\ walk.page \in Nat
      BY <1>3
    <3>3. walk.page * limit = (walk.page - 1) * limit + limit
      BY <3>1, <3>2
    <3>4. (walk.page - 1) * limit \in Nat
      BY <3>1, <3>2
    <3> QED BY <1>9, <3>1, <3>3, <3>4 DEF Passed, SkipOf
  <2>5. \A i \in 1..n : walk.seen[q[i]] = IF i <= skip THEN 1 ELSE 0
    BY <1>9, <2>1 DEF PagesPassed
  <2> HIDE DEF skip, n
  <2>6. ASSUME NEW i \in 1..n
        PROVE  Seen(walk.rows)[q[i]] = IF i <= walk.page * limit THEN 1 ELSE 0
    <3>1. /\ walk.seen[q[i]] \in Nat
          /\ Seen(PageOf(q))[q[i]] =
               walk.seen[q[i]] + IF skip < i /\ i <= skip + limit THEN 1 ELSE 0
      BY <1>9, <2>4, PageAdds DEF ListInv, n
    <3>2. i \in Int
      BY <1>8 DEF n
    <3> QED BY <2>3, <2>4, <2>5, <3>1, <3>2
  <2>7. ASSUME ~HasNextPage PROVE n <= walk.page * limit
    <3>1. CASE walk.list = "purchases"
      <4>1. Len(walk.rows) # limit
        BY <1>9, <2>7, <3>1 DEF HasNextPage
      <4>2. q \in Seq(RowIds) /\ Len(q) = n
        BY MatchingRows, SortedMeans DEF Orders, n
      <4>3. Len(walk.rows) = IF skip + Take < Len(q) THEN Take
                             ELSE IF skip < Len(q) THEN Len(q) - skip ELSE 0
        BY <1>9, <2>3, <2>4, <4>2, PageMeans
      <4>4. ~(skip + limit < n)
        BY <1>9, <4>1, <4>2, <4>3
      <4> QED BY <1>8, <2>4, <4>4 DEF n
    <3>2. CASE walk.list # "purchases"
      <4>1. walk.total = n
        BY <1>1, <2>1 DEF PagesPassed, n
      <4>2. ~(walk.page < CeilDiv(n, limit))
        BY <1>9, <2>4, <2>7, <3>2, <4>1 DEF HasNextPage
      <4> QED BY <1>3, <1>8, <2>4, <4>2, CeilDivBound DEF n
    <3> QED BY <3>1, <3>2
  <2> QED BY <2>6, <2>7 DEF n
<1>10. ASSUME touched = {}, walk.limit = NoValue
       PROVE  ~HasNextPage /\ \A x \in Matching : Seen(walk.rows)[x] = 1
  <2> DEFINE n == Cardinality(Matching)
  <2>1. PagesPassed
    BY <1>3, <1>10
  <2>2. PICK q \in Orders : walk.rows = PageOf(q)
    BY <1>1, <2>1 DEF PagesPassed
  <2>3. \A x \in Matching : walk.seen[x] = 0
    BY <1>10, <2>1 DEF PagesPassed
  <2>4. ASSUME NEW x \in Matching PROVE Seen(walk.rows)[x] = 1
    <3>1. Seen(PageOf(q))[x] = walk.seen[x] + 1
      BY <1>10, OnlyPage DEF ListInv
    <3> QED BY <2>2, <2>3, <3>1
  <2>5. walk.page = 1 /\ walk.total = n
    BY <1>1, <1>10, <2>1 DEF PagesPassed
  <2>6. Len(walk.rows) = n
    <3>1. Len(q) = n
      BY MatchingRows, SortedMeans DEF Orders
    <3>2. PageOf(q) = q
      BY <1>10 DEF PageOf
    <3> QED BY <2>2, <3>1, <3>2
  <2>7. n > 0 => CeilDiv(n, n) = 1
    <3> SUFFICES ASSUME n > 0 PROVE CeilDiv(n, n) = 1
      OBVIOUS
    <3>1. n \in Nat \ {0}
      BY <1>8
    <3> HIDE DEF n
    <3>2. (n + n - 1) \div n = 1
      BY <3>1
    <3> QED BY <3>2 DEF CeilDiv
  <2> HIDE DEF n
  <2>8. ~HasNextPage
    <3>1. walk.list # "purchases"
      BY <1>3, <1>10
    <3>2. CASE walk.list = "models"
      BY <1>10, <3>1, <3>2 DEF HasNextPage
    <3>3. CASE walk.list # "models"
      <4>1. HasNextPage <=> (n > 0 /\ 1 < CeilDiv(n, n))
        BY <1>10, <2>5, <2>6, <3>1, <3>3 DEF HasNextPage
      <4> QED BY <2>7, <4>1
    <3> QED BY <3>2, <3>3
  <2> QED BY <2>4, <2>8
<1>11. PageKnows'
  <2> SUFFICES ASSUME HasNextPage PROVE PageKnows'
    BY <1>1 DEF PageKnows
  <2>1. /\ walk'.page = walk.page + 1 /\ walk'.limit = walk.limit
        /\ walk'.rows = NoValue /\ walk'.total = NoValue
        /\ walk'.start = walk.start /\ walk'.list = walk.list
        /\ walk'.seen = Seen(walk.rows) /\ touched' = touched
    BY <1>1
  <2>2. ASSUME touched = {} PROVE PagesPassed'
    <3>1. PagesPassed
      BY <1>3, <2>2
    <3>2. walk.limit # NoValue
      BY <1>10, <2>2
    <3>3. walk.limit \in Nat \ {0}
      BY <1>3, <3>2
    <3>4. Passed' = walk.page * walk.limit
      <4>1. Passed' = (walk'.page - 1) * walk'.limit
        BY DEF Passed
      <4>2. walk'.page - 1 = walk.page /\ walk'.limit = walk.limit
        BY <1>3, <2>1
      <4> QED BY <4>1, <4>2
    <3>5. ASSUME Take = walk.limit, TellsApart, NEW q \in Orders,
                 NEW i \in 1..Cardinality(Matching)
          PROVE  walk'.seen[q[i]] = IF i <= Passed' THEN 1 ELSE 0
      BY <1>9, <2>1, <2>2, <3>2, <3>4, <3>5
    <3> QED BY <1>6, <1>7, <2>1, <3>1, <3>2, <3>5 DEF PagesPassed
  <2>3. walk'.page \in Nat \ {0}
    BY <1>3, <2>1
  <2> QED BY <1>3, <2>1, <2>2, <2>3 DEF PageKnows
<1>12. TurnsKeepTheirPromise
  <2> SUFFICES ASSUME walk'.at = "done", Dependable, NEW x \in walk.start \ touched
               PROVE  walk'.seen[x] = 1
    BY DEF TurnsKeepTheirPromise
  <2>1. ~HasNextPage /\ walk'.seen = Seen(walk.rows)
    BY <1>1
  <2>2. /\ touched = {}
        /\ walk.limit = NoValue \/ Take = walk.limit
        /\ walk.limit = NoValue \/ TellsApart
    BY <1>2 DEF Dependable, ByPage, Built, TellsApart
  <2>3. PagesPassed /\ x \in Matching
    BY <1>3, <2>2 DEF PagesPassed
  <2>4. CASE walk.limit = NoValue
    BY <1>10, <2>1, <2>2, <2>3, <2>4
  <2>5. CASE walk.limit # NoValue
    <3>1. PICK q \in Orders : walk.rows = PageOf(q)
      BY <1>1, <2>3 DEF PagesPassed
    <3>2. PICK i \in 1..Cardinality(Matching) : q[i] = x
      BY <2>3, MatchingRows, SortedMeans DEF Orders
    <3>3. /\ Seen(walk.rows)[q[i]] = IF i <= walk.page * walk.limit THEN 1 ELSE 0
          /\ Cardinality(Matching) <= walk.page * walk.limit
      BY <1>9, <2>1, <2>2, <2>5
    <3>4. walk.page * walk.limit \in Int /\ i \in Int /\ i <= Cardinality(Matching)
      BY <1>3, <1>8, <2>5
    <3>5. i <= walk.page * walk.limit
      BY <1>8, <3>3, <3>4
    <3> QED BY <2>1, <3>2, <3>3, <3>5
  <2> QED BY <2>4, <2>5
<1> QED BY <1>4, <1>5, <1>11, <1>12 DEF ListInv

(* By cursor: what a statement returned lies before its cursor.            *)
CursorKeepsItsPromise ==
  walk'.at = "done" => \A x \in walk.start \ touched : walk'.seen[x] = 1

LEMMA FirstsMeans ==
  ASSUME NEW q \in Seq(RowIds), NEW k \in Nat
  PROVE  LET data == Upto(q, k + 1)
             items == Upto(data, k)
             n == IF k < Len(q) THEN k ELSE Len(q)
         IN  /\ items \in Seq(RowIds) /\ Len(items) = n
             /\ Len(data) > k <=> Len(q) > k
             /\ \A i \in 1..n : items[i] = q[i]
<1> DEFINE data == Upto(q, k + 1)
           items == Upto(data, k)
           n == IF k < Len(q) THEN k ELSE Len(q)
<1>1. Len(q) \in Nat /\ k + 1 \in Nat
  BY LenProperties
<1>2. /\ data \in Seq(RowIds)
      /\ Len(data) = IF k + 1 < Len(q) THEN k + 1 ELSE Len(q)
      /\ \A i \in 1..Len(data) : data[i] = q[i]
  BY <1>1, UptoMeans
<1> HIDE DEF data
<1>3. /\ items \in Seq(RowIds)
      /\ Len(items) = IF k < Len(data) THEN k ELSE Len(data)
      /\ \A i \in 1..Len(items) : items[i] = data[i]
  BY <1>2, UptoMeans
<1> HIDE DEF items
<1>4. Len(items) = n /\ (Len(data) > k <=> Len(q) > k) /\ n \in Nat /\ n <= Len(data)
  BY <1>1, <1>2, <1>3
<1> HIDE DEF n
<1>5. \A i \in 1..n : items[i] = q[i]
  <2> TAKE i \in 1..n
  <2>1. i \in 1..Len(items) /\ i \in 1..Len(data)
    BY <1>1, <1>2, <1>4
  <2> QED BY <1>2, <1>3, <2>1
<1> QED BY <1>3, <1>4, <1>5 DEF data, items, n

LEMMA CursorStep == ListInv /\ ReadByCursor => ListInv' /\ CursorKeepsItsPromise
<1> SUFFICES ASSUME ListInv, ReadByCursor PROVE ListInv' /\ CursorKeepsItsPromise
  OBVIOUS
<1> DEFINE after == {x \in Matching :
                       walk.cursor = NoValue \/ AfterCursor(walk.cursor, x)}
           k == walk.limit
<1>1. PICK q \in Sorted(after, walk.by) :
        LET data == Upto(q, walk.limit + 1)
            items == Upto(data, walk.limit)
            hasMore == Len(data) > walk.limit
            last == items[Len(items)]
        IN  walk' = [walk EXCEPT
              !.seen = Seen(items),
              !.at = IF hasMore THEN "page" ELSE "done",
              !.cursor = IF hasMore THEN [key |-> row[last].key, num |-> last]
                         ELSE NoValue]
  BY DEF ReadByCursor
<1> DEFINE items == Upto(Upto(q, k + 1), k)
           n == IF k < Len(q) THEN k ELSE Len(q)
<1>2. /\ walk.at = "page" /\ walk.list = "by cursor"
      /\ UNCHANGED <<row, touched, writes>>
  BY DEF ReadByCursor
<1>3. /\ walk.by = <<"key", "num">> /\ k \in Nat \ {0}
      /\ walk.rows = NoValue
      /\ walk.cursor # NoValue => walk.cursor \in [key: Nat, num: Nat]
      /\ \A x \in walk.start \ touched :
           /\ x \in Matching
           /\ walk.seen[x] =
                IF walk.cursor # NoValue /\ ~AfterCursor(walk.cursor, x) THEN 1 ELSE 0
  BY <1>2 DEF ListInv, CursorKnows
<1>4. /\ q \in Seq(RowIds) /\ Len(q) \in Nat
      /\ \A i \in 1..Len(q) : q[i] \in after /\ q[i] \in RowIds
      /\ \A i, j \in 1..Len(q) : i # j => q[i] # q[j]
      /\ \A i, j \in 1..Len(q) : i < j => ~Precedes(q[j], q[i], walk.by)
      /\ \A x \in after : \E i \in 1..Len(q) : q[i] = x
  <2>1. after \in SUBSET RowIds
    BY MatchingRows
  <2> HIDE DEF after
  <2>2. /\ Cardinality(after) \in Nat /\ q \in [1..Cardinality(after) -> after]
        /\ q \in Seq(RowIds) /\ Len(q) = Cardinality(after)
        /\ \A i, j \in 1..Cardinality(after) : i # j => q[i] # q[j]
        /\ \A i, j \in 1..Cardinality(after) : i < j => ~Precedes(q[j], q[i], walk.by)
        /\ \A x \in after : \E i \in 1..Cardinality(after) : q[i] = x
    BY <2>1, SortedMeans
  <2> QED BY <2>1, <2>2
<1>5. /\ items \in Seq(RowIds) /\ Len(items) = n /\ n \in Nat /\ n <= Len(q)
      /\ Len(Upto(q, k + 1)) > k <=> Len(q) > k
      /\ \A i \in 1..n : items[i] = q[i]
  <2>1. k \in Nat
    BY <1>3
  <2>2. n \in Nat /\ n <= Len(q)
    BY <1>4, <2>1
  <2>3. /\ items \in Seq(RowIds) /\ Len(items) = n
        /\ Len(Upto(q, k + 1)) > k <=> Len(q) > k
        /\ \A i \in 1..n : items[i] = q[i]
    <3> HIDE DEF k
    <3> QED BY <1>4, <2>1, FirstsMeans
  <2> QED BY <2>2, <2>3
<1> DEFINE more == Len(q) > k
           next == [key |-> row[q[k]].key, num |-> q[k]]
<1>6. more => k \in 1..Len(q) /\ n = k /\ items[Len(items)] = q[k]
  BY <1>3, <1>4, <1>5
<1>7. walk' = [at |-> IF more THEN "page" ELSE "done",
               list |-> walk.list, by |-> walk.by, limit |-> walk.limit,
               page |-> walk.page, cursor |-> IF more THEN next ELSE NoValue,
               rows |-> walk.rows, total |-> walk.total,
               start |-> walk.start, seen |-> Seen(items)]
  <2> DEFINE last == items[Len(items)]
             hasMore == Len(Upto(q, k + 1)) > k
  <2>1. walk' = [walk EXCEPT
              !.seen = Seen(items),
              !.at = IF hasMore THEN "page" ELSE "done",
              !.cursor = IF hasMore THEN [key |-> row[last].key, num |-> last]
                         ELSE NoValue]
    BY <1>1
  <2>2. hasMore = more
    BY <1>5
  <2>3. more => last = q[k]
    BY <1>6
  <2> HIDE DEF items, last, hasMore
  <2>4. (IF hasMore THEN [key |-> row[last].key, num |-> last] ELSE NoValue)
          = IF more THEN next ELSE NoValue
    BY <2>2, <2>3
  <2> QED BY <2>1, <2>2, <2>4 DEF ListInv, WalkTyped
<1> HIDE DEF items
<1>8. ListingTyped' /\ WalkTyped'
  <2>1. Seen(items) \in [RowIds -> Nat]
    BY <1>5, SeenType DEF ListInv
  <2> QED BY <1>2, <1>7, <2>1 DEF ListInv, ListingTyped, WalkTyped, Lists
<1>9. PageKnows'
  BY <1>2, <1>7 DEF PageKnows, ByPage, Built
<1>10. Matching' = Matching
  BY <1>2, SameRows, <1>7
<1>11. more => next \in [key: Nat, num: Nat] /\ next # NoValue
  <2> SUFFICES ASSUME more PROVE next \in [key: Nat, num: Nat] /\ next # NoValue
    OBVIOUS
  <2>1. q[k] \in RowIds
    BY <1>4, <1>6
  <2>2. row[q[k]].key \in Nat /\ q[k] \in Nat
    BY <2>1, ByKeyThenNumber DEF ListInv
  <2>3. next \in [key: Nat, num: Nat]
    BY <2>2
  <2> QED BY <2>3, ListingAssumption
<1>12. ASSUME NEW x \in walk.start \ touched
       PROVE  /\ x \in Matching
              /\ ~more => Seen(items)[x] = 1
              /\ more => Seen(items)[x] = IF ~AfterCursor(next, x) THEN 1 ELSE 0
  <2>1. x \in Matching /\ x \in RowIds /\ row[x].key \in Nat /\ x \in Nat
    <3>1. x \in Matching /\ x \in RowIds
      BY <1>3, MatchingRows
    <3> QED BY <3>1, ByKeyThenNumber DEF ListInv
  <2>2. CASE x \notin after
    <3>1. walk.cursor # NoValue /\ ~AfterCursor(walk.cursor, x) /\ walk.seen[x] = 1
      BY <1>3, <2>1, <2>2
    <3>2. \A i \in 1..Len(items) : items[i] # x
      BY <1>4, <1>5, <2>2
    <3>3. Seen(items)[x] = 1
      <4>1. Seen(items)[x] = walk.seen[x]
        BY <1>5, <2>1, <3>2, NotSeen DEF ListInv
      <4> QED BY <3>1, <4>1
    <3>4. more => ~AfterCursor(next, x)
      <4> SUFFICES ASSUME more PROVE ~AfterCursor(next, x)
        OBVIOUS
      <4> DEFINE c == walk.cursor
      <4>1. q[k] \in after /\ q[k] \in RowIds
        BY <1>4, <1>6
      <4>2. AfterCursor(c, q[k])
        BY <3>1, <4>1
      <4>3. row[q[k]].key \in Nat /\ q[k] \in Nat
        BY <4>1, ByKeyThenNumber DEF ListInv
      <4>4. c.key \in Nat /\ c.num \in Nat
        BY <1>3, <3>1
      <4> QED BY <2>1, <3>1, <4>2, <4>3, <4>4 DEF AfterCursor
    <3> QED BY <2>1, <3>3, <3>4
  <2>3. CASE x \in after
    <3>1. walk.seen[x] = 0
      BY <1>3, <2>3
    <3>2. PICK i \in 1..Len(q) : q[i] = x
      BY <1>4, <2>3
    <3>3. i \in Int /\ 1 <= i /\ i <= Len(q)
      BY <1>4
    <3>4. Seen(items)[x] = IF i <= n THEN 1 ELSE 0
      <4>1. CASE i <= n
        <5>1. i \in 1..Len(items) /\ items[i] = x
          BY <1>5, <3>2, <3>3, <4>1
        <5>2. \A j \in 1..Len(items) : i # j => items[i] # items[j]
          <6> SUFFICES ASSUME NEW j \in 1..Len(items), i # j PROVE items[i] # items[j]
            OBVIOUS
          <6>1. j \in 1..Len(q) /\ items[j] = q[j] /\ items[i] = q[i]
            BY <1>4, <1>5, <5>1
          <6> QED BY <1>4, <6>1
        <5>3. Seen(items)[items[i]] = walk.seen[items[i]] + 1
          BY <1>5, <5>1, <5>2, SeenOnce DEF ListInv
        <5> QED BY <3>1, <4>1, <5>1, <5>3
      <4>2. CASE ~(i <= n)
        <5>1. \A j \in 1..Len(items) : items[j] # x
          <6> TAKE j \in 1..Len(items)
          <6>1. j \in 1..Len(q) /\ items[j] = q[j] /\ j # i
            BY <1>4, <1>5, <3>3, <4>2
          <6> QED BY <1>4, <3>2, <6>1
        <5>2. Seen(items)[x] = walk.seen[x]
          BY <1>5, <2>1, <5>1, NotSeen DEF ListInv
        <5> QED BY <3>1, <4>2, <5>2
      <4> QED BY <4>1, <4>2
    <3>5. ~more => i <= n
      BY <1>3, <1>4, <3>3
    <3>6. ASSUME more PROVE AfterCursor(next, x) <=> ~(i <= n)
      <4>1. /\ k \in 1..Len(q) /\ n = k /\ k \in Nat
            /\ q[k] \in RowIds /\ row[q[k]].key \in Nat /\ q[k] \in Nat
        <5>1. k \in 1..Len(q) /\ n = k /\ q[k] \in RowIds
          BY <1>4, <1>6, <3>6
        <5> QED BY <1>3, <5>1, ByKeyThenNumber DEF ListInv
      <4>2. AfterCursor(next, x) <=> Precedes(q[k], x, walk.by)
        <5>1. AfterCursor(next, x) <=> \/ row[q[k]].key < row[x].key
                                       \/ row[q[k]].key = row[x].key /\ q[k] < x
          BY <2>1, <4>1 DEF AfterCursor
        <5> QED BY <1>3, <2>1, <4>1, <5>1, ByKeyThenNumber DEF ListInv
      <4>3. CASE i < k
        <5>1. ~Precedes(q[k], q[i], walk.by)
          BY <1>4, <4>1, <4>3
        <5> QED BY <3>2, <3>3, <4>1, <4>2, <4>3, <5>1
      <4>4. CASE i = k
        <5>1. ~Precedes(x, x, walk.by)
          BY <1>3, <2>1, ByKeyThenNumber DEF ListInv
        <5> QED BY <3>2, <3>3, <4>1, <4>2, <4>4, <5>1
      <4>5. CASE i > k
        <5>1. ~Precedes(x, q[k], walk.by) /\ x # q[k]
          BY <1>4, <3>2, <4>1, <4>5
        <5>2. Precedes(q[k], x, walk.by)
          BY <1>3, <2>1, <4>1, <5>1, ByKeyThenNumber DEF ListInv
        <5> QED BY <3>3, <4>1, <4>2, <4>5, <5>2
      <4> QED BY <3>3, <4>1, <4>3, <4>4, <4>5
    <3> QED BY <2>1, <3>4, <3>5, <3>6
  <2> QED BY <2>2, <2>3
<1> HIDE DEF more, next
<1>13. CursorKnows'
  <2> SUFFICES ASSUME more PROVE CursorKnows'
    BY <1>7 DEF CursorKnows
  <2>1. /\ walk'.by = walk.by /\ walk'.limit = k /\ walk'.rows = walk.rows
        /\ walk'.cursor = next /\ walk'.start = walk.start /\ touched' = touched
        /\ walk'.seen = Seen(items)
    BY <1>2, <1>7
  <2>2. \A c, x : AfterCursor(c, x)' <=> AfterCursor(c, x)
    BY <1>2 DEF AfterCursor
  <2> QED BY <1>3, <1>10, <1>11, <1>12, <2>1, <2>2 DEF CursorKnows
<1>14. CursorKeepsItsPromise
  <2>1. walk'.at = "done" => ~more
    BY <1>7
  <2>2. walk'.seen = Seen(items)
    BY <1>7
  <2> QED BY <1>12, <2>1, <2>2 DEF CursorKeepsItsPromise
<1> QED BY <1>8, <1>9, <1>13, <1>14 DEF ListInv

LEMMA WriteStep ==
  ASSUME ListInv, NEW x \in RowIds,
         NEW r \in [st: {"free", "live", "gone"}, key: Keys, match: BOOLEAN],
         Written(x, r)
  PROVE  ListInv'
<1>1. /\ walk.at = "page" /\ walk' = walk
      /\ row' = [row EXCEPT ![x] = r]
      /\ touched' = touched \cup {x}
      /\ writes' = writes + 1 /\ writes < MaxWrites
  BY DEF Written
<1>2. ListingTyped' /\ WalkTyped'
  <2>1. writes' \in 0..MaxWrites
    BY <1>1, ListingAssumption DEF ListInv, ListingTyped
  <2> QED BY <1>1, <2>1 DEF ListInv, ListingTyped, WalkTyped
<1>3. CursorKnows'
  <2> SUFFICES ASSUME walk.list = "by cursor" PROVE CursorKnows'
    BY <1>1 DEF CursorKnows
  <2>1. /\ walk.by = <<"key", "num">> /\ walk.limit \in Nat \ {0}
        /\ walk.rows = NoValue
        /\ walk.cursor # NoValue => walk.cursor \in [key: Nat, num: Nat]
    BY <1>1 DEF ListInv, CursorKnows
  <2>2. ASSUME NEW y \in walk.start \ touched'
        PROVE  /\ y \in Matching'
               /\ walk.seen[y] =
                    IF walk.cursor # NoValue /\ ~AfterCursor(walk.cursor, y)' THEN 1 ELSE 0
    <3>1. y \in walk.start \ touched /\ y # x
      BY <1>1
    <3>2. /\ y \in Matching
          /\ walk.seen[y] =
               IF walk.cursor # NoValue /\ ~AfterCursor(walk.cursor, y) THEN 1 ELSE 0
      BY <1>1, <3>1 DEF ListInv, CursorKnows
    <3>3. row'[y] = row[y]
      BY <1>1, <3>1, <3>2, MatchingRows DEF ListInv, ListingTyped
    <3>4. y \in Matching'
      BY <3>2, <3>3 DEF Matching, LiveRows
    <3>5. AfterCursor(walk.cursor, y)' <=> AfterCursor(walk.cursor, y)
      BY <1>1, <3>3 DEF AfterCursor
    <3> QED BY <3>2, <3>4, <3>5
  <2> QED BY <1>1, <2>1, <2>2 DEF CursorKnows
<1>4. PageKnows'
  <2>1. touched' # {}
    BY <1>1
  <2> QED BY <1>1, <2>1 DEF ListInv, PageKnows
<1> QED BY <1>2, <1>3, <1>4 DEF ListInv

LEMMA ListStep ==
  ListInv /\ [ListingNext]_listVars
    => /\ ListInv'
       /\ walk.at = "page" /\ walk'.at = "done" /\ Dependable
            => \A x \in walk.start \ touched : walk'.seen[x] = 1
<1> SUFFICES ASSUME ListInv, [ListingNext]_listVars
             PROVE  /\ ListInv'
                    /\ walk.at = "page" /\ walk'.at = "done" /\ Dependable
                         => \A x \in walk.start \ touched : walk'.seen[x] = 1
  OBVIOUS
<1> DEFINE NotOver == walk'.at = "done" => walk.at # "page"
<1>1. CASE StartWalk
  <2>1. NotOver
    BY <1>1 DEF StartWalk
  <2> QED BY <1>1, <2>1, StartStep
<1>2. CASE ReadRows
  <2>1. NotOver
    BY <1>2 DEF ReadRows, ListInv, WalkTyped
  <2> QED BY <1>2, <2>1, ReadStep
<1>3. CASE CountRows
  <2>1. NotOver
    BY <1>3 DEF CountRows, ListInv, WalkTyped
  <2> QED BY <1>3, <2>1, CountStep
<1>4. CASE TurnPage
  BY <1>4, TurnStep DEF TurnsKeepTheirPromise
<1>5. CASE ReadByCursor
  BY <1>5, CursorStep DEF CursorKeepsItsPromise
<1>6. ASSUME NEW x \in RowIds,
             NEW r \in [st: {"free", "live", "gone"}, key: Keys, match: BOOLEAN],
             Written(x, r)
      PROVE  ListInv' /\ NotOver
  <2>1. NotOver
    BY <1>6 DEF Written
  <2> QED BY <1>6, <2>1, WriteStep
<1>7. CASE InsertRow
  BY <1>6, <1>7 DEF InsertRow
<1>8. CASE ChangeRow
  BY <1>6, <1>8 DEF ChangeRow, LiveRows
<1>9. CASE DeleteRow
  <2>1. PICK x \in LiveRows : Written(x, [row[x] EXCEPT !.st = "gone"])
    BY <1>9 DEF DeleteRow
  <2>2. x \in RowIds /\ [row[x] EXCEPT !.st = "gone"]
          \in [st: {"free", "live", "gone"}, key: Keys, match: BOOLEAN]
    BY DEF LiveRows, ListInv, ListingTyped
  <2> QED BY <1>6, <2>1, <2>2
<1>10. CASE UNCHANGED listVars
  <2>1. UNCHANGED <<row, walk, touched, writes>>
    BY <1>10 DEF listVars
  <2>2. Matching' = Matching /\ Orders' = Orders /\ TellsApart' = TellsApart
    BY <2>1, SameRows
  <2>3. PagesPassed' = PagesPassed
    BY <2>1, <2>2 DEF PagesPassed, Take, Passed, PageOf, SkipOf, Upto
  <2>4. ListingTyped' /\ WalkTyped'
    BY <2>1 DEF ListInv, ListingTyped, WalkTyped
  <2>5. CursorKnows'
    BY <2>1, <2>2 DEF ListInv, CursorKnows, AfterCursor
  <2>6. PageKnows'
    BY <2>1, <2>3 DEF ListInv, PageKnows
  <2> QED BY <2>1, <2>4, <2>5, <2>6 DEF ListInv
<1> QED BY <1>1, <1>2, <1>3, <1>4, <1>5, <1>7, <1>8, <1>9, <1>10 DEF ListingNext

(* For any table, limits, filters, sort and number of writes: a walk by    *)
(* cursor, and a walk by page during which nothing was written, over a     *)
(* sort that tells rows apart, has returned each row once when it ends.    *)
THEOREM WalksAreComplete == ListingSpec => WalksReturnEveryRow
<1>1. NoWalkYet /\ ListingTyped => ListInv
  BY ListStart
<1>2. ListInv /\ [ListingNext]_listVars => ListInv'
  BY ListStep
<1>3. ListInv /\ [ListingNext]_listVars
        => [walk.at = "page" /\ walk'.at = "done" /\ Dependable
              => \A x \in walk.start \ touched : walk'.seen[x] = 1]_listVars
  BY ListStep
<1> QED BY <1>1, <1>2, <1>3, PTL DEF ListingSpec, WalksReturnEveryRow

(***************************************************************************)
(* Reports.                                                                *)
(***************************************************************************)
SOStatuses == {"DRAFT", "OPEN", "PARTIAL", "CLOSED", "CANCELLED", "ON_HOLD"}
\* STRING, with the literals that the provers do not take for members of it.
Names == STRING \cup {"a", "c", "d", "x", "y"}
SalesRow == [status: SOStatuses, day: Int, customer: Names, amount: Nat]
DetailRow == [order: OrderNos, sku: Names, amount: Nat]
SupplierRow == [active: BOOLEAN, category: Names \cup {Nothing},
                rating: (0..50) \cup {Nothing}, month: Int]
StockRow == [quantity: Int, reservedQty: Int]

RowsTyped ==
  /\ orders \in [OrderNos -> SalesRow] /\ details \in [DetailNos -> DetailRow]
  /\ partners \in [SupplierNos -> SupplierRow]
  /\ held \in [Places \X Goods -> StockRow \cup {Nothing}]

ReportsNext == OrderReportsNext \/ SupplierReportsNext \/ StockReportsNext

ReportsSpec ==
  /\ RowsTyped /\ report = NoReport /\ disturbed = FALSE
  /\ [][ReportsNext]_reportVars

LEMMA Parted ==
  ASSUME NEW S, IsFiniteSet(S), NEW A, NEW B, A \cup B = S, A \cap B = {}
  PROVE  /\ Cardinality(A) + Cardinality(B) = Cardinality(S)
         /\ Cardinality(A) \in Nat /\ Cardinality(B) \in Nat /\ Cardinality(S) \in Nat
<1>1. IsFiniteSet(A) /\ IsFiniteSet(B)
  BY FS_Subset
<1>2. Cardinality(A \cap B) = 0
  BY FS_EmptySet
<1>3. /\ Cardinality(A) \in Nat /\ Cardinality(B) \in Nat /\ Cardinality(S) \in Nat
  BY <1>1, FS_CardinalityType
<1>4. Cardinality(A \cup B) = Cardinality(A) + Cardinality(B) - Cardinality(A \cap B)
  BY <1>1, FS_Union
<1>5. Cardinality(A \cup B) = Cardinality(S)
  OBVIOUS
<1> QED BY <1>2, <1>3, <1>4, <1>5

(* Sales orders: what a set of orders counts and sums to.                  *)
Amount == [o \in OrderNos |-> orders[o].amount]

LEMMA RevenueMeans ==
  ASSUME RowsTyped, NEW S \in SUBSET OrderNos
  PROVE  /\ IsFiniteSet(S) /\ Cardinality(S) \in Nat
         /\ Revenue(S) = SumFunctionOnSet(Amount, S)
         /\ Revenue(S) \in Nat
         /\ \A o \in OrderNos : Amount[o] \in Nat
<1> DEFINE f == [o \in S |-> orders[o].amount]
<1>1. IsFiniteSet(S) /\ Cardinality(S) \in Nat
  BY ReportsAssumption, FS_Subset, FS_CardinalityType
<1>2. Revenue(S) = SumFunctionOnSet(f, S)
  BY DEF Revenue, SumFunction
<1>3. \A o \in S : f[o] = Amount[o]
  BY DEF Amount
<1>4. \A o \in OrderNos : Amount[o] \in Nat
  BY DEF Amount, RowsTyped, SalesRow
<1> HIDE DEF f
<1>5. SumFunctionOnSet(f, S) = SumFunctionOnSet(Amount, S)
  BY <1>1, <1>3, SumSame
<1>6. SumFunctionOnSet(Amount, S) \in Nat
  BY <1>1, <1>4, SumNat
<1> QED BY <1>1, <1>2, <1>4, <1>5, <1>6

LEMMA CountAndSumMeans ==
  ASSUME NEW S
  PROVE  CountAndSum(S).count = Cardinality(S) /\ CountAndSum(S).revenue = Revenue(S)
  BY DEF CountAndSum

LEMMA GroupsAddUp ==
  ASSUME RowsTyped, NEW S \in SUBSET OrderNos, NEW column
  PROVE  LET groups == GroupedBy(column, S)
             keys == {column[o] : o \in S}
         IN  /\ DOMAIN groups = keys /\ IsFiniteSet(keys)
             /\ \A v \in keys : groups[v].revenue \in Nat
             /\ Count(groups) = Cardinality(S)
             /\ SumFunctionOnSet([v \in keys |-> groups[v].revenue], keys) = Revenue(S)
             /\ Total(groups) = Revenue(S)
<1> DEFINE groups == GroupedBy(column, S)
           keys == {column[o] : o \in S}
           at(v) == {o \in S : column[o] = v}
           key == [o \in S |-> column[o]]
<1>1. /\ IsFiniteSet(S) /\ Revenue(S) = SumFunctionOnSet(Amount, S)
      /\ \A o \in OrderNos : Amount[o] \in Nat
  BY RevenueMeans
<1>2. IsFiniteSet(keys)
  BY <1>1, FiniteImage
<1>3. key \in [S -> keys]
  OBVIOUS
<1>4. \A v : {o \in S : key[o] = v} = at(v)
  OBVIOUS
<1>5. /\ DOMAIN groups = keys
      /\ \A v \in keys : groups[v] = CountAndSum(at(v))
  BY DEF GroupedBy
<1>6. \A v \in keys : groups[v].count = Cardinality(at(v))
  <2> HIDE DEF at, groups, keys
  <2> QED BY <1>5, CountAndSumMeans
<1>7. \A v \in keys : groups[v].revenue = SumFunctionOnSet(Amount, at(v))
                      /\ groups[v].revenue \in Nat
  <2> TAKE v \in keys
  <2>1. at(v) \in SUBSET OrderNos
    OBVIOUS
  <2>2. groups[v].revenue = Revenue(at(v))
    <3> HIDE DEF at, groups, keys
    <3> QED BY <1>5, CountAndSumMeans
  <2> HIDE DEF at, groups
  <2> QED BY <2>1, <2>2, RevenueMeans
<1> DEFINE counts == [v \in keys |-> groups[v].count]
           cards == [v \in keys |-> Cardinality({o \in S : key[o] = v})]
           revenues == [v \in keys |-> groups[v].revenue]
           sums == [v \in keys |-> SumFunctionOnSet(Amount, {o \in S : key[o] = v})]
<1>8. SumFunctionOnSet(cards, keys) = Cardinality(S)
  <2> HIDE DEF keys, key
  <2> QED BY <1>1, <1>2, <1>3, CountByKey
<1>9. SumFunctionOnSet(sums, keys) = Revenue(S)
  <2>1. \A o \in S : Amount[o] \in Int
    BY <1>1
  <2> HIDE DEF keys, key
  <2> QED BY <1>1, <1>2, <1>3, <2>1, SumByKey
<1>10. counts = cards /\ revenues = sums
  BY <1>4, <1>6, <1>7
<1>11. Count(groups) = SumFunctionOnSet(counts, keys)
  BY <1>5 DEF Count, SumFunction
<1>12. Total(groups) = SumFunctionOnSet(revenues, keys)
  BY <1>5 DEF Total, SumFunction
<1> HIDE DEF groups, counts, cards, revenues, sums
<1>13. Count(groups) = Cardinality(S) /\ Total(groups) = Revenue(S)
       /\ SumFunctionOnSet(revenues, keys) = Revenue(S)
  BY <1>8, <1>9, <1>10, <1>11, <1>12
<1> QED BY <1>2, <1>5, <1>7, <1>13 DEF groups, revenues

(* The lines of a set of orders: the groups by SKU add up to them, and a    *)
(* group has no more orders than the set.                                  *)
LineAmount == [d \in DetailNos |-> details[d].amount]

LEMMA LineRevenueMeans ==
  ASSUME RowsTyped, NEW D \in SUBSET DetailNos
  PROVE  /\ IsFiniteSet(D)
         /\ LineRevenue(D) = SumFunctionOnSet(LineAmount, D)
         /\ LineRevenue(D) \in Nat
         /\ \A d \in DetailNos : LineAmount[d] \in Nat
<1> DEFINE f == [d \in D |-> details[d].amount]
<1>1. IsFiniteSet(D)
  BY ReportsAssumption, FS_Subset
<1>2. LineRevenue(D) = SumFunctionOnSet(f, D)
  BY DEF LineRevenue, SumFunction
<1>3. \A d \in D : f[d] = LineAmount[d]
  BY DEF LineAmount
<1>4. \A d \in DetailNos : LineAmount[d] \in Nat
  BY DEF LineAmount, RowsTyped, DetailRow
<1> HIDE DEF f
<1>5. SumFunctionOnSet(f, D) = SumFunctionOnSet(LineAmount, D)
  BY <1>1, <1>3, SumSame
<1>6. SumFunctionOnSet(LineAmount, D) \in Nat
  BY <1>1, <1>4, SumNat
<1> QED BY <1>1, <1>2, <1>4, <1>5, <1>6

LEMMA SkusAddUp ==
  ASSUME RowsTyped, NEW S \in SUBSET OrderNos
  PROVE  LET groups == GroupedBySku(S)
             keys == DOMAIN groups
         IN  /\ IsFiniteSet(keys)
             /\ \A v \in keys : /\ groups[v].revenue \in Nat
                               /\ groups[v].count <= Cardinality(S)
             /\ SumFunctionOnSet([v \in keys |-> groups[v].revenue], keys)
                  = LineRevenue(DetailsOf(S))
<1> DEFINE groups == GroupedBySku(S)
           D == DetailsOf(S)
           keys == {details[d].sku : d \in D}
           at(v) == {d \in D : details[d].sku = v}
           key == [d \in D |-> details[d].sku]
<1>1. D \in SUBSET DetailNos
  BY DEF DetailsOf
<1>2. /\ IsFiniteSet(D) /\ LineRevenue(D) = SumFunctionOnSet(LineAmount, D)
      /\ \A d \in DetailNos : LineAmount[d] \in Nat
  <2> HIDE DEF D
  <2> QED BY <1>1, LineRevenueMeans
<1>3. IsFiniteSet(keys)
  <2> HIDE DEF D
  <2>1. IsFiniteSet({key[d] : d \in D})
    <3> HIDE DEF key
    <3> QED BY <1>2, FiniteImage
  <2> QED BY <2>1
<1>4. key \in [D -> keys] /\ \A v : {d \in D : key[d] = v} = at(v)
  OBVIOUS
<1>5. DOMAIN groups = keys
  BY DEF GroupedBySku
<1>6. ASSUME NEW v \in keys
      PROVE  /\ groups[v].revenue = SumFunctionOnSet(LineAmount, at(v))
             /\ groups[v].revenue \in Nat
             /\ groups[v].count <= Cardinality(S)
  <2> DEFINE P == at(v)
             O == {details[d].order : d \in P}
  <2>1. groups[v] = [count |-> Cardinality(O), revenue |-> LineRevenue(P)]
    BY DEF GroupedBySku
  <2>2. P \in SUBSET DetailNos
    BY <1>1
  <2>3. O \subseteq S
    BY DEF DetailsOf
  <2> HIDE DEF O, P, groups
  <2>4. Cardinality(O) <= Cardinality(S)
    BY <2>3, ReportsAssumption, FS_Subset
  <2>5. LineRevenue(P) = SumFunctionOnSet(LineAmount, P) /\ LineRevenue(P) \in Nat
    BY <2>2, LineRevenueMeans
  <2> QED BY <2>1, <2>4, <2>5 DEF P
<1> DEFINE revenues == [v \in keys |-> groups[v].revenue]
           sums == [v \in keys |-> SumFunctionOnSet(LineAmount, {d \in D : key[d] = v})]
<1>7. SumFunctionOnSet(sums, keys) = LineRevenue(D)
  <2>1. \A d \in D : LineAmount[d] \in Int
    BY <1>1, <1>2
  <2> HIDE DEF keys, key, D
  <2> QED BY <1>2, <1>3, <1>4, <2>1, SumByKey
<1>8. revenues = sums
  BY <1>4, <1>6
<1> HIDE DEF groups, revenues, sums, keys, D
<1>9. SumFunctionOnSet(revenues, keys) = LineRevenue(D)
  BY <1>7, <1>8
<1> QED BY <1>3, <1>5, <1>6, <1>9 DEF revenues, groups, D

(* A ranking shows a part of the revenue, and all of it when it shows       *)
(* fewer groups than it may.                                               *)
LEMMA TopAddsUp ==
  ASSUME NEW groups, IsFiniteSet(DOMAIN groups),
         \A v \in DOMAIN groups : groups[v].revenue \in Nat,
         NEW revenue,
         SumFunctionOnSet([v \in DOMAIN groups |-> groups[v].revenue], DOMAIN groups) = revenue,
         NEW n \in Nat, NEW top \in TopOf(groups, n)
  PROVE  /\ DOMAIN top \subseteq DOMAIN groups
         /\ \A v \in DOMAIN top : top[v] = groups[v]
         /\ Total(top) <= revenue
         /\ Cardinality(DOMAIN top) < n => Total(top) = revenue
<1> DEFINE keys == DOMAIN groups
           f == [v \in keys |-> groups[v].revenue]
<1>1. /\ IsFiniteSet(keys)
      /\ \A v \in keys : groups[v].revenue \in Nat
      /\ SumFunctionOnSet(f, keys) = revenue
  OBVIOUS
<1> HIDE DEF keys
<1>2. PICK chosen \in Top(groups, n) : top = [v \in chosen |-> groups[v]]
  BY DEF TopOf
<1>3. chosen \in SUBSET keys /\ Cardinality(chosen) = Min({n, Cardinality(keys)})
  BY <1>1, <1>2 DEF Top, keys
<1>4. IsFiniteSet(chosen) /\ Cardinality(chosen) \in Nat /\ Cardinality(keys) \in Nat
  BY <1>1, <1>3, FS_Subset, FS_CardinalityType
<1>5. Total(top) = SumFunctionOnSet(f, chosen)
  <2> DEFINE g == [v \in chosen |-> top[v].revenue]
  <2>1. DOMAIN top = chosen
    BY <1>2
  <2>2. Total(top) = SumFunctionOnSet(g, chosen)
    BY <2>1 DEF Total, SumFunction
  <2>3. \A v \in chosen : g[v] = f[v]
    BY <1>2, <1>3
  <2> HIDE DEF f, g
  <2>4. SumFunctionOnSet(g, chosen) = SumFunctionOnSet(f, chosen)
    BY <1>4, <2>3, SumSame
  <2> QED BY <2>2, <2>4
<1>6. SumFunctionOnSet(f, chosen) <= SumFunctionOnSet(f, keys)
  <2>1. \A v \in keys : f[v] \in Nat
    BY <1>1
  <2> HIDE DEF f
  <2> QED BY <1>1, <1>3, <2>1, SumGrows
<1>7. ASSUME Cardinality(DOMAIN top) < n PROVE chosen = keys
  <2>1. Cardinality(chosen) < n
    BY <1>2, <1>7
  <2>2. Min({n, Cardinality(keys)}) \in {n, Cardinality(keys)}
    <3>1. {n, Cardinality(keys)} \subseteq Nat /\ {n, Cardinality(keys)} # {}
      BY <1>4
    <3> QED BY <3>1, MinOfNat
  <2>3. Cardinality(chosen) = Cardinality(keys)
    BY <1>3, <1>4, <2>1, <2>2
  <2> QED BY <1>1, <1>3, <2>3, FS_Subset
<1> QED BY <1>1, <1>2, <1>3, <1>5, <1>6, <1>7 DEF keys

(* Suppliers.                                                              *)
LEMMA SuppliersFinite ==
  ASSUME NEW S \in SUBSET SupplierNos
  PROVE  IsFiniteSet(S) /\ Cardinality(S) \in Nat
  BY ReportsAssumption, FS_Subset, FS_CardinalityType

LEMMA AskedSuppliers == \A p : Asked(p) \in SUBSET SupplierNos
  BY DEF Asked

LEMMA ActiveOrNot ==
  ASSUME RowsTyped, NEW S \in SUBSET SupplierNos
  PROVE  Cardinality({s \in S : partners[s].active = TRUE})
           + Cardinality({s \in S : partners[s].active = FALSE}) = Cardinality(S)
<1> DEFINE A == {s \in S : partners[s].active = TRUE}
           B == {s \in S : partners[s].active = FALSE}
<1>1. \A s \in S : partners[s].active \in BOOLEAN
  BY DEF RowsTyped, SupplierRow
<1>2. A \cup B = S /\ A \cap B = {}
  BY <1>1
<1> HIDE DEF A, B
<1> QED BY <1>2, SuppliersFinite, Parted DEF A, B

LEMMA RatedMeans ==
  ASSUME RowsTyped, NEW S \in SUBSET SupplierNos
  PROVE  /\ Rated(S) \in SUBSET SupplierNos
         /\ \A s \in Rated(S) : partners[s].rating \in 0..50
         /\ Cardinality(Rated(S)) + Cardinality(S \ Rated(S)) = Cardinality(S)
         /\ RatingStats(S).count = Cardinality(Rated(S))
         /\ RatingStats(S).min <= RatingStats(S).max
         /\ RatingStats(S).sum <= 50 * Cardinality(S)
<1> DEFINE R == Rated(S)
           values == {partners[s].rating : s \in R}
           f == [s \in R |-> partners[s].rating]
           h == [s \in S |-> 50]
<1>1. R \in SUBSET S
  BY DEF Rated
<1>2. \A s \in R : partners[s].rating \in 0..50
  BY DEF Rated, RowsTyped, SupplierRow
<1>3. Cardinality(R) + Cardinality(S \ R) = Cardinality(S)
  <2>1. R \cup (S \ R) = S /\ R \cap (S \ R) = {}
    BY <1>1
  <2> HIDE DEF R
  <2> QED BY <2>1, SuppliersFinite, Parted
<1>4. RatingStats(S) = [count |-> Cardinality(R), sum |-> SumFunction(f),
                        min |-> IF values = {} THEN 0 ELSE Min(values),
                        max |-> IF values = {} THEN 0 ELSE Max(values)]
  BY DEF RatingStats
<1>5. values # {} => Min(values) <= Max(values)
  <2> SUFFICES ASSUME values # {} PROVE Min(values) <= Max(values)
    OBVIOUS
  <2>1. IsFiniteSet(values)
    <3>1. IsFiniteSet(R) /\ {f[s] : s \in R} = values
      BY <1>1, SuppliersFinite
    <3> HIDE DEF f, R, values
    <3> QED BY <3>1, FiniteImage
  <2>2. values \subseteq Nat /\ \A v \in values : v \in Int
    BY <1>2
  <2> HIDE DEF values
  <2>3. Min(values) \in values /\ \A v \in values : v <= Max(values)
    BY <2>1, <2>2, MinOfNat, MaxOfFinite
  <2> QED BY <2>3
<1>6. SumFunction(f) <= 50 * Cardinality(S)
  <2>1. SumFunction(f) = SumFunctionOnSet(f, R)
    BY DEF SumFunction
  <2>2. IsFiniteSet(R) /\ IsFiniteSet(S)
    BY <1>1, SuppliersFinite
  <2> DEFINE same == [s \in R |-> s]
  <2>3. SumFunctionOnSet(f, R) <= SumFunctionOnSet(h, S)
    <3>1. /\ same \in [R -> S] /\ \A x, y \in R : same[x] = same[y] => x = y
          /\ \A s \in S : h[s] \in Nat
          /\ \A s \in R : f[s] \in Int /\ f[s] <= h[same[s]]
      BY <1>1, <1>2
    <3> HIDE DEF R, f, h, same
    <3> QED BY <2>2, <3>1, SumBounded
  <2>4. SumFunctionOnSet(h, S) = 50 * Cardinality(S)
    <3>1. \A s \in S : h[s] = 50
      OBVIOUS
    <3> HIDE DEF h
    <3> QED BY <2>2, <3>1, SumOfSame
  <2> HIDE DEF f, h
  <2> QED BY <2>1, <2>3, <2>4
<1> HIDE DEF R, f, values
<1>7. RatingStats(S).min <= RatingStats(S).max
  BY <1>4, <1>5
<1>8. RatingStats(S).count = Cardinality(R) /\ RatingStats(S).sum = SumFunction(f)
  BY <1>4
<1> QED BY <1>1, <1>2, <1>3, <1>6, <1>7, <1>8 DEF R

(* Every rating is in one range.                                           *)
LEMMA RangesAddUp ==
  ASSUME RowsTyped, NEW S \in SUBSET SupplierNos
  PROVE  SumFunction(RatingDistribution(S)) = Cardinality(Rated(S))
<1> DEFINE R == Rated(S)
           range(r) == IF r = 50 THEN 4 ELSE r \div 10
           key == [s \in R |-> range(partners[s].rating)]
           cards == [k \in RangesOfRating |-> Cardinality({s \in R : key[s] = k})]
<1>1. \A s \in R : partners[s].rating \in 0..50
  BY RatedMeans
<1>2. \A r \in 0..50 : /\ range(r) \in 0..4
                       /\ \A k \in 0..4 :
                            range(r) = k <=> /\ r >= 10 * k
                                             /\ r < IF k = 4 THEN 51 ELSE 10 * (k + 1)
  OBVIOUS
<1>3. key \in [R -> RangesOfRating]
  BY <1>1, <1>2 DEF RangesOfRating
<1>4. \A k \in RangesOfRating : {s \in S : InRange(s, k)} = {s \in R : key[s] = k}
  <2> TAKE k \in RangesOfRating
  <2>1. \A s \in S : InRange(s, k) <=> s \in R /\ key[s] = k
    <3> TAKE s \in S
    <3>1. CASE s \notin R
      BY <3>1 DEF Rated, InRange
    <3>2. CASE s \in R
      <4> DEFINE r == partners[s].rating
      <4>1. r \in 0..50 /\ key[s] = range(r) /\ k \in 0..4 /\ r # Nothing
        BY <1>1, <3>2 DEF RangesOfRating, Rated
      <4>2. InRange(s, k) <=> r >= 10 * k /\ r < IF k = 4 THEN 51 ELSE 10 * (k + 1)
        BY <4>1 DEF InRange
      <4> HIDE DEF r, range, key, R
      <4> QED BY <1>2, <3>2, <4>1, <4>2
    <3> QED BY <3>1, <3>2
  <2>2. R \subseteq S
    BY DEF Rated
  <2> HIDE DEF key, R
  <2> QED BY <2>1, <2>2
<1>5. RatingDistribution(S) = cards
  BY <1>4 DEF RatingDistribution
<1>6. SumFunction(cards) = SumFunctionOnSet(cards, RangesOfRating)
  BY DEF SumFunction
<1>7. IsFiniteSet(R) /\ IsFiniteSet(RangesOfRating)
  <2>1. IsFiniteSet(0..4)
    <3>1. \A a, b \in Int : IsFiniteSet(a..b)
      BY FS_Interval
    <3>2. 0 \in Int /\ 4 \in Int
      OBVIOUS
    <3> QED BY <3>1, <3>2, Zenon
  <2>2. IsFiniteSet(R)
    BY RatedMeans, SuppliersFinite
  <2> QED BY <2>1, <2>2 DEF RangesOfRating
<1> HIDE DEF key, R
<1>8. SumFunctionOnSet(cards, RangesOfRating) = Cardinality(R)
  BY <1>3, <1>7, CountByKey
<1> QED BY <1>5, <1>6, <1>8 DEF R

(* Every supplier with a category is counted once by its category.         *)
LEMMA CategoriesAddUp ==
  ASSUME NEW S \in SUBSET SupplierNos
  PROVE  LET without == {s \in S : partners[s].category = Nothing}
         IN  SumFunction(ByCategory(S)) = Cardinality(S) - Cardinality(without)
<1> DEFINE without == {s \in S : partners[s].category = Nothing}
           with == S \ without
           K == {partners[s].category : s \in S}
           L == {partners[s].category : s \in with}
           key == [s \in with |-> partners[s].category]
           at(v) == {s \in with : key[s] = v}
           cards == [v \in L |-> Cardinality(at(v))]
           by == ByCategory(S)
<1>1. IsFiniteSet(S) /\ IsFiniteSet(with)
  BY SuppliersFinite
<1>2. IsFiniteSet(K) /\ IsFiniteSet(L) /\ L \subseteq K
  <2> DEFINE c == [s \in S |-> partners[s].category]
  <2>1. IsFiniteSet({c[s] : s \in S}) /\ IsFiniteSet({c[s] : s \in with})
    <3> HIDE DEF c, with
    <3> QED BY <1>1, FiniteImage
  <2>2. {c[s] : s \in S} = K /\ {c[s] : s \in with} = L
    OBVIOUS
  <2> QED BY <2>1, <2>2
<1>3. SumFunction(by) = SumFunctionOnSet(by, K)
  BY DEF SumFunction, ByCategory
<1>4. \A v \in K : by[v] = IF v = Nothing THEN 0
                           ELSE Cardinality({s \in S : partners[s].category = v})
  BY DEF ByCategory
<1>5. \A v \in L : v # Nothing /\ {s \in S : partners[s].category = v} = at(v)
  OBVIOUS
<1>6. \A v \in L : cards[v] \in Int /\ by[v] = cards[v]
  <2> TAKE v \in L
  <2>1. cards[v] = Cardinality(at(v)) /\ IsFiniteSet(at(v))
    <3>1. at(v) \in SUBSET with
      OBVIOUS
    <3> HIDE DEF at, with
    <3> QED BY <1>1, <3>1, FS_Subset
  <2>2. by[v] = Cardinality(at(v))
    BY <1>2, <1>4, <1>5
  <2> HIDE DEF at, cards, by
  <2> QED BY <2>1, <2>2, FS_CardinalityType
<1>7. \A v \in K \ L : by[v] = 0
  <2> TAKE v \in K \ L
  <2>1. v = Nothing
    OBVIOUS
  <2> QED BY <1>4, <2>1
<1>8. key \in [with -> L]
  OBVIOUS
<1> HIDE DEF K, L, by
<1>9. SumFunctionOnSet(cards, L) = Cardinality(with)
  <2> HIDE DEF with, key
  <2> QED BY <1>1, <1>2, <1>8, CountByKey
<1>10. SumFunctionOnSet(by, K) = SumFunctionOnSet(cards, L)
  <2> HIDE DEF cards
  <2> QED BY <1>2, <1>6, <1>7, SumExtended
<1>11. /\ Cardinality(without) + Cardinality(with) = Cardinality(S)
       /\ Cardinality(without) \in Nat /\ Cardinality(with) \in Nat
  <2>1. without \cup with = S /\ without \cap with = {}
    OBVIOUS
  <2> HIDE DEF without, with
  <2> QED BY <1>1, <2>1, Parted
<1> HIDE DEF with, without
<1>12. Cardinality(with) = Cardinality(S) - Cardinality(without)
  BY <1>11
<1> QED BY <1>3, <1>9, <1>10, <1>12 DEF by, without

(* Months: the periods lie within and beside each other.                   *)
LEMMA PeriodsNest ==
  ASSUME RowsTyped, NEW S \in SUBSET SupplierNos, NEW now \in {13, 14}
  PROVE  LET c == Created(S, now)
         IN  /\ c.thisMonth <= c.thisYear
             /\ c.thisYear + c.lastYear <= Cardinality(S)
             /\ c.lastMonth <= IF now = 13 THEN c.lastYear
                               ELSE c.thisYear - c.thisMonth
<1> DEFINE In(from, to) == {s \in S : /\ partners[s].month >= from
                                      /\ to = Nothing \/ partners[s].month < to}
           c == Created(S, now)
<1>1. \A s \in S : partners[s].month \in Int
  BY DEF RowsTyped, SupplierRow
<1>2. \A T \in SUBSET S : IsFiniteSet(T) /\ Cardinality(T) \in Nat
  BY SuppliersFinite
<1>3. \A T, U \in SUBSET S : T \subseteq U => Cardinality(T) <= Cardinality(U)
  <2> TAKE T, U \in SUBSET S
  <2> HAVE T \subseteq U
  <2> QED BY <1>2, FS_Subset
<1>4. ASSUME NEW T \in SUBSET S, NEW U \in SUBSET S, NEW W \in SUBSET S,
             T \cap U = {}, T \subseteq W, U \subseteq W
      PROVE  Cardinality(T) + Cardinality(U) <= Cardinality(W)
  <2>1. /\ Cardinality(T) + Cardinality(U) = Cardinality(T \cup U)
    <3>1. IsFiniteSet(T \cup U)
      BY <1>2
    <3> QED BY <1>4, <3>1, Parted
  <2>2. Cardinality(T \cup U) <= Cardinality(W)
    BY <1>3, <1>4
  <2> QED BY <2>1, <2>2
<1>5. /\ c.thisMonth = Cardinality(In(now, Nothing))
      /\ c.thisYear = Cardinality(In(13, Nothing))
      /\ c.lastMonth = Cardinality(In(now - 1, now))
      /\ c.lastYear = Cardinality(In(1, 13))
  BY DEF Created, CreatedIn
<1>6. /\ In(now, Nothing) \subseteq In(13, Nothing)
      /\ In(13, Nothing) \cap In(1, 13) = {}
      /\ now = 13 => In(now - 1, now) \subseteq In(1, 13)
      /\ now = 14 => /\ In(now - 1, now) \cap In(now, Nothing) = {}
                     /\ In(now - 1, now) \subseteq In(13, Nothing)
  <2>1. 13 # Nothing /\ 14 # Nothing
    BY ReportsAssumption
  <2>2. \A s \in S : /\ s \in In(now, Nothing) <=> partners[s].month >= now
                     /\ s \in In(13, Nothing) <=> partners[s].month >= 13
                     /\ s \in In(1, 13) <=> partners[s].month >= 1 /\ partners[s].month < 13
                     /\ s \in In(now - 1, now)
                          <=> partners[s].month >= now - 1 /\ partners[s].month < now
    BY <2>1
  <2>3. \A from, to : In(from, to) \subseteq S
    OBVIOUS
  <2> HIDE DEF In
  <2>4. In(now, Nothing) \subseteq In(13, Nothing)
    BY <1>1, <2>2, <2>3
  <2>5. In(13, Nothing) \cap In(1, 13) = {}
    BY <1>1, <2>2, <2>3
  <2>6. now = 13 => In(now - 1, now) \subseteq In(1, 13)
    BY <1>1, <2>2, <2>3
  <2>7. now = 14 => /\ In(now - 1, now) \cap In(now, Nothing) = {}
                    /\ In(now - 1, now) \subseteq In(13, Nothing)
    BY <1>1, <2>2, <2>3
  <2> QED BY <2>4, <2>5, <2>6, <2>7
<1>7. \A from, to : In(from, to) \in SUBSET S
  OBVIOUS
<1> HIDE DEF In, c
<1>8. c.thisMonth <= c.thisYear
  BY <1>3, <1>5, <1>6, <1>7
<1>9. c.thisYear + c.lastYear <= Cardinality(S)
  BY <1>4, <1>5, <1>6, <1>7
<1>10. CASE now = 13
  <2>1. c.lastMonth <= c.lastYear
    BY <1>3, <1>5, <1>6, <1>7, <1>10
  <2> QED BY <1>8, <1>9, <1>10, <2>1 DEF c
<1>11. CASE now = 14
  <2>1. Cardinality(In(now - 1, now)) + Cardinality(In(now, Nothing))
          <= Cardinality(In(13, Nothing))
    BY <1>4, <1>6, <1>7, <1>11
  <2>2. c.lastMonth \in Nat /\ c.thisMonth \in Nat /\ c.thisYear \in Nat
    BY <1>2, <1>5, <1>7
  <2>3. c.lastMonth <= c.thisYear - c.thisMonth
    BY <1>5, <2>1, <2>2
  <2> QED BY <1>8, <1>9, <1>11, <2>3 DEF c
<1> QED BY <1>10, <1>11

(* Groups by category add up to the suppliers asked for.                   *)
LEMMA CustomAddsUp ==
  ASSUME RowsTyped, NEW S \in SUBSET SupplierNos, NEW metrics, "count" \in metrics
  PROVE  Count(CustomGroups(S, metrics)) = Cardinality(S)
<1> DEFINE K == {partners[s].category : s \in S}
           key == [s \in S |-> partners[s].category]
           groups == CustomGroups(S, metrics)
           counts == [v \in K |-> groups[v].count]
           cards == [v \in K |-> Cardinality({s \in S : key[s] = v})]
<1>1. IsFiniteSet(S)
  BY SuppliersFinite
<1>2. IsFiniteSet(K)
  <2>1. IsFiniteSet({key[s] : s \in S})
    <3> HIDE DEF key
    <3> QED BY <1>1, FiniteImage
  <2> QED BY <2>1
<1>3. key \in [S -> K]
  OBVIOUS
<1>4. DOMAIN groups = K /\ \A v \in K :
        groups[v].count = Cardinality({s \in S : partners[s].category = v})
  <2>1. DOMAIN groups = K
    BY DEF CustomGroups
  <2>2. ASSUME NEW v \in K
        PROVE  groups[v].count = Cardinality({s \in S : partners[s].category = v})
    <3> DEFINE group == {s \in S : partners[s].category = v}
    <3>1. groups[v] = [count |-> IF "count" \in metrics THEN Cardinality(group) ELSE 0,
                       stats |-> RatingStats(group)]
      BY DEF CustomGroups
    <3> HIDE DEF group, groups
    <3>2. groups[v].count = Cardinality(group)
      BY <3>1
    <3> QED BY <3>2 DEF group
  <2> QED BY <2>1, <2>2
<1>5. counts = cards
  <2>1. \A v : {s \in S : key[s] = v} = {s \in S : partners[s].category = v}
    OBVIOUS
  <2> QED BY <1>4, <2>1
<1>6. Count(groups) = SumFunctionOnSet(counts, K)
  BY <1>4 DEF Count, SumFunction
<1>7. SumFunctionOnSet(cards, K) = Cardinality(S)
  <2> HIDE DEF K, key
  <2> QED BY <1>1, <1>2, <1>3, CountByKey
<1> HIDE DEF groups, counts, cards, K
<1>8. Count(groups) = Cardinality(S)
  BY <1>5, <1>6, <1>7
<1> QED BY <1>8 DEF groups

(* Stock.                                                                  *)
LEMMA StockSums ==
  ASSUME RowsTyped, NEW sku
  PROVE  LET sum == SumOfRows(RowsOf(sku))
             rows == StockByWarehouse(sku)
         IN  /\ sum.available = SumFunction(rows)
             /\ sum.rows = Cardinality(DOMAIN rows)
<1> DEFINE R == RowsOf(sku)
           q == [k \in R |-> held[k].quantity]
           r == [k \in R |-> held[k].reservedQty]
           rows == [k \in R |-> held[k].quantity - held[k].reservedQty]
<1>1. R \subseteq Places \X Goods /\ IsFiniteSet(R)
  <2>1. R \subseteq Places \X Goods
    BY DEF RowsOf, RowsTyped
  <2>2. IsFiniteSet(Places \X Goods)
    BY ReportsAssumption, FS_Product
  <2> HIDE DEF R
  <2> QED BY <2>1, <2>2, FS_Subset
<1>2. \A k \in R : held[k].quantity \in Int /\ held[k].reservedQty \in Int
  <2> TAKE k \in R
  <2>1. held[k] \in StockRow
    BY <1>1 DEF RowsOf, RowsTyped
  <2> QED BY <2>1 DEF StockRow
<1>3. \A k \in R : rows[k] \in Int /\ r[k] \in Int /\ q[k] = rows[k] + r[k]
  BY <1>2
<1>4. /\ StockByWarehouse(sku) = rows
      /\ SumOfRows(R).rows = Cardinality(R)
      /\ SumOfRows(R).available = SumFunctionOnSet(q, R) - SumFunctionOnSet(r, R)
      /\ SumFunction(rows) = SumFunctionOnSet(rows, R) /\ DOMAIN rows = R
  BY DEF StockByWarehouse, SumOfRows, SumFunction
<1>5. SumFunctionOnSet(q, R) = SumFunctionOnSet(rows, R) + SumFunctionOnSet(r, R)
  <2> HIDE DEF q, r, rows, R
  <2> QED BY <1>1, <1>3, SumOfSums
<1>6. SumFunctionOnSet(rows, R) \in Int /\ SumFunctionOnSet(r, R) \in Int
  <2>1. R \in SUBSET R
    OBVIOUS
  <2> HIDE DEF q, r, rows, R
  <2> QED BY <1>1, <1>3, <2>1, SumType
<1> HIDE DEF q, r, rows, R
<1> QED BY <1>4, <1>5, <1>6 DEF R

(* A report whose statements all answered from the same rows.              *)
Asks(kind, p) ==
  \/ kind \in OrderReports /\ p \in OrderQueries
  \/ kind \in SupplierReports /\ p \in SupplierQueries(kind)
  \/ kind = "stock" /\ p \in StockQueries

LEMMA CountedOrders == \A p : Counted(p) \in SUBSET OrderNos
  BY DEF Counted

LEMMA QueriesAsk ==
  ASSUME NEW kind, NEW p, Asks(kind, p)
  PROVE  /\ kind \in SupplierReports => p.now \in {13, 14}
         /\ kind \in OrderReports => p.limit = 1
<1>1. ASSUME kind \in SupplierReports PROVE p.now \in {13, 14}
  <2>1. p \in SupplierQueries(kind)
    BY <1>1 DEF Asks, OrderReports, SupplierReports
  <2>2. PICK a \in ActivitiesAsked, m \in MetricsOf(kind), now \in MonthsOf(kind) :
          p = SupplierQuery(a, m, now)
    BY <2>1, SMT DEF SupplierQueries
  <2>3. p.now = now
    BY <2>2 DEF SupplierQuery, Query
  <2> QED BY <2>3 DEF MonthsOf
<1>2. ASSUME kind \in OrderReports PROVE p.limit = 1
  <2>1. p \in OrderQueries
    BY <1>2 DEF Asks, OrderReports, SupplierReports
  <2>2. PICK f, t \in {Nothing, 2}, c \in {Nothing, "c"} :
          p = [Query EXCEPT !.from = f, !.to = t, !.customer = c]
    BY <2>1, SMT DEF OrderQueries
  <2> QED BY <2>2 DEF Query
<1> QED BY <1>1, <1>2

LEMMA OrdersReportsAddUp ==
  ASSUME RowsTyped, NEW kind \in OrderReports, NEW p, p.limit \in Nat, NEW read,
         \A piece \in Statements(kind) : read[piece] \in Answers(kind, piece, p)
  PROVE  OrdersAddUp(kind, p, read)
<1>1. CASE kind = "overview"
  <2>1. /\ read.totals = CountAndSum(Counted(p))
        /\ read.byStatus = GroupedBy(Status, Counted(p))
    <3>1. "totals" \in Statements(kind) /\ "byStatus" \in Statements(kind)
      BY <1>1 DEF Statements
    <3>2. /\ Answers(kind, "totals", p) = {CountAndSum(Counted(p))}
          /\ Answers(kind, "byStatus", p) = {GroupedBy(Status, Counted(p))}
      BY DEF Answers
    <3> QED BY <3>1, <3>2
  <2>2. /\ DOMAIN read.byStatus = {Status[o] : o \in Counted(p)}
        /\ Count(read.byStatus) = Cardinality(Counted(p))
        /\ Total(read.byStatus) = Revenue(Counted(p))
    BY <2>1, CountedOrders, GroupsAddUp
  <2>3. DOMAIN read.byStatus \cap {"DRAFT", "CANCELLED"} = {}
    BY <2>2 DEF Counted, Status
  <2> QED BY <1>1, <2>1, <2>2, <2>3 DEF OrdersAddUp, CountAndSum
<1>2. CASE kind = "summary"
  <2>1. /\ read.totalOrders = Cardinality(OfCustomer(p))
        /\ read.openOrders = Cardinality(OpenOrders(p))
        /\ read.totalValue = Revenue(OfCustomer(p))
        /\ read.openValue = Revenue(OpenOrders(p))
    <3>1. {"totalOrders", "openOrders", "totalValue", "openValue"} \subseteq Statements(kind)
      BY <1>2 DEF Statements
    <3>2. /\ Answers(kind, "totalOrders", p) = {Cardinality(OfCustomer(p))}
          /\ Answers(kind, "openOrders", p) = {Cardinality(OpenOrders(p))}
          /\ Answers(kind, "totalValue", p) = {Revenue(OfCustomer(p))}
          /\ Answers(kind, "openValue", p) = {Revenue(OpenOrders(p))}
      BY DEF Answers
    <3> QED BY <3>1, <3>2
  <2> DEFINE S == OfCustomer(p)
             T == OpenOrders(p)
  <2>2. S \in SUBSET OrderNos /\ T \in SUBSET S /\ T \in SUBSET OrderNos
    BY DEF OfCustomer, OpenOrders
  <2> HIDE DEF S, T
  <2>3. IsFiniteSet(S) /\ Revenue(S) = SumFunctionOnSet(Amount, S)
        /\ Revenue(T) = SumFunctionOnSet(Amount, T)
        /\ \A o \in S : Amount[o] \in Nat
    BY <2>2, RevenueMeans
  <2>4. Cardinality(T) <= Cardinality(S)
    BY <2>2, <2>3, FS_Subset
  <2>5. SumFunctionOnSet(Amount, T) <= SumFunctionOnSet(Amount, S)
    BY <2>2, <2>3, SumGrows
  <2> QED BY <1>2, <2>1, <2>3, <2>4, <2>5 DEF OrdersAddUp, S, T
<1>3. CASE kind = "series"
  <2>1. read.series = GroupedBy(Day, Counted(p))
    <3>1. "series" \in Statements(kind)
      BY <1>3 DEF Statements
    <3>2. Answers(kind, "series", p) = {GroupedBy(Day, Counted(p))}
      BY DEF Answers
    <3> QED BY <3>1, <3>2
  <2>2. /\ Count(read.series) = Cardinality(Counted(p))
        /\ Total(read.series) = Revenue(Counted(p))
    BY <2>1, CountedOrders, GroupsAddUp
  <2> QED BY <1>3, <2>2 DEF OrdersAddUp, CountAndSum
<1>4. CASE kind = "customers"
  <2> DEFINE all == Counted([p EXCEPT !.customer = Nothing])
             groups == GroupedBy(Customer, all)
  <2>1. read.top \in TopOf(groups, p.limit)
    <3>1. "top" \in Statements(kind)
      BY <1>4 DEF Statements
    <3>2. Answers(kind, "top", p) = TopOf(groups, p.limit)
      BY <1>4 DEF Answers
    <3> QED BY <3>1, <3>2
  <2>2. /\ IsFiniteSet(DOMAIN groups)
        /\ \A v \in DOMAIN groups : groups[v].revenue \in Nat
        /\ SumFunctionOnSet([v \in DOMAIN groups |-> groups[v].revenue], DOMAIN groups)
             = Revenue(all)
    BY CountedOrders, GroupsAddUp
  <2> HIDE DEF groups, all
  <2>3. /\ Total(read.top) <= Revenue(all)
        /\ Cardinality(DOMAIN read.top) < p.limit => Total(read.top) = Revenue(all)
    BY <2>1, <2>2, TopAddsUp
  <2> QED BY <1>4, <2>3 DEF OrdersAddUp, PartOf, all
<1>5. CASE kind = "skus"
  <2> DEFINE S == Counted(p)
             groups == GroupedBySku(S)
             all == LineRevenue(DetailsOf(S))
  <2>1. read.top \in TopOf(groups, p.limit)
    <3>1. "top" \in Statements(kind)
      BY <1>5 DEF Statements
    <3>2. Answers(kind, "top", p) = TopOf(groups, p.limit)
      BY <1>5 DEF Answers
    <3> QED BY <3>1, <3>2
  <2>2. /\ IsFiniteSet(DOMAIN groups)
        /\ \A v \in DOMAIN groups : /\ groups[v].revenue \in Nat
                                    /\ groups[v].count <= Cardinality(S)
        /\ SumFunctionOnSet([v \in DOMAIN groups |-> groups[v].revenue], DOMAIN groups) = all
    BY CountedOrders, SkusAddUp
  <2> HIDE DEF groups, all, S
  <2>3. /\ DOMAIN read.top \subseteq DOMAIN groups
        /\ \A v \in DOMAIN read.top : read.top[v] = groups[v]
        /\ Total(read.top) <= all
        /\ Cardinality(DOMAIN read.top) < p.limit => Total(read.top) = all
    BY <2>1, <2>2, TopAddsUp
  <2>4. \A v \in DOMAIN read.top : read.top[v].count <= Cardinality(S)
    BY <2>2, <2>3
  <2> QED BY <1>5, <2>3, <2>4 DEF OrdersAddUp, PartOf, all, S
<1> QED BY <1>1, <1>2, <1>3, <1>4, <1>5 DEF OrderReports

LEMMA SuppliersReportsAddUp ==
  ASSUME RowsTyped, NEW kind \in SupplierReports, NEW p, p.now \in {13, 14}, NEW read,
         \A piece \in Statements(kind) : read[piece] \in Answers(kind, piece, p)
  PROVE  SuppliersAddUp(kind, p, read)
<1> DEFINE S == Asked(p)
<1>0. S \in SUBSET SupplierNos
  BY AskedSuppliers
<1>1. CASE kind = "statistics"
  <2>1. /\ read.total = Cardinality(S)
        /\ read.active = Cardinality({s \in S : partners[s].active = TRUE})
        /\ read.inactive = Cardinality({s \in S : partners[s].active = FALSE})
        /\ read.ratings = RatingStats(S)
        /\ read.byCategory = ByCategory(S)
        /\ read.ratingDistribution = RatingDistribution(S)
        /\ read.created = Created(S, p.now)
        /\ read.unrated = Cardinality(S \ Rated(S))
    <3>1. {"total", "active", "inactive", "ratings", "byCategory",
           "ratingDistribution", "created", "unrated"} \subseteq Statements(kind)
      BY <1>1 DEF Statements
    <3>2. /\ Answers(kind, "total", p) = {Cardinality(S)}
          /\ Answers(kind, "active", p) = {OfActivity(kind, p, TRUE)}
          /\ Answers(kind, "inactive", p) = {OfActivity(kind, p, FALSE)}
          /\ Answers(kind, "ratings", p) = {RatingStats(S)}
      BY DEF Answers
    <3>3. /\ Answers(kind, "byCategory", p) = {ByCategory(S)}
          /\ Answers(kind, "ratingDistribution", p) = {RatingDistribution(S)}
          /\ Answers(kind, "created", p) = {Created(S, p.now)}
          /\ Answers(kind, "unrated", p) = {Cardinality(S \ Rated(S))}
      BY DEF Answers
    <3>4. \A b : OfActivity(kind, p, b)
                   = Cardinality({s \in S : partners[s].active = b})
      BY <1>1 DEF OfActivity
    <3> HIDE DEF S
    <3> QED BY <3>1, <3>2, <3>3, <3>4
  <2> HIDE DEF S
  <2>2. read.active + read.inactive = read.total
    BY <1>0, <2>1, ActiveOrNot
  <2>3. /\ Cardinality(Rated(S)) + Cardinality(S \ Rated(S)) = Cardinality(S)
        /\ RatingStats(S).count = Cardinality(Rated(S))
        /\ RatingStats(S).min <= RatingStats(S).max
    BY <1>0, RatedMeans
  <2>4. SumFunction(RatingDistribution(S)) = Cardinality(Rated(S))
    BY <1>0, RangesAddUp
  <2>5. SumFunction(ByCategory(S)) =
          Cardinality(S) - Cardinality({s \in S : partners[s].category = Nothing})
    BY <1>0, CategoriesAddUp
  <2>6. /\ read.created.thisMonth <= read.created.thisYear
        /\ read.created.thisYear + read.created.lastYear <= Cardinality(S)
        /\ read.created.lastMonth <=
             IF p.now = 13 THEN read.created.lastYear
             ELSE read.created.thisYear - read.created.thisMonth
    BY <1>0, <2>1, PeriodsNest
  <2> QED BY <1>1, <2>1, <2>2, <2>3, <2>4, <2>5, <2>6 DEF SuppliersAddUp, S
<1>2. CASE kind = "active status"
  <2>1. /\ read.active = Cardinality({s \in SupplierNos : partners[s].active = TRUE})
        /\ read.inactive = Cardinality({s \in SupplierNos : partners[s].active = FALSE})
    <3>1. {"active", "inactive"} \subseteq Statements(kind)
      BY <1>2 DEF Statements
    <3>2. /\ Answers(kind, "active", p) = {OfActivity(kind, p, TRUE)}
          /\ Answers(kind, "inactive", p) = {OfActivity(kind, p, FALSE)}
      BY DEF Answers
    <3>3. \A b : OfActivity(kind, p, b)
                   = Cardinality({s \in SupplierNos : partners[s].active = b})
      BY <1>2 DEF OfActivity
    <3> QED BY <3>1, <3>2, <3>3
  <2>2. SupplierNos \in SUBSET SupplierNos
    OBVIOUS
  <2>3. read.active + read.inactive = Cardinality(SupplierNos)
    BY <2>1, <2>2, ActiveOrNot
  <2> QED BY <1>2, <2>3 DEF SuppliersAddUp
<1>3. CASE kind = "custom"
  <2>1. read.total = Cardinality(S) /\ read.groups = CustomGroups(S, p.metrics)
    <3>1. {"groups", "total"} \subseteq Statements(kind)
      BY <1>3 DEF Statements
    <3>2. /\ Answers(kind, "total", p) = {Cardinality(S)}
          /\ Answers(kind, "groups", p) = {CustomGroups(S, p.metrics)}
      BY DEF Answers
    <3> QED BY <3>1, <3>2
  <2> HIDE DEF S
  <2>2. "count" \in p.metrics => Count(read.groups) = read.total
    BY <1>0, <2>1, CustomAddsUp
  <2> QED BY <1>3, <2>2 DEF SuppliersAddUp
<1>4. CASE kind = "overall"
  <2>1. read.count = Cardinality(S) /\ read.stats = RatingStats(S)
    <3>1. {"count", "stats"} \subseteq Statements(kind)
      BY <1>4 DEF Statements
    <3>2. /\ Answers(kind, "count", p) = {Cardinality(S)}
          /\ Answers(kind, "stats", p) = {RatingStats(S)}
      BY DEF Answers
    <3> QED BY <3>1, <3>2
  <2> HIDE DEF S
  <2>2. read.stats.sum <= 50 * read.count
    BY <1>0, <2>1, RatedMeans
  <2> QED BY <1>4, <2>2 DEF SuppliersAddUp
<1> QED BY <1>1, <1>2, <1>3, <1>4 DEF SupplierReports

LEMMA StockReportAddsUp ==
  ASSUME RowsTyped, NEW p, NEW read,
         \A piece \in Statements("stock") : read[piece] \in Answers("stock", piece, p)
  PROVE  StockAddsUp("stock", read)
<1>1. {"rows", "sum"} \subseteq Statements("stock")
  BY DEF Statements
<1>2. /\ Answers("stock", "rows", p) = {StockByWarehouse(p.sku)}
      /\ Answers("stock", "sum", p) = {SumOfRows(RowsOf(p.sku))}
  BY DEF Answers
<1>3. read.rows = StockByWarehouse(p.sku) /\ read.sum = SumOfRows(RowsOf(p.sku))
  BY <1>1, <1>2
<1> QED BY <1>3, StockSums DEF StockAddsUp

LEMMA AnswersAddUp ==
  ASSUME RowsTyped, NEW kind, NEW p, Asks(kind, p), NEW read,
         \A piece \in Statements(kind) : read[piece] \in Answers(kind, piece, p)
  PROVE  /\ OrdersAddUp(kind, p, read)
         /\ SuppliersAddUp(kind, p, read)
         /\ StockAddsUp(kind, read)
<1>1. CASE kind \in OrderReports
  <2>1. OrdersAddUp(kind, p, read)
    <3>1. p.limit \in Nat
      BY <1>1, QueriesAsk
    <3> QED BY <1>1, <3>1, OrdersReportsAddUp
  <2> QED BY <1>1, <2>1 DEF SuppliersAddUp, StockAddsUp, OrderReports
<1>2. CASE kind \in SupplierReports
  <2>1. SuppliersAddUp(kind, p, read)
    BY <1>2, QueriesAsk, SuppliersReportsAddUp
  <2> QED BY <1>2, <2>1 DEF OrdersAddUp, StockAddsUp, SupplierReports
<1>3. CASE kind = "stock"
  <2>1. StockAddsUp(kind, read)
    BY <1>3, StockReportAddsUp
  <2> QED BY <1>3, <2>1 DEF OrdersAddUp, SuppliersAddUp
<1> QED BY <1>1, <1>2, <1>3 DEF Asks

-----------------------------------------------------------------------------
(* What the statements of an undisturbed report have answered so far.      *)
ReportKnows ==
  /\ Asks(report.kind, report.asked)
  /\ DOMAIN report.read = Statements(report.kind)
  /\ ~disturbed => \A piece \in Statements(report.kind) :
       \/ report.read[piece] = Nothing
       \/ report.read[piece] \in Answers(report.kind, piece, report.asked)

ReportsInv ==
  /\ RowsTyped
  /\ report = [kind |-> report.kind, asked |-> report.asked, read |-> report.read]
  /\ report # NoReport => ReportKnows

ReportStep ==
  InProgress' /\ Unread' = {} /\ ~disturbed =>
    /\ OrdersAddUp(report.kind, report.asked, report'.read)
    /\ SuppliersAddUp(report.kind, report.asked, report'.read)
    /\ StockAddsUp(report.kind, report'.read)

LEMMA StatementsExist == \A kind : Statements(kind) # {}
<1> TAKE kind
<1>1. CASE kind \in {"summary", "overview", "series", "customers", "skus",
                     "statistics", "active status", "custom", "overall"}
  BY <1>1 DEF Statements
<1>2. CASE kind \notin {"summary", "overview", "series", "customers", "skus",
                        "statistics", "active status", "custom", "overall"}
  BY <1>2 DEF Statements
<1> QED BY <1>1, <1>2

LEMMA AnswersStay ==
  ASSUME UNCHANGED <<orders, details, partners, held>>
  PROVE  /\ RowsTyped' = RowsTyped
         /\ \A kind, piece, p : Answers(kind, piece, p)' = Answers(kind, piece, p)
<1>1. RowsTyped' = RowsTyped
  BY DEF RowsTyped
<1>2. /\ \A S : Revenue(S)' = Revenue(S)
      /\ \A S : CountAndSum(S)' = CountAndSum(S)
      /\ \A p : Counted(p)' = Counted(p)
      /\ \A p : OfCustomer(p)' = OfCustomer(p)
      /\ \A p : OpenOrders(p)' = OpenOrders(p)
  BY DEF Revenue, CountAndSum, Counted, OfCustomer, OpenOrders
<1>3. /\ Status' = Status /\ Day' = Day /\ Customer' = Customer
      /\ \A column, S : GroupedBy(column, S)' = GroupedBy(column, S)
      /\ \A S : GroupedBySku(S)' = GroupedBySku(S)
  BY <1>2 DEF Status, Day, Customer, GroupedBy, DetailsOf, LineRevenue, GroupedBySku
<1>4. /\ \A p : Asked(p)' = Asked(p)
      /\ \A S : Rated(S)' = Rated(S)
      /\ \A S : RatingStats(S)' = RatingStats(S)
      /\ \A S : ByCategory(S)' = ByCategory(S)
      /\ \A S : RatingDistribution(S)' = RatingDistribution(S)
  BY DEF Asked, Rated, RatingStats, ByCategory, RatingDistribution, InRange
<1>5. /\ \A S, now : Created(S, now)' = Created(S, now)
      /\ \A S, m : CustomGroups(S, m)' = CustomGroups(S, m)
      /\ \A kind, p, b : OfActivity(kind, p, b)' = OfActivity(kind, p, b)
  BY <1>4 DEF Created, CreatedIn, CustomGroups, OfActivity
<1>6. /\ \A sku : RowsOf(sku)' = RowsOf(sku)
      /\ \A rows : SumOfRows(rows)' = SumOfRows(rows)
      /\ \A sku : StockByWarehouse(sku)' = StockByWarehouse(sku)
  BY DEF RowsOf, SumOfRows, StockByWarehouse
<1>7. \A kind, piece, p : Answers(kind, piece, p)' = Answers(kind, piece, p)
  BY DEF Answers, Revenue, CountAndSum, Counted, OfCustomer, OpenOrders, Status,
         Day, Customer, GroupedBy, DetailsOf, LineRevenue, GroupedBySku, Top, TopOf, Asked, Rated, RatingStats,
         ByCategory, RatingDistribution, InRange, Created, CreatedIn, CustomGroups,
         OfActivity, RowsOf, SumOfRows, StockByWarehouse
<1> QED BY <1>1, <1>7

LEMMA AskStep ==
  ASSUME ReportsInv, NEW kind, NEW p, Asks(kind, p), AskReport(kind, p)
  PROVE  ReportsInv' /\ ReportStep
<1>1. /\ report' = [kind |-> kind, asked |-> p,
                    read |-> [piece \in Statements(kind) |-> Nothing]]
      /\ UNCHANGED <<orders, details, partners, held, disturbed>>
  BY DEF AskReport
<1>2. RowsTyped'
  BY <1>1 DEF ReportsInv, RowsTyped
<1>3. ReportKnows'
  BY <1>1 DEF ReportKnows, Asks
<1>4. Unread' # {}
  BY <1>1, StatementsExist DEF Unread
<1> QED BY <1>1, <1>2, <1>3, <1>4 DEF ReportsInv, ReportStep

LEMMA PartStep == ReportsInv /\ ReadPart => ReportsInv' /\ ReportStep
<1> SUFFICES ASSUME ReportsInv, ReadPart PROVE ReportsInv' /\ ReportStep
  OBVIOUS
<1>1. PICK kind, asked : kind = report.kind /\ asked = report.asked
  OBVIOUS
<1>2. InProgress /\ UNCHANGED <<orders, details, partners, held, disturbed>>
  BY DEF ReadPart
<1>3. PICK piece \in Unread : \E v \in Answers(kind, piece, asked) :
        report' = [report EXCEPT !.read[piece] = v]
  BY <1>1 DEF ReadPart
<1>4. PICK v \in Answers(kind, piece, asked) :
        report' = [report EXCEPT !.read[piece] = v]
  BY <1>3
<1>5. report' = [kind |-> kind, asked |-> asked, read |-> [report.read EXCEPT ![piece] = v]]
  BY <1>1, <1>4 DEF ReportsInv
<1>6. /\ Asks(kind, asked) /\ DOMAIN report.read = Statements(kind)
      /\ ~disturbed => \A q \in Statements(kind) :
           report.read[q] = Nothing \/ report.read[q] \in Answers(kind, q, asked)
  BY <1>1, <1>2 DEF ReportsInv, ReportKnows, InProgress, NoReport
<1>7. piece \in Statements(kind) /\ DOMAIN report'.read = Statements(kind)
  BY <1>3, <1>5, <1>6 DEF Unread
<1>8. ASSUME ~disturbed
      PROVE  \A q \in Statements(kind) :
               report'.read[q] = Nothing \/ report'.read[q] \in Answers(kind, q, asked)
  <2> TAKE q \in Statements(kind)
  <2>1. report.read[q] = Nothing \/ report.read[q] \in Answers(kind, q, asked)
    BY <1>6, <1>8
  <2>2. report'.read[q] = IF q = piece THEN v ELSE report.read[q]
    BY <1>5, <1>6
  <2> QED BY <2>1, <2>2
<1>9. /\ RowsTyped' = RowsTyped
      /\ \A k, q, p : Answers(k, q, p)' = Answers(k, q, p)
  BY <1>2, AnswersStay
<1>10. RowsTyped'
  BY <1>9 DEF ReportsInv
<1>11. ReportKnows'
  <2>1. report'.kind = kind /\ report'.asked = asked
    BY <1>5
  <2>2. Asks(report.kind, report.asked)'
    BY <1>6, <2>1 DEF Asks
  <2>3. \A q : Answers(report.kind, q, report.asked)' = Answers(kind, q, asked)
    <3>1. \A k, q, p : k = report'.kind /\ p = report'.asked
            => Answers(k, q, p)' = Answers(report.kind, q, report.asked)'
      OBVIOUS
    <3> QED BY <1>9, <2>1, <3>1
  <2> QED BY <1>2, <1>7, <1>8, <2>1, <2>2, <2>3 DEF ReportKnows
<1>12. ReportStep
  <2> SUFFICES ASSUME Unread' = {}, ~disturbed
               PROVE  /\ OrdersAddUp(kind, asked, report'.read)
                      /\ SuppliersAddUp(kind, asked, report'.read)
                      /\ StockAddsUp(kind, report'.read)
    BY <1>1 DEF ReportStep
  <2>1. \A q \in Statements(kind) : report'.read[q] # Nothing
    BY <1>7 DEF Unread
  <2>2. \A q \in Statements(kind) : report'.read[q] \in Answers(kind, q, asked)
    BY <1>8, <2>1
  <2> QED BY <1>6, <2>2, AnswersAddUp DEF ReportsInv
<1>13. report' = [kind |-> report'.kind, asked |-> report'.asked, read |-> report'.read]
  BY <1>5
<1> QED BY <1>10, <1>11, <1>12, <1>13 DEF ReportsInv

(* A statement of an undisturbed report answers; a write disturbs it.      *)
LEMMA WriteDisturbs ==
  ASSUME ReportsInv, Disturb, RowsTyped'
  PROVE  ReportsInv' /\ ReportStep
<1>1. disturbed' = TRUE /\ UNCHANGED report /\ Unread # {} /\ InProgress
  BY DEF Disturb
<1>2. ReportKnows
  BY <1>1 DEF ReportsInv, InProgress, NoReport
<1>3. ReportKnows'
  BY <1>1, <1>2 DEF ReportKnows, Asks
<1>4. Unread' # {}
  BY <1>1 DEF Unread
<1> QED BY <1>1, <1>3, <1>4 DEF ReportsInv, ReportStep

LEMMA OrderWrites ==
  ASSUME ReportsInv, NEW o \in OrderNos, NEW st \in {"OPEN", "CANCELLED"},
         NEW a \in Amounts,
         WriteOrder(o, [orders[o] EXCEPT !.status = st, !.amount = a])
  PROVE  ReportsInv' /\ ReportStep
<1>1. orders[o] \in SalesRow /\ a \in Nat /\ st \in SOStatuses
  BY ReportsAssumption DEF ReportsInv, RowsTyped, SOStatuses
<1>2. [orders[o] EXCEPT !.status = st, !.amount = a] \in SalesRow
  BY <1>1 DEF SalesRow
<1>3. RowsTyped'
  BY <1>2 DEF ReportsInv, RowsTyped, WriteOrder, Disturb
<1> QED BY <1>3, WriteDisturbs DEF WriteOrder

LEMMA PartnerWrites ==
  ASSUME ReportsInv, NEW s \in SupplierNos, NEW a \in BOOLEAN,
         WritePartner(s, [partners[s] EXCEPT !.active = a, !.rating = 0])
  PROVE  ReportsInv' /\ ReportStep
<1>1. partners[s] \in SupplierRow /\ 0 \in 0..50
  BY DEF ReportsInv, RowsTyped
<1>2. [partners[s] EXCEPT !.active = a, !.rating = 0] \in SupplierRow
  BY <1>1 DEF SupplierRow
<1>3. RowsTyped'
  BY <1>2 DEF ReportsInv, RowsTyped, WritePartner, Disturb
<1> QED BY <1>3, WriteDisturbs DEF WritePartner

LEMMA StockWrites ==
  ASSUME ReportsInv, NEW k \in DOMAIN held, NEW a \in Amounts,
         WriteStock(k, [quantity |-> a, reservedQty |-> 0])
  PROVE  ReportsInv' /\ ReportStep
<1>1. a \in Int
  BY ReportsAssumption
<1>2. [quantity |-> a, reservedQty |-> 0] \in StockRow
  BY <1>1 DEF StockRow
<1>3. RowsTyped'
  BY <1>2 DEF ReportsInv, RowsTyped, WriteStock, Disturb
<1> QED BY <1>3, WriteDisturbs DEF WriteStock

LEMMA ReportsNextStep ==
  ReportsInv /\ [ReportsNext]_reportVars
    => ReportsInv' /\ (report' # report => ReportStep)
<1> SUFFICES ASSUME ReportsInv, [ReportsNext]_reportVars
             PROVE  ReportsInv' /\ (report' # report => ReportStep)
  OBVIOUS
<1>1. ASSUME NEW kind, NEW p, Asks(kind, p), AskReport(kind, p)
      PROVE  ReportsInv' /\ ReportStep
  BY <1>1, AskStep
<1>2. CASE ReadPart
  BY <1>2, PartStep
<1>3. CASE OrderReportsNext
  BY <1>1, <1>2, <1>3, OrderWrites DEF OrderReportsNext, Asks
<1>4. CASE SupplierReportsNext
  BY <1>1, <1>2, <1>4, PartnerWrites DEF SupplierReportsNext, Asks
<1>5. CASE StockReportsNext
  BY <1>1, <1>2, <1>5, StockWrites DEF StockReportsNext, Asks
<1>6. CASE UNCHANGED reportVars
  <2>1. UNCHANGED <<orders, details, partners, held, report, disturbed>>
    BY <1>6 DEF reportVars
  <2>2. /\ RowsTyped' = RowsTyped
        /\ \A k, q, p : Answers(k, q, p)' = Answers(k, q, p)
    BY <2>1, AnswersStay
  <2>3. ReportKnows' = ReportKnows
    <3>1. PICK kind, asked : kind = report.kind /\ asked = report.asked
      OBVIOUS
    <3>2. \A q : Answers(report.kind, q, report.asked)' = Answers(kind, q, asked)
      <4>1. \A k, q, p : k = report'.kind /\ p = report'.asked
              => Answers(k, q, p)' = Answers(report.kind, q, report.asked)'
        OBVIOUS
      <4>2. kind = report'.kind /\ asked = report'.asked
        BY <2>1, <3>1
      <4> QED BY <2>2, <4>1, <4>2
    <3>3. Asks(report.kind, report.asked)' = Asks(report.kind, report.asked)
      BY <2>1 DEF Asks
    <3> QED BY <2>1, <3>1, <3>2, <3>3 DEF ReportKnows
  <2> QED BY <2>1, <2>2, <2>3 DEF ReportsInv
<1> QED BY <1>2, <1>3, <1>4, <1>5, <1>6 DEF ReportsNext

(* For any orders, suppliers and stock rows, any query and any order of    *)
(* its statements: a report during which nothing was written adds up.      *)
THEOREM ReportsAreConsistent == ReportsSpec => ReportsAddUp
<1>1. RowsTyped /\ report = NoReport => ReportsInv
  BY DEF ReportsInv, NoReport
<1>2. ReportsInv /\ [ReportsNext]_reportVars => ReportsInv'
  BY ReportsNextStep
<1>3. ReportsInv /\ [ReportsNext]_reportVars
        => [InProgress' /\ Unread' = {} /\ ~disturbed =>
              /\ OrdersAddUp(report.kind, report.asked, report'.read)
              /\ SuppliersAddUp(report.kind, report.asked, report'.read)
              /\ StockAddsUp(report.kind, report'.read)]_report
  BY ReportsNextStep DEF ReportStep
<1> QED BY <1>1, <1>2, <1>3, PTL DEF ReportsSpec, ReportsAddUp

(***************************************************************************)
(* The run.  A behaviour of MCQueries is one of each part.                 *)
(***************************************************************************)
LEMMA FirstReports ==
  ASSUME ReportsFirst, 1..3 \subseteq OrderNos, DetailNos \subseteq 1..5
  PROVE  RowsTyped /\ report = NoReport /\ disturbed = FALSE
<1>1. orders \in [OrderNos -> SalesRow]
  <2>1. \A st \in SOStatuses, who \in Names, day, a \in Nat :
          Order(st, day, who, a) \in SalesRow
    BY DEF Order, SalesRow
  <2>2. Amounts \subseteq Nat
    BY ReportsAssumption
  <2>3. CASE OrdersFirst
    <3>1. PICK st1 \in {"DRAFT", "OPEN", "CLOSED", "CANCELLED"},
               st2 \in {"DRAFT", "OPEN", "CLOSED", "CANCELLED"}, a \in Amounts :
            orders = [o \in OrderNos |->
              CASE o = 1 -> Order(st1, 1, "c", 1)
                [] o = 2 -> Order(st2, 2, "c", a)
                [] OTHER -> Order("OPEN", 2, "d", 2)]
      BY <2>3 DEF OrdersFirst
    <3>2. st1 \in SOStatuses /\ st2 \in SOStatuses /\ a \in Nat
      BY <2>2 DEF SOStatuses
    <3>3. Order(st1, 1, "c", 1) \in SalesRow
      BY <2>1, <3>2 DEF Names
    <3>4. Order(st2, 2, "c", a) \in SalesRow
      BY <2>1, <3>2 DEF Names
    <3>5. Order("OPEN", 2, "d", 2) \in SalesRow
      BY <2>1 DEF Names, SOStatuses
    <3>6. ASSUME NEW o \in OrderNos
          PROVE  (CASE o = 1 -> Order(st1, 1, "c", 1)
                    [] o = 2 -> Order(st2, 2, "c", a)
                    [] OTHER -> Order("OPEN", 2, "d", 2)) \in SalesRow
      <4>1. CASE o = 1
        BY <3>3, <4>1
      <4>2. CASE o = 2
        BY <3>4, <4>2
      <4>3. CASE o # 1 /\ o # 2
        BY <3>5, <4>3
      <4> QED BY <4>1, <4>2, <4>3
    <3> QED BY <3>1, <3>6
  <2>4. CASE orders = [o \in OrderNos |-> Order("DRAFT", 1, "c", 1)]
    <3>1. Order("DRAFT", 1, "c", 1) \in SalesRow
      BY <2>1 DEF Names, SOStatuses
    <3> QED BY <2>4, <3>1
  <2> QED BY <2>3, <2>4 DEF ReportsFirst
<1>2. partners \in [SupplierNos -> SupplierRow]
  <2>1. \A a \in BOOLEAN, c \in {"a", Nothing}, r \in {45, 50, Nothing}, m \in Nat :
          Partner(a, c, r, m) \in SupplierRow
    <3> TAKE a \in BOOLEAN, c \in {"a", Nothing}, r \in {45, 50, Nothing}, m \in Nat
    <3>1. c \in Names \cup {Nothing} /\ r \in (0..50) \cup {Nothing} /\ m \in Int
      BY DEF Names
    <3> QED BY <3>1 DEF Partner, SupplierRow
  <2>2. Partner(TRUE, "a", 45, 14) \in SupplierRow
    BY <2>1
  <2>3. CASE PartnersOfReports
    <3>1. PICK a \in BOOLEAN, c \in {"a", Nothing}, r \in {50, Nothing}, m \in {12, 13} :
            partners = [s \in SupplierNos |->
              IF s = 1 THEN Partner(a, c, r, m) ELSE Partner(TRUE, "a", 45, 14)]
      BY <2>3 DEF PartnersOfReports
    <3>2. Partner(a, c, r, m) \in SupplierRow
      BY <2>1
    <3> QED BY <2>2, <3>1, <3>2
  <2>4. CASE partners = [s \in SupplierNos |-> Partner(TRUE, "a", 45, 14)]
    BY <2>2, <2>4
  <2> QED BY <2>3, <2>4 DEF ReportsFirst
<1>3. held \in [Places \X Goods -> StockRow \cup {Nothing}]
  <2>1. StockRows \subseteq StockRow \cup {Nothing}
    <3>1. Amounts \subseteq Int /\ {0, 1} \subseteq Int
      BY ReportsAssumption
    <3>2. [quantity: Amounts, reservedQty: {0, 1}] \subseteq StockRow
      BY <3>1 DEF StockRow
    <3> QED BY <3>2 DEF StockRows
  <2>2. Nothing \in StockRows
    BY DEF StockRows
  <2> HIDE DEF StockRows
  <2>3. held \in [Places \X Goods -> StockRows]
    BY <2>2 DEF ReportsFirst
  <2> QED BY <2>1, <2>3
<1>4. details \in [DetailNos -> DetailRow]
  <2> DEFINE line(d) ==
        CASE d <= 2 -> [order |-> 1, sku |-> "x", amount |-> 1]
          [] d = 3 -> [order |-> 2, sku |-> "x", amount |-> 1]
          [] OTHER -> [order |-> d - 2, sku |-> "y", amount |-> 2]
  <2>1. ASSUME NEW d \in DetailNos PROVE line(d) \in DetailRow
    <3>1. d \in 1..5 /\ {1, 2, 3} \subseteq OrderNos
      OBVIOUS
    <3>2. CASE d <= 2
      <4>1. line(d) = [order |-> 1, sku |-> "x", amount |-> 1]
        BY <3>2
      <4> QED BY <3>1, <4>1 DEF DetailRow, Names
    <3>3. CASE d = 3
      <4>1. line(d) = [order |-> 2, sku |-> "x", amount |-> 1]
        BY <3>3
      <4> QED BY <3>1, <4>1 DEF DetailRow, Names
    <3>4. CASE d \in {4, 5}
      <4>1. line(d) = [order |-> d - 2, sku |-> "y", amount |-> 2] /\ d - 2 \in {2, 3}
        BY <3>4
      <4> QED BY <3>1, <4>1 DEF DetailRow, Names
    <3> QED BY <3>1, <3>2, <3>3, <3>4
  <2>2. details = [d \in DetailNos |-> line(d)]
    BY Zenon DEF ReportsFirst, Lines
  <2> HIDE DEF line
  <2> QED BY <2>1, <2>2
<1> QED BY <1>1, <1>2, <1>3, <1>4 DEF ReportsFirst, RowsTyped

LEMMA FirstRows ==
  ASSUME 1 \in Keys, NEW first, ListsFirst(first)
  PROVE  NoWalkYet /\ ListingTyped
<1>1. PICK keys \in [RowIds -> Keys], match \in BOOLEAN :
        row = [x \in RowIds |->
          CASE x > first -> [st |-> "free", key |-> 1, match |-> FALSE]
            [] OTHER -> [st |-> "live", key |-> keys[x], match |-> x # 2 \/ match]]
  BY DEF ListsFirst
<1> DEFINE Row == [st: {"free", "live", "gone"}, key: Keys, match: BOOLEAN]
<1>2. ASSUME NEW x \in RowIds PROVE row[x] \in Row
  <2>1. [st |-> "free", key |-> 1, match |-> FALSE] \in Row
    OBVIOUS
  <2>2. [st |-> "live", key |-> keys[x], match |-> x # 2 \/ match] \in Row
    <3>1. (x # 2 \/ match) \in BOOLEAN
      OBVIOUS
    <3> QED BY <3>1
  <2> HIDE DEF Row
  <2> QED BY <1>1, <2>1, <2>2
<1>3. row \in [RowIds -> Row]
  <2> HIDE DEF Row
  <2> QED BY <1>1, <1>2
<1>4. walk = NoWalk /\ touched = {} /\ writes = 0 /\ MaxWrites \in Nat
  BY ListingAssumption DEF ListsFirst, NoWalkYet
<1> QED BY <1>3, <1>4 DEF NoWalkYet, NoWalk, ListingTyped

(* What the runs check of the four parts holds of every instance of them   *)
(* that MCQueries can be given.                                            *)
THEOREM QueriesHold ==
  ASSUME 1 \in Keys, 1..3 \subseteq OrderNos, DetailNos \subseteq 1..5
  PROVE  MCSpec => /\ [](UnitsConvertAsListed /\ PricesHold)
                   /\ WalksReturnEveryRow /\ ReportsAddUp
<1>1. MCInit => /\ UnitsInit /\ PricingInit /\ NoWalkYet /\ ListingTyped
                /\ RowsTyped /\ report = NoReport /\ disturbed = FALSE
  BY FirstReports, FirstRows DEF MCInit
<1>2. [MCNext]_vars => /\ [UnitsNext]_unitVars /\ [PricingNext]_pricingVars
                       /\ [ListingNext]_listVars /\ [ReportsNext]_reportVars
  BY DEF MCNext, vars, ReportsNext
<1>3. MCSpec => UnitsSpec /\ PricingSpec /\ ListingSpec /\ ReportsSpec
  BY <1>1, <1>2, PTL DEF MCSpec, UnitsSpec, PricingSpec, ListingSpec, ReportsSpec
<1> QED BY <1>3, UnitsAgree, TotalsHold, WalksAreComplete, ReportsAreConsistent, PTL
=============================================================================
