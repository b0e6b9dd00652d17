---------------------------- MODULE UnitConversion ----------------------------
(***************************************************************************)
(* The units one SKU can be counted in: its own rows, those of its item     *)
(* where the two have the same base unit, the list the API makes of them    *)
(* and its conversion of a quantity.  The list and the conversion read in   *)
(* several statements, and units change between two of them.                *)
(*                                                                         *)
(* ItemCatalog has the requests that write these rows, and their races;     *)
(* here a write is one step, and what counts is the factor it leaves.       *)
(* Unit codes fill their CHAR(10) column (see ItemCatalog for shorter ones). *)
(***************************************************************************)
EXTENDS Integers

CONSTANTS
  Units,
  Factors,     \* to the base unit; a DTO accepts 0
  Precisions,  \* decimals that a conversion into a unit keeps
  UnitCounts,  \* quantities asked about
  MaxUnitWrites,
  NoUnit

ASSUME UnitsAssumption ==
  /\ Factors \subseteq Nat /\ Precisions \subseteq 0..2 /\ UnitCounts \subseteq Nat
  /\ MaxUnitWrites \in Nat /\ NoUnit \notin Units

VARIABLES
  bases,      \* the base units of the item and of the SKU, if they have one
  itemUnits,  \* ItemUOM: unit -> its row
  skuUnits,   \* SKUUOM: unit -> its row
  rebased,    \* history: the units made a base while they had a row
  ask,        \* the request that reads
  moved,      \* history: a unit changed while it ran
  unitWrites  \* bound

unitVars == <<bases, itemUnits, skuUnits, rebased, ask, moved, unitWrites>>

UnitRow == [factor: Factors, precision: Precisions, active: BOOLEAN]
Present(rows) == {u \in Units : rows[u] # NoUnit}
Active(rows) == {u \in Present(rows) : rows[u].active}

-----------------------------------------------------------------------------
(* The list.                                                               *)

Entry(u, source, row) ==
  [unit |-> u, source |-> source, factor |-> row.factor, precision |-> row.precision]

BaseEntry(base) ==
  {[unit |-> u, source |-> "BASE", factor |-> 1, precision |-> 2] :
     u \in {base} \ {NoUnit}}

NotHidden(own, ofItem) == {}  \* a slip: lists the item's row as well
Hidden(own, ofItem) == Active(ofItem) \cap Active(own)

\* getAvailableUomsForSku: a unit of the SKU hides the item's of that code,
\* and the item's units count only where both have the same base unit.  A unit
\* that is the base and has a row as well is listed for each.
AvailableUoms(base, own, ofItem) ==
  LET hidden == Hidden(own, ofItem)
      same   == bases.item = base
  IN  BaseEntry(base)
        \cup {Entry(u, IF same /\ u \in hidden THEN "SKU_OVERRIDE" ELSE "SKU", own[u])
                : u \in Active(own)}
        \cup IF same
             THEN {Entry(u, "ITEM", ofItem[u]) : u \in Active(ofItem) \ hidden}
             ELSE {}

-----------------------------------------------------------------------------
(* The conversion.                                                         *)

Power(p) == IF p = 0 THEN 1 ELSE IF p = 1 THEN 10 ELSE 100

\* A quotient rounded to the precision of the unit it is asked in, counted in
\* the last decimal kept; a factor of zero makes it infinite.
Convert(count, from, to) ==
  [finite |-> to.factor # 0, precision |-> to.precision,
   value |-> IF to.factor = 0 THEN 0
             ELSE (2 * count * from.factor * Power(to.precision) + to.factor)
                    \div (2 * to.factor)]

Idle == [op |-> "idle", from |-> NoUnit, to |-> NoUnit, count |-> 0,
         row |-> NoUnit, base |-> NoUnit, own |-> NoUnit, answer |-> NoUnit]

\* GET convert: a unit into itself is answered at once; the units of the item
\* and the base unit are not looked at.
AskConversion ==
  /\ ask.op \in {"idle", "converted", "listed", "refused"}
  /\ \E from \in Units, to \in Units, count \in UnitCounts :
       IF from = to
       THEN ask' = [Idle EXCEPT !.op = "converted", !.from = from, !.to = to,
                      !.count = count,
                      !.answer = [finite |-> TRUE, precision |-> 0, value |-> count]]
       ELSE ask' = [Idle EXCEPT !.op = "from", !.from = from, !.to = to, !.count = count]
  /\ moved' = FALSE
  /\ UNCHANGED <<bases, itemUnits, skuUnits, rebased, unitWrites>>

\* findBySkuAndUom of the one, then of the other, active or not.
FindFrom ==
  /\ ask.op = "from"
  /\ ask' = IF skuUnits[ask.from] = NoUnit THEN [Idle EXCEPT !.op = "refused"]
            ELSE [ask EXCEPT !.op = "to", !.row = skuUnits[ask.from]]
  /\ UNCHANGED <<bases, itemUnits, skuUnits, rebased, moved, unitWrites>>

FindTo ==
  /\ ask.op = "to"
  /\ ask' = IF skuUnits[ask.to] = NoUnit THEN [Idle EXCEPT !.op = "refused"]
            ELSE [ask EXCEPT !.op = "converted",
                    !.answer = Convert(ask.count, ask.row, skuUnits[ask.to])]
  /\ UNCHANGED <<bases, itemUnits, skuUnits, rebased, moved, unitWrites>>

\* GET available-uoms: the SKU with its units, then the item with its own.
AskList ==
  /\ ask.op \in {"idle", "converted", "listed", "refused"}
  /\ ask' = [Idle EXCEPT !.op = "item", !.base = bases.sku, !.own = skuUnits]
  /\ moved' = FALSE
  /\ UNCHANGED <<bases, itemUnits, skuUnits, rebased, unitWrites>>

FindItem ==
  /\ ask.op = "item"
  /\ ask' = [ask EXCEPT !.op = "listed", !.answer = AvailableUoms(ask.base, ask.own, itemUnits)]
  /\ UNCHANGED <<bases, itemUnits, skuUnits, rebased, moved, unitWrites>>

-----------------------------------------------------------------------------
(* Writes.                                                                 *)

WriteCounted ==
  /\ unitWrites < MaxUnitWrites /\ unitWrites' = unitWrites + 1
  /\ moved' = TRUE
  /\ UNCHANGED ask

UnitWritten == WriteCounted /\ UNCHANGED <<bases, rebased>>

\* The item's: its entity refuses a factor of zero.
AddItemUnit ==
  \E u \in Units \ (Present(itemUnits) \cup {bases.item}), row \in UnitRow :
    /\ row.factor > 0
    /\ itemUnits' = [itemUnits EXCEPT ![u] = row] /\ UNCHANGED skuUnits
    /\ UnitWritten

RemoveItemUnit ==
  \E u \in Present(itemUnits) :
    /\ itemUnits' = [itemUnits EXCEPT ![u] = NoUnit] /\ UNCHANGED skuUnits
    /\ UnitWritten

AddSkuUnit ==
  \E u \in Units \ (Present(skuUnits) \cup {bases.sku}), row \in UnitRow :
    /\ skuUnits' = [skuUnits EXCEPT ![u] = row] /\ UNCHANGED itemUnits
    /\ UnitWritten

SetSkuUnit ==
  \E u \in Present(skuUnits), row \in UnitRow :
    /\ row # skuUnits[u]
    /\ skuUnits' = [skuUnits EXCEPT ![u] = row] /\ UNCHANGED itemUnits
    /\ UnitWritten

RemoveSkuUnit ==
  \E u \in Present(skuUnits) :
    /\ skuUnits' = [skuUnits EXCEPT ![u] = NoUnit] /\ UNCHANGED itemUnits
    /\ UnitWritten

\* PATCH of the item or of the SKU with another base unit, or, with a null,
\* none; whether the unit has a row is not asked.
SetItemBase ==
  \E u \in (Units \cup {NoUnit}) \ {bases.item} :
    /\ bases' = [bases EXCEPT !.item = u]
    /\ rebased' = rebased \cup ({u} \cap Present(itemUnits))
    /\ WriteCounted
    /\ UNCHANGED <<itemUnits, skuUnits>>

SetSkuBase ==
  \E u \in (Units \cup {NoUnit}) \ {bases.sku} :
    /\ bases' = [bases EXCEPT !.sku = u]
    /\ rebased' = rebased \cup ({u} \cap Present(skuUnits))
    /\ WriteCounted
    /\ UNCHANGED <<itemUnits, skuUnits>>

UnitsNext ==
  \/ AskConversion \/ FindFrom \/ FindTo \/ AskList \/ FindItem
  \/ AddItemUnit \/ RemoveItemUnit \/ AddSkuUnit \/ SetSkuUnit \/ RemoveSkuUnit
  \/ SetItemBase \/ SetSkuBase

UnitsInit ==
  /\ bases \in [item: Units \cup {NoUnit}, sku: Units \cup {NoUnit}]
  /\ itemUnits = [u \in Units |-> NoUnit] /\ skuUnits = [u \in Units |-> NoUnit]
  /\ rebased = {} /\ ask = Idle /\ moved = FALSE /\ unitWrites = 0

-----------------------------------------------------------------------------
\* At most one entry for a unit, and the SKU's own where it has one; a unit that
\* was made a base while it had a row may be there as the base as well.
ListIsUnambiguous(list) ==
  /\ \A a, b \in list :
       a.unit = b.unit =>
         \/ a = b
         \/ a.unit \in rebased /\ "BASE" \in {a.source, b.source}
  /\ \A u \in Active(skuUnits) : Entry(u, "SKU", skuUnits[u])
       \in {[a EXCEPT !.source = "SKU"] : a \in list}

\* The answer is the exact quotient of the two factors, to half of its last
\* decimal.
Faithful(a, count, from, to) ==
  LET exact == count * from * Power(a.precision)
      given == a.value * to
  IN  a.finite => 2 * (IF exact < given THEN given - exact ELSE exact - given) <= to

(* The list gives each unit one factor, the SKU's own where it has one       *)
(* (sku-uom.service.ts:356), but for one that was made a base unit while it  *)
(* had a row, which it names twice; and the conversion between two units of  *)
(* the SKU that are in the list answers with the quotient of the factors of  *)
(* their rows (sku-uom.service.ts:480), unless a unit was written between    *)
(* the statements of the request.                                           *)
UnitsConvertAsListed ==
  LET list == AvailableUoms(bases.sku, skuUnits, itemUnits)
  IN  ~moved =>
        /\ ask.op = "listed" => ListIsUnambiguous(ask.answer)
        /\ ask.op = "converted" =>
             \A a \in list, b \in list :
               /\ {a.source, b.source} \subseteq {"SKU", "SKU_OVERRIDE"}
               /\ a.unit = ask.from /\ b.unit = ask.to
               => Faithful(ask.answer, ask.count, a.factor, b.factor)
=============================================================================
