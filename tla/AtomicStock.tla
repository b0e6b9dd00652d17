------------------------------ MODULE AtomicStock ------------------------------
(***************************************************************************)
(* What the inventory module promises its clients: a transaction is a      *)
(* draft that can be amended, until it is completed, cancelled or removed; *)
(* completing it moves the stock of all its lines, once, or is refused and *)
(* moves nothing.                                                          *)
(***************************************************************************)
EXTENDS Integers, FiniteSetsExt

CONSTANTS
  TransIds,    \* identities of transactions
  Locations,   \* pairs <<warehouse, SKU>>
  Documents,   \* transactions as clients create them
  ExtraLines,  \* lines that may be added to a draft
  Opening,     \* quantity on hand of each location at the start
  Absent       \* the document of an identity not in use

VARIABLES
  doc,         \* doc[t]: type, status, from, to and lines of a transaction
  onHand       \* onHand[l]: quantity on hand at a location

vars == <<doc, onHand>>

(* What the lines of d add to location l. *)
Receiving(d) == IF d.type = "ADJUSTMENT" THEN d.from ELSE d.to
Outbound(d)  == d.type \in {"GOODS_ISSUE", "STOCK_TRANSFER"}

Total(lines, sku) ==
  SumFunction([line \in {l \in lines : l.sku = sku} |-> line.baseQty])

Effect(d, l) ==
  (IF Receiving(d) = l[1] THEN Total(d.lines, l[2]) ELSE 0)
    - (IF Outbound(d) /\ d.from = l[1] THEN Total(d.lines, l[2]) ELSE 0)

Init ==
  /\ doc = [t \in TransIds |-> Absent]
  /\ onHand = Opening

Create(t, d) ==
  /\ doc[t] = Absent
  /\ doc' = [doc EXCEPT ![t] = [d EXCEPT !.status = "DRAFT"]]
  /\ UNCHANGED onHand

Amend(t, lines) ==
  /\ doc[t].status = "DRAFT"
  /\ doc' = [doc EXCEPT ![t].lines = lines]
  /\ UNCHANGED onHand

AddLine(t, line)    == Amend(t, doc[t].lines \cup {line})
RemoveLine(t, line) == Amend(t, doc[t].lines \ {line})

Complete(t) ==
  /\ doc[t].status = "DRAFT"
  /\ doc[t].lines # {}
  /\ onHand' = [l \in Locations |-> onHand[l] + Effect(doc[t], l)]
  /\ \A l \in Locations : onHand'[l] >= 0
  /\ doc' = [doc EXCEPT ![t].status = "COMPLETED"]

Cancel(t) ==
  /\ doc[t].status = "DRAFT"
  /\ doc' = [doc EXCEPT ![t].status = "CANCELLED"]
  /\ UNCHANGED onHand

Remove(t) ==
  /\ doc[t].status = "DRAFT"
  /\ doc' = [doc EXCEPT ![t] = [Absent EXCEPT !.status = "DELETED"]]
  /\ UNCHANGED onHand

Next ==
  \E t \in TransIds :
    \/ \E d \in Documents : Create(t, d)
    \/ \E line \in ExtraLines : AddLine(t, line)
    \/ \E line \in doc[t].lines : RemoveLine(t, line)
    \/ Complete(t)
    \/ Cancel(t)
    \/ Remove(t)

Spec == Init /\ [][Next]_vars

================================================================================
