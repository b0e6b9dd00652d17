---------------------------- MODULE StockRefinement ----------------------------
(***************************************************************************)
(* The refinement of AtomicStock by StockTransactions.                     *)
(*                                                                         *)
(* A completion moves stock line by line before it writes the header.  The *)
(* abstract completion is that last write: until then what the request has *)
(* moved is taken off the quantities again.                                *)
(***************************************************************************)
EXTENDS StockTransactions, FiniteSetsExt

(* The current line of a transfer is out of its source, not yet in. *)
HalfMoved(p) ==
  /\ req[p].head.type = "STOCK_TRANSFER"
  /\ req[p].pc \in {"credit", "adding"}

(* What the lines of h add to location l. *)
Effect(h, l) ==
  LET total == SumFunction([x \in {y \in h.lines : y.sku = l[2]} |-> x.baseQty])
  IN  (IF Receiving(h) = l[1] THEN total ELSE 0)
        - (IF Outbound(h) /\ h.from = l[1] THEN total ELSE 0)

(* What the request of p has added to location l so far. *)
InFlight(p, l) ==
  LET r    == req[p]
      full == [r.head EXCEPT !.lines = @ \ r.todo]
      half == [r.head EXCEPT !.lines = {x \in r.todo : First(x, r.todo)},
                             !.to = NoWarehouse]
  IN  IF ~ Completing(p) THEN 0
      ELSE Effect(full, l) + (IF HalfMoved(p) THEN Effect(half, l) ELSE 0)

OnHand == [l \in Locations |->
  stock[l].quantity - SumFunction([p \in Workers |-> InFlight(p, l)])]

(* The lines addLine inserts: ids follow those of the created lines. *)
AddedLines ==
  {[id |-> d.lastId + i, num |-> e.num, sku |-> e.sku, baseQty |-> 0] :
     d \in Documents, i \in 1..MaxRequests, e \in ExtraLines}

(* Ids of lines matter to the rows only. *)
Atomic == INSTANCE AtomicStock WITH
  Documents  <- {[d EXCEPT !.lastId = 0] : d \in Documents},
  ExtraLines <- AddedLines,
  Opening    <- [l \in Locations |-> OpeningStock[l].quantity],
  Absent     <- NoHeader,
  doc        <- [t \in TransIds |-> [header[t] EXCEPT !.lastId = 0]],
  onHand     <- OnHand

(* Served one at a time and never cut short, transactions keep the promise *)
(* of AtomicStock: a completion moves all lines of a draft exactly once,   *)
(* or none (StockService.updateStock, completeByPublicId).                 *)
ImplementsAtomicStock == Atomic!Spec

================================================================================
