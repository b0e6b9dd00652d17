----------------------------- MODULE MCPurchasing -----------------------------
(***************************************************************************)
(* Instances of PurchaseReceiving for TLC.                                 *)
(***************************************************************************)
EXTENDS PurchaseReceiving

CONSTANTS o1, o2, s1, s2, k1, k2, r1, r2, r3, p1, p2

New(num, sku, qty, s) == [num |-> num, sku |-> sku, orderQty |-> qty, soLine |-> s]

In(num, sku, qty) == [num |-> num, sku |-> sku, baseQty |-> qty]

(* Orders of one line, or of two SKUs; the first line may be mapped. *)
MappedOrNot == {{New(1, k1, 2, NoSoLine)}, {New(1, k1, 2, s1)}}
TwoLines    == {{New(1, k1, 2, s1), New(2, k2, 1, NoSoLine)}}

Unmapped == {New(0, k2, 1, NoSoLine)}
Mapping  == {New(0, k1, 1, s1)}
NoLines  == {}

(* Another sales order line, another SKU, less. *)
Remap  == {[orderQty |-> 0, soLine |-> s1, sku |-> NoSku]}
Resku  == {[orderQty |-> 0, soLine |-> NoSoLine, sku |-> k2]}
Reduce == {[orderQty |-> 1, soLine |-> NoSoLine, sku |-> NoSku]}
Amend  == Remap \cup Resku

Single == {{In(1, k1, 1)}, {In(1, k1, 2)}, {In(1, k2, 1)}}
Piece  == {{In(1, k1, 1)}}
Extra  == {In(2, k1, 1)}

================================================================================
