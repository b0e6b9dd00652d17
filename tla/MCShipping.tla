------------------------------ MODULE MCShipping ------------------------------
(***************************************************************************)
(* Instances of SalesOrderShipping for TLC.                                *)
(***************************************************************************)
EXTENDS SalesOrderShipping

CONSTANTS k1, k2, i1, i2, i3, p1, p2

Order1(num, sku, qty) ==
  [id |-> num, num |-> num, sku |-> sku, orderQty |-> qty, shippedQty |-> 0,
   status |-> "OPEN"]

Issue1(num, sku, qty) == [num |-> num, sku |-> sku, quantity |-> qty, baseQty |-> qty]

(* Orders: one line, two lines of two SKUs. *)
OneLine  == {Order1(1, k1, 2)}
TwoSkus  == {Order1(1, k1, 2), Order1(2, k2, 2)}

(* Issues of one piece of a SKU, and of one piece of each. *)
Pieces  == {{Issue1(1, k1, 1)}, {Issue1(1, k1, 1), Issue1(2, k2, 1)}}
Units   == {{Issue1(1, k1, 1)}}
Whole   == {{Issue1(1, k1, 2)}}
Any     == Units \cup Whole

NoLines    == {}
FirstFree  == {[num |-> 0, sku |-> k1, orderQty |-> 2]}
(* One line besides the first, one that may take its number. *)
OtherLines == {[num |-> 2, sku |-> k1, orderQty |-> 1], [num |-> 1, sku |-> k2, orderQty |-> 2]}
ExtraPiece == {Issue1(2, k1, 1)}

================================================================================
