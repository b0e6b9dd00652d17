------------------------------- MODULE MCStock -------------------------------
(***************************************************************************)
(* Instances of StockTransactions for TLC.                                 *)
(***************************************************************************)
EXTENDS StockRefinement

CONSTANTS w1, w2, k1, k2, t1, t2, p1, p2

Doc(type, from, to, lines) ==
  [type |-> type, status |-> "DRAFT", from |-> from, to |-> to,
   lines |-> lines, lastId |-> 2]

L(i, sku, q) == [id |-> i, num |-> i, sku |-> sku, baseQty |-> q]

OneReceipt == {Doc("GOODS_RECEIPT", NoWarehouse, w1, {L(1, k1, 1)})}
OneIssue   == {Doc("GOODS_ISSUE", w1, NoWarehouse, {L(1, k1, 1)})}
Movements  == OneReceipt \cup OneIssue \cup
              {Doc("STOCK_TRANSFER", w1, w2, {L(1, k1, 1)})}

(* Documents on one SKU each: inbound ones with two lines, outbound with one. *)
TwoSkuDocs ==
  {Doc("STOCK_TRANSFER", w1, w2, {L(1, k, 1)}) : k \in {k1, k2}} \cup
  {Doc("GOODS_RECEIPT", NoWarehouse, w1, {L(1, k2, 1), L(2, k2, 2)}),
   Doc("GOODS_ISSUE", w1, NoWarehouse, {L(1, k1, 2)}),
   Doc("ADJUSTMENT", w2, NoWarehouse, {L(1, k1, 1)})}

NoLines    == {}
SecondLine == {[num |-> 2, sku |-> k1]}

Row(q, r) == [exists |-> TRUE, quantity |-> q, reservedQty |-> r]

(* Two of every SKU in w1, one in w2. *)
FullStock == [l \in Locations |-> Row(IF l[1] = w1 THEN 2 ELSE 1, 0)]

(* One piece in w1, reserved; no row in w2. *)
HalfStocked == [l \in Locations |-> IF l[1] = w1 THEN Row(1, 1) ELSE NoRow]

(* Three pieces in w1, one reserved; no row in w2. *)
HalfReserved == [l \in Locations |-> IF l[1] = w1 THEN Row(3, 1) ELSE NoRow]

Decrease == {-1}

================================================================================
