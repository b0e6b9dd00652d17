------------------------------ MODULE MCCatalog ------------------------------
(***************************************************************************)
(* ItemCatalog for TLC: two clients, and the catalogs a few requests of    *)
(* one client leave: an item with a model and a SKU that may be under it,  *)
(* and a second item or none.  From there two requests reach the overlaps  *)
(* the properties are about.                                               *)
(***************************************************************************)
EXTENDS ItemCatalog

\* The code "a" is normalised to "A".
MCNormal == [x \in SkuCodes |-> IF x = "a" THEN "A" ELSE x]

StockedInit ==
  /\ \E second \in {"free", "live"} :
       item = [i \in Items |->
         IF i = 1 THEN [NoItem EXCEPT !.st = "live"]
         ELSE [NoItem EXCEPT !.st = second, !.code = "k2", !.status = "draft"]]
  /\ model = [m \in Models |->
       IF m = 1 THEN [NoModel EXCEPT !.st = "live", !.item = 1] ELSE NoModel]
  /\ \E of \in {1, None}, status \in {"active", "inactive"} :
       sku = [s \in Skus |->
         IF s = 1 THEN [NoSku EXCEPT !.st = "live", !.code = "A", !.item = 1,
                                     !.model = of, !.status = status]
         ELSE NoSku]
  /\ uom = [i \in Items |-> {}]
  /\ skuUom = [s \in Skus |-> [u \in Uoms |-> "none"]]
  /\ referred = {}
  /\ req = [c \in Clients |-> Idle]
  /\ overtaken = {}
  /\ left = MaxRequests

MCSpec == StockedInit /\ [][Next]_vars
=============================================================================
