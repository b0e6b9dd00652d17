---------------------------- MODULE CatalogProofs ----------------------------
(***************************************************************************)
(* Proofs about ItemCatalog, for any numbers of clients, items, models and  *)
(* SKUs: whatever loads, stale saves, deletions and failures overlap, every *)
(* row is well formed, a SKU under a model belongs to the model's item, and *)
(* only the deletion of its item leaves a SKU without one.  What a request  *)
(* has read is current until another transaction overtakes it: so statuses, *)
(* models and the prices of inactive SKUs change as asked, or by a request  *)
(* that was overtaken.                                                      *)
(***************************************************************************)
EXTENDS ItemCatalog, TLAPS

\* The rows a request will write, once it has read and checked.
RowsTyped(r) ==
  /\ DOMAIN r = DOMAIN Idle
  /\ r.op \in {"createItem", "updateItem", "saveItem", "addModel", "saveModel",
               "dropModel", "addSku", "saveSku", "dropSku", "addUom", "dropUom"}
       => r.irow \in ItemRow
  /\ r.op = "setStatus" => r.row \in Statuses
  /\ r.op \in {"addModel", "saveModel"} => r.row \in ModelRow
  /\ r.op \in {"addSku", "saveSku", "patchSku"} => r.row \in SkuRow
  /\ r.op = "addUom" => r.id \in Uoms
  /\ r.op \in {"addSkuUom", "setSkuUom"} => r.row \in SkuUomRow

\* A model the request has read is a model of the request's item: its row may
\* be gone since, but keeps the item.
ModelRead(m, i) == m \in Models /\ model[m].st # "free" /\ model[m].item = i

\* A SKU the request has read: its row may be gone, or its item be deleted.
SkuRead(s, i) ==
  /\ s \in Skus /\ sku[s].st # "free"
  /\ \/ sku[s].item = i
     \/ /\ sku[s].item = None
        /\ item[i].st = "gone"

\* What a request has read, as far as the tables still show it.
ReadsHold(r) ==
  /\ r.op \in {"addModel", "saveModel"} => r.row.st = "live"
  /\ r.op = "saveModel" => ModelRead(r.id, r.row.item)
  /\ r.op \in {"addSku", "saveSku"} =>
       /\ r.row.st = "live"
       /\ r.row.item = r.item /\ r.item \in Items
       /\ r.row.model # None => ModelRead(r.row.model, r.item)
  /\ r.op = "saveSku" => SkuRead(r.id, r.item)
  /\ r.op = "patchSku" => r.row.st = "live"

Inv ==
  /\ TypeOK
  /\ SkusStayWithTheirModel
  /\ req = [c \in Clients |-> req[c]]
  /\ \A c \in Clients : RowsTyped(req[c]) /\ ReadsHold(req[c])

\* What every step does to the rows that requests have read.
ItemsKept ==
  \A i \in Items : item[i].st = "gone" => item'[i].st = "gone"

ModelsKept ==
  \A m \in Models : model[m].st # "free" =>
    model'[m].st # "free" /\ model'[m].item = model[m].item

SkusKept ==
  \A s \in Skus : sku[s].st # "free" =>
    /\ sku'[s].st # "free"
    /\ \/ sku'[s].item = sku[s].item
       \/ sku'[s].item = None /\ item'[sku[s].item].st = "gone"

RowsKept == ItemsKept /\ ModelsKept /\ SkusKept

-----------------------------------------------------------------------------
(* Requests.                                                               *)

LEMMA IdleOK == RowsTyped(Idle) /\ ReadsHold(Idle)
BY DEF RowsTyped, ReadsHold, Idle

\* Requests hold on to what they have read while other requests write.
LEMMA ReadsKept ==
  ASSUME RowsKept, NEW r, ReadsHold(r)
  PROVE  ReadsHold(r)'
BY DEF RowsKept, ItemsKept, ModelsKept, SkusKept, ReadsHold, ModelRead, SkuRead

\* A request accepted with what it has just read.
LEMMA BeginOK ==
  ASSUME Inv, NEW c \in Clients, Ready(c), NEW r, Begin(c, r),
         RowsTyped(r), ReadsHold(r)
  PROVE  Inv'
<1>1. UNCHANGED <<item, model, sku, uom, skuUom, referred, overtaken>>
  BY DEF Begin
<1>2. left' \in 0..MaxRequests
  BY CatalogAssumption DEF Inv, TypeOK, Ready, Begin
<1>3. req' = [req EXCEPT ![c] = r]
  BY DEF Begin
<1>4. \A d \in Clients : RowsTyped(req'[d]) /\ DOMAIN req'[d] = DOMAIN Idle
  BY <1>3 DEF Inv, RowsTyped
<1>5. TypeOK'
  BY <1>1, <1>2, <1>4 DEF Inv, TypeOK
<1>6. SkusStayWithTheirModel'
  BY <1>1 DEF Inv, SkusStayWithTheirModel, Live
<1>7. ASSUME NEW d \in Clients PROVE ReadsHold(req[d])'
  BY <1>1, <1>3 DEF Inv, ReadsHold, ModelRead, SkuRead
<1> QED
  BY <1>3, <1>4, <1>5, <1>6, <1>7 DEF Inv

TablesTyped ==
  /\ item \in [Items -> ItemRow] /\ model \in [Models -> ModelRow]
  /\ sku \in [Skus -> SkuRow]
  /\ uom \in [Items -> SUBSET Uoms]
  /\ skuUom \in [Skus -> [Uoms -> SkuUomRow]]

\* A transaction that keeps the tables in order, and its answer.
LEMMA AnsweredOK ==
  ASSUME Inv, NEW c \in Clients, Answered(c), UNCHANGED referred,
         TablesTyped', RowsKept, SkusStayWithTheirModel'
  PROVE  Inv' /\ RowsKept
<1>1. req' = [req EXCEPT ![c] = Idle] /\ left' = left
  BY DEF Answered
<1>2. overtaken' \subseteq Clients
  BY DEF Answered
<1>3. \A d \in Clients : RowsTyped(req'[d]) /\ DOMAIN req'[d] = DOMAIN Idle
  BY <1>1, IdleOK DEF Inv, RowsTyped
<1>4. TypeOK'
  BY <1>1, <1>2, <1>3 DEF Inv, TypeOK, TablesTyped
<1>5. ASSUME NEW d \in Clients PROVE ReadsHold(req[d])'
  <2>1. CASE d = c
    BY <2>1, <1>1 DEF Inv, ReadsHold, Idle
  <2>2. CASE d # c
    <3>1. PICK r : r = req[d]
      OBVIOUS
    <3>2. req'[d] = r
      BY <2>2, <3>1, <1>1 DEF Inv
    <3>3. ReadsHold(r)'
      BY <3>1, ReadsKept DEF Inv
    <3> QED
      BY <3>2, <3>3 DEF ReadsHold
  <2> QED
    BY <2>1, <2>2
<1> QED
  BY <1>1, <1>3, <1>4, <1>5 DEF Inv

LEMMA FailOK ==
  ASSUME Inv, NEW c \in Clients, Fail(c)
  PROVE  Inv'
<1>1. /\ req' = [req EXCEPT ![c] = Idle]
      /\ UNCHANGED <<item, model, sku, uom, skuUom, referred, left>>
      /\ overtaken' \subseteq Clients
  BY DEF Fail, Inv, TypeOK
<1>3. \A d \in Clients : RowsTyped(req'[d]) /\ DOMAIN req'[d] = DOMAIN Idle
  BY <1>1, IdleOK DEF Inv, RowsTyped
<1>4. TypeOK'
  BY <1>1, <1>3 DEF Inv, TypeOK
<1>5. SkusStayWithTheirModel'
  BY <1>1 DEF Inv, SkusStayWithTheirModel, Live
<1>6. ASSUME NEW d \in Clients PROVE ReadsHold(req[d])'
  BY <1>1 DEF Inv, ReadsHold, ModelRead, SkuRead, Idle
<1> QED
  BY <1>1, <1>3, <1>4, <1>5, <1>6 DEF Inv

LEMMA ReferToSkuOK ==
  ASSUME Inv, ReferToSku
  PROVE  Inv'
BY DEF ReferToSku, Inv, TypeOK, SkusStayWithTheirModel, Live, ReadsHold,
       ModelRead, SkuRead

-----------------------------------------------------------------------------
(* Transactions on items, and on units.                                    *)

LEMMA NextIdFree ==
  ASSUME NEW t, Free(t) # {}
  PROVE  NextId(t) \in DOMAIN t /\ t[NextId(t)].st = "free"
BY DEF NextId, Free

\* A transaction that leaves models and SKUs alone.
LEMMA SkusUntouched ==
  ASSUME Inv, UNCHANGED <<model, sku>>
  PROVE  ModelsKept /\ SkusKept /\ SkusStayWithTheirModel'
BY DEF Inv, TypeOK, ModelsKept, SkusKept, SkusStayWithTheirModel, Live

\* Deleting an item: models of other items, and their SKUs, stay together.
LEMMA DeleteItemRowOK ==
  ASSUME Inv, NEW i \in Live(item), DeleteItemRow(i), UNCHANGED skuUom
  PROVE  TablesTyped' /\ RowsKept /\ SkusStayWithTheirModel'
<1>1. /\ item' = [item EXCEPT ![i].st = "gone"]
      /\ model' = [m \in Models |->
           IF model[m].item = i /\ model[m].st = "live"
           THEN [model[m] EXCEPT !.st = "gone"] ELSE model[m]]
      /\ sku' = [s \in Skus |->
           IF s \in SkusOf(i) THEN [sku[s] EXCEPT !.item = None, !.model = None]
           ELSE sku[s]]
      /\ uom' = [uom EXCEPT ![i] = {}]
  BY DEF DeleteItemRow
<1>2. /\ item' \in [Items -> ItemRow] /\ uom' \in [Items -> SUBSET Uoms]
      /\ ItemsKept
      /\ item'[i].st = "gone"
  BY <1>1, ZenonT(60) DEF Inv, TypeOK, ItemRow, ItemsKept, Live
<1>3. ASSUME NEW m \in Models
      PROVE  /\ model'[m] \in ModelRow
             /\ model'[m].item = model[m].item
             /\ model[m].st # "free" => model'[m].st # "free"
             /\ m \in Live(model) /\ model[m].item # i => m \in Live(model)'
  BY <1>1 DEF Inv, TypeOK, ModelRow, Live
<1>4. ASSUME NEW s \in Skus
      PROVE  /\ sku'[s] \in SkuRow /\ sku'[s].st = sku[s].st
             /\ \/ sku'[s] = sku[s] /\ s \notin SkusOf(i)
                \/ /\ sku'[s].item = None /\ sku'[s].model = None
                   /\ s \in SkusOf(i)
  <2>1. CASE s \in SkusOf(i)
    <3>1. sku'[s] = [sku[s] EXCEPT !.item = None, !.model = None]
      BY <1>1, <2>1
    <3>2. sku[s] \in SkuRow
      BY DEF Inv, TypeOK
    <3> QED
      BY <2>1, <3>1, <3>2 DEF SkuRow
  <2>2. CASE s \notin SkusOf(i)
    BY <1>1, <2>2 DEF Inv, TypeOK
  <2> QED
    BY <2>1, <2>2
<1>5. TablesTyped'
  <2>1. model' \in [Models -> ModelRow]
    BY <1>1, <1>3
  <2>2. sku' \in [Skus -> SkuRow]
    BY <1>1, <1>4
  <2> QED
    BY <1>2, <2>1, <2>2 DEF TablesTyped, Inv, TypeOK
<1>6. RowsKept
  BY <1>2, <1>3, <1>4 DEF RowsKept, ModelsKept, SkusKept, SkusOf
<1>7. SkusStayWithTheirModel'
  <2> SUFFICES ASSUME NEW s \in Live(sku)', sku'[s].model # None
               PROVE  /\ sku'[s].model \in Live(model)'
                      /\ model'[sku'[s].model].item = sku'[s].item
    BY DEF SkusStayWithTheirModel
  <2>1. s \in Live(sku) /\ sku'[s] = sku[s] /\ s \notin SkusOf(i)
    BY <1>1, <1>4 DEF Live, Inv, TypeOK
  <2>2. sku[s].item # i
    BY <2>1 DEF SkusOf
  <2>3. sku[s].model \in Live(model) /\ model[sku[s].model].item = sku[s].item
    BY <2>1 DEF Inv, SkusStayWithTheirModel
  <2>4. sku[s].model \in Models
    BY <2>3 DEF Live, Inv, TypeOK
  <2> QED
    BY <1>3, <2>1, <2>2, <2>3, <2>4
<1> QED
  BY <1>5, <1>6, <1>7

\* The row of an item is inserted, or written over one that is there.
LEMMA ItemWritten ==
  ASSUME Inv, NEW c \in Clients, Answered(c),
         UNCHANGED <<model, sku, uom, skuUom, referred>>,
         NEW i, NEW row \in ItemRow, item[i].st # "gone",
         item' = [item EXCEPT ![i] = row]
  PROVE  Inv' /\ RowsKept
<1>1. item \in [Items -> ItemRow]
  BY DEF Inv, TypeOK
<1>2. item' \in [Items -> ItemRow] /\ ItemsKept
  BY <1>1 DEF ItemsKept
<1>3. TablesTyped'
  BY <1>2 DEF TablesTyped, Inv, TypeOK
<1> QED
  BY <1>2, <1>3, AnsweredOK, SkusUntouched DEF RowsKept

LEMMA SaveItemOK ==
  ASSUME Inv, NEW c \in Clients, SaveItem(c)
  PROVE  Inv' /\ RowsKept
<1> DEFINE r == req[c]
<1>0. Answered(c) /\ UNCHANGED <<skuUom, referred>> /\ RowsTyped(r)
  BY DEF SaveItem, Inv
<1>2. CASE /\ r.op = "setStatus"
           /\ item' = [item EXCEPT ![r.item].status = r.row]
           /\ UNCHANGED <<model, sku, uom>>
  <2>1. r.row \in Statuses
    BY <1>0, <1>2 DEF RowsTyped
  <2>2. item' \in [Items -> ItemRow] /\ ItemsKept
    <3>1. PICK i, status : /\ item' = [item EXCEPT ![i].status = status]
                           /\ status \in Statuses
      BY <1>2, <2>1
    <3>2. item \in [Items -> ItemRow]
      BY DEF Inv, TypeOK
    <3>3. \A j \in Items : /\ [item[j] EXCEPT !.status = status] \in ItemRow
                            /\ [item[j] EXCEPT !.status = status].st = item[j].st
      BY <3>1, <3>2 DEF ItemRow
    <3> QED
      BY <3>1, <3>2, <3>3 DEF ItemsKept
  <2>3. TablesTyped'
    BY <1>0, <1>2, <2>2 DEF TablesTyped, Inv, TypeOK
  <2> QED
    BY <1>0, <1>2, <2>2, <2>3, AnsweredOK, SkusUntouched DEF RowsKept
<1>3. CASE r.item \in Live(item) /\ DeleteItemRow(r.item)
  BY <1>0, <1>3, DeleteItemRowOK, AnsweredOK
<1>4. CASE /\ r.op = "createItem" /\ Free(item) # {}
           /\ item' = [item EXCEPT ![NextId(item)] = r.irow]
           /\ UNCHANGED <<model, sku, uom>>
  <2>1. PICK i : i = NextId(item) /\ item[i].st # "gone"
    BY <1>4, NextIdFree
  <2>2. r.irow \in ItemRow
    BY <1>0, <1>4 DEF RowsTyped
  <2> QED
    BY <1>0, <1>4, <2>1, <2>2, ItemWritten
<1>5. CASE /\ r.op \in {"updateItem", "saveItem"} /\ r.item \in Live(item)
           /\ item' = [item EXCEPT ![r.item] = r.irow]
           /\ UNCHANGED <<model, sku, uom>>
  <2>1. item[r.item].st # "gone"
    BY <1>5 DEF Live
  <2>2. r.irow \in ItemRow
    BY <1>0, <1>5 DEF RowsTyped
  <2> QED
    BY <1>0, <1>5, <2>1, <2>2, ItemWritten
<1> QED
  BY <1>2, <1>3, <1>4, <1>5 DEF SaveItem, ItemRowFits

\* The row of the item, as the request read it, is well formed.
LEMMA ItemRowOK ==
  ASSUME Inv, NEW c \in Clients,
         req[c].item \in Live(item),
         req[c].op \in {"addModel", "saveModel", "dropModel", "addSku",
                        "saveSku", "dropSku", "addUom", "dropUom"},
         \A j \in Items :
           item'[j] = IF j = req[c].item THEN req[c].irow ELSE item[j],
         item' = [j \in Items |-> item'[j]]
  PROVE  item' \in [Items -> ItemRow] /\ ItemsKept
<1>1. req[c].irow \in ItemRow
  BY DEF Inv, RowsTyped
<1>2. item \in [Items -> ItemRow]
  BY DEF Inv, TypeOK
<1> QED
  BY <1>1, <1>2 DEF ItemsKept, Live

LEMMA SyncUomsOK ==
  ASSUME Inv, NEW c \in Clients, SyncUoms(c)
  PROVE  Inv' /\ RowsKept
<1>1. item' \in [Items -> ItemRow] /\ ItemsKept
  <2>1. req[c].op \in {"addUom", "dropUom"} /\ req[c].item \in Live(item)
    BY DEF SyncUoms, SavesWith, ItemRowFits
  <2>2. /\ item' = [j \in Items |-> item'[j]]
        /\ \A j \in Items :
             item'[j] = IF j = req[c].item THEN req[c].irow ELSE item[j]
    BY DEF SyncUoms, Inv, TypeOK
  <2> QED
    BY <2>1, <2>2, ItemRowOK
<1>2. uom' \in [Items -> SUBSET Uoms]
  <2>1. CASE /\ req[c].op = "addUom"
             /\ uom' = [uom EXCEPT ![req[c].item] = @ \cup {req[c].id}]
    <3>1. req[c].id \in Uoms
      BY <2>1 DEF Inv, RowsTyped
    <3> QED
      BY <2>1, <3>1 DEF Inv, TypeOK
  <2>2. CASE uom' = [uom EXCEPT ![req[c].item] = @ \ {req[c].id}]
    BY <2>2 DEF Inv, TypeOK
  <2> QED
    BY <2>1, <2>2 DEF SyncUoms
<1>3. UNCHANGED <<model, sku, skuUom, referred>> /\ Answered(c)
  BY DEF SyncUoms
<1>4. TablesTyped'
  BY <1>1, <1>2, <1>3 DEF TablesTyped, Inv, TypeOK
<1> QED
  BY <1>1, <1>3, <1>4, AnsweredOK, SkusUntouched DEF RowsKept

LEMMA SaveSkuUomOK ==
  ASSUME Inv, NEW c \in Clients, SaveSkuUom(c)
  PROVE  Inv' /\ RowsKept
<1>1. UNCHANGED <<item, model, sku, uom, referred>> /\ Answered(c)
  BY DEF SaveSkuUom
<1>2. PICK s, u, row : /\ skuUom' = [skuUom EXCEPT ![s][u] = row]
                       /\ row \in SkuUomRow
  <2>1. req[c].op # "dropSkuUom" => req[c].row \in SkuUomRow
    BY DEF SaveSkuUom, Inv, RowsTyped
  <2> QED
    BY <2>1 DEF SaveSkuUom, SkuUomRow
<1>3. skuUom' \in [Skus -> [Uoms -> SkuUomRow]]
  BY <1>2 DEF Inv, TypeOK
<1>4. TablesTyped'
  BY <1>1, <1>3 DEF TablesTyped, Inv, TypeOK
<1> QED
  BY <1>1, <1>4, AnsweredOK, SkusUntouched DEF RowsKept, ItemsKept

-----------------------------------------------------------------------------
(* Transactions on models.                                                 *)

\* A model is inserted, or written over a row that has the same item.
LEMMA ModelWritten ==
  ASSUME Inv, NEW m \in Models, NEW row \in ModelRow, row.st = "live",
         model[m].st # "free" => row.item = model[m].item,
         model' = [model EXCEPT ![m] = row], UNCHANGED sku
  PROVE  /\ model' \in [Models -> ModelRow]
         /\ ModelsKept /\ SkusKept /\ SkusStayWithTheirModel'
<1>1. model \in [Models -> ModelRow]
  BY DEF Inv, TypeOK
<1>2. /\ model' \in [Models -> ModelRow]
      /\ \A n \in Models : model'[n] = IF n = m THEN row ELSE model[n]
  BY <1>1
<1>3. ModelsKept /\ SkusKept
  BY <1>2 DEF ModelsKept, SkusKept
<1>4. SkusStayWithTheirModel'
  BY <1>1, <1>2 DEF Inv, SkusStayWithTheirModel, Live
<1> QED
  BY <1>2, <1>3, <1>4

\* A model is taken away: its SKUs are without one.
LEMMA ModelDropped ==
  ASSUME Inv, NEW m,
         model' = [model EXCEPT ![m].st = "gone"],
         sku' = [s \in Skus |-> IF s \in Live(sku) /\ sku[s].model = m
                                THEN [sku[s] EXCEPT !.model = None]
                                ELSE sku[s]]
  PROVE  /\ model' \in [Models -> ModelRow] /\ sku' \in [Skus -> SkuRow]
         /\ ModelsKept /\ SkusKept /\ SkusStayWithTheirModel'
<1>1. model \in [Models -> ModelRow] /\ sku \in [Skus -> SkuRow]
  BY DEF Inv, TypeOK
<1>2. ASSUME NEW n \in Models
      PROVE  /\ model'[n] \in ModelRow
             /\ model'[n].item = model[n].item
             /\ model[n].st # "free" => model'[n].st # "free"
             /\ n # m => model'[n] = model[n]
  BY <1>1 DEF ModelRow
<1>3. ASSUME NEW s \in Skus
      PROVE  /\ sku'[s] \in SkuRow /\ sku'[s].st = sku[s].st
             /\ sku'[s].item = sku[s].item
             /\ s \in Live(sku) => \/ sku'[s].model = None
                                   \/ sku'[s] = sku[s] /\ sku[s].model # m
  <2>0. sku[s] \in SkuRow
    BY <1>1
  <2>1. CASE s \in Live(sku) /\ sku[s].model = m
    <3>1. sku'[s] = [sku[s] EXCEPT !.model = None]
      BY <2>1
    <3> QED
      BY <2>0, <3>1 DEF SkuRow
  <2>2. CASE ~(s \in Live(sku) /\ sku[s].model = m)
    BY <2>0, <2>2
  <2> QED
    BY <2>1, <2>2
<1>4. DOMAIN model' = Models /\ DOMAIN sku' = Skus
  BY <1>1
<1>5. model' \in [Models -> ModelRow] /\ sku' \in [Skus -> SkuRow]
  BY <1>1, <1>2, <1>3
<1>6. ModelsKept /\ SkusKept
  BY <1>2, <1>3 DEF ModelsKept, SkusKept
<1>7. SkusStayWithTheirModel'
  <2> SUFFICES ASSUME NEW s \in Live(sku)', sku'[s].model # None
               PROVE  /\ sku'[s].model \in Live(model)'
                      /\ model'[sku'[s].model].item = sku'[s].item
    BY DEF SkusStayWithTheirModel
  <2>1. s \in Live(sku) /\ sku'[s] = sku[s] /\ sku[s].model # m
    BY <1>1, <1>3, <1>4 DEF Live
  <2>2. /\ sku[s].model \in Live(model) /\ sku[s].model \in Models
        /\ model[sku[s].model].item = sku[s].item
    BY <1>1, <2>1 DEF Inv, SkusStayWithTheirModel, Live
  <2> QED
    BY <1>2, <1>4, <2>1, <2>2 DEF Live
<1> QED
  BY <1>5, <1>6, <1>7

LEMMA SyncModelsOK ==
  ASSUME Inv, NEW c \in Clients, SyncModels(c)
  PROVE  Inv' /\ RowsKept
<1> DEFINE r == req[c]
<1>0. /\ r.op \in {"addModel", "saveModel", "dropModel"}
      /\ r.item \in Live(item) /\ Answered(c) /\ UNCHANGED <<uom, skuUom, referred>>
      /\ RowsTyped(r) /\ ReadsHold(r)
  BY DEF SyncModels, SavesWith, ItemRowFits, Inv
<1>1. item' \in [Items -> ItemRow] /\ ItemsKept
  <2>1. /\ item' = [j \in Items |-> item'[j]]
        /\ \A j \in Items : item'[j] = IF j = r.item THEN r.irow ELSE item[j]
    BY DEF SyncModels, Inv, TypeOK
  <2>2. r.op \in {"addModel", "saveModel", "dropModel"}
    BY <1>0
  <2> QED
    BY <1>0, <2>1, <2>2, ItemRowOK
<1>2. /\ model' \in [Models -> ModelRow] /\ sku' \in [Skus -> SkuRow]
      /\ ModelsKept /\ SkusKept /\ SkusStayWithTheirModel'
  <2>0. model \in [Models -> ModelRow] /\ sku \in [Skus -> SkuRow]
    BY DEF Inv, TypeOK
  <2>1. CASE /\ r.op = "addModel" /\ Free(model) # {}
             /\ model' = [model EXCEPT ![NextId(model)] = r.row]
             /\ UNCHANGED sku
    <3>1. PICK m : m = NextId(model) /\ m \in Models /\ model[m].st = "free"
      BY <2>0, <2>1, NextIdFree
    <3>2. r.row \in ModelRow /\ r.row.st = "live"
      BY <1>0, <2>1 DEF RowsTyped, ReadsHold
    <3> QED
      BY <2>0, <2>1, <3>1, <3>2, ModelWritten
  <2>2. CASE /\ r.op = "saveModel" /\ r.id \in Live(model)
             /\ model' = [model EXCEPT ![r.id] = r.row]
             /\ UNCHANGED sku
    <3>1. r.row \in ModelRow /\ r.row.st = "live" /\ r.id \in Models
          /\ r.row.item = model[r.id].item
      BY <1>0, <2>2 DEF RowsTyped, ReadsHold, ModelRead
    <3> QED
      BY <2>0, <2>2, <3>1, ModelWritten
  <2>3. CASE /\ r.op = "dropModel"
             /\ model' = [model EXCEPT ![r.id].st = "gone"]
             /\ sku' = [s \in Skus |-> IF s \in Live(sku) /\ sku[s].model = r.id
                                       THEN [sku[s] EXCEPT !.model = None]
                                       ELSE sku[s]]
    BY <2>3, ModelDropped
  <2> QED
    BY <2>1, <2>2, <2>3 DEF SyncModels
<1>3. TablesTyped'
  BY <1>0, <1>1, <1>2 DEF TablesTyped, Inv, TypeOK
<1> QED
  BY <1>0, <1>1, <1>2, <1>3, AnsweredOK DEF RowsKept

-----------------------------------------------------------------------------
(* Transactions on SKUs.                                                   *)

\* A SKU is inserted, or written over a row of the same item, with a model of
\* that item or without one.
LEMMA SkuWritten ==
  ASSUME Inv, NEW s \in Skus, NEW row \in SkuRow,
         row.model # None => /\ row.model \in Live(model)
                             /\ model[row.model].item = row.item,
         sku[s].st # "free" => row.st # "free" /\ row.item = sku[s].item,
         sku' = [sku EXCEPT ![s] = row], UNCHANGED model
  PROVE  /\ sku' \in [Skus -> SkuRow]
         /\ ModelsKept /\ SkusKept /\ SkusStayWithTheirModel'
<1>1. sku \in [Skus -> SkuRow]
  BY DEF Inv, TypeOK
<1>2. /\ sku' \in [Skus -> SkuRow]
      /\ \A t \in Skus : sku'[t] = IF t = s THEN row ELSE sku[t]
  BY <1>1
<1>3. ModelsKept /\ SkusKept
  BY <1>2 DEF ModelsKept, SkusKept
<1>4. SkusStayWithTheirModel'
  BY <1>1, <1>2 DEF Inv, SkusStayWithTheirModel, Live
<1> QED
  BY <1>2, <1>3, <1>4

\* A SKU is taken away; SKUs made of its fabric keep their item and model.
LEMMA SkuDropped ==
  ASSUME Inv, NEW x,
         sku' = [s \in Skus |->
           IF s = x THEN [sku[s] EXCEPT !.st = "gone"]
           ELSE IF s \in Live(sku) /\ sku[s].fabric = x
           THEN [sku[s] EXCEPT !.fabric = None]
           ELSE sku[s]],
         UNCHANGED model
  PROVE  /\ sku' \in [Skus -> SkuRow]
         /\ ModelsKept /\ SkusKept /\ SkusStayWithTheirModel'
<1>1. sku \in [Skus -> SkuRow]
  BY DEF Inv, TypeOK
<1>2. ASSUME NEW s \in Skus
      PROVE  /\ sku'[s] \in SkuRow
             /\ sku'[s].item = sku[s].item /\ sku'[s].model = sku[s].model
             /\ sku'[s].st \in {sku[s].st, "gone"}
  <2>0. sku[s] \in SkuRow
    BY <1>1
  <2>1. CASE s = x
    <3>1. sku'[s] = [sku[s] EXCEPT !.st = "gone"]
      BY <2>1
    <3> QED
      BY <2>0, <3>1 DEF SkuRow
  <2>2. CASE s # x /\ s \in Live(sku) /\ sku[s].fabric = x
    <3>1. sku'[s] = [sku[s] EXCEPT !.fabric = None]
      BY <2>2
    <3> QED
      BY <2>0, <3>1 DEF SkuRow
  <2>3. CASE s # x /\ ~(s \in Live(sku) /\ sku[s].fabric = x)
    BY <2>0, <2>3
  <2> QED
    BY <2>1, <2>2, <2>3
<1>3. sku' \in [Skus -> SkuRow]
  BY <1>2
<1>4. ModelsKept /\ SkusKept
  BY <1>2 DEF ModelsKept, SkusKept
<1>5. SkusStayWithTheirModel'
  BY <1>1, <1>2, <1>3 DEF Inv, SkusStayWithTheirModel, Live
<1> QED
  BY <1>3, <1>4, <1>5

\* The rows a request saves for a SKU name a model of the SKU's item, if it
\* still is there.
LEMMA SavedModel ==
  ASSUME Inv, NEW c \in Clients, req[c].op \in {"addSku", "saveSku"},
         SkuKeysHold(req[c].row), req[c].row.model # None
  PROVE  /\ req[c].row.model \in Live(model)
         /\ model[req[c].row.model].item = req[c].row.item
BY DEF Inv, ReadsHold, ModelRead, SkuKeysHold

LEMMA SyncSkusOK ==
  ASSUME Inv, NEW c \in Clients, SyncSkus(c)
  PROVE  Inv' /\ RowsKept
<1> DEFINE r == req[c]
<1>0. /\ r.op \in {"addSku", "saveSku", "dropSku"}
      /\ r.item \in Live(item) /\ Answered(c) /\ UNCHANGED <<model, uom, referred>>
      /\ RowsTyped(r) /\ ReadsHold(r)
  BY DEF SyncSkus, SavesWith, ItemRowFits, Inv
<1>1. item' \in [Items -> ItemRow] /\ ItemsKept
  <2>1. /\ item' = [j \in Items |-> item'[j]]
        /\ \A j \in Items : item'[j] = IF j = r.item THEN r.irow ELSE item[j]
    BY DEF SyncSkus, Inv, TypeOK
  <2>2. r.op \in {"addSku", "saveSku", "dropSku"}
    BY <1>0
  <2> QED
    BY <1>0, <2>1, <2>2, ItemRowOK
<1>2. /\ sku' \in [Skus -> SkuRow]
      /\ ModelsKept /\ SkusKept /\ SkusStayWithTheirModel'
  <2>0. model \in [Models -> ModelRow] /\ sku \in [Skus -> SkuRow]
    BY DEF Inv, TypeOK
  <2>1. CASE /\ r.op = "addSku" /\ Free(sku) # {} /\ SkuKeysHold(r.row)
             /\ sku' = [sku EXCEPT ![NextId(sku)] = r.row]
    <3>1. PICK s : s = NextId(sku) /\ s \in Skus /\ sku[s].st = "free"
      BY <2>0, <2>1, NextIdFree
    <3>2. r.row \in SkuRow
      BY <1>0, <2>1 DEF RowsTyped
    <3>3. r.row.model # None => /\ r.row.model \in Live(model)
                                /\ model[r.row.model].item = r.row.item
      BY <2>1, SavedModel
    <3> QED
      BY <1>0, <2>1, <3>1, <3>2, <3>3, SkuWritten
  <2>2. CASE /\ r.op = "saveSku" /\ r.id \in Live(sku) /\ SkuKeysHold(r.row)
             /\ r.item \in Live(item)
             /\ sku' = [sku EXCEPT ![r.id] = r.row]
    <3>1. r.row \in SkuRow
      BY <1>0, <2>2 DEF RowsTyped
    <3>2. r.row.model # None => /\ r.row.model \in Live(model)
                                /\ model[r.row.model].item = r.row.item
      BY <2>2, SavedModel
    <3>3. r.id \in Skus /\ r.row.st = "live" /\ r.row.item = sku[r.id].item
      BY <1>0, <2>0, <2>2 DEF ReadsHold, SkuRead, Live
    <3> QED
      BY <1>0, <2>2, <3>1, <3>2, <3>3, SkuWritten
  <2>3. CASE /\ r.op = "dropSku"
             /\ sku' = [s \in Skus |->
                  IF s = r.id THEN [sku[s] EXCEPT !.st = "gone"]
                  ELSE IF s \in Live(sku) /\ sku[s].fabric = r.id
                  THEN [sku[s] EXCEPT !.fabric = None]
                  ELSE sku[s]]
    BY <1>0, <2>3, SkuDropped
  <2> QED
    BY <2>1, <2>2, <2>3 DEF SyncSkus, SavesWith, ItemRowFits
<1>3. skuUom' \in [Skus -> [Uoms -> SkuUomRow]]
  <2>1. CASE UNCHANGED skuUom
    BY <2>1 DEF Inv, TypeOK
  <2>2. CASE skuUom' = [skuUom EXCEPT ![r.id] = [u \in Uoms |-> "none"]]
    <3>1. [u \in Uoms |-> "none"] \in [Uoms -> SkuUomRow]
      BY DEF SkuUomRow
    <3>2. PICK s, row : /\ skuUom' = [skuUom EXCEPT ![s] = row]
                        /\ row \in [Uoms -> SkuUomRow]
      BY <2>2, <3>1
    <3> QED
      BY <3>2 DEF Inv, TypeOK
  <2> QED
    BY <2>1, <2>2 DEF SyncSkus
<1>4. TablesTyped'
  BY <1>0, <1>1, <1>2, <1>3 DEF TablesTyped, Inv, TypeOK
<1> QED
  BY <1>0, <1>1, <1>2, <1>4, AnsweredOK DEF RowsKept

LEMMA UpdateSkuByIdOK ==
  ASSUME Inv, NEW c \in Clients, UpdateSkuById(c)
  PROVE  Inv' /\ RowsKept
<1>1. sku \in [Skus -> SkuRow] /\ req[c].row \in SkuRow
  BY DEF UpdateSkuById, Inv, TypeOK, RowsTyped
<1>2. PICK s, row :
        /\ s \in Skus
        /\ s \in Live(sku) /\ row = WithIdentityOf(req[c].row, sku[s])
        /\ sku' = [sku EXCEPT ![s] = row]
  BY <1>1 DEF UpdateSkuById, Live
<1>3. /\ row \in SkuRow
      /\ row.item = sku[s].item /\ row.model = sku[s].model
      /\ row.st = req[c].row.st
  BY <1>1, <1>2 DEF WithIdentityOf, SkuRow
<1>4. Answered(c) /\ UNCHANGED <<item, model, uom, skuUom, referred>>
  BY DEF UpdateSkuById
<1>5. row.st = "live"
  BY <1>3 DEF UpdateSkuById, Inv, ReadsHold
<1>6. sku' \in [Skus -> SkuRow] /\ ModelsKept /\ SkusKept
      /\ SkusStayWithTheirModel'
  BY <1>2, <1>3, <1>4, <1>5, SkuWritten DEF Inv, SkusStayWithTheirModel
<1>7. TablesTyped'
  BY <1>4, <1>6 DEF TablesTyped, Inv, TypeOK
<1> QED
  BY <1>4, <1>6, <1>7, AnsweredOK DEF RowsKept, ItemsKept

-----------------------------------------------------------------------------
(* Handlers: what they read and compute.                                   *)

\* A request on the aggregate, by what it will save.
LEMMA AggregateOK ==
  ASSUME Inv, NEW c \in Clients, Ready(c), NEW i \in Live(item),
         NEW op \in {"saveItem", "addModel", "saveModel", "dropModel", "addSku",
                     "saveSku", "dropSku", "addUom", "dropUom"},
         NEW id, NEW row, OnAggregate(c, op, i, id, row),
         op \in {"addModel", "saveModel"} => row \in ModelRow /\ row.st = "live",
         op = "saveModel" => ModelRead(id, row.item),
         op \in {"addSku", "saveSku"} =>
           /\ row \in SkuRow /\ row.st = "live" /\ row.item = i
           /\ row.model # None => ModelRead(row.model, i),
         op = "saveSku" => SkuRead(id, i),
         op = "addUom" => id \in Uoms
  PROVE  Inv'
<1>1. PICK r : r = [Idle EXCEPT !.op = op, !.item = i, !.irow = item[i],
                                !.id = id, !.row = row]
  OBVIOUS
<1>2. /\ DOMAIN r = DOMAIN Idle /\ r.op = op /\ r.item = i /\ r.irow = item[i]
      /\ r.id = id /\ r.row = row
  BY <1>1 DEF Idle
<1>3. i \in Items /\ item[i] \in ItemRow
  BY DEF Inv, TypeOK, Live
<1>4. RowsTyped(r)
  BY <1>2, <1>3 DEF RowsTyped
<1>5. ReadsHold(r)
  BY <1>2, <1>3 DEF ReadsHold
<1> QED
  BY <1>1, <1>4, <1>5, BeginOK DEF OnAggregate

\* Any other request, which has read nothing it relies on.
LEMMA DirectOK ==
  ASSUME Inv, NEW c \in Clients, Ready(c), NEW r, Begin(c, r),
         DOMAIN r = DOMAIN Idle,
         r.op \in {"createItem", "updateItem", "setStatus", "deleteItem",
                   "patchSku", "addSkuUom", "setSkuUom", "dropSkuUom"},
         r.op \in {"createItem", "updateItem"} => r.irow \in ItemRow,
         r.op = "setStatus" => r.row \in Statuses,
         r.op = "patchSku" => r.row \in SkuRow /\ r.row.st = "live",
         r.op \in {"addSkuUom", "setSkuUom"} => r.row \in SkuUomRow
  PROVE  Inv'
BY BeginOK DEF RowsTyped, ReadsHold

LEMMA ItemRequestOK ==
  ASSUME Inv, NEW c \in Clients, Ready(c), ItemRequest(c)
  PROVE  Inv'
<1>1. CASE CreateItem(c)
  <2>1. PICK dto, r :
          /\ dto \in CreateItemDto
          /\ r = [Idle EXCEPT !.op = "createItem", !.irow = NewItem(dto)]
          /\ Begin(c, r)
    BY <1>1 DEF CreateItem
  <2>2. NewItem(dto) \in ItemRow
    BY <2>1 DEF CreateItemDto, NewItem, ItemRow
  <2>3. DOMAIN r = DOMAIN Idle /\ r.op = "createItem" /\ r.irow = NewItem(dto)
    BY <2>1 DEF Idle
  <2> QED
    BY <2>1, <2>2, <2>3, DirectOK
<1>2. CASE UpdateItemByPublicId(c)
  <2>1. PICK i, dto, r :
          /\ i \in Live(item) /\ dto \in UpdateItemDto
          /\ r = [Idle EXCEPT !.op = "updateItem", !.item = i,
                              !.irow = ItemUpdated(item[i], dto)]
          /\ Begin(c, r)
    BY <1>2 DEF UpdateItemByPublicId
  <2>2. item[i] \in ItemRow
    BY <2>1 DEF Inv, TypeOK, Live
  <2>3. ItemUpdated(item[i], dto) \in ItemRow
    BY <2>2, <2>1 DEF ItemUpdated, UpdateItemDto, ItemRow, Set
  <2>4. /\ DOMAIN r = DOMAIN Idle /\ r.op = "updateItem"
        /\ r.irow = ItemUpdated(item[i], dto)
    BY <2>1 DEF Idle
  <2> QED
    BY <2>1, <2>3, <2>4, DirectOK
<1>3. CASE DeleteItemByPublicId(c)
  <2>1. PICK i, r : /\ r = [Idle EXCEPT !.op = "deleteItem", !.item = i]
                    /\ Begin(c, r)
    BY <1>3 DEF DeleteItemByPublicId
  <2>2. DOMAIN r = DOMAIN Idle /\ r.op = "deleteItem"
    BY <2>1 DEF Idle
  <2> QED
    BY <2>1, <2>2, DirectOK
<1>4. ASSUME NEW status \in Statuses, SetStatus(c, status)
      PROVE  Inv'
  <2>1. PICK i, r : /\ r = [Idle EXCEPT !.op = "setStatus", !.item = i,
                                        !.row = status]
                    /\ Begin(c, r)
    BY <1>4 DEF SetStatus
  <2>2. DOMAIN r = DOMAIN Idle /\ r.op = "setStatus" /\ r.row = status
    BY <2>1 DEF Idle
  <2> QED
    BY <2>1, <2>2, DirectOK
<1> QED
  BY <1>1, <1>2, <1>3, <1>4 DEF ItemRequest, ActivateItemByPublicId,
     DeactivateItemByPublicId, SetItemDraftByPublicId, Statuses

\* The item of a model that was found is there.
LEMMA OfLiveModelOK ==
  ASSUME Inv, NEW m, OfLiveModel(m)
  PROVE  /\ m \in Models /\ model[m] \in ModelRow /\ model[m].st = "live"
         /\ model[m].item \in Live(item)
BY DEF OfLiveModel, LoadsComplete, Live, Inv, TypeOK

LEMMA ModelRequestOK ==
  ASSUME Inv, NEW c \in Clients, Ready(c), ModelRequest(c)
  PROVE  Inv'
<1>1. CASE AddModelToItemByPublicId(c)
  <2>1. PICK i, dto, row :
          /\ i \in Live(item) /\ dto \in CreateModelDto
          /\ row = NewModel(i, dto)
          /\ OnAggregate(c, "addModel", i, None, row)
    BY <1>1 DEF AddModelToItemByPublicId
  <2>2. i \in Items
    BY <2>1 DEF Inv, TypeOK, Live
  <2>3. row \in ModelRow /\ row.st = "live"
    BY <2>1, <2>2 DEF NewModel, CreateModelDto, ModelRow
  <2> QED
    BY <2>1, <2>3, AggregateOK
<1>2. CASE UpdateModelDirect(c)
  <2>1. PICK m, dto, row :
          /\ m \in Live(model) /\ dto \in UpdateModelDto
          /\ OfLiveModel(m)
          /\ row = ModelUpdated(model[m], dto)
          /\ OnAggregate(c, "saveModel", model[m].item, m, row)
    BY <1>2 DEF UpdateModelDirect
  <2>2. /\ m \in Models /\ model[m] \in ModelRow /\ model[m].st = "live"
        /\ model[m].item \in Live(item)
    BY <2>1, OfLiveModelOK
  <2>3. row \in ModelRow /\ row.st = "live" /\ row.item = model[m].item
    BY <2>1, <2>2 DEF ModelUpdated, UpdateModelDto, ModelRow, Set
  <2>4. ModelRead(m, row.item)
    BY <2>2, <2>3 DEF ModelRead
  <2> QED
    BY <2>1, <2>2, <2>3, <2>4, AggregateOK
<1>3. CASE DeleteModelDirect(c)
  <2>1. PICK m \in Live(model) :
          /\ OfLiveModel(m)
          /\ OnAggregate(c, "dropModel", model[m].item, m, None)
    BY <1>3 DEF DeleteModelDirect
  <2>2. model[m].item \in Live(item)
    BY <2>1, OfLiveModelOK
  <2> QED
    BY <2>1, <2>2, AggregateOK
<1>4. ASSUME NEW status \in Statuses, SetModelStatus(c, status)
      PROVE  Inv'
  <2>1. PICK m, row :
          /\ m \in Live(model)
          /\ OfLiveModel(m)
          /\ row = [model[m] EXCEPT !.status = status]
          /\ \/ OnAggregate(c, "saveItem", model[m].item, None, None)
             \/ OnAggregate(c, "saveModel", model[m].item, m, row)
    BY <1>4 DEF SetModelStatus
  <2>2. /\ m \in Models /\ model[m] \in ModelRow /\ model[m].st = "live"
        /\ model[m].item \in Live(item)
    BY <2>1, OfLiveModelOK
  <2>3. row \in ModelRow /\ row.st = "live" /\ row.item = model[m].item
    BY <2>1, <2>2 DEF ModelRow
  <2>4. ModelRead(m, row.item)
    BY <2>2, <2>3 DEF ModelRead
  <2> QED
    BY <2>1, <2>2, <2>3, <2>4, AggregateOK
<1> QED
  BY <1>1, <1>2, <1>3, <1>4 DEF ModelRequest, ActivateModelDirect,
     DeactivateModelDirect, Statuses

-----------------------------------------------------------------------------
(* Handlers on SKUs and units.                                             *)

LEMMA PricesTyped == 0 \in Prices
BY CatalogAssumption DEF Prices

LEMMA NewSkuOK ==
  ASSUME NEW i \in Items, NEW m \in Models \cup {None}, NEW dto \in CreateSkuDto
  PROVE  /\ NewSku(i, m, dto) \in SkuRow
         /\ NewSku(i, m, dto).st = "live" /\ NewSku(i, m, dto).item = i
         /\ NewSku(i, m, dto).model = m
<1>1. Normal[dto.code] \in SkuCodes /\ dto.base \in Uoms
  BY CatalogAssumption DEF CreateSkuDto
<1>2. OrZero(dto.cost) \in Prices /\ OrZero(dto.sell) \in Prices
  BY PricesTyped DEF CreateSkuDto, OrZero
<1>3. dto.status \in Statuses /\ dto.fabric \in Skus \cup {None}
  BY DEF CreateSkuDto, Statuses
<1> QED
  BY <1>1, <1>2, <1>3 DEF NewSku, SkuRow

\* The entity rebuilt from a row: missing prices have become zero.
LEMMA SkuEntityOK ==
  ASSUME NEW s, sku[s] \in SkuRow
  PROVE  /\ SkuEntity(s) \in SkuRow /\ SkuEntity(s).st = sku[s].st
         /\ SkuEntity(s).item = sku[s].item
         /\ SkuEntity(s).model = sku[s].model
<1>1. OrZero(sku[s].cost) \in Prices /\ OrZero(sku[s].sell) \in Prices
  BY PricesTyped DEF SkuRow, OrZero
<1>2. SkuEntity(s) = [sku[s] EXCEPT !.cost = OrZero(sku[s].cost),
                                    !.sell = OrZero(sku[s].sell)]
  BY DEF SkuEntity
<1> QED
  BY <1>1, <1>2 DEF SkuRow

LEMMA SkuRequestOK ==
  ASSUME Inv, NEW c \in Clients, Ready(c), SkuRequest(c)
  PROVE  Inv'
<1>0. sku \in [Skus -> SkuRow] /\ model \in [Models -> ModelRow]
  BY DEF Inv, TypeOK
<1>1. CASE AddSkuToItemByPublicId(c)
  <2>1. PICK i, m, dto, row :
          /\ i \in Live(item) /\ m \in Live(model) \cup {None} /\ dto \in CreateSkuDto
          /\ m # None => model[m].item = i
          /\ row = NewSku(i, m, dto)
          /\ OnAggregate(c, "addSku", i, None, row)
    BY <1>1 DEF AddSkuToItemByPublicId
  <2>2. i \in Items /\ m \in Models \cup {None}
    BY <1>0, <2>1 DEF Inv, TypeOK, Live
  <2>3. row \in SkuRow /\ row.st = "live" /\ row.item = i /\ row.model = m
    BY <2>1, <2>2, NewSkuOK
  <2>4. row.model # None => ModelRead(row.model, i)
    BY <1>0, <2>1, <2>3 DEF ModelRead, Live
  <2> QED
    BY <2>1, <2>3, <2>4, AggregateOK
<1>2. CASE UpdateSkuDirect(c)
  <2>1. PICK s, dto, fabric, row, r :
          /\ s \in Live(sku) /\ dto \in UpdateSkuDto
          /\ fabric \in Live(sku) \cup {None}
          /\ row = [SkuUpdated(SkuEntity(s), dto) EXCEPT !.fabric = fabric]
          /\ r = [Idle EXCEPT !.op = "patchSku", !.id = s, !.row = row]
          /\ Begin(c, r)
    <3>1. PICK s \in Live(sku), dto \in UpdateSkuDto :
            /\ dto.fabric \in Live(sku) \cup {None, Absent}
            /\ Begin(c, [Idle EXCEPT !.op = "patchSku", !.id = s,
                 !.row = [SkuUpdated(SkuEntity(s), dto) EXCEPT
                            !.fabric = IF dto.fabric = Absent THEN None
                                       ELSE dto.fabric]])
      BY <1>2 DEF UpdateSkuDirect
    <3>2. PICK fabric : fabric = IF dto.fabric = Absent THEN None ELSE dto.fabric
      OBVIOUS
    <3>3. fabric \in Live(sku) \cup {None}
      BY <3>1, <3>2
    <3> QED
      BY <3>1, <3>2, <3>3
  <2>2. sku[s] \in SkuRow /\ sku[s].st = "live" /\ fabric \in Skus \cup {None}
    BY <1>0, <2>1 DEF Live
  <2>3. PICK entity : /\ entity = SkuEntity(s)
                      /\ entity \in SkuRow /\ entity.st = "live"
    BY <2>2, SkuEntityOK
  <2>4. /\ Set(dto.cost, entity.cost) \in Prices \cup {None}
        /\ Set(dto.sell, entity.sell) \in Prices \cup {None}
        /\ Set(dto.base, entity.base) \in Uoms \cup {None}
    BY <2>3, <2>1, CatalogAssumption DEF UpdateSkuDto, SkuRow, Set
  <2>5. SkuUpdated(entity, dto) \in SkuRow /\ SkuUpdated(entity, dto).st = "live"
    <3>1. SkuUpdated(entity, dto)
            = [entity EXCEPT !.base = Set(dto.base, entity.base),
                             !.cost = Set(dto.cost, entity.cost),
                             !.sell = Set(dto.sell, entity.sell)]
      BY DEF SkuUpdated
    <3> QED
      BY <2>3, <2>4, <3>1 DEF SkuRow
  <2>6. row \in SkuRow /\ row.st = "live"
    <3>1. PICK base : /\ base = SkuUpdated(entity, dto)
                      /\ base \in SkuRow /\ base.st = "live"
      BY <2>5
    <3>2. row = [base EXCEPT !.fabric = fabric]
      BY <2>1, <2>3, <3>1
    <3> QED
      BY <2>2, <3>1, <3>2 DEF SkuRow
  <2>7. DOMAIN r = DOMAIN Idle /\ r.op = "patchSku" /\ r.row = row
    BY <2>1 DEF Idle
  <2> QED
    BY <2>1, <2>6, <2>7, DirectOK
<1>3. CASE DeleteSkuDirect(c)
  <2>1. PICK s \in Live(sku) : /\ sku[s].item \in Live(item)
                               /\ OnAggregate(c, "dropSku", sku[s].item, s, None)
    BY <1>3 DEF DeleteSkuDirect, OfLiveSku, LoadsComplete
  <2> QED
    BY <2>1, AggregateOK
<1>4. ASSUME NEW status \in Statuses, SetSkuStatus(c, status)
      PROVE  Inv'
  <2>1. PICK s, entity, row :
          /\ s \in Live(sku)
          /\ sku[s].item \in Live(item)
          /\ entity = SkuEntity(s)
          /\ row = [entity EXCEPT !.status = status]
          /\ OnAggregate(c, "saveSku", sku[s].item, s, row)
    BY <1>4 DEF SetSkuStatus, OfLiveSku, LoadsComplete
  <2>2. s \in Skus /\ sku[s] \in SkuRow /\ sku[s].st = "live"
    BY <1>0, <2>1 DEF Live
  <2>3. /\ entity \in SkuRow /\ entity.st = "live"
        /\ entity.item = sku[s].item /\ entity.model = sku[s].model
    BY <2>1, <2>2, SkuEntityOK
  <2>4. /\ row \in SkuRow /\ row.st = "live"
        /\ row.item = sku[s].item /\ row.model = sku[s].model
    BY <2>1, <2>3 DEF SkuRow
  <2>5. row.model # None => ModelRead(row.model, sku[s].item)
    BY <1>0, <2>4, <2>1 DEF ModelRead, Inv, SkusStayWithTheirModel, Live
  <2>6. SkuRead(s, sku[s].item)
    BY <2>2 DEF SkuRead
  <2> QED
    BY <2>1, <2>4, <2>5, <2>6, AggregateOK
<1> QED
  BY <1>1, <1>2, <1>3, <1>4 DEF SkuRequest, ActivateSkuDirect,
     DeactivateSkuDirect, Statuses

LEMMA UnitRequestOK ==
  ASSUME Inv, NEW c \in Clients, Ready(c), UomRequest(c) \/ SkuUomRequest(c)
  PROVE  Inv'
<1>1. CASE UomRequest(c)
  <2>1. PICK i \in Live(item), u \in Uoms, op \in {"addUom", "dropUom"} :
          OnAggregate(c, op, i, u, None)
    BY <1>1 DEF UomRequest, AddUomToItemByPublicId, RemoveUomByPublicId
  <2> QED
    BY <2>1, AggregateOK
<1>2. CASE CreateSkuUom(c)
  <2>1. PICK id, row, r :
          /\ row \in SkuUomRow
          /\ r = [Idle EXCEPT !.op = "addSkuUom", !.id = id, !.row = row]
          /\ Begin(c, r)
    <3>1. PICK dto \in CreateSkuUomDto :
            Begin(c, [Idle EXCEPT !.op = "addSkuUom",
                        !.id = <<dto.sku, dto.uom>>,
                        !.row = IF dto.default THEN "default" ELSE "plain"])
      BY <1>2 DEF CreateSkuUom
    <3>2. PICK row \in SkuUomRow :
            row = IF dto.default THEN "default" ELSE "plain"
      BY DEF SkuUomRow
    <3> QED
      BY <3>1, <3>2
  <2>2. DOMAIN r = DOMAIN Idle /\ r.op = "addSkuUom" /\ r.row = row
    BY <2>1 DEF Idle
  <2> QED
    BY <2>1, <2>2, DirectOK
<1>3. CASE UpdateSkuUom(c)
  <2>1. PICK id, row, r :
          /\ row \in SkuUomRow
          /\ r = [Idle EXCEPT !.op = "setSkuUom", !.id = id, !.row = row]
          /\ Begin(c, r)
    <3>1. PICK s \in Live(sku), u \in Uoms, dto \in UpdateSkuUomDto :
            Begin(c, [Idle EXCEPT !.op = "setSkuUom", !.id = <<s, u>>,
                        !.row = IF dto.default THEN "default" ELSE "plain"])
      BY <1>3 DEF UpdateSkuUom
    <3>2. PICK row \in SkuUomRow :
            row = IF dto.default THEN "default" ELSE "plain"
      BY DEF SkuUomRow
    <3> QED
      BY <3>1, <3>2
  <2>2. DOMAIN r = DOMAIN Idle /\ r.op = "setSkuUom" /\ r.row = row
    BY <2>1 DEF Idle
  <2> QED
    BY <2>1, <2>2, DirectOK
<1>4. CASE RemoveSkuUom(c)
  <2>1. PICK id, r : /\ r = [Idle EXCEPT !.op = "dropSkuUom", !.id = id]
                     /\ Begin(c, r)
    BY <1>4 DEF RemoveSkuUom
  <2>2. DOMAIN r = DOMAIN Idle /\ r.op = "dropSkuUom"
    BY <2>1 DEF Idle
  <2> QED
    BY <2>1, <2>2, DirectOK
<1> QED
  BY <1>1, <1>2, <1>3, <1>4 DEF SkuUomRequest

-----------------------------------------------------------------------------

LEMMA InitOK == Init => Inv
<1> SUFFICES ASSUME Init PROVE Inv
  OBVIOUS
<1>1. req = [c \in Clients |-> Idle]
  BY DEF Init
<1>2. SkusStayWithTheirModel
  BY DEF SkusStayWithTheirModel, Live, Init, NoSku
<1>3. /\ NoItem \in ItemRow /\ NoModel \in ModelRow /\ NoSku \in SkuRow
      /\ "none" \in SkuUomRow
  <2>1. /\ (CHOOSE x \in Codes : TRUE) \in Codes
        /\ (CHOOSE x \in SkuCodes : TRUE) \in SkuCodes
        /\ (CHOOSE x \in Uoms : TRUE) \in Uoms
    BY CatalogAssumption
  <2> QED
    BY <2>1, PricesTyped DEF NoItem, NoModel, NoSku, ItemRow, ModelRow, SkuRow,
       SkuUomRow, Statuses
<1>4. TypeOK
  BY <1>1, <1>3, CatalogAssumption DEF Init, TypeOK
<1> QED
  BY <1>1, <1>2, <1>4, IdleOK DEF Inv

\* A request only reads the tables.
LEMMA RequestsRead ==
  ASSUME NEW c \in Clients, Request(c)
  PROVE  UNCHANGED <<item, model, sku>>
<1>1. ASSUME NEW r, Begin(c, r)
      PROVE  UNCHANGED <<item, model, sku>>
  BY <1>1 DEF Begin
<1>2. ASSUME NEW op, NEW i, NEW id, NEW row, OnAggregate(c, op, i, id, row)
      PROVE  UNCHANGED <<item, model, sku>>
  BY <1>1, <1>2 DEF OnAggregate
<1>3. CASE ItemRequest(c)
  BY <1>1, <1>3 DEF ItemRequest, CreateItem, UpdateItemByPublicId,
     DeleteItemByPublicId, ActivateItemByPublicId, DeactivateItemByPublicId,
     SetItemDraftByPublicId, SetStatus
<1>4. CASE ModelRequest(c)
  BY <1>2, <1>4 DEF ModelRequest, AddModelToItemByPublicId, UpdateModelDirect,
     DeleteModelDirect, ActivateModelDirect, DeactivateModelDirect,
     SetModelStatus
<1>5. CASE SkuRequest(c)
  BY <1>1, <1>2, <1>5 DEF SkuRequest, AddSkuToItemByPublicId, UpdateSkuDirect,
     DeleteSkuDirect, ActivateSkuDirect, DeactivateSkuDirect, SetSkuStatus
<1>6. CASE UomRequest(c) \/ SkuUomRequest(c)
  BY <1>1, <1>2, <1>6 DEF UomRequest, AddUomToItemByPublicId,
     RemoveUomByPublicId, SkuUomRequest, CreateSkuUom, UpdateSkuUom,
     RemoveSkuUom
<1> QED
  BY <1>3, <1>4, <1>5, <1>6 DEF Request

LEMMA NextOK ==
  ASSUME Inv, [Next]_vars
  PROVE  Inv' /\ SkusKept
<1>1. CASE UNCHANGED vars
  BY <1>1 DEF vars, Inv, TypeOK, SkusStayWithTheirModel, Live, ReadsHold,
              ModelRead, SkuRead, SkusKept
<1>2. UNCHANGED sku => SkusKept
  BY DEF SkusKept
<1>3. ASSUME NEW c \in Clients, Request(c)
      PROVE  Inv' /\ SkusKept
  <2>1. Inv'
    BY <1>3, ItemRequestOK, ModelRequestOK, SkuRequestOK, UnitRequestOK
       DEF Request
  <2>2. UNCHANGED sku
    BY <1>3, RequestsRead
  <2> QED
    BY <1>2, <2>1, <2>2
<1>4. ASSUME NEW c \in Clients, Save(c)
      PROVE  Inv' /\ SkusKept
  BY <1>4, SaveItemOK, SyncModelsOK, SyncSkusOK, UpdateSkuByIdOK, SyncUomsOK,
     SaveSkuUomOK DEF Save, RowsKept
<1>5. ASSUME NEW c \in Clients, Fail(c)
      PROVE  Inv' /\ SkusKept
  BY <1>5, FailOK DEF Fail, SkusKept
<1>6. CASE ReferToSku
  BY <1>6, ReferToSkuOK DEF ReferToSku, SkusKept
<1> QED
  BY <1>1, <1>3, <1>4, <1>5, <1>6 DEF Next

-----------------------------------------------------------------------------
(* Requests that no transaction has overtaken: what they read is current.   *)

\* The requests whose save writes back the row of the item they read.
RowWriters == {"updateItem", "saveItem", "addModel", "saveModel", "dropModel",
               "addSku", "saveSku", "dropSku", "addUom", "dropUom"}

ReadsCurrent(r) ==
  /\ r.op \in RowWriters => r.irow.status = item[r.item].status
  /\ r.op = "dropModel" => \A s \in Live(sku) : sku[s].model # r.id
  /\ r.op = "saveSku" => /\ OrZero(r.row.cost) = OrZero(sku[r.id].cost)
                         /\ OrZero(r.row.sell) = OrZero(sku[r.id].sell)
                         /\ r.row.fabric = sku[r.id].fabric
  /\ r.op = "patchSku" => sku[r.id].status # "inactive"

Fresh == \A c \in Clients \ overtaken : ReadsCurrent(req[c])

\* A transaction overtakes every other open request.
LEMMA AnsweredFresh ==
  ASSUME Inv, NEW c \in Clients, Answered(c)
  PROVE  Fresh'
<1> SUFFICES ASSUME NEW d \in Clients, d \notin overtaken'
             PROVE  ReadsCurrent(req[d])'
  BY DEF Fresh
<1>1. req'[d] = Idle
  BY DEF Answered, Inv
<1>2. Idle.op = "idle"
  BY DEF Idle
<1> QED
  BY <1>1, <1>2 DEF ReadsCurrent, RowWriters

LEMMA FailFresh ==
  ASSUME Inv, Fresh, NEW c \in Clients, Fail(c)
  PROVE  Fresh'
<1> SUFFICES ASSUME NEW d \in Clients, d \notin overtaken'
             PROVE  ReadsCurrent(req[d])'
  BY DEF Fresh
<1>1. UNCHANGED <<item, sku>> /\ req' = [req EXCEPT ![c] = Idle]
      /\ overtaken' = overtaken \ {c}
  BY DEF Fail
<1>2. CASE d = c
  <2>1. req'[d] = Idle /\ Idle.op = "idle"
    BY <1>1, <1>2 DEF Inv, Idle
  <2> QED
    BY <2>1 DEF ReadsCurrent, RowWriters
<1>3. CASE d # c
  <2>1. req'[d] = req[d] /\ d \notin overtaken
    BY <1>1, <1>3 DEF Inv
  <2> QED
    BY <1>1, <2>1 DEF Fresh, ReadsCurrent, Live
<1> QED
  BY <1>2, <1>3

LEMMA BeginFresh ==
  ASSUME Inv, Fresh, NEW c \in Clients, NEW r, Begin(c, r), ReadsCurrent(r)
  PROVE  Fresh'
<1> SUFFICES ASSUME NEW d \in Clients, d \notin overtaken'
             PROVE  ReadsCurrent(req[d])'
  BY DEF Fresh
<1>1. UNCHANGED <<item, sku, overtaken>> /\ req' = [req EXCEPT ![c] = r]
  BY DEF Begin
<1>2. ReadsCurrent(req'[d])
  BY <1>1 DEF Fresh, Inv
<1> QED
  BY <1>1, <1>2 DEF ReadsCurrent, Live

LEMMA AggregateFresh ==
  ASSUME Inv, Fresh, NEW c \in Clients, NEW op \in RowWriters, NEW i, NEW id,
         NEW row, OnAggregate(c, op, i, id, row),
         op = "dropModel" => \A s \in Live(sku) : sku[s].model # id,
         op = "saveSku" => /\ OrZero(row.cost) = OrZero(sku[id].cost)
                           /\ OrZero(row.sell) = OrZero(sku[id].sell)
                           /\ row.fabric = sku[id].fabric
  PROVE  Fresh'
<1>1. PICK r : r = [Idle EXCEPT !.op = op, !.item = i, !.irow = item[i],
                                !.id = id, !.row = row]
  OBVIOUS
<1>2. r.op = op /\ r.item = i /\ r.irow = item[i] /\ r.id = id /\ r.row = row
  BY <1>1 DEF Idle
<1>3. ReadsCurrent(r)
  BY <1>2 DEF ReadsCurrent, RowWriters
<1> QED
  BY <1>1, <1>3, BeginFresh DEF OnAggregate

\* Any other request reads nothing the properties below rely on.
LEMMA DirectFresh ==
  ASSUME Inv, Fresh, NEW c \in Clients, NEW r, Begin(c, r),
         r.op \in {"createItem", "setStatus", "deleteItem", "addSkuUom",
                   "setSkuUom", "dropSkuUom"}
  PROVE  Fresh'
BY BeginFresh DEF ReadsCurrent, RowWriters

LEMMA ItemRequestFresh ==
  ASSUME Inv, Fresh, NEW c \in Clients, ItemRequest(c)
  PROVE  Fresh'
<1>1. CASE CreateItem(c)
  <2>1. PICK dto, r : /\ r = [Idle EXCEPT !.op = "createItem",
                                          !.irow = NewItem(dto)]
                      /\ Begin(c, r)
    BY <1>1 DEF CreateItem
  <2>2. r.op = "createItem"
    BY <2>1 DEF Idle
  <2> QED
    BY <2>1, <2>2, DirectFresh
<1>2. CASE UpdateItemByPublicId(c)
  <2>1. PICK i, dto, row, r :
          /\ i \in Live(item) /\ row = ItemUpdated(item[i], dto)
          /\ r = [Idle EXCEPT !.op = "updateItem", !.item = i, !.irow = row]
          /\ Begin(c, r)
    BY <1>2 DEF UpdateItemByPublicId
  <2>2. r.op = "updateItem" /\ r.item = i /\ r.irow = row
    BY <2>1 DEF Idle
  <2>3. item[i] \in ItemRow
    BY <2>1 DEF Inv, TypeOK, Live
  <2>4. row.status = item[i].status
    BY <2>1, <2>3 DEF ItemUpdated, ItemRow
  <2> QED
    BY <2>1, <2>2, <2>4, BeginFresh DEF ReadsCurrent
<1>3. CASE DeleteItemByPublicId(c)
  <2>1. PICK i, r : /\ r = [Idle EXCEPT !.op = "deleteItem", !.item = i]
                    /\ Begin(c, r)
    BY <1>3 DEF DeleteItemByPublicId
  <2>2. r.op = "deleteItem"
    BY <2>1 DEF Idle
  <2> QED
    BY <2>1, <2>2, DirectFresh
<1>4. ASSUME NEW status, SetStatus(c, status)
      PROVE  Fresh'
  <2>1. PICK i, r : /\ r = [Idle EXCEPT !.op = "setStatus", !.item = i,
                                        !.row = status]
                    /\ Begin(c, r)
    BY <1>4 DEF SetStatus
  <2>2. r.op = "setStatus"
    BY <2>1 DEF Idle
  <2> QED
    BY <2>1, <2>2, DirectFresh
<1> QED
  BY <1>1, <1>2, <1>3, <1>4 DEF ItemRequest, ActivateItemByPublicId,
     DeactivateItemByPublicId, SetItemDraftByPublicId

\* A SKU under a model is among the SKUs of the model's item, so that no SKU
\* of any item is under a model found removable.
LEMMA RemovableIsEmpty ==
  ASSUME Inv, NEW m \in Live(model), Removable(model[m].item, m)
  PROVE  \A s \in Live(sku) : sku[s].model # m
<1> SUFFICES ASSUME NEW s \in Live(sku), sku[s].model = m PROVE FALSE
  OBVIOUS
<1>1. m # None
  BY CatalogAssumption DEF Inv, TypeOK, Live
<1>2. s \in SkusOf(model[m].item)
  BY <1>1 DEF Inv, SkusStayWithTheirModel, SkusOf
<1> QED
  BY <1>2 DEF Removable

LEMMA ModelRequestFresh ==
  ASSUME Inv, Fresh, NEW c \in Clients, ModelRequest(c)
  PROVE  Fresh'
<1>1. CASE AddModelToItemByPublicId(c)
  BY <1>1, AggregateFresh DEF AddModelToItemByPublicId, RowWriters
<1>2. CASE UpdateModelDirect(c)
  BY <1>2, AggregateFresh DEF UpdateModelDirect, RowWriters
<1>3. CASE DeleteModelDirect(c)
  <2>1. PICK m \in Live(model) :
          /\ Removable(model[m].item, m)
          /\ OnAggregate(c, "dropModel", model[m].item, m, None)
    BY <1>3 DEF DeleteModelDirect
  <2> QED
    BY <2>1, RemovableIsEmpty, AggregateFresh DEF RowWriters
<1>4. ASSUME NEW status, SetModelStatus(c, status)
      PROVE  Fresh'
  BY <1>4, AggregateFresh DEF SetModelStatus, RowWriters
<1> QED
  BY <1>1, <1>2, <1>3, <1>4 DEF ModelRequest, ActivateModelDirect,
     DeactivateModelDirect

LEMMA SkuRequestFresh ==
  ASSUME Inv, Fresh, NEW c \in Clients, SkuRequest(c)
  PROVE  Fresh'
<1>1. CASE AddSkuToItemByPublicId(c)
  BY <1>1, AggregateFresh DEF AddSkuToItemByPublicId, RowWriters
<1>2. CASE UpdateSkuDirect(c)
  <2>1. PICK s, row, r :
          /\ Patchable(s)
          /\ r = [Idle EXCEPT !.op = "patchSku", !.id = s, !.row = row]
          /\ Begin(c, r)
    BY <1>2 DEF UpdateSkuDirect
  <2>2. r.op = "patchSku" /\ r.id = s
    BY <2>1 DEF Idle
  <2> QED
    BY <2>1, <2>2, BeginFresh DEF ReadsCurrent, RowWriters, Patchable
<1>3. CASE DeleteSkuDirect(c)
  BY <1>3, AggregateFresh DEF DeleteSkuDirect, RowWriters
<1>4. ASSUME NEW status, SetSkuStatus(c, status)
      PROVE  Fresh'
  <2>1. PICK s, row :
          /\ s \in Live(sku)
          /\ row = [SkuEntity(s) EXCEPT !.status = status]
          /\ OnAggregate(c, "saveSku", sku[s].item, s, row)
    BY <1>4 DEF SetSkuStatus
  <2>2. sku[s] \in SkuRow
    BY <2>1 DEF Inv, TypeOK, Live
  <2>3. /\ SkuEntity(s) \in SkuRow
        /\ SkuEntity(s).cost = OrZero(sku[s].cost)
        /\ SkuEntity(s).sell = OrZero(sku[s].sell)
        /\ SkuEntity(s).fabric = sku[s].fabric
    BY <2>2, SkuEntityOK DEF SkuEntity, SkuRow
  <2>4. /\ row.cost = OrZero(sku[s].cost) /\ row.sell = OrZero(sku[s].sell)
        /\ row.fabric = sku[s].fabric
    BY <2>1, <2>3 DEF SkuRow
  <2>5. /\ OrZero(row.cost) = OrZero(sku[s].cost)
        /\ OrZero(row.sell) = OrZero(sku[s].sell)
        /\ row.fabric = sku[s].fabric
    BY <2>4 DEF OrZero
  <2> QED
    BY <2>1, <2>5, AggregateFresh DEF RowWriters
<1> QED
  BY <1>1, <1>2, <1>3, <1>4 DEF SkuRequest, ActivateSkuDirect,
     DeactivateSkuDirect

LEMMA UnitRequestFresh ==
  ASSUME Inv, Fresh, NEW c \in Clients, UomRequest(c) \/ SkuUomRequest(c)
  PROVE  Fresh'
<1>1. CASE UomRequest(c)
  BY <1>1, AggregateFresh
     DEF UomRequest, AddUomToItemByPublicId, RemoveUomByPublicId, RowWriters
<1>2. CASE CreateSkuUom(c)
  <2>1. PICK id, row, r :
          /\ r = [Idle EXCEPT !.op = "addSkuUom", !.id = id, !.row = row]
          /\ Begin(c, r)
    BY <1>2 DEF CreateSkuUom
  <2>2. r.op = "addSkuUom"
    BY <2>1 DEF Idle
  <2> QED
    BY <2>1, <2>2, DirectFresh
<1>3. CASE UpdateSkuUom(c)
  <2>1. PICK id, row, r :
          /\ r = [Idle EXCEPT !.op = "setSkuUom", !.id = id, !.row = row]
          /\ Begin(c, r)
    BY <1>3 DEF UpdateSkuUom
  <2>2. r.op = "setSkuUom"
    BY <2>1 DEF Idle
  <2> QED
    BY <2>1, <2>2, DirectFresh
<1>4. CASE RemoveSkuUom(c)
  <2>1. PICK id, r : /\ r = [Idle EXCEPT !.op = "dropSkuUom", !.id = id]
                     /\ Begin(c, r)
    BY <1>4 DEF RemoveSkuUom
  <2>2. r.op = "dropSkuUom"
    BY <2>1 DEF Idle
  <2> QED
    BY <2>1, <2>2, DirectFresh
<1> QED
  BY <1>1, <1>2, <1>3, <1>4 DEF SkuUomRequest

LEMMA SaveAnswers ==
  ASSUME NEW c \in Clients, Save(c)
  PROVE  Answered(c) /\ req[c].op # "idle"
BY DEF Save, SaveItem, SyncModels, SyncSkus, UpdateSkuById, SyncUoms,
       SaveSkuUom, SavesWith

LEMMA InitFresh == Init => Fresh
BY DEF Init, Fresh, ReadsCurrent, RowWriters, Idle

LEMMA NextFresh ==
  ASSUME Inv, Fresh, [Next]_vars
  PROVE  Fresh'
<1>1. CASE UNCHANGED vars
  BY <1>1 DEF vars, Fresh, ReadsCurrent, Live
<1>2. ASSUME NEW c \in Clients, Request(c)
      PROVE  Fresh'
  BY <1>2, ItemRequestFresh, ModelRequestFresh, SkuRequestFresh,
     UnitRequestFresh DEF Request
<1>3. ASSUME NEW c \in Clients, Save(c)
      PROVE  Fresh'
  BY <1>3, SaveAnswers, AnsweredFresh
<1>4. ASSUME NEW c \in Clients, Fail(c)
      PROVE  Fresh'
  BY <1>4, FailFresh
<1>5. CASE ReferToSku
  BY <1>5 DEF ReferToSku, Fresh, ReadsCurrent, Live
<1> QED
  BY <1>1, <1>2, <1>3, <1>4, <1>5 DEF Next

-----------------------------------------------------------------------------
(* What a transaction changes, by the request it answers.                   *)

\* The rows of the catalog change in the transactions of requests only.
LEMMA OnlySavesWrite ==
  ASSUME [Next]_vars, ~ UNCHANGED <<item, model, sku>>
  PROVE  \E c \in Clients : Save(c)
BY RequestsRead DEF vars, Next, Fail, ReferToSku

LEMMA SavedIsAnswered ==
  ASSUME Inv, NEW c \in Clients, Save(c)
  PROVE  Answers(c)
<1>1. Answered(c) /\ req[c].op # "idle"
  BY SaveAnswers
<1>2. req'[c] = Idle
  BY <1>1 DEF Answered, Inv
<1>3. Idle.op = "idle"
  BY DEF Idle
<1> QED
  BY <1>1, <1>2, <1>3 DEF Answers

\* The status of an item that is there changes by the row a request has read,
\* or by a request for it.
LEMMA StatusSaved ==
  ASSUME Inv, NEW c \in Clients, Save(c), NEW i \in Items, i \in Live(item),
         item'[i].status # item[i].status
  PROVE  /\ req[c].item = i
         /\ \/ req[c].op = "setStatus"
            \/ req[c].op \in RowWriters /\ item'[i] = req[c].irow
<1> DEFINE r == req[c]
<1>0. item \in [Items -> ItemRow] /\ item[i].st = "live"
  BY DEF Inv, TypeOK, Live
<1>1. CASE SaveItem(c)
  <2>1. CASE Free(item) # {} /\ item' = [item EXCEPT ![NextId(item)] = r.irow]
    <3>1. PICK j : j = NextId(item) /\ item[j].st = "free"
      BY <2>1, NextIdFree
    <3> QED
      BY <1>0, <2>1, <3>1
  <2>2. CASE /\ r.op \in {"updateItem", "saveItem"}
             /\ item' = [item EXCEPT ![r.item] = r.irow]
    BY <1>0, <2>2 DEF RowWriters
  <2>3. CASE r.op = "setStatus" /\ item' = [item EXCEPT ![r.item].status = r.row]
    BY <1>0, <2>3
  <2>4. CASE DeleteItemRow(r.item)
    <3>1. item' = [item EXCEPT ![r.item].st = "gone"]
      BY <2>4 DEF DeleteItemRow
    <3> QED
      BY <1>0, <3>1 DEF ItemRow
  <2> QED
    BY <1>1, <2>1, <2>2, <2>3, <2>4 DEF SaveItem
<1>2. CASE SyncModels(c) \/ SyncSkus(c) \/ SyncUoms(c)
  <2>1. r.op \in RowWriters /\ item' = [item EXCEPT ![r.item] = r.irow]
    BY <1>2 DEF SyncModels, SyncSkus, SyncUoms, SavesWith, RowWriters
  <2> QED
    BY <1>0, <2>1
<1>3. CASE UpdateSkuById(c) \/ SaveSkuUom(c)
  BY <1>3 DEF UpdateSkuById, SaveSkuUom
<1> QED
  BY <1>1, <1>2, <1>3 DEF Save

\* A model is taken away with its item or by a request for it.
LEMMA ModelSaved ==
  ASSUME Inv, NEW c \in Clients, Save(c), NEW m \in Live(model),
         model'[m].st = "gone", item'[model[m].item].st # "gone"
  PROVE  req[c].op = "dropModel" /\ req[c].id = m
<1> DEFINE r == req[c]
<1>0. /\ model \in [Models -> ModelRow] /\ m \in Models /\ model[m].st = "live"
      /\ item \in [Items -> ItemRow]
  BY DEF Inv, TypeOK, Live
<1>1. CASE SaveItem(c)
  <2>1. PICK i \in Live(item) : DeleteItemRow(i)
    BY <1>0, <1>1 DEF SaveItem
  <2>2. item'[i].st = "gone"
    BY <1>0, <2>1, ZenonT(60) DEF DeleteItemRow, Live, ItemRow
  <2>3. model[m].item # i
    BY <2>2
  <2>4. model'[m] = model[m]
    BY <1>0, <2>1, <2>3 DEF DeleteItemRow
  <2> QED
    BY <1>0, <2>4
<1>2. CASE SyncModels(c)
  <2>1. CASE /\ r.op = "addModel" /\ Free(model) # {}
             /\ model' = [model EXCEPT ![NextId(model)] = r.row]
    <3>1. PICK j : j = NextId(model) /\ model[j].st = "free"
      BY <2>1, NextIdFree
    <3> QED
      BY <1>0, <2>1, <3>1
  <2>2. CASE r.op = "saveModel" /\ model' = [model EXCEPT ![r.id] = r.row]
    <3>1. r.row.st = "live"
      BY <2>2 DEF Inv, ReadsHold
    <3> QED
      BY <1>0, <2>2, <3>1
  <2>3. CASE r.op = "dropModel" /\ model' = [model EXCEPT ![r.id].st = "gone"]
    BY <1>0, <2>3
  <2> QED
    BY <1>2, <2>1, <2>2, <2>3 DEF SyncModels
<1>3. CASE SyncSkus(c) \/ SyncUoms(c) \/ UpdateSkuById(c) \/ SaveSkuUom(c)
  BY <1>0, <1>3 DEF SyncSkus, SyncUoms, UpdateSkuById, SaveSkuUom
<1> QED
  BY <1>1, <1>2, <1>3 DEF Save

\* The prices of a SKU that stays change when a request writes its row.
LEMMA PricesSaved ==
  ASSUME Inv, NEW c \in Clients, Save(c), NEW s \in Live(sku),
         \/ sku'[s].cost # sku[s].cost \/ sku'[s].sell # sku[s].sell
         \/ /\ sku'[s].fabric # sku[s].fabric
            /\ sku'[s].fabric # None \/ sku'[sku[s].fabric].st # "gone"
  PROVE  /\ req[c].id = s
         /\ \/ req[c].op = "saveSku" /\ sku'[s] = req[c].row
            \/ req[c].op = "patchSku"
<1> DEFINE r == req[c]
<1>0. /\ sku \in [Skus -> SkuRow] /\ s \in Skus /\ sku[s].st = "live"
      /\ sku[s] \in SkuRow
  BY DEF Inv, TypeOK, Live
<1>1. CASE SaveItem(c)
  <2>1. PICK i : DeleteItemRow(i)
    BY <1>1 DEF SaveItem
  <2>2. \/ sku'[s] = [sku[s] EXCEPT !.item = None, !.model = None]
        \/ sku'[s] = sku[s]
    BY <1>0, <2>1 DEF DeleteItemRow
  <2> QED
    BY <1>0, <2>2 DEF SkuRow
<1>2. CASE SyncModels(c)
  <2>1. sku'[s] = [sku[s] EXCEPT !.model = None] \/ sku'[s] = sku[s]
    BY <1>0, <1>2 DEF SyncModels
  <2> QED
    BY <1>0, <2>1 DEF SkuRow
<1>3. CASE SyncSkus(c)
  <2>1. CASE Free(sku) # {} /\ sku' = [sku EXCEPT ![NextId(sku)] = r.row]
    <3>1. PICK j : j = NextId(sku) /\ sku[j].st = "free"
      BY <2>1, NextIdFree
    <3> QED
      BY <1>0, <2>1, <3>1
  <2>2. CASE r.op = "saveSku" /\ sku' = [sku EXCEPT ![r.id] = r.row]
    BY <1>0, <2>2
  <2>3. CASE sku' = [t \in Skus |->
               IF t = r.id THEN [sku[t] EXCEPT !.st = "gone"]
               ELSE IF t \in Live(sku) /\ sku[t].fabric = r.id
               THEN [sku[t] EXCEPT !.fabric = None]
               ELSE sku[t]]
    <3>1. \/ sku'[s] = [sku[s] EXCEPT !.st = "gone"]
          \/ sku[s].fabric = r.id /\ sku'[s] = [sku[s] EXCEPT !.fabric = None]
          \/ sku'[s] = sku[s]
      BY <1>0, <2>3
    <3>2. CASE sku[s].fabric = r.id /\ sku'[s] = [sku[s] EXCEPT !.fabric = None]
      <4>1. /\ sku'[s].cost = sku[s].cost /\ sku'[s].sell = sku[s].sell
            /\ sku'[s].fabric = None
        BY <1>0, <3>2 DEF SkuRow
      <4>2. r.id \in Skus
        BY <1>0, <3>2, <4>1 DEF SkuRow
      <4>3. sku[r.id] \in SkuRow /\ sku'[r.id] = [sku[r.id] EXCEPT !.st = "gone"]
        BY <1>0, <2>3, <4>2
      <4>4. sku'[sku[s].fabric].st = "gone"
        BY <3>2, <4>3 DEF SkuRow
      <4> QED
        BY <4>1, <4>4
    <3> QED
      BY <1>0, <3>1, <3>2 DEF SkuRow
  <2> QED
    BY <1>3, <2>1, <2>2, <2>3 DEF SyncSkus
<1>4. CASE UpdateSkuById(c)
  <2>1. PICK row : r.op = "patchSku" /\ sku' = [sku EXCEPT ![r.id] = row]
    BY <1>4 DEF UpdateSkuById
  <2> QED
    BY <1>0, <2>1
<1>5. CASE SyncUoms(c) \/ SaveSkuUom(c)
  BY <1>5 DEF SyncUoms, SaveSkuUom
<1> QED
  BY <1>1, <1>2, <1>3, <1>4, <1>5 DEF Save

-----------------------------------------------------------------------------

\* Every row, and every open request, is made of the values its columns can
\* hold, whatever stale rows are written back.
THEOREM CatalogTyped == Spec => []TypeOK
<1>1. Init => Inv
  BY InitOK
<1>2. Inv /\ [Next]_vars => Inv'
  BY NextOK
<1>3. Inv => TypeOK
  BY DEF Inv
<1> QED
  BY <1>1, <1>2, <1>3, PTL DEF Spec

\* A SKU under a model belongs to the model's item, however loads, saves of
\* what was loaded and deletions overlap.
THEOREM SkusFollowTheirModel == Spec => []SkusStayWithTheirModel
<1>1. Init => Inv
  BY InitOK
<1>2. Inv /\ [Next]_vars => Inv'
  BY NextOK
<1>3. Inv => SkusStayWithTheirModel
  BY DEF Inv
<1> QED
  BY <1>1, <1>2, <1>3, PTL DEF Spec

\* No save, however stale, takes a SKU away from its item: only the deletion of
\* the item does.
THEOREM SkusLoseItemsOnlyToDeletion == Spec => OrphansOnlyByItemDeletion
<1>1. Init => Inv
  BY InitOK
<1>2. Inv /\ [Next]_vars => Inv'
  BY NextOK
<1>3. Inv /\ [Next]_vars
        => [\A s \in Skus :
              s \in Live(sku) /\ sku[s].item # None /\ sku'[s].item # sku[s].item
                => /\ sku'[s].item = None
                   /\ item'[sku[s].item].st = "gone"]_vars
  <2> SUFFICES ASSUME Inv, [Next]_vars, NEW s \in Skus, s \in Live(sku),
                      sku[s].item # None, sku'[s].item # sku[s].item
               PROVE  /\ sku'[s].item = None
                      /\ item'[sku[s].item].st = "gone"
    OBVIOUS
  <2>1. SkusKept
    BY NextOK
  <2> QED
    BY <2>1 DEF SkusKept, Live
<1> QED
  BY <1>1, <1>2, <1>3, PTL DEF Spec, OrphansOnlyByItemDeletion

LEMMA SafetyInductive ==
  /\ Init => Inv /\ Fresh
  /\ Inv /\ Fresh /\ [Next]_vars => Inv' /\ Fresh'
BY InitOK, InitFresh, NextOK, NextFresh

\* The status of an item moves by activate, deactivate and draft alone, or by
\* a request overtaken since it read the item: a save that nothing overtook
\* writes back the status it read.
THEOREM ItemStatusAsAsked == Spec => StatusMovesAsAsked
<1>1. Inv /\ Fresh /\ [Next]_vars
        => [\A i \in Items :
              i \in Live(item) /\ item'[i].st = "live"
                /\ item'[i].status # item[i].status
                => \E c \in Clients :
                     /\ Answers(c) /\ req[c].item = i
                     /\ req[c].op = "setStatus" \/ c \in overtaken]_vars
  <2> SUFFICES ASSUME Inv, Fresh, [Next]_vars, NEW i \in Items,
                      i \in Live(item), item'[i].status # item[i].status
               PROVE  \E c \in Clients :
                        /\ Answers(c) /\ req[c].item = i
                        /\ req[c].op = "setStatus" \/ c \in overtaken
    OBVIOUS
  <2>1. PICK c \in Clients : Save(c)
    BY OnlySavesWrite
  <2>2. /\ Answers(c) /\ req[c].item = i
        /\ \/ req[c].op = "setStatus"
           \/ req[c].op \in RowWriters /\ item'[i] = req[c].irow
    BY <2>1, SavedIsAnswered, StatusSaved
  <2>3. c \notin overtaken /\ req[c].op \in RowWriters
          => req[c].irow.status = item[i].status
    BY <2>2 DEF Fresh, ReadsCurrent
  <2> QED
    BY <2>2, <2>3
<1> QED
  BY <1>1, SafetyInductive, PTL DEF Spec, StatusMovesAsAsked

\* A model goes with its item or when no SKU is under it, unless the request
\* that removes it was overtaken by another transaction.
THEOREM ModelsRemovedEmpty == Spec => ModelsLeaveEmpty
<1>1. Inv /\ Fresh /\ [Next]_vars
        => [\A m \in Live(model) :
              model'[m].st = "gone" /\ item'[model[m].item].st = "live"
                => \/ \A s \in Live(sku) : sku[s].model # m
                   \/ \E c \in overtaken : Answers(c) /\ req[c].op = "dropModel"]_vars
  <2> SUFFICES ASSUME Inv, Fresh, [Next]_vars, NEW m \in Live(model),
                      model'[m].st = "gone", item'[model[m].item].st = "live"
               PROVE  \/ \A s \in Live(sku) : sku[s].model # m
                      \/ \E c \in overtaken : Answers(c) /\ req[c].op = "dropModel"
    OBVIOUS
  <2>1. PICK c \in Clients : Save(c)
    BY OnlySavesWrite DEF Live
  <2>2. Answers(c) /\ req[c].op = "dropModel" /\ req[c].id = m
    BY <2>1, SavedIsAnswered, ModelSaved
  <2>3. c \notin overtaken => \A s \in Live(sku) : sku[s].model # m
    BY <2>2 DEF Fresh, ReadsCurrent
  <2> QED
    BY <2>2, <2>3
<1> QED
  BY <1>1, SafetyInductive, PTL DEF Spec, ModelsLeaveEmpty

\* An inactive SKU keeps its prices and its fabric until it is activated,
\* unless the request that changes them was overtaken since it read the SKU or
\* the fabric is deleted.
THEOREM InactiveSkusFrozen == Spec => InactiveSkusStayAsTheyAre
<1>1. Inv /\ Fresh /\ [Next]_vars
        => [\A s \in Live(sku) :
              sku[s].status = "inactive" /\ sku'[s].st = "live"
                => \/ KeepsPricesAndFabric(s)
                   \/ \E c \in overtaken : Answers(c) /\ req[c].id = s]_vars
  <2> SUFFICES ASSUME Inv, Fresh, [Next]_vars, NEW s \in Live(sku),
                      sku[s].status = "inactive", ~ KeepsPricesAndFabric(s)
               PROVE  \E c \in overtaken : Answers(c) /\ req[c].id = s
    BY DEF KeepsPricesAndFabric, vars
  <2>1. \/ sku'[s].cost # sku[s].cost \/ sku'[s].sell # sku[s].sell
        \/ /\ sku'[s].fabric # sku[s].fabric
           /\ sku'[s].fabric # None \/ sku'[sku[s].fabric].st # "gone"
    BY DEF KeepsPricesAndFabric
  <2>2. PICK c \in Clients : Save(c)
    BY <2>1, OnlySavesWrite
  <2>3. /\ Answers(c) /\ req[c].id = s
        /\ \/ req[c].op = "saveSku" /\ sku'[s] = req[c].row
           \/ req[c].op = "patchSku"
    BY <2>1, <2>2, SavedIsAnswered, PricesSaved
  <2>4. req[c].op = "saveSku" =>
          ~ (/\ OrZero(req[c].row.cost) = OrZero(sku[s].cost)
             /\ OrZero(req[c].row.sell) = OrZero(sku[s].sell)
             /\ req[c].row.fabric = sku[s].fabric)
    BY <2>3 DEF KeepsPricesAndFabric
  <2>5. c \in overtaken
    BY <2>3, <2>4 DEF Fresh, ReadsCurrent
  <2> QED
    BY <2>3, <2>5
<1> QED
  BY <1>1, SafetyInductive, PTL DEF Spec, InactiveSkusStayAsTheyAre
==============================================================================
