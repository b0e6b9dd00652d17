----------------------------- MODULE ItemCatalog -----------------------------
(***************************************************************************)
(* Items with their models, SKUs and units of measure (src/src/items).     *)
(*                                                                         *)
(* The item is an aggregate: a handler loads it with its children, changes *)
(* one of them in memory and, in one transaction, writes the row of the    *)
(* item back as it was read together with the child that changed.  Nothing *)
(* is locked between the load and the save, so the requests of several     *)
(* clients interleave there: an action of a client is the load with every  *)
(* check the handler makes on what it read, Save is its transaction, and   *)
(* Fail is a transaction the database refuses or never receives.           *)
(***************************************************************************)
EXTENDS Integers, FiniteSets

CONSTANTS
  Clients,      \* requests being served at once
  Items, Models, Skus,   \* the ids the sequences of the tables can still give
  Codes,        \* codes of items and of models
  SkuCodes,     \* codes of SKUs as clients write them
  Normal,       \* a code of SkuCodes without blanks, in upper case
  Uoms,         \* codes of units of measure
  SkuBases,     \* the base units clients give new SKUs
  FullLength,   \* the codes of Uoms that fill their CHAR(10) column
  MaxPrice,
  MaxRequests,  \* bound: requests of one behaviour
  None,         \* NULL in a column or a JSON body
  Absent        \* a field the body leaves out

ASSUME CatalogAssumption ==
  /\ Items \subseteq Nat /\ Models \subseteq Nat /\ Skus \subseteq Nat
  /\ None \notin Models
  /\ Codes # {} /\ SkuCodes # {} /\ Uoms # {}
  /\ Normal \in [SkuCodes -> SkuCodes]
  /\ \A x \in SkuCodes : Normal[Normal[x]] = Normal[x]
  /\ FullLength \subseteq Uoms /\ SkuBases \subseteq Uoms
  /\ MaxPrice \in Nat /\ MaxRequests \in Nat

VARIABLES
  item, model, sku,  \* the tables: id -> row
  uom,               \* ItemUOM: item -> the codes of its alternative units
  skuUom,            \* SKUUOM: sku -> unit -> its row
  referred,          \* the SKUs that order lines, stock or transactions name
  req,               \* client -> the request it waits for
  overtaken,         \* history: the clients whose open request has read a
                     \* catalog another client has changed since
  left               \* requests still to come (bound)

vars == <<item, model, sku, uom, skuUom, referred, req, overtaken, left>>

Statuses == {"active", "inactive", "draft"}
Prices == 0..MaxPrice

ItemRow == [st : {"free", "live", "gone"}, code : Codes, status : Statuses,
            base : Uoms, fabric : BOOLEAN]

ModelRow == [st : {"free", "live", "gone"}, code : Codes, status : Statuses,
             item : Items \cup {None}]

SkuRow == [st : {"free", "live", "gone"}, code : SkuCodes, status : Statuses,
           item : Items \cup {None}, model : Models \cup {None},
           fabric : Skus \cup {None}, base : Uoms \cup {None},
           cost : Prices \cup {None}, sell : Prices \cup {None}]

SkuUomRow == {"none", "plain", "default"}

(* The bodies of the requests: what the fields below keep of the DTOs.     *)

CreateItemDto == [code : Codes, status : Statuses, base : Uoms,
                  fabric : BOOLEAN]

UpdateItemDto == [code : Codes \cup {Absent}, base : Uoms \cup {Absent},
                  fabric : BOOLEAN \cup {Absent}]

CreateModelDto == [code : Codes, status : Statuses]

UpdateModelDto == [code : Codes \cup {Absent}]

CreateSkuDto == [code : SkuCodes, status : {"active", "inactive"},
                 base : SkuBases, fabric : Skus \cup {None},
                 cost : Prices \cup {None}, sell : Prices \cup {None}]

UpdateSkuDto == [code : SkuCodes \cup {Absent},
                 base : SkuBases \cup {None, Absent},
                 fabric : Skus \cup {None, Absent},
                 cost : Prices \cup {None, Absent},
                 sell : Prices \cup {None, Absent}]

CreateSkuUomDto == [sku : Skus, uom : Uoms, default : BOOLEAN]

UpdateSkuUomDto == [default : BOOLEAN]

Live(t) == {x \in DOMAIN t : t[x].st = "live"}
Free(t) == {x \in DOMAIN t : t[x].st = "free"}
NextId(t) == CHOOSE x \in Free(t) : TRUE

-----------------------------------------------------------------------------
(* What the entities refuse and compute, and what loading them needs.      *)

\* A selling price below the cost price is refused when both are given.
PricesValid(cost, sell) == cost # None /\ sell # None => sell >= cost

OrZero(p) == IF p = None THEN 0 ELSE p
Given(p, old) == IF p \in {Absent, None} THEN old ELSE p
Set(p, old) == IF p = Absent THEN old ELSE p

\* The constructor keeps a missing price as zero; the code loses its blanks
\* and becomes upper case.
NewSku(i, m, dto) ==
  [st |-> "live", code |-> Normal[dto.code], status |-> dto.status,
   item |-> i, model |-> m, fabric |-> dto.fabric, base |-> dto.base,
   cost |-> OrZero(dto.cost), sell |-> OrZero(dto.sell)]

\* The entity rebuilt from a row: the constructor validates it again.
SkuLoads(s) == PricesValid(sku[s].cost, sku[s].sell)
SkuEntity(s) == [sku[s] EXCEPT !.cost = OrZero(@), !.sell = OrZero(@)]

UpdateAccepted(entity, dto) ==
  dto.cost # Absent \/ dto.sell # Absent
    => PricesValid(Given(dto.cost, entity.cost), Given(dto.sell, entity.sell))

SkuUpdated(entity, dto) ==
  [entity EXCEPT !.base = Set(dto.base, @),
                 !.cost = Set(dto.cost, @), !.sell = Set(dto.sell, @)]

SkusOf(i) == {s \in Live(sku) : sku[s].item = i}

\* findByIdComplete and findByPublicIdComplete rebuild every SKU of the item.
LoadsComplete(i) == i \in Live(item) /\ \A s \in SkusOf(i) : SkuLoads(s)

ItemCodeFree(code, i) == \A j \in Live(item) \ {i} : item[j].code # code

ModelCodeFree(code, m) == \A n \in Live(model) \ {m} : model[n].code # code

SkuCodeFree(code, s) == \A r \in Live(sku) \ {s} : sku[r].code # code

NewItem(dto) == [st |-> "live", code |-> dto.code, status |-> dto.status,
                 base |-> dto.base, fabric |-> dto.fabric]

\* A slip: an update sets the status the constructor would.
ItemUpdatedActive(row, dto) ==
  [row EXCEPT !.code = Set(dto.code, @), !.status = "active"]

\* A slip: the fields a body leaves out are overwritten too.
ItemOverwritten(row, dto) == [row EXCEPT !.code = dto.code, !.base = dto.base]

\* The status is not among the fields Item.update takes.
ItemUpdated(row, dto) ==
  [row EXCEPT !.code = Set(dto.code, @), !.base = Set(dto.base, @),
              !.fabric = Set(dto.fabric, @)]

NewModel(i, dto) == [st |-> "live", code |-> dto.code, status |-> dto.status,
                     item |-> i]

ModelUpdated(row, dto) == [row EXCEPT !.code = Set(dto.code, @)]

\* A slip: a model is removed whatever is under it.
RemovableAnyway(i, m) == m \in Models

\* Item.removeModel, on the SKUs of the item as loaded.
Removable(i, m) == \A s \in SkusOf(i) : sku[s].model # m

-----------------------------------------------------------------------------
(* One request: what it has read and what its save will write.             *)

Idle == [op |-> "idle", item |-> None, irow |-> None, id |-> None,
         row |-> None]

Ready(c) == req[c] = Idle /\ left > 0

Begin(c, r) ==
  /\ left' = left - 1
  /\ req' = [req EXCEPT ![c] = r]
  /\ UNCHANGED <<item, model, sku, uom, skuUom, referred, overtaken>>

\* A request on the aggregate of item i that will save its child id as row.
OnAggregate(c, op, i, id, row) ==
  Begin(c, [Idle EXCEPT !.op = op, !.item = i, !.irow = item[i],
                        !.id = id, !.row = row])

CreateItem(c) ==
  \E dto \in CreateItemDto :
    /\ ItemCodeFree(dto.code, None)
    /\ Free(item) # {}
    /\ Begin(c, [Idle EXCEPT !.op = "createItem", !.irow = NewItem(dto)])

UpdateItemByPublicId(c) ==
  \E i \in Live(item), dto \in UpdateItemDto :
    /\ dto.code # Absent => ItemCodeFree(dto.code, i)
    /\ Begin(c, [Idle EXCEPT !.op = "updateItem", !.item = i,
                             !.irow = ItemUpdated(item[i], dto)])

DeleteItemByPublicId(c) ==
  \E i \in Live(item) :
    /\ LoadsComplete(i)
    /\ Begin(c, [Idle EXCEPT !.op = "deleteItem", !.item = i])

\* Activate, deactivate and draft write the status alone.
SetStatus(c, status) ==
  \E i \in Live(item) :
    /\ item[i].status # status
    /\ Begin(c, [Idle EXCEPT !.op = "setStatus", !.item = i, !.row = status])

ActivateItemByPublicId(c) == SetStatus(c, "active")
DeactivateItemByPublicId(c) == SetStatus(c, "inactive")
SetItemDraftByPublicId(c) == SetStatus(c, "draft")

-----------------------------------------------------------------------------
AddModelToItemByPublicId(c) ==
  \E i \in Live(item), dto \in CreateModelDto :
    /\ LoadsComplete(i)
    /\ ModelCodeFree(dto.code, None)
    /\ Free(model) # {}
    /\ OnAggregate(c, "addModel", i, None, NewModel(i, dto))

\* The handlers reached by the model's public id alone look its item up.
OfLiveModel(m) == m \in Live(model) /\ LoadsComplete(model[m].item)

UpdateModelDirect(c) ==
  \E m \in Live(model), dto \in UpdateModelDto :
    /\ OfLiveModel(m)
    /\ dto.code # Absent => ModelCodeFree(dto.code, m)
    /\ OnAggregate(c, "saveModel", model[m].item, m,
                   ModelUpdated(model[m], dto))

DeleteModelDirect(c) ==
  \E m \in Live(model) :
    /\ OfLiveModel(m)
    /\ Removable(model[m].item, m)
    /\ OnAggregate(c, "dropModel", model[m].item, m, None)

\* A model that already has the status is not marked as updated: the save
\* then writes the item alone.
SetModelStatus(c, status) ==
  \E m \in Live(model) :
    /\ OfLiveModel(m)
    /\ IF model[m].status = status
       THEN OnAggregate(c, "saveItem", model[m].item, None, None)
       ELSE OnAggregate(c, "saveModel", model[m].item, m,
                        [model[m] EXCEPT !.status = status])

ActivateModelDirect(c) == SetModelStatus(c, "active")
DeactivateModelDirect(c) == SetModelStatus(c, "inactive")

-----------------------------------------------------------------------------
\* The check for a duplicate compares the code as the client wrote it with
\* the stored ones, which are normalised.
AddSkuToItemByPublicId(c) ==
  \E i \in Live(item), m \in Live(model) \cup {None} :
    /\ LoadsComplete(i)
    /\ m # None => model[m].item = i
    /\ Free(sku) # {}
    /\ \E dto \in CreateSkuDto :
         /\ SkuCodeFree(dto.code, None)
         /\ PricesValid(dto.cost, dto.sell)
         /\ OnAggregate(c, "addSku", i, None, NewSku(i, m, dto))

\* A SKU of a fabric that other SKUs are made of.
MappedFabric(s) ==
  item[sku[s].item].fabric /\ \E t \in Live(sku) : sku[t].fabric = s

\* A slip: an inactive SKU can be updated.
PatchableAnyway(s) == SkuLoads(s) /\ sku[s].item # None /\ ~MappedFabric(s)

Patchable(s) == /\ SkuLoads(s)
                /\ sku[s].status # "inactive"
                /\ sku[s].item # None
                /\ ~MappedFabric(s)

\* PATCH /skus: not through the aggregate.  The row is rewritten from the
\* entity that was read; a body that leaves fabricSKUId out clears it.
UpdateSkuDirect(c) ==
  \E s \in Live(sku) :
    /\ Patchable(s)
    /\ \E dto \in UpdateSkuDto :
         /\ dto.code # Absent => SkuCodeFree(dto.code, s)
         /\ dto.fabric \in Live(sku) \cup {None, Absent}
         /\ UpdateAccepted(SkuEntity(s), dto)
         /\ Begin(c, [Idle EXCEPT !.op = "patchSku", !.id = s,
              !.row = [SkuUpdated(SkuEntity(s), dto) EXCEPT
                         !.fabric = IF dto.fabric = Absent THEN None
                                    ELSE dto.fabric]])

OfLiveSku(s) == s \in Live(sku) /\ SkuLoads(s) /\ sku[s].item # None
                /\ LoadsComplete(sku[s].item)

DeleteSkuDirect(c) ==
  \E s \in Live(sku) :
    /\ OfLiveSku(s)
    /\ OnAggregate(c, "dropSku", sku[s].item, s, None)

SetSkuStatus(c, status) ==
  \E s \in Live(sku) :
    /\ OfLiveSku(s)
    /\ OnAggregate(c, "saveSku", sku[s].item, s,
                   [SkuEntity(s) EXCEPT !.status = status])

ActivateSkuDirect(c) == SetSkuStatus(c, "active")
DeactivateSkuDirect(c) == SetSkuStatus(c, "inactive")

-----------------------------------------------------------------------------
\* The units of an item.  The column is CHAR(10): a shorter code is read back
\* padded, and is then equal to no code of a request.
HasUom(i, u) == u \in uom[i] \cap FullLength

AddUomToItemByPublicId(c) ==
  \E i \in Live(item), u \in Uoms :
    /\ u # item[i].base
    /\ ~HasUom(i, u)
    /\ OnAggregate(c, "addUom", i, u, None)

RemoveUomByPublicId(c) ==
  \E i \in Live(item), u \in Uoms :
    /\ HasUom(i, u)
    /\ OnAggregate(c, "dropUom", i, u, None)

\* A unit added to a SKU and removed keeps its place in skuUom, as only the
\* pair of SKU and unit tells rows apart.
CreateSkuUom(c) ==
  \E dto \in CreateSkuUomDto :
    /\ dto.sku \in Live(sku)
    /\ sku[dto.sku].base # dto.uom
    /\ skuUom[dto.sku][dto.uom] = "none"
    /\ Begin(c, [Idle EXCEPT !.op = "addSkuUom", !.id = <<dto.sku, dto.uom>>,
                   !.row = IF dto.default THEN "default" ELSE "plain"])

OtherDefault(s, u) == \E v \in Uoms \ {u} : skuUom[s][v] = "default"

UpdateSkuUom(c) ==
  \E s \in Live(sku), u \in Uoms, dto \in UpdateSkuUomDto :
    /\ skuUom[s][u] # "none"
    /\ dto.default => ~OtherDefault(s, u)
    /\ Begin(c, [Idle EXCEPT !.op = "setSkuUom", !.id = <<s, u>>,
                   !.row = IF dto.default THEN "default" ELSE "plain"])

RemoveSkuUom(c) ==
  \E s \in Live(sku), u \in Uoms :
    /\ skuUom[s][u] # "none"
    /\ Begin(c, [Idle EXCEPT !.op = "dropSkuUom", !.id = <<s, u>>])

-----------------------------------------------------------------------------
(* The transactions.                                                       *)

\* The item's row as it was read, if the row is still there and no other item
\* took its code meanwhile.
ItemRowFits(r) == r.item \in Live(item) /\ ItemCodeFree(r.irow.code, r.item)

\* saveWithChildren, for a request of one of these kinds.
SavesWith(r, ops) == r.op \in ops /\ ItemRowFits(r)

Answered(c) ==
  /\ req' = [req EXCEPT ![c] = Idle]
  /\ overtaken' = {d \in Clients : d # c /\ req[d] # Idle}
  /\ UNCHANGED left

\* A slip: the SKUs keep the model that goes with the item.
DeleteItemRowAlone(i) ==
  /\ item' = [item EXCEPT ![i].st = "gone"]
  /\ model' = [m \in Models |-> IF model[m].item = i /\ model[m].st = "live"
                                THEN [model[m] EXCEPT !.st = "gone"]
                                ELSE model[m]]
  /\ sku' = [s \in Skus |->
       IF s \in SkusOf(i) THEN [sku[s] EXCEPT !.item = None] ELSE sku[s]]
  /\ uom' = [uom EXCEPT ![i] = {}]

\* Deleting an item deletes its models and units, and leaves its SKUs without
\* an item and without a model.
DeleteItemRow(i) ==
  /\ item' = [item EXCEPT ![i].st = "gone"]
  /\ model' = [m \in Models |-> IF model[m].item = i /\ model[m].st = "live"
                                THEN [model[m] EXCEPT !.st = "gone"]
                                ELSE model[m]]
  /\ sku' = [s \in Skus |->
       IF s \in SkusOf(i) THEN [sku[s] EXCEPT !.item = None, !.model = None]
       ELSE sku[s]]
  /\ uom' = [uom EXCEPT ![i] = {}]

SaveItem(c) ==
  LET r == req[c] IN
  /\ \/ /\ r.op = "createItem"
        /\ ItemCodeFree(r.irow.code, None)
        /\ Free(item) # {}
        /\ item' = [item EXCEPT ![NextId(item)] = r.irow]
        /\ UNCHANGED <<model, sku, uom>>
     \/ /\ r.op \in {"updateItem", "saveItem"}
        /\ ItemRowFits(r)
        /\ item' = [item EXCEPT ![r.item] = r.irow]
        /\ UNCHANGED <<model, sku, uom>>
     \/ /\ r.op = "setStatus"
        /\ r.item \in Live(item)
        /\ item' = [item EXCEPT ![r.item].status = r.row]
        /\ UNCHANGED <<model, sku, uom>>
     \/ /\ r.op = "deleteItem"
        /\ r.item \in Live(item)
        /\ DeleteItemRow(r.item)
  /\ Answered(c)
  /\ UNCHANGED <<skuUom, referred>>

\* deleteMany takes a row that is already gone for deleted; an update of one
\* fails.  A deleted model leaves the SKUs that name it without a model.
SyncModels(c) ==
  LET r == req[c] IN
  /\ SavesWith(r, {"addModel", "saveModel", "dropModel"})
  /\ \/ /\ r.op = "addModel"
        /\ ModelCodeFree(r.row.code, None)
        /\ Free(model) # {}
        /\ model' = [model EXCEPT ![NextId(model)] = r.row]
        /\ UNCHANGED sku
     \/ /\ r.op = "saveModel"
        /\ r.id \in Live(model)
        /\ ModelCodeFree(r.row.code, r.id)
        /\ model' = [model EXCEPT ![r.id] = r.row]
        /\ UNCHANGED sku
     \/ /\ r.op = "dropModel"
        /\ model' = [model EXCEPT ![r.id].st = "gone"]
        /\ sku' = [s \in Skus |-> IF s \in Live(sku) /\ sku[s].model = r.id
                                  THEN [sku[s] EXCEPT !.model = None]
                                  ELSE sku[s]]
  /\ item' = [item EXCEPT ![r.item] = r.irow]
  /\ Answered(c)
  /\ UNCHANGED <<uom, skuUom, referred>>

\* The foreign keys of a SKU's row.
SkuKeysHold(row) == /\ row.model \in Live(model) \cup {None}
                    /\ row.fabric \in Live(sku) \cup {None}

SyncSkus(c) ==
  LET r == req[c] IN
  /\ SavesWith(r, {"addSku", "saveSku", "dropSku"})
  /\ \/ /\ r.op = "addSku"
        /\ SkuCodeFree(r.row.code, None)
        /\ SkuKeysHold(r.row)
        /\ Free(sku) # {}
        /\ sku' = [sku EXCEPT ![NextId(sku)] = r.row]
        /\ UNCHANGED skuUom
     \/ /\ r.op = "saveSku"
        /\ r.id \in Live(sku)
        /\ SkuCodeFree(r.row.code, r.id)
        /\ SkuKeysHold(r.row)
        /\ sku' = [sku EXCEPT ![r.id] = r.row]
        /\ UNCHANGED skuUom
     \/ /\ r.op = "dropSku"
        /\ r.id \notin referred
        /\ sku' = [s \in Skus |->
             IF s = r.id THEN [sku[s] EXCEPT !.st = "gone"]
             ELSE IF s \in Live(sku) /\ sku[s].fabric = r.id
             THEN [sku[s] EXCEPT !.fabric = None]
             ELSE sku[s]]
        /\ skuUom' = [skuUom EXCEPT ![r.id] = [u \in Uoms |-> "none"]]
  /\ item' = [item EXCEPT ![r.item] = r.irow]
  /\ Answered(c)
  /\ UNCHANGED <<model, uom, referred>>

\* A slip: the item is taken from the row, which has none.
WithoutIdentity(row, old) == [row EXCEPT !.code = old.code, !.item = None]

\* Columns updateSkuById does not take: the code, the item and the model.
WithIdentityOf(row, old) ==
  [row EXCEPT !.code = old.code, !.item = old.item, !.model = old.model]

UpdateSkuById(c) ==
  LET r == req[c] IN
  /\ r.op = "patchSku"
  /\ r.id \in Live(sku)
  /\ r.row.fabric \in Live(sku) \cup {None}
  /\ sku' = [sku EXCEPT ![r.id] = WithIdentityOf(r.row, sku[r.id])]
  /\ Answered(c)
  /\ UNCHANGED <<item, model, uom, skuUom, referred>>

SyncUoms(c) ==
  LET r == req[c] IN
  /\ SavesWith(r, {"addUom", "dropUom"})
  /\ \/ /\ r.op = "addUom"
        /\ r.id \notin uom[r.item]
        /\ uom' = [uom EXCEPT ![r.item] = @ \cup {r.id}]
     \/ /\ r.op = "dropUom"
        /\ uom' = [uom EXCEPT ![r.item] = @ \ {r.id}]
  /\ item' = [item EXCEPT ![r.item] = r.irow]
  /\ Answered(c)
  /\ UNCHANGED <<model, sku, skuUom, referred>>

SaveSkuUom(c) ==
  LET r == req[c] IN
  /\ r.op \in {"addSkuUom", "setSkuUom", "dropSkuUom"}
  /\ LET s == r.id[1]  u == r.id[2] IN
     /\ s \in Live(sku)
     /\ (skuUom[s][u] = "none") = (r.op = "addSkuUom")
     /\ skuUom' = [skuUom EXCEPT ![s][u] =
                     IF r.op = "dropSkuUom" THEN "none" ELSE r.row]
  /\ Answered(c)
  /\ UNCHANGED <<item, model, sku, uom, referred>>

Fail(c) ==
  /\ req[c] # Idle
  /\ req' = [req EXCEPT ![c] = Idle]
  /\ overtaken' = overtaken \ {c}
  /\ UNCHANGED <<item, model, sku, uom, skuUom, referred, left>>

\* A purchase line, a stock row or a line of a transaction starts to name a
\* SKU, looked up in its item.
ReferToSku ==
  \E s \in Live(sku) \ referred :
    /\ OfLiveSku(s)
    /\ referred' = referred \cup {s}
    /\ UNCHANGED <<item, model, sku, uom, skuUom, req, overtaken, left>>

-----------------------------------------------------------------------------
NoItem == [st |-> "free", code |-> CHOOSE x \in Codes : TRUE,
           status |-> "active", base |-> CHOOSE u \in Uoms : TRUE,
           fabric |-> FALSE]
NoModel == [st |-> "free", code |-> CHOOSE x \in Codes : TRUE,
            status |-> "active", item |-> None]
NoSku == [st |-> "free", code |-> CHOOSE x \in SkuCodes : TRUE,
          status |-> "active", item |-> None, model |-> None,
          fabric |-> None, base |-> None, cost |-> 0, sell |-> 0]

Init ==
  /\ item = [i \in Items |-> NoItem]
  /\ model = [m \in Models |-> NoModel]
  /\ sku = [s \in Skus |-> NoSku]
  /\ uom = [i \in Items |-> {}]
  /\ skuUom = [s \in Skus |-> [u \in Uoms |-> "none"]]
  /\ referred = {}
  /\ req = [c \in Clients |-> Idle]
  /\ overtaken = {}
  /\ left = MaxRequests

ItemRequest(c) ==
  \/ CreateItem(c) \/ UpdateItemByPublicId(c) \/ DeleteItemByPublicId(c)
  \/ ActivateItemByPublicId(c) \/ DeactivateItemByPublicId(c)
  \/ SetItemDraftByPublicId(c)

ModelRequest(c) ==
  \/ AddModelToItemByPublicId(c) \/ UpdateModelDirect(c) \/ DeleteModelDirect(c)
  \/ ActivateModelDirect(c) \/ DeactivateModelDirect(c)

SkuRequest(c) ==
  \/ AddSkuToItemByPublicId(c) \/ UpdateSkuDirect(c) \/ DeleteSkuDirect(c)
  \/ ActivateSkuDirect(c) \/ DeactivateSkuDirect(c)

UomRequest(c) == AddUomToItemByPublicId(c) \/ RemoveUomByPublicId(c)

SkuUomRequest(c) == CreateSkuUom(c) \/ UpdateSkuUom(c) \/ RemoveSkuUom(c)

Request(c) ==
  Ready(c) /\ \/ ItemRequest(c) \/ ModelRequest(c) \/ SkuRequest(c)
              \/ UomRequest(c) \/ SkuUomRequest(c)

Save(c) == SaveItem(c) \/ SyncModels(c) \/ SyncSkus(c) \/ UpdateSkuById(c)
           \/ SyncUoms(c) \/ SaveSkuUom(c)

Next ==
  \/ \E c \in Clients : Request(c) \/ Save(c) \/ Fail(c)
  \/ ReferToSku

Spec == Init /\ [][Next]_vars

-----------------------------------------------------------------------------
(* Properties.                                                             *)

\* Type invariant: every row, and every open request, is made of the values
\* its columns and fields can hold.
TypeOK ==
  /\ item \in [Items -> ItemRow] /\ model \in [Models -> ModelRow]
  /\ sku \in [Skus -> SkuRow]
  /\ uom \in [Items -> SUBSET Uoms]
  /\ skuUom \in [Skus -> [Uoms -> SkuUomRow]]
  /\ referred \subseteq Skus /\ overtaken \subseteq Clients
  /\ \A c \in Clients : DOMAIN req[c] = DOMAIN Idle
  /\ left \in 0..MaxRequests

\* A SKU under a model belongs to the model's item, whatever deletions and
\* stale saves of the aggregate overlap (saveWithChildren writes back the
\* model and the item it read; deletions cascade or set NULL).
SkusStayWithTheirModel ==
  \A s \in Live(sku) :
    sku[s].model # None => /\ sku[s].model \in Live(model)
                           /\ model[sku[s].model].item = sku[s].item

\* Only the deletion of an item leaves a live SKU without an item: no save of
\* the aggregate or of the SKU alone, however stale, does.
OrphansOnlyByItemDeletion ==
  [][\A s \in Skus :
       s \in Live(sku) /\ sku[s].item # None /\ sku'[s].item # sku[s].item
         => /\ sku'[s].item = None
            /\ item'[sku[s].item].st = "gone"]_vars

Answers(c) == req[c] # Idle /\ req'[c] = Idle

\* The status of an item moves only by activate, deactivate and draft, or by
\* a request that read the item before another client's write: adding a
\* model, a SKU or a unit writes back the whole row it read.
StatusMovesAsAsked ==
  [][\A i \in Items :
       i \in Live(item) /\ item'[i].st = "live"
         /\ item'[i].status # item[i].status
         => \E c \in Clients : /\ Answers(c) /\ req[c].item = i
                               /\ req[c].op = "setStatus" \/ c \in overtaken]_vars

\* A model is removed with its item or when no SKU is under it; only a
\* request overtaken by a new SKU takes the model from under it.
ModelsLeaveEmpty ==
  [][\A m \in Live(model) :
       model'[m].st = "gone" /\ item'[model[m].item].st = "live"
         => \/ \A s \in Live(sku) : sku[s].model # m
            \/ \E c \in overtaken : Answers(c) /\ req[c].op = "dropModel"]_vars

\* A step leaves a SKU its prices (a missing one counts as zero) and its
\* fabric, unless that is lost with the SKU it names.
KeepsPricesAndFabric(s) ==
  /\ OrZero(sku'[s].cost) = OrZero(sku[s].cost)
  /\ OrZero(sku'[s].sell) = OrZero(sku[s].sell)
  /\ \/ sku'[s].fabric = sku[s].fabric
     \/ sku'[s].fabric = None /\ sku'[sku[s].fabric].st = "gone"

\* The prices and the fabric of an inactive SKU stay as they are until it is
\* activated, unless the request that changes them read the SKU before
\* another client's write; a fabric that is deleted is unlinked.
InactiveSkusStayAsTheyAre ==
  [][\A s \in Live(sku) :
       sku[s].status = "inactive" /\ sku'[s].st = "live"
         => \/ KeepsPricesAndFabric(s)
            \/ \E c \in overtaken : Answers(c) /\ req[c].id = s]_vars
=============================================================================
