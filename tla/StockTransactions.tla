--------------------------- MODULE StockTransactions ---------------------------
(***************************************************************************)
(* Inventory transactions and the warehouse stock they move.               *)
(*                                                                         *)
(* Rows of three tables are the shared state: InvTransHeader with its      *)
(* InvTransLines (header), WarehouseItem (stock) and Warehouse             *)
(* (warehouses).  A worker is one HTTP request being served.  Node runs    *)
(* the code between two awaits without interruption and every awaited      *)
(* Prisma call is one atomic database operation, so one action is "await a *)
(* database call, then run to the next await".  What a request read stays  *)
(* in its local record req[p] until the request writes it back.            *)
(*                                                                         *)
(* PO and SO quantities, which a completion updates between its last stock *)
(* write and its header write, are in other tables: those of sales orders  *)
(* are the subject of SalesOrderShipping.                                  *)
(***************************************************************************)
EXTENDS Integers, FiniteSets

CONSTANTS
  Warehouses,    \* warehouses that exist initially
  Deletable,     \* those an operator may delete
  Skus,          \* item SKUs
  LineNums,      \* line numbers clients use
  TransIds,      \* identities of transactions, each used once
  Workers,       \* requests served at the same time
  Documents,     \* bodies of the create endpoints, as the row they insert
  ExtraLines,    \* bodies of POST :publicId/lines
  Amounts,       \* quantities sent to the reserve, release and set endpoints
  Adjustments,   \* signed deltas sent to the adjust endpoint
  OpeningStock,  \* WarehouseItem rows at the start
  Faults,        \* TRUE if a database call may be refused or the process die
  Disjoint,      \* TRUE if clients never have two requests in flight that
                 \* concern the same transaction or the same stock row
  MaxRequests,   \* bound: requests accepted in one behaviour
  NoWarehouse, NoTrans, NoLocation   \* null references

VARIABLES
  warehouses,    \* rows of Warehouse
  header,        \* rows of InvTransHeader, each with its lines
  stock,         \* rows of WarehouseItem
  req,           \* the request each worker is serving
  issued         \* requests accepted so far

vars == <<warehouses, header, stock, req, issued>>

--------------------------------------------------------------------------------
(* Types *)

Types     == {"GOODS_RECEIPT", "GOODS_ISSUE", "STOCK_TRANSFER", "ADJUSTMENT"}
Statuses  == {"DRAFT", "COMPLETED", "CANCELLED"}
Locations == Warehouses \X Skus

Line      == [id: Nat, num: LineNums, sku: Skus, baseQty: Nat]
ExtraLine == [num: LineNums, sku: Skus]
StockRow  == [exists: BOOLEAN, quantity: Int, reservedQty: Int]
NoRow     == [exists |-> FALSE, quantity |-> 0, reservedQty |-> 0]

(* lastId is the largest line id the header ever had. *)
Header ==
  [type: Types \cup {"NONE"}, status: Statuses \cup {"NONE", "DELETED"},
   from: Warehouses \cup {NoWarehouse}, to: Warehouses \cup {NoWarehouse},
   lines: SUBSET Line, lastId: Nat]
NoHeader ==
  [type |-> "NONE", status |-> "NONE", from |-> NoWarehouse,
   to |-> NoWarehouse, lines |-> {}, lastId |-> 0]

ASSUME StockAssumption ==
  /\ Deletable \subseteq Warehouses
  /\ NoWarehouse \notin Warehouses
  /\ NoTrans \notin TransIds
  /\ NoLocation \notin Locations
  /\ IsFiniteSet(Workers)
  /\ LineNums \subseteq Nat
  /\ Documents \subseteq Header
  /\ \A doc \in Documents : IsFiniteSet(doc.lines)
  /\ ExtraLines \subseteq ExtraLine
  /\ Amounts \subseteq Nat
  /\ Adjustments \subseteq Int
  /\ OpeningStock \in [Locations -> StockRow]
  /\ \A l \in Locations :
       OpeningStock[l].quantity >= 0 /\ OpeningStock[l].reservedQty >= 0
  /\ Faults \in BOOLEAN
  /\ Disjoint \in BOOLEAN
  /\ MaxRequests \in Nat

(* Where a request stands: which database call it is waiting for. *)
Points == {"idle", "find", "removing", "credit", "adding", "save", "delete",
           "rowSave", "rowInsert"}

(* head is the header as changed in memory, todo the lines whose stock is  *)
(* still to be moved, row the stock row as read (or as changed in memory), *)
(* add and drop the lines a save inserts and deletes.                      *)
Request ==
  [pc: Points, trans: TransIds \cup {NoTrans}, head: Header,
   todo: SUBSET Line, loc: Locations \cup {NoLocation}, row: StockRow,
   add: SUBSET ExtraLine, drop: SUBSET Line]

Idle ==
  [pc |-> "idle", trans |-> NoTrans, head |-> NoHeader, todo |-> {},
   loc |-> NoLocation, row |-> NoRow, add |-> {}, drop |-> {}]

TypeOK ==
  /\ warehouses \subseteq Warehouses
  /\ header \in [TransIds -> Header]
  /\ stock \in [Locations -> StockRow]
  /\ req \in [Workers -> Request]
  /\ issued \in Nat

Init ==
  /\ warehouses = Warehouses
  /\ header = [t \in TransIds |-> NoHeader]
  /\ stock = OpeningStock
  /\ req = [p \in Workers |-> Idle]
  /\ issued = 0

--------------------------------------------------------------------------------
(* Helpers *)

Outbound(h) == h.type \in {"GOODS_ISSUE", "STOCK_TRANSFER"}

(* InvTransHeader.validateWarehouseByType, run by every construction and   *)
(* therefore by every load of a header.  The reason an ADJUSTMENT must     *)
(* also have is left out, and with it that adjustments no longer load once *)
(* their reason is deleted: requests on them are then refused, which is a  *)
(* case of requests that are never sent.                                   *)
WarehousesFitType(h) ==
  \/ h.type = "GOODS_RECEIPT" /\ h.to # NoWarehouse /\ h.from = NoWarehouse
  \/ h.type = "GOODS_ISSUE" /\ h.from # NoWarehouse /\ h.to = NoWarehouse
  \/ /\ h.type = "STOCK_TRANSFER"
     /\ h.from # NoWarehouse /\ h.to # NoWarehouse /\ h.from # h.to
  \/ h.type = "ADJUSTMENT" /\ h.from # NoWarehouse

(* A load by public id succeeds: the row is there and passes validation. *)
Loads(h) == h.status \in Statuses /\ WarehousesFitType(h)

(* The foreign keys of a header row point at existing warehouses. *)
KeysValid(h) == {h.from, h.to} \subseteq warehouses \cup {NoWarehouse}

(* Lines are loaded in the order of their numbers. *)
First(l, lines) == l \in lines /\ \A m \in lines : l.num <= m.num

RowKey(w, l) == <<w, l.sku>>

(* The warehouse whose stock a completion increases. *)
Receiving(h) == IF h.type = "ADJUSTMENT" THEN h.from ELSE h.to

(* The stock rows a request reads or writes. *)
RowsOf(r) ==
  {r.loc} \cup {RowKey(w, l) : w \in {r.head.from, r.head.to}, l \in r.head.lines}

Overlap(r, s) ==
  \/ r.trans = s.trans /\ r.trans # NoTrans
  \/ (RowsOf(r) \cap RowsOf(s)) \ {NoLocation} # {}

Accept(p, r) ==
  /\ req[p].pc = "idle"
  /\ issued < MaxRequests
  /\ Disjoint => \A q \in Workers : ~ Overlap(r, req[q])
  /\ issued' = issued + 1
  /\ req' = [req EXCEPT ![p] = r]

Answer(p) ==
  /\ req' = [req EXCEPT ![p] = Idle]
  /\ UNCHANGED issued

--------------------------------------------------------------------------------
(* Requests on a transaction: load it, check it, change it in memory *)

(* POST goods-receipt, goods-issue, stock-transfer, adjustment.  Nothing   *)
(* another request writes is read before the insert, so the whole request  *)
(* is one step; the warehouse check repeats the foreign key, and the pair  *)
(* (header, line number) is unique.                                        *)
Create(t, doc) ==
  /\ issued < MaxRequests
  /\ header[t].status = "NONE"
  /\ WarehousesFitType(doc)
  /\ KeysValid(doc)
  /\ \A l, m \in doc.lines : l.num = m.num => l = m
  /\ header' = [header EXCEPT ![t] = [doc EXCEPT !.status = "DRAFT"]]
  /\ issued' = issued + 1
  /\ UNCHANGED <<warehouses, stock, req>>

(* InvTransHeader.complete *)
Completable(h) == h.status = "DRAFT" /\ h.lines # {}

(* InvTransHeader.cancel *)
Cancellable(h) == h.status = "DRAFT"

(* A slip: a completed transaction can be amended. *)
AmendableTwice(h) == h.status # "CANCELLED"

(* InvTransHeader.addLine, removeLine, updateNote, ..., and the check of   *)
(* removeByPublicId                                                        *)
Amendable(h) == h.status = "DRAFT"

BeginComplete(p, t) ==
  /\ Loads(header[t])
  /\ Completable(header[t])
  /\ Accept(p, [Idle EXCEPT !.pc = "find", !.trans = t,
                            !.head = [header[t] EXCEPT !.status = "COMPLETED"],
                            !.todo = header[t].lines])
  /\ UNCHANGED <<warehouses, header, stock>>

BeginCancel(p, t) ==
  /\ Loads(header[t])
  /\ Cancellable(header[t])
  /\ Accept(p, [Idle EXCEPT !.pc = "save", !.trans = t,
                            !.head = [header[t] EXCEPT !.status = "CANCELLED"]])
  /\ UNCHANGED <<warehouses, header, stock>>

(* Note, date and reference are not part of the state: an update is a      *)
(* load and a write of the row as it was loaded.                           *)
BeginUpdate(p, t) ==
  /\ Loads(header[t])
  /\ Amendable(header[t])
  /\ Accept(p, [Idle EXCEPT !.pc = "save", !.trans = t, !.head = header[t]])
  /\ UNCHANGED <<warehouses, header, stock>>

BeginRemove(p, t) ==
  /\ Loads(header[t])
  /\ Amendable(header[t])
  /\ Accept(p, [Idle EXCEPT !.pc = "delete", !.trans = t])
  /\ UNCHANGED <<warehouses, header, stock>>

BeginAddLine(p, t, line) ==
  /\ Loads(header[t])
  /\ Amendable(header[t])
  /\ Accept(p, [Idle EXCEPT !.pc = "save", !.trans = t, !.head = header[t],
                            !.add = {line}])
  /\ UNCHANGED <<warehouses, header, stock>>

BeginRemoveLine(p, t, line) ==
  /\ Loads(header[t])
  /\ Amendable(header[t])
  /\ line \in header[t].lines
  /\ Accept(p, [Idle EXCEPT !.pc = "save", !.trans = t, !.head = header[t],
                            !.drop = {line}])
  /\ UNCHANGED <<warehouses, header, stock>>

--------------------------------------------------------------------------------
(* StockService.updateStock, called by a completion *)

(* findStock for the first leg of the next line *)
FindStock(p) ==
  /\ req[p].pc = "find"
  /\ \E l \in req[p].todo :
       /\ First(l, req[p].todo)
       /\ IF Outbound(req[p].head)
          THEN req' = [req EXCEPT ![p].pc = "removing",
                                  ![p].row = stock[RowKey(req[p].head.from, l)]]
          ELSE req' = [req EXCEPT ![p].pc = "adding",
                                  ![p].row = stock[RowKey(Receiving(req[p].head), l)]]
  /\ UNCHANGED <<warehouses, header, stock, issued>>

(* findStock for the second leg of a transfer *)
FindDestination(p) ==
  /\ req[p].pc = "credit"
  /\ \E l \in req[p].todo :
       /\ First(l, req[p].todo)
       /\ req' = [req EXCEPT ![p].pc = "adding",
                             ![p].row = stock[RowKey(req[p].head.to, l)]]
  /\ UNCHANGED <<warehouses, header, stock, issued>>

(* A slip: removeStock checks only that there is a row. *)
SufficientIfExists(row, l) == row.exists

(* The checks of removeStock look at the row that was read. *)
Sufficient(row, l) == row.exists /\ row.quantity >= l.baseQty

(* The request after all stock of line l has been moved. *)
LineMoved(r, l) ==
  [r EXCEPT !.todo = @ \ {l}, !.row = NoRow,
            !.pc = IF r.todo = {l} THEN "save" ELSE "find"]

(* updateStockQuantity: an absolute quantity computed from the row read; *)
(* it fails if the row is gone.                                          *)
RemoveStock(p) ==
  /\ req[p].pc = "removing"
  /\ \E l \in req[p].todo :
       LET r   == req[p]
           loc == RowKey(r.head.from, l)
       IN  /\ First(l, r.todo)
           /\ Sufficient(r.row, l)
           /\ stock[loc].exists
           /\ stock' = [stock EXCEPT ![loc].quantity = r.row.quantity - l.baseQty]
           /\ req' = [req EXCEPT ![p] =
                        IF r.head.type = "STOCK_TRANSFER"
                        THEN [r EXCEPT !.pc = "credit", !.row = NoRow]
                        ELSE LineMoved(r, l)]
  /\ UNCHANGED <<warehouses, header, issued>>

(* A slip: insufficient stock is retried instead of refused. *)
RemoveStockRetried(p) ==
  /\ req[p].pc = "removing"
  /\ \E l \in req[p].todo :
       /\ First(l, req[p].todo)
       /\ ~ Sufficient(req[p].row, l)
  /\ req' = [req EXCEPT ![p].pc = "find", ![p].row = NoRow]
  /\ UNCHANGED <<warehouses, header, stock, issued>>

RemoveStockFails(p) ==
  /\ req[p].pc = "removing"
  /\ \E l \in req[p].todo :
       /\ First(l, req[p].todo)
       /\ \/ ~ Sufficient(req[p].row, l)
          \/ ~ stock[RowKey(req[p].head.from, l)].exists
  /\ Answer(p)
  /\ UNCHANGED <<warehouses, header, stock>>

(* A slip: upsertStock stores the quantity of the line, not the sum. *)
AddStockOverwrites(p) ==
  /\ req[p].pc = "adding"
  /\ \E l \in req[p].todo :
       LET r   == req[p]
           w   == Receiving(r.head)
           loc == RowKey(w, l)
       IN  /\ First(l, r.todo)
           /\ w \in warehouses
           /\ stock' = [stock EXCEPT ![loc].exists = TRUE, ![loc].quantity = l.baseQty]
           /\ req' = [req EXCEPT ![p] = LineMoved(r, l)]
  /\ UNCHANGED <<warehouses, header, issued>>

(* upsertStock: an absolute quantity, in a new row if there is none; a new *)
(* row needs its warehouse.                                                *)
AddStock(p) ==
  /\ req[p].pc = "adding"
  /\ \E l \in req[p].todo :
       LET r   == req[p]
           w   == Receiving(r.head)
           loc == RowKey(w, l)
       IN  /\ First(l, r.todo)
           /\ w \in warehouses
           /\ stock' = [stock EXCEPT ![loc] =
                          [exists |-> TRUE,
                           quantity |-> r.row.quantity + l.baseQty,
                           reservedQty |-> stock[loc].reservedQty]]
           /\ req' = [req EXCEPT ![p] = LineMoved(r, l)]
  /\ UNCHANGED <<warehouses, header, issued>>

AddStockFails(p) ==
  /\ req[p].pc = "adding"
  /\ Receiving(req[p].head) \notin warehouses
  /\ Answer(p)
  /\ UNCHANGED <<warehouses, header, stock>>

--------------------------------------------------------------------------------
(* InvTransHeaderRepository.update and delete *)

(* Lines left in the table, and their numbers, once a save dropped some. *)
Kept(t, r) == header[t].lines \ r.drop

SavePossible(t, r) ==
  /\ header[t].status # "DELETED"
  /\ KeysValid(r.head)
  /\ \A a \in r.add : \A l \in Kept(t, r) : a.num # l.num

(* The whole header row is written from memory; of the lines only the new  *)
(* and the deleted ones are.  A line added by addLine carries conversion   *)
(* factor 0, so its base quantity is 0.                                    *)
Save(p) ==
  LET r == req[p]
      t == r.trans
      lastId == header[t].lastId + (IF r.add = {} THEN 0 ELSE 1)
  IN  /\ r.pc = "save"
      /\ SavePossible(t, r)
      /\ header' = [header EXCEPT ![t] =
           [r.head EXCEPT
              !.lines = Kept(t, r) \cup
                        {[id |-> lastId, num |-> a.num, sku |-> a.sku,
                          baseQty |-> 0] : a \in r.add},
              !.lastId = lastId]]
      /\ Answer(p)
      /\ UNCHANGED <<warehouses, stock>>

SaveFails(p) ==
  /\ req[p].pc = "save"
  /\ ~ SavePossible(req[p].trans, req[p])
  /\ Answer(p)
  /\ UNCHANGED <<warehouses, header, stock>>

(* Deleting a row that is already gone fails and changes nothing either. *)
Delete(p) ==
  /\ req[p].pc = "delete"
  /\ header' = [header EXCEPT ![req[p].trans] = [NoHeader EXCEPT !.status = "DELETED"]]
  /\ Answer(p)
  /\ UNCHANGED <<warehouses, stock>>

--------------------------------------------------------------------------------
(* WarehouseService: inventory endpoints *)

(* Each loads the WarehouseItem, changes quantity or reservedQty in memory *)
(* (throwing when the entity refuses) and writes both columns back.        *)
WarehouseRequest(p, loc, row) ==
  /\ loc[1] \in warehouses
  /\ Accept(p, [Idle EXCEPT !.pc = IF stock[loc].exists THEN "rowSave" ELSE "rowInsert",
                            !.loc = loc, !.row = row])
  /\ UNCHANGED <<warehouses, header, stock>>

(* A slip: a new row has no reserved quantity. *)
NewRowUnreserved(q) == [exists |-> TRUE, quantity |-> q]

NewRow(q) == [exists |-> TRUE, quantity |-> q, reservedQty |-> 0]

(* adjustInventory, with WarehouseItem.adjustQuantity *)
AdjustInventory(p, loc, delta) ==
  LET row == stock[loc]
  IN  IF row.exists
      THEN /\ row.quantity + delta >= 0
           /\ WarehouseRequest(p, loc, [row EXCEPT !.quantity = @ + delta])
      ELSE /\ delta >= 0
           /\ WarehouseRequest(p, loc, NewRow(delta))

(* addInventory and setInventory, with WarehouseItem.setQuantity *)
SetInventory(p, loc, q) ==
  LET row == stock[loc]
  IN  IF row.exists
      THEN /\ q >= row.reservedQty
           /\ WarehouseRequest(p, loc, [row EXCEPT !.quantity = q])
      ELSE WarehouseRequest(p, loc, NewRow(q))

(* setInventory with no quantity: the row is written back as it was read *)
TouchInventory(p, loc) ==
  WarehouseRequest(p, loc, IF stock[loc].exists THEN stock[loc] ELSE NewRow(0))

(* A slip: a reservation is checked against the quantity on hand. *)
ReserveOnHand(p, loc, q) ==
  LET row == stock[loc]
  IN  /\ row.exists
      /\ q <= row.quantity
      /\ WarehouseRequest(p, loc, [row EXCEPT !.reservedQty = @ + q])

(* reserveInventory, with WarehouseItem.reserve *)
ReserveInventory(p, loc, q) ==
  LET row == stock[loc]
  IN  /\ row.exists
      /\ q <= row.quantity - row.reservedQty
      /\ WarehouseRequest(p, loc, [row EXCEPT !.reservedQty = @ + q])

(* releaseReservation, with WarehouseItem.releaseReservation *)
ReleaseReservation(p, loc, q) ==
  LET row == stock[loc]
      left == IF q <= row.reservedQty THEN row.reservedQty - q ELSE 0
  IN  /\ row.exists
      /\ WarehouseRequest(p, loc, [row EXCEPT !.reservedQty = left])

(* updateInventory *)
SaveRow(p) ==
  /\ req[p].pc = "rowSave"
  /\ stock[req[p].loc].exists
  /\ stock' = [stock EXCEPT ![req[p].loc] = req[p].row]
  /\ Answer(p)
  /\ UNCHANGED <<warehouses, header>>

(* saveInventory; the pair (warehouse, SKU) is unique *)
InsertRow(p) ==
  /\ req[p].pc = "rowInsert"
  /\ ~ stock[req[p].loc].exists
  /\ req[p].loc[1] \in warehouses
  /\ stock' = [stock EXCEPT ![req[p].loc] = req[p].row]
  /\ Answer(p)
  /\ UNCHANGED <<warehouses, header>>

RowWriteFails(p) ==
  /\ \/ req[p].pc = "rowSave" /\ ~ stock[req[p].loc].exists
     \/ req[p].pc = "rowInsert" /\ stock[req[p].loc].exists
     \/ req[p].pc = "rowInsert" /\ req[p].loc[1] \notin warehouses
  /\ Answer(p)
  /\ UNCHANGED <<warehouses, header, stock>>

(* deleteWarehouse.  The schema cascades to WarehouseItem and nulls the    *)
(* optional references of InvTransHeader.                                  *)
DeleteWarehouse(w) ==
  /\ issued < MaxRequests
  /\ w \in warehouses
  /\ issued' = issued + 1
  /\ warehouses' = warehouses \ {w}
  /\ stock' = [l \in Locations |-> IF l[1] = w THEN NoRow ELSE stock[l]]
  /\ header' = [t \in TransIds |->
       [header[t] EXCEPT !.from = IF @ = w THEN NoWarehouse ELSE @,
                         !.to   = IF @ = w THEN NoWarehouse ELSE @]]
  /\ UNCHANGED req

--------------------------------------------------------------------------------
(* The awaited call is refused, or the process dies: what the request did  *)
(* so far stays, the rest is never done.                                   *)
Abort(p) ==
  /\ Faults
  /\ req[p].pc # "idle"
  /\ Answer(p)
  /\ UNCHANGED <<warehouses, header, stock>>

Serve(p) ==
  \/ FindStock(p)    \/ FindDestination(p)
  \/ RemoveStock(p)  \/ RemoveStockFails(p)
  \/ AddStock(p)     \/ AddStockFails(p)
  \/ Save(p)         \/ SaveFails(p)
  \/ Delete(p)
  \/ SaveRow(p)      \/ InsertRow(p)       \/ RowWriteFails(p)

TransactionRequest(p) ==
  \E t \in TransIds :
    \/ BeginComplete(p, t)
    \/ BeginCancel(p, t)
    \/ BeginUpdate(p, t)
    \/ BeginRemove(p, t)
    \/ \E line \in ExtraLines : BeginAddLine(p, t, line)
    \/ \E line \in header[t].lines : BeginRemoveLine(p, t, line)

InventoryRequest(p) ==
  \E loc \in Locations :
    \/ \E delta \in Adjustments : AdjustInventory(p, loc, delta)
    \/ \E q \in Amounts : SetInventory(p, loc, q)
    \/ Amounts # {} /\ TouchInventory(p, loc)
    \/ \E q \in Amounts : ReserveInventory(p, loc, q)
    \/ \E q \in Amounts : ReleaseReservation(p, loc, q)

(* No request is being served and none that would be accepted comes in. *)
Quiet ==
  /\ \A p \in Workers : req[p].pc = "idle"
  /\ UNCHANGED vars

Next ==
  \/ \E t \in TransIds, doc \in Documents : Create(t, doc)
  \/ \E w \in Deletable : DeleteWarehouse(w)
  \/ \E p \in Workers :
       \/ TransactionRequest(p)
       \/ InventoryRequest(p)
       \/ Serve(p)
       \/ Abort(p)
  \/ Quiet

Spec == Init /\ [][Next]_vars

(* The event loop resumes every request whose database call was answered. *)
FairSpec == Spec /\ \A p \in Workers : WF_vars(Serve(p))

--------------------------------------------------------------------------------
(* Properties *)

(* The request of p is a completion that may have moved stock. *)
Completing(p) ==
  /\ req[p].pc \in {"find", "removing", "credit", "adding", "save"}
  /\ req[p].head.status = "COMPLETED"

(* No interleaving of requests, warehouse deletion or fault makes a stored *)
(* quantity or reservation negative, although every write is absolute and  *)
(* computed from an older read (StockService.removeStock, WarehouseItem).  *)
NonNegativeStock ==
  \A l \in Locations : stock[l].quantity >= 0 /\ stock[l].reservedQty >= 0

(* A completed or cancelled transaction keeps its status and its lines     *)
(* (InvTransHeader: only a draft is completed, cancelled or amended).      *)
ClosedIsFinal ==
  [][\A t \in TransIds : header[t].status \in {"COMPLETED", "CANCELLED"} =>
       /\ header'[t].status = header[t].status
       /\ header'[t].lines = header[t].lines]_vars

(* Two completions of one transaction are never both moving its stock      *)
(* (InvTransHeader.complete: "Transaction is already completed").          *)
CompletedOnce ==
  \A p, q \in Workers :
    p # q /\ Completing(p) /\ Completing(q) => req[p].trans # req[q].trans

(* What is reserved is in stock (WarehouseItem.setQuantity and reserve     *)
(* refuse to let reservedQty exceed quantity).                             *)
ReservedIsStocked ==
  \A l \in Locations : stock[l].reservedQty <= stock[l].quantity

(* Every request is answered: no combination of rows leaves one waiting    *)
(* (completeByPublicId loops over lines that shrink with every turn).      *)
RequestsAnswered ==
  \A p \in Workers : req[p].pc # "idle" ~> req[p].pc = "idle"

================================================================================
