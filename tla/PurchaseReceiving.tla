--------------------------- MODULE PurchaseReceiving ---------------------------
(***************************************************************************)
(* Purchase orders, the goods receipts that bring them in, and the sales   *)
(* order lines they are mapped to.                                         *)
(*                                                                         *)
(* The shared state is the POHeader rows with their PODetail lines (po),   *)
(* the InvTransHeader rows of type GOODS_RECEIPT that refer to them        *)
(* (receipt) and the SODetail rows lines may be mapped to (soLine).  A     *)
(* worker is one HTTP request; as in StockTransactions an action is "await *)
(* a database call, then run to the next await", and req[p] is what a      *)
(* request remembers.                                                      *)
(*                                                                         *)
(* The stock a completion moves first is the subject of StockTransactions: *)
(* here a completion whose stock is refused is a request that never comes, *)
(* and so is one of a receipt that was cancelled or removed.               *)
(***************************************************************************)
EXTENDS Integers, FiniteSetsExt

CONSTANTS
  Skus,         \* item SKUs
  Orders,       \* identities of purchase orders, each used once
  SoLines,      \* sales order lines
  OrderDocs,    \* lines of the orders clients create
  NewLines,     \* lines clients add to an order (number 0: given by the code)
  LineEdits,    \* what clients change in a line
  ReceiptIds,   \* identities of goods receipts, each used once
  ReceiptDocs,  \* lines of the goods receipts clients create
  ExtraLines,   \* lines clients add to a draft receipt
  Endpoints,    \* the other endpoints clients use
  Workers,      \* requests served at the same time
  Faults,       \* TRUE if a database call may be refused or the process die
  MaxRequests,  \* bound: requests accepted in one behaviour
  NoOrder, NoReceipt, NoSoLine, NoSku   \* null references

VARIABLES
  po,           \* the orders: status, lines and the largest line id
  receipt,      \* the goods receipts: status, order and lines
  soLine,       \* the state of each sales order line
  req,          \* the request each worker is serving
  brought,      \* brought[o]: quantity moved into stock for order o (history)
  issued        \* requests accepted so far

vars == <<po, receipt, soLine, req, brought, issued>>

--------------------------------------------------------------------------------
(* Types *)

AllEndpoints ==
  {"cancel", "touch", "remove", "deleteLine", "amendReceipt", "referReceipt",
   "divertReceipt", "soLines"}

POStatuses ==
  {"DRAFT", "APPROVED", "PARTIALLY_RECEIVED", "RECEIVED", "CLOSED", "CANCELLED"}
LineStatuses == {"OPEN", "PARTIALLY_RECEIVED", "RECEIVED", "CANCELLED"}

SoRef   == SoLines \cup {NoSoLine}
POLine  == [id: Nat, num: Nat, sku: Skus, orderQty: Nat, receivedQty: Nat,
            soLine: SoRef, status: LineStatuses]
NewLine == [num: Nat, sku: Skus, orderQty: Nat \ {0}, soLine: SoRef]

(* 0, NoSoLine and NoSku: not given. *)
Edit == [orderQty: Nat, soLine: SoRef, sku: Skus \cup {NoSku}]

ReceiptLine == [num: Nat, sku: Skus, baseQty: Nat]

Order   == [status: POStatuses \cup {"NONE", "DELETED"}, lines: SUBSET POLine,
            lastId: Nat]
Receipt == [status: {"NONE", "DRAFT", "COMPLETED"}, order: Orders \cup {NoOrder},
            lines: SUBSET ReceiptLine]

Points == {"idle", "checks", "insert", "write", "delete",
           "receive", "record", "saveReceipt"}

(* status, change, add and drop are what the next write of the order       *)
(* stores; resolve and map are the sales order lines still to be looked up *)
(* and to be found unmapped, line the order line they are meant for.       *)
Request ==
  [pc: Points, order: Orders \cup {NoOrder}, receipt: ReceiptIds \cup {NoReceipt},
   status: POStatuses \cup {"NONE"}, change: SUBSET POLine, add: SUBSET NewLine,
   drop: SUBSET Nat, resolve: SUBSET SoLines, map: SUBSET SoLines, line: Nat,
   todo: SUBSET ReceiptLine]

Idle ==
  [pc |-> "idle", order |-> NoOrder, receipt |-> NoReceipt, status |-> "NONE",
   change |-> {}, add |-> {}, drop |-> {}, resolve |-> {}, map |-> {},
   line |-> 0, todo |-> {}]

ASSUME ReceivingAssumption ==
  /\ IsFiniteSet(Workers)
  /\ \A doc \in OrderDocs :
       /\ doc \subseteq NewLine /\ IsFiniteSet(doc)
       /\ \A l, m \in doc : l.num = m.num => l = m
  /\ NewLines \subseteq NewLine
  /\ LineEdits \subseteq Edit
  /\ \A doc \in ReceiptDocs :
       /\ doc \subseteq ReceiptLine /\ IsFiniteSet(doc)
       /\ \A l, m \in doc : l.num = m.num => l = m
  /\ ExtraLines \subseteq ReceiptLine
  /\ Endpoints \subseteq AllEndpoints
  /\ NoOrder \notin Orders
  /\ NoReceipt \notin ReceiptIds
  /\ NoSoLine \notin SoLines
  /\ NoSku \notin Skus
  /\ Faults \in BOOLEAN
  /\ MaxRequests \in Nat

TypeOK ==
  /\ po \in [Orders -> Order]
  /\ receipt \in [ReceiptIds -> Receipt]
  /\ soLine \in [SoLines -> {"OPEN", "CLOSED", "DELETED"}]
  /\ req \in [Workers -> Request]
  /\ brought \in [Orders -> Nat]
  /\ issued \in Nat

Init ==
  /\ po = [o \in Orders |-> [status |-> "NONE", lines |-> {}, lastId |-> 0]]
  /\ receipt = [i \in ReceiptIds |-> [status |-> "NONE", order |-> NoOrder, lines |-> {}]]
  /\ soLine = [s \in SoLines |-> "OPEN"]
  /\ req = [p \in Workers |-> Idle]
  /\ brought = [o \in Orders |-> 0]
  /\ issued = 0

--------------------------------------------------------------------------------
(* Helpers *)

Found(o) == po[o].status \in POStatuses

(* Lines are loaded in the order of their numbers. *)
First(l, lines) == l \in lines /\ \A m \in lines : l.num <= m.num

(* POStatus.VALID_TRANSITIONS *)
Transitions ==
  {<<"DRAFT", "APPROVED">>, <<"DRAFT", "CANCELLED">>,
   <<"APPROVED", "PARTIALLY_RECEIVED">>, <<"APPROVED", "RECEIVED">>,
   <<"APPROVED", "CANCELLED">>, <<"PARTIALLY_RECEIVED", "RECEIVED">>,
   <<"PARTIALLY_RECEIVED", "CANCELLED">>, <<"RECEIVED", "CLOSED">>}

CanTransition(o, new) == <<po[o].status, new>> \in Transitions

Mapped(lines) == {l.soLine : l \in lines} \ {NoSoLine}

Accept(p, r) ==
  /\ req[p].pc = "idle"
  /\ issued < MaxRequests
  /\ issued' = issued + 1
  /\ req' = [req EXCEPT ![p] = r]

Proceed(p, r) ==
  /\ req' = [req EXCEPT ![p] = r]
  /\ UNCHANGED issued

Answer(p) == Proceed(p, Idle)

Rows == <<po, receipt, soLine, brought>>

--------------------------------------------------------------------------------
(* PoService: requests that create, change or remove an order *)

(* resolveSoLineIdAndCheck, twice a read per sales order line; the lines   *)
(* of a new order are resolved concurrently, in any order.                 *)
Checked(r) == [r EXCEPT !.pc = IF r.resolve \cup r.map # {} THEN "checks"
                               ELSE IF r.status = "NONE" THEN "insert" ELSE "write"]

ResolveSoLine(p) ==
  /\ req[p].pc = "checks"
  /\ \E s \in req[p].resolve :
       IF soLine[s] = "OPEN"
       THEN Proceed(p, [req[p] EXCEPT !.resolve = @ \ {s}, !.map = @ \cup {s}])
       ELSE Answer(p)
  /\ UNCHANGED Rows

AssertNotMapped(p) ==
  /\ req[p].pc = "checks"
  /\ \E s \in req[p].map :
       IF \A o \in Orders : \A l \in po[o].lines :
            l.soLine = s => o = req[p].order /\ l.id = req[p].line
       THEN Proceed(p, Checked([req[p] EXCEPT !.map = @ \ {s}]))
       ELSE Answer(p)
  /\ UNCHANGED Rows

(* create *)
BeginCreate(p, o, doc) ==
  /\ po[o].status = "NONE"
  /\ \A q \in Workers : req[q].order # o
  /\ Accept(p, Checked([Idle EXCEPT !.order = o, !.add = doc, !.resolve = Mapped(doc)]))
  /\ UNCHANGED Rows

(* The request has loaded order o and will write it back: the status and,  *)
(* as every loaded line has row mode UPDATED, all lines.                   *)
Loaded(o) ==
  [Idle EXCEPT !.pc = "write", !.order = o, !.status = po[o].status,
               !.change = po[o].lines]

OrderRequest(p, o, r) ==
  /\ Found(o)
  /\ Accept(p, r)
  /\ UNCHANGED Rows

Approve(p, o) ==
  /\ CanTransition(o, "APPROVED")
  /\ OrderRequest(p, o, [Loaded(o) EXCEPT !.status = "APPROVED"])

(* POLine.cancel, for the lines that are not final *)
Cancelled(l) ==
  IF l.status \in {"RECEIVED", "CANCELLED"} THEN l
  ELSE [l EXCEPT !.status = "CANCELLED", !.soLine = NoSoLine]

Cancel(p, o) ==
  /\ "cancel" \in Endpoints
  /\ CanTransition(o, "CANCELLED")
  /\ OrderRequest(p, o, [Loaded(o) EXCEPT !.status = "CANCELLED",
                                          !.change = {Cancelled(l) : l \in @}])

(* A slip: an order is closed whatever its status. *)
CloseUnchecked(p, o) == OrderRequest(p, o, [Loaded(o) EXCEPT !.status = "CLOSED"])

Close(p, o) ==
  /\ CanTransition(o, "CLOSED")
  /\ OrderRequest(p, o, [Loaded(o) EXCEPT !.status = "CLOSED"])

(* update: no header field but the status is part of the state *)
Touch(p, o) ==
  /\ "touch" \in Endpoints
  /\ OrderRequest(p, o, Loaded(o))

(* updateWithLines with one line to add: only a draft takes one, and its   *)
(* number is the number of lines plus one.                                 *)
AddLine(p, o, line) ==
  /\ po[o].status = "DRAFT"
  /\ OrderRequest(p, o, Checked(
       [Loaded(o) EXCEPT !.add = {[line EXCEPT !.num = Cardinality(po[o].lines) + 1]},
                         !.resolve = Mapped({line})]))

(* ... with one line to update: the status is not looked at, nor is what   *)
(* the line received when it is for another SKU from now on.               *)
UpdateLine(p, o, line, edit) ==
  LET new == [line EXCEPT
                !.orderQty = IF edit.orderQty = 0 THEN @ ELSE edit.orderQty,
                !.soLine   = IF edit.soLine = NoSoLine THEN @ ELSE edit.soLine,
                !.sku      = IF edit.sku = NoSku THEN @ ELSE edit.sku]
  IN  OrderRequest(p, o, Checked(
        [Loaded(o) EXCEPT !.change = (@ \ {line}) \cup {new},
                          !.resolve = Mapped({edit}), !.line = line.id]))

(* ... with one line to delete: only of a draft. *)
DeleteLine(p, o, line) ==
  /\ "deleteLine" \in Endpoints
  /\ po[o].status = "DRAFT"
  /\ OrderRequest(p, o, [Loaded(o) EXCEPT !.change = @ \ {line}, !.drop = {line.id}])

Remove(p, o) ==
  /\ "remove" \in Endpoints
  /\ OrderRequest(p, o, [Idle EXCEPT !.pc = "delete", !.order = o])

--------------------------------------------------------------------------------
(* PORepository: save and remove *)

(* A slip: soLineId has a plain index. *)
MappingUnindexed(o, lines) == \A s \in Mapped(lines) : soLine[s] # "DELETED"

(* The unique index on soLineId and the foreign key, when order o comes to *)
(* have these lines.                                                       *)
MappingAllowed(o, lines) ==
  /\ \A l, m \in lines : l.soLine = m.soLine /\ l.soLine # NoSoLine => l = m
  /\ \A s \in Mapped(lines) :
       /\ soLine[s] # "DELETED"
       /\ \A other \in Orders \ {o} : s \notin Mapped(po[other].lines)

Inserted(add, lastId) ==
  {[id |-> lastId + n.num, num |-> n.num, sku |-> n.sku, orderQty |-> n.orderQty,
    receivedQty |-> 0, soLine |-> n.soLine, status |-> "OPEN"] : n \in add}

(* createPO *)
InsertOrder(p) ==
  LET o     == req[p].order
      lines == Inserted(req[p].add, 0)
  IN  /\ req[p].pc = "insert"
      /\ po' = IF ~ MappingAllowed(o, lines) THEN po
               ELSE [po EXCEPT ![o] = [status |-> "DRAFT", lines |-> lines,
                                       lastId |-> Max({l.id : l \in lines} \cup {0})]]
      /\ Answer(p)
      /\ UNCHANGED <<receipt, soLine, brought>>

(* updatePO writes the status and then deletes, updates and inserts lines; *)
(* every line in memory is written as a whole if its row is still there.   *)
Kept(r)      == {l \in po[r.order].lines : l.id \notin r.drop}
Rewritten(r) == {c \in r.change : \E l \in Kept(r) : c.id = l.id}
Untouched(r) == {l \in Kept(r) : \A c \in r.change : c.id # l.id}

LinesAfter(r) ==
  Untouched(r) \cup Rewritten(r) \cup Inserted(r.add, po[r.order].lastId)

(* Lines are updated one after the other: one may not take a sales order   *)
(* line that a later one has not given up yet.                             *)
OneAfterTheOther(r) ==
  \A c \in Rewritten(r), l \in Kept(r) :
    c.soLine = l.soLine /\ c.soLine # NoSoLine => l.num <= c.num

Writable(r) ==
  /\ Found(r.order)
  /\ \A n \in r.add, l \in Kept(r) : n.num # l.num
  /\ MappingAllowed(r.order, LinesAfter(r))
  /\ OneAfterTheOther(r)

Written(r) ==
  [status |-> r.status, lines |-> LinesAfter(r),
   lastId |-> Max({l.id : l \in LinesAfter(r)} \cup {po[r.order].lastId})]

WriteOrder(p) ==
  /\ req[p].pc = "write"
  /\ po' = IF Writable(req[p]) THEN [po EXCEPT ![req[p].order] = Written(req[p])] ELSE po
  /\ Answer(p)
  /\ UNCHANGED <<receipt, soLine, brought>>

(* Deleting the row deletes its lines; receipts keep referring to it. *)
DeleteOrder(p) ==
  /\ req[p].pc = "delete"
  /\ po' = [po EXCEPT ![req[p].order].status = "DELETED", ![req[p].order].lines = {}]
  /\ Answer(p)
  /\ UNCHANGED <<receipt, soLine, brought>>

--------------------------------------------------------------------------------
(* InventoryService: receipts of an order *)

(* Requests that create a draft receipt or change it are one step each. *)
ReceiptRequest(i, new) ==
  /\ issued < MaxRequests
  /\ issued' = issued + 1
  /\ receipt' = [receipt EXCEPT ![i] = new]
  /\ UNCHANGED <<po, soLine, req, brought>>

(* createGoodsReceiptFromPo asks only that the order exists; removing it   *)
(* between that read and the insert is the same as removing it after both. *)
CreateReceipt(i, o, doc) ==
  /\ receipt[i].status = "NONE"
  /\ Found(o)
  /\ ReceiptRequest(i, [status |-> "DRAFT", order |-> o, lines |-> doc])

(* addLine: a line added later has conversion factor 0. *)
AddReceiptLine(i, line) ==
  /\ "amendReceipt" \in Endpoints
  /\ receipt[i].status = "DRAFT"
  /\ \A l \in receipt[i].lines : l.num # line.num
  /\ ReceiptRequest(i, [receipt[i] EXCEPT !.lines = @ \cup {[line EXCEPT !.baseQty = 0]}])

(* create with a reference of the client's: not even the order is looked   *)
(* for ...                                                                 *)
ReferReceipt(i, o, doc) ==
  /\ "referReceipt" \in Endpoints
  /\ receipt[i].status = "NONE"
  /\ ReceiptRequest(i, [status |-> "DRAFT", order |-> o, lines |-> doc])

(* ... nor when updateByPublicId is given another reference, to an order   *)
(* or to something else.                                                   *)
RedirectReceipt(i, o) ==
  /\ "referReceipt" \in Endpoints
  /\ receipt[i].status = "DRAFT"
  /\ ReceiptRequest(i, [receipt[i] EXCEPT !.order = o])

DivertReceipt(i) ==
  /\ "divertReceipt" \in Endpoints
  /\ receipt[i].status = "DRAFT"
  /\ ReceiptRequest(i, [receipt[i] EXCEPT !.order = NoOrder])

Receiving(r, todo) ==
  [r EXCEPT !.pc = IF todo = {} THEN "saveReceipt" ELSE "receive", !.todo = todo,
            !.status = "NONE", !.change = {}]

(* An exception while the order is updated is logged, the rest skipped. *)
GiveUp(r) == Receiving(r, {})

(* completeByPublicId: loaded, found complete and its stock moved; only a  *)
(* receipt of an order goes on with it.                                    *)
BeginCompletion(p, i) ==
  LET lines == receipt[i].lines
  IN  /\ receipt[i].status = "DRAFT" /\ receipt[i].order # NoOrder
      /\ lines # {}
      /\ Accept(p, Receiving([Idle EXCEPT !.order = receipt[i].order, !.receipt = i], lines))
      /\ brought' = [brought EXCEPT
           ![receipt[i].order] = @ + SumFunction([l \in lines |-> l.baseQty])]
      /\ UNCHANGED <<po, receipt, soLine>>

(* POLine.addReceivedQty; more may come than was ordered. *)
Receivable(l, qty) == qty > 0 /\ l.status \notin {"CANCELLED", "RECEIVED"}

(* A slip: the quantity replaces what was received before. *)
ReceivedInstead(l, qty) ==
  [l EXCEPT !.receivedQty = qty,
            !.status = IF qty >= l.orderQty THEN "RECEIVED" ELSE "PARTIALLY_RECEIVED"]

(* POLine.addReceivedQty, with recalculateStatus *)
Received(l, qty) ==
  [l EXCEPT !.receivedQty = @ + qty,
            !.status = IF l.receivedQty + qty >= l.orderQty THEN "RECEIVED"
                       ELSE "PARTIALLY_RECEIVED"]

(* A slip: the order is partially received under the name sales orders use. *)
StatusAfterPartial(o, lines) ==
  IF \E l \in lines : l.status = "PARTIALLY_RECEIVED" THEN "PARTIAL" ELSE po[o].status

(* A slip: one received line is enough. *)
StatusAfterAny(o, lines) ==
  IF (\E l \in lines : l.status = "RECEIVED") /\ CanTransition(o, "RECEIVED")
  THEN "RECEIVED" ELSE po[o].status

(* POHeader.recalculatePOStatus *)
StatusAfter(o, lines) ==
  LET active == {l \in lines : l.status # "CANCELLED"}
  IN  IF /\ active # {}
         /\ \A l \in active : l.status = "RECEIVED"
         /\ CanTransition(o, "RECEIVED")
      THEN "RECEIVED"
      ELSE IF /\ \E l \in active : l.status \in {"RECEIVED", "PARTIALLY_RECEIVED"}
              /\ CanTransition(o, "PARTIALLY_RECEIVED")
           THEN "PARTIALLY_RECEIVED"
           ELSE po[o].status

LinesOf(o, sku) == {l \in po[o].lines : l.sku = sku}

(* updateLineReceivedQty loads the order and adds the quantity to its      *)
(* first line of the SKU ...                                               *)
ReadForReceipt(p) ==
  LET o == req[p].order
  IN  /\ req[p].pc = "receive"
      /\ \E t \in req[p].todo :
           /\ First(t, req[p].todo)
           /\ \/ \E l \in po[o].lines :
                   LET lines == (po[o].lines \ {l}) \cup {Received(l, t.baseQty)}
                   IN  /\ First(l, LinesOf(o, t.sku))
                       /\ Receivable(l, t.baseQty)
                       /\ Proceed(p, [req[p] EXCEPT !.pc = "record", !.change = lines,
                                                    !.status = StatusAfter(o, lines)])
              \/ /\ ~ \E l \in po[o].lines :
                        First(l, LinesOf(o, t.sku)) /\ Receivable(l, t.baseQty)
                 /\ Proceed(p, GiveUp(req[p]))
      /\ UNCHANGED Rows

(* A slip: a line that was recorded is recorded again. *)
RecordReceiptForgetfully(p) ==
  /\ req[p].pc = "record"
  /\ IF Writable(req[p])
     THEN /\ po' = [po EXCEPT ![req[p].order] = Written(req[p])]
          /\ Proceed(p, Receiving(req[p], req[p].todo))
     ELSE Proceed(p, GiveUp(req[p])) /\ UNCHANGED po
  /\ UNCHANGED <<receipt, soLine, brought>>

(* ... and saves it. *)
RecordReceipt(p) ==
  /\ req[p].pc = "record"
  /\ IF Writable(req[p])
     THEN \E t \in req[p].todo :
            /\ First(t, req[p].todo)
            /\ po' = [po EXCEPT ![req[p].order] = Written(req[p])]
            /\ Proceed(p, Receiving(req[p], req[p].todo \ {t}))
     ELSE Proceed(p, GiveUp(req[p])) /\ UNCHANGED po
  /\ UNCHANGED <<receipt, soLine, brought>>

(* The header of the receipt is written from memory, its reference too. *)
SaveReceipt(p) ==
  /\ req[p].pc = "saveReceipt"
  /\ receipt' = [receipt EXCEPT ![req[p].receipt].status = "COMPLETED",
                                ![req[p].receipt].order = req[p].order]
  /\ Answer(p)
  /\ UNCHANGED <<po, soLine, brought>>

--------------------------------------------------------------------------------
(* The sales side: a line is shipped or cancelled, or it is deleted, which *)
(* nulls the reference of the order line mapped to it.                     *)
CloseSoLine(s) ==
  /\ "soLines" \in Endpoints
  /\ soLine[s] = "OPEN"
  /\ soLine' = [soLine EXCEPT ![s] = "CLOSED"]
  /\ UNCHANGED <<po, receipt, req, brought, issued>>

DeleteSoLine(s) ==
  /\ "soLines" \in Endpoints
  /\ soLine[s] # "DELETED"
  /\ soLine' = [soLine EXCEPT ![s] = "DELETED"]
  /\ po' = [o \in Orders |-> [po[o] EXCEPT !.lines =
       {[l EXCEPT !.soLine = IF @ = s THEN NoSoLine ELSE @] : l \in @}]]
  /\ UNCHANGED <<receipt, req, brought, issued>>

(* The process dies, or a call outside the receiving part is refused. *)
Abort(p) ==
  /\ Faults
  /\ req[p].pc # "idle"
  /\ Answer(p)
  /\ UNCHANGED Rows

(* A call of the receiving part is refused. *)
ReceivingFails(p) ==
  /\ Faults
  /\ req[p].pc \in {"receive", "record"}
  /\ Proceed(p, GiveUp(req[p]))
  /\ UNCHANGED Rows

OrderEndpoint(p, o) ==
  \/ \E doc \in OrderDocs : BeginCreate(p, o, doc)
  \/ Approve(p, o) \/ Cancel(p, o) \/ Close(p, o) \/ Touch(p, o) \/ Remove(p, o)
  \/ \E line \in NewLines : AddLine(p, o, line)
  \/ \E line \in po[o].lines :
       \/ \E edit \in LineEdits : UpdateLine(p, o, line, edit)
       \/ DeleteLine(p, o, line)

ReceiptEndpoint(i) ==
  \/ \E o \in Orders, doc \in ReceiptDocs : CreateReceipt(i, o, doc) \/ ReferReceipt(i, o, doc)
  \/ \E line \in ExtraLines : AddReceiptLine(i, line)
  \/ \E o \in Orders : RedirectReceipt(i, o)
  \/ DivertReceipt(i)

Serve(p) ==
  \/ ResolveSoLine(p) \/ AssertNotMapped(p)
  \/ InsertOrder(p) \/ WriteOrder(p) \/ DeleteOrder(p)
  \/ ReadForReceipt(p) \/ RecordReceipt(p) \/ SaveReceipt(p)

Quiet ==
  /\ \A p \in Workers : req[p].pc = "idle"
  /\ UNCHANGED vars

Next ==
  \/ \E p \in Workers :
       \/ \E o \in Orders : OrderEndpoint(p, o)
       \/ \E i \in ReceiptIds : BeginCompletion(p, i)
       \/ Serve(p)
       \/ Abort(p)
       \/ ReceivingFails(p)
  \/ \E i \in ReceiptIds : ReceiptEndpoint(i)
  \/ \E s \in SoLines : CloseSoLine(s) \/ DeleteSoLine(s)
  \/ Quiet

Spec == Init /\ [][Next]_vars

--------------------------------------------------------------------------------
(* Properties *)

Resting == \A p \in Workers : req[p].pc = "idle"

TotalReceived(o) == SumFunction([l \in po[o].lines |-> l.receivedQty])

BroughtFor(o, sku) ==
  SumFunction(
    [i \in {j \in ReceiptIds : receipt[j].status = "COMPLETED" /\ receipt[j].order = o} |->
       SumFunction([l \in {m \in receipt[i].lines : m.sku = sku} |-> l.baseQty])])

(* An order never records more than was moved into stock for it, whatever  *)
(* overlaps, fails or is completed twice, although every save rewrites all *)
(* lines from an older read (PORepository.updatePO).                       *)
ReceivedIsBrought == \A o \in Orders : TotalReceived(o) <= brought[o]

(* A sales order line is mapped to at most one order line, although the    *)
(* check for it and the write are apart (purchase-order-api.md: "Each      *)
(* soLinePublicId can only be used by one active PO line"), and never to a *)
(* row that was deleted.                                                   *)
MappedOnce ==
  \A o1, o2 \in Orders : \A l1 \in po[o1].lines, l2 \in po[o2].lines :
    l1.soLine # NoSoLine =>
      /\ soLine[l1.soLine] # "DELETED"
      /\ l1.soLine = l2.soLine => o1 = o2 /\ l1 = l2

(* Between requests, an order line that still awaits goods has recorded    *)
(* every completed receipt of its SKU (completeByPublicId: "Update PO      *)
(* Received Qty if Goods Receipt from PO"), as long as lines keep their    *)
(* SKU and receipts are made for an order that is there.                   *)
UnfinishedLinesAreCounted ==
  Resting =>
    \A o \in Orders : \A l \in po[o].lines :
      First(l, LinesOf(o, l.sku)) /\ l.status \in {"OPEN", "PARTIALLY_RECEIVED"} =>
        l.receivedQty = BroughtFor(o, l.sku)

(* An order that is received has received all its lines, and one that is   *)
(* partially received awaits some (POHeader.recalculatePOStatus).          *)
StatusFitsLines ==
  \A o \in Orders :
    LET active == {l \in po[o].lines : l.status # "CANCELLED"}
    IN  /\ po[o].status \in {"RECEIVED", "CLOSED"} =>
             \A l \in active : l.status = "RECEIVED"
        /\ po[o].status = "PARTIALLY_RECEIVED" =>
             /\ \E l \in active : l.status # "RECEIVED"
             /\ \E l \in active : l.status # "OPEN"

(* The status of an order moves along POStatus.VALID_TRANSITIONS only. *)
StatusFollowsTransitions ==
  [][\A o \in Orders :
       Found(o) /\ po'[o].status \notin {po[o].status, "DELETED"} =>
         CanTransition(o, po'[o].status)]_vars

================================================================================
