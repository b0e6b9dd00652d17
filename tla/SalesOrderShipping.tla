--------------------------- MODULE SalesOrderShipping ---------------------------
(***************************************************************************)
(* A sales order and the goods issues that ship it.                        *)
(*                                                                         *)
(* The shared state is one SOHeader with its SODetail lines (so) and the   *)
(* InvTransHeader rows of type GOODS_ISSUE that refer to it (issue).       *)
(* Orders share no row, so one order is enough.  A worker is one HTTP      *)
(* request; as in StockTransactions an action is "await a database call,   *)
(* then run to the next await", and req[p] is what a request remembers.    *)
(*                                                                         *)
(* The stock a completion moves first is the subject of StockTransactions: *)
(* here a completion whose stock is refused is a request that never comes. *)
(***************************************************************************)
EXTENDS Integers, FiniteSetsExt

CONSTANTS
  Skus,          \* item SKUs
  OrderLines,    \* lines of the order when it is created
  NewLines,      \* bodies of POST :publicId/lines (number 0: not given)
  Quantities,    \* quantities sent to PATCH :publicId/lines/:linePublicId
  PatchStatuses, \* statuses sent to PATCH :publicId
  IssueIds,      \* identities of goods issues, each used once
  IssueDocs,     \* lines of the goods issues clients ask for
  ExtraLines,    \* lines clients add to a draft issue
  Endpoints,     \* the other endpoints clients use
  Workers,       \* requests served at the same time
  OnePerIssue,   \* TRUE if clients never have two requests in flight that
                 \* concern the same goods issue
  Faults,        \* TRUE if a database call may be refused or the process die
  MaxRequests,   \* bound: requests accepted in one behaviour
  NoIssue        \* null reference

VARIABLES
  so,            \* the order: status, lines and the largest line id
  issue,         \* the goods issues: status and lines
  req,           \* the request each worker is serving
  moved,         \* moved[k]: quantity of SKU k moved out of stock for the order,
                 \* by completions of its issues (history)
  issued         \* requests accepted so far

vars == <<so, issue, req, moved, issued>>

--------------------------------------------------------------------------------
(* Types *)

AllEndpoints ==
  {"hold", "release", "cancel", "complete", "touch", "remove", "deleteLine",
   "updateWithLines", "amendIssue", "closeIssue", "referIssue", "divertIssue"}

SOStatuses    == {"DRAFT", "OPEN", "ON_HOLD", "PARTIAL", "CLOSED", "CANCELLED"}
LineStatuses  == {"OPEN", "PARTIAL", "CLOSED", "CANCELLED"}
(* ELSEWHERE: a draft that refers to another order, or to none. *)
IssueStatuses == {"NONE", "DRAFT", "COMPLETED", "CANCELLED", "DELETED", "ELSEWHERE"}

(* baseQty is quantity converted to the unit of the SKU. *)
SOLine    == [id: Nat, num: Nat, sku: Skus, orderQty: Nat, shippedQty: Nat,
              status: LineStatuses]
NewLine   == [num: Nat, sku: Skus, orderQty: Nat \ {0}]
IssueLine == [num: Nat, sku: Skus, quantity: Nat, baseQty: Nat]

Order == [status: SOStatuses \cup {"DELETED"}, lines: SUBSET SOLine, lastId: Nat]
Issue == [status: IssueStatuses, lines: SUBSET IssueLine]

(* What a completion still has to ship: line num of the issue, of which    *)
(* qty goes to the order line with number at.                              *)
Target == [num: Nat, at: Nat, qty: Nat]

Points == {"idle", "drafts", "insert", "order", "shipRead", "shipWrite",
           "saveIssue", "lineRead", "soWrite", "soDelete"}

(* seen is the order as read when an issue is created; status, change, add *)
(* and drop are what the next write of the order stores; keep are the      *)
(* lines the client sent as existing ones.                                 *)
Request ==
  [pc: Points, issue: IssueIds \cup {NoIssue}, doc: SUBSET IssueLine,
   seen: SUBSET SOLine, todo: SUBSET Target,
   status: SOStatuses \cup {"NONE"}, change: SUBSET SOLine,
   add: SUBSET NewLine, drop: SUBSET Nat, keep: SUBSET Nat, num: Nat]

Idle ==
  [pc |-> "idle", issue |-> NoIssue, doc |-> {}, seen |-> {}, todo |-> {},
   status |-> "NONE", change |-> {}, add |-> {}, drop |-> {}, keep |-> {},
   num |-> 0]

ASSUME ShippingAssumption ==
  /\ IsFiniteSet(Skus) /\ IsFiniteSet(Workers)
  /\ OrderLines \subseteq SOLine /\ IsFiniteSet(OrderLines)
  /\ \A l \in OrderLines : l.orderQty > 0 /\ l.shippedQty = 0 /\ l.status = "OPEN"
  /\ \A l, m \in OrderLines : l.id = m.id \/ l.num = m.num => l = m
  /\ NewLines \subseteq NewLine
  /\ Quantities \subseteq Nat \ {0}
  /\ PatchStatuses \subseteq SOStatuses
  /\ \A doc \in IssueDocs :
       /\ doc \subseteq IssueLine /\ IsFiniteSet(doc)
       /\ \A x, y \in doc : x.num = y.num => x = y
  /\ ExtraLines \subseteq IssueLine
  /\ Endpoints \subseteq AllEndpoints
  /\ NoIssue \notin IssueIds
  /\ {OnePerIssue, Faults} \subseteq BOOLEAN
  /\ MaxRequests \in Nat

TypeOK ==
  /\ so \in Order
  /\ issue \in [IssueIds -> Issue]
  /\ req \in [Workers -> Request]
  /\ moved \in [Skus -> Nat]
  /\ issued \in Nat

Init ==
  /\ so = [status |-> "OPEN", lines |-> OrderLines,
           lastId |-> Max({l.id : l \in OrderLines} \cup {0})]
  /\ issue = [i \in IssueIds |-> [status |-> "NONE", lines |-> {}]]
  /\ req = [p \in Workers |-> Idle]
  /\ moved = [k \in Skus |-> 0]
  /\ issued = 0

--------------------------------------------------------------------------------
(* Helpers *)

Found == so.status # "DELETED"

(* Lines are loaded in the order of their numbers. *)
First(l, lines) == l \in lines /\ \A m \in lines : l.num <= m.num

NextNum == Max({l.num : l \in so.lines} \cup {0}) + 1

(* SOStatus.VALID_TRANSITIONS *)
Transitions ==
  {<<"DRAFT", "OPEN">>, <<"DRAFT", "CANCELLED">>,
   <<"OPEN", "ON_HOLD">>, <<"OPEN", "PARTIAL">>, <<"OPEN", "CLOSED">>,
   <<"OPEN", "CANCELLED">>, <<"ON_HOLD", "OPEN">>, <<"ON_HOLD", "CANCELLED">>,
   <<"PARTIAL", "CLOSED">>, <<"PARTIAL", "CANCELLED">>}

CanTransition(new) == <<so.status, new>> \in Transitions

(* No other request in flight concerns issue i. *)
Free(i) == OnePerIssue => \A q \in Workers : req[q].issue # i

Accept(p, r) ==
  /\ req[p].pc = "idle"
  /\ issued < MaxRequests
  /\ issued' = issued + 1
  /\ req' = [req EXCEPT ![p] = r]

Proceed(p, r) ==
  /\ req' = [req EXCEPT ![p] = r]
  /\ UNCHANGED issued

Answer(p) == Proceed(p, Idle)

--------------------------------------------------------------------------------
(* InventoryService.createGoodsIssueFromSo *)

(* findSOByPublicId *)
BeginIssue(p, i, doc) ==
  /\ issue[i].status = "NONE"
  /\ \A q \in Workers : req[q].issue # i
  /\ Found
  /\ Accept(p, [Idle EXCEPT !.pc = "drafts", !.issue = i, !.doc = doc,
                            !.seen = so.lines])
  /\ UNCHANGED <<so, issue, moved>>

QuantityOf(lines, sku) ==
  SumFunction([l \in {m \in lines : m.sku = sku} |-> l.quantity])
BaseQtyOf(lines, sku) ==
  SumFunction([l \in {m \in lines : m.sku = sku} |-> l.baseQty])

(* What the draft issues of the order ask for, in the units they ask in. *)
Pending(sku) ==
  SumFunction([i \in {j \in IssueIds : issue[j].status = "DRAFT"} |->
                 QuantityOf(issue[i].lines, sku)])

OpenLines(lines, sku) ==
  {l \in lines : l.sku = sku /\ l.status \in {"OPEN", "PARTIAL"}}

(* A slip: drafts of the order are not counted. *)
FitsIgnoringDrafts(doc, lines) ==
  \A x \in doc : \E l \in lines :
    /\ First(l, OpenLines(lines, x.sku))
    /\ x.quantity + l.shippedQty <= l.orderQty

(* The quantity check: one line of the request at a time, each against the *)
(* first open order line of its SKU.                                       *)
Fits(doc, lines) ==
  \A x \in doc : \E l \in lines :
    /\ First(l, OpenLines(lines, x.sku))
    /\ x.quantity + Pending(x.sku) + l.shippedQty <= l.orderQty

(* findByReference, then the check *)
ReadDrafts(p) ==
  /\ req[p].pc = "drafts"
  /\ IF Fits(req[p].doc, req[p].seen)
     THEN Proceed(p, [req[p] EXCEPT !.pc = "insert", !.seen = {}])
     ELSE Answer(p)
  /\ UNCHANGED <<so, issue, moved>>

(* create; the reference to the order is no foreign key *)
InsertIssue(p) ==
  /\ req[p].pc = "insert"
  /\ issue' = [issue EXCEPT ![req[p].issue] = [status |-> "DRAFT", lines |-> req[p].doc]]
  /\ Answer(p)
  /\ UNCHANGED <<so, moved>>

(* Requests that amend a draft issue, refer it to the order or close it    *)
(* without completing it.  How they interleave with each other is the      *)
(* subject of StockTransactions; here each is one step.                    *)
IssueRequest(i, new) ==
  /\ issued < MaxRequests
  /\ issued' = issued + 1
  /\ issue' = [issue EXCEPT ![i] = new]
  /\ UNCHANGED <<so, req, moved>>

DraftRequest(i, new) == issue[i].status = "DRAFT" /\ Free(i) /\ IssueRequest(i, new)

(* A line added later has conversion factor 0, and no check of the order. *)
AddIssueLine(i, line) ==
  /\ "amendIssue" \in Endpoints
  /\ \A l \in issue[i].lines : l.num # line.num
  /\ DraftRequest(i, [issue[i] EXCEPT !.lines = @ \cup {[line EXCEPT !.baseQty = 0]}])

RemoveIssueLine(i, line) ==
  /\ "amendIssue" \in Endpoints
  /\ DraftRequest(i, [issue[i] EXCEPT !.lines = @ \ {line}])

CancelIssue(i) ==
  /\ "closeIssue" \in Endpoints
  /\ DraftRequest(i, [issue[i] EXCEPT !.status = "CANCELLED"])

RemoveIssue(i) ==
  /\ "closeIssue" \in Endpoints
  /\ DraftRequest(i, [status |-> "DELETED", lines |-> {}])

(* InventoryService.create with a reference of the client's: the order is  *)
(* neither loaded nor compared with the quantities.                        *)
ReferIssue(i, doc) ==
  /\ "referIssue" \in Endpoints
  /\ issue[i].status = "NONE"
  /\ \A q \in Workers : req[q].issue # i
  /\ IssueRequest(i, [status |-> "DRAFT", lines |-> doc])

(* updateByPublicId with another reference, which is not checked        *)
(* either ...                                                              *)
DivertIssue(i) ==
  /\ "divertIssue" \in Endpoints
  /\ DraftRequest(i, [issue[i] EXCEPT !.status = "ELSEWHERE"])

(* ... nor when it is this order's. *)
RedirectIssue(i) ==
  /\ "referIssue" \in Endpoints
  /\ issue[i].status = "ELSEWHERE"
  /\ Free(i)
  /\ IssueRequest(i, [issue[i] EXCEPT !.status = "DRAFT"])

--------------------------------------------------------------------------------
(* Writing the order: SOHeaderRepository.update *)

(* The row is there and its lines keep distinct numbers. *)
Kept(r) == {l \in so.lines : l.id \notin r.drop}

Writable(r) ==
  /\ Found
  /\ \A n \in r.add, l \in Kept(r) : n.num # l.num

(* The whole header row is written from memory; of the lines those marked  *)
(* DELETED, UPDATED or NEW are, in this order, the updated ones as whole   *)
(* rows if they still exist.                                               *)
Written(r) ==
  LET stale == {l \in Kept(r) : \E c \in r.change : c.id = l.id}
      fresh == {c \in r.change : \E l \in Kept(r) : c.id = l.id}
      id    == so.lastId + Cardinality(r.add)
  IN  [status |-> r.status,
       lines  |-> (Kept(r) \ stale) \cup fresh \cup
                  {[id |-> id, num |-> n.num, sku |-> n.sku,
                    orderQty |-> n.orderQty, shippedQty |-> 0,
                    status |-> "OPEN"] : n \in r.add},
       lastId |-> id]

WriteOrder(p) ==
  /\ req[p].pc = "soWrite"
  /\ so' = IF Writable(req[p]) THEN Written(req[p]) ELSE so
  /\ Answer(p)
  /\ UNCHANGED <<issue, moved>>

(* Deleting the row deletes its lines; goods issues keep referring to it. *)
DeleteOrder(p) ==
  /\ req[p].pc = "soDelete"
  /\ so' = [so EXCEPT !.status = "DELETED", !.lines = {}]
  /\ Answer(p)
  /\ UNCHANGED <<issue, moved>>

--------------------------------------------------------------------------------
(* InventoryService.completeByPublicId for an issue of the order *)

(* Loaded, found complete and its stock moved: findSOById comes next. *)
BeginCompletion(p, i) ==
  /\ issue[i].status = "DRAFT"
  /\ issue[i].lines # {}
  /\ Free(i)
  /\ Accept(p, [Idle EXCEPT !.pc = "order", !.issue = i, !.doc = issue[i].lines])
  /\ moved' = [k \in Skus |-> moved[k] + BaseQtyOf(issue[i].lines, k)]
  /\ UNCHANGED <<so, issue>>

(* A slip: a line partially shipped is not found again. *)
StillOpen(sku) == {l \in so.lines : l.sku = sku /\ l.status = "OPEN"}

NotClosed(sku) == {l \in so.lines : l.sku = sku /\ l.status # "CLOSED"}

(* One look at the order decides which line of it each line of the issue   *)
(* ships; lines that match none are skipped.                               *)
Targets(doc) ==
  {[num |-> x.num, at |-> Min({l.num : l \in NotClosed(x.sku)}), qty |-> x.baseQty] :
     x \in {y \in doc : NotClosed(y.sku) # {}}}

Shipping(r, todo) ==
  [r EXCEPT !.pc = IF todo = {} THEN "saveIssue" ELSE "shipRead", !.todo = todo,
            !.doc = {}, !.status = "NONE", !.change = {}]

(* An exception while shipping is logged and the rest is skipped. *)
GiveUp(r) == Shipping(r, {})

ReadOrder(p) ==
  /\ req[p].pc = "order"
  /\ Proceed(p, IF Found THEN Shipping(req[p], Targets(req[p].doc)) ELSE GiveUp(req[p]))
  /\ UNCHANGED <<so, issue, moved>>

(* A slip: addShippedQty does not look at the ordered quantity. *)
ShippableAnyway(l, qty) == qty > 0 /\ l.status \notin {"CANCELLED", "CLOSED"}

(* SOLine.addShippedQty *)
Shippable(l, qty) ==
  /\ qty > 0
  /\ l.status \notin {"CANCELLED", "CLOSED"}
  /\ l.shippedQty + qty <= l.orderQty

(* A slip: a line stays partially shipped for ever. *)
ShippedNeverClosed(l, qty) ==
  [l EXCEPT !.shippedQty = @ + qty, !.status = "PARTIAL"]

(* A slip: the quantity is taken off. *)
ShippedDown(l, qty) == [l EXCEPT !.shippedQty = @ - qty]

Shipped(l, qty) ==
  LET full == l.shippedQty + qty = l.orderQty
  IN  [l EXCEPT !.shippedQty = @ + qty,
                !.status = IF ~ full THEN "PARTIAL"
                           ELSE IF @ = "PARTIAL" THEN "CLOSED" ELSE @]

(* SalesOrderService.addShippedQty reads the order again ... *)
ReadForShipping(p) ==
  /\ req[p].pc = "shipRead"
  /\ \E t \in req[p].todo :
       /\ First(t, req[p].todo)
       /\ \/ \E l \in so.lines :
               /\ l.num = t.at
               /\ Shippable(l, t.qty)
               /\ Proceed(p, [req[p] EXCEPT !.pc = "shipWrite", !.status = so.status,
                                            !.change = {Shipped(l, t.qty)}])
          \/ /\ \A l \in so.lines : l.num = t.at => ~ Shippable(l, t.qty)
             /\ Proceed(p, GiveUp(req[p]))
  /\ UNCHANGED <<so, issue, moved>>

(* A slip: a line that was shipped is shipped again. *)
WriteShippingForgetfully(p) ==
  /\ req[p].pc = "shipWrite"
  /\ IF Found
     THEN /\ so' = Written(req[p])
          /\ Proceed(p, Shipping(req[p], req[p].todo))
     ELSE Proceed(p, GiveUp(req[p])) /\ UNCHANGED so
  /\ UNCHANGED <<issue, moved>>

(* ... and writes it. *)
WriteShipping(p) ==
  /\ req[p].pc = "shipWrite"
  /\ IF Found
     THEN \E t \in req[p].todo :
            /\ First(t, req[p].todo)
            /\ so' = Written(req[p])
            /\ Proceed(p, Shipping(req[p], req[p].todo \ {t}))
     ELSE Proceed(p, GiveUp(req[p])) /\ UNCHANGED so
  /\ UNCHANGED <<issue, moved>>

(* The header of the issue is written from memory, if it is still there. *)
SaveIssue(p) ==
  /\ req[p].pc = "saveIssue"
  /\ issue' = IF issue[req[p].issue].status = "DELETED" THEN issue
              ELSE [issue EXCEPT ![req[p].issue].status = "COMPLETED"]
  /\ Answer(p)
  /\ UNCHANGED <<so, moved>>

--------------------------------------------------------------------------------
(* SalesOrderService: requests on the order.  Each loads it, changes it in *)
(* memory and writes it back.                                              *)

Store(status, change, add, drop) ==
  [Idle EXCEPT !.pc = "soWrite", !.status = status, !.change = change,
               !.add = add, !.drop = drop]

OrderRequest(p, r) ==
  /\ Found
  /\ Accept(p, r)
  /\ UNCHANGED <<so, issue, moved>>

Hold(p) ==
  /\ "hold" \in Endpoints
  /\ CanTransition("ON_HOLD")
  /\ OrderRequest(p, Store("ON_HOLD", {}, {}, {}))

Release(p) ==
  /\ "release" \in Endpoints
  /\ so.status = "ON_HOLD"
  /\ CanTransition("OPEN")
  /\ OrderRequest(p, Store("OPEN", {}, {}, {}))

Cancel(p) ==
  /\ "cancel" \in Endpoints
  /\ so.status # "CLOSED"
  /\ CanTransition("CANCELLED")
  /\ OrderRequest(p, Store("CANCELLED",
       {[l EXCEPT !.status = "CANCELLED"] : l \in so.lines}, {}, {}))

Complete(p) ==
  /\ "complete" \in Endpoints
  /\ CanTransition("CLOSED")
  /\ OrderRequest(p, Store("CLOSED",
       {[l EXCEPT !.status = "CLOSED"] :
          l \in {m \in so.lines : m.status # "CANCELLED"}}, {}, {}))

(* update, with orderStatus: any status replaces any other *)
Patch(p, status) == OrderRequest(p, Store(status, {}, {}, {}))

(* update, without: the row is written back with the status it had *)
Touch(p) ==
  /\ "touch" \in Endpoints
  /\ OrderRequest(p, Store(so.status, {}, {}, {}))

Remove(p) ==
  /\ "remove" \in Endpoints
  /\ Found
  /\ Accept(p, [Idle EXCEPT !.pc = "soDelete"])
  /\ UNCHANGED <<so, issue, moved>>

(* A slip: a cancelled order can be edited. *)
EditableIfNotClosed == so.status # "CLOSED"

Editable == so.status \notin {"CANCELLED", "CLOSED"}

AddLine(p, line) ==
  /\ Editable
  /\ \A l \in so.lines : l.num # line.num
  /\ OrderRequest(p, Store(so.status, {},
       {[line EXCEPT !.num = IF @ = 0 THEN NextNum ELSE @]}, {}))

(* updateLineByPublicId with a quantity; the quantity shipped, and so the  *)
(* status of the line, are not looked at.                                  *)
UpdateLine(p, line, qty) ==
  /\ Editable
  /\ OrderRequest(p, Store(so.status, {[line EXCEPT !.orderQty = qty]}, {}, {}))

(* deleteLineByPublicId finds the number of the line, deleteLine reads the *)
(* order again and removes the line that has that number then.             *)
DeleteLine(p, line) ==
  /\ "deleteLine" \in Endpoints
  /\ Accept(p, [Idle EXCEPT !.pc = "lineRead", !.num = line.num])
  /\ UNCHANGED <<so, issue, moved>>

ReadForDelete(p) ==
  /\ req[p].pc = "lineRead"
  /\ \/ \E l \in so.lines :
          /\ l.num = req[p].num
          /\ Proceed(p, Store(so.status, {}, {}, {l.id}))
     \/ /\ \A l \in so.lines : l.num # req[p].num
        /\ Answer(p)
  /\ UNCHANGED <<so, issue, moved>>

(* updateWithLines.  A line sent with its id is removed and added again as *)
(* a line that is neither new nor updated, so that only its removal is     *)
(* written; status and numbers are not checked.                            *)
UpdateWithLines(p, linesToDelete, existing, new) ==
  /\ "updateWithLines" \in Endpoints
  /\ \A n \in new : n.num # 0
  /\ OrderRequest(p, [Store(so.status, {}, new, {l.id : l \in linesToDelete \cup existing})
                        EXCEPT !.keep = {l.id : l \in existing}])

--------------------------------------------------------------------------------
(* The process dies, or a call outside the shipping part is refused. *)
Abort(p) ==
  /\ Faults
  /\ req[p].pc # "idle"
  /\ Answer(p)
  /\ UNCHANGED <<so, issue, moved>>

(* A call of the shipping part is refused. *)
ShippingFails(p) ==
  /\ Faults
  /\ req[p].pc \in {"order", "shipRead", "shipWrite"}
  /\ Proceed(p, GiveUp(req[p]))
  /\ UNCHANGED <<so, issue, moved>>

OrderEndpoint(p) ==
  \/ Hold(p) \/ Release(p) \/ Cancel(p) \/ Complete(p) \/ Touch(p) \/ Remove(p)
  \/ \E status \in PatchStatuses : Patch(p, status)
  \/ \E line \in NewLines : AddLine(p, line) \/ UpdateWithLines(p, {}, {}, {line})
  \/ \E line \in so.lines :
       \/ \E qty \in Quantities : UpdateLine(p, line, qty)
       \/ DeleteLine(p, line)
       \/ UpdateWithLines(p, {line}, {}, {})
       \/ UpdateWithLines(p, {}, {line}, {})

IssueEndpoint(i) ==
  \/ \E line \in ExtraLines : AddIssueLine(i, line)
  \/ \E line \in issue[i].lines : RemoveIssueLine(i, line)
  \/ \E doc \in IssueDocs : ReferIssue(i, doc)
  \/ CancelIssue(i)
  \/ RemoveIssue(i)
  \/ DivertIssue(i)
  \/ RedirectIssue(i)

Serve(p) ==
  \/ ReadDrafts(p) \/ InsertIssue(p)
  \/ ReadOrder(p) \/ ReadForShipping(p) \/ WriteShipping(p) \/ SaveIssue(p)
  \/ WriteOrder(p) \/ DeleteOrder(p) \/ ReadForDelete(p)

Quiet ==
  /\ \A p \in Workers : req[p].pc = "idle"
  /\ UNCHANGED vars

Next ==
  \/ \E p \in Workers :
       \/ \E i \in IssueIds, doc \in IssueDocs : BeginIssue(p, i, doc)
       \/ \E i \in IssueIds : BeginCompletion(p, i)
       \/ OrderEndpoint(p)
       \/ Serve(p)
       \/ Abort(p)
       \/ ShippingFails(p)
  \/ \E i \in IssueIds : IssueEndpoint(i)
  \/ Quiet

Spec == Init /\ [][Next]_vars

--------------------------------------------------------------------------------
(* Properties *)

Resting == \A p \in Workers : req[p].pc = "idle"

LinesOf(sku)   == {l \in so.lines : l.sku = sku}
OrderedOf(sku) == SumFunction([l \in LinesOf(sku) |-> l.orderQty])
ShippedOf(sku) == SumFunction([l \in LinesOf(sku) |-> l.shippedQty])

Completed == {i \in IssueIds : issue[i].status = "COMPLETED"}

(* No line is shipped beyond its quantity, whatever requests overlap, as   *)
(* long as its quantity is not reduced (SOLine.addShippedQty checks a row  *)
(* that may be stale when it is written).                                  *)
NeverOvershipped == \A l \in so.lines : l.shippedQty <= l.orderQty

(* Between requests, what was shipped and what drafts will ship is covered *)
(* by the order, as long as drafts come from createGoodsIssueFromSo only   *)
(* ("Order - Shipped - Pending >= Current Request"); diverting them does   *)
(* no harm.                                                                *)
Allocated ==
  Resting /\ Found =>
    \A k \in Skus : ShippedOf(k) + Pending(k) <= OrderedOf(k)

(* Between requests, an order that is not final has recorded exactly what  *)
(* its completed issues took from stock (completeByPublicId: "Update SO    *)
(* Shipped Qty"), again if they all come from createGoodsIssueFromSo: more *)
(* than a line has left is moved, and its recording refused and logged.    *)
ShippedIsIssued ==
  Resting /\ so.status \notin {"CLOSED", "CANCELLED", "DELETED"} =>
    \A k \in Skus :
      ShippedOf(k) = SumFunction([i \in Completed |-> BaseQtyOf(issue[i].lines, k)])

(* The lines of the order never record more than was moved out of stock    *)
(* for it, whatever overlaps, fails or is completed twice, although        *)
(* shipped quantities are absolute values computed from older reads.  It   *)
(* is so of all SKUs together: the line to ship is found by its number in  *)
(* a later read (SalesOrderService.addShippedQty), when the number may     *)
(* have passed to a line of another SKU.                                   *)
ShippedIsMoved == SumFunction([l \in so.lines |-> l.shippedQty]) <= SumFunction(moved)

(* With no draft pending, a line that is open and not fully shipped can be *)
(* shipped further: an earlier line of its SKU never stands in the way     *)
(* (createGoodsIssueFromSo: "First open line with matching SKU").          *)
RemainderIsIssuable ==
  Resting /\ (\A i \in IssueIds : issue[i].status # "DRAFT") =>
    \A l \in so.lines :
      l.status \in {"OPEN", "PARTIAL"} /\ l.shippedQty < l.orderQty =>
        Fits({[num |-> 1, sku |-> l.sku, quantity |-> 1, baseQty |-> 1]}, so.lines)

(* A closed or cancelled order gets no new line and ships nothing more     *)
(* (addLineByPublicId: "cannot add line to cancelled/closed orders";       *)
(* SOLine.addShippedQty: "Line is cancelled", "Line is closed").           *)
FinalOrderIsFrozen ==
  [][so.status \in {"CLOSED", "CANCELLED"} =>
       \A l \in so'.lines : \E m \in so.lines :
         m.id = l.id /\ m.shippedQty = l.shippedQty]_vars

(* Updating an order with its lines keeps the lines that were sent         *)
(* (updateWithLines: "For updates, preserve existing status/quantities").  *)
SentLinesAreKept ==
  [][\A p \in Workers : req[p].pc = "soWrite" /\ req'[p] = Idle =>
       \A l \in so.lines : l.id \in req[p].keep =>
         \E m \in so'.lines : m.id = l.id]_vars

================================================================================
