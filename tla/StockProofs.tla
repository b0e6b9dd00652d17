------------------------------ MODULE StockProofs ------------------------------
(***************************************************************************)
(* Proofs about StockTransactions, and that it implements AtomicStock.     *)
(***************************************************************************)
EXTENDS StockRefinement, FiniteSums, TLAPS

(* A request that loaded a transaction knows it, and what it loaded passed *)
(* validateWarehouseByType; the second leg is a transfer's.                *)
RequestOK(r) ==
  /\ r.pc \in {"find", "removing", "credit", "adding", "save", "delete"} =>
       r.trans \in TransIds
  /\ r.pc \in {"find", "removing", "credit", "adding"} =>
       WarehousesFitType(r.head)
  /\ r.pc = "credit" => r.head.type = "STOCK_TRANSFER"

RequestsOK == \A p \in Workers : RequestOK(req[p])

TypeInv == TypeOK /\ RequestsOK

(* The initial rows and the idle requests have their types. *)
LEMMA TypeInit == Init => TypeInv
  BY StockAssumption
  DEF Init, TypeInv, TypeOK, RequestsOK, RequestOK, Request, Idle, Points,
      NoHeader, Header, NoRow, StockRow

(* Steps that replace one request by a well-formed one keep RequestsOK. *)
LEMMA OneRequest ==
  ASSUME TypeInv, NEW p \in Workers, NEW r \in Request, RequestOK(r),
         req' = [req EXCEPT ![p] = r]
  PROVE  req' \in [Workers -> Request] /\ RequestsOK'
  BY DEF TypeInv, TypeOK, RequestsOK, RequestOK, WarehousesFitType

LEMMA IdleOK == Idle \in Request /\ RequestOK(Idle)
  BY StockAssumption
  DEF Idle, Request, RequestOK, Points, NoHeader, Header, NoRow, StockRow

(* A request that just loaded transaction t. *)
LEMMA LoadedOK ==
  ASSUME TypeInv, NEW t \in TransIds, Loads(header[t]),
         NEW r \in Request, r.pc \in {"find", "save", "delete"}, r.trans = t,
         r.pc = "find" => /\ r.head.type = header[t].type
                          /\ r.head.from = header[t].from
                          /\ r.head.to = header[t].to
  PROVE  RequestOK(r)
  BY DEF RequestOK, Loads, WarehousesFitType

LEMMA AcceptedOK ==
  ASSUME TypeInv, NEW p \in Workers, NEW r \in Request, RequestOK(r),
         Accept(p, r), UNCHANGED <<warehouses, header, stock>>
  PROVE  TypeInv'
<1>1. req' \in [Workers -> Request] /\ RequestsOK'
  BY OneRequest DEF Accept
<1>2. issued' \in Nat
  BY DEF Accept, TypeInv, TypeOK
<1> QED
  BY <1>1, <1>2 DEF TypeInv, TypeOK

LEMMA AnsweredOK ==
  ASSUME TypeInv, NEW p \in Workers, Answer(p)
  PROVE  /\ req' \in [Workers -> Request]
         /\ RequestsOK'
         /\ issued' \in Nat
<1>1. Idle \in Request /\ RequestOK(Idle)
  BY IdleOK
<1>2. req' \in [Workers -> Request] /\ RequestsOK'
  BY <1>1, OneRequest DEF Answer
<1> QED
  BY <1>2 DEF Answer, TypeInv, TypeOK

(* head is header h as it was loaded, but for the status, and a completion *)
(* has all its lines to move; one line at most is added or dropped.        *)
HeadOf(r, h) ==
  /\ r.head.type = h.type /\ r.head.lines = h.lines
  /\ r.head.from = h.from /\ r.head.to = h.to

FromHeader(r, h) ==
  /\ r.loc = NoLocation
  /\ \/ r.pc = "delete" /\ r.head = NoHeader /\ r.todo = {} /\ r.add = {} /\ r.drop = {}
     \/ /\ r.pc = "find" /\ HeadOf(r, h) /\ r.head.status = "COMPLETED"
        /\ r.todo = h.lines /\ h.lines # {} /\ r.add = {} /\ r.drop = {}
     \/ /\ r.pc = "save" /\ HeadOf(r, h) /\ r.head.status \in {"DRAFT", "CANCELLED"}
        /\ r.todo = {}
        /\ \/ r.add = {} /\ r.drop = {}
           \/ /\ r.head.status = "DRAFT" /\ r.drop = {}
              /\ \E line \in ExtraLines : r.add = {line}
           \/ /\ r.head.status = "DRAFT" /\ r.add = {}
              /\ \E line \in h.lines : r.drop = {line}

(* A request on a transaction holds the draft it loaded and no stock row. *)
LoadedDraft(p, r) ==
  /\ FromHeader(r, header[r.trans])
  /\ RequestOK(r)
  /\ r.row = NoRow
  /\ r.trans \in TransIds
  /\ header[r.trans].status = "DRAFT"
  /\ Accept(p, r)
  /\ UNCHANGED <<warehouses, header, stock>>

LEMMA TransactionRequestLoads ==
  ASSUME TypeInv, NEW p \in Workers, TransactionRequest(p)
  PROVE  \E r \in Request : LoadedDraft(p, r)
<1>1. PICK t \in TransIds :
        \/ BeginComplete(p, t)
        \/ BeginCancel(p, t)
        \/ BeginUpdate(p, t)
        \/ BeginRemove(p, t)
        \/ \E line \in ExtraLines : BeginAddLine(p, t, line)
        \/ \E line \in header[t].lines : BeginRemoveLine(p, t, line)
  BY DEF TransactionRequest
<1>h. header[t] \in Header
  BY DEF TypeInv, TypeOK
<1>i. /\ Idle \in Request /\ Idle.row = NoRow /\ Idle.head = NoHeader /\ Idle.todo = {}
      /\ Idle.add = {} /\ Idle.drop = {} /\ Idle.loc = NoLocation
  BY IdleOK DEF Idle
<1>s. /\ Loads(header[t]) => header[t].status \in Statuses
      /\ Amendable(header[t]) => header[t].status = "DRAFT"
  BY DEF Loads, Amendable
<1>2. CASE BeginComplete(p, t)
  <2> DEFINE h == [header[t] EXCEPT !.status = "COMPLETED"]
             r == [Idle EXCEPT !.pc = "find", !.trans = t, !.head = h,
                               !.todo = header[t].lines]
  <2>1. /\ h \in Header /\ header[t].lines \in SUBSET Line
        /\ h.type = header[t].type /\ h.from = header[t].from /\ h.to = header[t].to
        /\ h.lines = header[t].lines /\ h.status = "COMPLETED"
    BY <1>h DEF Header, Statuses
  <2> HIDE DEF h
  <2>2. /\ r \in Request /\ r.pc = "find" /\ r.trans = t /\ r.row = NoRow /\ r.head = h
        /\ r.todo = header[t].lines /\ r.add = {} /\ r.drop = {} /\ r.loc = NoLocation
    BY <1>i, <2>1 DEF Request, Points
  <2>3. RequestOK(r)
    BY <1>2, <2>1, <2>2, LoadedOK DEF BeginComplete
  <2>4. Accept(p, r) /\ UNCHANGED <<warehouses, header, stock>>
    BY <1>2 DEF BeginComplete, h
  <2>5. header[t].status = "DRAFT" /\ header[t].lines # {}
    BY <1>2 DEF BeginComplete, Completable
  <2>f. FromHeader(r, header[r.trans])
    BY <2>1, <2>2, <2>5 DEF FromHeader, HeadOf
  <2>6. LoadedDraft(p, r)
    BY <2>2, <2>3, <2>4, <2>5, <2>f DEF LoadedDraft
  <2> QED BY <2>2, <2>6
<1>3. CASE BeginCancel(p, t)
  <2> DEFINE h == [header[t] EXCEPT !.status = "CANCELLED"]
             r == [Idle EXCEPT !.pc = "save", !.trans = t, !.head = h]
  <2>1. /\ h \in Header /\ h.status = "CANCELLED" /\ h.lines = header[t].lines
        /\ h.type = header[t].type /\ h.from = header[t].from /\ h.to = header[t].to
    BY <1>h DEF Header, Statuses
  <2> HIDE DEF h
  <2>2. /\ r \in Request /\ r.pc = "save" /\ r.trans = t /\ r.row = NoRow /\ r.head = h
        /\ r.todo = {} /\ r.add = {} /\ r.drop = {} /\ r.loc = NoLocation
    BY <1>i, <2>1 DEF Request, Points
  <2>3. RequestOK(r)
    BY <1>3, <2>2, LoadedOK DEF BeginCancel
  <2>4. Accept(p, r) /\ UNCHANGED <<warehouses, header, stock>>
    BY <1>3 DEF BeginCancel, h
  <2>5. header[t].status = "DRAFT"
    BY <1>3 DEF BeginCancel, Cancellable
  <2>f. FromHeader(r, header[r.trans])
    BY <2>1, <2>2 DEF FromHeader, HeadOf
  <2>6. LoadedDraft(p, r)
    BY <2>2, <2>3, <2>4, <2>5, <2>f DEF LoadedDraft
  <2> QED BY <2>2, <2>6
<1>4. CASE BeginUpdate(p, t)
  <2> DEFINE r == [Idle EXCEPT !.pc = "save", !.trans = t, !.head = header[t]]
  <2>2. /\ r \in Request /\ r.pc = "save" /\ r.trans = t /\ r.row = NoRow
        /\ r.head = header[t] /\ r.todo = {} /\ r.add = {} /\ r.drop = {}
        /\ r.loc = NoLocation
    BY <1>h, <1>i DEF Request, Points
  <2>3. RequestOK(r)
    BY <1>4, <2>2, LoadedOK DEF BeginUpdate
  <2>f. header[t].status = "DRAFT" /\ FromHeader(r, header[r.trans])
    BY <1>4, <1>s, <2>2 DEF FromHeader, HeadOf, BeginUpdate
  <2>4. LoadedDraft(p, r)
    BY <1>4, <2>2, <2>3, <2>f DEF LoadedDraft, BeginUpdate
  <2> QED BY <2>2, <2>4
<1>5. CASE BeginRemove(p, t)
  <2> DEFINE r == [Idle EXCEPT !.pc = "delete", !.trans = t]
  <2>2. /\ r \in Request /\ r.pc = "delete" /\ r.trans = t /\ r.row = NoRow
        /\ r.head = NoHeader /\ r.todo = {} /\ r.add = {} /\ r.drop = {}
        /\ r.loc = NoLocation
    BY <1>i DEF Request, Points
  <2>3. RequestOK(r)
    BY <1>5, <2>2, LoadedOK DEF BeginRemove
  <2>f. header[t].status = "DRAFT" /\ FromHeader(r, header[r.trans])
    BY <1>5, <1>s, <2>2 DEF FromHeader, HeadOf, BeginRemove
  <2>4. LoadedDraft(p, r)
    BY <1>5, <2>2, <2>3, <2>f DEF LoadedDraft, BeginRemove
  <2> QED BY <2>2, <2>4
<1>6. CASE \E line \in ExtraLines : BeginAddLine(p, t, line)
  <2>1. PICK line \in ExtraLines : BeginAddLine(p, t, line)
    BY <1>6
  <2> DEFINE r == [Idle EXCEPT !.pc = "save", !.trans = t, !.head = header[t],
                               !.add = {line}]
  <2>2. {line} \in SUBSET ExtraLine
    BY StockAssumption
  <2>3. /\ r \in Request /\ r.pc = "save" /\ r.trans = t /\ r.row = NoRow
        /\ r.head = header[t] /\ r.todo = {} /\ r.add = {line} /\ r.drop = {}
        /\ r.loc = NoLocation
    BY <1>h, <1>i, <2>2 DEF Request, Points
  <2>4. RequestOK(r)
    BY <2>1, <2>3, LoadedOK DEF BeginAddLine
  <2>f. header[t].status = "DRAFT" /\ FromHeader(r, header[r.trans])
    BY <1>s, <2>1, <2>3 DEF FromHeader, HeadOf, BeginAddLine
  <2>5. LoadedDraft(p, r)
    BY <2>1, <2>3, <2>4, <2>f DEF LoadedDraft, BeginAddLine
  <2> QED BY <2>3, <2>5
<1>7. CASE \E line \in header[t].lines : BeginRemoveLine(p, t, line)
  <2>1. PICK line \in header[t].lines : BeginRemoveLine(p, t, line)
    BY <1>7
  <2> DEFINE r == [Idle EXCEPT !.pc = "save", !.trans = t, !.head = header[t],
                               !.drop = {line}]
  <2>2. {line} \in SUBSET Line
    BY <1>h DEF Header
  <2>3. /\ r \in Request /\ r.pc = "save" /\ r.trans = t /\ r.row = NoRow
        /\ r.head = header[t] /\ r.todo = {} /\ r.drop = {line} /\ r.add = {}
        /\ r.loc = NoLocation
    BY <1>h, <1>i, <2>2 DEF Request, Points
  <2>4. RequestOK(r)
    BY <2>1, <2>3, LoadedOK DEF BeginRemoveLine
  <2>f. header[t].status = "DRAFT" /\ FromHeader(r, header[r.trans])
    BY <1>s, <2>1, <2>3 DEF FromHeader, HeadOf, BeginRemoveLine
  <2>5. LoadedDraft(p, r)
    BY <2>1, <2>3, <2>4, <2>f DEF LoadedDraft, BeginRemoveLine
  <2> QED BY <2>3, <2>5
<1> QED
  BY <1>1, <1>2, <1>3, <1>4, <1>5, <1>6, <1>7

LEMMA TransactionRequestOK ==
  ASSUME TypeInv, NEW p \in Workers, TransactionRequest(p)
  PROVE  TypeInv'
BY TransactionRequestLoads, AcceptedOK DEF LoadedDraft

(* The requests on a stock row. *)
LEMMA WarehouseRequestOK ==
  ASSUME TypeInv, NEW p \in Workers, NEW loc \in Locations,
         NEW row \in StockRow, WarehouseRequest(p, loc, row)
  PROVE  TypeInv'
<1> DEFINE pc == IF stock[loc].exists THEN "rowSave" ELSE "rowInsert"
           r == [Idle EXCEPT !.pc = pc, !.loc = loc, !.row = row]
<1>1. pc \in {"rowSave", "rowInsert"}
  OBVIOUS
<1> HIDE DEF pc
<1>2. r \in Request /\ r.pc = pc
  BY <1>1, IdleOK DEF Request, Points
<1>3. RequestOK(r)
  BY <1>1, <1>2 DEF RequestOK
<1>4. Accept(p, r) /\ UNCHANGED <<warehouses, header, stock>>
  BY DEF WarehouseRequest, pc
<1> QED
  BY <1>2, <1>3, <1>4, AcceptedOK

LEMMA InventoryRequestRow ==
  ASSUME TypeInv, NEW p \in Workers, InventoryRequest(p)
  PROVE  \E loc \in Locations, row \in StockRow :
           WarehouseRequest(p, loc, row)
<1>1. PICK loc \in Locations :
        \/ \E delta \in Adjustments : AdjustInventory(p, loc, delta)
        \/ \E q \in Amounts : SetInventory(p, loc, q)
        \/ Amounts # {} /\ TouchInventory(p, loc)
        \/ \E q \in Amounts : ReserveInventory(p, loc, q)
        \/ \E q \in Amounts : ReleaseReservation(p, loc, q)
  BY DEF InventoryRequest
<1>2. \E row \in StockRow : WarehouseRequest(p, loc, row)
  <2>1. stock[loc] \in StockRow
    BY DEF TypeInv, TypeOK
  <2>2. \A q \in Int : NewRow(q) \in StockRow
    BY DEF NewRow, StockRow
  <2>3. ASSUME NEW delta \in Adjustments, AdjustInventory(p, loc, delta)
        PROVE  \E row \in StockRow : WarehouseRequest(p, loc, row)
    <3>1. delta \in Int
      BY StockAssumption
    <3>2. [stock[loc] EXCEPT !.quantity = @ + delta] \in StockRow
      BY <2>1, <3>1 DEF StockRow
    <3> QED BY <2>2, <2>3, <3>1, <3>2 DEF AdjustInventory
  <2>4. ASSUME NEW q \in Amounts,
               \/ SetInventory(p, loc, q)
               \/ TouchInventory(p, loc)
               \/ ReserveInventory(p, loc, q)
               \/ ReleaseReservation(p, loc, q)
        PROVE  \E row \in StockRow : WarehouseRequest(p, loc, row)
    <3>1. q \in Int /\ q \in Nat
      BY StockAssumption
    <3>2. /\ [stock[loc] EXCEPT !.quantity = q] \in StockRow
          /\ [stock[loc] EXCEPT !.reservedQty = @ + q] \in StockRow
          /\ [stock[loc] EXCEPT !.reservedQty = 0] \in StockRow
          /\ [stock[loc] EXCEPT !.reservedQty = stock[loc].reservedQty - q] \in StockRow
      BY <2>1, <3>1 DEF StockRow
    <3>3. CASE SetInventory(p, loc, q)
      BY <2>2, <3>1, <3>2, <3>3 DEF SetInventory
    <3>4. CASE TouchInventory(p, loc)
      BY <2>1, <2>2, <3>4 DEF TouchInventory
    <3>5. CASE ReserveInventory(p, loc, q)
      BY <3>2, <3>5 DEF ReserveInventory
    <3>6. CASE ReleaseReservation(p, loc, q)
      BY <3>2, <3>6 DEF ReleaseReservation
    <3> QED BY <2>4, <3>3, <3>4, <3>5, <3>6
  <2> QED BY <1>1, <2>3, <2>4
<1> QED
  BY <1>2

LEMMA InventoryRequestOK ==
  ASSUME TypeInv, NEW p \in Workers, InventoryRequest(p)
  PROVE  TypeInv'
BY InventoryRequestRow, WarehouseRequestOK

(* The steps of a completion. *)
LEMMA MovingOK ==
  ASSUME TypeInv, NEW p \in Workers,
         \/ FindStock(p) \/ FindDestination(p) \/ RemoveStock(p) \/ AddStock(p)
  PROVE  TypeInv'
<1> DEFINE r == req[p]
<1>1. /\ r \in Request /\ RequestOK(r)
      /\ r.head \in Header
      /\ r.todo \in SUBSET Line
  BY DEF TypeInv, TypeOK, RequestsOK, Request
<1>2. \A l \in r.todo : l.sku \in Skus /\ l.baseQty \in Nat
  BY <1>1 DEF Line
<1>3. \A w \in Warehouses, l \in r.todo : RowKey(w, l) \in Locations
  BY <1>2 DEF RowKey, Locations
<1> HIDE DEF r
<1>4. CASE FindStock(p)
  <2>1. PICK l \in r.todo :
          \E w \in Warehouses :
            req' = [req EXCEPT ![p].pc = IF Outbound(r.head) THEN "removing" ELSE "adding",
                               ![p].row = stock[RowKey(w, l)]]
    BY <1>1, <1>4
    DEF FindStock, r, RequestOK, WarehousesFitType, Outbound, Receiving, Header
  <2>2. PICK w \in Warehouses :
          req' = [req EXCEPT ![p] =
                    [r EXCEPT !.pc = IF Outbound(r.head) THEN "removing" ELSE "adding",
                              !.row = stock[RowKey(w, l)]]]
    BY <2>1 DEF r, TypeInv, TypeOK
  <2> DEFINE n == [r EXCEPT !.pc = IF Outbound(r.head) THEN "removing" ELSE "adding",
                            !.row = stock[RowKey(w, l)]]
  <2>3. stock[RowKey(w, l)] \in StockRow
    BY <1>3 DEF TypeInv, TypeOK
  <2>4. /\ n \in Request /\ n.pc \in {"removing", "adding"}
        /\ n.trans = r.trans /\ n.head = r.head
    BY <1>1, <2>3 DEF Request, Points
  <2>5. RequestOK(n)
    BY <1>1, <1>4, <2>4 DEF RequestOK, FindStock, r
  <2>6. req' \in [Workers -> Request] /\ RequestsOK'
    BY <2>2, <2>4, <2>5, OneRequest
  <2> QED BY <1>4, <2>6 DEF FindStock, TypeInv, TypeOK
<1>5. CASE FindDestination(p)
  <2>1. PICK l \in r.todo :
          req' = [req EXCEPT ![p].pc = "adding",
                             ![p].row = stock[RowKey(r.head.to, l)]]
    BY <1>5 DEF FindDestination, r
  <2> DEFINE n == [r EXCEPT !.pc = "adding", !.row = stock[RowKey(r.head.to, l)]]
  <2>2. req' = [req EXCEPT ![p] = n]
    BY <2>1 DEF r, TypeInv, TypeOK
  <2>3. r.head.to \in Warehouses
    BY <1>1, <1>5 DEF FindDestination, r, RequestOK, WarehousesFitType, Header
  <2>4. stock[RowKey(r.head.to, l)] \in StockRow
    BY <1>3, <2>3 DEF TypeInv, TypeOK
  <2>5. n \in Request /\ n.pc = "adding" /\ n.trans = r.trans /\ n.head = r.head
    BY <1>1, <2>4 DEF Request, Points
  <2>6. RequestOK(n)
    BY <1>1, <1>5, <2>5 DEF RequestOK, FindDestination, r
  <2>7. req' \in [Workers -> Request] /\ RequestsOK'
    BY <2>2, <2>5, <2>6, OneRequest
  <2> QED BY <1>5, <2>7 DEF FindDestination, TypeInv, TypeOK
<1>6. ASSUME NEW l \in r.todo, r.pc \in {"removing", "adding"}
      PROVE  LineMoved(r, l) \in Request /\ RequestOK(LineMoved(r, l))
  <2> DEFINE n == LineMoved(r, l)
  <2>1. NoRow \in StockRow
    BY DEF NoRow, StockRow
  <2>2. /\ n \in Request /\ n.pc \in {"save", "find"}
        /\ n.trans = r.trans /\ n.head = r.head
    BY <1>1, <2>1 DEF LineMoved, Request, Points
  <2> QED BY <1>1, <1>6, <2>2 DEF RequestOK
<1>7. CASE RemoveStock(p)
  <2>1. PICK l \in r.todo :
          /\ stock' = [stock EXCEPT ![RowKey(r.head.from, l)].quantity =
                                      r.row.quantity - l.baseQty]
          /\ req' = [req EXCEPT ![p] =
                       IF r.head.type = "STOCK_TRANSFER"
                       THEN [r EXCEPT !.pc = "credit", !.row = NoRow]
                       ELSE LineMoved(r, l)]
    BY <1>7 DEF RemoveStock, r
  <2>2. r.pc = "removing"
    BY <1>7 DEF RemoveStock, r
  <2>3. stock' \in [Locations -> StockRow]
    <3>1. r.row.quantity - l.baseQty \in Int
      BY <1>1, <1>2 DEF Request, StockRow
    <3> QED BY <2>1, <3>1 DEF TypeInv, TypeOK, StockRow
  <2> DEFINE c == [r EXCEPT !.pc = "credit", !.row = NoRow]
  <2>4. ASSUME r.head.type = "STOCK_TRANSFER"
        PROVE  c \in Request /\ RequestOK(c)
    <3>1. NoRow \in StockRow
      BY DEF NoRow, StockRow
    <3>2. c \in Request /\ c.pc = "credit" /\ c.trans = r.trans /\ c.head = r.head
      BY <1>1, <3>1 DEF Request, Points
    <3> QED BY <1>1, <2>2, <2>4, <3>2 DEF RequestOK
  <2>5. req' \in [Workers -> Request] /\ RequestsOK'
    <3>1. CASE r.head.type = "STOCK_TRANSFER"
      BY <2>1, <2>4, <3>1, OneRequest
    <3>2. CASE r.head.type # "STOCK_TRANSFER"
      BY <1>6, <2>1, <2>2, <3>2, OneRequest
    <3> QED BY <3>1, <3>2
  <2> QED BY <1>7, <2>3, <2>5 DEF RemoveStock, TypeInv, TypeOK
<1>8. CASE AddStock(p)
  <2> DEFINE loc(l) == RowKey(Receiving(r.head), l)
  <2>1. PICK l \in r.todo :
          /\ Receiving(r.head) \in warehouses
          /\ stock' = [stock EXCEPT ![loc(l)] =
                         [exists |-> TRUE,
                          quantity |-> r.row.quantity + l.baseQty,
                          reservedQty |-> stock[loc(l)].reservedQty]]
          /\ req' = [req EXCEPT ![p] = LineMoved(r, l)]
    BY <1>8 DEF AddStock, r
  <2>2. r.pc = "adding"
    BY <1>8 DEF AddStock, r
  <2>3. stock' \in [Locations -> StockRow]
    <3>1. r.row.quantity + l.baseQty \in Int
      BY <1>1, <1>2 DEF Request, StockRow
    <3>2. loc(l) \in Locations
      BY <1>3, <2>1 DEF TypeInv, TypeOK
    <3> HIDE DEF loc
    <3>3. stock[loc(l)].reservedQty \in Int
      BY <3>2 DEF TypeInv, TypeOK, StockRow
    <3> QED BY <2>1, <3>1, <3>2, <3>3 DEF TypeInv, TypeOK, StockRow
  <2>4. req' \in [Workers -> Request] /\ RequestsOK'
    BY <1>6, <2>1, <2>2, OneRequest
  <2> QED BY <1>8, <2>3, <2>4 DEF AddStock, TypeInv, TypeOK
<1> QED
  BY <1>4, <1>5, <1>7, <1>8

(* The steps that answer a request. *)
LEMMA AnsweringOK ==
  ASSUME TypeInv, NEW p \in Workers,
         \/ RemoveStockFails(p) \/ AddStockFails(p)
         \/ Save(p)   \/ SaveFails(p) \/ Delete(p)
         \/ SaveRow(p) \/ InsertRow(p) \/ RowWriteFails(p) \/ Abort(p)
  PROVE  TypeInv'
<1> DEFINE r == req[p]
<1>1. r \in Request /\ RequestOK(r)
  BY DEF TypeInv, TypeOK, RequestsOK
<1>2. /\ req' \in [Workers -> Request] /\ RequestsOK' /\ issued' \in Nat
      /\ warehouses' = warehouses
  BY AnsweredOK
  DEF RemoveStockFails, AddStockFails, Save, SaveFails, Delete, SaveRow,
      InsertRow, RowWriteFails, Abort
<1>3. header' \in [TransIds -> Header]
  <2>1. CASE Save(p)
    <3> DEFINE t == r.trans
               lastId == header[t].lastId + (IF r.add = {} THEN 0 ELSE 1)
               new == {[id |-> lastId, num |-> a.num, sku |-> a.sku,
                        baseQty |-> 0] : a \in r.add}
    <3>1. t \in TransIds /\ header[t] \in Header
      BY <1>1, <2>1 DEF Save, RequestOK, TypeInv, TypeOK
    <3>2. lastId \in Nat
      BY <3>1 DEF Header
    <3> HIDE DEF lastId
    <3>3. new \in SUBSET Line
      BY <1>1, <3>2 DEF Request, ExtraLine, Line
    <3> HIDE DEF new
    <3>4. Kept(t, r) \cup new \in SUBSET Line
      BY <3>1, <3>3 DEF Kept, Header
    <3>5. [r.head EXCEPT !.lines = Kept(t, r) \cup new, !.lastId = lastId] \in Header
      BY <1>1, <3>2, <3>4 DEF Request, Header
    <3>6. header' = [header EXCEPT ![t] =
                       [r.head EXCEPT !.lines = Kept(t, r) \cup new, !.lastId = lastId]]
      BY <2>1 DEF Save, new, lastId
    <3> QED BY <3>5, <3>6 DEF TypeInv, TypeOK
  <2>2. CASE Delete(p)
    <3>1. [NoHeader EXCEPT !.status = "DELETED"] \in Header
      BY DEF NoHeader, Header
    <3> QED BY <2>2, <3>1 DEF Delete, TypeInv, TypeOK
  <2>3. CASE ~ (Save(p) \/ Delete(p))
    BY <2>3
    DEF RemoveStockFails, AddStockFails, SaveFails, SaveRow, InsertRow,
        RowWriteFails, Abort, TypeInv, TypeOK
  <2> QED BY <2>1, <2>2, <2>3
<1>4. stock' \in [Locations -> StockRow]
  <2>1. r.row \in StockRow
    BY <1>1 DEF Request
  <2> QED
    BY <2>1
    DEF RemoveStockFails, AddStockFails, Save, SaveFails, Delete, SaveRow,
        InsertRow, RowWriteFails, Abort, TypeInv, TypeOK
<1> QED
  BY <1>2, <1>3, <1>4 DEF TypeInv, TypeOK

LEMMA CreateOK ==
  ASSUME TypeInv, NEW t \in TransIds, NEW doc \in Documents, Create(t, doc)
  PROVE  TypeInv'
<1>1. [doc EXCEPT !.status = "DRAFT"] \in Header
  BY StockAssumption DEF Header, Statuses
<1> QED
  BY <1>1 DEF Create, TypeInv, TypeOK, RequestsOK

LEMMA DeleteWarehouseOK ==
  ASSUME TypeInv, NEW w \in Deletable, DeleteWarehouse(w)
  PROVE  TypeInv'
<1>1. \A t \in TransIds :
        [header[t] EXCEPT !.from = IF @ = w THEN NoWarehouse ELSE @,
                          !.to   = IF @ = w THEN NoWarehouse ELSE @] \in Header
  BY DEF TypeInv, TypeOK, Header
<1>2. header' \in [TransIds -> Header]
  BY <1>1 DEF DeleteWarehouse
<1>3. stock' \in [Locations -> StockRow]
  <2>1. NoRow \in StockRow
    BY DEF NoRow, StockRow
  <2>2. stock \in [Locations -> StockRow]
    BY DEF TypeInv, TypeOK
  <2> QED BY <2>1, <2>2 DEF DeleteWarehouse
<1>4. warehouses' \subseteq Warehouses /\ issued' \in Nat
  <2>1. warehouses' = warehouses \ {w} /\ issued' = issued + 1
    BY DEF DeleteWarehouse
  <2> QED BY <2>1 DEF TypeInv, TypeOK
<1>5. req' \in [Workers -> Request] /\ RequestsOK'
  <2>1. req' = req
    BY DEF DeleteWarehouse
  <2> QED BY <2>1 DEF TypeInv, TypeOK, RequestsOK
<1> QED
  BY <1>2, <1>3, <1>4, <1>5 DEF TypeInv, TypeOK

LEMMA TypeNext == TypeInv /\ [Next]_vars => TypeInv'
<1> SUFFICES ASSUME TypeInv, [Next]_vars PROVE TypeInv'
  OBVIOUS
<1>1. CASE UNCHANGED vars
  BY <1>1 DEF vars, TypeInv, TypeOK, RequestsOK
<1>2. ASSUME NEW p \in Workers, TransactionRequest(p) \/ InventoryRequest(p)
      PROVE  TypeInv'
  BY <1>2, TransactionRequestOK, InventoryRequestOK
<1>3. ASSUME NEW p \in Workers, Serve(p) \/ Abort(p)
      PROVE  TypeInv'
  BY <1>3, MovingOK, AnsweringOK DEF Serve
<1> QED
  BY <1>1, <1>2, <1>3, CreateOK, DeleteWarehouseOK DEF Next, Quiet

(* Every reachable row, header and request is well formed, whatever the    *)
(* interleaving of requests, faults and warehouse deletions.               *)
THEOREM TypeCorrect == Spec => []TypeOK
<1>1. TypeInv => TypeOK
  BY DEF TypeInv
<1> QED
  BY <1>1, TypeInit, TypeNext, PTL DEF Spec

--------------------------------------------------------------------------------
(***************************************************************************)
(* No stored quantity is ever negative.  A write is computed from a row    *)
(* read earlier, possibly stale, so the rows that requests hold must be    *)
(* non-negative too: that is the inductive invariant.                      *)
(***************************************************************************)
NonNegative(row) == row.quantity >= 0 /\ row.reservedQty >= 0

NonNegativeInv ==
  /\ NonNegativeStock
  /\ \A p \in Workers : NonNegative(req[p].row)

LEMMA RowRequestNonNegative ==
  ASSUME TypeInv, NonNegativeInv, NEW p \in Workers, InventoryRequest(p)
  PROVE  \E loc \in Locations, row \in StockRow :
           NonNegative(row) /\ WarehouseRequest(p, loc, row)
<1>1. PICK loc \in Locations :
        \/ \E delta \in Adjustments : AdjustInventory(p, loc, delta)
        \/ \E q \in Amounts : SetInventory(p, loc, q)
        \/ Amounts # {} /\ TouchInventory(p, loc)
        \/ \E q \in Amounts : ReserveInventory(p, loc, q)
        \/ \E q \in Amounts : ReleaseReservation(p, loc, q)
  BY DEF InventoryRequest
<1>2. stock[loc] \in StockRow /\ NonNegative(stock[loc])
  BY DEF TypeInv, TypeOK, NonNegativeInv, NonNegativeStock, NonNegative
<1>3. \A q \in Nat : NewRow(q) \in StockRow /\ NonNegative(NewRow(q))
  BY DEF NewRow, StockRow, NonNegative
<1>4. CASE \E delta \in Adjustments : AdjustInventory(p, loc, delta)
  <2>1. PICK delta \in Adjustments : AdjustInventory(p, loc, delta)
    BY <1>4
  <2>2. delta \in Int
    BY StockAssumption
  <2> DEFINE row == [stock[loc] EXCEPT !.quantity = @ + delta]
  <2>3. row \in StockRow
    BY <1>2, <2>2 DEF StockRow
  <2>4. CASE stock[loc].exists
    <3>1. NonNegative(row)
      BY <1>2, <2>1, <2>2, <2>4 DEF NonNegative, StockRow, AdjustInventory
    <3> QED BY <2>1, <2>3, <2>4, <3>1 DEF AdjustInventory
  <2>5. CASE ~ stock[loc].exists
    BY <1>3, <2>1, <2>2, <2>5 DEF AdjustInventory
  <2> QED BY <2>4, <2>5
<1>5. CASE \E q \in Amounts : SetInventory(p, loc, q)
  <2>1. PICK q \in Amounts : SetInventory(p, loc, q)
    BY <1>5
  <2>2. q \in Nat
    BY StockAssumption
  <2> DEFINE row == [stock[loc] EXCEPT !.quantity = q]
  <2>3. row \in StockRow /\ NonNegative(row)
    BY <1>2, <2>2 DEF StockRow, NonNegative
  <2> QED BY <1>3, <2>1, <2>2, <2>3 DEF SetInventory
<1>6. CASE Amounts # {} /\ TouchInventory(p, loc)
  BY <1>2, <1>3, <1>6 DEF TouchInventory
<1>7. CASE \E q \in Amounts : ReserveInventory(p, loc, q)
  <2>1. PICK q \in Amounts : ReserveInventory(p, loc, q)
    BY <1>7
  <2>2. q \in Nat
    BY StockAssumption
  <2> DEFINE row == [stock[loc] EXCEPT !.reservedQty = @ + q]
  <2>3. row \in StockRow /\ NonNegative(row)
    BY <1>2, <2>2 DEF StockRow, NonNegative
  <2> QED BY <2>1, <2>3 DEF ReserveInventory
<1>8. CASE \E q \in Amounts : ReleaseReservation(p, loc, q)
  <2>1. PICK q \in Amounts : ReleaseReservation(p, loc, q)
    BY <1>8
  <2>2. q \in Nat
    BY StockAssumption
  <2> DEFINE left == IF q <= stock[loc].reservedQty
                     THEN stock[loc].reservedQty - q ELSE 0
             row == [stock[loc] EXCEPT !.reservedQty = left]
  <2>3. left \in Int /\ left >= 0
    BY <1>2, <2>2 DEF StockRow
  <2>4. WarehouseRequest(p, loc, row)
    BY <2>1 DEF ReleaseReservation
  <2> HIDE DEF left
  <2>5. row \in StockRow /\ NonNegative(row)
    BY <1>2, <2>3 DEF StockRow, NonNegative
  <2> QED BY <2>4, <2>5
<1> QED
  BY <1>1, <1>4, <1>5, <1>6, <1>7, <1>8

LEMMA NonNegativeNext ==
  ASSUME TypeInv, NonNegativeInv, [Next]_vars
  PROVE  NonNegativeInv'
<1> DEFINE Row(p) == NonNegative(req[p].row)
<1>t. /\ stock \in [Locations -> StockRow]
      /\ req \in [Workers -> Request]
      /\ \A p \in Workers : req[p].row \in StockRow
  BY DEF TypeInv, TypeOK, Request
<1>n. NonNegative(NoRow) /\ NonNegative(Idle.row)
  BY DEF NonNegative, NoRow, Idle
<1>1. CASE UNCHANGED vars
  BY <1>1 DEF vars, NonNegativeInv, NonNegativeStock
<1>2. ASSUME NEW p \in Workers, NEW r \in Request, NonNegative(r.row),
             req' = [req EXCEPT ![p] = r]
      PROVE  \A q \in Workers : NonNegative(req'[q].row)
  BY <1>2, <1>t DEF NonNegativeInv
<1>3. ASSUME NEW p \in Workers, Answer(p)
      PROVE  \A q \in Workers : NonNegative(req'[q].row)
  BY <1>2, <1>3, <1>n, IdleOK DEF Answer
<1>4. ASSUME NEW p \in Workers, TransactionRequest(p)
      PROVE  NonNegativeInv'
  <2>1. PICK r \in Request : LoadedDraft(p, r)
    BY <1>4, TransactionRequestLoads
  <2>2. stock' = stock
    BY <2>1 DEF LoadedDraft
  <2>3. \A q \in Workers : req'[q].row \in {req[q].row, NoRow}
    BY <2>1, <1>t DEF LoadedDraft, Accept
  <2> QED BY <1>n, <2>2, <2>3 DEF NonNegativeInv, NonNegativeStock
<1>5. ASSUME NEW p \in Workers, InventoryRequest(p)
      PROVE  NonNegativeInv'
  <2>1. PICK loc \in Locations, row \in StockRow :
          NonNegative(row) /\ WarehouseRequest(p, loc, row)
    BY <1>5, RowRequestNonNegative
  <2>2. \A q \in Workers : req'[q].row \in {req[q].row, row}
    BY <2>1, <1>t DEF WarehouseRequest, Accept, Idle
  <2> QED
    BY <2>1, <2>2 DEF WarehouseRequest, NonNegativeInv, NonNegativeStock
<1>6. ASSUME NEW p \in Workers, FindStock(p) \/ FindDestination(p)
      PROVE  NonNegativeInv'
  <2> DEFINE r == req[p]
  <2>1. TypeInv'
    BY <1>6, MovingOK
  <2>2. stock' = stock
    BY <1>6 DEF FindStock, FindDestination
  <2>3. \E loc \in Locations : \A q \in Workers :
          req'[q].row \in {req[q].row, stock[loc]}
    <3>1. r \in Request /\ RequestOK(r) /\ r.head \in Header
      BY DEF TypeInv, TypeOK, RequestsOK, Request
    <3>2. \A l \in r.todo, w \in Warehouses : RowKey(w, l) \in Locations
      BY <3>1 DEF Request, Line, RowKey, Locations
    <3>3. CASE FindStock(p)
      <4>1. PICK l \in r.todo :
              \E w \in Warehouses, pc \in Points :
                req' = [req EXCEPT ![p].pc = pc, ![p].row = stock[RowKey(w, l)]]
        BY <3>1, <3>3
        DEF FindStock, RequestOK, WarehousesFitType, Outbound, Receiving,
            Header, Points
      <4>2. PICK w \in Warehouses, pc \in Points :
              req' = [req EXCEPT ![p].pc = pc, ![p].row = stock[RowKey(w, l)]]
        BY <4>1
      <4>3. \A q \in Workers : req'[q].row \in {req[q].row, stock[RowKey(w, l)]}
        BY <1>t, <4>2 DEF Request
      <4> QED BY <3>2, <4>3
    <3>4. CASE FindDestination(p)
      <4>1. PICK l \in r.todo :
              req' = [req EXCEPT ![p].pc = "adding",
                                 ![p].row = stock[RowKey(r.head.to, l)]]
        BY <3>4 DEF FindDestination
      <4>2. r.head.to \in Warehouses
        BY <3>1, <3>4 DEF FindDestination, RequestOK, WarehousesFitType, Header
      <4>3. \A q \in Workers :
              req'[q].row \in {req[q].row, stock[RowKey(r.head.to, l)]}
        BY <1>t, <4>1 DEF Request
      <4> QED BY <3>2, <4>2, <4>3
    <3> QED BY <1>6, <3>3, <3>4
  <2> QED BY <2>2, <2>3 DEF NonNegativeInv, NonNegativeStock, NonNegative
<1>7. ASSUME NEW p \in Workers, RemoveStock(p) \/ AddStock(p)
      PROVE  NonNegativeInv'
  <2> DEFINE r == req[p]
  <2>1. r \in Request /\ NonNegative(r.row) /\ r.row \in StockRow
    BY <1>t DEF NonNegativeInv
  <2>2. \A l \in r.todo : l.baseQty \in Nat /\ l.sku \in Skus
    BY <2>1 DEF Request, Line
  <2>3. \A q \in Workers : req'[q].row \in {req[q].row, NoRow}
    <3>1. \A l : LineMoved(r, l).row = NoRow
      BY <2>1 DEF LineMoved, Request
    <3>2. [r EXCEPT !.pc = "credit", !.row = NoRow].row = NoRow
      BY <2>1 DEF Request
    <3>3. \E n : n.row = NoRow /\ req' = [req EXCEPT ![p] = n]
      BY <1>7, <3>1, <3>2 DEF RemoveStock, AddStock
    <3> QED BY <1>t, <3>3
  <2>4. NonNegativeStock'
    <3>1. CASE RemoveStock(p)
      <4>1. PICK l \in r.todo :
              /\ r.row.quantity >= l.baseQty
              /\ stock' = [stock EXCEPT ![RowKey(r.head.from, l)].quantity =
                                          r.row.quantity - l.baseQty]
        BY <3>1, <2>1, <2>2 DEF RemoveStock, Sufficient, StockRow
      <4>2. r.row.quantity - l.baseQty >= 0
        BY <2>1, <2>2, <4>1 DEF StockRow
      <4> QED BY <1>t, <4>1, <4>2 DEF NonNegativeInv, NonNegativeStock, StockRow
    <3>2. CASE AddStock(p)
      <4>1. PICK l \in r.todo :
              stock' = [stock EXCEPT ![RowKey(Receiving(r.head), l)] =
                 [exists |-> TRUE,
                  quantity |-> r.row.quantity + l.baseQty,
                  reservedQty |-> stock[RowKey(Receiving(r.head), l)].reservedQty]]
        BY <3>2 DEF AddStock
      <4>2. r.row.quantity + l.baseQty >= 0
        BY <2>1, <2>2 DEF NonNegative, StockRow
      <4> QED BY <1>t, <4>1, <4>2 DEF NonNegativeInv, NonNegativeStock
    <3> QED BY <1>7, <3>1, <3>2
  <2> QED BY <1>n, <2>3, <2>4 DEF NonNegativeInv
<1>8. ASSUME NEW p \in Workers, SaveRow(p) \/ InsertRow(p)
      PROVE  NonNegativeInv'
  <2>1. stock' = [stock EXCEPT ![req[p].loc] = req[p].row] /\ Answer(p)
    BY <1>8 DEF SaveRow, InsertRow
  <2>2. NonNegativeStock'
    BY <1>t, <2>1 DEF NonNegativeInv, NonNegativeStock, NonNegative
  <2> QED BY <1>3, <2>1, <2>2 DEF NonNegativeInv
<1>9. ASSUME NEW p \in Workers,
             \/ RemoveStockFails(p) \/ AddStockFails(p)
             \/ Save(p) \/ SaveFails(p) \/ Delete(p)
             \/ RowWriteFails(p) \/ Abort(p)
      PROVE  NonNegativeInv'
  <2>1. stock' = stock /\ Answer(p)
    BY <1>9
    DEF RemoveStockFails, AddStockFails, Save, SaveFails, Delete,
        RowWriteFails, Abort
  <2> QED BY <1>3, <2>1 DEF NonNegativeInv, NonNegativeStock
<1>10. ASSUME NEW t \in TransIds, NEW doc \in Documents, Create(t, doc)
       PROVE  NonNegativeInv'
  BY <1>10 DEF Create, NonNegativeInv, NonNegativeStock
<1>11. ASSUME NEW w \in Deletable, DeleteWarehouse(w)
       PROVE  NonNegativeInv'
  <2>1. \A l \in Locations : stock'[l] \in {NoRow, stock[l]}
    BY <1>11 DEF DeleteWarehouse
  <2> QED
    BY <1>11, <1>n, <2>1
    DEF DeleteWarehouse, NonNegativeInv, NonNegativeStock, NonNegative
<1> QED
  BY <1>1, <1>4, <1>5, <1>6, <1>7, <1>8, <1>9, <1>10, <1>11
  DEF Next, Serve, Quiet

(* No interleaving drives a stored quantity or reservation below zero: the *)
(* checks of StockService and WarehouseItem are made on stale rows, yet    *)
(* they bound the absolute value that is written.                          *)
THEOREM StockNeverNegative == Spec => []NonNegativeStock
<1>1. Init => NonNegativeInv
  BY StockAssumption
  DEF Init, NonNegativeInv, NonNegativeStock, NonNegative, Idle, NoRow
<1>2. TypeInv /\ NonNegativeInv /\ [Next]_vars => NonNegativeInv'
  BY NonNegativeNext
<1>3. NonNegativeInv => NonNegativeStock
  BY DEF NonNegativeInv
<1> QED
  BY <1>1, <1>2, <1>3, TypeInit, TypeNext, PTL DEF Spec

--------------------------------------------------------------------------------
(***************************************************************************)
(* A closed transaction stays closed if requests on one transaction do not *)
(* overlap.  A request writes back the status it computed from the header  *)
(* it loaded; the invariant is that the stored header is still the draft   *)
(* that was loaded, because nobody else works on it.                       *)
(***************************************************************************)
Exclusive == Disjoint \/ \A p, q \in Workers : p = q

DraftInv ==
  /\ \A p \in Workers : req[p].trans \in TransIds =>
                          header[req[p].trans].status = "DRAFT"
  /\ \A p, q \in Workers :
       p # q /\ req[p].trans \in TransIds => req[p].trans # req[q].trans

(* A request that is accepted works on a transaction of its own. *)
LEMMA AcceptedAlone ==
  ASSUME Exclusive, TypeInv, NEW p \in Workers, NEW r \in Request, Accept(p, r),
         r.trans \in TransIds
  PROVE  \A q \in Workers : q # p => req[q].trans # r.trans
BY StockAssumption DEF Exclusive, Accept, Overlap

LEMMA DraftAccepted ==
  ASSUME Exclusive, TypeInv, DraftInv, NEW p \in Workers, NEW r \in Request,
         Accept(p, r), header' = header,
         r.trans \in TransIds => header[r.trans].status = "DRAFT"
  PROVE  DraftInv'
<1>1. req' = [req EXCEPT ![p] = r] /\ req \in [Workers -> Request]
  BY DEF Accept, TypeInv, TypeOK
<1>2. r.trans \in TransIds => \A q \in Workers : q # p => req[q].trans # r.trans
  BY AcceptedAlone
<1> QED
  BY <1>1, <1>2 DEF DraftInv

(* While p is served its transaction is p's alone: nobody else's changes. *)
LEMMA DraftAnswered ==
  ASSUME TypeInv, DraftInv, NEW p \in Workers, Answer(p),
         \A t \in TransIds : t # req[p].trans => header'[t] = header[t]
  PROVE  DraftInv'
<1>1. req' = [req EXCEPT ![p] = Idle] /\ req \in [Workers -> Request]
  BY DEF Answer, TypeInv, TypeOK
<1>2. Idle.trans \notin TransIds
  BY StockAssumption DEF Idle
<1>3. \A q \in Workers : q # p =>
        req'[q] = req[q] /\ (req[q].trans \in TransIds => req[q].trans # req[p].trans)
  BY <1>1 DEF DraftInv
<1>4. \A q \in Workers : req'[q].trans \in TransIds => q # p
  BY <1>1, <1>2
<1> QED
  BY <1>1, <1>2, <1>3, <1>4 DEF DraftInv

LEMMA MovingKeepsTrans ==
  ASSUME TypeInv, NEW p \in Workers,
         \/ FindStock(p) \/ FindDestination(p) \/ RemoveStock(p) \/ AddStock(p)
  PROVE  /\ \A q \in Workers : req'[q].trans = req[q].trans
         /\ header' = header
<1>1. req \in [Workers -> Request]
  BY DEF TypeInv, TypeOK
<1>2. CASE FindStock(p) \/ FindDestination(p)
  BY <1>1, <1>2 DEF FindStock, FindDestination, Request
<1>3. CASE RemoveStock(p) \/ AddStock(p)
  <2>1. /\ \A l : LineMoved(req[p], l).trans = req[p].trans
        /\ [req[p] EXCEPT !.pc = "credit", !.row = NoRow].trans = req[p].trans
    BY <1>1 DEF LineMoved, Request
  <2>2. \E n : n.trans = req[p].trans /\ req' = [req EXCEPT ![p] = n]
    BY <1>3, <2>1 DEF RemoveStock, AddStock
  <2> QED BY <1>1, <1>3, <2>2 DEF RemoveStock, AddStock
<1> QED
  BY <1>2, <1>3

(* One step keeps DraftInv and every closed transaction. *)
Unchanged(t) ==
  header[t].status \in {"COMPLETED", "CANCELLED"} =>
    /\ header'[t].status = header[t].status
    /\ header'[t].lines = header[t].lines

LEMMA DraftNext ==
  ASSUME Exclusive, TypeInv, DraftInv, [Next]_vars
  PROVE  DraftInv' /\ \A t \in TransIds : Unchanged(t)
<1>h. header \in [TransIds -> Header]
  BY DEF TypeInv, TypeOK
<1>1. CASE UNCHANGED vars
  BY <1>1 DEF vars, DraftInv, Unchanged
<1>2. ASSUME NEW p \in Workers, TransactionRequest(p)
      PROVE  DraftInv' /\ \A t \in TransIds : Unchanged(t)
  <2>1. PICK r \in Request : LoadedDraft(p, r)
    BY <1>2, TransactionRequestLoads
  <2> QED BY <2>1, DraftAccepted DEF LoadedDraft, Unchanged
<1>3. ASSUME NEW p \in Workers, InventoryRequest(p)
      PROVE  DraftInv' /\ \A t \in TransIds : Unchanged(t)
  <2>1. PICK loc \in Locations, row \in StockRow : WarehouseRequest(p, loc, row)
    BY <1>3, InventoryRequestRow
  <2> DEFINE pc == IF stock[loc].exists THEN "rowSave" ELSE "rowInsert"
             r == [Idle EXCEPT !.pc = pc, !.loc = loc, !.row = row]
  <2>2. pc \in Points
    BY DEF Points
  <2>3. Accept(p, r) /\ header' = header
    BY <2>1 DEF WarehouseRequest
  <2> HIDE DEF pc
  <2>4. r \in Request /\ r.trans \notin TransIds
    BY <2>2, IdleOK, StockAssumption DEF Request, Idle
  <2> QED BY <2>3, <2>4, DraftAccepted DEF Unchanged
<1>4. ASSUME NEW p \in Workers,
             \/ FindStock(p) \/ FindDestination(p)
             \/ RemoveStock(p) \/ AddStock(p)
      PROVE  DraftInv' /\ \A t \in TransIds : Unchanged(t)
  BY <1>4, MovingKeepsTrans DEF DraftInv, Unchanged
<1>5. ASSUME NEW p \in Workers, Save(p) \/ Delete(p)
      PROVE  DraftInv' /\ \A t \in TransIds : Unchanged(t)
  <2>1. req[p].trans \in TransIds
    BY <1>5 DEF Save, Delete, TypeInv, RequestsOK, RequestOK
  <2>2. header[req[p].trans].status = "DRAFT"
    BY <2>1 DEF DraftInv
  <2>3. \A t \in TransIds : t # req[p].trans => header'[t] = header[t]
    BY <1>5, <1>h DEF Save, Delete
  <2>4. Answer(p)
    BY <1>5 DEF Save, Delete
  <2> QED BY <2>2, <2>3, <2>4, DraftAnswered DEF Unchanged
<1>6. ASSUME NEW p \in Workers,
             \/ RemoveStockFails(p) \/ AddStockFails(p) \/ SaveFails(p)
             \/ SaveRow(p) \/ InsertRow(p) \/ RowWriteFails(p) \/ Abort(p)
      PROVE  DraftInv' /\ \A t \in TransIds : Unchanged(t)
  <2>1. Answer(p) /\ header' = header
    BY <1>6
    DEF RemoveStockFails, AddStockFails, SaveFails, SaveRow, InsertRow,
        RowWriteFails, Abort
  <2> QED BY <2>1, DraftAnswered DEF Unchanged
<1>7. ASSUME NEW t \in TransIds, NEW doc \in Documents, Create(t, doc)
      PROVE  DraftInv' /\ \A u \in TransIds : Unchanged(u)
  <2>1. /\ header[t].status = "NONE" /\ req' = req
        /\ \A u \in TransIds : u # t => header'[u] = header[u]
    BY <1>7, <1>h DEF Create
  <2>2. \A p \in Workers : req[p].trans \in TransIds => req[p].trans # t
    BY <2>1 DEF DraftInv
  <2> QED BY <2>1, <2>2 DEF DraftInv, Unchanged
<1>8. ASSUME NEW w \in Deletable, DeleteWarehouse(w)
      PROVE  DraftInv' /\ \A t \in TransIds : Unchanged(t)
  <2>1. \A t \in TransIds :
          /\ header'[t].status = header[t].status
          /\ header'[t].lines = header[t].lines
    BY <1>8, <1>h DEF DeleteWarehouse, Header
  <2>2. req' = req
    BY <1>8 DEF DeleteWarehouse
  <2> QED BY <2>1, <2>2 DEF DraftInv, Unchanged
<1> QED
  BY <1>1, <1>2, <1>3, <1>4, <1>5, <1>6, <1>7, <1>8 DEF Next, Serve, Quiet

(* If no two requests work on one transaction at a time, a completed or    *)
(* cancelled transaction never changes its status or its lines again, even *)
(* when requests die between two of their steps.                           *)
THEOREM ClosedStaysClosed ==
  ASSUME Exclusive
  PROVE  Spec => ClosedIsFinal
<1>1. Init => DraftInv
  BY StockAssumption DEF Init, DraftInv, Idle
<1>2. TypeInv /\ DraftInv /\ [Next]_vars => DraftInv'
  BY DraftNext
<1>3. TypeInv /\ DraftInv /\ [Next]_vars =>
        [\A t \in TransIds : header[t].status \in {"COMPLETED", "CANCELLED"} =>
           /\ header'[t].status = header[t].status
           /\ header'[t].lines = header[t].lines]_vars
  BY DraftNext DEF Unchanged
<1> QED
  BY <1>1, <1>2, <1>3, TypeInit, TypeNext, PTL DEF Spec, ClosedIsFinal

--------------------------------------------------------------------------------

(***************************************************************************)
(* When requests share neither a transaction nor a stock row, the row a    *)
(* completion remembers is still the row that is stored.  (A warehouse may *)
(* be deleted under it; nothing is written to its rows then.)              *)
(***************************************************************************)
Numbered(lines) == \A l, m \in lines : l.num = m.num => l = m

(* What the loop of a completion has still to do. *)
Shape(r) ==
  /\ r.todo \subseteq r.head.lines
  /\ Numbered(r.head.lines)
  /\ \A l \in r.todo, m \in r.head.lines \ r.todo :
       r.pc \in {"find", "removing", "credit", "adding"} => m.num < l.num
  /\ \E a : r.add \subseteq {a}
  /\ r.pc \in {"find", "removing", "credit", "adding"} =>
       r.todo # {} /\ r.head.status = "COMPLETED"
  /\ r.pc = "removing" => Outbound(r.head)
  /\ r.pc = "adding" => r.head.type # "GOODS_ISSUE"
  /\ r.pc \in {"rowSave", "rowInsert"} => r.loc \in Locations

(* The warehouse whose row is read for the current step. *)
Side(r) == IF r.pc = "removing" THEN r.head.from ELSE Receiving(r.head)

Fresh(r) ==
  r.pc \in {"removing", "adding"} /\ Side(r) \in warehouses =>
    \A l \in r.todo : First(l, r.todo) => r.row = stock[RowKey(Side(r), l)]

FreshInv ==
  /\ \A t \in TransIds : Numbered(header[t].lines)
  /\ \A p \in Workers : Shape(req[p]) /\ Fresh(req[p])
  /\ \A p, q \in Workers : p # q => ~ Overlap(req[p], req[q])

LEMMA FreshStep ==
  ASSUME TypeInv, FreshInv, NEW p \in Workers, NEW n,
         req' = [req EXCEPT ![p] = n],
         RowsOf(n) \subseteq RowsOf(req[p]) \cup {NoLocation},
         n.trans \in {req[p].trans, NoTrans},
         Shape(n), Fresh(n)',
         \A l \in Locations : l \notin RowsOf(req[p]) => stock'[l] = stock[l],
         warehouses' = warehouses,
         \A t \in TransIds : Numbered(header'[t].lines)
  PROVE  FreshInv'
<1>1. req'[p] = n /\ \A q \in Workers : q # p => req'[q] = req[q]
  BY DEF TypeInv, TypeOK
<1>2. ASSUME NEW q \in Workers, q # p
      PROVE  /\ Fresh(req[q])'
             /\ ~ Overlap(n, req[q]) /\ ~ Overlap(req[q], n)
  <2>1. ~ Overlap(req[p], req[q]) /\ Shape(req[q]) /\ Fresh(req[q]) /\ req[q] \in Request
    BY <1>2 DEF FreshInv, TypeInv, TypeOK
  <2>2. PICK r : r = req[q]
    OBVIOUS
  <2>3. ASSUME r.pc \in {"removing", "adding"}, Side(r) \in warehouses, NEW l \in r.todo,
               First(l, r.todo)
        PROVE  r.row = stock'[RowKey(Side(r), l)]
    <3>1. RowKey(Side(r), l) \in Locations
      BY <2>1, <2>2, <2>3 DEF RowKey, Locations, Request, Line, TypeInv, TypeOK
    <3>2. RowKey(Side(r), l) \in RowsOf(r)
      BY <2>1, <2>2 DEF RowsOf, Side, Receiving, Shape
    <3>3. RowKey(Side(r), l) \notin RowsOf(req[p])
      BY <2>1, <2>2, <3>1, <3>2, StockAssumption DEF Overlap
    <3> QED BY <2>1, <2>2, <2>3, <3>1, <3>3 DEF Fresh
  <2>4. Fresh(r)'
    BY <2>3 DEF Fresh
  <2>5. Fresh(req[q])'
    BY <1>1, <1>2, <2>2, <2>4
  <2>6. ~ Overlap(n, req[q]) /\ ~ Overlap(req[q], n)
    BY <2>1 DEF Overlap
  <2> QED BY <2>5, <2>6
<1>3. \A q \in Workers : Shape(req'[q]) /\ Fresh(req[q])'
  BY <1>1, <1>2 DEF FreshInv
<1>4. \A q, s \in Workers : q # s => ~ Overlap(req'[q], req'[s])
  BY <1>1, <1>2 DEF FreshInv
<1> QED BY <1>3, <1>4 DEF FreshInv

(* A request that ends. *)
LEMMA IdleShape ==
  /\ Shape(Idle) /\ Idle.pc = "idle" /\ Idle.trans = NoTrans
  /\ RowsOf(Idle) = {NoLocation}
  BY DEF Shape, Idle, NoHeader, RowsOf, Numbered

LEMMA IdleFresh == Fresh(Idle)'
  BY IdleShape DEF Fresh

LEMMA FreshAnswer ==
  ASSUME TypeInv, FreshInv, NEW p \in Workers, Answer(p),
         \A l \in Locations : l \notin RowsOf(req[p]) => stock'[l] = stock[l],
         warehouses' = warehouses,
         \A t \in TransIds : Numbered(header'[t].lines)
  PROVE  FreshInv'
  BY FreshStep, IdleShape, IdleFresh DEF Answer

LEMMA FreshAccepted ==
  ASSUME Exclusive, TypeInv, FreshInv, NEW p \in Workers, NEW r, Accept(p, r),
         Shape(r), r.pc \notin {"removing", "adding"},
         UNCHANGED <<warehouses, header, stock>>
  PROVE  FreshInv'
<1>1. req'[p] = r /\ \A q \in Workers : q # p => req'[q] = req[q]
  BY DEF TypeInv, TypeOK, Accept
<1>2. ASSUME NEW q \in Workers, q # p
      PROVE  ~ Overlap(r, req[q]) /\ ~ Overlap(req[q], r)
  <2>1. ~ Overlap(r, req[q])
    BY <1>2 DEF Exclusive, Accept
  <2> QED BY <2>1 DEF Overlap
<1>3. \A q \in Workers : Shape(req'[q]) /\ Fresh(req[q])'
  BY <1>1 DEF FreshInv, Fresh
<1>4. \A q, s \in Workers : q # s => ~ Overlap(req'[q], req'[s])
  BY <1>1, <1>2 DEF FreshInv
<1> QED BY <1>3, <1>4 DEF FreshInv

LEMMA FreshRequests ==
  ASSUME Exclusive, TypeInv, FreshInv, NEW p \in Workers,
         TransactionRequest(p) \/ InventoryRequest(p)
  PROVE  FreshInv'
<1>1. CASE TransactionRequest(p)
  <2>1. PICK r \in Request : LoadedDraft(p, r)
    BY <1>1, TransactionRequestLoads
  <2>2. PICK h : h = header[r.trans]
    OBVIOUS
  <2>3. FromHeader(r, h) /\ Numbered(h.lines)
    BY <2>1, <2>2 DEF LoadedDraft, FreshInv
  <2>4. CASE r.pc = "delete"
    <3>1. r.head = NoHeader /\ r.todo = {} /\ r.add = {}
      BY <2>3, <2>4 DEF FromHeader
    <3>2. Shape(r)
      BY <2>4, <3>1 DEF Shape, NoHeader, Numbered
    <3> QED BY <2>1, <2>4, <3>2, FreshAccepted DEF LoadedDraft
  <2>5. CASE r.pc = "find"
    <3>1. /\ r.head.lines = h.lines /\ r.todo = h.lines /\ h.lines # {} /\ r.add = {}
          /\ r.head.status = "COMPLETED"
      BY <2>3, <2>5 DEF FromHeader, HeadOf
    <3>2. Shape(r)
      BY <2>3, <2>5, <3>1 DEF Shape
    <3> QED BY <2>1, <2>5, <3>2, FreshAccepted DEF LoadedDraft
  <2>6. CASE r.pc = "save"
    <3>1. /\ r.head.lines = h.lines /\ r.todo = {} /\ \E a : r.add \subseteq {a}
      BY <2>3, <2>6 DEF FromHeader, HeadOf
    <3>2. Shape(r)
      BY <2>3, <2>6, <3>1 DEF Shape
    <3> QED BY <2>1, <2>6, <3>2, FreshAccepted DEF LoadedDraft
  <2> QED BY <2>3, <2>4, <2>5, <2>6 DEF FromHeader
<1>2. CASE InventoryRequest(p)
  <2>1. PICK loc \in Locations, row \in StockRow : WarehouseRequest(p, loc, row)
    BY <1>2, InventoryRequestRow
  <2>2. PICK pc \in {"rowSave", "rowInsert"} :
          pc = (IF stock[loc].exists THEN "rowSave" ELSE "rowInsert")
    OBVIOUS
  <2>3. PICK r : r = [Idle EXCEPT !.pc = pc, !.loc = loc, !.row = row]
    OBVIOUS
  <2>4. Accept(p, r) /\ UNCHANGED <<warehouses, header, stock>>
    BY <2>1, <2>2, <2>3 DEF WarehouseRequest
  <2>5. r.pc = pc /\ r.loc = loc /\ r.head = NoHeader /\ r.todo = {} /\ r.add = {}
    BY <2>3 DEF Idle
  <2>6. Shape(r)
    BY <2>2, <2>5 DEF Shape, NoHeader, Numbered
  <2> QED BY <2>2, <2>4, <2>5, <2>6, FreshAccepted
<1> QED BY <1>1, <1>2

(* A line after the first is greater. *)
LEMMA MovedShape ==
  ASSUME NEW r \in Request, Shape(r), NEW l \in r.todo, First(l, r.todo),
         r.pc \in {"removing", "adding"}
  PROVE  /\ Shape(LineMoved(r, l)) /\ LineMoved(r, l).pc \in {"save", "find"}
         /\ LineMoved(r, l).trans = r.trans
         /\ LineMoved(r, l).head = r.head /\ LineMoved(r, l).loc = r.loc
         /\ LineMoved(r, l).todo = r.todo \ {l}
         /\ LineMoved(r, l).add = r.add /\ LineMoved(r, l).drop = r.drop
         /\ LineMoved(r, l).pc = "find" <=> r.todo \ {l} # {}
<1>1. PICK n : n = LineMoved(r, l)
  OBVIOUS
<1>2. /\ n.pc = (IF r.todo = {l} THEN "save" ELSE "find")
      /\ n.trans = r.trans /\ n.head = r.head /\ n.loc = r.loc
      /\ n.todo = r.todo \ {l} /\ n.add = r.add /\ n.drop = r.drop
  BY <1>1 DEF LineMoved, Request
<1>3. \A m \in r.head.lines : m.num \in Nat
  BY StockAssumption DEF Request, Header, Line
<1>4. ASSUME NEW k \in n.todo, NEW m \in r.head.lines \ n.todo
      PROVE  m.num < k.num
  <2>1. k \in r.todo /\ k # l /\ k.num \in Nat /\ l.num \in Nat /\ m.num \in Nat
    BY <1>2, <1>3, <1>4 DEF Shape
  <2>2. l.num <= k.num /\ l.num # k.num
    BY <2>1 DEF First, Shape, Numbered
  <2> QED BY <1>2, <2>1, <2>2 DEF Shape
<1>5. Shape(n)
  BY <1>2, <1>4 DEF Shape
<1> QED BY <1>1, <1>2, <1>5

LEMMA MovingFresh ==
  ASSUME TypeInv, FreshInv, NEW p \in Workers,
         \/ FindStock(p) \/ FindDestination(p) \/ RemoveStock(p) \/ AddStock(p)
  PROVE  FreshInv'
<1>1. PICK r : r = req[p]
  OBVIOUS
<1>2. r \in Request /\ RequestOK(r) /\ Shape(r) /\ r.head \in Header
  BY <1>1 DEF TypeInv, TypeOK, RequestsOK, FreshInv, Request
<1>h. header' = header /\ warehouses' = warehouses /\ req \in [Workers -> Request]
  BY DEF FindStock, FindDestination, RemoveStock, AddStock, TypeInv, TypeOK
<1>n. \A t \in TransIds : Numbered(header'[t].lines)
  BY <1>h DEF FreshInv
<1>3. ASSUME NEW pc \in {"removing", "adding"}, NEW row, NEW l \in r.todo,
             First(l, r.todo),
             r.pc \in {"find", "credit"}, pc = "removing" => Outbound(r.head),
             pc = "adding" => r.head.type # "GOODS_ISSUE",
             row = stock[RowKey(IF pc = "removing" THEN r.head.from ELSE Receiving(r.head), l)],
             req' = [req EXCEPT ![p].pc = pc, ![p].row = row], stock' = stock
      PROVE  FreshInv'
  <2>1. PICK n : n = [r EXCEPT !.pc = pc, !.row = row]
    OBVIOUS
  <2>2. /\ n.pc = pc /\ n.row = row /\ n.trans = r.trans /\ n.head = r.head
        /\ n.loc = r.loc /\ n.todo = r.todo /\ n.add = r.add
    BY <1>2, <2>1 DEF Request
  <2>3. req' = [req EXCEPT ![p] = n]
    BY <1>1, <1>3, <1>h, <2>1
  <2>4. Shape(n)
    BY <1>2, <1>3, <2>2 DEF Shape
  <2>5. \A k \in r.todo : First(k, r.todo) => k = l
    <3>1. \A k \in r.todo : k.num \in Nat
      BY <1>2, StockAssumption DEF Request, Line
    <3> QED BY <1>2, <1>3, <3>1 DEF First, Shape, Numbered
  <2>6. Fresh(n)'
    BY <1>3, <2>2, <2>5 DEF Fresh, Side
  <2>7. RowsOf(n) = RowsOf(r)
    BY <2>2 DEF RowsOf
  <2> QED BY <1>1, <1>3, <1>h, <1>n, <2>2, <2>3, <2>4, <2>6, <2>7, FreshStep
<1>4. CASE FindStock(p)
  <2>1. PICK l \in r.todo :
          /\ First(l, r.todo)
          /\ IF Outbound(r.head)
             THEN req' = [req EXCEPT ![p].pc = "removing",
                                     ![p].row = stock[RowKey(r.head.from, l)]]
             ELSE req' = [req EXCEPT ![p].pc = "adding",
                                     ![p].row = stock[RowKey(Receiving(r.head), l)]]
    BY <1>1, <1>4 DEF FindStock
  <2>2. stock' = stock /\ r.pc = "find"
    BY <1>1, <1>4 DEF FindStock
  <2>3. CASE Outbound(r.head)
    <3> DEFINE row == stock[RowKey(r.head.from, l)]
    <3>1. req' = [req EXCEPT ![p].pc = "removing", ![p].row = row]
      BY <2>1, <2>3
    <3> QED BY <1>3, <2>1, <2>2, <2>3, <3>1
  <2>4. CASE ~ Outbound(r.head)
    <3> DEFINE row == stock[RowKey(Receiving(r.head), l)]
    <3>1. req' = [req EXCEPT ![p].pc = "adding", ![p].row = row]
      BY <2>1, <2>4
    <3>2. r.head.type # "GOODS_ISSUE"
      BY <2>4 DEF Outbound
    <3> QED BY <1>3, <2>1, <2>2, <3>1, <3>2
  <2> QED BY <2>3, <2>4
<1>5. CASE FindDestination(p)
  <2>1. PICK l \in r.todo :
          /\ First(l, r.todo)
          /\ req' = [req EXCEPT ![p].pc = "adding",
                                ![p].row = stock[RowKey(r.head.to, l)]]
    BY <1>1, <1>5 DEF FindDestination
  <2>2. stock' = stock /\ r.pc = "credit"
    BY <1>1, <1>5 DEF FindDestination
  <2>3. Receiving(r.head) = r.head.to /\ r.head.type # "GOODS_ISSUE"
    BY <1>2, <2>2 DEF RequestOK, Receiving
  <2> QED BY <1>3, <2>1, <2>2, <2>3
<1>6. ASSUME NEW l \in r.todo, NEW w, NEW n, First(l, r.todo),
             w \in {r.head.from, r.head.to}, r.pc \in {"removing", "adding"},
             req' = [req EXCEPT ![p] = n],
             \A k \in Locations : k # RowKey(w, l) => stock'[k] = stock[k],
             Shape(n), n.pc \notin {"removing", "adding"}, n.trans = r.trans,
             n.head = r.head, n.loc = r.loc
      PROVE  FreshInv'
  <2>1. RowsOf(n) = RowsOf(r)
    BY <1>6 DEF RowsOf
  <2>2. RowKey(w, l) \in RowsOf(r)
    BY <1>2, <1>6 DEF RowsOf, Shape
  <2>3. Fresh(n)'
    BY <1>6 DEF Fresh
  <2> QED BY <1>1, <1>6, <1>h, <1>n, <2>1, <2>2, <2>3, FreshStep
<1>7. CASE RemoveStock(p)
  <2>1. PICK l \in r.todo :
          /\ First(l, r.todo)
          /\ stock' = [stock EXCEPT ![RowKey(r.head.from, l)].quantity =
                                      r.row.quantity - l.baseQty]
          /\ req' = [req EXCEPT ![p] =
                       IF r.head.type = "STOCK_TRANSFER"
                       THEN [r EXCEPT !.pc = "credit", !.row = NoRow]
                       ELSE LineMoved(r, l)]
    BY <1>1, <1>7 DEF RemoveStock
  <2>2. r.pc = "removing"
    BY <1>1, <1>7 DEF RemoveStock
  <2>3. \A k \in Locations : k # RowKey(r.head.from, l) => stock'[k] = stock[k]
    BY <2>1 DEF TypeInv, TypeOK
  <2>4. CASE r.head.type = "STOCK_TRANSFER"
    <3>1. PICK n : n = [r EXCEPT !.pc = "credit", !.row = NoRow]
      OBVIOUS
    <3>2. /\ n.pc = "credit" /\ n.trans = r.trans /\ n.head = r.head
          /\ n.loc = r.loc /\ n.todo = r.todo /\ n.add = r.add
      BY <1>2, <3>1 DEF Request
    <3>3. Shape(n)
      BY <1>2, <2>2, <3>2 DEF Shape
    <3> QED BY <1>6, <2>1, <2>2, <2>3, <2>4, <3>1, <3>2, <3>3
  <2>5. CASE r.head.type # "STOCK_TRANSFER"
    <3>1. PICK n : n = LineMoved(r, l)
      OBVIOUS
    <3>2. /\ Shape(n) /\ n.pc \in {"save", "find"} /\ n.trans = r.trans /\ n.head = r.head
          /\ n.loc = r.loc
      BY <1>2, <2>1, <2>2, <3>1, MovedShape
    <3> QED BY <1>6, <2>1, <2>2, <2>3, <2>5, <3>1, <3>2
  <2> QED BY <2>4, <2>5
<1>8. CASE AddStock(p)
  <2>1. PICK l \in r.todo :
          /\ First(l, r.todo)
          /\ stock' = [stock EXCEPT ![RowKey(Receiving(r.head), l)] =
                          [exists |-> TRUE,
                           quantity |-> r.row.quantity + l.baseQty,
                           reservedQty |-> stock[RowKey(Receiving(r.head), l)].reservedQty]]
          /\ req' = [req EXCEPT ![p] = LineMoved(r, l)]
    BY <1>1, <1>8 DEF AddStock
  <2>2. r.pc = "adding"
    BY <1>1, <1>8 DEF AddStock
  <2>3. \A k \in Locations : k # RowKey(Receiving(r.head), l) => stock'[k] = stock[k]
    BY <2>1 DEF TypeInv, TypeOK
  <2>4. PICK n : n = LineMoved(r, l)
    OBVIOUS
  <2>5. /\ Shape(n) /\ n.pc \in {"save", "find"} /\ n.trans = r.trans /\ n.head = r.head
        /\ n.loc = r.loc
    BY <1>2, <2>1, <2>2, <2>4, MovedShape
  <2>6. Receiving(r.head) \in {r.head.from, r.head.to}
    BY DEF Receiving
  <2> QED BY <1>6, <2>1, <2>2, <2>3, <2>4, <2>5, <2>6
<1> QED BY <1>4, <1>5, <1>7, <1>8

(* A save inserts one line at most, and only if its number is free. *)
LEMMA SavedNumbered ==
  ASSUME TypeInv, FreshInv, NEW p \in Workers, Save(p)
  PROVE  \A t \in TransIds : Numbered(header'[t].lines)
<1>1. PICK r : r = req[p]
  OBVIOUS
<1>2. PICK t : t = r.trans
  OBVIOUS
<1>3. /\ r \in Request /\ Shape(r) /\ t \in TransIds /\ header[t] \in Header
      /\ r.pc = "save"
  BY <1>1, <1>2 DEF Save, TypeInv, TypeOK, RequestsOK, RequestOK, FreshInv
<1>4. PICK lastId : lastId = header[t].lastId + (IF r.add = {} THEN 0 ELSE 1)
  OBVIOUS
<1>5. PICK new : new = {[id |-> lastId, num |-> a.num, sku |-> a.sku, baseQty |-> 0] : a \in r.add}
  OBVIOUS
<1>6. PICK lines : lines = Kept(t, r) \cup new
  OBVIOUS
<1>7. header' = [header EXCEPT ![t] = [r.head EXCEPT !.lines = lines, !.lastId = lastId]]
  BY <1>1, <1>2, <1>4, <1>5, <1>6 DEF Save
<1>8. header'[t].lines = lines
  BY <1>3, <1>7 DEF TypeInv, TypeOK, Request, Header
<1>9. \A k \in new : \E a \in r.add : k.num = a.num
  BY <1>5
<1>10. \A k, m \in new : k = m
  BY <1>3, <1>5 DEF Shape
<1>11. \A k \in Kept(t, r), m \in new : k.num # m.num
  BY <1>1, <1>2, <1>9 DEF Save, SavePossible
<1>12. Kept(t, r) \subseteq header[t].lines /\ Numbered(header[t].lines)
  BY <1>3 DEF Kept, FreshInv
<1>13. Numbered(lines)
  BY <1>6, <1>10, <1>11, <1>12 DEF Numbered
<1>14. \A u \in TransIds : u # t => header'[u] = header[u]
  BY <1>7 DEF TypeInv, TypeOK
<1> QED BY <1>8, <1>13, <1>14 DEF FreshInv

LEMMA FreshNext ==
  ASSUME Exclusive, TypeInv, FreshInv, [Next]_vars
  PROVE  FreshInv'
<1>1. CASE UNCHANGED vars
  BY <1>1 DEF vars, FreshInv, Fresh
<1>2. ASSUME NEW p \in Workers, TransactionRequest(p) \/ InventoryRequest(p)
      PROVE  FreshInv'
  BY <1>2, FreshRequests
<1>3. ASSUME NEW p \in Workers,
             \/ FindStock(p) \/ FindDestination(p) \/ RemoveStock(p) \/ AddStock(p)
      PROVE  FreshInv'
  BY <1>3, MovingFresh
<1>4. ASSUME NEW p \in Workers, SaveRow(p) \/ InsertRow(p)
      PROVE  FreshInv'
  <2>1. /\ Answer(p) /\ header' = header /\ warehouses' = warehouses
        /\ stock' = [stock EXCEPT ![req[p].loc] = req[p].row]
    BY <1>4 DEF SaveRow, InsertRow
  <2>2. req[p].loc \in RowsOf(req[p])
    BY DEF RowsOf
  <2>3. \A l \in Locations : l \notin RowsOf(req[p]) => stock'[l] = stock[l]
    BY <2>1, <2>2 DEF TypeInv, TypeOK
  <2>4. \A t \in TransIds : Numbered(header'[t].lines)
    BY <2>1 DEF FreshInv
  <2> QED BY <2>1, <2>3, <2>4, FreshAnswer
<1>5. ASSUME NEW p \in Workers,
             \/ RemoveStockFails(p) \/ AddStockFails(p) \/ SaveFails(p)
             \/ RowWriteFails(p) \/ Abort(p)
      PROVE  FreshInv'
  <2>1. Answer(p) /\ UNCHANGED <<warehouses, header, stock>>
    BY <1>5 DEF RemoveStockFails, AddStockFails, SaveFails, RowWriteFails, Abort
  <2>2. \A t \in TransIds : Numbered(header'[t].lines)
    BY <2>1 DEF FreshInv
  <2> QED BY <2>1, <2>2, FreshAnswer
<1>6. ASSUME NEW p \in Workers, Save(p)
      PROVE  FreshInv'
  BY <1>6, SavedNumbered, FreshAnswer DEF Save
<1>7. ASSUME NEW p \in Workers, Delete(p)
      PROVE  FreshInv'
  <2>1. \A t \in TransIds : header'[t].lines \in {header[t].lines, {}}
    BY <1>7 DEF Delete, TypeInv, TypeOK, NoHeader
  <2>2. \A t \in TransIds : Numbered(header'[t].lines)
    BY <2>1 DEF FreshInv, Numbered
  <2> QED BY <1>7, <2>2, FreshAnswer DEF Delete
<1>8. ASSUME NEW t \in TransIds, NEW doc \in Documents, Create(t, doc)
      PROVE  FreshInv'
  <2>1. doc \in Header
    BY StockAssumption
  <2>2. \A u \in TransIds : header'[u].lines \in {header[u].lines, doc.lines}
    BY <1>8, <2>1 DEF Create, TypeInv, TypeOK, Header
  <2>3. Numbered(doc.lines)
    BY <1>8 DEF Create, Numbered
  <2> QED BY <1>8, <2>2, <2>3 DEF Create, FreshInv, Fresh
<1>9. ASSUME NEW w \in Deletable, DeleteWarehouse(w)
      PROVE  FreshInv'
  <2>1. \A t \in TransIds : header'[t].lines = header[t].lines
    BY <1>9 DEF DeleteWarehouse, TypeInv, TypeOK, Header
  <2>2. req' = req /\ warehouses' = warehouses \ {w}
    BY <1>9 DEF DeleteWarehouse
  <2>3. ASSUME NEW p \in Workers
        PROVE  Fresh(req[p])'
    <3>1. PICK r : r = req[p]
      OBVIOUS
    <3>2. r \in Request /\ Fresh(r)
      BY <3>1 DEF TypeInv, TypeOK, FreshInv
    <3>3. ASSUME r.pc \in {"removing", "adding"}, Side(r) \in warehouses, Side(r) # w,
                 NEW l \in r.todo, First(l, r.todo)
          PROVE  r.row = stock'[RowKey(Side(r), l)]
      <4>1. Side(r) \in Warehouses /\ l.sku \in Skus
        BY <3>2, <3>3 DEF TypeInv, TypeOK, Request, Line
      <4>2. RowKey(Side(r), l) \in Locations /\ RowKey(Side(r), l)[1] = Side(r)
        BY <4>1 DEF RowKey, Locations
      <4>3. stock'[RowKey(Side(r), l)] = stock[RowKey(Side(r), l)]
        BY <1>9, <3>3, <4>2 DEF DeleteWarehouse
      <4> QED BY <3>2, <3>3, <4>3 DEF Fresh
    <3>4. Fresh(r)'
      BY <2>2, <3>3 DEF Fresh
    <3> QED BY <2>2, <3>1, <3>4
  <2> QED BY <2>1, <2>2, <2>3 DEF FreshInv
<1> QED
  BY <1>1, <1>2, <1>3, <1>4, <1>5, <1>6, <1>7, <1>8, <1>9 DEF Next, Serve, Quiet

LEMMA FreshInit == Init => FreshInv
<1> SUFFICES ASSUME Init PROVE FreshInv
  OBVIOUS
<1>1. \A t \in TransIds : Numbered(header[t].lines)
  BY DEF Init, NoHeader, Numbered
<1>2. \A p \in Workers : Shape(req[p]) /\ Fresh(req[p])
  BY IdleShape DEF Init, Fresh
<1>3. \A p, q \in Workers : ~ Overlap(req[p], req[q])
  BY IdleShape DEF Init, Overlap
<1> QED BY <1>1, <1>2, <1>3 DEF FreshInv

LEMMA FreshAlways ==
  ASSUME Exclusive
  PROVE  Spec => [](TypeInv /\ NonNegativeInv /\ DraftInv /\ FreshInv)
<1>1. Init => DraftInv
  BY StockAssumption DEF Init, DraftInv, Idle
<1>2. Init => NonNegativeInv
  BY StockAssumption
  DEF Init, NonNegativeInv, NonNegativeStock, NonNegative, Idle, NoRow
<1>3. TypeInv /\ NonNegativeInv /\ DraftInv /\ FreshInv /\ [Next]_vars =>
        TypeInv' /\ NonNegativeInv' /\ DraftInv' /\ FreshInv'
  BY TypeNext, NonNegativeNext, DraftNext, FreshNext
<1> QED BY <1>1, <1>2, <1>3, FreshInit, TypeInit, PTL DEF Spec

(* Completions of one transaction do not overlap once requests on it do    *)
(* not: the check of complete() is made on the stored status.              *)
THEOREM OneCompletionAtATime ==
  ASSUME Exclusive
  PROVE  Spec => []CompletedOnce
<1>1. TypeInv /\ DraftInv => CompletedOnce
  <2> SUFFICES ASSUME TypeInv, DraftInv, NEW p \in Workers, NEW q \in Workers,
                      p # q, Completing(p), Completing(q)
               PROVE  req[p].trans # req[q].trans
    BY DEF CompletedOnce
  <2>1. req[p].trans \in TransIds
    BY DEF Completing, TypeInv, RequestsOK, RequestOK
  <2> QED BY <2>1 DEF DraftInv
<1> QED BY <1>1, FreshAlways, PTL

--------------------------------------------------------------------------------
(***************************************************************************)
(* Reservations.  A reservation is covered when the row is written; stock  *)
(* is then only added to rows that are still as they were read.            *)
(***************************************************************************)
OnlyRaised ==
  /\ \A doc \in Documents : ~ Outbound(doc)
  /\ \A delta \in Adjustments : delta >= 0

Covered(row) == row.reservedQty <= row.quantity

CoveredInv ==
  /\ \A l \in Locations : Covered(stock[l])
  /\ \A t \in TransIds : ~ Outbound(header[t])
  /\ \A p \in Workers :
       /\ ~ Outbound(req[p].head)
       /\ req[p].pc \in {"rowSave", "rowInsert"} => Covered(req[p].row)

LEMMA RowRequestCovered ==
  ASSUME OnlyRaised, TypeInv, NonNegativeInv, CoveredInv, NEW p \in Workers,
         InventoryRequest(p)
  PROVE  \E loc \in Locations, row \in StockRow :
           Covered(row) /\ WarehouseRequest(p, loc, row)
<1>1. PICK loc \in Locations :
        \/ \E delta \in Adjustments : AdjustInventory(p, loc, delta)
        \/ \E q \in Amounts : SetInventory(p, loc, q)
        \/ Amounts # {} /\ TouchInventory(p, loc)
        \/ \E q \in Amounts : ReserveInventory(p, loc, q)
        \/ \E q \in Amounts : ReleaseReservation(p, loc, q)
  BY DEF InventoryRequest
<1>o. PICK old : old = stock[loc]
  OBVIOUS
<1>2. /\ old \in StockRow /\ NonNegative(old) /\ Covered(old)
      /\ old.quantity \in Int /\ old.reservedQty \in Int
  BY <1>o DEF TypeInv, TypeOK, NonNegativeInv, NonNegativeStock, NonNegative, CoveredInv, StockRow
<1>3. \A q \in Nat : NewRow(q) \in StockRow /\ Covered(NewRow(q))
  BY DEF NewRow, StockRow, Covered
<1>4. CASE \E delta \in Adjustments : AdjustInventory(p, loc, delta)
  <2>1. PICK delta \in Adjustments : AdjustInventory(p, loc, delta)
    BY <1>4
  <2>2. delta \in Int /\ delta >= 0 /\ delta \in Nat
    BY StockAssumption DEF OnlyRaised
  <2>3. PICK row : row = [old EXCEPT !.quantity = old.quantity + delta]
    OBVIOUS
  <2>4. row \in StockRow /\ Covered(row)
    BY <1>2, <2>2, <2>3 DEF StockRow, Covered
  <2> QED BY <1>3, <1>o, <2>1, <2>2, <2>3, <2>4 DEF AdjustInventory
<1>5. CASE \E q \in Amounts : SetInventory(p, loc, q)
  <2>1. PICK q \in Amounts : SetInventory(p, loc, q)
    BY <1>5
  <2>2. q \in Nat
    BY StockAssumption
  <2>3. PICK row : row = [old EXCEPT !.quantity = q]
    OBVIOUS
  <2>4. row \in StockRow /\ (q >= old.reservedQty => Covered(row))
    BY <1>2, <2>2, <2>3 DEF StockRow, Covered
  <2> QED BY <1>3, <1>o, <2>1, <2>2, <2>3, <2>4 DEF SetInventory
<1>6. CASE Amounts # {} /\ TouchInventory(p, loc)
  BY <1>2, <1>3, <1>6, <1>o DEF TouchInventory
<1>7. CASE \E q \in Amounts : ReserveInventory(p, loc, q)
  <2>1. PICK q \in Amounts : ReserveInventory(p, loc, q)
    BY <1>7
  <2>2. q \in Nat /\ q <= old.quantity - old.reservedQty
    BY <1>o, <2>1, StockAssumption DEF ReserveInventory
  <2>3. PICK row : row = [old EXCEPT !.reservedQty = old.reservedQty + q]
    OBVIOUS
  <2>4. row \in StockRow /\ Covered(row)
    BY <1>2, <2>2, <2>3 DEF StockRow, Covered
  <2> QED BY <1>o, <2>1, <2>3, <2>4 DEF ReserveInventory
<1>8. CASE \E q \in Amounts : ReleaseReservation(p, loc, q)
  <2>1. PICK q \in Amounts : ReleaseReservation(p, loc, q)
    BY <1>8
  <2>2. q \in Nat
    BY StockAssumption
  <2>3. PICK left : left = (IF q <= old.reservedQty THEN old.reservedQty - q ELSE 0)
    OBVIOUS
  <2>4. PICK row : row = [old EXCEPT !.reservedQty = left]
    OBVIOUS
  <2>5. left \in Int /\ left <= old.quantity
    BY <1>2, <2>2, <2>3 DEF NonNegative, Covered
  <2>6. row \in StockRow /\ Covered(row)
    BY <1>2, <2>4, <2>5 DEF StockRow, Covered
  <2> QED BY <1>o, <2>1, <2>3, <2>4, <2>6 DEF ReleaseReservation
<1> QED BY <1>1, <1>4, <1>5, <1>6, <1>7, <1>8

LEMMA CoveredAnswer ==
  ASSUME TypeInv, CoveredInv, NEW p \in Workers, Answer(p)
  PROVE  \A q \in Workers :
           /\ ~ Outbound(req'[q].head)
           /\ req'[q].pc \in {"rowSave", "rowInsert"} => Covered(req'[q].row)
<1>1. Idle.pc = "idle" /\ ~ Outbound(Idle.head)
  BY DEF Idle, NoHeader, Outbound
<1>2. \A q \in Workers : req'[q] \in {req[q], Idle}
  BY DEF Answer, TypeInv, TypeOK
<1> QED BY <1>1, <1>2 DEF CoveredInv

LEMMA CoveredNext ==
  ASSUME OnlyRaised, TypeInv, NonNegativeInv, FreshInv, CoveredInv, [Next]_vars
  PROVE  CoveredInv'
<1>t. /\ stock \in [Locations -> StockRow] /\ req \in [Workers -> Request]
      /\ header \in [TransIds -> Header]
  BY DEF TypeInv, TypeOK
<1>1. CASE UNCHANGED vars
  BY <1>1 DEF vars, CoveredInv
<1>2. ASSUME NEW p \in Workers, TransactionRequest(p)
      PROVE  CoveredInv'
  <2>1. PICK r \in Request : LoadedDraft(p, r)
    BY <1>2, TransactionRequestLoads
  <2>2. /\ r.trans \in TransIds /\ FromHeader(r, header[r.trans])
        /\ req' = [req EXCEPT ![p] = r] /\ UNCHANGED <<warehouses, header, stock>>
    BY <2>1 DEF LoadedDraft, Accept
  <2>3. ~ Outbound(r.head) /\ r.pc \notin {"rowSave", "rowInsert"}
    BY <2>2 DEF FromHeader, HeadOf, Outbound, NoHeader, CoveredInv
  <2> QED BY <1>t, <2>2, <2>3 DEF CoveredInv
<1>3. ASSUME NEW p \in Workers, InventoryRequest(p)
      PROVE  CoveredInv'
  <2>1. PICK loc \in Locations, row \in StockRow :
          Covered(row) /\ WarehouseRequest(p, loc, row)
    BY <1>3, RowRequestCovered
  <2>2. PICK pc : req' = [req EXCEPT ![p] = [Idle EXCEPT !.pc = pc, !.loc = loc, !.row = row]]
    BY <2>1 DEF WarehouseRequest, Accept
  <2>3. PICK r : r = [Idle EXCEPT !.pc = pc, !.loc = loc, !.row = row]
    OBVIOUS
  <2>5. r.head = NoHeader /\ r.row = row
    BY <2>3 DEF Idle
  <2>4. ~ Outbound(r.head)
    BY <2>5 DEF NoHeader, Outbound
  <2> QED BY <1>t, <2>1, <2>2, <2>3, <2>4, <2>5 DEF CoveredInv, WarehouseRequest
<1>4. ASSUME NEW p \in Workers, FindStock(p) \/ FindDestination(p)
      PROVE  CoveredInv'
  <2>1. \A q \in Workers :
          /\ req'[q].head = req[q].head
          /\ req'[q].pc \in {"rowSave", "rowInsert"} => req'[q] = req[q]
    BY <1>4, <1>t DEF FindStock, FindDestination, Request
  <2> QED BY <1>4, <2>1 DEF CoveredInv, FindStock, FindDestination
<1>5. ASSUME NEW p \in Workers, RemoveStock(p)
      PROVE  CoveredInv'
  BY <1>5 DEF RemoveStock, FreshInv, Shape, CoveredInv
<1>6. ASSUME NEW p \in Workers, AddStock(p)
      PROVE  CoveredInv'
  <2>1. PICK r : r = req[p]
    OBVIOUS
  <2>2. r \in Request /\ Shape(r) /\ Fresh(r) /\ ~ Outbound(r.head) /\ r.pc = "adding"
    BY <1>6, <1>t, <2>1 DEF AddStock, FreshInv, CoveredInv
  <2>3. PICK w : w = Receiving(r.head)
    OBVIOUS
  <2>4. PICK l \in r.todo :
          /\ First(l, r.todo) /\ w \in warehouses
          /\ stock' = [stock EXCEPT ![RowKey(w, l)] =
                          [exists |-> TRUE,
                           quantity |-> r.row.quantity + l.baseQty,
                           reservedQty |-> stock[RowKey(w, l)].reservedQty]]
          /\ req' = [req EXCEPT ![p] = LineMoved(r, l)]
    BY <1>6, <2>1, <2>3 DEF AddStock
  <2>5. PICK k : k = RowKey(w, l)
    OBVIOUS
  <2>6. k \in Locations /\ l.baseQty \in Nat
    BY <2>2, <2>4, <2>5 DEF RowKey, Locations, Request, Line, TypeInv, TypeOK
  <2>7. r.row = stock[k]
    BY <2>2, <2>3, <2>4, <2>5 DEF Fresh, Side
  <2>8. PICK row : row = [exists |-> TRUE, quantity |-> r.row.quantity + l.baseQty,
                          reservedQty |-> stock[k].reservedQty]
    OBVIOUS
  <2>9. Covered(row)
    <3>1. Covered(stock[k]) /\ stock[k].quantity \in Int /\ stock[k].reservedQty \in Int
      BY <1>t, <2>6 DEF CoveredInv, StockRow
    <3> QED BY <2>6, <2>7, <2>8, <3>1 DEF Covered
  <2>10. \A m \in Locations : Covered(stock'[m])
    BY <1>t, <2>4, <2>5, <2>8, <2>9 DEF CoveredInv
  <2>11. PICK n : n = LineMoved(r, l)
    OBVIOUS
  <2>12. n.head = r.head /\ n.pc \in {"save", "find"}
    BY <2>2, <2>4, <2>11, MovedShape
  <2> QED BY <1>6, <1>t, <2>2, <2>4, <2>10, <2>11, <2>12 DEF AddStock, CoveredInv
<1>7. ASSUME NEW p \in Workers, SaveRow(p) \/ InsertRow(p)
      PROVE  CoveredInv'
  <2>1. /\ stock' = [stock EXCEPT ![req[p].loc] = req[p].row] /\ Answer(p)
        /\ Covered(req[p].row) /\ header' = header
    BY <1>7 DEF SaveRow, InsertRow, CoveredInv
  <2>2. \A l \in Locations : Covered(stock'[l])
    BY <1>t, <2>1 DEF CoveredInv
  <2> QED BY <2>1, <2>2, CoveredAnswer DEF CoveredInv
<1>8. ASSUME NEW p \in Workers,
             \/ RemoveStockFails(p) \/ AddStockFails(p) \/ SaveFails(p)
             \/ RowWriteFails(p) \/ Abort(p)
      PROVE  CoveredInv'
  <2>1. Answer(p) /\ UNCHANGED <<warehouses, header, stock>>
    BY <1>8 DEF RemoveStockFails, AddStockFails, SaveFails, RowWriteFails, Abort
  <2> QED BY <2>1, CoveredAnswer DEF CoveredInv
<1>9. ASSUME NEW p \in Workers, Save(p) \/ Delete(p)
      PROVE  CoveredInv'
  <2>1. Answer(p) /\ stock' = stock
    BY <1>9 DEF Save, Delete
  <2>2. \A t \in TransIds : ~ Outbound(header'[t])
    <3>1. CASE Save(p)
      <4>1. PICK t, lines, lastId :
              header' = [header EXCEPT ![t] =
                           [req[p].head EXCEPT !.lines = lines, !.lastId = lastId]]
        BY <3>1 DEF Save
      <4>2. req[p].head \in Header /\ ~ Outbound(req[p].head)
        BY <1>t DEF CoveredInv, Request
      <4>3. PICK h : h = [req[p].head EXCEPT !.lines = lines, !.lastId = lastId]
        OBVIOUS
      <4>4. h.type = req[p].head.type
        BY <4>2, <4>3 DEF Header
      <4> QED BY <1>t, <4>1, <4>2, <4>3, <4>4 DEF CoveredInv, Outbound
    <3>2. CASE Delete(p)
      <4>1. ~ Outbound([NoHeader EXCEPT !.status = "DELETED"])
        BY DEF NoHeader, Outbound
      <4> QED BY <1>t, <3>2, <4>1 DEF CoveredInv, Delete
    <3> QED BY <1>9, <3>1, <3>2
  <2> QED BY <2>1, <2>2, CoveredAnswer DEF CoveredInv
<1>10. ASSUME NEW t \in TransIds, NEW doc \in Documents, Create(t, doc)
       PROVE  CoveredInv'
  <2>1. PICK h : h = [doc EXCEPT !.status = "DRAFT"]
    OBVIOUS
  <2>2. h.type = doc.type
    BY <2>1, StockAssumption DEF Header
  <2>3. ~ Outbound(h)
    BY <2>2 DEF OnlyRaised, Outbound
  <2> QED BY <1>10, <1>t, <2>1, <2>3 DEF Create, CoveredInv
<1>11. ASSUME NEW w \in Deletable, DeleteWarehouse(w)
       PROVE  CoveredInv'
  <2>1. \A l \in Locations : stock'[l] \in {NoRow, stock[l]}
    BY <1>11 DEF DeleteWarehouse
  <2>2. \A t \in TransIds : header'[t].type = header[t].type
    BY <1>11, <1>t DEF DeleteWarehouse, Header
  <2>3. Covered(NoRow)
    BY DEF Covered, NoRow
  <2> QED BY <1>11, <2>1, <2>2, <2>3 DEF DeleteWarehouse, CoveredInv, Outbound
<1> QED
  BY <1>1, <1>2, <1>3, <1>4, <1>5, <1>6, <1>7, <1>8, <1>9, <1>10, <1>11
  DEF Next, Serve, Quiet

(* What is reserved is in stock as long as requests that share a stock row *)
(* do not overlap and no document or adjustment takes stock away: those do *)
(* not look at reservations.  Requests may die, and warehouses go.         *)
THEOREM ReservationsAreStocked ==
  ASSUME Exclusive, OnlyRaised, \A l \in Locations : Covered(OpeningStock[l])
  PROVE  Spec => []ReservedIsStocked
<1>1. Init => CoveredInv
  BY DEF Init, CoveredInv, NoHeader, Idle, Outbound
<1>2. TypeInv /\ NonNegativeInv /\ FreshInv /\ CoveredInv /\ [Next]_vars => CoveredInv'
  BY CoveredNext
<1>3. CoveredInv => ReservedIsStocked
  BY DEF CoveredInv, Covered, ReservedIsStocked
<1> QED BY <1>1, <1>2, <1>3, FreshAlways, PTL DEF Spec

(***************************************************************************)
(* StockTransactions implements AtomicStock.                               *)
(*                                                                         *)
(* A request is worth the stock it has moved so far (Moved); the quantity  *)
(* on hand is the stored one less what all requests have moved.  A step    *)
(* that moves stock changes both by the same amount, so that only the last *)
(* write of a completion can be seen.                                      *)
(***************************************************************************)

\* What a completion has moved so far.
OfSku(lines, sku) == {y \in lines : y.sku = sku}

Total(lines, sku) ==
  SumFunctionOnSet([x \in OfSku(lines, sku) |-> x.baseQty], OfSku(lines, sku))

(* What the given lines add to location l when a header like h moves them. *)
Signed(h, lines, l) ==
  (IF Receiving(h) = l[1] THEN Total(lines, l[2]) ELSE 0)
    - (IF Outbound(h) /\ h.from = l[1] THEN Total(lines, l[2]) ELSE 0)

Moving(r) ==
  r.pc \in {"find", "removing", "credit", "adding", "save"} /\ r.head.status = "COMPLETED"

HalfWay(r) == r.head.type = "STOCK_TRANSFER" /\ r.pc \in {"credit", "adding"}

FirstOf(lines) == {x \in lines : First(x, lines)}

Moved(r, l) ==
  IF ~ Moving(r) THEN 0
  ELSE Signed(r.head, r.head.lines \ r.todo, l)
         - (IF HalfWay(r) /\ r.head.from = l[1] THEN Total(FirstOf(r.todo), l[2]) ELSE 0)

(* A set of lines as the rows have them. *)
Countable(lines) == IsFiniteSet(lines) /\ \A x \in lines : x.baseQty \in Nat

LEMMA TotalType ==
  ASSUME NEW lines, Countable(lines), NEW sku
  PROVE  Total(lines, sku) \in Nat
<1> DEFINE D == OfSku(lines, sku)
           f == [x \in D |-> x.baseQty]
<1>1. IsFiniteSet(D)
  BY FS_Subset DEF OfSku, Countable
<1>2. \A x \in D : f[x] \in Nat
  BY DEF OfSku, Countable
<1> HIDE DEF f, D
<1>3. SumFunctionOnSet(f, D) \in Nat
  BY <1>1, <1>2, SumNat
<1> QED BY <1>3 DEF Total, f, D

LEMMA TotalEmpty ==
  ASSUME NEW sku
  PROVE  Total({}, sku) = 0
<1>1. OfSku({}, sku) = {}
  BY DEF OfSku
<1> QED BY <1>1, SumEmpty DEF Total

LEMMA TotalAdd ==
  ASSUME NEW lines, Countable(lines), NEW x, x \notin lines, x.baseQty \in Nat, NEW sku
  PROVE  Total(lines \cup {x}, sku) =
           Total(lines, sku) + (IF x.sku = sku THEN x.baseQty ELSE 0)
<1> DEFINE D == OfSku(lines, sku)
           E == OfSku(lines \cup {x}, sku)
           f == [y \in D |-> y.baseQty]
           g == [y \in E |-> y.baseQty]
<1>0. Total(lines, sku) \in Nat
  BY TotalType
<1>1. IsFiniteSet(D)
  BY FS_Subset DEF OfSku, Countable
<1>2. CASE x.sku = sku
  <2>1. E = D \cup {x} /\ x \notin D
    BY <1>2 DEF OfSku
  <2>2. /\ \A y \in D \cup {x} : g[y] \in Int
        /\ \A y \in D : g[y] = f[y]
        /\ g[x] = x.baseQty
    BY <2>1 DEF OfSku, Countable
  <2> HIDE DEF f, g, D, E
  <2>3. SumFunctionOnSet(g, D \cup {x}) = g[x] + SumFunctionOnSet(g, D)
    BY <1>1, <2>1, <2>2, SumAdd
  <2>4. SumFunctionOnSet(g, D) = SumFunctionOnSet(f, D)
    BY <1>1, <2>2, SumSame
  <2>5. Total(lines, sku) = SumFunctionOnSet(f, D)
    BY DEF Total, f, D
  <2>6. Total(lines \cup {x}, sku) = SumFunctionOnSet(g, E)
    BY DEF Total, g, E
  <2> QED BY <1>0, <1>2, <2>1, <2>2, <2>3, <2>4, <2>5, <2>6
<1>3. CASE x.sku # sku
  <2>1. E = D
    BY <1>3 DEF OfSku
  <2>2. Total(lines \cup {x}, sku) = Total(lines, sku)
    BY <2>1 DEF Total
  <2> QED BY <1>0, <1>3, <2>2
<1> QED BY <1>2, <1>3

(* The definitions of AtomicStock are those of the rows. *)
LEMMA AtomicSum ==
  ASSUME NEW f
  PROVE  Atomic!SumFunction(f) = SumFunction(f)
<1>1. Atomic!SumFunctionOnSet(f, DOMAIN f) = (CHOOSE g : IsSum(f, DOMAIN f, g))[DOMAIN f]
  BY DEF Atomic!SumFunctionOnSet, Atomic!FoldFunctionOnSet, Atomic!MapThenFoldSet, IsSum, Chosen
<1> QED BY <1>1, SumByDefinition DEF SumFunction, Atomic!SumFunction

LEMMA EffectIsSigned ==
  ASSUME NEW h, NEW l
  PROVE  Effect(h, l) = Signed(h, h.lines, l) /\ Atomic!Effect(h, l) = Signed(h, h.lines, l)
<1> DEFINE f == [x \in {y \in h.lines : y.sku = l[2]} |-> x.baseQty]
<1>1. SumFunction(f) = Total(h.lines, l[2])
  BY DEF SumFunction, Total, OfSku
<1>2. Atomic!Total(h.lines, l[2]) = Atomic!SumFunction(f)
  BY DEF Atomic!Total
<1>3. Effect(h, l) = (IF Receiving(h) = l[1] THEN SumFunction(f) ELSE 0)
                       - (IF Outbound(h) /\ h.from = l[1] THEN SumFunction(f) ELSE 0)
  BY DEF Effect
<1> HIDE DEF f
<1>4. Atomic!Total(h.lines, l[2]) = Total(h.lines, l[2])
  BY <1>1, <1>2, AtomicSum
<1> QED BY <1>1, <1>3, <1>4
        DEF Signed, Atomic!Effect, Atomic!Receiving, Atomic!Outbound, Receiving, Outbound

LEMMA InFlightIsMoved ==
  ASSUME TypeInv, NEW p \in Workers, NEW l \in Locations, Countable(req[p].head.lines),
         Shape(req[p])
  PROVE  InFlight(p, l) = Moved(req[p], l)
<1>1. PICK r : r = req[p]
  OBVIOUS
<1>2. r.head \in Header /\ Shape(r) /\ Countable(r.head.lines)
  BY <1>1 DEF TypeInv, TypeOK, Request
<1>3. PICK full : full = [r.head EXCEPT !.lines = @ \ r.todo]
  OBVIOUS
<1>4. PICK half : half = [r.head EXCEPT !.lines = FirstOf(r.todo), !.to = NoWarehouse]
  OBVIOUS
<1>5. /\ full.type = r.head.type /\ full.from = r.head.from /\ full.to = r.head.to
      /\ full.lines = r.head.lines \ r.todo
  BY <1>2, <1>3 DEF Header
<1>6. /\ half.type = r.head.type /\ half.from = r.head.from /\ half.to = NoWarehouse
      /\ half.lines = FirstOf(r.todo)
  BY <1>2, <1>4 DEF Header
<1>7. Effect(full, l) = Signed(r.head, r.head.lines \ r.todo, l)
  BY <1>5, EffectIsSigned DEF Signed, Receiving, Outbound
<1>8. HalfWay(r) => Effect(half, l) = 0 - (IF r.head.from = l[1] THEN Total(FirstOf(r.todo), l[2]) ELSE 0)
  <2>1. l[1] # NoWarehouse
    BY StockAssumption DEF Locations
  <2> QED BY <1>6, <2>1, EffectIsSigned DEF Signed, Receiving, Outbound, HalfWay
<1>9. Countable(r.head.lines \ r.todo) /\ Countable(FirstOf(r.todo))
  <2>1. r.head.lines \ r.todo \subseteq r.head.lines /\ FirstOf(r.todo) \subseteq r.head.lines
    BY <1>2 DEF FirstOf, Shape
  <2> QED BY <1>2, <2>1, FS_Subset DEF Countable
<1>10. /\ Total(r.head.lines \ r.todo, l[2]) \in Int
       /\ Total(FirstOf(r.todo), l[2]) \in Int
  BY <1>9, TotalType
<1>11. Signed(r.head, r.head.lines \ r.todo, l) \in Int
  BY <1>10 DEF Signed
<1>12. InFlight(p, l) = IF ~ Moving(r) THEN 0
                        ELSE Effect(full, l) + (IF HalfWay(r) THEN Effect(half, l) ELSE 0)
  BY <1>1, <1>3, <1>4 DEF InFlight, Completing, Moving, HalfMoved, HalfWay, FirstOf
<1> QED BY <1>1, <1>7, <1>8, <1>10, <1>11, <1>12 DEF Moved

LEMMA MovedType ==
  ASSUME NEW r, Countable(r.head.lines), Shape(r), NEW l
  PROVE  Moved(r, l) \in Int
<1>1. Countable(r.head.lines \ r.todo) /\ Countable(FirstOf(r.todo))
  <2>1. r.head.lines \ r.todo \subseteq r.head.lines /\ FirstOf(r.todo) \subseteq r.head.lines
    BY DEF FirstOf, Shape
  <2> QED BY <2>1, FS_Subset DEF Countable
<1>2. /\ Total(r.head.lines \ r.todo, l[2]) \in Int
      /\ Total(FirstOf(r.todo), l[2]) \in Int
  BY <1>1, TotalType
<1> QED BY <1>2 DEF Moved, Signed

(* A request moves nothing outside its rows ... *)
LEMMA MovedElsewhere ==
  ASSUME NEW r \in Request, Shape(r), NEW l \in Locations, l \notin RowsOf(r)
  PROVE  Moved(r, l) = 0
<1>1. ASSUME NEW lines, lines \subseteq r.head.lines, l[1] \in {r.head.from, r.head.to}
      PROVE  Total(lines, l[2]) = 0
  <2>1. \A x \in lines : x.sku # l[2]
    <3>1. l = <<l[1], l[2]>>
      BY DEF Locations
    <3> QED BY <1>1, <3>1 DEF RowsOf, RowKey
  <2>2. OfSku(lines, l[2]) = {}
    BY <2>1 DEF OfSku
  <2> QED BY <2>2, SumEmpty DEF Total
<1>2. r.head.lines \ r.todo \subseteq r.head.lines /\ FirstOf(r.todo) \subseteq r.head.lines
  BY DEF FirstOf, Shape
<1>3. Signed(r.head, r.head.lines \ r.todo, l) = 0
  BY <1>1, <1>2 DEF Signed, Receiving
<1>4. r.head.from = l[1] => Total(FirstOf(r.todo), l[2]) = 0
  BY <1>1, <1>2
<1> QED BY <1>3, <1>4 DEF Moved

(* ... and nothing before its first line. *)
LEMMA NothingMoved ==
  ASSUME NEW r, NEW l, r.todo = r.head.lines, ~ HalfWay(r)
  PROVE  Moved(r, l) = 0
<1>1. r.head.lines \ r.todo = {}
  OBVIOUS
<1>2. Signed(r.head, r.head.lines \ r.todo, l) = 0
  BY <1>1, TotalEmpty DEF Signed
<1> QED BY <1>2 DEF Moved

LineSigned(h, x, l) ==
  (IF RowKey(Receiving(h), x) = l THEN x.baseQty ELSE 0)
    - (IF Outbound(h) /\ RowKey(h.from, x) = l THEN x.baseQty ELSE 0)

LEMMA RowOfLine ==
  ASSUME NEW l \in Locations, NEW w, NEW x
  PROVE  RowKey(w, x) = l <=> w = l[1] /\ x.sku = l[2]
<1>1. l = <<l[1], l[2]>>
  BY DEF Locations
<1> QED BY <1>1 DEF RowKey

LEMMA SignedAdd ==
  ASSUME NEW h, NEW lines, Countable(lines), NEW x, x \notin lines, x.baseQty \in Nat,
         NEW l \in Locations
  PROVE  Signed(h, lines \cup {x}, l) = Signed(h, lines, l) + LineSigned(h, x, l)
<1>1. PICK a, b : a = Total(lines, l[2]) /\ b = Total(lines \cup {x}, l[2])
  OBVIOUS
<1>2. a \in Int /\ b = a + (IF x.sku = l[2] THEN x.baseQty ELSE 0)
  BY <1>1, TotalType, TotalAdd
<1>3. /\ RowKey(Receiving(h), x) = l <=> Receiving(h) = l[1] /\ x.sku = l[2]
      /\ RowKey(h.from, x) = l <=> h.from = l[1] /\ x.sku = l[2]
  BY RowOfLine
<1> QED BY <1>1, <1>2, <1>3 DEF Signed, LineSigned

LEMMA FirstIsOne ==
  ASSUME NEW r \in Request, Shape(r), NEW x \in r.todo, First(x, r.todo)
  PROVE  FirstOf(r.todo) = {x}
<1>1. \A k \in r.todo : k.num \in Nat
  BY StockAssumption DEF Request, Line
<1> QED BY <1>1 DEF FirstOf, First, Shape, Numbered

LEMMA TotalOfOne ==
  ASSUME NEW x, x.baseQty \in Nat, NEW sku
  PROVE  Total({x}, sku) = IF x.sku = sku THEN x.baseQty ELSE 0
<1>1. PICK none : none = {}
  OBVIOUS
<1>2. Countable(none) /\ x \notin none /\ none \cup {x} = {x}
  BY <1>1, FS_EmptySet DEF Countable
<1>3. Total(none \cup {x}, sku) = Total(none, sku) + (IF x.sku = sku THEN x.baseQty ELSE 0)
  BY <1>2, TotalAdd
<1> QED BY <1>1, <1>2, <1>3, TotalEmpty

(* The quantity a step adds to a stock row is the one it adds to what the  *)
(* request has moved.                                                      *)
At(k, l, qty) == IF k = l THEN qty ELSE 0

LEMMA LinesMoved ==
  ASSUME NEW r \in Request, Shape(r), Countable(r.head.lines),
         r.pc \in {"removing", "adding"},
         NEW x \in r.todo, First(x, r.todo), NEW l \in Locations
  PROVE  /\ Moved(LineMoved(r, x), l) =
              Signed(r.head, r.head.lines \ r.todo, l) + LineSigned(r.head, x, l)
         /\ Signed(r.head, r.head.lines \ r.todo, l) \in Int
         /\ x.baseQty \in Nat
<1>1. PICK n : n = LineMoved(r, x)
  OBVIOUS
<1>2. n.pc \in {"save", "find"} /\ n.head = r.head /\ n.todo = r.todo \ {x}
  BY <1>1, MovedShape
<1>3. PICK done : done = r.head.lines \ r.todo
  OBVIOUS
<1>4. r.head.lines \ n.todo = done \cup {x} /\ x \notin done
  BY <1>2, <1>3 DEF Shape
<1>5. Countable(done)
  BY <1>3, FS_Subset DEF Countable
<1>6. x.baseQty \in Nat
  BY DEF Countable, Shape
<1>7. Signed(r.head, done \cup {x}, l) = Signed(r.head, done, l) + LineSigned(r.head, x, l)
  BY <1>4, <1>5, <1>6, SignedAdd
<1>8. Moved(n, l) = Signed(r.head, done \cup {x}, l)
  <2>1. r.head.status = "COMPLETED"
    BY DEF Shape
  <2>2. Moving(n) /\ ~ HalfWay(n)
    BY <1>2, <2>1 DEF Moving, HalfWay
  <2>3. Signed(r.head, done \cup {x}, l) \in Int
    <3>1. Countable(done \cup {x})
      BY <1>5, <1>6, FS_AddElement DEF Countable
    <3> QED BY <3>1, TotalType DEF Signed
  <2> QED BY <1>2, <1>4, <2>2, <2>3 DEF Moved
<1>9. Signed(r.head, done, l) \in Int
  BY <1>5, TotalType DEF Signed
<1> QED BY <1>1, <1>3, <1>6, <1>7, <1>8, <1>9

LEMMA AddMoves ==
  ASSUME NEW r \in Request, Shape(r), RequestOK(r), Countable(r.head.lines), r.pc = "adding",
         NEW x \in r.todo, First(x, r.todo), NEW l \in Locations
  PROVE  Moved(LineMoved(r, x), l) =
           Moved(r, l) + At(RowKey(Receiving(r.head), x), l, x.baseQty)
<1>1. PICK s : s = Signed(r.head, r.head.lines \ r.todo, l)
  OBVIOUS
<1>2. /\ Moved(LineMoved(r, x), l) = s + LineSigned(r.head, x, l)
      /\ s \in Int /\ x.baseQty \in Nat
  BY <1>1, LinesMoved
<1>3. Moving(r)
  BY DEF Moving, Shape
<1>4. CASE HalfWay(r)
  <2>1. Total(FirstOf(r.todo), l[2]) = IF x.sku = l[2] THEN x.baseQty ELSE 0
    <3>1. FirstOf(r.todo) = {x}
      BY FirstIsOne
    <3>2. Total({x}, l[2]) = IF x.sku = l[2] THEN x.baseQty ELSE 0
      BY <1>2, TotalOfOne
    <3> QED BY <3>1, <3>2
  <2>2. Moved(r, l) = s - (IF RowKey(r.head.from, x) = l THEN x.baseQty ELSE 0)
    BY <1>1, <1>2, <1>3, <1>4, <2>1, RowOfLine DEF Moved
  <2>3. Outbound(r.head)
    BY <1>4 DEF HalfWay, Outbound
  <2> QED BY <1>2, <2>2, <2>3 DEF LineSigned, At
<1>5. CASE ~ HalfWay(r)
  <2>1. ~ Outbound(r.head)
    BY <1>5 DEF Outbound, HalfWay, Shape
  <2>2. Moved(r, l) = s
    BY <1>1, <1>2, <1>3, <1>5 DEF Moved
  <2> QED BY <1>2, <2>1, <2>2 DEF LineSigned, At
<1> QED BY <1>4, <1>5

LEMMA RemoveMoves ==
  ASSUME NEW r \in Request, Shape(r), RequestOK(r), Countable(r.head.lines), r.pc = "removing",
         NEW x \in r.todo, First(x, r.todo), NEW l \in Locations, NEW n,
         n = IF r.head.type = "STOCK_TRANSFER" THEN [r EXCEPT !.pc = "credit", !.row = NoRow]
             ELSE LineMoved(r, x)
  PROVE  Moved(n, l) = Moved(r, l) - At(RowKey(r.head.from, x), l, x.baseQty)
<1>1. PICK s : s = Signed(r.head, r.head.lines \ r.todo, l)
  OBVIOUS
<1>2. /\ Moved(LineMoved(r, x), l) = s + LineSigned(r.head, x, l)
      /\ s \in Int /\ x.baseQty \in Nat
  BY <1>1, LinesMoved
<1>3. Moving(r) /\ ~ HalfWay(r) /\ Outbound(r.head)
  BY DEF Moving, HalfWay, Shape
<1>4. Moved(r, l) = s
  BY <1>1, <1>2, <1>3 DEF Moved
<1>5. CASE r.head.type = "STOCK_TRANSFER"
  <2>1. /\ n.pc = "credit" /\ n.head = r.head /\ n.todo = r.todo
    BY <1>5 DEF Request
  <2>2. Moving(n) /\ HalfWay(n)
    BY <1>3, <1>5, <2>1 DEF Moving, HalfWay
  <2>3. Total(FirstOf(r.todo), l[2]) = IF x.sku = l[2] THEN x.baseQty ELSE 0
    <3>1. FirstOf(r.todo) = {x}
      BY FirstIsOne
    <3>2. Total({x}, l[2]) = IF x.sku = l[2] THEN x.baseQty ELSE 0
      BY <1>2, TotalOfOne
    <3> QED BY <3>1, <3>2
  <2>4. Signed(n.head, n.head.lines \ n.todo, l) = s
    BY <1>1, <2>1
  <2>5. Total(FirstOf(n.todo), l[2]) = IF x.sku = l[2] THEN x.baseQty ELSE 0
    BY <2>1, <2>3
  <2>6. RowKey(r.head.from, x) = l <=> r.head.from = l[1] /\ x.sku = l[2]
    BY RowOfLine
  <2>7. Moved(n, l) = s - (IF RowKey(r.head.from, x) = l THEN x.baseQty ELSE 0)
    BY <1>2, <2>1, <2>2, <2>4, <2>5, <2>6 DEF Moved
  <2> QED BY <1>4, <2>7 DEF At
<1>6. CASE r.head.type # "STOCK_TRANSFER"
  <2>1. r.head.type = "GOODS_ISSUE" /\ r.head.to = NoWarehouse
    BY <1>3, <1>6 DEF Outbound, RequestOK, WarehousesFitType
  <2>2. RowKey(Receiving(r.head), x) # l
    BY <2>1, RowOfLine, StockAssumption DEF Receiving, Locations
  <2> QED BY <1>2, <1>3, <1>4, <1>6, <2>2 DEF LineSigned, At
<1> QED BY <1>5, <1>6

--------------------------------------------------------------------------------
(***************************************************************************)
(* The conditions under which the rows keep the promise: requests that     *)
(* share a transaction or a row do not overlap, none is cut short, the     *)
(* warehouses and their rows stay and no endpoint but those of             *)
(* transactions changes them; and of an issue or a transfer only the first *)
(* line moves anything, so that it cannot be refused halfway.              *)
(***************************************************************************)
Leading(h) ==
  Outbound(h) =>
    \A l \in h.lines : l.baseQty > 0 =>
      First(l, h.lines) /\ \A e \in ExtraLines : l.num < e.num

Promised ==
  /\ Exclusive
  /\ ~ Faults
  /\ Deletable = {} /\ Amounts = {} /\ Adjustments = {}
  /\ \A l \in Locations : OpeningStock[l].exists
  /\ \A d \in Documents : Leading(d)

HeaderFit(h) ==
  IsFiniteSet(h.lines) /\ Leading(h) /\ (h.status = "NONE" => h = NoHeader)

(* Lines get ids that AddedLines has. *)
IdFits(h, d, n) == d.lastId <= h.lastId /\ h.lastId - d.lastId <= n

IdsFit(t) ==
  header[t].status = "DRAFT" =>
    \E d \in Documents :
      /\ IdFits(header[t], d, issued)
      /\ \A p \in Workers : req[p].trans = t /\ req[p].add # {} =>
                              header[t].lastId - d.lastId < issued

SaveFit(r) ==
  /\ r.todo = {}
  /\ \/ /\ r.head.status = "COMPLETED" /\ r.head.lines # {} /\ r.add = {} /\ r.drop = {}
     \/ r.head.status = "CANCELLED" /\ r.add = {} /\ r.drop = {}
     \/ r.head.status = "DRAFT" /\ r.add = {} /\ r.drop = {}
     \/ /\ r.head.status = "DRAFT" /\ r.drop = {}
        /\ \E line \in ExtraLines : r.add = {line}
     \/ /\ r.head.status = "DRAFT" /\ r.add = {}
        /\ \E line \in r.head.lines : r.drop = {line}

(* A request holds the header as it is stored. *)
Held(r) ==
  /\ r.pc \in {"idle", "find", "removing", "credit", "adding", "save", "delete"}
  /\ IsFiniteSet(r.head.lines)
  /\ r.pc \in {"find", "removing", "credit", "adding", "save"} => HeadOf(r, header[r.trans])
  /\ r.pc \in {"idle", "find", "removing", "credit", "adding", "delete"} => r.add = {} /\ r.drop = {}
  /\ r.pc = "save" => SaveFit(r)

RowInv ==
  /\ warehouses = Warehouses
  /\ \A l \in Locations : stock[l].exists
  /\ \A t \in TransIds : HeaderFit(header[t]) /\ IdsFit(t)
  /\ issued <= MaxRequests
  /\ \A p \in Workers : Held(req[p])

LEMMA IdleHeld == Held(Idle) /\ Held(Idle)'
  BY FS_EmptySet DEF Held, Idle, NoHeader

(* The transaction of a request that holds a header. *)
LEMMA HeldTrans ==
  ASSUME TypeInv, NEW p \in Workers,
         req[p].pc \in {"find", "removing", "credit", "adding", "save", "delete"}
  PROVE  req[p].trans \in TransIds
  BY DEF TypeInv, RequestsOK, RequestOK

(* A step of one request that leaves the headers alone. *)
LEMMA RowStep ==
  ASSUME TypeInv, RowInv, NEW p \in Workers, NEW n, req' = [req EXCEPT ![p] = n],
         header' = header, warehouses' = warehouses,
         \A l \in Locations : stock'[l].exists,
         issued' \in {issued, issued + 1}, issued' <= MaxRequests,
         Held(n), n.add # {} => issued' = issued + 1
  PROVE  RowInv'
<1>1. req'[p] = n /\ \A q \in Workers : q # p => req'[q] = req[q]
  BY DEF TypeInv, TypeOK
<1>2. \A q \in Workers : Held(req[q])'
  BY <1>1 DEF RowInv, Held
<1>3. ASSUME NEW t \in TransIds, header[t].status = "DRAFT"
      PROVE  IdsFit(t)'
  <2>1. PICK d \in Documents :
          /\ IdFits(header[t], d, issued)
          /\ \A q \in Workers : req[q].trans = t /\ req[q].add # {} =>
                                  header[t].lastId - d.lastId < issued
    BY <1>3 DEF RowInv, IdsFit
  <2>2. header[t].lastId \in Int /\ d.lastId \in Int /\ issued \in Int
    BY StockAssumption DEF TypeInv, TypeOK, Header
  <2>3. IdFits(header[t], d, issued')
    BY <2>1, <2>2 DEF IdFits
  <2>4. ASSUME NEW q \in Workers, req'[q].trans = t, req'[q].add # {}
        PROVE  header[t].lastId - d.lastId < issued'
    <3>1. CASE q = p
      BY <1>1, <2>1, <2>2, <2>4, <3>1 DEF IdFits
    <3>2. CASE q # p
      BY <1>1, <2>1, <2>2, <2>4, <3>2
    <3> QED BY <3>1, <3>2
  <2>5. header'[t] = header[t]
    OBVIOUS
  <2> QED BY <2>3, <2>4, <2>5 DEF IdsFit
<1>4. \A t \in TransIds : IdsFit(t)'
  BY <1>3 DEF IdsFit
<1> QED BY <1>2, <1>4 DEF RowInv

LEMMA RowAnswer ==
  ASSUME TypeInv, RowInv, NEW p \in Workers, Answer(p), UNCHANGED <<warehouses, header, stock>>
  PROVE  RowInv'
<1>1. Idle.add = {} /\ Held(Idle)
  BY IdleHeld DEF Idle
<1>2. \A l \in Locations : stock'[l].exists
  BY DEF RowInv
<1>3. issued' = issued /\ issued <= MaxRequests
  BY DEF Answer, RowInv
<1> QED BY <1>1, <1>2, <1>3, RowStep DEF Answer

LEMMA RowRequests ==
  ASSUME Promised, TypeInv, RowInv, NEW p \in Workers, TransactionRequest(p)
  PROVE  RowInv'
<1>1. PICK r \in Request : LoadedDraft(p, r)
  BY TransactionRequestLoads
<1>2. PICK h : h = header[r.trans]
  OBVIOUS
<1>3. FromHeader(r, h) /\ IsFiniteSet(h.lines)
  BY <1>1, <1>2 DEF LoadedDraft, RowInv, HeaderFit
<1>4. Held(r)
  <2>1. CASE r.pc = "delete"
    BY <1>3, <2>1, FS_EmptySet DEF FromHeader, Held, NoHeader
  <2>2. CASE r.pc = "find"
    BY <1>2, <1>3, <2>2 DEF FromHeader, Held, HeadOf
  <2>3. CASE r.pc = "save"
    <3>1. SaveFit(r)
      BY <1>3, <2>3 DEF FromHeader, HeadOf, SaveFit
    <3> QED BY <1>2, <1>3, <2>3, <3>1 DEF FromHeader, Held, HeadOf
  <2> QED BY <1>3, <2>1, <2>2, <2>3 DEF FromHeader
<1>5. /\ req' = [req EXCEPT ![p] = r] /\ UNCHANGED <<warehouses, header, stock>>
      /\ issued' = issued + 1 /\ issued < MaxRequests
  BY <1>1 DEF LoadedDraft, Accept
<1>6. issued' <= MaxRequests
  BY <1>5, StockAssumption DEF TypeInv, TypeOK
<1>7. \A l \in Locations : stock'[l].exists
  BY <1>5 DEF RowInv
<1> QED BY <1>4, <1>5, <1>6, <1>7, RowStep

LEMMA RowMoving ==
  ASSUME TypeInv, FreshInv, RowInv, NEW p \in Workers,
         \/ FindStock(p) \/ FindDestination(p) \/ RemoveStock(p) \/ AddStock(p)
  PROVE  RowInv'
<1>1. PICK r : r = req[p]
  OBVIOUS
<1>2. r \in Request /\ Held(r) /\ Shape(r) /\ req \in [Workers -> Request]
  BY <1>1 DEF TypeInv, TypeOK, RowInv, FreshInv
<1>3. /\ header' = header /\ warehouses' = warehouses /\ issued' = issued
      /\ issued <= MaxRequests
  BY DEF FindStock, FindDestination, RemoveStock, AddStock, RowInv
<1>4. ASSUME NEW pc \in {"removing", "credit", "adding"}, NEW row, NEW n,
             n = [r EXCEPT !.pc = pc, !.row = row],
             r.pc \in {"find", "credit", "removing"},
             req' = [req EXCEPT ![p] = n],
             \A l \in Locations : stock'[l].exists
      PROVE  RowInv'
  <2>1. /\ n.pc = pc /\ n.head = r.head /\ n.trans = r.trans /\ n.add = r.add
        /\ n.drop = r.drop
    BY <1>2, <1>4 DEF Request
  <2>2. Held(n) /\ n.add = {}
    BY <1>2, <1>4, <2>1 DEF Held, HeadOf
  <2> QED BY <1>3, <1>4, <2>2, RowStep
<1>5. CASE FindStock(p) \/ FindDestination(p)
  <2>1. \A l \in Locations : stock'[l].exists
    BY <1>5 DEF FindStock, FindDestination, RowInv
  <2>2. \E pc \in {"removing", "adding"} : \E row : req' = [req EXCEPT ![p].pc = pc, ![p].row = row]
    BY <1>5 DEF FindStock, FindDestination
  <2>3. PICK pc \in {"removing", "adding"} : \E row : req' = [req EXCEPT ![p].pc = pc, ![p].row = row]
    BY <2>2
  <2>4. PICK row : req' = [req EXCEPT ![p].pc = pc, ![p].row = row]
    BY <2>3
  <2>5. PICK n : n = [r EXCEPT !.pc = pc, !.row = row]
    OBVIOUS
  <2>6. req' = [req EXCEPT ![p] = n]
    BY <1>1, <1>2, <2>4, <2>5
  <2>7. r.pc \in {"find", "credit"}
    BY <1>1, <1>5 DEF FindStock, FindDestination
  <2> QED BY <1>4, <2>1, <2>5, <2>6, <2>7
<1>6. ASSUME NEW l \in r.todo, First(l, r.todo), r.pc \in {"removing", "adding"},
             req' = [req EXCEPT ![p] = LineMoved(r, l)],
             \A k \in Locations : stock'[k].exists
      PROVE  RowInv'
  <2>1. PICK n : n = LineMoved(r, l)
    OBVIOUS
  <2>2. /\ n.pc \in {"save", "find"} /\ n.head = r.head /\ n.trans = r.trans
        /\ n.add = r.add /\ n.drop = r.drop /\ n.todo = r.todo \ {l}
        /\ n.pc = "find" <=> r.todo \ {l} # {}
    BY <1>2, <1>6, <2>1, MovedShape
  <2>3. SaveFit(n) \/ n.pc = "find"
    BY <1>2, <1>6, <2>2 DEF SaveFit, Held, Shape
  <2>4. Held(n) /\ n.add = {}
    BY <1>2, <1>6, <2>2, <2>3 DEF Held, HeadOf
  <2> QED BY <1>3, <1>6, <2>1, <2>4, RowStep
<1>7. CASE RemoveStock(p)
  <2>1. PICK l \in r.todo :
          /\ First(l, r.todo)
          /\ stock' = [stock EXCEPT ![RowKey(r.head.from, l)].quantity =
                                      r.row.quantity - l.baseQty]
          /\ req' = [req EXCEPT ![p] =
                       IF r.head.type = "STOCK_TRANSFER"
                       THEN [r EXCEPT !.pc = "credit", !.row = NoRow]
                       ELSE LineMoved(r, l)]
    BY <1>1, <1>7 DEF RemoveStock
  <2>2. \A k \in Locations : stock'[k].exists
    BY <2>1 DEF TypeInv, TypeOK, StockRow, RowInv
  <2>3. r.pc = "removing"
    BY <1>1, <1>7 DEF RemoveStock
  <2>4. PICK n : n = [r EXCEPT !.pc = "credit", !.row = NoRow]
    OBVIOUS
  <2> QED BY <1>4, <1>6, <2>1, <2>2, <2>3, <2>4
<1>8. CASE AddStock(p)
  <2>1. PICK l \in r.todo :
          /\ First(l, r.todo)
          /\ stock' = [stock EXCEPT ![RowKey(Receiving(r.head), l)] =
                          [exists |-> TRUE,
                           quantity |-> r.row.quantity + l.baseQty,
                           reservedQty |-> stock[RowKey(Receiving(r.head), l)].reservedQty]]
          /\ req' = [req EXCEPT ![p] = LineMoved(r, l)]
    BY <1>1, <1>8 DEF AddStock
  <2>2. \A k \in Locations : stock'[k].exists
    BY <2>1 DEF TypeInv, TypeOK, StockRow, RowInv
  <2>3. r.pc = "adding"
    BY <1>1, <1>8 DEF AddStock
  <2> QED BY <1>6, <2>1, <2>2, <2>3
<1> QED BY <1>5, <1>7, <1>8

(* What a save makes of the header it loaded. *)
NewLine(old, e) ==
  [id |-> old.lastId + 1, num |-> e.num, sku |-> e.sku, baseQty |-> 0]

SavedFrom(old, h) ==
  /\ h \in Header /\ old.status = "DRAFT"
  /\ h.type = old.type /\ h.from = old.from /\ h.to = old.to
  /\ \/ h.status = "COMPLETED" /\ h.lines = old.lines /\ h.lastId = old.lastId /\ h.lines # {}
     \/ h.status = "CANCELLED" /\ h.lines = old.lines /\ h.lastId = old.lastId
     \/ h.status = "DRAFT" /\ h.lines = old.lines /\ h.lastId = old.lastId
     \/ /\ h.status = "DRAFT" /\ h.lastId = old.lastId
        /\ \E line \in old.lines : h.lines = old.lines \ {line}
     \/ /\ h.status = "DRAFT" /\ h.lastId = old.lastId + 1
        /\ \E e \in ExtraLines : h.lines = old.lines \cup {NewLine(old, e)}

LEMMA SavedHeader ==
  ASSUME TypeInv, DraftInv, RowInv, NEW p \in Workers, Save(p)
  PROVE  \E h : /\ SavedFrom(header[req[p].trans], h)
                /\ h.status = req[p].head.status
                /\ h.lastId # header[req[p].trans].lastId => req[p].add # {}
                /\ header' = [header EXCEPT ![req[p].trans] = h]
                /\ req[p].trans \in TransIds
<1>1. PICK r, t : r = req[p] /\ t = req[p].trans
  OBVIOUS
<1>2. PICK old : old = header[t]
  OBVIOUS
<1>3. /\ r \in Request /\ t \in TransIds /\ old \in Header /\ r.head \in Header
      /\ r.pc = "save" /\ old.status = "DRAFT"
  BY <1>1, <1>2, HeldTrans DEF Save, TypeInv, TypeOK, Request, DraftInv
<1>4. SaveFit(r) /\ HeadOf(r, old)
  BY <1>1, <1>2, <1>3 DEF RowInv, Held
<1>5. PICK lastId : lastId = old.lastId + (IF r.add = {} THEN 0 ELSE 1)
  OBVIOUS
<1>6. PICK new : new = {[id |-> lastId, num |-> a.num, sku |-> a.sku, baseQty |-> 0] : a \in r.add}
  OBVIOUS
<1>7. PICK lines : lines = (old.lines \ r.drop) \cup new
  OBVIOUS
<1>8. PICK h : h = [r.head EXCEPT !.lines = lines, !.lastId = lastId]
  OBVIOUS
<1>9. header' = [header EXCEPT ![t] = h]
  BY <1>1, <1>2, <1>5, <1>6, <1>7, <1>8 DEF Save, Kept
<1>10. TypeInv'
  BY AnsweringOK
<1>11. h \in Header
  BY <1>3, <1>9, <1>10 DEF TypeInv, TypeOK
<1>12. /\ h.type = old.type /\ h.from = old.from /\ h.to = old.to
       /\ h.status = r.head.status /\ h.lines = lines /\ h.lastId = lastId
  BY <1>3, <1>4, <1>8 DEF HeadOf, Header
<1>13. r.add = {} => lastId = old.lastId /\ lines = old.lines \ r.drop
  BY <1>3, <1>5, <1>6, <1>7 DEF Header
<1>14. r.head.lines = old.lines
  BY <1>4 DEF HeadOf
<1>15. SavedFrom(old, h)
  <2>1. CASE r.add = {} /\ r.drop = {}
    <3>1. h.lines = old.lines /\ h.lastId = old.lastId
      BY <1>12, <1>13, <2>1
    <3> QED BY <1>3, <1>4, <1>11, <1>12, <1>14, <2>1, <3>1 DEF SavedFrom, SaveFit
  <2>2. CASE r.add = {} /\ \E line \in r.head.lines : r.drop = {line}
    <3>1. PICK line \in old.lines : r.drop = {line}
      BY <1>14, <2>2
    <3>2. h.lines = old.lines \ {line} /\ h.lastId = old.lastId /\ h.status = "DRAFT"
      BY <1>4, <1>12, <1>13, <2>2, <3>1 DEF SaveFit
    <3> QED BY <1>3, <1>11, <1>12, <3>2 DEF SavedFrom
  <2>3. CASE r.drop = {} /\ \E line \in ExtraLines : r.add = {line}
    <3>1. PICK e \in ExtraLines : r.add = {e}
      BY <2>3
    <3>2. lastId = old.lastId + 1
      BY <1>5, <3>1
    <3>3. new = {NewLine(old, e)}
      BY <1>6, <3>1, <3>2 DEF NewLine
    <3>4. h.lines = old.lines \cup {NewLine(old, e)} /\ h.status = "DRAFT"
      BY <1>4, <1>7, <1>12, <2>3, <3>1, <3>3 DEF SaveFit
    <3> QED BY <1>3, <1>11, <1>12, <3>2, <3>4 DEF SavedFrom
  <2> QED BY <1>4, <2>1, <2>2, <2>3 DEF SaveFit
<1> QED BY <1>1, <1>2, <1>3, <1>9, <1>12, <1>13, <1>15

LEMMA SavedFit ==
  ASSUME NEW old \in Header, NEW h, SavedFrom(old, h), HeaderFit(old)
  PROVE  HeaderFit(h)
<1>n. /\ \A l \in old.lines : l.num \in Int /\ l.baseQty \in Int
      /\ \A e \in ExtraLines : e.num \in Int
  <2>1. old.lines \subseteq Line
    BY DEF Header
  <2>2. \A n \in LineNums : n \in Int
    BY StockAssumption
  <2>3. \A l \in old.lines : l.num \in LineNums /\ l.baseQty \in Nat
    BY <2>1 DEF Line
  <2>4. \A e \in ExtraLines : e.num \in LineNums
    BY StockAssumption DEF ExtraLine
  <2> QED BY <2>2, <2>3, <2>4
<1>1. h.status # "NONE"
  BY DEF SavedFrom
<1>2. Outbound(h) <=> Outbound(old)
  BY DEF SavedFrom, Outbound
<1>3. CASE h.lines = old.lines
  BY <1>1, <1>2, <1>3 DEF HeaderFit, Leading
<1>4. CASE \E line \in old.lines : h.lines = old.lines \ {line}
  <2>1. h.lines \subseteq old.lines
    BY <1>4
  <2>2. IsFiniteSet(h.lines)
    BY <2>1, FS_Subset DEF HeaderFit
  <2>3. Leading(h)
    BY <1>2, <2>1 DEF HeaderFit, Leading, First
  <2> QED BY <1>1, <2>2, <2>3 DEF HeaderFit
<1>5. CASE \E e \in ExtraLines : h.lines = old.lines \cup {NewLine(old, e)}
  <2>1. PICK e \in ExtraLines : h.lines = old.lines \cup {NewLine(old, e)}
    BY <1>5
  <2>2. PICK new : new = NewLine(old, e)
    OBVIOUS
  <2>3. new.num = e.num /\ new.baseQty = 0
    BY <2>2 DEF NewLine
  <2>4. IsFiniteSet(h.lines)
    BY <2>1, FS_AddElement DEF HeaderFit
  <2>5. ASSUME Outbound(h), NEW l \in h.lines, l.baseQty > 0
        PROVE  First(l, h.lines) /\ \A f \in ExtraLines : l.num < f.num
    <3>1. l \in old.lines
      BY <2>1, <2>2, <2>3, <2>5
    <3>2. First(l, old.lines) /\ \A f \in ExtraLines : l.num < f.num
      BY <1>2, <2>5, <3>1 DEF HeaderFit, Leading
    <3>3. l.num <= new.num
      BY <1>n, <2>3, <3>1, <3>2
    <3> QED BY <2>1, <2>2, <3>1, <3>2, <3>3 DEF First
  <2> QED BY <1>1, <2>4, <2>5 DEF HeaderFit, Leading
<1> QED BY <1>3, <1>4, <1>5 DEF SavedFrom

(* A step that changes the header of a request and answers it. *)
LEMMA RowHeader ==
  ASSUME TypeInv, DraftInv, RowInv, NEW p \in Workers, Answer(p), UNCHANGED <<warehouses, stock>>,
         NEW t \in TransIds, t = req[p].trans, NEW h, header' = [header EXCEPT ![t] = h],
         HeaderFit(h), h.status = "DRAFT" => \E d \in Documents : IdFits(h, d, issued)
  PROVE  RowInv'
<1>1. /\ req'[p] = Idle /\ \A q \in Workers : q # p => req'[q] = req[q]
      /\ header'[t] = h /\ \A u \in TransIds : u # t => header'[u] = header[u]
      /\ issued' = issued
  BY DEF Answer, TypeInv, TypeOK
<1>2. Idle.trans # t /\ Idle.add = {}
  BY StockAssumption DEF Idle
<1>3. \A q \in Workers : q # p => req[q].trans # t
  BY DEF DraftInv
<1>4. ASSUME NEW q \in Workers
      PROVE  Held(req[q])'
  <2>1. CASE q = p
    BY <1>1, <2>1, IdleHeld
  <2>2. CASE q # p
    <3>1. PICK r : r = req[q]
      OBVIOUS
    <3>2. Held(r) /\ r.trans # t
      BY <1>3, <2>2, <3>1 DEF RowInv
    <3>3. r.pc \in {"find", "removing", "credit", "adding", "save"} => r.trans \in TransIds
      BY <3>1, HeldTrans
    <3>4. Held(r)'
      BY <1>1, <3>2, <3>3 DEF Held
    <3> QED BY <1>1, <2>2, <3>1, <3>4
  <2> QED BY <2>1, <2>2
<1>5. ASSUME NEW u \in TransIds
      PROVE  IdsFit(u)'
  <2>1. CASE u = t
    <3>1. \A q \in Workers : req'[q].trans # t
      BY <1>1, <1>2, <1>3
    <3> QED BY <1>1, <2>1, <3>1 DEF IdsFit
  <2>2. CASE u # t
    <3>1. \A q \in Workers : req'[q].trans = u /\ req'[q].add # {} =>
                               req[q].trans = u /\ req[q].add # {}
      BY <1>1, <1>2
    <3>2. IdsFit(u)
      BY DEF RowInv
    <3> QED BY <1>1, <2>2, <3>1, <3>2 DEF IdsFit
  <2> QED BY <2>1, <2>2
<1>6. \A u \in TransIds : HeaderFit(header'[u])
  BY <1>1 DEF RowInv
<1> QED BY <1>1, <1>4, <1>5, <1>6 DEF RowInv

LEMMA RowNext ==
  ASSUME Promised, TypeInv, DraftInv, FreshInv, RowInv, [Next]_vars
  PROVE  RowInv'
<1>1. CASE UNCHANGED vars
  BY <1>1 DEF vars, RowInv, Held, IdsFit
<1>2. ASSUME NEW p \in Workers, TransactionRequest(p)
      PROVE  RowInv'
  BY <1>2, RowRequests
<1>3. ASSUME NEW p \in Workers, InventoryRequest(p)
      PROVE  RowInv'
  BY <1>3 DEF InventoryRequest, Promised
<1>4. ASSUME NEW p \in Workers,
             \/ FindStock(p) \/ FindDestination(p) \/ RemoveStock(p) \/ AddStock(p)
      PROVE  RowInv'
  BY <1>4, RowMoving
<1>5. ASSUME NEW p \in Workers,
             \/ RemoveStockFails(p) \/ AddStockFails(p) \/ SaveFails(p)
             \/ RowWriteFails(p) \/ Abort(p)
      PROVE  RowInv'
  <2>1. Answer(p) /\ UNCHANGED <<warehouses, header, stock>>
    BY <1>5 DEF RemoveStockFails, AddStockFails, SaveFails, RowWriteFails, Abort
  <2> QED BY <2>1, RowAnswer
<1>6. ASSUME NEW p \in Workers, SaveRow(p) \/ InsertRow(p)
      PROVE  RowInv'
  BY <1>6 DEF SaveRow, InsertRow, RowInv, Held
<1>7. ASSUME NEW p \in Workers, Save(p)
      PROVE  RowInv'
  <2>1. PICK t, old : t = req[p].trans /\ old = header[t]
    OBVIOUS
  <2>2. PICK h : /\ SavedFrom(old, h)
                 /\ h.lastId # old.lastId => req[p].add # {}
                 /\ header' = [header EXCEPT ![t] = h]
                 /\ t \in TransIds
    BY <1>7, <2>1, SavedHeader
  <2>3. old \in Header /\ HeaderFit(old) /\ IdsFit(t) /\ old.status = "DRAFT"
    BY <2>1, <2>2 DEF RowInv, TypeInv, TypeOK, SavedFrom
  <2>4. HeaderFit(h)
    BY <2>2, <2>3, SavedFit
  <2>5. PICK d \in Documents :
          /\ IdFits(old, d, issued)
          /\ req[p].add # {} => old.lastId - d.lastId < issued
    BY <2>1, <2>3 DEF IdsFit
  <2>6. IdFits(h, d, issued)
    <3>1. d.lastId \in Int /\ old.lastId \in Int /\ issued \in Int
      BY <2>3, StockAssumption DEF Header, TypeInv, TypeOK
    <3>2. h.lastId = old.lastId \/ (h.lastId = old.lastId + 1)
      BY <2>2 DEF SavedFrom
    <3> QED BY <2>2, <2>5, <3>1, <3>2 DEF IdFits
  <2> QED BY <1>7, <2>1, <2>2, <2>4, <2>6, RowHeader DEF Save
<1>8. ASSUME NEW p \in Workers, Delete(p)
      PROVE  RowInv'
  <2>1. PICK h : h = [NoHeader EXCEPT !.status = "DELETED"]
    OBVIOUS
  <2>2. h.status = "DELETED" /\ h.lines = {} /\ h.type = "NONE"
    BY <2>1 DEF NoHeader
  <2>3. HeaderFit(h)
    BY <2>2, FS_EmptySet DEF HeaderFit, Leading, Outbound
  <2>4. req[p].trans \in TransIds
    BY <1>8, HeldTrans DEF Delete
  <2> QED BY <1>8, <2>1, <2>2, <2>3, <2>4, RowHeader DEF Delete
<1>9. ASSUME NEW t \in TransIds, NEW doc \in Documents, Create(t, doc)
      PROVE  RowInv'
  <2>1. PICK h : h = [doc EXCEPT !.status = "DRAFT"]
    OBVIOUS
  <2>2. /\ doc \in Header /\ IsFiniteSet(doc.lines) /\ Leading(doc)
    BY StockAssumption DEF Promised
  <2>3. h.lines = doc.lines /\ h.type = doc.type /\ h.status = "DRAFT" /\ h.lastId = doc.lastId
    BY <2>1, <2>2 DEF Header
  <2>4. HeaderFit(h)
    BY <2>2, <2>3 DEF HeaderFit, Leading, Outbound
  <2>5. /\ header'[t] = h /\ \A u \in TransIds : u # t => header'[u] = header[u]
        /\ req' = req /\ issued' = issued + 1 /\ issued < MaxRequests
        /\ warehouses' = warehouses /\ stock' = stock /\ header[t].status = "NONE"
    BY <1>9, <2>1 DEF Create, TypeInv, TypeOK
  <2>6. \A q \in Workers : req[q].trans # t
    BY <2>5 DEF DraftInv
  <2>7. issued \in Int /\ MaxRequests \in Int /\ doc.lastId \in Int /\ issued >= 0
    BY <2>2, StockAssumption DEF TypeInv, TypeOK, Header
  <2>8. ASSUME NEW u \in TransIds
        PROVE  IdsFit(u)'
    <3>1. CASE u = t
      <4>1. IdFits(h, doc, issued')
        BY <2>3, <2>5, <2>7 DEF IdFits
      <4>2. \A q \in Workers : req'[q].trans # t
        BY <2>5, <2>6
      <4> QED BY <2>5, <3>1, <4>1, <4>2 DEF IdsFit
    <3>2. CASE u # t
      <4>1. SUFFICES ASSUME header[u].status = "DRAFT" PROVE IdsFit(u)'
        BY <2>5, <3>2 DEF IdsFit
      <4>2. PICK d \in Documents :
              /\ IdFits(header[u], d, issued)
              /\ \A q \in Workers : req[q].trans = u /\ req[q].add # {} =>
                                      header[u].lastId - d.lastId < issued
        BY <4>1 DEF RowInv, IdsFit
      <4>3. header[u].lastId \in Int /\ d.lastId \in Int
        BY StockAssumption DEF TypeInv, TypeOK, Header
      <4>4. IdFits(header[u], d, issued')
        BY <2>5, <2>7, <4>2, <4>3 DEF IdFits
      <4>5. \A q \in Workers : req'[q].trans = u /\ req'[q].add # {} =>
                                 header[u].lastId - d.lastId < issued'
        BY <2>5, <2>7, <4>2, <4>3
      <4> QED BY <2>5, <3>2, <4>4, <4>5 DEF IdsFit
    <3> QED BY <3>1, <3>2
  <2>9. \A q \in Workers : Held(req[q])'
    <3>1. ASSUME NEW q \in Workers
          PROVE  Held(req[q])'
      <4>1. PICK r : r = req[q]
        OBVIOUS
      <4>2. Held(r) /\ r.trans # t
        BY <2>6, <4>1 DEF RowInv
      <4>3. r.pc \in {"find", "removing", "credit", "adding", "save"} => r.trans \in TransIds
        BY <4>1, HeldTrans
      <4>4. Held(r)'
        BY <2>5, <4>2, <4>3 DEF Held
      <4> QED BY <2>5, <4>1, <4>4
    <3> QED BY <3>1
  <2>10. \A u \in TransIds : HeaderFit(header'[u])
    BY <2>4, <2>5 DEF RowInv
  <2> QED BY <2>5, <2>7, <2>8, <2>9, <2>10 DEF RowInv
<1>10. ASSUME NEW w \in Deletable, DeleteWarehouse(w)
       PROVE  RowInv'
  BY <1>10 DEF Promised
<1> QED
  BY <1>1, <1>2, <1>3, <1>4, <1>5, <1>6, <1>7, <1>8, <1>9, <1>10 DEF Next, Serve, Quiet

LEMMA RowInit == Promised /\ Init => RowInv
<1> SUFFICES ASSUME Promised, Init PROVE RowInv
  OBVIOUS
<1>1. HeaderFit(NoHeader)
  BY FS_EmptySet DEF HeaderFit, NoHeader, Leading, Outbound
<1>2. \A t \in TransIds : header[t] = NoHeader /\ IdsFit(t)
  BY DEF Init, IdsFit, NoHeader
<1>3. \A p \in Workers : Held(req[p])
  BY IdleHeld DEF Init
<1> QED BY <1>1, <1>2, <1>3, StockAssumption DEF Init, Promised, RowInv

--------------------------------------------------------------------------------
(***************************************************************************)
(* Every step is one of AtomicStock or changes nothing it can see.         *)
(***************************************************************************)
Doc == [t \in TransIds |-> [header[t] EXCEPT !.lastId = 0]]

Flights(l) == SumFunctionOnSet([p \in Workers |-> Moved(req[p], l)], Workers)

Known == TypeInv /\ NonNegativeInv /\ DraftInv /\ FreshInv /\ RowInv

LEMMA HeldLines ==
  ASSUME Known, NEW p \in Workers
  PROVE  Countable(req[p].head.lines) /\ Shape(req[p]) /\ req[p] \in Request
<1>1. req[p] \in Request /\ Shape(req[p]) /\ IsFiniteSet(req[p].head.lines)
  BY DEF Known, TypeInv, TypeOK, FreshInv, RowInv, Held
<1>2. \A x \in req[p].head.lines : x.baseQty \in Nat
  BY <1>1 DEF Request, Header, Line
<1> QED BY <1>1, <1>2 DEF Countable

LEMMA OnHandIs ==
  Known => \A l \in Locations :
             /\ OnHand[l] = stock[l].quantity - Flights(l)
             /\ Flights(l) \in Int /\ stock[l].quantity \in Int
             /\ \A p \in Workers : Moved(req[p], l) \in Int
<1> SUFFICES ASSUME Known, NEW l \in Locations
             PROVE  /\ OnHand[l] = stock[l].quantity - Flights(l)
                    /\ Flights(l) \in Int /\ stock[l].quantity \in Int
                    /\ \A p \in Workers : Moved(req[p], l) \in Int
  OBVIOUS
<1> DEFINE f == [p \in Workers |-> InFlight(p, l)]
           g == [p \in Workers |-> Moved(req[p], l)]
<1>1. \A p \in Workers : InFlight(p, l) = Moved(req[p], l)
  BY HeldLines, InFlightIsMoved DEF Known
<1>2. \A p \in Workers : Moved(req[p], l) \in Int
  BY HeldLines, MovedType
<1>3. IsFiniteSet(Workers) /\ stock[l].quantity \in Int
  BY StockAssumption DEF Known, TypeInv, TypeOK, StockRow
<1>4. \A p \in Workers : f[p] = g[p] /\ g[p] \in Int
  BY <1>1, <1>2
<1>5. OnHand[l] = stock[l].quantity - SumFunctionOnSet(f, Workers)
  BY DEF OnHand, SumFunction
<1>6. Flights(l) = SumFunctionOnSet(g, Workers)
  BY DEF Flights
<1> HIDE DEF f, g
<1>7. SumFunctionOnSet(f, Workers) = SumFunctionOnSet(g, Workers)
  BY <1>3, <1>4, SumSame
<1>8. SumFunctionOnSet(g, Workers) \in Int
  BY <1>3, <1>4, SumType
<1> QED BY <1>2, <1>3, <1>5, <1>6, <1>7, <1>8

LEMMA OnHandIsNext ==
  Known' => \A l \in Locations :
              /\ OnHand'[l] = stock'[l].quantity - Flights(l)'
              /\ Flights(l)' \in Int /\ stock'[l].quantity \in Int
              /\ \A p \in Workers : Moved(req'[p], l) \in Int
<1>1. (Known => \A l \in Locations :
              /\ OnHand[l] = stock[l].quantity - Flights(l)
              /\ Flights(l) \in Int /\ stock[l].quantity \in Int
              /\ \A p \in Workers : Moved(req[p], l) \in Int)'
  BY OnHandIs, PTL
<1> QED BY <1>1

(* A quantity on hand changes by what the step adds to the row, less what  *)
(* it adds to the work in flight.                                          *)
LEMMA Shifted ==
  ASSUME Known, Known', NEW p \in Workers, NEW n, req' = [req EXCEPT ![p] = n],
         NEW l \in Locations
  PROVE  /\ OnHand'[l] = OnHand[l] + (stock'[l].quantity - stock[l].quantity)
                           - (Moved(n, l) - Moved(req[p], l))
         /\ stock'[l].quantity \in Int /\ stock[l].quantity \in Int
         /\ Moved(n, l) \in Int /\ Moved(req[p], l) \in Int /\ OnHand[l] \in Int
<1> DEFINE f == [q \in Workers |-> Moved(req[q], l)]
           g == [q \in Workers |-> Moved(req'[q], l)]
<1>1. req'[p] = n /\ \A q \in Workers : q # p => req'[q] = req[q]
  BY DEF Known, TypeInv, TypeOK
<1>2. /\ \A q \in Workers : f[q] \in Int /\ g[q] \in Int
      /\ \A q \in Workers \ {p} : f[q] = g[q]
      /\ f[p] = Moved(req[p], l) /\ g[p] = Moved(n, l)
  BY <1>1, OnHandIs, OnHandIsNext
<1>3. Flights(l) = SumFunctionOnSet(f, Workers) /\ Flights(l)' = SumFunctionOnSet(g, Workers)
  BY DEF Flights
<1> HIDE DEF f, g
<1>4. IsFiniteSet(Workers)
  BY StockAssumption
<1>5. SumFunctionOnSet(g, Workers) = SumFunctionOnSet(f, Workers) - f[p] + g[p]
  BY <1>2, <1>4, SumChange
<1>6. /\ OnHand[l] = stock[l].quantity - Flights(l) /\ Flights(l) \in Int
      /\ OnHand'[l] = stock'[l].quantity - Flights(l)' /\ Flights(l)' \in Int
      /\ stock'[l].quantity \in Int /\ stock[l].quantity \in Int
  BY OnHandIs, OnHandIsNext
<1> QED BY <1>2, <1>3, <1>5, <1>6

Seen == <<Doc, OnHand>>

LEMMA Unseen ==
  ASSUME Known, Known', NEW p \in Workers, NEW n, req' = [req EXCEPT ![p] = n],
         header' = header,
         \A l \in Locations :
           stock'[l].quantity = stock[l].quantity + (Moved(n, l) - Moved(req[p], l))
  PROVE  UNCHANGED Seen
<1>1. ASSUME NEW l \in Locations
      PROVE  OnHand'[l] = OnHand[l]
  <2>1. PICK a, b, c, d, e, f : /\ a = OnHand'[l] /\ b = OnHand[l]
                                /\ c = stock'[l].quantity /\ d = stock[l].quantity
                                /\ e = Moved(n, l) /\ f = Moved(req[p], l)
    OBVIOUS
  <2>2. a = b + (c - d) - (e - f)
    BY <2>1, Shifted
  <2>3. b \in Int /\ c \in Int /\ d \in Int /\ e \in Int /\ f \in Int
    BY <2>1, Shifted
  <2>4. c = d + (e - f)
    BY <2>1
  <2>5. a = b
    BY <2>2, <2>3, <2>4
  <2> QED BY <2>1, <2>5
<1>2. OnHand' = OnHand
  BY <1>1 DEF OnHand
<1> QED BY <1>2 DEF Seen, Doc

LEMMA IdleMoved == \A l : Moved(Idle, l) = 0
  BY DEF Moved, Moving, Idle, NoHeader

LEMMA UnseenAnswer ==
  ASSUME Known, Known', NEW p \in Workers, Answer(p), header' = header, stock' = stock,
         \A l \in Locations : Moved(req[p], l) = 0
  PROVE  UNCHANGED Seen
<1>1. PICK n : n = Idle
  OBVIOUS
<1>2. \A l : Moved(n, l) = 0
  BY <1>1, IdleMoved
<1>3. \A l \in Locations : stock'[l].quantity = stock[l].quantity + (Moved(n, l) - Moved(req[p], l))
  BY <1>2, OnHandIs
<1>4. req' = [req EXCEPT ![p] = n]
  BY <1>1 DEF Answer
<1> QED BY <1>3, <1>4, Unseen

LEMMA UnseenRequest ==
  ASSUME Known, Known', NEW p \in Workers, TransactionRequest(p)
  PROVE  UNCHANGED Seen
<1>1. PICK r \in Request : LoadedDraft(p, r)
  BY TransactionRequestLoads DEF Known
<1>2. PICK h : h = header[r.trans]
  OBVIOUS
<1>3. FromHeader(r, h)
  BY <1>1, <1>2 DEF LoadedDraft
<1>4. /\ req' = [req EXCEPT ![p] = r] /\ UNCHANGED <<warehouses, header, stock>>
      /\ req[p].pc = "idle"
  BY <1>1 DEF LoadedDraft, Accept
<1>5. \A l \in Locations : Moved(req[p], l) = 0
  BY <1>4 DEF Moved, Moving
<1>6. ASSUME NEW l \in Locations
      PROVE  Moved(r, l) = 0
  <2>1. CASE r.pc = "find"
    <3>1. r.todo = r.head.lines /\ ~ HalfWay(r)
      BY <1>3, <2>1 DEF FromHeader, HeadOf, HalfWay
    <3> QED BY <3>1, NothingMoved
  <2>2. CASE r.pc # "find"
    <3>1. ~ Moving(r)
      BY <1>3, <2>2 DEF FromHeader, Moving
    <3> QED BY <3>1 DEF Moved
  <2> QED BY <2>1, <2>2
<1>7. \A l \in Locations : stock'[l].quantity = stock[l].quantity + (Moved(r, l) - Moved(req[p], l))
  BY <1>4, <1>5, <1>6, OnHandIs
<1> QED BY <1>4, <1>7, Unseen

LEMMA UnseenFind ==
  ASSUME Known, Known', NEW p \in Workers, FindStock(p) \/ FindDestination(p)
  PROVE  UNCHANGED Seen
<1>1. PICK r : r = req[p]
  OBVIOUS
<1>2. r \in Request /\ RequestOK(r) /\ Shape(r) /\ req \in [Workers -> Request]
  BY <1>1 DEF Known, TypeInv, TypeOK, RequestsOK, FreshInv
<1>3. header' = header /\ stock' = stock
  BY DEF FindStock, FindDestination
<1>4. ASSUME NEW pc \in {"removing", "adding"}, NEW row,
             req' = [req EXCEPT ![p].pc = pc, ![p].row = row],
             r.pc \in {"find", "credit"},
             r.head.type = "STOCK_TRANSFER" => (r.pc = "credit" <=> pc = "adding")
      PROVE  UNCHANGED Seen
  <2>1. PICK n : n = [r EXCEPT !.pc = pc, !.row = row]
    OBVIOUS
  <2>2. req' = [req EXCEPT ![p] = n]
    BY <1>1, <1>2, <1>4, <2>1
  <2>3. n.pc = pc /\ n.head = r.head /\ n.todo = r.todo
    BY <1>2, <2>1 DEF Request
  <2>4. (Moving(n) <=> Moving(r)) /\ (HalfWay(n) <=> HalfWay(r))
    BY <1>4, <2>3 DEF Moving, HalfWay
  <2>5. \A l : Moved(n, l) = Moved(r, l)
    BY <2>3, <2>4 DEF Moved
  <2>6. \A l \in Locations : stock'[l].quantity = stock[l].quantity + (Moved(n, l) - Moved(req[p], l))
    BY <1>1, <1>3, <2>5, OnHandIs
  <2> QED BY <1>3, <2>2, <2>6, Unseen
<1>5. CASE FindStock(p)
  <2>1. PICK l \in r.todo :
          IF Outbound(r.head)
          THEN req' = [req EXCEPT ![p].pc = "removing",
                                  ![p].row = stock[RowKey(r.head.from, l)]]
          ELSE req' = [req EXCEPT ![p].pc = "adding",
                                  ![p].row = stock[RowKey(Receiving(r.head), l)]]
    BY <1>1, <1>5 DEF FindStock
  <2>2. r.pc = "find"
    BY <1>1, <1>5 DEF FindStock
  <2>3. CASE Outbound(r.head)
    <3>1. \E row : req' = [req EXCEPT ![p].pc = "removing", ![p].row = row]
      BY <2>1, <2>3
    <3> QED BY <1>4, <2>2, <3>1
  <2>4. CASE ~ Outbound(r.head)
    <3>1. \E row : req' = [req EXCEPT ![p].pc = "adding", ![p].row = row]
      BY <2>1, <2>4
    <3>2. r.head.type # "STOCK_TRANSFER"
      BY <2>4 DEF Outbound
    <3> QED BY <1>4, <2>2, <3>1, <3>2
  <2> QED BY <2>3, <2>4
<1>6. CASE FindDestination(p)
  <2>1. \E row : req' = [req EXCEPT ![p].pc = "adding", ![p].row = row]
    BY <1>6 DEF FindDestination
  <2>2. r.pc = "credit"
    BY <1>1, <1>6 DEF FindDestination
  <2> QED BY <1>4, <2>1, <2>2
<1> QED BY <1>5, <1>6

(* The row that was read is the row that is written: the quantity on hand  *)
(* changes by the quantity of the line.                                    *)
LEMMA UnseenMove ==
  ASSUME Known, Known', NEW p \in Workers, RemoveStock(p) \/ AddStock(p)
  PROVE  UNCHANGED Seen
<1>1. PICK r : r = req[p]
  OBVIOUS
<1>2. /\ r \in Request /\ RequestOK(r) /\ Shape(r) /\ Fresh(r) /\ r.head \in Header
      /\ Countable(r.head.lines)
  BY <1>1, HeldLines DEF Known, TypeInv, TypeOK, RequestsOK, FreshInv, Request
<1>3. header' = header /\ warehouses = Warehouses
  BY DEF RemoveStock, AddStock, Known, RowInv
<1>4. ASSUME NEW k \in Locations, NEW qty \in Int, NEW n, req' = [req EXCEPT ![p] = n],
             r.row = stock[k],
             \A l \in Locations : l # k => stock'[l] = stock[l],
             stock'[k].quantity = r.row.quantity + qty,
             \A l \in Locations : Moved(n, l) = Moved(r, l) + At(k, l, qty)
      PROVE  UNCHANGED Seen
  <2>1. ASSUME NEW l \in Locations
        PROVE  stock'[l].quantity = stock[l].quantity + (Moved(n, l) - Moved(r, l))
    <3>1. stock[l].quantity \in Int /\ Moved(r, l) \in Int
      BY <1>1, OnHandIs
    <3>2. Moved(n, l) = Moved(r, l) + At(k, l, qty)
      BY <1>4
    <3>3. CASE l = k
      BY <1>4, <3>1, <3>2, <3>3 DEF At
    <3>4. CASE l # k
      BY <1>4, <3>1, <3>2, <3>4 DEF At
    <3> QED BY <3>3, <3>4
  <2> QED BY <1>1, <1>3, <1>4, <2>1, Unseen
<1>5. CASE RemoveStock(p)
  <2>1. PICK x \in r.todo :
          /\ First(x, r.todo)
          /\ stock' = [stock EXCEPT ![RowKey(r.head.from, x)].quantity =
                                      r.row.quantity - x.baseQty]
          /\ req' = [req EXCEPT ![p] =
                       IF r.head.type = "STOCK_TRANSFER"
                       THEN [r EXCEPT !.pc = "credit", !.row = NoRow]
                       ELSE LineMoved(r, x)]
    BY <1>1, <1>5 DEF RemoveStock
  <2>2. PICK n : n = IF r.head.type = "STOCK_TRANSFER"
                     THEN [r EXCEPT !.pc = "credit", !.row = NoRow]
                     ELSE LineMoved(r, x)
    OBVIOUS
  <2>3. PICK k : k = RowKey(r.head.from, x)
    OBVIOUS
  <2>4. r.pc = "removing"
    BY <1>1, <1>5 DEF RemoveStock
  <2>5. r.head.from \in Warehouses
    BY <1>2, <2>4 DEF Shape, Outbound, RequestOK, WarehousesFitType, Header
  <2>6. k \in Locations /\ x.baseQty \in Nat
    BY <1>2, <2>1, <2>3, <2>5 DEF RowKey, Locations, Request, Line
  <2>7. r.row = stock[k]
    BY <1>2, <1>3, <2>1, <2>3, <2>4, <2>5 DEF Fresh, Side
  <2>8. /\ \A l \in Locations : l # k => stock'[l] = stock[l]
        /\ stock'[k].quantity = r.row.quantity - x.baseQty
    BY <2>1, <2>3, <2>6 DEF Known, TypeInv, TypeOK, StockRow
  <2>q. PICK qty : qty = 0 - x.baseQty
    OBVIOUS
  <2>9. ASSUME NEW l \in Locations
        PROVE  Moved(n, l) = Moved(r, l) + At(k, l, qty)
    <3>1. Moved(n, l) = Moved(r, l) - At(k, l, x.baseQty)
      BY <1>2, <2>1, <2>2, <2>3, <2>4, RemoveMoves
    <3>2. Moved(r, l) \in Int
      BY <1>1, OnHandIs
    <3> QED BY <2>6, <2>q, <3>1, <3>2 DEF At
  <2>10. qty \in Int /\ stock'[k].quantity = r.row.quantity + qty
    <3>1. r.row.quantity \in Int
      BY <1>2 DEF Request, StockRow
    <3> QED BY <2>6, <2>8, <2>q, <3>1
  <2>11. req' = [req EXCEPT ![p] = n]
    BY <2>1, <2>2
  <2> QED BY <1>4, <2>6, <2>7, <2>8, <2>9, <2>10, <2>11
<1>6. CASE AddStock(p)
  <2>1. PICK x \in r.todo :
          /\ First(x, r.todo) /\ Receiving(r.head) \in warehouses
          /\ stock' = [stock EXCEPT ![RowKey(Receiving(r.head), x)] =
                          [exists |-> TRUE,
                           quantity |-> r.row.quantity + x.baseQty,
                           reservedQty |-> stock[RowKey(Receiving(r.head), x)].reservedQty]]
          /\ req' = [req EXCEPT ![p] = LineMoved(r, x)]
    BY <1>1, <1>6 DEF AddStock
  <2>2. PICK n : n = LineMoved(r, x)
    OBVIOUS
  <2>3. PICK k : k = RowKey(Receiving(r.head), x)
    OBVIOUS
  <2>4. r.pc = "adding"
    BY <1>1, <1>6 DEF AddStock
  <2>6. k \in Locations /\ x.baseQty \in Nat
    BY <1>2, <1>3, <2>1, <2>3 DEF RowKey, Locations, Request, Line
  <2>7. r.row = stock[k]
    BY <1>2, <2>1, <2>3, <2>4 DEF Fresh, Side
  <2>8. /\ \A l \in Locations : l # k => stock'[l] = stock[l]
        /\ stock'[k].quantity = r.row.quantity + x.baseQty
    BY <2>1, <2>3, <2>6 DEF Known, TypeInv, TypeOK
  <2>9. \A l \in Locations : Moved(n, l) = Moved(r, l) + At(k, l, x.baseQty)
    BY <1>2, <2>1, <2>2, <2>3, <2>4, AddMoves
  <2>10. PICK qty \in Int : qty = x.baseQty
    BY <2>6
  <2>11. req' = [req EXCEPT ![p] = n]
    BY <2>1, <2>2
  <2>12. \A l \in Locations : Moved(n, l) = Moved(r, l) + At(k, l, qty)
    BY <2>9, <2>10
  <2>13. stock'[k].quantity = r.row.quantity + qty
    BY <2>8, <2>10
  <2> QED BY <1>4, <2>6, <2>7, <2>8, <2>11, <2>12, <2>13
<1> QED BY <1>5, <1>6

--------------------------------------------------------------------------------
(***************************************************************************)
(* Requests that are refused.  A completion can be refused only before it  *)
(* moved anything: of an issue or a transfer only the first line can find  *)
(* too little stock.                                                       *)
(***************************************************************************)
LEMMA RefusedEarly ==
  ASSUME Known, NEW p \in Workers, RemoveStockFails(p)
  PROVE  req[p].todo = req[p].head.lines /\ req[p].pc = "removing"
<1> SUFFICES ASSUME req[p].todo # req[p].head.lines PROVE FALSE
  BY DEF RemoveStockFails
<1>1. PICK r, old : r = req[p] /\ old = header[r.trans]
  OBVIOUS
<1>2. /\ r \in Request /\ RequestOK(r) /\ Shape(r) /\ Fresh(r) /\ Held(r) /\ r.pc = "removing"
      /\ warehouses = Warehouses
  BY <1>1 DEF Known, TypeInv, TypeOK, RequestsOK, FreshInv, RowInv, RemoveStockFails
<1>3. PICK x \in r.todo : /\ First(x, r.todo)
                          /\ \/ ~ Sufficient(r.row, x)
                             \/ ~ stock[RowKey(r.head.from, x)].exists
  BY <1>1 DEF RemoveStockFails
<1>4. PICK m \in r.head.lines \ r.todo : m.num < x.num
  BY <1>1, <1>2, <1>3 DEF Shape
<1>5. r.trans \in TransIds
  BY <1>1, <1>2, HeldTrans DEF Known
<1>6. Leading(old) /\ HeadOf(r, old)
  BY <1>1, <1>2, <1>5 DEF Known, RowInv, HeaderFit, Held
<1>7. x \in Line /\ m \in Line /\ x \in r.head.lines
  BY <1>2, <1>3, <1>4 DEF Request, Header, Shape
<1>8. x.num \in Int /\ m.num \in Int /\ x.baseQty \in Nat
  <2>1. \A n \in LineNums : n \in Int
    BY StockAssumption
  <2>2. x.num \in LineNums /\ m.num \in LineNums /\ x.baseQty \in Nat
    BY <1>7 DEF Line
  <2> QED BY <2>1, <2>2
<1>9. ~ (x.num <= m.num)
  BY <1>4, <1>8
<1>10. Outbound(old)
  BY <1>2, <1>6 DEF Shape, HeadOf, Outbound
<1>11. ~ (x.baseQty > 0)
  BY <1>4, <1>6, <1>7, <1>9, <1>10 DEF Leading, First, HeadOf
<1>12. x.baseQty = 0
  BY <1>8, <1>11
<1>13. r.head.from \in Warehouses
  BY <1>2 DEF Shape, Outbound, RequestOK, WarehousesFitType, Request, Header
<1>14. PICK k : k = RowKey(r.head.from, x)
  OBVIOUS
<1>15. k \in Locations
  BY <1>7, <1>13, <1>14 DEF RowKey, Locations, Line
<1>16. r.row = stock[k]
  BY <1>2, <1>3, <1>13, <1>14 DEF Fresh, Side
<1>17. stock[k].exists /\ stock[k].quantity >= 0
  BY <1>15 DEF Known, RowInv, NonNegativeInv, NonNegativeStock
<1>18. Sufficient(r.row, x)
  BY <1>12, <1>16, <1>17 DEF Sufficient
<1> QED BY <1>3, <1>14, <1>17, <1>18

LEMMA NeverRefused ==
  ASSUME Known, NEW p \in Workers
  PROVE  ~ AddStockFails(p)
<1> SUFFICES ASSUME AddStockFails(p) PROVE FALSE
  OBVIOUS
<1>1. PICK r : r = req[p]
  OBVIOUS
<1>2. /\ r \in Request /\ RequestOK(r) /\ Shape(r) /\ r.pc = "adding"
      /\ warehouses = Warehouses /\ Receiving(r.head) \notin warehouses
  BY <1>1 DEF Known, TypeInv, TypeOK, RequestsOK, FreshInv, RowInv, AddStockFails
<1>3. Receiving(r.head) \in Warehouses
  BY <1>2 DEF Shape, RequestOK, WarehousesFitType, Request, Header, Receiving
<1> QED BY <1>2, <1>3

LEMMA SaveRefused ==
  ASSUME Known, NEW p \in Workers, SaveFails(p)
  PROVE  req[p].head.status = "DRAFT" /\ req[p].pc = "save"
<1>1. PICK r : r = req[p]
  OBVIOUS
<1>2. /\ r \in Request /\ RequestOK(r) /\ Held(r) /\ r.pc = "save"
      /\ warehouses = Warehouses /\ ~ SavePossible(r.trans, r)
  BY <1>1 DEF Known, TypeInv, TypeOK, RequestsOK, RowInv, SaveFails
<1>3. r.trans \in TransIds
  BY <1>2 DEF RequestOK
<1>4. header[r.trans].status = "DRAFT"
  BY <1>1, <1>3 DEF Known, DraftInv
<1>5. KeysValid(r.head)
  BY <1>2 DEF KeysValid, Request, Header
<1>6. r.add # {}
  BY <1>2, <1>4, <1>5 DEF SavePossible
<1>7. r.head.status = "DRAFT"
  BY <1>2, <1>6 DEF Held, SaveFit
<1> QED BY <1>1, <1>2, <1>7

LEMMA UnseenRefusal ==
  ASSUME Known, Known', NEW p \in Workers,
         RemoveStockFails(p) \/ SaveFails(p)
  PROVE  UNCHANGED Seen
<1>1. Answer(p) /\ header' = header /\ stock' = stock
  BY DEF RemoveStockFails, SaveFails
<1>2. CASE RemoveStockFails(p)
  <2>1. PICK r : r = req[p]
    OBVIOUS
  <2>2. r.todo = r.head.lines /\ ~ HalfWay(r)
    BY <1>2, <2>1, RefusedEarly DEF HalfWay
  <2>3. \A l \in Locations : Moved(r, l) = 0
    BY <2>2, NothingMoved
  <2> QED BY <1>1, <2>1, <2>3, UnseenAnswer
<1>3. CASE SaveFails(p)
  <2>1. \A l \in Locations : Moved(req[p], l) = 0
    BY <1>3, SaveRefused DEF Moved, Moving
  <2> QED BY <1>1, <2>1, UnseenAnswer
<1> QED BY <1>2, <1>3

--------------------------------------------------------------------------------
(***************************************************************************)
(* Steps that write a header are the steps of AtomicStock.                 *)
(***************************************************************************)
Plain(h) == [h EXCEPT !.lastId = 0]

LEMMA DocWritten ==
  ASSUME TypeInv, NEW t \in TransIds, NEW h, header' = [header EXCEPT ![t] = h]
  PROVE  Doc' = [Doc EXCEPT ![t] = Plain(h)]
BY DEF Doc, Plain, TypeInv, TypeOK

LEMMA PlainFields ==
  ASSUME NEW h \in Header
  PROVE  /\ Plain(h).type = h.type /\ Plain(h).status = h.status
         /\ Plain(h).from = h.from /\ Plain(h).to = h.to /\ Plain(h).lines = h.lines
BY DEF Plain, Header

(* The answer of a request gives back what it had in flight. *)
LEMMA AnswerLands ==
  ASSUME Known, Known', NEW p \in Workers, Answer(p), stock' = stock, NEW l \in Locations
  PROVE  OnHand'[l] = OnHand[l] + Moved(req[p], l)
<1>1. PICK n : n = Idle
  OBVIOUS
<1>2. Moved(n, l) = 0 /\ req' = [req EXCEPT ![p] = n]
  BY <1>1, IdleMoved DEF Answer
<1>3. PICK a, b, c, d : a = OnHand'[l] /\ b = OnHand[l] /\ c = stock[l].quantity /\ d = Moved(req[p], l)
  OBVIOUS
<1>4. a = b + (c - c) - (0 - d)
  BY <1>2, <1>3, Shifted
<1>5. b \in Int /\ c \in Int /\ d \in Int
  BY <1>2, <1>3, Shifted
<1> QED BY <1>3, <1>4, <1>5

LEMMA SameOnHand ==
  ASSUME Known, Known', NEW p \in Workers, Answer(p), stock' = stock,
         \A l \in Locations : Moved(req[p], l) = 0
  PROVE  OnHand' = OnHand
<1>1. ASSUME NEW l \in Locations
      PROVE  OnHand'[l] = OnHand[l]
  <2>1. PICK a, b, d : a = OnHand'[l] /\ b = OnHand[l] /\ d = Moved(req[p], l)
    OBVIOUS
  <2>2. a = b + d /\ d = 0
    BY <2>1, AnswerLands
  <2>3. b \in Int
    BY <2>1, OnHandIs
  <2> QED BY <2>1, <2>2, <2>3
<1> QED BY <1>1 DEF OnHand

Positive == \A l \in Locations : OnHand[l] >= 0

(* What a completion leaves on hand is what is in stock. *)
LEMMA LandsPositive ==
  ASSUME Known, Known', Positive, NEW p \in Workers, Answer(p), stock' = stock,
         NEW l \in Locations
  PROVE  OnHand'[l] >= 0
<1>1. PICK r : r = req[p]
  OBVIOUS
<1>2. r \in Request /\ Shape(r)
  BY <1>1 DEF Known, TypeInv, TypeOK, FreshInv
<1>3. CASE l \notin RowsOf(r)
  <2>1. PICK a, b, d : a = OnHand'[l] /\ b = OnHand[l] /\ d = Moved(r, l)
    OBVIOUS
  <2>2. d = 0
    BY <1>2, <1>3, <2>1, MovedElsewhere
  <2>3. a = b + d
    BY <1>1, <2>1, AnswerLands
  <2>4. b >= 0 /\ b \in Int
    BY <2>1, OnHandIs DEF Positive
  <2> QED BY <2>1, <2>2, <2>3, <2>4
<1>4. CASE l \in RowsOf(r)
  <2>1. ASSUME NEW q \in Workers
        PROVE  Moved(req'[q], l) = 0
    <3>1. CASE q = p
      <4>1. req'[q] = Idle
        BY <3>1 DEF Answer, Known, TypeInv, TypeOK
      <4> QED BY <4>1, IdleMoved
    <3>2. CASE q # p
      <4>1. PICK s : s = req[q]
        OBVIOUS
      <4>2. s \in Request /\ Shape(s) /\ ~ Overlap(r, s) /\ req'[q] = s
        BY <1>1, <3>2, <4>1 DEF Known, TypeInv, TypeOK, FreshInv, Answer
      <4>3. l \notin RowsOf(s)
        BY <1>4, <4>2, StockAssumption DEF Overlap
      <4> QED BY <4>2, <4>3, MovedElsewhere
    <3> QED BY <3>1, <3>2
  <2>2. Flights(l)' = 0
    <3> DEFINE g == [q \in Workers |-> Moved(req'[q], l)]
    <3>1. Flights(l)' = SumFunctionOnSet(g, Workers)
      BY DEF Flights
    <3>2. \A q \in Workers : g[q] = 0
      BY <2>1
    <3> HIDE DEF g
    <3> QED BY <3>1, <3>2, SumOfZeros, StockAssumption
  <2>3. PICK a, c : a = OnHand'[l] /\ c = stock[l].quantity
    OBVIOUS
  <2>4. a = c - 0 /\ c \in Int
    BY <2>2, <2>3, OnHandIsNext
  <2>5. c >= 0
    BY <2>3 DEF Known, NonNegativeInv, NonNegativeStock
  <2> QED BY <2>3, <2>4, <2>5
<1> QED BY <1>3, <1>4

AtomicStep == Atomic!Next \/ UNCHANGED Seen

LEMMA Completes ==
  ASSUME NEW t \in TransIds, Doc[t].status = "DRAFT", Doc[t].lines # {},
         \A l \in Locations : OnHand'[l] = OnHand[l] + Atomic!Effect(Doc[t], l),
         \A l \in Locations : OnHand'[l] >= 0,
         Doc' = [Doc EXCEPT ![t].status = "COMPLETED"]
  PROVE  Atomic!Complete(t)
<1>1. OnHand' = [l \in Locations |-> OnHand[l] + Atomic!Effect(Doc[t], l)]
  <2>1. OnHand' = [l \in Locations |-> OnHand'[l]]
    BY DEF OnHand
  <2> QED BY <2>1
<1> QED BY <1>1 DEF Atomic!Complete, Doc

LEMMA DocFields ==
  ASSUME TypeInv, NEW t \in TransIds
  PROVE  /\ Doc[t] = Plain(header[t])
         /\ Doc[t].status = header[t].status /\ Doc[t].lines = header[t].lines
<1>1. header[t] \in Header
  BY DEF TypeInv, TypeOK
<1>2. Doc[t] = Plain(header[t])
  BY DEF Doc, Plain
<1> QED BY <1>1, <1>2, PlainFields

LEMMA SaveCompletes ==
  ASSUME Known, Known', Positive, NEW p \in Workers, Answer(p), stock' = stock,
         NEW t \in TransIds, t = req[p].trans, NEW h \in Header, req[p].pc = "save",
         SavedFrom(header[t], h), h.status = "COMPLETED", req[p].head.status = "COMPLETED",
         h.lines = header[t].lines, h.lines # {},
         header' = [header EXCEPT ![t] = h]
  PROVE  Atomic!Complete(t)
<1>1. PICK r, old : r = req[p] /\ old = header[t]
  OBVIOUS
<1>2. /\ r \in Request /\ Held(r) /\ SaveFit(r) /\ HeadOf(r, old) /\ old \in Header
      /\ old.status = "DRAFT" /\ SavedFrom(old, h)
  BY <1>1 DEF Known, TypeInv, TypeOK, RowInv, Held, SavedFrom
<1>3. PICK d : d = Doc[t]
  OBVIOUS
<1>4. d = Plain(old)
  BY <1>1, <1>3, DocFields DEF Known
<1>5. /\ d.type = old.type /\ d.status = "DRAFT" /\ d.from = old.from /\ d.to = old.to
      /\ d.lines = old.lines
  BY <1>2, <1>4, PlainFields
<1>6. ASSUME NEW l \in Locations
      PROVE  OnHand'[l] = OnHand[l] + Atomic!Effect(Doc[t], l)
  <2>1. Atomic!Effect(d, l) = Signed(d, d.lines, l)
    BY EffectIsSigned
  <2>2. r.head.lines \ r.todo = d.lines /\ Moving(r) /\ ~ HalfWay(r)
    BY <1>1, <1>2, <1>5 DEF SaveFit, HeadOf, Moving, HalfWay
  <2>3. Moved(r, l) = Signed(r.head, d.lines, l) - 0
    BY <2>2 DEF Moved
  <2>4. PICK c : c = d.lines
    OBVIOUS
  <2>5. Signed(r.head, c, l) = Signed(d, c, l)
    BY <1>2, <1>5 DEF Signed, Receiving, Outbound, HeadOf
  <2>6. PICK m : m = Moved(r, l)
    OBVIOUS
  <2>7. m \in Int
    BY <1>1, <2>6, OnHandIs
  <2>8. PICK s : s = Signed(d, c, l)
    OBVIOUS
  <2>9. m = s - 0
    BY <2>3, <2>4, <2>5, <2>6, <2>8
  <2>10. s \in Int
    <3>1. Countable(r.head.lines) /\ r.head.lines = c
      BY <1>1, <1>2, <1>5, <2>4, HeldLines DEF HeadOf
    <3>2. Total(c, l[2]) \in Nat
      BY <3>1, TotalType
    <3> QED BY <2>8, <3>2 DEF Signed
  <2>11. OnHand'[l] = OnHand[l] + m
    BY <1>1, <2>6, AnswerLands
  <2> QED BY <1>3, <2>1, <2>4, <2>8, <2>9, <2>10, <2>11
<1>7. Doc' = [Doc EXCEPT ![t].status = "COMPLETED"]
  <2>1. Plain(h) = [Plain(old) EXCEPT !.status = "COMPLETED"]
    BY <1>1, <1>2, ZenonT(60) DEF Plain, Header, SavedFrom
  <2>2. Doc' = [Doc EXCEPT ![t] = Plain(h)]
    BY DocWritten DEF Known
  <2>3. Doc[t] = Plain(old)
    BY <1>3, <1>4
  <2> QED BY <2>1, <2>2, <2>3
<1>8. Doc[t].status = "DRAFT" /\ Doc[t].lines # {}
  BY <1>1, <1>3, <1>5
<1> QED BY <1>6, <1>7, <1>8, LandsPositive, Completes

LEMMA AddedLine ==
  ASSUME Known, NEW t \in TransIds, NEW p \in Workers, t = req[p].trans,
         header[t].status = "DRAFT", req[p].add # {}, NEW e \in ExtraLines
  PROVE  NewLine(header[t], e) \in AddedLines
<1>1. PICK old : old = header[t]
  OBVIOUS
<1>2. PICK d \in Documents : /\ IdFits(old, d, issued)
                             /\ old.lastId - d.lastId < issued
  BY <1>1 DEF Known, RowInv, IdsFit
<1>3. /\ old.lastId \in Int /\ d.lastId \in Int /\ issued \in Int /\ MaxRequests \in Int
      /\ issued <= MaxRequests
  BY <1>1, StockAssumption DEF Known, RowInv, TypeInv, TypeOK, Header
<1>4. PICK i : i = old.lastId + 1 - d.lastId
  OBVIOUS
<1>5. i \in 1..MaxRequests /\ d.lastId + i = old.lastId + 1
  BY <1>2, <1>3, <1>4 DEF IdFits
<1>6. NewLine(old, e) = [id |-> d.lastId + i, num |-> e.num, sku |-> e.sku, baseQty |-> 0]
  BY <1>5 DEF NewLine
<1> QED BY <1>1, <1>5, <1>6 DEF AddedLines

LEMMA SaveIsAtomic ==
  ASSUME Known, Known', Positive, NEW p \in Workers, Save(p)
  PROVE  AtomicStep
<1>1. PICK t, old : t = req[p].trans /\ old = header[t]
  OBVIOUS
<1>2. PICK h : /\ SavedFrom(old, h)
               /\ h.status = req[p].head.status
               /\ h.lastId # old.lastId => req[p].add # {}
               /\ header' = [header EXCEPT ![t] = h]
               /\ t \in TransIds
  BY <1>1, SavedHeader DEF Known
<1>3. Answer(p) /\ stock' = stock /\ req[p].pc = "save"
  BY DEF Save
<1>4. old \in Header /\ h \in Header /\ old.status = "DRAFT"
  BY <1>1, <1>2 DEF Known, TypeInv, TypeOK, SavedFrom
<1>5. Doc[t] = Plain(old) /\ Doc[t].status = "DRAFT" /\ Doc[t].lines = old.lines
  BY <1>1, <1>2, <1>4, DocFields DEF Known
<1>6. Doc' = [Doc EXCEPT ![t] = Plain(h)]
  BY <1>2, DocWritten DEF Known
<1>7. /\ h.type = old.type /\ h.from = old.from /\ h.to = old.to
  BY <1>2 DEF SavedFrom
<1>8. h.status # "COMPLETED" => OnHand' = OnHand
  <2> SUFFICES ASSUME h.status # "COMPLETED" PROVE OnHand' = OnHand
    OBVIOUS
  <2>1. \A l \in Locations : Moved(req[p], l) = 0
    BY <1>2 DEF Moved, Moving
  <2> QED BY <1>3, <2>1, SameOnHand
<1>9. CASE /\ h.status = "COMPLETED" /\ h.lines = old.lines /\ h.lastId = old.lastId
           /\ h.lines # {}
  <2>1. Atomic!Complete(t)
    BY <1>1, <1>2, <1>3, <1>4, <1>9, SaveCompletes
  <2> QED BY <1>2, <2>1 DEF AtomicStep, Atomic!Next
<1>10. CASE h.status = "CANCELLED" /\ h.lines = old.lines /\ h.lastId = old.lastId
  <2>1. Plain(h) = [Plain(old) EXCEPT !.status = "CANCELLED"]
    BY <1>4, <1>7, <1>10 DEF Plain, Header
  <2>2. Doc' = [Doc EXCEPT ![t].status = "CANCELLED"] /\ OnHand' = OnHand
    BY <1>5, <1>6, <1>8, <1>10, <2>1
  <2>3. Atomic!Cancel(t)
    BY <1>5, <2>2 DEF Atomic!Cancel, Doc
  <2> QED BY <1>2, <2>3 DEF AtomicStep, Atomic!Next
<1>11. CASE h.status = "DRAFT" /\ h.lines = old.lines /\ h.lastId = old.lastId
  <2>1. Plain(h) = Plain(old)
    BY <1>4, <1>7, <1>11 DEF Plain, Header
  <2>2. Doc' = Doc /\ OnHand' = OnHand
    <3>1. Doc' = [Doc EXCEPT ![t] = Doc[t]]
      BY <1>5, <1>6, <2>1
    <3>2. Doc = [Doc EXCEPT ![t] = Doc[t]]
      BY <1>2 DEF Doc
    <3> QED BY <1>8, <1>11, <3>1, <3>2
  <2> QED BY <2>2 DEF AtomicStep, Seen
<1>12. CASE /\ h.status = "DRAFT" /\ h.lastId = old.lastId
            /\ \E line \in old.lines : h.lines = old.lines \ {line}
  <2>1. PICK line \in old.lines : h.lines = old.lines \ {line}
    BY <1>12
  <2>2. Plain(h) = [Plain(old) EXCEPT !.lines = old.lines \ {line}]
    BY <1>4, <1>7, <1>12, <2>1 DEF Plain, Header
  <2>3. Doc' = [Doc EXCEPT ![t].lines = Doc[t].lines \ {line}] /\ OnHand' = OnHand
    BY <1>5, <1>6, <1>8, <1>12, <2>2
  <2>4. Atomic!RemoveLine(t, line) /\ line \in Doc[t].lines
    BY <1>5, <2>3 DEF Atomic!RemoveLine, Atomic!Amend, Doc
  <2> QED BY <1>2, <2>4 DEF AtomicStep, Atomic!Next, Doc
<1>13. CASE /\ h.status = "DRAFT" /\ h.lastId = old.lastId + 1
            /\ \E e \in ExtraLines : h.lines = old.lines \cup {NewLine(old, e)}
  <2>1. PICK e \in ExtraLines : h.lines = old.lines \cup {NewLine(old, e)}
    BY <1>13
  <2>2. PICK line : line = NewLine(old, e)
    OBVIOUS
  <2>3. line \in AddedLines
    <3>1. req[p].add # {}
      BY <1>2, <1>4, <1>13 DEF Header
    <3> QED BY <1>1, <1>2, <1>4, <2>2, <3>1, AddedLine
  <2>4. Plain(h) = [Plain(old) EXCEPT !.lines = old.lines \cup {line}]
    BY <1>4, <1>7, <1>13, <2>1, <2>2 DEF Plain, Header
  <2>5. Doc' = [Doc EXCEPT ![t].lines = Doc[t].lines \cup {line}] /\ OnHand' = OnHand
    BY <1>5, <1>6, <1>8, <1>13, <2>4
  <2>6. Atomic!AddLine(t, line)
    BY <1>5, <2>5 DEF Atomic!AddLine, Atomic!Amend, Doc
  <2> QED BY <1>2, <2>3, <2>6 DEF AtomicStep, Atomic!Next
<1> QED BY <1>2, <1>9, <1>10, <1>11, <1>12, <1>13 DEF SavedFrom

LEMMA DeleteIsAtomic ==
  ASSUME Known, Known', NEW p \in Workers, Delete(p)
  PROVE  AtomicStep
<1>1. PICK t : t = req[p].trans
  OBVIOUS
<1>2. t \in TransIds
  BY <1>1, HeldTrans DEF Delete, Known
<1>3. PICK h : h = [NoHeader EXCEPT !.status = "DELETED"]
  OBVIOUS
<1>4. header' = [header EXCEPT ![t] = h] /\ Answer(p) /\ stock' = stock /\ req[p].pc = "delete"
  BY <1>1, <1>3 DEF Delete
<1>5. header[t].status = "DRAFT"
  BY <1>1, <1>2 DEF Known, DraftInv
<1>6. Plain(h) = h
  <2>1. h = [type |-> "NONE", status |-> "DELETED", from |-> NoWarehouse,
             to |-> NoWarehouse, lines |-> {}, lastId |-> 0]
    BY <1>3 DEF NoHeader
  <2> QED BY <2>1 DEF Plain
<1>7. Doc' = [Doc EXCEPT ![t] = [NoHeader EXCEPT !.status = "DELETED"]]
  BY <1>2, <1>3, <1>4, <1>6, DocWritten DEF Known
<1>8. \A l \in Locations : Moved(req[p], l) = 0
  BY <1>4 DEF Moved, Moving
<1>9. OnHand' = OnHand
  BY <1>4, <1>8, SameOnHand
<1>10. Doc[t].status = "DRAFT"
  BY <1>2, <1>5, DocFields DEF Known
<1>11. Atomic!Remove(t)
  BY <1>7, <1>9, <1>10 DEF Atomic!Remove, Doc
<1> QED BY <1>2, <1>11 DEF AtomicStep, Atomic!Next

LEMMA CreateIsAtomic ==
  ASSUME Known, NEW t \in TransIds, NEW doc \in Documents, Create(t, doc)
  PROVE  AtomicStep
<1>1. /\ header[t].status = "NONE" /\ header' = [header EXCEPT ![t] = [doc EXCEPT !.status = "DRAFT"]]
      /\ req' = req /\ stock' = stock
  BY DEF Create
<1>2. header[t] = NoHeader
  BY <1>1 DEF Known, RowInv, HeaderFit
<1>3. Doc[t] = NoHeader
  <2>1. Plain(NoHeader) = NoHeader
    BY DEF Plain, NoHeader
  <2> QED BY <1>2, <2>1, DocFields DEF Known
<1>4. doc \in Header
  BY StockAssumption
<1>5. Plain([doc EXCEPT !.status = "DRAFT"]) = [Plain(doc) EXCEPT !.status = "DRAFT"]
  BY <1>4 DEF Plain, Header
<1>6. Doc' = [Doc EXCEPT ![t] = [Plain(doc) EXCEPT !.status = "DRAFT"]]
  BY <1>1, <1>5, DocWritten DEF Known
<1>7. OnHand' = OnHand
  BY <1>1 DEF OnHand, InFlight, Completing, HalfMoved
<1>8. Atomic!Create(t, Plain(doc))
  BY <1>3, <1>6, <1>7 DEF Atomic!Create, Doc
<1>9. Plain(doc) \in {[d EXCEPT !.lastId = 0] : d \in Documents}
  BY DEF Plain
<1> QED BY <1>8, <1>9 DEF AtomicStep, Atomic!Next

--------------------------------------------------------------------------------
LEMMA StepIsAtomic ==
  ASSUME Promised, Known, Known', Positive, [Next]_vars
  PROVE  AtomicStep
<1>1. CASE UNCHANGED vars
  <2>1. UNCHANGED Seen
    BY <1>1 DEF vars, Seen, Doc, OnHand, InFlight, Completing, HalfMoved
  <2> QED BY <2>1 DEF AtomicStep
<1>2. ASSUME NEW p \in Workers, TransactionRequest(p)
      PROVE  AtomicStep
  BY <1>2, UnseenRequest DEF AtomicStep
<1>3. ASSUME NEW p \in Workers, InventoryRequest(p)
      PROVE  AtomicStep
  BY <1>3 DEF InventoryRequest, Promised
<1>4. ASSUME NEW p \in Workers, FindStock(p) \/ FindDestination(p)
      PROVE  AtomicStep
  BY <1>4, UnseenFind DEF AtomicStep
<1>5. ASSUME NEW p \in Workers, RemoveStock(p) \/ AddStock(p)
      PROVE  AtomicStep
  BY <1>5, UnseenMove DEF AtomicStep
<1>6. ASSUME NEW p \in Workers, RemoveStockFails(p) \/ SaveFails(p)
      PROVE  AtomicStep
  BY <1>6, UnseenRefusal DEF AtomicStep
<1>7. ASSUME NEW p \in Workers, AddStockFails(p)
      PROVE  AtomicStep
  BY <1>7, NeverRefused
<1>8. ASSUME NEW p \in Workers, SaveRow(p) \/ InsertRow(p) \/ RowWriteFails(p)
      PROVE  AtomicStep
  BY <1>8 DEF SaveRow, InsertRow, RowWriteFails, Known, RowInv, Held
<1>9. ASSUME NEW p \in Workers, Abort(p)
      PROVE  AtomicStep
  BY <1>9 DEF Abort, Promised
<1>10. ASSUME NEW p \in Workers, Save(p)
       PROVE  AtomicStep
  BY <1>10, SaveIsAtomic
<1>11. ASSUME NEW p \in Workers, Delete(p)
       PROVE  AtomicStep
  BY <1>11, DeleteIsAtomic
<1>12. ASSUME NEW t \in TransIds, NEW doc \in Documents, Create(t, doc)
       PROVE  AtomicStep
  BY <1>12, CreateIsAtomic
<1>13. ASSUME NEW w \in Deletable, DeleteWarehouse(w)
       PROVE  AtomicStep
  BY <1>13 DEF Promised
<1> QED
  BY <1>1, <1>2, <1>3, <1>4, <1>5, <1>6, <1>7, <1>8, <1>9, <1>10, <1>11, <1>12, <1>13
     DEF Next, Serve, Quiet

LEMMA StaysPositive ==
  ASSUME Positive, AtomicStep
  PROVE  Positive'
<1>1. CASE OnHand' = OnHand
  BY <1>1 DEF Positive
<1>2. CASE \E t \in TransIds : Atomic!Complete(t)
  BY <1>2 DEF Atomic!Complete, Positive
<1>3. OnHand' = OnHand \/ \E t \in TransIds : Atomic!Complete(t)
  BY DEF AtomicStep, Seen, Atomic!Next, Atomic!Create, Atomic!AddLine, Atomic!RemoveLine,
         Atomic!Amend, Atomic!Cancel, Atomic!Remove
<1> QED BY <1>1, <1>2, <1>3

LEMMA InitIsAtomic ==
  ASSUME Init
  PROVE  Atomic!Init /\ Positive
<1>1. Doc = [t \in TransIds |-> NoHeader]
  <2>1. Plain(NoHeader) = NoHeader
    BY DEF Plain, NoHeader
  <2> QED BY <2>1 DEF Doc, Plain, Init
<1>2. ASSUME NEW l \in Locations
      PROVE  OnHand[l] = OpeningStock[l].quantity /\ OpeningStock[l].quantity >= 0
  <2> DEFINE f == [p \in Workers |-> InFlight(p, l)]
  <2>1. \A p \in Workers : f[p] = 0
    BY DEF Init, InFlight, Completing, Idle
  <2>2. OnHand[l] = OpeningStock[l].quantity - SumFunctionOnSet(f, Workers)
    BY DEF OnHand, SumFunction, Init
  <2> HIDE DEF f
  <2>3. SumFunctionOnSet(f, Workers) = 0
    BY <2>1, SumOfZeros, StockAssumption
  <2>4. OpeningStock[l].quantity \in Int /\ OpeningStock[l].quantity >= 0
    BY StockAssumption DEF StockRow
  <2> QED BY <2>2, <2>3, <2>4
<1>3. OnHand = [l \in Locations |-> OpeningStock[l].quantity]
  <2>1. OnHand = [l \in Locations |-> OnHand[l]]
    BY DEF OnHand
  <2> QED BY <1>2, <2>1
<1>4. Positive
  BY <1>2 DEF Positive
<1> QED BY <1>1, <1>3, <1>4 DEF Atomic!Init, Doc

(* Where the invariants hold. *)
LEMMA KnownAlways ==
  ASSUME Promised
  PROVE  Spec => []Known
<1>1. Exclusive
  BY DEF Promised
<1>2. Spec => [](TypeInv /\ NonNegativeInv /\ DraftInv /\ FreshInv)
  BY <1>1, FreshAlways
<1>3. Init => RowInv
  BY RowInit
<1>4. TypeInv /\ DraftInv /\ FreshInv /\ RowInv /\ [Next]_vars => RowInv'
  BY RowNext
<1>5. TypeInv /\ NonNegativeInv /\ DraftInv /\ FreshInv /\ RowInv => Known
  BY DEF Known
<1> QED BY <1>2, <1>3, <1>4, <1>5, PTL DEF Spec

(* Served without overlap and never cut short, transactions of which at    *)
(* most the first line takes stock from a warehouse keep the promise of    *)
(* AtomicStock: a completion moves all lines of a draft exactly once, or   *)
(* none (StockService.updateStock, completeByPublicId).                    *)
THEOREM CompletionsAreAtomic ==
  ASSUME Promised
  PROVE  Spec => ImplementsAtomicStock
<1>1. Init => Atomic!Init /\ Positive
  BY InitIsAtomic
<1>2. Known /\ Known' /\ Positive /\ [Next]_vars => [Atomic!Next]_(Atomic!vars) /\ Positive'
  <2> SUFFICES ASSUME Known, Known', Positive, [Next]_vars
               PROVE  [Atomic!Next]_(Atomic!vars) /\ Positive'
    OBVIOUS
  <2>1. AtomicStep
    BY StepIsAtomic
  <2>2. Positive'
    BY <2>1, StaysPositive
  <2>3. [Atomic!Next]_(Atomic!vars)
    BY <2>1 DEF AtomicStep, Seen, Doc, Atomic!vars
  <2> QED BY <2>2, <2>3
<1>3. Spec => []Known
  BY KnownAlways
<1>4. Spec => Atomic!Spec
  BY <1>1, <1>2, <1>3, PTL DEF Spec, Atomic!Spec
<1> QED BY <1>4 DEF ImplementsAtomicStock
================================================================================
