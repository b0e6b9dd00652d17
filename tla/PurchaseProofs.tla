---------------------------- MODULE PurchaseProofs ----------------------------
(***************************************************************************)
(* Proofs about PurchaseReceiving.                                         *)
(***************************************************************************)
EXTENDS PurchaseReceiving, FiniteSums, TLAPS

(* Lines, stored or remembered, refer to sales order lines or to none. *)
LineOK(l) ==
  /\ DOMAIN l = {"id", "num", "sku", "orderQty", "receivedQty", "soLine", "status"}
  /\ l.soLine \in SoRef

NewLineOK(n) ==
  /\ DOMAIN n = {"num", "sku", "orderQty", "soLine"}
  /\ n.soLine \in SoRef

RequestOK(r) ==
  /\ DOMAIN r = DOMAIN Idle
  /\ r.pc # "idle" => r.order \in Orders
  /\ \A l \in r.change : LineOK(l)
  /\ \A n \in r.add : NewLineOK(n)

OrdersOK ==
  /\ DOMAIN po = Orders
  /\ \A o \in Orders :
       /\ DOMAIN po[o] = {"status", "lines", "lastId"}
       /\ \A l \in po[o].lines : LineOK(l)

ReceiptsOK ==
  /\ DOMAIN receipt = ReceiptIds
  /\ \A i \in ReceiptIds :
       /\ DOMAIN receipt[i] = {"status", "order", "lines"}
       /\ receipt[i].status = "DRAFT" => receipt[i].order \in Orders \cup {NoOrder}

RequestsOK ==
  /\ req = [p \in Workers |-> req[p]]
  /\ \A p \in Workers : RequestOK(req[p])

MappingInv ==
  /\ OrdersOK
  /\ ReceiptsOK
  /\ RequestsOK
  /\ DOMAIN soLine = SoLines
  /\ MappedOnce

(* Orders *)

(* Only requests, or receipts, change. *)
LEMMA OrdersUntouched ==
  ASSUME MappingInv, RequestsOK', ReceiptsOK', UNCHANGED <<po, soLine>>
  PROVE  MappingInv'
  BY DEF MappingInv, OrdersOK, LineOK, MappedOnce

LEMMA RowsUntouched ==
  ASSUME MappingInv, RequestsOK', UNCHANGED <<po, soLine, receipt>>
  PROVE  MappingInv'
  BY OrdersUntouched DEF MappingInv, ReceiptsOK

(* One order gets lines that the unique index and the foreign key allow:   *)
(* no other order, and no other line of this one, has their mappings.      *)
LEMMA AllowedIsMappedOnce ==
  ASSUME MappingInv, NEW o \in Orders, NEW order, NEW lines,
         DOMAIN order = {"status", "lines", "lastId"}, order.lines = lines,
         \A l \in lines : LineOK(l),
         MappingAllowed(o, lines),
         po' = [po EXCEPT ![o] = order], soLine' = soLine
  PROVE  OrdersOK' /\ MappedOnce' /\ DOMAIN soLine' = SoLines
<1> USE DEF MappingInv
<1>1. /\ DOMAIN po' = Orders
      /\ \A u \in Orders : po'[u] = IF u = o THEN order ELSE po[u]
  BY DEF OrdersOK
<1>2. OrdersOK'
  BY <1>1 DEF OrdersOK, LineOK
<1>3. ASSUME NEW o1 \in Orders, NEW o2 \in Orders,
             NEW l1 \in po'[o1].lines, NEW l2 \in po'[o2].lines,
             l1.soLine # NoSoLine
      PROVE  /\ soLine[l1.soLine] # "DELETED"
             /\ l1.soLine = l2.soLine => o1 = o2 /\ l1 = l2
  <2>1. CASE o1 = o /\ o2 = o
    BY <1>1, <1>3, <2>1 DEF MappingAllowed, Mapped
  <2>2. CASE o1 = o /\ o2 # o
    BY <1>1, <1>3, <2>2 DEF MappingAllowed, Mapped
  <2>3. CASE o1 # o /\ o2 = o
    BY <1>1, <1>3, <2>3 DEF MappingAllowed, Mapped, MappedOnce
  <2>4. CASE o1 # o /\ o2 # o
    BY <1>1, <1>3, <2>4 DEF MappedOnce
  <2> QED BY <2>1, <2>2, <2>3, <2>4
<1> QED
  BY <1>2, <1>3 DEF MappedOnce

(* Requests *)

LEMMA IdleOK == RequestOK(Idle)
  BY DEF RequestOK, Idle

LEMMA InitOK == Init => MappingInv
<1> SUFFICES ASSUME Init PROVE MappingInv
  OBVIOUS
<1>1. OrdersOK
  BY DEF OrdersOK, Init
<1>2. RequestsOK
  BY IdleOK DEF RequestsOK, Init
<1>3. DOMAIN soLine = SoLines /\ MappedOnce
  BY DEF Init, MappedOnce
<1>4. ReceiptsOK
  BY DEF Init, ReceiptsOK
<1> QED
  BY <1>1, <1>2, <1>3, <1>4 DEF MappingInv

LEMMA OneRequest ==
  ASSUME RequestsOK, NEW p \in Workers, NEW r, RequestOK(r),
         Proceed(p, r) \/ Accept(p, r)
  PROVE  RequestsOK'
<1>1. \A q \in Workers : req'[q] = IF q = p THEN r ELSE req[q]
  BY DEF RequestsOK, Proceed, Accept
<1>2. req' = [q \in Workers |-> req'[q]]
  BY DEF RequestsOK, Proceed, Accept
<1>3. \A q \in Workers : RequestOK(req'[q])
  BY <1>1 DEF RequestsOK
<1> QED
  BY <1>2, <1>3 DEF RequestsOK, RequestOK, LineOK, NewLineOK

LEMMA AnsweredOK ==
  ASSUME RequestsOK, NEW p \in Workers, Answer(p)
  PROVE  RequestsOK'
  BY IdleOK, OneRequest DEF Answer

LEMMA CheckedOK ==
  ASSUME NEW r, RequestOK(r), r.order \in Orders
  PROVE  RequestOK(Checked(r))
  BY DEF RequestOK, Checked, Idle

LEMMA LoadedOK ==
  ASSUME MappingInv, NEW o \in Orders
  PROVE  /\ RequestOK(Loaded(o)) /\ Loaded(o).order = o
         /\ Loaded(o).change = po[o].lines /\ Loaded(o).add = {}
  BY DEF MappingInv, OrdersOK, RequestOK, Loaded, Idle

(* A request accepted on an order *)
LEMMA AcceptedOK ==
  ASSUME MappingInv, NEW p \in Workers, NEW r, RequestOK(r),
         Accept(p, r), UNCHANGED Rows
  PROVE  MappingInv'
  BY OneRequest, RowsUntouched DEF MappingInv, Rows

LEMMA EndpointOK ==
  ASSUME MappingInv, NEW p \in Workers, NEW o \in Orders, OrderEndpoint(p, o)
  PROVE  MappingInv'
<1>l. \A l \in po[o].lines : LineOK(l)
  BY DEF MappingInv, OrdersOK
<1>n. \A n \in NewLine : NewLineOK(n)
  BY DEF NewLine, NewLineOK
<1>a. ASSUME NEW r, RequestOK(r), OrderRequest(p, o, r)
      PROVE  MappingInv'
  BY <1>a, AcceptedOK DEF OrderRequest
<1> DEFINE L == Loaded(o)
<1>o. RequestOK(L) /\ L.order = o /\ L.change = po[o].lines /\ L.add = {}
  BY LoadedOK
<1> HIDE DEF L
<1>1. ASSUME NEW doc \in OrderDocs, BeginCreate(p, o, doc)
      PROVE  MappingInv'
  <2> DEFINE r == [Idle EXCEPT !.order = o, !.add = doc, !.resolve = Mapped(doc)]
  <2>1. \A n \in doc : NewLineOK(n)
    BY <1>n, ReceivingAssumption
  <2>2. RequestOK(r) /\ r.order \in Orders
    BY <2>1 DEF RequestOK, Idle
  <2> HIDE DEF r
  <2>3. RequestOK(Checked(r))
    BY <2>2, CheckedOK
  <2>4. Accept(p, Checked(r)) /\ UNCHANGED Rows
    BY <1>1 DEF BeginCreate, r
  <2> QED BY <2>3, <2>4, AcceptedOK
<1>2. CASE Approve(p, o)
  <2>1. RequestOK([L EXCEPT !.status = "APPROVED"])
    BY <1>o DEF RequestOK, Idle
  <2> QED BY <1>2, <1>a, <2>1 DEF Approve, L
<1>3. CASE Cancel(p, o)
  <2> DEFINE r == [L EXCEPT !.status = "CANCELLED", !.change = {Cancelled(l) : l \in @}]
  <2>1. \A l \in po[o].lines : LineOK(Cancelled(l))
    BY <1>l DEF Cancelled, LineOK, SoRef
  <2>2. RequestOK(r)
    BY <1>o, <2>1 DEF RequestOK, Idle
  <2> QED BY <1>3, <1>a, <2>2 DEF Cancel, L
<1>4. CASE Close(p, o)
  <2>1. RequestOK([L EXCEPT !.status = "CLOSED"])
    BY <1>o DEF RequestOK, Idle
  <2> QED BY <1>4, <1>a, <2>1 DEF Close, L
<1>5. CASE Touch(p, o)
  BY <1>5, <1>a, <1>o DEF Touch, L
<1>6. CASE Remove(p, o)
  <2>1. RequestOK([Idle EXCEPT !.pc = "delete", !.order = o])
    BY DEF RequestOK, Idle
  <2> QED BY <1>6, <1>a, <2>1 DEF Remove
<1>7. ASSUME NEW line \in NewLines, AddLine(p, o, line)
      PROVE  MappingInv'
  <2> DEFINE n == [line EXCEPT !.num = Cardinality(po[o].lines) + 1]
             r == [L EXCEPT !.add = {n}, !.resolve = Mapped({line})]
  <2>1. NewLineOK(n)
    <3>1. NewLineOK(line)
      BY <1>n, ReceivingAssumption
    <3> QED BY <3>1 DEF NewLineOK
  <2> HIDE DEF n
  <2>2. RequestOK(r) /\ r.order \in Orders
    BY <1>o, <2>1 DEF RequestOK, Idle
  <2>3. OrderRequest(p, o, Checked(r))
    BY <1>7 DEF AddLine, L, n
  <2> QED BY <1>a, <2>2, <2>3, CheckedOK
<1>8. ASSUME NEW line \in po[o].lines, NEW edit \in LineEdits, UpdateLine(p, o, line, edit)
      PROVE  MappingInv'
  <2> DEFINE new == [line EXCEPT
                       !.orderQty = IF edit.orderQty = 0 THEN @ ELSE edit.orderQty,
                       !.soLine   = IF edit.soLine = NoSoLine THEN @ ELSE edit.soLine,
                       !.sku      = IF edit.sku = NoSku THEN @ ELSE edit.sku]
             r == [L EXCEPT !.change = (@ \ {line}) \cup {new},
                            !.resolve = Mapped({edit}), !.line = line.id]
  <2>1. edit.soLine \in SoRef
    BY ReceivingAssumption DEF Edit
  <2>2. LineOK(new)
    BY <1>l, <2>1 DEF LineOK
  <2> HIDE DEF new
  <2>3. RequestOK(r) /\ r.order \in Orders
    BY <1>l, <1>o, <2>2 DEF RequestOK, Idle
  <2>4. OrderRequest(p, o, Checked(r))
    BY <1>8 DEF UpdateLine, L, new
  <2> QED BY <1>a, <2>3, <2>4, CheckedOK
<1>9. ASSUME NEW line \in po[o].lines, DeleteLine(p, o, line)
      PROVE  MappingInv'
  <2> DEFINE r == [L EXCEPT !.change = @ \ {line}, !.drop = {line.id}]
  <2>1. RequestOK(r)
    BY <1>l, <1>o DEF RequestOK, Idle
  <2> QED BY <1>9, <1>a, <2>1 DEF DeleteLine, L
<1> QED
  BY <1>1, <1>2, <1>3, <1>4, <1>5, <1>6, <1>7, <1>8, <1>9 DEF OrderEndpoint

LEMMA ChecksOK ==
  ASSUME MappingInv, NEW p \in Workers, ResolveSoLine(p) \/ AssertNotMapped(p)
  PROVE  MappingInv'
<1>r. RequestsOK /\ RequestOK(req[p])
  BY DEF MappingInv, RequestsOK
<1>1. CASE ResolveSoLine(p)
  <2>1. \A s : RequestOK([req[p] EXCEPT !.resolve = @ \ {s}, !.map = @ \cup {s}])
    BY <1>r DEF RequestOK, Idle
  <2>2. RequestsOK'
    BY <1>1, <1>r, <2>1, OneRequest, AnsweredOK DEF ResolveSoLine
  <2> QED BY <1>1, <2>2, RowsUntouched DEF ResolveSoLine, Rows
<1>2. CASE AssertNotMapped(p)
  <2>1. \A s : LET r == [req[p] EXCEPT !.map = @ \ {s}]
               IN  RequestOK(r) /\ r.order \in Orders
    BY <1>2, <1>r DEF RequestOK, Idle, AssertNotMapped
  <2>2. \A s : RequestOK(Checked([req[p] EXCEPT !.map = @ \ {s}]))
    BY <2>1, CheckedOK
  <2>3. RequestsOK'
    BY <1>2, <1>r, <2>2, OneRequest, AnsweredOK DEF AssertNotMapped
  <2> QED BY <1>2, <2>3, RowsUntouched DEF AssertNotMapped, Rows
<1> QED
  BY <1>1, <1>2

(* Writing an order *)

LEMMA StoredOK ==
  ASSUME MappingInv, NEW p \in Workers, RequestsOK',
         NEW o \in Orders, NEW order,
         DOMAIN order = {"status", "lines", "lastId"},
         \A l \in order.lines : LineOK(l),
         MappingAllowed(o, order.lines),
         po' = [po EXCEPT ![o] = order], UNCHANGED <<soLine, receipt>>
  PROVE  MappingInv'
  BY AllowedIsMappedOnce DEF MappingInv, ReceiptsOK

LEMMA InsertedOK ==
  ASSUME NEW add, NEW lastId, \A n \in add : NewLineOK(n)
  PROVE  \A l \in Inserted(add, lastId) : LineOK(l)
  BY DEF Inserted, LineOK, NewLineOK

LEMMA WrittenOK ==
  ASSUME MappingInv, NEW r, RequestOK(r), r.order \in Orders, Writable(r)
  PROVE  /\ DOMAIN Written(r) = {"status", "lines", "lastId"}
         /\ \A l \in Written(r).lines : LineOK(l)
         /\ MappingAllowed(r.order, Written(r).lines)
<1>1. \A l \in po[r.order].lines : LineOK(l)
  BY DEF MappingInv, OrdersOK
<1>2. \A l \in Inserted(r.add, po[r.order].lastId) : LineOK(l)
  BY InsertedOK DEF RequestOK
<1>3. \A l \in LinesAfter(r) : LineOK(l)
  BY <1>1, <1>2 DEF LinesAfter, Untouched, Rewritten, Kept, RequestOK
<1>4. Written(r).lines = LinesAfter(r) /\ DOMAIN Written(r) = {"status", "lines", "lastId"}
  BY DEF Written
<1> QED
  BY <1>3, <1>4 DEF Writable

LEMMA OrderWriteOK ==
  ASSUME MappingInv, NEW p \in Workers,
         InsertOrder(p) \/ WriteOrder(p) \/ DeleteOrder(p)
  PROVE  MappingInv'
<1> DEFINE o == req[p].order
<1>r. RequestOK(req[p]) /\ RequestsOK'
  BY AnsweredOK DEF MappingInv, RequestsOK, InsertOrder, WriteOrder, DeleteOrder
<1>o. o \in Orders
  BY <1>r DEF RequestOK, InsertOrder, WriteOrder, DeleteOrder
<1>1. CASE InsertOrder(p)
  <2> DEFINE lines == Inserted(req[p].add, 0)
             order == [status |-> "DRAFT", lines |-> lines,
                       lastId |-> Max({l.id : l \in lines} \cup {0})]
  <2>1. \A l \in lines : LineOK(l)
    BY <1>r, InsertedOK DEF RequestOK
  <2>2. /\ po' = IF ~ MappingAllowed(o, lines) THEN po ELSE [po EXCEPT ![o] = order]
        /\ UNCHANGED <<soLine, receipt>>
    BY <1>1 DEF InsertOrder
  <2>3. order.lines = lines /\ DOMAIN order = {"status", "lines", "lastId"}
    OBVIOUS
  <2> HIDE DEF lines, order, o
  <2>4. CASE MappingAllowed(o, lines)
    BY <1>o, <1>r, <2>1, <2>2, <2>3, <2>4, StoredOK
  <2>5. CASE ~ MappingAllowed(o, lines)
    BY <1>r, <2>2, <2>5, RowsUntouched
  <2> QED BY <2>4, <2>5
<1>2. CASE WriteOrder(p)
  <2>1. /\ po' = IF Writable(req[p]) THEN [po EXCEPT ![o] = Written(req[p])] ELSE po
        /\ UNCHANGED <<soLine, receipt>>
    BY <1>2 DEF WriteOrder
  <2>2. CASE Writable(req[p])
    BY <1>o, <1>r, <2>1, <2>2, StoredOK, WrittenOK
  <2>3. CASE ~ Writable(req[p])
    BY <1>r, <2>1, <2>3, RowsUntouched
  <2> QED BY <2>2, <2>3
<1>3. CASE DeleteOrder(p)
  <2> DEFINE order == [po[o] EXCEPT !.status = "DELETED", !.lines = {}]
  <2>1. po' = [po EXCEPT ![o] = order] /\ UNCHANGED <<soLine, receipt>>
    BY <1>3, <1>o DEF DeleteOrder, MappingInv, OrdersOK
  <2>2. DOMAIN order = {"status", "lines", "lastId"} /\ order.lines = {}
    BY <1>o DEF MappingInv, OrdersOK
  <2>3. MappingAllowed(o, {})
    BY DEF MappingAllowed, Mapped
  <2> HIDE DEF order, o
  <2> QED BY <1>o, <1>r, <2>1, <2>2, <2>3, StoredOK
<1> QED
  BY <1>1, <1>2, <1>3

(* Receipts *)

(* Nothing but receipts changes. *)
LEMMA ReceiptSteps ==
  ASSUME NEW i \in ReceiptIds, ReceiptEndpoint(i)
  PROVE  UNCHANGED <<po, soLine, req, brought>> /\ issued' = issued + 1
  BY DEF ReceiptEndpoint, CreateReceipt, ReferReceipt, AddReceiptLine, RedirectReceipt,
         DivertReceipt, ReceiptRequest

LEMMA DraftReceiptOK ==
  ASSUME MappingInv, NEW i \in ReceiptIds, ReceiptEndpoint(i)
  PROVE  MappingInv'
<1>1. UNCHANGED <<po, soLine, req>>
  BY ReceiptSteps
<1>2. RequestsOK'
  BY <1>1 DEF MappingInv, RequestsOK, RequestOK, LineOK, NewLineOK
<1>3. ReceiptsOK'
  <2>1. ASSUME NEW x, ReceiptRequest(i, x), DOMAIN x = {"status", "order", "lines"},
               x.status = "DRAFT" => x.order \in Orders \cup {NoOrder}
        PROVE  ReceiptsOK'
    BY <2>1 DEF ReceiptRequest, MappingInv, ReceiptsOK
  <2>2. ASSUME NEW o \in Orders, NEW doc, CreateReceipt(i, o, doc) \/ ReferReceipt(i, o, doc)
        PROVE  ReceiptsOK'
    BY <2>1, <2>2 DEF CreateReceipt, ReferReceipt
  <2>3. ASSUME NEW line, AddReceiptLine(i, line)
        PROVE  ReceiptsOK'
    BY <2>1, <2>3 DEF AddReceiptLine, MappingInv, ReceiptsOK
  <2>4. ASSUME NEW o \in Orders \cup {NoOrder}, ReceiptRequest(i, [receipt[i] EXCEPT !.order = o])
        PROVE  ReceiptsOK'
    BY <2>1, <2>4 DEF MappingInv, ReceiptsOK
  <2> QED BY <2>2, <2>3, <2>4 DEF ReceiptEndpoint, RedirectReceipt, DivertReceipt
<1> QED
  BY <1>1, <1>2, <1>3, OrdersUntouched

LEMMA TodoOK ==
  ASSUME NEW r, RequestOK(r), r.order \in Orders, NEW todo
  PROVE  RequestOK(Receiving(r, todo))
  BY DEF RequestOK, Receiving, Idle

LEMMA CompletionOK ==
  ASSUME MappingInv, NEW p \in Workers,
         \/ \E i \in ReceiptIds : BeginCompletion(p, i)
         \/ ReadForReceipt(p)
         \/ RecordReceipt(p)
         \/ SaveReceipt(p)
         \/ ReceivingFails(p)
         \/ Abort(p)
  PROVE  MappingInv'
<1> DEFINE o == req[p].order
<1>r. RequestsOK /\ RequestOK(req[p])
  BY DEF MappingInv, RequestsOK
<1>g. req[p].pc # "idle" => o \in Orders /\ RequestOK(GiveUp(req[p]))
  BY <1>r, TodoOK DEF RequestOK, GiveUp
<1>1. CASE \E i \in ReceiptIds : BeginCompletion(p, i)
  <2>1. PICK i \in ReceiptIds : BeginCompletion(p, i)
    BY <1>1
  <2> DEFINE r == [Idle EXCEPT !.order = receipt[i].order, !.receipt = i]
  <2>2. receipt[i].order \in Orders
    BY <2>1 DEF BeginCompletion, MappingInv, ReceiptsOK
  <2>3. RequestOK(r) /\ r.order \in Orders
    BY <2>2 DEF RequestOK, Idle
  <2> HIDE DEF r
  <2>4. RequestOK(Receiving(r, receipt[i].lines))
    BY <2>3, TodoOK
  <2>5. Accept(p, Receiving(r, receipt[i].lines)) /\ UNCHANGED <<po, receipt, soLine>>
    BY <2>1 DEF BeginCompletion, r
  <2> QED BY <1>r, <2>4, <2>5, OneRequest, RowsUntouched
<1>2. CASE ReadForReceipt(p)
  <2>1. PICK t \in req[p].todo :
          \/ \E l \in po[o].lines :
               LET lines == (po[o].lines \ {l}) \cup {Received(l, t.baseQty)}
               IN  Proceed(p, [req[p] EXCEPT !.pc = "record", !.change = lines,
                                             !.status = StatusAfter(o, lines)])
          \/ Proceed(p, GiveUp(req[p]))
    BY <1>2 DEF ReadForReceipt
  <2>2. o \in Orders /\ RequestOK(GiveUp(req[p])) /\ \A l \in po[o].lines : LineOK(l)
    BY <1>2, <1>g DEF ReadForReceipt, MappingInv, OrdersOK
  <2>3. ASSUME NEW l \in po[o].lines, NEW status, NEW lines,
               lines = (po[o].lines \ {l}) \cup {Received(l, t.baseQty)}
        PROVE  RequestOK([req[p] EXCEPT !.pc = "record", !.change = lines, !.status = status])
    <3>1. LineOK(Received(l, t.baseQty))
      BY <2>2 DEF Received, LineOK
    <3> QED BY <1>r, <2>2, <2>3, <3>1 DEF RequestOK, Idle
  <2>4. \E r : RequestOK(r) /\ Proceed(p, r)
    BY <2>1, <2>2, <2>3
  <2> QED BY <1>2, <1>r, <2>4, OneRequest, RowsUntouched DEF ReadForReceipt, Rows
<1>3. CASE RecordReceipt(p)
  <2>1. o \in Orders /\ RequestOK(GiveUp(req[p]))
    BY <1>3, <1>g DEF RecordReceipt
  <2>2. \A t : RequestOK(Receiving(req[p], req[p].todo \ {t}))
    BY <1>r, <2>1, TodoOK
  <2>3. RequestsOK'
    BY <1>3, <1>r, <2>1, <2>2, OneRequest DEF RecordReceipt
  <2>4. /\ po' = IF Writable(req[p]) THEN [po EXCEPT ![o] = Written(req[p])] ELSE po
        /\ UNCHANGED <<soLine, receipt>>
    BY <1>3 DEF RecordReceipt
  <2>5. CASE Writable(req[p])
    BY <1>r, <2>1, <2>3, <2>4, <2>5, StoredOK, WrittenOK
  <2>6. CASE ~ Writable(req[p])
    BY <2>3, <2>4, <2>6, RowsUntouched
  <2> QED BY <2>5, <2>6
<1>4. CASE SaveReceipt(p)
  <2>1. ReceiptsOK'
    BY <1>4 DEF SaveReceipt, MappingInv, ReceiptsOK
  <2> QED BY <1>4, <1>r, <2>1, AnsweredOK, OrdersUntouched DEF SaveReceipt
<1>5. CASE ReceivingFails(p)
  BY <1>5, <1>g, <1>r, OneRequest, RowsUntouched DEF ReceivingFails, Rows
<1>6. CASE Abort(p)
  BY <1>6, <1>r, AnsweredOK, RowsUntouched DEF Abort, Rows
<1> QED
  BY <1>1, <1>2, <1>3, <1>4, <1>5, <1>6

(* Sales order lines *)

LEMMA SoLineOK ==
  ASSUME MappingInv, NEW s \in SoLines, CloseSoLine(s) \/ DeleteSoLine(s)
  PROVE  MappingInv'
<1>1. RequestsOK' /\ ReceiptsOK'
  BY DEF CloseSoLine, DeleteSoLine, MappingInv, RequestsOK, RequestOK, LineOK,
         NewLineOK, ReceiptsOK
<1>2. CASE CloseSoLine(s)
  <2>1. OrdersOK'
    BY <1>2 DEF CloseSoLine, MappingInv, OrdersOK, LineOK
  <2>2. MappedOnce' /\ DOMAIN soLine' = SoLines
    BY <1>2, ReceivingAssumption
    DEF CloseSoLine, MappingInv, MappedOnce, OrdersOK, LineOK, SoRef
  <2> QED BY <1>1, <2>1, <2>2 DEF MappingInv
<1>3. CASE DeleteSoLine(s)
  <2> DEFINE Unmap(l) == [l EXCEPT !.soLine = IF @ = s THEN NoSoLine ELSE @]
             New(o) == [po[o] EXCEPT !.lines = {Unmap(l) : l \in @}]
  <2>1. po' = [o \in Orders |-> New(o)]
    BY <1>3 DEF DeleteSoLine
  <2>2. \A o \in Orders : /\ po'[o].lines = {Unmap(l) : l \in po[o].lines}
                         /\ DOMAIN po'[o] = {"status", "lines", "lastId"}
    BY <2>1 DEF MappingInv, OrdersOK
  <2>3. \A o \in Orders : \A l \in po[o].lines :
          /\ LineOK(Unmap(l))
          /\ Unmap(l).soLine # s
          /\ Unmap(l).soLine # NoSoLine => Unmap(l).soLine = l.soLine
    BY ReceivingAssumption DEF MappingInv, OrdersOK, LineOK, SoRef
  <2> HIDE DEF Unmap
  <2>4. OrdersOK'
    BY <2>1, <2>2, <2>3 DEF OrdersOK, LineOK
  <2>5. \A o \in Orders : \A l \in po'[o].lines :
          l.soLine # NoSoLine =>
            /\ l.soLine # s
            /\ \E m \in po[o].lines : l = Unmap(m) /\ l.soLine = m.soLine
    BY <2>2, <2>3
  <2>6. /\ DOMAIN soLine' = SoLines
        /\ \A x \in SoLines : x # s => soLine'[x] = soLine[x]
    BY <1>3 DEF DeleteSoLine, MappingInv
  <2>7. MappedOnce'
    BY <2>4, <2>5, <2>6 DEF MappingInv, MappedOnce, OrdersOK, LineOK, SoRef
  <2> QED BY <1>1, <2>4, <2>6, <2>7 DEF MappingInv
<1> QED
  BY <1>2, <1>3

LEMMA MappingNext == MappingInv /\ [Next]_vars => MappingInv'
<1> SUFFICES ASSUME MappingInv, [Next]_vars PROVE MappingInv'
  OBVIOUS
<1>1. CASE UNCHANGED vars
  BY <1>1, RowsUntouched
  DEF vars, MappingInv, RequestsOK, RequestOK, LineOK, NewLineOK
<1>2. CASE Next
  BY <1>1, <1>2, EndpointOK, ChecksOK, OrderWriteOK, CompletionOK, DraftReceiptOK, SoLineOK
  DEF Next, Serve, Quiet
<1> QED
  BY <1>1, <1>2

(* A sales order line is mapped to one order line at most, and no line is  *)
(* mapped to a deleted row, for any orders, lines and requests at a time,  *)
(* with faults: the check of the mapping is made long before the write,    *)
(* but the write is refused if it came too late.                           *)
THEOREM MappingIsUnique == Spec => []MappedOnce
<1>1. MappingInv => MappedOnce
  BY DEF MappingInv
<1> QED
  BY <1>1, InitOK, MappingNext, PTL DEF Spec

(***************************************************************************)
(* Types.  Beyond TypeOK: what is remembered or stored is finite, order    *)
(* lines are identified by their ids, receipt lines and new order lines by *)
(* their numbers, a request knows the order it is about, and one about to  *)
(* write an order knows which status to write.                             *)
(***************************************************************************)

ById(lines)  == \A l, m \in lines : l.id = m.id => l = m
ByNum(lines) == \A l, m \in lines : l.num = m.num => l = m

OrderTyped(x) ==
  /\ x \in Order
  /\ IsFiniteSet(x.lines) /\ ById(x.lines)
  /\ \A l \in x.lines : l.id <= x.lastId
  /\ x.status \notin POStatuses => x.lines = {}

ReceiptLinesTyped(lines) ==
  lines \subseteq ReceiptLine /\ IsFiniteSet(lines) /\ ByNum(lines)

ReceiptTyped(x) ==
  /\ x \in Receipt
  /\ ReceiptLinesTyped(x.lines)

RequestTyped(r) ==
  /\ r \in Request
  /\ r.pc # "idle" => r.order \in Orders
  /\ IsFiniteSet(r.change) /\ ById(r.change)
  /\ IsFiniteSet(r.add) /\ ByNum(r.add)
  /\ r.status # "NONE" => \A n \in r.add : n.num >= 1
  /\ r.pc \in {"write", "record"} => r.status # "NONE"
  /\ r.pc \in {"receive", "record"} => r.add = {}
  /\ ReceiptLinesTyped(r.todo)

OrdersTyped ==
  /\ po = [o \in Orders |-> po[o]]
  /\ \A o \in Orders : OrderTyped(po[o])

ReceiptsTyped ==
  /\ receipt = [i \in ReceiptIds |-> receipt[i]]
  /\ \A i \in ReceiptIds : ReceiptTyped(receipt[i])

RequestsTyped ==
  /\ req = [p \in Workers |-> req[p]]
  /\ \A p \in Workers : RequestTyped(req[p])

TypeInv ==
  /\ OrdersTyped /\ ReceiptsTyped /\ RequestsTyped
  /\ soLine \in [SoLines -> {"OPEN", "CLOSED", "DELETED"}]
  /\ brought \in [Orders -> Nat]
  /\ issued \in Nat

LEMMA TypeInvIsTypeOK == TypeInv => TypeOK
  BY DEF TypeInv, TypeOK, OrdersTyped, OrderTyped, ReceiptsTyped, ReceiptTyped,
         RequestsTyped, RequestTyped

LEMMA NothingTyped ==
  ById({}) /\ ByNum({}) /\ IsFiniteSet({}) /\ ReceiptLinesTyped({})
  BY FS_EmptySet DEF ById, ByNum, ReceiptLinesTyped

LEMMA IdleTyped == RequestTyped(Idle)
<1>1. Idle \in Request
  BY DEF Idle, Request, Points
<1> QED BY <1>1, NothingTyped DEF RequestTyped, Idle

LEMMA InitTyped == Init => TypeInv
<1> SUFFICES ASSUME Init PROVE TypeInv
  OBVIOUS
<1>1. OrdersTyped
  BY NothingTyped DEF Init, OrdersTyped, OrderTyped, Order
<1>2. ReceiptsTyped
  BY NothingTyped DEF Init, ReceiptsTyped, ReceiptTyped, Receipt
<1>3. RequestsTyped
  BY IdleTyped DEF Init, RequestsTyped
<1> QED BY <1>1, <1>2, <1>3 DEF Init, TypeInv

LEMMA OneRequestTyped ==
  ASSUME TypeInv, NEW p \in Workers, NEW r, RequestTyped(r),
         Proceed(p, r) \/ Accept(p, r)
  PROVE  RequestsTyped' /\ issued' \in Nat
<1>1. \A q \in Workers : req'[q] = IF q = p THEN r ELSE req[q]
  BY DEF TypeInv, RequestsTyped, Proceed, Accept
<1>2. req' = [q \in Workers |-> req'[q]]
  BY DEF TypeInv, RequestsTyped, Proceed, Accept
<1>3. \A q \in Workers : RequestTyped(req'[q])
  BY <1>1 DEF TypeInv, RequestsTyped
<1> QED BY <1>2, <1>3 DEF RequestsTyped, TypeInv, Proceed, Accept

LEMMA QuietTyped ==
  ASSUME TypeInv, NEW p \in Workers, NEW r, RequestTyped(r),
         Proceed(p, r) \/ Accept(p, r), UNCHANGED Rows
  PROVE  TypeInv'
  BY OneRequestTyped DEF TypeInv, OrdersTyped, ReceiptsTyped, Rows

LEMMA OneOrderTyped ==
  ASSUME OrdersTyped, NEW o, NEW x, OrderTyped(x), po' = [po EXCEPT ![o] = x]
  PROVE  OrdersTyped'
<1>1. \A u \in Orders : po'[u] = IF u = o THEN x ELSE po[u]
  BY DEF OrdersTyped
<1>2. po' = [u \in Orders |-> po'[u]]
  BY DEF OrdersTyped
<1> QED BY <1>1, <1>2 DEF OrdersTyped

LEMMA OneReceiptTyped ==
  ASSUME ReceiptsTyped, NEW i, NEW x, ReceiptTyped(x), receipt' = [receipt EXCEPT ![i] = x]
  PROVE  ReceiptsTyped'
<1>1. \A j \in ReceiptIds : receipt'[j] = IF j = i THEN x ELSE receipt[j]
  BY DEF ReceiptsTyped
<1>2. receipt' = [j \in ReceiptIds |-> receipt'[j]]
  BY DEF ReceiptsTyped
<1> QED BY <1>1, <1>2 DEF ReceiptsTyped

(* Requests on orders *)

LEMMA CheckedTyped ==
  ASSUME NEW r, RequestTyped(r), r.order \in Orders
  PROVE  RequestTyped(Checked(r))
<1>1. PICK s : s = Checked(r)
  OBVIOUS
<1>2. r \in Request
  BY DEF RequestTyped
<1>3. s \in Request
  BY <1>1, <1>2 DEF Checked, Request, Points
<1>4. /\ s.order = r.order /\ s.change = r.change /\ s.add = r.add
      /\ s.status = r.status /\ s.todo = r.todo
      /\ s.pc = "write" => s.status # "NONE"
      /\ s.pc \notin {"receive", "record"}
  BY <1>1, <1>2 DEF Checked, Request
<1> QED BY <1>1, <1>3, <1>4 DEF RequestTyped

LEMMA LoadedTyped ==
  ASSUME TypeInv, NEW o \in Orders, Found(o)
  PROVE  /\ RequestTyped(Loaded(o)) /\ Loaded(o).order = o
         /\ Loaded(o).change = po[o].lines /\ Loaded(o).add = {}
<1>1. PICK s : s = Loaded(o)
  OBVIOUS
<1>2. OrderTyped(po[o]) /\ po[o].lines \subseteq POLine /\ po[o].status \in POStatuses
  BY DEF TypeInv, OrdersTyped, OrderTyped, Order, Found
<1>3. s \in Request
  BY <1>1, <1>2 DEF Loaded, Idle, Request, Points
<1>4. /\ s.order = o /\ s.change = po[o].lines /\ s.add = {} /\ s.todo = {}
      /\ s.status = po[o].status /\ s.pc = "write"
  BY <1>1 DEF Loaded, Idle
<1>5. po[o].status # "NONE"
  BY <1>2 DEF POStatuses
<1>6. RequestTyped(s)
  BY <1>2, <1>3, <1>4, <1>5, NothingTyped DEF RequestTyped, OrderTyped
<1> QED BY <1>1, <1>4, <1>6

LEMMA EndpointTyped ==
  ASSUME TypeInv, NEW p \in Workers, NEW o \in Orders, OrderEndpoint(p, o)
  PROVE  TypeInv'
<1>o. OrderTyped(po[o]) /\ po[o].lines \subseteq POLine
  BY DEF TypeInv, OrdersTyped, OrderTyped, Order
<1>a. ASSUME NEW r, RequestTyped(r), OrderRequest(p, o, r)
      PROVE  TypeInv'
  BY <1>a, QuietTyped DEF OrderRequest
<1>L. ASSUME Found(o)
      PROVE  \E L : /\ L = Loaded(o) /\ RequestTyped(L) /\ L \in Request
                    /\ L.order = o /\ L.change = po[o].lines /\ L.add = {} /\ L.pc = "write"
  <2>1. Loaded(o).pc = "write"
    BY DEF Loaded, Idle
  <2> QED BY <1>L, <2>1, LoadedTyped DEF RequestTyped
<1>s. ASSUME NEW status \in POStatuses, OrderRequest(p, o, [Loaded(o) EXCEPT !.status = status])
      PROVE  TypeInv'
  <2>1. PICK L : L = Loaded(o) /\ RequestTyped(L) /\ L \in Request /\ L.add = {}
    BY <1>s, <1>L DEF OrderRequest
  <2>2. PICK r : r = [L EXCEPT !.status = status]
    OBVIOUS
  <2>3. status # "NONE"
    BY DEF POStatuses
  <2>4. r \in Request
    BY <2>1, <2>2 DEF Request
  <2>5. RequestTyped(r)
    BY <2>1, <2>2, <2>3, <2>4 DEF RequestTyped, Request
  <2> QED BY <1>a, <1>s, <2>1, <2>2, <2>5
<1>1. ASSUME NEW doc \in OrderDocs, BeginCreate(p, o, doc)
      PROVE  TypeInv'
  <2>1. PICK r : r = [Idle EXCEPT !.order = o, !.add = doc, !.resolve = Mapped(doc)]
    OBVIOUS
  <2>2. doc \subseteq NewLine /\ IsFiniteSet(doc) /\ ByNum(doc)
    BY ReceivingAssumption DEF ByNum
  <2>3. Mapped(doc) \subseteq SoLines
    BY <2>2 DEF Mapped, NewLine, SoRef
  <2>4. r \in Request
    BY <2>1, <2>2, <2>3 DEF Idle, Request, Points
  <2>5. RequestTyped(r) /\ r.order = o
    BY <2>1, <2>2, <2>4, NothingTyped DEF RequestTyped, Idle
  <2>6. RequestTyped(Checked(r))
    BY <2>5, CheckedTyped
  <2>7. Accept(p, Checked(r)) /\ UNCHANGED Rows
    BY <1>1, <2>1 DEF BeginCreate
  <2> QED BY <2>6, <2>7, QuietTyped
<1>2. CASE Approve(p, o)
  BY <1>2, <1>s DEF Approve, POStatuses
<1>3. CASE Close(p, o)
  BY <1>3, <1>s DEF Close, POStatuses
<1>4. CASE Touch(p, o)
  BY <1>4, <1>a, LoadedTyped DEF Touch, OrderRequest
<1>5. CASE Remove(p, o)
  <2>1. PICK r : r = [Idle EXCEPT !.pc = "delete", !.order = o]
    OBVIOUS
  <2>2. r \in Request
    BY <2>1 DEF Idle, Request, Points
  <2>3. RequestTyped(r)
    BY <2>1, <2>2, NothingTyped DEF RequestTyped, Idle
  <2> QED BY <1>5, <1>a, <2>1, <2>3 DEF Remove
<1>6. CASE Cancel(p, o)
  <2>1. PICK L : L = Loaded(o) /\ RequestTyped(L) /\ L \in Request /\ L.add = {}
                 /\ L.change = po[o].lines
    BY <1>6, <1>L DEF Cancel, OrderRequest
  <2>2. PICK change : change = {Cancelled(l) : l \in po[o].lines}
    OBVIOUS
  <2>3. PICK r : r = [L EXCEPT !.status = "CANCELLED", !.change = change]
    OBVIOUS
  <2>4. \A l \in po[o].lines : Cancelled(l) \in POLine /\ Cancelled(l).id = l.id
    BY <1>o DEF Cancelled, POLine, LineStatuses, SoRef
  <2>5. change \subseteq POLine /\ ById(change)
    BY <1>o, <2>2, <2>4 DEF ById, OrderTyped
  <2>6. IsFiniteSet(change)
    <3>1. PICK f : f = [l \in po[o].lines |-> Cancelled(l)]
      OBVIOUS
    <3>2. IsFiniteSet({f[l] : l \in po[o].lines})
      BY <1>o, FiniteImage DEF OrderTyped
    <3> QED BY <2>2, <3>1, <3>2
  <2>7. r \in Request
    BY <2>1, <2>3, <2>5 DEF Request, POStatuses
  <2>8. RequestTyped(r)
    BY <2>1, <2>3, <2>5, <2>6, <2>7 DEF RequestTyped, Request
  <2>9. OrderRequest(p, o, r)
    BY <1>6, <2>1, <2>2, <2>3 DEF Cancel
  <2> QED BY <1>a, <2>8, <2>9
<1>7. ASSUME NEW line \in NewLines, AddLine(p, o, line)
      PROVE  TypeInv'
  <2>1. PICK L : L = Loaded(o) /\ RequestTyped(L) /\ L \in Request /\ L.order = o
                 /\ L.pc = "write"
    BY <1>7, <1>L DEF AddLine, OrderRequest
  <2>2. PICK n : n = [line EXCEPT !.num = Cardinality(po[o].lines) + 1]
    OBVIOUS
  <2>3. line \in NewLine
    BY ReceivingAssumption
  <2>4. Cardinality(po[o].lines) \in Nat
    BY <1>o, FS_CardinalityType DEF OrderTyped
  <2>5. n \in NewLine /\ n.num >= 1
    BY <2>2, <2>3, <2>4 DEF NewLine
  <2>6. PICK r : r = [L EXCEPT !.add = {n}, !.resolve = Mapped({line})]
    OBVIOUS
  <2>7. Mapped({line}) \subseteq SoLines
    BY <2>3 DEF Mapped, NewLine, SoRef
  <2>8. r \in Request
    BY <2>1, <2>5, <2>6, <2>7 DEF Request
  <2>9. RequestTyped(r) /\ r.order = o
    <3>1. IsFiniteSet({n}) /\ ByNum({n})
      BY FS_Singleton DEF ByNum
    <3> QED BY <2>1, <2>5, <2>6, <2>8, <3>1 DEF RequestTyped, Request
  <2>10. OrderRequest(p, o, Checked(r))
    BY <1>7, <2>1, <2>2, <2>6 DEF AddLine
  <2> QED BY <1>a, <2>9, <2>10, CheckedTyped
<1>8. ASSUME NEW line \in po[o].lines, NEW edit \in LineEdits, UpdateLine(p, o, line, edit)
      PROVE  TypeInv'
  <2>1. PICK L : L = Loaded(o) /\ RequestTyped(L) /\ L \in Request /\ L.order = o
                 /\ L.add = {} /\ L.change = po[o].lines
    BY <1>8, <1>L DEF UpdateLine, OrderRequest
  <2>2. PICK new : new = [line EXCEPT
                       !.orderQty = IF edit.orderQty = 0 THEN @ ELSE edit.orderQty,
                       !.soLine   = IF edit.soLine = NoSoLine THEN @ ELSE edit.soLine,
                       !.sku      = IF edit.sku = NoSku THEN @ ELSE edit.sku]
    OBVIOUS
  <2>3. line \in POLine /\ edit \in Edit
    BY <1>o, ReceivingAssumption
  <2>4. new \in POLine /\ new.id = line.id
    BY <2>2, <2>3 DEF POLine, Edit
  <2>5. PICK change : change = (po[o].lines \ {line}) \cup {new}
    OBVIOUS
  <2>6. change \subseteq POLine
    BY <1>o, <2>4, <2>5
  <2>7. ById(change)
    BY <1>o, <2>4, <2>5 DEF ById, OrderTyped
  <2>8. IsFiniteSet(change)
    BY <1>o, <2>5, FS_RemoveElement, FS_AddElement DEF OrderTyped
  <2>9. Mapped({edit}) \subseteq SoLines
    BY <2>3 DEF Mapped, Edit, SoRef
  <2>10. PICK r : r = [L EXCEPT !.change = change, !.resolve = Mapped({edit}), !.line = line.id]
    OBVIOUS
  <2>11. r \in Request
    BY <2>1, <2>3, <2>6, <2>9, <2>10 DEF Request, POLine
  <2>12. RequestTyped(r) /\ r.order = o
    BY <2>1, <2>7, <2>8, <2>10, <2>11 DEF RequestTyped, Request
  <2>13. OrderRequest(p, o, Checked(r))
    BY <1>8, <2>1, <2>2, <2>5, <2>10 DEF UpdateLine
  <2> QED BY <1>a, <2>12, <2>13, CheckedTyped
<1>9. ASSUME NEW line \in po[o].lines, DeleteLine(p, o, line)
      PROVE  TypeInv'
  <2>1. PICK L : L = Loaded(o) /\ RequestTyped(L) /\ L \in Request /\ L.order = o
                 /\ L.add = {} /\ L.change = po[o].lines
    BY <1>9, <1>L DEF DeleteLine, OrderRequest
  <2>2. PICK change : change = po[o].lines \ {line}
    OBVIOUS
  <2>3. change \subseteq POLine /\ ById(change) /\ IsFiniteSet(change) /\ line.id \in Nat
    BY <1>o, <2>2, FS_RemoveElement DEF OrderTyped, ById, POLine
  <2>4. PICK r : r = [L EXCEPT !.change = change, !.drop = {line.id}]
    OBVIOUS
  <2>5. r \in Request
    BY <2>1, <2>3, <2>4 DEF Request
  <2>6. RequestTyped(r)
    BY <2>1, <2>3, <2>4, <2>5 DEF RequestTyped, Request
  <2>7. OrderRequest(p, o, r)
    BY <1>9, <2>1, <2>2, <2>4 DEF DeleteLine
  <2> QED BY <1>a, <2>6, <2>7
<1> QED
  BY <1>1, <1>2, <1>3, <1>4, <1>5, <1>6, <1>7, <1>8, <1>9 DEF OrderEndpoint

LEMMA ChecksTyped ==
  ASSUME TypeInv, NEW p \in Workers, ResolveSoLine(p) \/ AssertNotMapped(p)
  PROVE  TypeInv'
<1>r. RequestTyped(req[p]) /\ req[p] \in Request
  BY DEF TypeInv, RequestsTyped, RequestTyped
<1>1. CASE ResolveSoLine(p)
  <2>1. ASSUME NEW s \in req[p].resolve
        PROVE  RequestTyped([req[p] EXCEPT !.resolve = @ \ {s}, !.map = @ \cup {s}])
    <3>1. PICK r : r = [req[p] EXCEPT !.resolve = @ \ {s}, !.map = @ \cup {s}]
      OBVIOUS
    <3>2. s \in SoLines
      BY <1>r DEF Request
    <3>3. r \in Request
      BY <1>r, <3>1, <3>2 DEF Request
    <3>4. RequestTyped(r)
      BY <1>r, <3>1, <3>3 DEF RequestTyped, Request
    <3> QED BY <3>1, <3>4
  <2>2. \E r : RequestTyped(r) /\ Proceed(p, r)
    BY <1>1, <2>1, IdleTyped DEF ResolveSoLine, Answer
  <2> QED BY <1>1, <2>2, QuietTyped DEF ResolveSoLine
<1>2. CASE AssertNotMapped(p)
  <2>1. ASSUME NEW s \in req[p].map
        PROVE  RequestTyped(Checked([req[p] EXCEPT !.map = @ \ {s}]))
    <3>1. PICK r : r = [req[p] EXCEPT !.map = @ \ {s}]
      OBVIOUS
    <3>2. r \in Request /\ r.order \in Orders
      BY <1>2, <1>r, <3>1 DEF Request, RequestTyped, AssertNotMapped
    <3>3. RequestTyped(r)
      BY <1>r, <3>1, <3>2 DEF RequestTyped, Request
    <3> QED BY <3>1, <3>2, <3>3, CheckedTyped
  <2>2. \E r : RequestTyped(r) /\ Proceed(p, r)
    BY <1>2, <2>1, IdleTyped DEF AssertNotMapped, Answer
  <2> QED BY <1>2, <2>2, QuietTyped DEF AssertNotMapped
<1> QED BY <1>1, <1>2

(* Writing an order *)

LEMMA MaxId ==
  ASSUME NEW lines, lines \subseteq POLine, IsFiniteSet(lines), NEW n \in Nat
  PROVE  /\ Max({l.id : l \in lines} \cup {n}) \in Nat
         /\ \A l \in lines : l.id <= Max({l2.id : l2 \in lines} \cup {n})
<1> DEFINE ids == {l.id : l \in lines}
<1>1. IsFiniteSet(ids)
  <2>1. PICK f : f = [l \in lines |-> l.id]
    OBVIOUS
  <2>2. IsFiniteSet({f[l] : l \in lines})
    BY FiniteImage
  <2> QED BY <2>1, <2>2
<1>2. \A x \in ids : x \in Nat
  BY DEF POLine
<1>3. IsFiniteSet(ids \cup {n})
  <2> HIDE DEF ids
  <2> QED BY <1>1, FS_AddElement
<1>4. Max(ids \cup {n}) \in Nat /\ \A x \in ids : x <= Max(ids \cup {n})
  <2> HIDE DEF ids
  <2>1. (\A x \in ids \cup {n} : x \in Int) /\ ids \cup {n} # {}
    BY <1>2
  <2> QED BY <1>2, <1>3, <2>1, MaxOfFinite
<1> QED BY <1>4

(* New lines get new ids. *)
LEMMA InsertedTyped ==
  ASSUME NEW add, add \subseteq NewLine, IsFiniteSet(add), ByNum(add), NEW lastId \in Nat
  PROVE  /\ Inserted(add, lastId) \subseteq POLine
         /\ IsFiniteSet(Inserted(add, lastId))
         /\ ById(Inserted(add, lastId))
         /\ \A l \in Inserted(add, lastId) :
              l.receivedQty = 0 /\ \E n \in add : l.id = lastId + n.num
<1>1. PICK f : f = [n \in add |->
        [id |-> lastId + n.num, num |-> n.num, sku |-> n.sku, orderQty |-> n.orderQty,
         receivedQty |-> 0, soLine |-> n.soLine, status |-> "OPEN"]]
  OBVIOUS
<1>2. Inserted(add, lastId) = {f[n] : n \in add}
  BY <1>1 DEF Inserted
<1>3. IsFiniteSet({f[n] : n \in add})
  BY FiniteImage
<1>4. \A n \in add : f[n] \in POLine /\ f[n].id = lastId + n.num /\ f[n].receivedQty = 0
  BY <1>1 DEF NewLine, POLine, LineStatuses
<1>5. \A n \in add : n.num \in Nat
  BY DEF NewLine
<1>6. \A m, n \in add : f[m].id = f[n].id => m = n
  <2> SUFFICES ASSUME NEW m \in add, NEW n \in add, f[m].id = f[n].id PROVE m = n
    OBVIOUS
  <2>1. m.num = n.num
    BY <1>4, <1>5
  <2> QED BY <2>1 DEF ByNum
<1>7. ById({f[n] : n \in add})
  BY <1>6 DEF ById
<1> QED BY <1>2, <1>3, <1>4, <1>7

LEMMA WrittenTyped ==
  ASSUME TypeInv, NEW r, RequestTyped(r), r.order \in Orders, r.status # "NONE"
  PROVE  OrderTyped(Written(r))
<1> DEFINE old == po[r.order]
           new == Inserted(r.add, old.lastId)
<1>o. /\ old \in Order /\ old.lastId \in Nat /\ old.lines \subseteq POLine
      /\ IsFiniteSet(old.lines) /\ ById(old.lines)
      /\ \A l \in old.lines : l.id <= old.lastId
  BY DEF TypeInv, OrdersTyped, OrderTyped, Order
<1>r. /\ r.change \subseteq POLine /\ IsFiniteSet(r.change) /\ ById(r.change)
      /\ r.add \subseteq NewLine /\ IsFiniteSet(r.add) /\ ByNum(r.add)
      /\ \A n \in r.add : n.num >= 1
      /\ r.status \in POStatuses
  BY DEF RequestTyped, Request
<1>1. PICK rest, fresh : rest = Untouched(r) /\ fresh = Rewritten(r)
  OBVIOUS
<1>2. /\ rest \subseteq old.lines /\ fresh \subseteq r.change
      /\ \A l \in rest, c \in fresh : l.id # c.id
      /\ \A c \in fresh : \E l \in old.lines : c.id = l.id
  BY <1>1 DEF Untouched, Rewritten, Kept
<1>3. /\ IsFiniteSet(rest) /\ IsFiniteSet(fresh)
      /\ ById(rest \cup fresh)
      /\ rest \cup fresh \subseteq POLine
  BY <1>o, <1>r, <1>2, FS_Subset DEF ById
<1>4. \A l \in rest \cup fresh : l.id <= old.lastId
  BY <1>o, <1>2
<1>5. /\ new \subseteq POLine /\ IsFiniteSet(new) /\ ById(new)
      /\ \A l \in new : \E n \in r.add : l.id = old.lastId + n.num
  BY <1>o, <1>r, InsertedTyped
<1>6. \A l \in new : l.id > old.lastId
  <2> SUFFICES ASSUME NEW l \in new PROVE l.id > old.lastId
    OBVIOUS
  <2>1. PICK n \in r.add : l.id = old.lastId + n.num
    BY <1>5
  <2>2. n.num \in Nat /\ n.num >= 1
    BY <1>r DEF NewLine
  <2> HIDE DEF old, new
  <2> QED BY <1>o, <2>1, <2>2
<1>7. PICK lines : lines = (rest \cup fresh) \cup new
  OBVIOUS
<1>8. lines = LinesAfter(r)
  BY <1>1, <1>7 DEF LinesAfter
<1> HIDE DEF old, new
<1>9. lines \subseteq POLine /\ IsFiniteSet(lines)
  BY <1>3, <1>5, <1>7, FS_Union
<1>10. \A l \in rest \cup fresh, m \in new : l.id # m.id
  <2> SUFFICES ASSUME NEW l \in rest \cup fresh, NEW m \in new PROVE l.id # m.id
    OBVIOUS
  <2>1. l.id \in Nat /\ m.id \in Nat
    BY <1>3, <1>5 DEF POLine
  <2> QED BY <1>o, <1>4, <1>6, <2>1
<1>11. ById(lines)
  BY <1>3, <1>5, <1>7, <1>10 DEF ById
<1>12. PICK last : last = Max({l.id : l \in lines} \cup {old.lastId})
  OBVIOUS
<1>13. last \in Nat /\ \A l \in lines : l.id <= last
  BY <1>o, <1>9, <1>12, MaxId
<1>14. Written(r) = [status |-> r.status, lines |-> lines, lastId |-> last]
  BY <1>8, <1>12 DEF Written, old
<1>15. r.status \in POStatuses \cup {"NONE", "DELETED"}
  BY <1>r
<1>16. [status |-> r.status, lines |-> lines, lastId |-> last] \in Order
  BY <1>9, <1>13, <1>15 DEF Order
<1> QED BY <1>r, <1>9, <1>11, <1>13, <1>14, <1>16 DEF OrderTyped

LEMMA OrderWriteTyped ==
  ASSUME TypeInv, NEW p \in Workers,
         InsertOrder(p) \/ WriteOrder(p) \/ DeleteOrder(p) \/ Abort(p)
  PROVE  TypeInv'
<1>r. RequestTyped(req[p]) /\ req[p] \in Request
  BY DEF TypeInv, RequestsTyped, RequestTyped
<1>a. RequestsTyped' /\ issued' \in Nat
  BY IdleTyped, OneRequestTyped DEF InsertOrder, WriteOrder, DeleteOrder, Abort, Answer
<1>o. ASSUME OrdersTyped', UNCHANGED <<receipt, soLine, brought>>
      PROVE  TypeInv'
  BY <1>a, <1>o DEF TypeInv, ReceiptsTyped
<1>k. po' = po => OrdersTyped'
  BY DEF TypeInv, OrdersTyped
<1>1. CASE InsertOrder(p)
  <2>1. PICK o, lines : o = req[p].order /\ lines = Inserted(req[p].add, 0)
    OBVIOUS
  <2>2. PICK x : x = [status |-> "DRAFT", lines |-> lines,
                      lastId |-> Max({l.id : l \in lines} \cup {0})]
    OBVIOUS
  <2>3. lines \subseteq POLine /\ IsFiniteSet(lines) /\ ById(lines)
    BY <1>r, <2>1, InsertedTyped DEF RequestTyped, Request
  <2>4. x.lastId \in Nat /\ \A l \in lines : l.id <= x.lastId
    BY <2>2, <2>3, MaxId
  <2>5. OrderTyped(x)
    BY <2>2, <2>3, <2>4 DEF OrderTyped, Order, POStatuses
  <2>6. po' = po \/ po' = [po EXCEPT ![o] = x]
    BY <1>1, <2>1, <2>2 DEF InsertOrder
  <2>7. OrdersTyped'
    BY <1>k, <2>5, <2>6, OneOrderTyped DEF TypeInv
  <2> QED BY <1>1, <1>o, <2>7 DEF InsertOrder
<1>2. CASE WriteOrder(p)
  <2>1. PICK o, x : o = req[p].order /\ x = Written(req[p])
    OBVIOUS
  <2>2. req[p].status # "NONE" /\ o \in Orders
    BY <1>2, <1>r, <2>1 DEF WriteOrder, RequestTyped
  <2>3. OrderTyped(x)
    BY <1>r, <2>1, <2>2, WrittenTyped
  <2>4. po' = po \/ po' = [po EXCEPT ![o] = x]
    BY <1>2, <2>1 DEF WriteOrder
  <2>5. OrdersTyped'
    BY <1>k, <2>3, <2>4, OneOrderTyped DEF TypeInv
  <2> QED BY <1>2, <1>o, <2>5 DEF WriteOrder
<1>3. CASE DeleteOrder(p)
  <2>1. PICK o : o = req[p].order
    OBVIOUS
  <2>2. o \in Orders
    BY <1>3, <1>r, <2>1 DEF DeleteOrder, RequestTyped
  <2>3. PICK x : x = [po[o] EXCEPT !.status = "DELETED", !.lines = {}]
    OBVIOUS
  <2>4. po[o] \in Order
    BY <2>2 DEF TypeInv, OrdersTyped, OrderTyped
  <2>5. x \in Order /\ x.lines = {}
    BY <2>3, <2>4 DEF Order
  <2>6. OrderTyped(x)
    BY <2>5, NothingTyped DEF OrderTyped
  <2>7. po' = [po EXCEPT ![o] = x]
    BY <1>3, <2>1, <2>2, <2>3 DEF DeleteOrder, TypeInv, OrdersTyped
  <2>8. OrdersTyped'
    BY <2>6, <2>7, OneOrderTyped DEF TypeInv
  <2> QED BY <1>3, <1>o, <2>8 DEF DeleteOrder
<1>4. CASE Abort(p)
  BY <1>4, <1>o, <1>k DEF Abort, Rows
<1> QED BY <1>1, <1>2, <1>3, <1>4

(* Receipts *)

LEMMA DraftReceiptTyped ==
  ASSUME TypeInv, NEW i \in ReceiptIds, ReceiptEndpoint(i)
  PROVE  TypeInv'
<1>i. ReceiptTyped(receipt[i]) /\ receipt[i] \in Receipt
  BY DEF TypeInv, ReceiptsTyped, ReceiptTyped
<1>r. ASSUME NEW x, ReceiptTyped(x), ReceiptRequest(i, x)
      PROVE  TypeInv'
  <2>1. ReceiptsTyped'
    BY <1>r, OneReceiptTyped DEF ReceiptRequest, TypeInv
  <2> QED BY <1>r, <2>1 DEF ReceiptRequest, TypeInv, OrdersTyped, RequestsTyped
<1>1. ASSUME NEW o \in Orders, NEW doc \in ReceiptDocs,
             CreateReceipt(i, o, doc) \/ ReferReceipt(i, o, doc)
      PROVE  TypeInv'
  <2>1. PICK x : x = [status |-> "DRAFT", order |-> o, lines |-> doc]
    OBVIOUS
  <2>2. ReceiptLinesTyped(doc)
    BY ReceivingAssumption DEF ReceiptLinesTyped, ByNum
  <2>3. ReceiptTyped(x)
    BY <2>1, <2>2 DEF ReceiptTyped, Receipt, ReceiptLinesTyped
  <2>4. ReceiptRequest(i, x)
    BY <1>1, <2>1 DEF CreateReceipt, ReferReceipt
  <2> QED BY <1>r, <2>3, <2>4
<1>2. ASSUME NEW line \in ExtraLines, AddReceiptLine(i, line)
      PROVE  TypeInv'
  <2>1. PICK l : l = [line EXCEPT !.baseQty = 0]
    OBVIOUS
  <2>2. l \in ReceiptLine /\ l.num = line.num
    BY <2>1, ReceivingAssumption DEF ReceiptLine
  <2>3. PICK lines : lines = receipt[i].lines \cup {l}
    OBVIOUS
  <2>4. ReceiptLinesTyped(lines)
    <3>1. IsFiniteSet(lines)
      BY <1>i, <2>3, FS_AddElement DEF ReceiptTyped, ReceiptLinesTyped
    <3>2. \A m \in receipt[i].lines : m.num # line.num
      BY <1>2 DEF AddReceiptLine
    <3> QED BY <1>i, <2>2, <2>3, <3>1, <3>2 DEF ReceiptTyped, ReceiptLinesTyped, ByNum
  <2>5. PICK x : x = [receipt[i] EXCEPT !.lines = lines]
    OBVIOUS
  <2>6. ReceiptTyped(x)
    BY <1>i, <2>4, <2>5 DEF ReceiptTyped, Receipt, ReceiptLinesTyped
  <2>7. ReceiptRequest(i, x)
    BY <1>2, <2>1, <2>3, <2>5 DEF AddReceiptLine
  <2> QED BY <1>r, <2>6, <2>7
<1>3. ASSUME NEW o \in Orders \cup {NoOrder}, ReceiptRequest(i, [receipt[i] EXCEPT !.order = o])
      PROVE  TypeInv'
  <2>1. PICK x : x = [receipt[i] EXCEPT !.order = o]
    OBVIOUS
  <2>2. ReceiptTyped(x)
    BY <1>i, <2>1 DEF ReceiptTyped, Receipt
  <2> QED BY <1>3, <1>r, <2>1, <2>2
<1> QED BY <1>1, <1>2, <1>3 DEF ReceiptEndpoint, RedirectReceipt, DivertReceipt

LEMMA ReceivingTyped ==
  ASSUME NEW r, RequestTyped(r), r.order \in Orders, r.add = {},
         NEW todo, ReceiptLinesTyped(todo)
  PROVE  RequestTyped(Receiving(r, todo))
<1>1. PICK s : s = Receiving(r, todo)
  OBVIOUS
<1>2. r \in Request
  BY DEF RequestTyped
<1>3. s \in Request
  BY <1>1, <1>2 DEF Receiving, Request, Points, ReceiptLinesTyped
<1>4. /\ s.order = r.order /\ s.change = {} /\ s.add = r.add /\ s.status = "NONE"
      /\ s.todo = todo /\ s.pc \in {"saveReceipt", "receive"}
  BY <1>1, <1>2 DEF Receiving, Request
<1>5. RequestTyped(s)
  BY <1>3, <1>4, NothingTyped DEF RequestTyped
<1> QED BY <1>1, <1>5

LEMMA GiveUpTyped ==
  ASSUME NEW r, RequestTyped(r), r.pc \in {"receive", "record"}
  PROVE  RequestTyped(GiveUp(r))
  BY ReceivingTyped, NothingTyped DEF GiveUp, RequestTyped

LEMMA ReceivedTyped ==
  ASSUME NEW l \in POLine, NEW qty \in Nat
  PROVE  /\ Received(l, qty) \in POLine
         /\ Received(l, qty).id = l.id
         /\ Received(l, qty).receivedQty = l.receivedQty + qty
<1>1. PICK n, status :
        /\ n = l.receivedQty + qty
        /\ status = IF l.receivedQty + qty >= l.orderQty THEN "RECEIVED"
                    ELSE "PARTIALLY_RECEIVED"
  OBVIOUS
<1>2. Received(l, qty) = [[l EXCEPT !.receivedQty = n] EXCEPT !.status = status]
  BY <1>1 DEF Received, POLine
<1>3. n \in Nat /\ status \in LineStatuses
  BY <1>1 DEF POLine, LineStatuses
<1>4. /\ [[l EXCEPT !.receivedQty = n] EXCEPT !.status = status] \in POLine
      /\ [[l EXCEPT !.receivedQty = n] EXCEPT !.status = status].id = l.id
      /\ [[l EXCEPT !.receivedQty = n] EXCEPT !.status = status].receivedQty = n
  BY <1>3 DEF POLine
<1> QED BY <1>1, <1>2, <1>4

LEMMA ReceivedStatus ==
  ASSUME NEW l \in POLine, NEW qty \in Nat
  PROVE  Received(l, qty).status \in {"RECEIVED", "PARTIALLY_RECEIVED"}
<1>1. PICK n, status :
        /\ n = l.receivedQty + qty
        /\ status = IF l.receivedQty + qty >= l.orderQty THEN "RECEIVED"
                    ELSE "PARTIALLY_RECEIVED"
  OBVIOUS
<1>2. Received(l, qty) = [[l EXCEPT !.receivedQty = n] EXCEPT !.status = status]
  BY <1>1 DEF Received, POLine
<1>3. [[l EXCEPT !.receivedQty = n] EXCEPT !.status = status].status = status
  BY DEF POLine
<1> QED BY <1>1, <1>2, <1>3

LEMMA TodoSumType ==
  ASSUME NEW todo, ReceiptLinesTyped(todo)
  PROVE  SumFunction([l \in todo |-> l.baseQty]) \in Nat
<1>1. PICK f : f = [l \in todo |-> l.baseQty]
  OBVIOUS
<1>2. IsFiniteSet(todo) /\ \A l \in todo : f[l] \in Nat
  BY <1>1 DEF ReceiptLinesTyped, ReceiptLine
<1>3. SumFunctionOnSet(f, todo) \in Nat
  BY <1>2, SumNat
<1> QED BY <1>1, <1>3 DEF SumFunction

(* What a receipt line makes of the lines of the order. *)
LEMMA LinesReceivedTyped ==
  ASSUME NEW lines, lines \subseteq POLine, IsFiniteSet(lines), ById(lines),
         NEW l \in lines, NEW qty \in Nat
  PROVE  /\ (lines \ {l}) \cup {Received(l, qty)} \subseteq POLine
         /\ IsFiniteSet((lines \ {l}) \cup {Received(l, qty)})
         /\ ById((lines \ {l}) \cup {Received(l, qty)})
<1>1. PICK m : m = Received(l, qty)
  OBVIOUS
<1>2. m \in POLine /\ m.id = l.id
  BY <1>1, ReceivedTyped
<1>3. IsFiniteSet(lines \ {l})
  BY FS_RemoveElement
<1>4. IsFiniteSet((lines \ {l}) \cup {m})
  BY <1>3, FS_AddElement
<1> QED BY <1>1, <1>2, <1>4 DEF ById

LEMMA CompletionTyped ==
  ASSUME TypeInv, NEW p \in Workers,
         \/ \E i \in ReceiptIds : BeginCompletion(p, i)
         \/ ReadForReceipt(p)
         \/ RecordReceipt(p)
         \/ SaveReceipt(p)
         \/ ReceivingFails(p)
  PROVE  TypeInv'
<1>r. RequestTyped(req[p]) /\ req[p] \in Request
  BY DEF TypeInv, RequestsTyped, RequestTyped
<1>g. req[p].pc \in {"receive", "record"} =>
        req[p].order \in Orders /\ RequestTyped(GiveUp(req[p])) /\ req[p].add = {}
  BY <1>r, GiveUpTyped DEF RequestTyped
<1>1. ASSUME NEW i \in ReceiptIds, BeginCompletion(p, i)
      PROVE  TypeInv'
  <2>1. PICK lines, o : lines = receipt[i].lines /\ o = receipt[i].order
    OBVIOUS
  <2>2. ReceiptLinesTyped(lines) /\ o \in Orders
    BY <1>1, <2>1 DEF BeginCompletion, TypeInv, ReceiptsTyped, ReceiptTyped, Receipt
  <2>3. PICK r : r = [Idle EXCEPT !.order = o, !.receipt = i]
    OBVIOUS
  <2>4. r \in Request
    BY <2>2, <2>3 DEF Idle, Request, Points
  <2>5. RequestTyped(r) /\ r.order = o /\ r.add = {}
    BY <2>2, <2>3, <2>4, NothingTyped DEF RequestTyped, Idle
  <2>6. RequestTyped(Receiving(r, lines))
    BY <2>2, <2>5, ReceivingTyped
  <2>7. RequestsTyped' /\ issued' \in Nat
    BY <1>1, <2>1, <2>3, <2>6, OneRequestTyped DEF BeginCompletion
  <2>8. brought' \in [Orders -> Nat]
    <3>1. SumFunction([l \in lines |-> l.baseQty]) \in Nat
      BY <2>2, TodoSumType
    <3>2. PICK n : n = brought[o] + SumFunction([l \in lines |-> l.baseQty])
      OBVIOUS
    <3>3. n \in Nat
      BY <2>2, <3>1, <3>2 DEF TypeInv
    <3>4. brought' = [brought EXCEPT ![o] = n]
      BY <1>1, <2>1, <3>2 DEF BeginCompletion
    <3> QED BY <3>3, <3>4 DEF TypeInv
  <2> QED BY <1>1, <2>7, <2>8 DEF BeginCompletion, TypeInv, OrdersTyped, ReceiptsTyped
<1>2. CASE ReadForReceipt(p)
  <2>o. req[p].order \in Orders /\ RequestTyped(GiveUp(req[p])) /\ req[p].add = {}
    BY <1>2, <1>g DEF ReadForReceipt
  <2>1. ASSUME NEW t \in req[p].todo, NEW l \in po[req[p].order].lines,
               NEW lines, lines = (po[req[p].order].lines \ {l}) \cup {Received(l, t.baseQty)}
        PROVE  RequestTyped([req[p] EXCEPT !.pc = "record", !.change = lines,
                                           !.status = StatusAfter(req[p].order, lines)])
    <3>1. OrderTyped(po[req[p].order]) /\ po[req[p].order] \in Order
      BY <2>o DEF TypeInv, OrdersTyped, OrderTyped
    <3>2. t.baseQty \in Nat
      BY <1>r DEF RequestTyped, ReceiptLinesTyped, ReceiptLine
    <3>a. PICK old, qty : old = po[req[p].order].lines /\ qty = t.baseQty
      OBVIOUS
    <3>b. old \subseteq POLine /\ IsFiniteSet(old) /\ ById(old) /\ l \in old /\ qty \in Nat
      BY <3>1, <3>2, <3>a DEF OrderTyped, Order
    <3>c. lines = (old \ {l}) \cup {Received(l, qty)}
      BY <2>1, <3>a
    <3>3. lines \subseteq POLine /\ IsFiniteSet(lines) /\ ById(lines)
      BY <3>b, <3>c, LinesReceivedTyped
    <3>4. StatusAfter(req[p].order, lines) \in POStatuses
      <4>1. po[req[p].order].status \in POStatuses
        BY <2>1, <3>1 DEF OrderTyped
      <4> QED BY <4>1 DEF StatusAfter, POStatuses
    <3>5. PICK status : status = StatusAfter(req[p].order, lines)
      OBVIOUS
    <3>6. PICK s : s = [req[p] EXCEPT !.pc = "record", !.change = lines, !.status = status]
      OBVIOUS
    <3>7. s \in Request
      BY <1>r, <3>3, <3>4, <3>5, <3>6 DEF Request, Points
    <3>8. RequestTyped(s)
      <4>1. /\ s.order = req[p].order /\ s.change = lines /\ s.add = req[p].add
            /\ s.status = status /\ s.todo = req[p].todo /\ s.pc = "record"
        BY <1>r, <3>6 DEF Request
      <4>2. status # "NONE"
        BY <3>4, <3>5 DEF POStatuses
      <4> QED BY <1>r, <2>o, <3>3, <3>7, <4>1, <4>2, NothingTyped DEF RequestTyped
    <3> QED BY <3>5, <3>6, <3>8
  <2>2. \E r : RequestTyped(r) /\ Proceed(p, r)
    BY <1>2, <2>o, <2>1 DEF ReadForReceipt
  <2> QED BY <1>2, <2>2, QuietTyped DEF ReadForReceipt
<1>3. CASE RecordReceipt(p)
  <2>o. /\ req[p].order \in Orders /\ RequestTyped(GiveUp(req[p]))
        /\ req[p].status # "NONE" /\ req[p].add = {}
    BY <1>3, <1>r, <1>g DEF RecordReceipt, RequestTyped
  <2>1. ASSUME NEW t \in req[p].todo
        PROVE  RequestTyped(Receiving(req[p], req[p].todo \ {t}))
    <3>1. PICK todo : todo = req[p].todo \ {t}
      OBVIOUS
    <3>2. ReceiptLinesTyped(todo)
      BY <1>r, <3>1, FS_RemoveElement DEF RequestTyped, ReceiptLinesTyped, ByNum
    <3> QED BY <1>r, <2>o, <3>1, <3>2, ReceivingTyped
  <2>2. \E r : RequestTyped(r) /\ Proceed(p, r)
    BY <1>3, <2>o, <2>1 DEF RecordReceipt
  <2>3. RequestsTyped' /\ issued' \in Nat
    BY <2>2, OneRequestTyped
  <2>4. OrdersTyped'
    <3>1. PICK o, x : o = req[p].order /\ x = Written(req[p])
      OBVIOUS
    <3>2. OrderTyped(x)
      BY <1>r, <2>o, <3>1, WrittenTyped
    <3>3. po' = po \/ po' = [po EXCEPT ![o] = x]
      BY <1>3, <3>1 DEF RecordReceipt
    <3>4. po' = po => OrdersTyped'
      BY DEF TypeInv, OrdersTyped
    <3> QED BY <3>2, <3>3, <3>4, OneOrderTyped DEF TypeInv
  <2> QED BY <1>3, <2>3, <2>4 DEF RecordReceipt, TypeInv, ReceiptsTyped
<1>4. CASE SaveReceipt(p)
  <2>1. RequestsTyped' /\ issued' \in Nat
    BY <1>4, IdleTyped, OneRequestTyped DEF SaveReceipt, Answer
  <2>2. ReceiptsTyped'
    <3>1. PICK i : i = req[p].receipt
      OBVIOUS
    <3>2. CASE i \in ReceiptIds
      <4>1. ReceiptTyped(receipt[i]) /\ receipt[i] \in Receipt
        BY <3>2 DEF TypeInv, ReceiptsTyped, ReceiptTyped
      <4>2. PICK x : x = [receipt[i] EXCEPT !.status = "COMPLETED", !.order = req[p].order]
        OBVIOUS
      <4>3. x \in Receipt /\ x.lines = receipt[i].lines
        BY <1>4, <1>r, <4>1, <4>2 DEF SaveReceipt, Receipt, RequestTyped
      <4>4. ReceiptTyped(x)
        BY <4>1, <4>3 DEF ReceiptTyped
      <4>5. receipt' = [receipt EXCEPT ![i] = x]
        BY <1>4, <3>1, <3>2, <4>2 DEF SaveReceipt, TypeInv, ReceiptsTyped
      <4> QED BY <4>4, <4>5, OneReceiptTyped DEF TypeInv
    <3>3. CASE i \notin ReceiptIds
      <4>1. receipt' = receipt
        BY <1>4, <3>1, <3>3 DEF SaveReceipt, TypeInv, ReceiptsTyped
      <4> QED BY <4>1 DEF TypeInv, ReceiptsTyped
    <3> QED BY <3>2, <3>3
  <2> QED BY <1>4, <2>1, <2>2 DEF SaveReceipt, TypeInv, OrdersTyped
<1>5. CASE ReceivingFails(p)
  <2>1. RequestTyped(GiveUp(req[p]))
    BY <1>5, <1>g DEF ReceivingFails
  <2> QED BY <1>5, <2>1, QuietTyped DEF ReceivingFails
<1> QED BY <1>1, <1>2, <1>3, <1>4, <1>5

LEMMA SoLineTyped ==
  ASSUME TypeInv, NEW s \in SoLines, CloseSoLine(s) \/ DeleteSoLine(s)
  PROVE  TypeInv'
<1>1. CASE CloseSoLine(s)
  BY <1>1 DEF CloseSoLine, TypeInv, OrdersTyped, ReceiptsTyped, RequestsTyped
<1>2. CASE DeleteSoLine(s)
  <2>1. ASSUME NEW o \in Orders
        PROVE  OrderTyped(po'[o])
    <3>1. PICK x : x = po[o]
      OBVIOUS
    <3>2. OrderTyped(x) /\ x \in Order
      BY <3>1 DEF TypeInv, OrdersTyped, OrderTyped
    <3> DEFINE f == [l \in x.lines |-> [l EXCEPT !.soLine = IF @ = s THEN NoSoLine ELSE @]]
    <3>3. \A l \in x.lines : f[l] \in POLine /\ f[l].id = l.id
      BY <3>2 DEF Order, POLine, SoRef
    <3>4. PICK lines : lines = {f[l] : l \in x.lines}
      OBVIOUS
    <3>5. IsFiniteSet(lines)
      <4> HIDE DEF f
      <4> QED BY <3>2, <3>4, FiniteImage DEF OrderTyped
    <3>6. lines \subseteq POLine /\ ById(lines) /\ (x.lines = {} => lines = {})
          /\ \A l \in lines : l.id <= x.lastId
      <4> HIDE DEF f
      <4> QED BY <3>2, <3>3, <3>4 DEF ById, OrderTyped
    <3>7. po'[o] = [x EXCEPT !.lines = lines]
      <4>1. lines = {[l EXCEPT !.soLine = IF @ = s THEN NoSoLine ELSE @] : l \in x.lines}
        BY <3>4
      <4>2. po'[o] = [x EXCEPT !.lines =
              {[l EXCEPT !.soLine = IF @ = s THEN NoSoLine ELSE @] : l \in x.lines}]
        BY <1>2, <3>1 DEF DeleteSoLine
      <4> HIDE DEF f
      <4> QED BY <4>1, <4>2
    <3> HIDE DEF f
    <3>8. PICK y : y = [x EXCEPT !.lines = lines]
      OBVIOUS
    <3>9. y \in Order /\ y.lines = lines /\ y.status = x.status /\ y.lastId = x.lastId
      BY <3>2, <3>6, <3>8 DEF Order
    <3>10. OrderTyped(y)
      BY <3>2, <3>5, <3>6, <3>9 DEF OrderTyped
    <3> QED BY <3>7, <3>8, <3>10
  <2>2. OrdersTyped'
    BY <1>2, <2>1 DEF OrdersTyped, DeleteSoLine
  <2> QED BY <1>2, <2>2 DEF DeleteSoLine, TypeInv, ReceiptsTyped, RequestsTyped
<1> QED BY <1>1, <1>2

LEMMA NextTyped == TypeInv /\ [Next]_vars => TypeInv'
<1> SUFFICES ASSUME TypeInv, [Next]_vars PROVE TypeInv'
  OBVIOUS
<1>1. CASE UNCHANGED vars
  BY <1>1 DEF vars, TypeInv, OrdersTyped, ReceiptsTyped, RequestsTyped
<1>2. CASE Next
  BY <1>1, <1>2, EndpointTyped, ChecksTyped, OrderWriteTyped, DraftReceiptTyped,
     CompletionTyped, SoLineTyped
  DEF Next, Serve, Quiet
<1> QED BY <1>1, <1>2

(* Every value stored or remembered has its type, and rows are identified  *)
(* by their ids, for any orders, receipts and number of requests at a time.*)
THEOREM TypeCorrect == Spec => []TypeOK
<1>1. Spec => []TypeInv
  BY InitTyped, NextTyped, PTL DEF Spec
<1> QED BY <1>1, TypeInvIsTypeOK, PTL

(***************************************************************************)
(* What is received was brought.  As with sales orders, the reason is an   *)
(* account b of quantities by line id, here one for each order, which no   *)
(* version of a line, stored or about to be stored, exceeds.  A quantity   *)
(* moved into stock is entered in it at most once, when the version that   *)
(* records it is computed; until then it is ahead of a request.            *)
(***************************************************************************)

TodoSum(todo) == SumFunction([l \in todo |-> l.baseQty])

(* What the request has moved for order o and not yet recorded, or given up. *)
Ahead(r, o) ==
  IF r.order = o /\ r.pc = "receive" THEN TodoSum(r.todo)
  ELSE IF r.order = o /\ r.pc = "record"
       THEN TodoSum({t \in r.todo : ~ First(t, r.todo)})
       ELSE 0

Covers(b, D, lines) == \A l \in lines : l.id \in D /\ l.receivedQty <= b[l.id]

Account(o, D, b) ==
  /\ IsFiniteSet(D) /\ b \in [D -> Nat]
  /\ Covers(b, D, po[o].lines)
  /\ \A p \in Workers : req[p].order = o => Covers(b, D, req[p].change)
  /\ SumFunctionOnSet(b, D) + SumFunction([p \in Workers |-> Ahead(req[p], o)])
       <= brought[o]

AccountedFor(o) == \E D, b : Account(o, D, b)

Accounted == \A o \in Orders : AccountedFor(o)

LEMMA TodoSumRemove ==
  ASSUME NEW todo, ReceiptLinesTyped(todo), NEW t \in todo
  PROVE  TodoSum(todo) = t.baseQty + TodoSum(todo \ {t})
<1> DEFINE f == [x \in todo |-> x.baseQty]
           g == [x \in todo \ {t} |-> x.baseQty]
<1>a. todo \subseteq ReceiptLine /\ IsFiniteSet(todo)
  BY DEF ReceiptLinesTyped
<1>1. \A x \in todo : f[x] \in Int
  BY <1>a DEF ReceiptLine
<1>2. SumFunctionOnSet(f, todo) = f[t] + SumFunctionOnSet(f, todo \ {t})
  <2>1. todo \in SUBSET todo
    OBVIOUS
  <2> HIDE DEF f
  <2> QED BY <1>a, <1>1, <2>1, SumRemove
<1>3. SumFunctionOnSet(f, todo \ {t}) = SumFunctionOnSet(g, todo \ {t})
  <2>1. IsFiniteSet(todo \ {t})
    BY <1>a, FS_RemoveElement
  <2>2. \A x \in todo \ {t} : f[x] = g[x]
    OBVIOUS
  <2> HIDE DEF f, g
  <2> QED BY <2>1, <2>2, SumSame
<1>4. TodoSum(todo) = SumFunctionOnSet(f, todo)
  BY DEF TodoSum, SumFunction
<1>5. TodoSum(todo \ {t}) = SumFunctionOnSet(g, todo \ {t})
  BY DEF TodoSum, SumFunction
<1>6. f[t] = t.baseQty
  OBVIOUS
<1> HIDE DEF f, g
<1> QED BY <1>2, <1>3, <1>4, <1>5, <1>6

LEMMA OneFirst ==
  ASSUME NEW todo, ReceiptLinesTyped(todo), NEW t \in todo, First(t, todo)
  PROVE  {u \in todo : ~ First(u, todo)} = todo \ {t}
<1>1. ASSUME NEW u \in todo, First(u, todo)
      PROVE  u = t
  <2>1. u.num <= t.num /\ t.num <= u.num
    BY <1>1 DEF First
  <2>2. u.num \in Nat /\ t.num \in Nat
    BY DEF ReceiptLinesTyped, ReceiptLine
  <2>3. u.num = t.num
    BY <2>1, <2>2
  <2> QED BY <2>3 DEF ReceiptLinesTyped, ByNum
<1> QED BY <1>1

LEMMA RestTyped ==
  ASSUME NEW todo, ReceiptLinesTyped(todo), NEW rest, rest \subseteq todo
  PROVE  ReceiptLinesTyped(rest) /\ TodoSum(rest) \in Nat
<1>1. ReceiptLinesTyped(rest)
  BY FS_Subset DEF ReceiptLinesTyped, ByNum
<1> QED BY <1>1, TodoSumType DEF TodoSum

LEMMA TodoSumEmpty == TodoSum({}) = 0
  BY SumEmpty DEF TodoSum, SumFunction

LEMMA AheadType ==
  ASSUME NEW r, RequestTyped(r), NEW o
  PROVE  Ahead(r, o) \in Nat
<1>1. ReceiptLinesTyped(r.todo) /\ {t \in r.todo : ~ First(t, r.todo)} \subseteq r.todo
      /\ r.todo \subseteq r.todo
  BY DEF RequestTyped
<1>2. TodoSum(r.todo) \in Nat
  BY <1>1, RestTyped
<1>3. TodoSum({t \in r.todo : ~ First(t, r.todo)}) \in Nat
  BY <1>1, RestTyped
<1> QED BY <1>2, <1>3 DEF Ahead

(* One request moves on: what it enters into the account of order o, and   *)
(* what is then ahead of it, is covered by what it had ahead and what it   *)
(* brings now.                                                             *)
LEMMA AccountStep ==
  ASSUME TypeInv, NEW p \in Workers, NEW r, RequestTyped(r),
         req' = [req EXCEPT ![p] = r], NEW o \in Orders,
         NEW D, NEW b, Account(o, D, b),
         NEW E, IsFiniteSet(E), D \subseteq E, NEW c \in [E -> Nat],
         \A x \in D : b[x] <= c[x],
         Covers(c, E, po'[o].lines), r.order = o => Covers(c, E, r.change),
         brought'[o] \in Nat,
         SumFunctionOnSet(c, E) + Ahead(r, o) + brought[o]
           <= SumFunctionOnSet(b, D) + Ahead(req[p], o) + brought'[o]
  PROVE  AccountedFor(o)'
<1> DEFINE f == [q \in Workers |-> Ahead(req[q], o)]
           g == [q \in Workers |-> Ahead(req'[q], o)]
<1>1. \A q \in Workers : req'[q] = IF q = p THEN r ELSE req[q]
  BY DEF TypeInv, RequestsTyped
<1>2. \A q \in Workers : RequestTyped(req[q])
  BY DEF TypeInv, RequestsTyped
<1>3. \A q \in Workers : f[q] \in Nat /\ g[q] \in Nat
  BY <1>1, <1>2, AheadType
<1>4. \A q \in Workers \ {p} : f[q] = g[q]
  BY <1>1
<1>5. f[p] = Ahead(req[p], o) /\ g[p] = Ahead(r, o)
  BY <1>1
<1>6. SumFunctionOnSet(g, Workers) = SumFunctionOnSet(f, Workers) - f[p] + g[p]
  <2> HIDE DEF f, g
  <2>1. \A q \in Workers : f[q] \in Int /\ g[q] \in Int
    BY <1>3
  <2> QED BY <1>4, <2>1, SumChange, ReceivingAssumption
<1>7. /\ SumFunctionOnSet(f, Workers) \in Nat
      /\ SumFunctionOnSet(g, Workers) \in Nat
  <2> HIDE DEF f, g
  <2> QED BY <1>3, SumNat, ReceivingAssumption
<1>8. SumFunction(f) = SumFunctionOnSet(f, Workers) /\ SumFunction(g) = SumFunctionOnSet(g, Workers)
  BY DEF SumFunction
<1>9. SumFunctionOnSet(b, D) + SumFunction(f) <= brought[o]
  BY DEF Account
<1>10. SumFunctionOnSet(b, D) \in Nat /\ SumFunctionOnSet(c, E) \in Nat
  <2>1. (\A x \in D : b[x] \in Nat) /\ IsFiniteSet(D)
    BY DEF Account
  <2>2. \A x \in E : c[x] \in Nat
    OBVIOUS
  <2> QED BY <2>1, <2>2, SumNat
<1>11. brought[o] \in Nat
  BY DEF TypeInv
<1>12. Ahead(r, o) \in Nat /\ Ahead(req[p], o) \in Nat
  BY <1>2, AheadType
<1>13. SumFunctionOnSet(c, E) + SumFunction(g) <= brought'[o]
  <2> HIDE DEF f, g
  <2> QED BY <1>3, <1>5, <1>6, <1>7, <1>8, <1>9, <1>10, <1>11, <1>12
<1>14. ASSUME NEW q \in Workers, req'[q].order = o
       PROVE  Covers(c, E, req'[q].change)
  <2>1. CASE q = p
    BY <1>1, <1>14, <2>1
  <2>2. CASE q # p
    <3>1. req'[q] = req[q] /\ req[q].order = o
      BY <1>1, <1>14, <2>2
    <3>2. \A l \in req[q].change : l.id \in D /\ l.receivedQty <= b[l.id] /\ l.receivedQty \in Nat
      BY <1>2, <3>1 DEF Account, Covers, RequestTyped, Request, POLine
    <3>3. ASSUME NEW l \in req[q].change
          PROVE  l.id \in E /\ l.receivedQty <= c[l.id]
      <4>1. l.id \in D /\ l.id \in E
        BY <3>2
      <4>2. b[l.id] \in Nat /\ c[l.id] \in Nat /\ b[l.id] <= c[l.id]
        BY <4>1 DEF Account
      <4> QED BY <3>2, <4>1, <4>2
    <3> QED BY <3>1, <3>3 DEF Covers
  <2> QED BY <2>1, <2>2
<1>15. Account(o, E, c)'
  BY <1>13, <1>14 DEF Account
<1> QED BY <1>15 DEF AccountedFor

(* A version of a line that records nothing new. *)
Known(o, p) == po[o].lines \cup {c \in req[p].change : req[p].order = o}
Old(o, l, p) == \E m \in Known(o, p) : m.id = l.id /\ m.receivedQty = l.receivedQty

LEMMA OldCovered ==
  ASSUME NEW p \in Workers, NEW o, NEW D, NEW b, Account(o, D, b), NEW l, Old(o, l, p)
  PROVE  l.id \in D /\ l.receivedQty <= b[l.id]
<1>1. PICK m \in Known(o, p) : m.id = l.id /\ m.receivedQty = l.receivedQty
  BY DEF Old
<1>2. m.id \in D /\ m.receivedQty <= b[m.id]
  BY DEF Account, Covers, Known
<1>3. PICK x, y : x = m.id /\ y = m.receivedQty
  OBVIOUS
<1> QED BY <1>1, <1>2, <1>3

(* A new line has received nothing. *)
LEMMA AccountKept ==
  ASSUME TypeInv, Accounted, TypeInv', NEW p \in Workers, NEW r, RequestTyped(r),
         Proceed(p, r) \/ Accept(p, r), NEW o \in Orders,
         \A l \in po'[o].lines : Old(o, l, p) \/ l.receivedQty = 0,
         r.order = o => \A l \in r.change : Old(o, l, p),
         brought'[o] = brought[o], Ahead(r, o) <= Ahead(req[p], o)
  PROVE  AccountedFor(o)'
<1>1. PICK D, b : Account(o, D, b)
  BY DEF Accounted, AccountedFor
<1>2. PICK lines : lines = po'[o].lines
  OBVIOUS
<1>3. lines \subseteq POLine /\ IsFiniteSet(lines)
  BY <1>2 DEF TypeInv, OrdersTyped, OrderTyped, Order
<1>4. PICK ids : ids = {l.id : l \in lines}
  OBVIOUS
<1>5. IsFiniteSet(ids)
  <2>1. PICK f : f = [l \in lines |-> l.id]
    OBVIOUS
  <2>2. IsFiniteSet({f[l] : l \in lines})
    BY <1>3, FiniteImage
  <2> QED BY <1>4, <2>1, <2>2
<1>6. PICK E : E = D \cup ids
  OBVIOUS
<1>7. PICK c : c = [x \in E |-> IF x \in D THEN b[x] ELSE 0]
  OBVIOUS
<1>8. IsFiniteSet(D) /\ b \in [D -> Nat] /\ \A x \in D : b[x] \in Nat
  BY <1>1 DEF Account
<1>9. /\ IsFiniteSet(E) /\ D \subseteq E /\ c \in [E -> Nat]
      /\ \A x \in D : c[x] = b[x] /\ b[x] <= c[x]
      /\ \A x \in E \ D : c[x] = 0
  <2>1. IsFiniteSet(E) /\ D \subseteq E
    BY <1>5, <1>6, <1>8, FS_Union
  <2>2. \A x \in E : c[x] \in Nat
    BY <1>7, <1>8
  <2>3. \A x \in D : c[x] = b[x] /\ b[x] <= c[x]
    BY <1>7, <1>8, <2>1
  <2> QED BY <1>7, <2>1, <2>2, <2>3
<1>10. SumFunctionOnSet(c, E) = SumFunctionOnSet(b, D)
  BY <1>8, <1>9, SumExtended
<1>11. \A l \in lines : l.id \in E /\ l.receivedQty <= c[l.id]
  <2> SUFFICES ASSUME NEW l \in lines PROVE l.id \in E /\ l.receivedQty <= c[l.id]
    OBVIOUS
  <2>1. PICK x, y : x = l.id /\ y = l.receivedQty
    OBVIOUS
  <2>2. x \in E /\ c[x] \in Nat
    BY <1>4, <1>6, <1>9, <2>1
  <2>3. CASE Old(o, l, p)
    BY <1>1, <1>9, <2>1, <2>3, OldCovered
  <2>4. CASE y = 0
    BY <2>1, <2>2, <2>4
  <2> QED BY <1>2, <2>1, <2>3, <2>4
<1>12. Covers(c, E, po'[o].lines)
  BY <1>2, <1>11 DEF Covers
<1>13. r.order = o => Covers(c, E, r.change)
  <2> SUFFICES ASSUME NEW l \in r.change, Old(o, l, p)
               PROVE  l.id \in E /\ l.receivedQty <= c[l.id]
    BY DEF Covers
  <2>1. PICK x, y : x = l.id /\ y = l.receivedQty
    OBVIOUS
  <2> QED BY <1>1, <1>9, <2>1, OldCovered
<1>14. req' = [req EXCEPT ![p] = r]
  BY DEF Proceed, Accept
<1>15. brought'[o] \in Nat
  BY DEF TypeInv
<1>16. SumFunctionOnSet(c, E) + Ahead(r, o) + brought[o]
         <= SumFunctionOnSet(b, D) + Ahead(req[p], o) + brought'[o]
  <2>1. SumFunctionOnSet(b, D) \in Nat
    BY <1>8, SumNat
  <2>2. Ahead(r, o) \in Nat /\ Ahead(req[p], o) \in Nat
    BY AheadType DEF TypeInv, RequestsTyped
  <2>3. brought[o] \in Nat
    BY DEF TypeInv
  <2> QED BY <1>10, <2>1, <2>2, <2>3
<1> QED BY <1>1, <1>9, <1>12, <1>13, <1>14, <1>15, <1>16, AccountStep

(* A request that has nothing ahead of it and changes no received quantity. *)
LEMMA AccountedQuiet ==
  ASSUME TypeInv, Accounted, TypeInv', NEW p \in Workers, NEW r, RequestTyped(r),
         Proceed(p, r) \/ Accept(p, r), brought' = brought,
         \A o \in Orders : \A l \in po'[o].lines : Old(o, l, p) \/ l.receivedQty = 0,
         \A l \in r.change : Old(r.order, l, p),
         r.pc \notin {"receive", "record"}
  PROVE  Accounted'
<1> SUFFICES ASSUME NEW o \in Orders PROVE AccountedFor(o)'
  BY DEF Accounted
<1>1. Ahead(r, o) = 0
  BY DEF Ahead
<1>2. Ahead(req[p], o) \in Nat
  BY AheadType DEF TypeInv, RequestsTyped
<1>3. Ahead(r, o) <= Ahead(req[p], o) /\ brought'[o] = brought[o]
  BY <1>1, <1>2
<1> QED BY <1>3, AccountKept

LEMMA AccountedAnswered ==
  ASSUME TypeInv, Accounted, TypeInv', NEW p \in Workers, Answer(p), brought' = brought,
         \A o \in Orders : \A l \in po'[o].lines : Old(o, l, p) \/ l.receivedQty = 0
  PROVE  Accounted'
<1>1. Idle.change = {} /\ Idle.pc = "idle" /\ RequestTyped(Idle) /\ Proceed(p, Idle)
  BY IdleTyped DEF Idle, Answer
<1> QED BY <1>1, AccountedQuiet

LEMMA OldStored ==
  ASSUME NEW p, NEW o, NEW l \in po[o].lines
  PROVE  Old(o, l, p)
  BY DEF Old, Known

LEMMA OrdersKept ==
  ASSUME po' = po, NEW p
  PROVE  \A o \in Orders : \A l \in po'[o].lines : Old(o, l, p) \/ l.receivedQty = 0
  BY OldStored

(* The lines after a write are those stored, those the request computed,   *)
(* and new ones.                                                           *)
LEMMA WrittenOld ==
  ASSUME TypeInv, NEW p \in Workers, NEW l \in Written(req[p]).lines
  PROVE  Old(req[p].order, l, p) \/ l.receivedQty = 0
<1>1. Written(req[p]).lines = LinesAfter(req[p])
  BY DEF Written
<1>2. CASE l \in Untouched(req[p]) \cup Rewritten(req[p])
  BY <1>2 DEF Untouched, Rewritten, Kept, Old, Known
<1>3. CASE l \in Inserted(req[p].add, po[req[p].order].lastId)
  BY <1>3 DEF Inserted
<1> QED BY <1>1, <1>2, <1>3 DEF LinesAfter

LEMMA EndpointAccounted ==
  ASSUME TypeInv, Accounted, TypeInv', NEW p \in Workers, NEW o \in Orders,
         OrderEndpoint(p, o)
  PROVE  Accounted'
<1> DEFINE Harmless(r) ==
      /\ Accept(p, r) /\ UNCHANGED Rows
      /\ \A l \in r.change : Old(r.order, l, p)
      /\ r.pc \notin {"receive", "record"}
<1>1. ASSUME NEW r, Harmless(r)
      PROVE  Accounted'
  <2>1. RequestTyped(r)
    <3>1. req'[p] = r
      BY <1>1 DEF Accept, TypeInv, RequestsTyped
    <3> QED BY <3>1 DEF TypeInv, RequestsTyped
  <2>2. po' = po /\ brought' = brought
    BY <1>1 DEF Rows
  <2>3. \A u \in Orders : \A l \in po'[u].lines : Old(u, l, p) \/ l.receivedQty = 0
    BY <2>2, OrdersKept
  <2> QED BY <1>1, <2>1, <2>2, <2>3, AccountedQuiet
<1>l. po[o].lines \subseteq POLine
  BY DEF TypeInv, OrdersTyped, OrderTyped, Order
<1>L. PICK L : L = Loaded(o)
  OBVIOUS
<1>f. L.order = o /\ L.change = po[o].lines /\ L.pc = "write" /\ L.status = po[o].status
  BY <1>L DEF Loaded, Idle
<1>d. DOMAIN L = DOMAIN Idle /\ L = [Idle EXCEPT !.pc = "write", !.order = o,
                             !.status = po[o].status, !.change = po[o].lines]
  BY <1>L DEF Loaded
<1>2. ASSUME NEW doc \in OrderDocs, BeginCreate(p, o, doc)
      PROVE  Accounted'
  <2>1. PICK r : r = Checked([Idle EXCEPT !.order = o, !.add = doc, !.resolve = Mapped(doc)])
    OBVIOUS
  <2>2. r.change = {} /\ r.pc \in {"checks", "insert", "write"}
    BY <2>1 DEF Checked, Idle
  <2>3. Harmless(r)
    BY <1>2, <2>1, <2>2 DEF BeginCreate
  <2> HIDE DEF Harmless
  <2> QED BY <1>1, <2>3
<1>3. ASSUME NEW status, OrderRequest(p, o, [Loaded(o) EXCEPT !.status = status])
      PROVE  Accounted'
  <2>1. PICK r : r = [Loaded(o) EXCEPT !.status = status]
    OBVIOUS
  <2>2. r.change = po[o].lines /\ r.pc = "write" /\ r.order = o
    BY <2>1 DEF Loaded, Idle
  <2>3. Harmless(r)
    BY <1>3, <2>1, <2>2, OldStored DEF OrderRequest
  <2> HIDE DEF Harmless
  <2> QED BY <1>1, <2>3
<1>4. CASE Approve(p, o) \/ Close(p, o)
  BY <1>3, <1>4 DEF Approve, Close
<1>5. CASE Touch(p, o)
  <2>1. Harmless(L)
    BY <1>5, <1>L, <1>f, OldStored DEF Touch, OrderRequest
  <2> HIDE DEF Harmless
  <2> QED BY <1>1, <2>1
<1>6. CASE Cancel(p, o)
  <2>1. PICK r : r = [L EXCEPT !.status = "CANCELLED",
                               !.change = {Cancelled(l) : l \in po[o].lines}]
    OBVIOUS
  <2>2. r.change = {Cancelled(l) : l \in po[o].lines} /\ r.pc = "write" /\ r.order = o
    BY <2>1, <1>d DEF Idle
  <2>3. \A l \in po[o].lines : Cancelled(l).id = l.id /\ Cancelled(l).receivedQty = l.receivedQty
    BY <1>l DEF Cancelled, POLine
  <2>4. \A l \in r.change : Old(r.order, l, p)
    BY <2>2, <2>3 DEF Old, Known
  <2>5. Accept(p, r) /\ UNCHANGED Rows
    BY <1>6, <1>L, <1>f, <2>1 DEF Cancel, OrderRequest
  <2>6. Harmless(r)
    BY <2>2, <2>4, <2>5
  <2> HIDE DEF Harmless
  <2> QED BY <1>1, <2>6
<1>7. CASE Remove(p, o)
  <2>1. PICK r : r = [Idle EXCEPT !.pc = "delete", !.order = o]
    OBVIOUS
  <2>2. r.change = {} /\ r.pc = "delete"
    BY <2>1 DEF Idle
  <2>3. Harmless(r)
    BY <1>7, <2>1, <2>2 DEF Remove, OrderRequest
  <2> HIDE DEF Harmless
  <2> QED BY <1>1, <2>3
<1>8. ASSUME NEW line \in NewLines, AddLine(p, o, line)
      PROVE  Accounted'
  <2>1. PICK r : r = Checked([L EXCEPT
           !.add = {[line EXCEPT !.num = Cardinality(po[o].lines) + 1]},
           !.resolve = Mapped({line})])
    OBVIOUS
  <2>2. r.change = po[o].lines /\ r.order = o /\ r.pc \in {"checks", "insert", "write"}
    BY <2>1, <1>d DEF Checked, Idle
  <2>3. Harmless(r)
    BY <1>8, <1>L, <2>1, <2>2, OldStored DEF AddLine, OrderRequest
  <2> HIDE DEF Harmless
  <2> QED BY <1>1, <2>3
<1>9. ASSUME NEW line \in po[o].lines, NEW edit \in LineEdits, UpdateLine(p, o, line, edit)
      PROVE  Accounted'
  <2>1. PICK new : new = [line EXCEPT
                       !.orderQty = IF edit.orderQty = 0 THEN @ ELSE edit.orderQty,
                       !.soLine   = IF edit.soLine = NoSoLine THEN @ ELSE edit.soLine,
                       !.sku      = IF edit.sku = NoSku THEN @ ELSE edit.sku]
    OBVIOUS
  <2>2. new.id = line.id /\ new.receivedQty = line.receivedQty
    BY <1>l, <2>1 DEF POLine
  <2>3. PICK change : change = (po[o].lines \ {line}) \cup {new}
    OBVIOUS
  <2>4. PICK r : r = Checked([L EXCEPT !.change = change, !.resolve = Mapped({edit}),
                                       !.line = line.id])
    OBVIOUS
  <2>5. r.change = change /\ r.order = o /\ r.pc \in {"checks", "insert", "write"}
    BY <2>4, <1>d DEF Checked, Idle
  <2>6. \A l \in r.change : Old(r.order, l, p)
    BY <2>2, <2>3, <2>5 DEF Old, Known
  <2>7. Accept(p, r) /\ UNCHANGED Rows
    BY <1>9, <1>L, <1>f, <2>1, <2>3, <2>4 DEF UpdateLine, OrderRequest
  <2>8. Harmless(r)
    BY <2>5, <2>6, <2>7
  <2> HIDE DEF Harmless
  <2> QED BY <1>1, <2>8
<1>10. ASSUME NEW line \in po[o].lines, DeleteLine(p, o, line)
       PROVE  Accounted'
  <2>1. PICK r : r = [L EXCEPT !.change = po[o].lines \ {line}, !.drop = {line.id}]
    OBVIOUS
  <2>2. r.change = po[o].lines \ {line} /\ r.order = o /\ r.pc = "write"
    BY <2>1, <1>d DEF Idle
  <2>3. Accept(p, r) /\ UNCHANGED Rows
    BY <1>10, <1>L, <1>f, <2>1 DEF DeleteLine, OrderRequest
  <2>4. Harmless(r)
    BY <2>2, <2>3, OldStored
  <2> HIDE DEF Harmless
  <2> QED BY <1>1, <2>4
<1> QED
  BY <1>2, <1>4, <1>5, <1>6, <1>7, <1>8, <1>9, <1>10 DEF OrderEndpoint

LEMMA ServedAccounted ==
  ASSUME TypeInv, Accounted, TypeInv', NEW p \in Workers,
         \/ ResolveSoLine(p) \/ AssertNotMapped(p)
         \/ InsertOrder(p) \/ WriteOrder(p) \/ DeleteOrder(p)
         \/ SaveReceipt(p) \/ Abort(p)
  PROVE  Accounted'
<1>1. CASE ResolveSoLine(p) \/ AssertNotMapped(p)
  <2>1. po' = po /\ brought' = brought
    BY <1>1 DEF ResolveSoLine, AssertNotMapped, Rows
  <2>2. \A o \in Orders : \A l \in po'[o].lines : Old(o, l, p) \/ l.receivedQty = 0
    BY <2>1, OrdersKept
  <2>3. PICK r : r = req'[p]
    OBVIOUS
  <2>4. RequestTyped(r) /\ req[p] \in Request
    BY <2>3 DEF TypeInv, RequestsTyped, RequestTyped
  <2>5. CASE Answer(p)
    BY <2>1, <2>2, <2>5, AccountedAnswered
  <2>6. CASE ~ Answer(p)
    <3>1. \E s : \/ Proceed(p, [req[p] EXCEPT !.resolve = @ \ {s}, !.map = @ \cup {s}])
                 \/ Proceed(p, Checked([req[p] EXCEPT !.map = @ \ {s}]))
      BY <1>1, <2>6 DEF ResolveSoLine, AssertNotMapped
    <3>2. PICK s : \/ Proceed(p, [req[p] EXCEPT !.resolve = @ \ {s}, !.map = @ \cup {s}])
                   \/ Proceed(p, Checked([req[p] EXCEPT !.map = @ \ {s}]))
      BY <3>1
    <3>3. \/ r = [req[p] EXCEPT !.resolve = @ \ {s}, !.map = @ \cup {s}]
          \/ r = Checked([req[p] EXCEPT !.map = @ \ {s}])
      BY <2>3, <3>2 DEF Proceed, TypeInv, RequestsTyped
    <3>4. req[p].pc = "checks"
      BY <1>1 DEF ResolveSoLine, AssertNotMapped
    <3>5. /\ r.change = req[p].change /\ r.order = req[p].order
          /\ r.pc \notin {"receive", "record"}
      BY <2>4, <3>3, <3>4 DEF Checked, Request
    <3>6. Proceed(p, r)
      BY <2>3, <3>2 DEF Proceed, TypeInv, RequestsTyped
    <3>7. \A l \in r.change : Old(r.order, l, p)
      BY <3>5 DEF Old, Known
    <3> QED BY <2>1, <2>2, <2>4, <3>5, <3>6, <3>7, AccountedQuiet
  <2> QED BY <2>5, <2>6
<1>2. ASSUME Answer(p), brought' = brought,
             \A o \in Orders : \A l \in po'[o].lines : Old(o, l, p) \/ l.receivedQty = 0
      PROVE  Accounted'
  BY <1>2, AccountedAnswered
<1>3. CASE SaveReceipt(p) \/ Abort(p)
  <2>1. po' = po /\ brought' = brought /\ Answer(p)
    BY <1>3 DEF SaveReceipt, Abort, Rows
  <2> QED BY <1>2, <2>1, OrdersKept
<1>4. CASE InsertOrder(p)
  <2>1. ASSUME NEW o \in Orders, NEW l \in po'[o].lines
        PROVE  Old(o, l, p) \/ l.receivedQty = 0
    <3>1. \/ po'[o] = po[o]
          \/ po'[o].lines = Inserted(req[p].add, 0)
      BY <1>4 DEF InsertOrder, TypeInv, OrdersTyped
    <3>2. CASE po'[o] = po[o]
      BY <2>1, <3>2, OldStored
    <3>3. CASE po'[o].lines = Inserted(req[p].add, 0)
      BY <2>1, <3>3 DEF Inserted
    <3> QED BY <3>1, <3>2, <3>3
  <2> QED BY <1>2, <1>4, <2>1 DEF InsertOrder
<1>5. CASE WriteOrder(p)
  <2>1. ASSUME NEW o \in Orders, NEW l \in po'[o].lines
        PROVE  Old(o, l, p) \/ l.receivedQty = 0
    <3>1. \/ po'[o] = po[o]
          \/ o = req[p].order /\ po'[o] = Written(req[p])
      BY <1>5 DEF WriteOrder, TypeInv, OrdersTyped
    <3> QED BY <2>1, <3>1, OldStored, WrittenOld
  <2> QED BY <1>2, <1>5, <2>1 DEF WriteOrder
<1>6. CASE DeleteOrder(p)
  <2>1. ASSUME NEW o \in Orders, NEW l \in po'[o].lines
        PROVE  Old(o, l, p) \/ l.receivedQty = 0
    <3>1. req[p].order \in Orders
      BY <1>6 DEF DeleteOrder, TypeInv, RequestsTyped, RequestTyped
    <3>2. po'[o] = po[o] \/ po'[o].lines = {}
      <4>1. po[req[p].order] \in Order
        BY <3>1 DEF TypeInv, OrdersTyped, OrderTyped
      <4> QED BY <1>6, <3>1, <4>1 DEF DeleteOrder, TypeInv, OrdersTyped, Order
    <3> QED BY <2>1, <3>2, OldStored
  <2> QED BY <1>2, <1>6, <2>1 DEF DeleteOrder
<1> QED BY <1>1, <1>3, <1>4, <1>5, <1>6

LEMMA AheadReceiving ==
  ASSUME NEW r, RequestTyped(r), NEW todo, NEW o
  PROVE  /\ Receiving(r, todo).change = {}
         /\ Receiving(r, todo).order = r.order
         /\ Ahead(Receiving(r, todo), o) = IF r.order = o THEN TodoSum(todo) ELSE 0
<1>1. PICK s : s = Receiving(r, todo)
  OBVIOUS
<1>2. /\ s.todo = todo /\ s.change = {} /\ s.order = r.order
      /\ s.pc = IF todo = {} THEN "saveReceipt" ELSE "receive"
  BY <1>1 DEF Receiving, RequestTyped, Request
<1> QED BY <1>1, <1>2, TodoSumEmpty DEF Ahead

(* A step of the receiving part that records nothing new. *)
LEMMA ReceivingKept ==
  ASSUME TypeInv, Accounted, TypeInv', NEW p \in Workers, NEW r, RequestTyped(r),
         Proceed(p, r), r.change = {}, brought' = brought,
         \A o \in Orders : \A l \in po'[o].lines : Old(o, l, p) \/ l.receivedQty = 0,
         \A o \in Orders : Ahead(r, o) <= Ahead(req[p], o)
  PROVE  Accounted'
<1> SUFFICES ASSUME NEW o \in Orders PROVE AccountedFor(o)'
  BY DEF Accounted
<1>1. brought'[o] = brought[o] /\ \A l \in r.change : Old(o, l, p)
  OBVIOUS
<1> QED BY <1>1, AccountKept

LEMMA GivenUpAccounted ==
  ASSUME TypeInv, Accounted, TypeInv', NEW p \in Workers, Proceed(p, GiveUp(req[p])),
         req[p].pc \in {"receive", "record"}, UNCHANGED <<po, brought>>
  PROVE  Accounted'
<1>1. PICK r : r = GiveUp(req[p])
  OBVIOUS
<1>r. RequestTyped(req[p])
  BY DEF TypeInv, RequestsTyped
<1>2. RequestTyped(r) /\ r.change = {}
  BY <1>r, <1>1, GiveUpTyped, AheadReceiving DEF GiveUp
<1>3. \A o \in Orders : Ahead(r, o) <= Ahead(req[p], o)
  BY <1>r, <1>1, AheadReceiving, AheadType, TodoSumEmpty DEF GiveUp
<1> QED BY <1>1, <1>2, <1>3, OrdersKept, ReceivingKept

(* The stock of a receipt is moved: all of it is ahead of the request. *)
LEMMA BeginAccounted ==
  ASSUME TypeInv, Accounted, TypeInv', NEW p \in Workers, NEW i \in ReceiptIds,
         BeginCompletion(p, i)
  PROVE  Accounted'
<1>1. PICK lines, o : lines = receipt[i].lines /\ o = receipt[i].order
  OBVIOUS
<1>2. PICK s : s = [Idle EXCEPT !.order = o, !.receipt = i]
  OBVIOUS
<1>3. ReceiptLinesTyped(lines) /\ o \in Orders
  BY <1>1 DEF BeginCompletion, TypeInv, ReceiptsTyped, ReceiptTyped, Receipt
<1>4. PICK r : r = Receiving(s, lines)
  OBVIOUS
<1>5. /\ Accept(p, r) /\ req[p].pc = "idle" /\ po' = po
      /\ brought' = [brought EXCEPT ![o] = brought[o] + TodoSum(lines)]
  BY <1>1, <1>2, <1>4 DEF BeginCompletion, Accept, TodoSum
<1>6. RequestTyped(r)
  <2>1. req'[p] = r
    BY <1>5 DEF Accept, TypeInv, RequestsTyped
  <2> QED BY <2>1 DEF TypeInv, RequestsTyped
<1>7. RequestTyped(s) /\ s.order = o
  <2>1. s \in Request
    BY <1>2, <1>3 DEF Idle, Request, Points
  <2> QED BY <1>2, <1>3, <2>1, NothingTyped DEF RequestTyped, Idle
<1>8. r.change = {} /\ r.order = o
  BY <1>4, <1>7, AheadReceiving
<1>9. \A u \in Orders : Ahead(r, u) = IF u = o THEN TodoSum(lines) ELSE 0
  BY <1>4, <1>7, AheadReceiving
<1>10. \A u \in Orders : Ahead(req[p], u) = 0
  BY <1>5 DEF Ahead
<1>11. TodoSum(lines) \in Nat
  BY <1>3, RestTyped
<1> SUFFICES ASSUME NEW u \in Orders PROVE AccountedFor(u)'
  BY DEF Accounted
<1>12. CASE u # o
  <2>1. Ahead(r, u) <= Ahead(req[p], u) /\ brought'[u] = brought[u]
    BY <1>5, <1>9, <1>10, <1>12 DEF TypeInv
  <2>2. \A l \in po'[u].lines : Old(u, l, p) \/ l.receivedQty = 0
    BY <1>5, OldStored
  <2>3. \A l \in r.change : Old(u, l, p)
    BY <1>8
  <2> QED BY <1>5, <1>6, <2>1, <2>2, <2>3, AccountKept
<1>13. CASE u = o
  <2>1. PICK D, b : Account(u, D, b)
    BY DEF Accounted, AccountedFor
  <2>2. /\ IsFiniteSet(D) /\ b \in [D -> Nat] /\ (\A x \in D : b[x] <= b[x])
        /\ Covers(b, D, po'[u].lines) /\ Covers(b, D, r.change)
    BY <1>5, <1>8, <2>1 DEF Account, Covers
  <2>3. brought[u] \in Nat /\ brought'[u] = brought[u] + TodoSum(lines)
    BY <1>5, <1>13 DEF TypeInv
  <2>4. brought'[u] \in Nat
    BY <1>11, <2>3
  <2>5. SumFunctionOnSet(b, D) + Ahead(r, u) + brought[u]
          <= SumFunctionOnSet(b, D) + Ahead(req[p], u) + brought'[u]
    <3>1. SumFunctionOnSet(b, D) \in Nat
      BY <2>2, SumNat
    <3>2. Ahead(r, u) = TodoSum(lines) /\ Ahead(req[p], u) = 0
      BY <1>9, <1>10, <1>13
    <3> QED BY <1>11, <2>3, <3>1, <3>2
  <2>6. req' = [req EXCEPT ![p] = r]
    BY <1>5 DEF Accept
  <2> QED BY <1>6, <2>1, <2>2, <2>4, <2>5, <2>6, AccountStep
<1> QED BY <1>12, <1>13

(* The new version of a line is entered into the account. *)
LEMMA ReadAccounted ==
  ASSUME TypeInv, Accounted, TypeInv', NEW p \in Workers, ReadForReceipt(p)
  PROVE  Accounted'
<1>r. RequestTyped(req[p]) /\ req[p] \in Request /\ ReceiptLinesTyped(req[p].todo)
  BY DEF TypeInv, RequestsTyped, RequestTyped
<1>1. PICK o : o = req[p].order
  OBVIOUS
<1>2. /\ o \in Orders /\ req[p].pc = "receive" /\ po' = po /\ brought' = brought
      /\ po[o].lines \subseteq POLine
  BY <1>r, <1>1 DEF ReadForReceipt, Rows, RequestTyped, TypeInv, OrdersTyped, OrderTyped, Order
<1>3. CASE Proceed(p, GiveUp(req[p]))
  BY <1>2, <1>3, GivenUpAccounted
<1>4. ASSUME NEW t \in req[p].todo, First(t, req[p].todo), NEW l \in po[o].lines,
             NEW lines, lines = (po[o].lines \ {l}) \cup {Received(l, t.baseQty)},
             Proceed(p, [req[p] EXCEPT !.pc = "record", !.change = lines,
                                       !.status = StatusAfter(o, lines)])
      PROVE  Accounted'
  <2>1. PICK v, status : v = Received(l, t.baseQty) /\ status = StatusAfter(o, lines)
    OBVIOUS
  <2>2. PICK r : r = [req[p] EXCEPT !.pc = "record", !.change = lines, !.status = status]
    OBVIOUS
  <2>3. l \in POLine /\ t.baseQty \in Nat
    BY <1>r, <1>2 DEF ReceiptLinesTyped, ReceiptLine
  <2>4. v \in POLine /\ v.id = l.id /\ v.receivedQty = l.receivedQty + t.baseQty
    BY <2>1, <2>3, ReceivedTyped
  <2>5. r.change = lines /\ r.order = o /\ r.pc = "record" /\ r.todo = req[p].todo
    BY <1>r, <1>1, <2>2 DEF Request
  <2>6. Proceed(p, r) /\ req' = [req EXCEPT ![p] = r]
    BY <1>4, <2>1, <2>2 DEF Proceed
  <2>7. RequestTyped(r)
    <3>1. req'[p] = r
      BY <2>6 DEF TypeInv, RequestsTyped
    <3> QED BY <3>1 DEF TypeInv, RequestsTyped
  <2>8. PICK rest : rest = req[p].todo \ {t}
    OBVIOUS
  <2>9. {u \in req[p].todo : ~ First(u, req[p].todo)} = rest
    BY <1>r, <1>4, <2>8, OneFirst
  <2>10. TodoSum(rest) \in Nat /\ TodoSum(req[p].todo) = t.baseQty + TodoSum(rest)
    BY <1>r, <2>8, RestTyped, TodoSumRemove
  <2>11. \A u \in Orders : /\ Ahead(r, u) = IF u = o THEN TodoSum(rest) ELSE 0
                           /\ Ahead(req[p], u) = IF u = o THEN TodoSum(req[p].todo) ELSE 0
    BY <1>1, <1>2, <2>5, <2>9 DEF Ahead
  <2> SUFFICES ASSUME NEW u \in Orders PROVE AccountedFor(u)'
    BY DEF Accounted
  <2>12. CASE u # o
    <3>1. Ahead(r, u) <= Ahead(req[p], u) /\ brought'[u] = brought[u]
      BY <1>2, <2>11, <2>12
    <3>2. \A m \in po'[u].lines : Old(u, m, p) \/ m.receivedQty = 0
      BY <1>2, OldStored
    <3>3. r.order # u
      BY <2>5, <2>12
    <3> QED BY <2>6, <2>7, <3>1, <3>2, <3>3, AccountKept
  <2>13. CASE u = o
    <3>1. PICK D, b : Account(u, D, b)
      BY DEF Accounted, AccountedFor
    <3>2. IsFiniteSet(D) /\ b \in [D -> Nat] /\ \A x \in D : b[x] \in Nat
      BY <3>1 DEF Account
    <3>3. PICK id, qty : id = l.id /\ qty = t.baseQty
      OBVIOUS
    <3>4. id \in D /\ l.receivedQty <= b[id] /\ l.receivedQty \in Nat /\ qty \in Nat
      BY <2>3, <2>13, <3>1, <3>3 DEF Account, Covers, POLine
    <3>5. PICK c : c = [b EXCEPT ![id] = b[id] + qty]
      OBVIOUS
    <3>6. /\ c \in [D -> Nat] /\ c[id] = b[id] + qty
          /\ \A x \in D \ {id} : c[x] = b[x]
      BY <3>2, <3>4, <3>5
    <3>7. \A x \in D : b[x] <= c[x] /\ c[x] \in Nat
      BY <3>2, <3>4, <3>6
    <3>8. SumFunctionOnSet(c, D) = SumFunctionOnSet(b, D) + qty
      <4>1. \A x \in D : b[x] \in Int /\ c[x] \in Int
        BY <3>2, <3>7
      <4>2. SumFunctionOnSet(c, D) = SumFunctionOnSet(b, D) - b[id] + c[id]
        BY <3>2, <3>4, <3>6, <4>1, SumChange
      <4>3. SumFunctionOnSet(b, D) \in Nat /\ b[id] \in Nat
        BY <3>2, <3>4, SumNat
      <4> QED BY <3>4, <3>6, <4>2, <4>3
    <3>9. \A m \in po[u].lines : m.id \in D /\ m.receivedQty <= c[m.id]
      <4> SUFFICES ASSUME NEW m \in po[u].lines PROVE m.id \in D /\ m.receivedQty <= c[m.id]
        OBVIOUS
      <4>1. m.id \in D /\ m.receivedQty <= b[m.id]
        BY <3>1 DEF Account, Covers
      <4>2. m.receivedQty \in Nat
        BY <1>2, <2>13 DEF POLine
      <4>3. PICK x, y : x = m.id /\ y = m.receivedQty
        OBVIOUS
      <4>4. b[x] \in Nat /\ c[x] \in Nat /\ b[x] <= c[x] /\ y <= b[x]
        BY <3>2, <3>7, <4>1, <4>3
      <4> QED BY <4>1, <4>2, <4>3, <4>4
    <3>10. Covers(c, D, po'[u].lines)
      BY <1>2, <3>9 DEF Covers
    <3>11. v.id \in D /\ v.receivedQty <= c[v.id]
      <4>1. b[id] \in Nat /\ v.receivedQty = l.receivedQty + qty /\ v.id = id
        BY <2>4, <3>2, <3>3, <3>4
      <4>2. v.receivedQty <= c[id]
        BY <3>4, <3>6, <4>1
      <4> QED BY <3>4, <4>1, <4>2
    <3>12. Covers(c, D, r.change)
      BY <1>4, <2>1, <2>5, <2>13, <3>9, <3>11 DEF Covers
    <3>13. brought[u] \in Nat /\ brought'[u] = brought[u]
      BY <1>2 DEF TypeInv
    <3>14. SumFunctionOnSet(c, D) + Ahead(r, u) + brought[u]
             <= SumFunctionOnSet(b, D) + Ahead(req[p], u) + brought'[u]
      <4>1. SumFunctionOnSet(b, D) \in Nat
        BY <3>2, SumNat
      <4>2. Ahead(r, u) = TodoSum(rest) /\ Ahead(req[p], u) = qty + TodoSum(rest)
        BY <2>10, <2>11, <2>13, <3>3
      <4> QED BY <2>10, <3>4, <3>8, <3>13, <4>1, <4>2
    <3> QED BY <2>6, <2>7, <3>1, <3>2, <3>6, <3>7, <3>10, <3>12, <3>13, <3>14, AccountStep, ZenonT(60)
  <2> QED BY <2>12, <2>13
<1> QED BY <1>1, <1>3, <1>4 DEF ReadForReceipt

LEMMA RecordAccounted ==
  ASSUME TypeInv, Accounted, TypeInv', NEW p \in Workers, RecordReceipt(p)
  PROVE  Accounted'
<1>r. RequestTyped(req[p]) /\ ReceiptLinesTyped(req[p].todo)
  BY DEF TypeInv, RequestsTyped, RequestTyped
<1>1. req[p].pc = "record" /\ brought' = brought
  BY DEF RecordReceipt
<1>2. CASE Proceed(p, GiveUp(req[p])) /\ UNCHANGED po
  BY <1>1, <1>2, GivenUpAccounted
<1>3. ASSUME NEW t \in req[p].todo, First(t, req[p].todo),
             po' = [po EXCEPT ![req[p].order] = Written(req[p])],
             Proceed(p, Receiving(req[p], req[p].todo \ {t}))
      PROVE  Accounted'
  <2>1. PICK rest : rest = req[p].todo \ {t}
    OBVIOUS
  <2>2. PICK r : r = Receiving(req[p], rest)
    OBVIOUS
  <2>3. Proceed(p, r)
    BY <1>3, <2>1, <2>2
  <2>4. RequestTyped(r)
    <3>1. req'[p] = r
      BY <2>3 DEF Proceed, TypeInv, RequestsTyped
    <3> QED BY <3>1 DEF TypeInv, RequestsTyped
  <2>5. r.change = {}
    BY <1>r, <2>2, AheadReceiving
  <2>6. {u \in req[p].todo : ~ First(u, req[p].todo)} = rest
    BY <1>r, <1>3, <2>1, OneFirst
  <2>7. TodoSum(rest) \in Nat
    BY <1>r, <2>1, RestTyped
  <2>8. \A o \in Orders : Ahead(r, o) <= Ahead(req[p], o)
    <3> TAKE o \in Orders
    <3>1. Ahead(r, o) = IF req[p].order = o THEN TodoSum(rest) ELSE 0
      BY <1>r, <2>2, AheadReceiving
    <3>2. Ahead(req[p], o) = IF req[p].order = o THEN TodoSum(rest) ELSE 0
      BY <1>1, <2>6 DEF Ahead
    <3> QED BY <2>7, <3>1, <3>2
  <2>9. ASSUME NEW o \in Orders, NEW l \in po'[o].lines
        PROVE  Old(o, l, p) \/ l.receivedQty = 0
    <3>1. \/ po'[o] = po[o]
          \/ o = req[p].order /\ po'[o] = Written(req[p])
      BY <1>3 DEF TypeInv, OrdersTyped
    <3> QED BY <2>9, <3>1, OldStored, WrittenOld
  <2> QED BY <1>1, <2>3, <2>4, <2>5, <2>8, <2>9, ReceivingKept
<1> QED BY <1>2, <1>3 DEF RecordReceipt

(* Releasing a mapping changes no quantity. *)
LEMMA SoLineAccounted ==
  ASSUME TypeInv, Accounted, NEW s \in SoLines, CloseSoLine(s) \/ DeleteSoLine(s)
  PROVE  Accounted'
<1> SUFFICES ASSUME NEW o \in Orders PROVE AccountedFor(o)'
  BY DEF Accounted
<1>1. PICK D, b : Account(o, D, b)
  BY DEF Accounted, AccountedFor
<1>2. req' = req /\ brought' = brought
  BY DEF CloseSoLine, DeleteSoLine
<1>3. ASSUME NEW l \in po'[o].lines
      PROVE  \E m \in po[o].lines : m.id = l.id /\ m.receivedQty = l.receivedQty
  <2>1. CASE po' = po
    BY <1>3, <2>1
  <2>2. CASE DeleteSoLine(s)
    <3>1. po[o] \in Order /\ po[o].lines \subseteq POLine
      BY DEF TypeInv, OrdersTyped, OrderTyped, Order
    <3>2. po'[o].lines = {[m EXCEPT !.soLine = IF @ = s THEN NoSoLine ELSE @] : m \in po[o].lines}
      BY <2>2, <3>1 DEF DeleteSoLine, Order
    <3>3. PICK m \in po[o].lines : l = [m EXCEPT !.soLine = IF @ = s THEN NoSoLine ELSE @]
      BY <1>3, <3>2
    <3>4. m.id = l.id /\ m.receivedQty = l.receivedQty
      BY <3>1, <3>3 DEF POLine
    <3> QED BY <3>4
  <2> QED BY <2>1, <2>2 DEF CloseSoLine
<1>4. \A l \in po'[o].lines : l.id \in D /\ l.receivedQty <= b[l.id]
  <2> SUFFICES ASSUME NEW l \in po'[o].lines PROVE l.id \in D /\ l.receivedQty <= b[l.id]
    OBVIOUS
  <2>1. PICK m \in po[o].lines : m.id = l.id /\ m.receivedQty = l.receivedQty
    BY <1>3
  <2>2. m.id \in D /\ m.receivedQty <= b[m.id]
    BY <1>1 DEF Account, Covers
  <2>3. PICK x, y : x = m.id /\ y = m.receivedQty
    OBVIOUS
  <2> QED BY <2>1, <2>2, <2>3
<1>5. Account(o, D, b)'
  BY <1>1, <1>2, <1>4 DEF Account, Covers
<1> QED BY <1>5 DEF AccountedFor

LEMMA NextAccounted == TypeInv /\ Accounted /\ [Next]_vars => Accounted'
<1> SUFFICES ASSUME TypeInv, Accounted, [Next]_vars PROVE Accounted'
  OBVIOUS
<1>t. TypeInv'
  BY NextTyped
<1>1. CASE UNCHANGED <<po, req, brought>>
  BY <1>1 DEF Accounted, AccountedFor, Account
<1>2. ASSUME NEW p \in Workers, ReceivingFails(p)
      PROVE  Accounted'
  BY <1>2, <1>t, GivenUpAccounted DEF ReceivingFails, Rows
<1>3. CASE \E i \in ReceiptIds : ReceiptEndpoint(i)
  BY <1>1, <1>3, ReceiptSteps
<1>4. CASE Next
  BY <1>t, <1>1, <1>2, <1>3, <1>4, EndpointAccounted, ServedAccounted, BeginAccounted,
     ReadAccounted, RecordAccounted, SoLineAccounted
  DEF Next, Serve, Quiet, vars
<1> QED BY <1>1, <1>4 DEF vars

LEMMA InitAccounted == Init => Accounted
<1> SUFFICES ASSUME Init, NEW o \in Orders PROVE AccountedFor(o)
  BY DEF Accounted
<1>1. PICK b : b = [x \in {} |-> 0]
  OBVIOUS
<1>2. IsFiniteSet({}) /\ b \in [{} -> Nat]
  BY <1>1, FS_EmptySet
<1>3. Covers(b, {}, po[o].lines) /\ \A p \in Workers : Covers(b, {}, req[p].change)
  BY DEF Covers, Init, Idle
<1>4. SumFunctionOnSet(b, {}) = 0
  BY SumEmpty
<1>5. SumFunction([p \in Workers |-> Ahead(req[p], o)]) = 0
  <2>1. PICK ahead : ahead = [p \in Workers |-> Ahead(req[p], o)]
    OBVIOUS
  <2>2. \A p \in Workers : ahead[p] = 0
    BY <2>1 DEF Init, Idle, Ahead
  <2>3. SumFunctionOnSet(ahead, Workers) = 0
    BY <2>2, SumOfZeros, ReceivingAssumption
  <2>4. SumFunction(ahead) = SumFunctionOnSet(ahead, Workers)
    BY <2>1 DEF SumFunction
  <2> QED BY <2>1, <2>3, <2>4
<1>6. brought[o] = 0
  BY DEF Init
<1>7. Account(o, {}, b)
  BY <1>2, <1>3, <1>4, <1>5, <1>6 DEF Account
<1> QED BY <1>7 DEF AccountedFor

LEMMA AccountedIsBrought == TypeInv /\ Accounted => ReceivedIsBrought
<1> SUFFICES ASSUME TypeInv, Accounted, NEW o \in Orders
             PROVE  TotalReceived(o) <= brought[o]
  BY DEF ReceivedIsBrought
<1>1. PICK D, b : Account(o, D, b)
  BY DEF Accounted, AccountedFor
<1>2. PICK lines : lines = po[o].lines
  OBVIOUS
<1>3. PICK received, id : /\ received = [l \in lines |-> l.receivedQty]
                          /\ id = [l \in lines |-> l.id]
  OBVIOUS
<1>4. lines \subseteq POLine /\ IsFiniteSet(lines) /\ ById(lines)
  BY <1>2 DEF TypeInv, OrdersTyped, OrderTyped, Order
<1>5. IsFiniteSet(D) /\ \A x \in D : b[x] \in Nat
  BY <1>1 DEF Account
<1>6. id \in [lines -> D] /\ \A l, m \in lines : id[l] = id[m] => l = m
  BY <1>1, <1>2, <1>3, <1>4 DEF Account, Covers, ById
<1>7. \A l \in lines : received[l] \in Nat /\ received[l] \in Int /\ received[l] <= b[id[l]]
  BY <1>1, <1>2, <1>3, <1>4 DEF Account, Covers, POLine
<1>8. SumFunctionOnSet(received, lines) <= SumFunctionOnSet(b, D)
  BY <1>4, <1>5, <1>6, <1>7, SumBounded
<1>9. TotalReceived(o) = SumFunctionOnSet(received, lines)
  BY <1>2, <1>3 DEF TotalReceived, SumFunction
<1>10. PICK ahead : ahead = [p \in Workers |-> Ahead(req[p], o)]
  OBVIOUS
<1>11. SumFunctionOnSet(b, D) + SumFunction(ahead) <= brought[o]
  BY <1>1, <1>10 DEF Account
<1>12. SumFunction(ahead) \in Nat
  <2>1. \A p \in Workers : ahead[p] \in Nat
    BY <1>10, AheadType DEF TypeInv, RequestsTyped
  <2>2. SumFunctionOnSet(ahead, Workers) \in Nat
    BY <2>1, SumNat, ReceivingAssumption
  <2> QED BY <1>10, <2>2 DEF SumFunction
<1>13. SumFunctionOnSet(b, D) \in Nat /\ SumFunctionOnSet(received, lines) \in Nat
       /\ brought[o] \in Nat
  BY <1>4, <1>5, <1>7, SumNat DEF TypeInv
<1> QED BY <1>8, <1>9, <1>11, <1>12, <1>13

(* An order never records more than was moved into stock for it, for any   *)
(* orders, receipts and number of requests at a time, and faults           *)
(* (PORepository.updatePO).                                                *)
THEOREM NothingReceivedFromNowhere == Spec => []ReceivedIsBrought
<1>1. TypeInv /\ Accounted /\ [Next]_vars => (TypeInv /\ Accounted)'
  BY NextTyped, NextAccounted
<1>2. Spec => [](TypeInv /\ Accounted)
  BY <1>1, InitTyped, InitAccounted, PTL DEF Spec
<1> QED BY <1>2, AccountedIsBrought, PTL

--------------------------------------------------------------------------------

(***************************************************************************)
(* Statuses, when requests do not overlap.  What a request has computed    *)
(* then fits the rows it was computed from: it is a version of each line   *)
(* of the order, and no line was inserted or deleted unless the order is   *)
(* a draft.                                                                *)
(***************************************************************************)

Serial == \A p, q \in Workers : p = q

Fits(status, lines) ==
  LET active == {l \in lines : l.status # "CANCELLED"}
  IN  /\ status \in {"RECEIVED", "CLOSED"} => \A l \in active : l.status = "RECEIVED"
      /\ status = "PARTIALLY_RECEIVED" =>
           /\ \E l \in active : l.status # "RECEIVED"
           /\ \E l \in active : l.status # "OPEN"

Prepared(r) == r.pc \in {"checks", "write", "record"} /\ r.status # "NONE"

VersionsOf(r, lines) ==
  /\ \A l \in lines : l.id \in r.drop \/ \E c \in r.change : c.id = l.id
  /\ \A c \in r.change : \E l \in lines : c.id = l.id

Ready(r) ==
  /\ Prepared(r) =>
       /\ r.status = po[r.order].status \/ CanTransition(r.order, r.status)
       /\ Fits(r.status, r.change)
       /\ r.add # {} \/ r.drop # {} => r.status = "DRAFT"
       /\ VersionsOf(r, po[r.order].lines)
  /\ r.pc \in {"checks", "insert"} /\ r.status = "NONE" => po[r.order].status = "NONE"
  /\ r.pc = "insert" => r.status = "NONE"
  /\ r.pc \in {"receive", "record"} => r.drop = {}

OrdersFit == \A o \in Orders : Fits(po[o].status, po[o].lines)

SerialInv == OrdersFit /\ \A p \in Workers : Ready(req[p])

LEMMA OneRequestReady ==
  ASSUME Serial, TypeInv, NEW p \in Workers, NEW r, Proceed(p, r) \/ Accept(p, r),
         Ready(r)', OrdersFit'
  PROVE  SerialInv'
<1>1. \A q \in Workers : req'[q] = r
  BY DEF TypeInv, RequestsTyped, Proceed, Accept, Serial
<1> QED BY <1>1 DEF SerialInv

LEMMA QuietReady ==
  ASSUME Serial, TypeInv, SerialInv, NEW p \in Workers, NEW r, Proceed(p, r) \/ Accept(p, r),
         Ready(r), po' = po
  PROVE  SerialInv'
<1>1. Ready(r)' /\ OrdersFit'
  BY DEF Ready, OrdersFit, SerialInv, CanTransition
<1> QED BY <1>1, OneRequestReady

LEMMA UnpreparedReady ==
  ASSUME NEW r, r.pc \notin {"checks", "insert", "write", "record"},
         r.pc = "receive" => r.drop = {}
  PROVE  Ready(r)
  BY DEF Ready, Prepared

LEMMA LoadedReady ==
  ASSUME TypeInv, SerialInv, NEW o \in Orders, NEW r,
         r.order = o, r.pc = "write",
         r.status = po[o].status \/ CanTransition(o, r.status),
         Fits(r.status, r.change),
         r.add # {} \/ r.drop # {} => r.status = "DRAFT",
         VersionsOf(r, po[o].lines)
  PROVE  Ready(r)
  BY DEF Ready

LEMMA EndpointReady ==
  ASSUME Serial, TypeInv, SerialInv, NEW p \in Workers, NEW o \in Orders,
         OrderEndpoint(p, o)
  PROVE  SerialInv'
<1>o. /\ po[o] \in Order /\ po[o].lines \subseteq POLine /\ Fits(po[o].status, po[o].lines)
  BY DEF TypeInv, OrdersTyped, OrderTyped, Order, SerialInv, OrdersFit
<1>1. ASSUME NEW r, OrderRequest(p, o, r), Ready(r)
      PROVE  SerialInv'
  BY <1>1, QuietReady DEF OrderRequest, Rows
<1>L. PICK L : L = Loaded(o)
  OBVIOUS
<1>d. L = [Idle EXCEPT !.pc = "write", !.order = o, !.status = po[o].status,
                       !.change = po[o].lines]
  BY <1>L DEF Loaded
<1>f. /\ L.order = o /\ L.pc = "write" /\ L.status = po[o].status
      /\ L.change = po[o].lines /\ L.add = {} /\ L.drop = {}
  BY <1>d DEF Idle
<1>v. VersionsOf(L, po[o].lines)
  BY <1>f DEF VersionsOf
<1>2. ASSUME NEW doc \in OrderDocs, BeginCreate(p, o, doc)
      PROVE  SerialInv'
  <2>1. PICK r : r = Checked([Idle EXCEPT !.order = o, !.add = doc, !.resolve = Mapped(doc)])
    OBVIOUS
  <2>2. r.order = o /\ r.status = "NONE" /\ r.pc \in {"checks", "insert"}
    BY <2>1 DEF Checked, Idle
  <2>3. Ready(r)
    BY <1>2, <2>2 DEF Ready, Prepared, BeginCreate
  <2> QED BY <1>2, <2>1, <2>3, QuietReady DEF BeginCreate, Rows
<1>3. CASE Approve(p, o)
  <2>1. PICK r : r = [L EXCEPT !.status = "APPROVED"]
    OBVIOUS
  <2>2. /\ r.order = o /\ r.pc = "write" /\ r.status = "APPROVED"
        /\ r.change = po[o].lines /\ r.add = {} /\ r.drop = {}
    BY <1>d, <2>1 DEF Idle
  <2>3. Ready(r)
    BY <1>3, <1>v, <1>f, <2>2, LoadedReady DEF Fits, VersionsOf, Approve
  <2> QED BY <1>1, <1>3, <1>L, <2>1, <2>3 DEF Approve
<1>4. CASE Close(p, o)
  <2>1. PICK r : r = [L EXCEPT !.status = "CLOSED"]
    OBVIOUS
  <2>2. /\ r.order = o /\ r.pc = "write" /\ r.status = "CLOSED"
        /\ r.change = po[o].lines /\ r.add = {} /\ r.drop = {}
    BY <1>d, <2>1 DEF Idle
  <2>3. po[o].status = "RECEIVED"
    BY <1>4 DEF Close, CanTransition, Transitions
  <2>4. Ready(r)
    BY <1>4, <1>o, <1>v, <1>f, <2>2, <2>3, LoadedReady DEF Fits, VersionsOf, Close
  <2> QED BY <1>1, <1>4, <1>L, <2>1, <2>4 DEF Close
<1>5. CASE Touch(p, o)
  <2>1. Ready(L)
    BY <1>o, <1>v, <1>f, LoadedReady
  <2> QED BY <1>1, <1>5, <1>L, <2>1 DEF Touch
<1>6. CASE Cancel(p, o)
  <2>1. PICK change : change = {Cancelled(l) : l \in po[o].lines}
    OBVIOUS
  <2>2. PICK r : r = [L EXCEPT !.status = "CANCELLED", !.change = change]
    OBVIOUS
  <2>3. /\ r.order = o /\ r.pc = "write" /\ r.status = "CANCELLED"
        /\ r.change = change /\ r.add = {} /\ r.drop = {}
    BY <1>d, <2>2 DEF Idle
  <2>4. \A l \in po[o].lines : Cancelled(l).id = l.id
    BY <1>o DEF Cancelled, POLine
  <2>5. VersionsOf(r, po[o].lines)
    BY <2>1, <2>3, <2>4 DEF VersionsOf
  <2>6. Ready(r)
    BY <1>6, <2>3, <2>5, LoadedReady DEF Fits, Cancel
  <2>7. OrderRequest(p, o, r)
    BY <1>6, <1>L, <1>f, <2>1, <2>2 DEF Cancel
  <2> QED BY <1>1, <2>6, <2>7
<1>7. CASE Remove(p, o)
  <2>1. PICK r : r = [Idle EXCEPT !.pc = "delete", !.order = o]
    OBVIOUS
  <2>2. r.pc = "delete"
    BY <2>1 DEF Idle
  <2> QED BY <1>1, <1>7, <2>1, <2>2, UnpreparedReady DEF Remove
<1>8. ASSUME NEW line \in NewLines, AddLine(p, o, line)
      PROVE  SerialInv'
  <2>1. PICK n : n = [line EXCEPT !.num = Cardinality(po[o].lines) + 1]
    OBVIOUS
  <2>2. PICK r : r = [L EXCEPT !.add = {n}, !.resolve = Mapped({line})]
    OBVIOUS
  <2>3. /\ r.order = o /\ r.pc = "write" /\ r.status = po[o].status
        /\ r.change = po[o].lines /\ r.drop = {}
    BY <1>d, <2>2 DEF Idle
  <2>4. po[o].status = "DRAFT" /\ OrderRequest(p, o, Checked(r)) /\ Found(o)
    BY <1>8, <1>L, <2>1, <2>2 DEF AddLine, OrderRequest
  <2>5. Ready(r)
    BY <1>o, <1>v, <1>f, <2>3, <2>4, LoadedReady DEF VersionsOf
  <2>7. Ready(Checked(r))
    <3>1. PICK s : s = Checked(r)
      OBVIOUS
    <3>2. r.status # "NONE"
      BY <2>3, <2>4
    <3>3. /\ s.order = r.order /\ s.status = r.status /\ s.change = r.change
          /\ s.add = r.add /\ s.drop = r.drop /\ s.pc \in {"checks", "write"}
      BY <1>d, <2>2, <3>1, <3>2 DEF Checked, Idle
    <3>4. Ready(s)
      BY <2>3, <2>5, <3>2, <3>3 DEF Ready, Prepared, VersionsOf
    <3> QED BY <3>1, <3>4
  <2> QED BY <1>1, <2>4, <2>7
<1>9. ASSUME NEW line \in po[o].lines, NEW edit \in LineEdits, UpdateLine(p, o, line, edit)
      PROVE  SerialInv'
  <2>1. PICK new : new = [line EXCEPT
                       !.orderQty = IF edit.orderQty = 0 THEN @ ELSE edit.orderQty,
                       !.soLine   = IF edit.soLine = NoSoLine THEN @ ELSE edit.soLine,
                       !.sku      = IF edit.sku = NoSku THEN @ ELSE edit.sku]
    OBVIOUS
  <2>2. new.id = line.id /\ new.status = line.status
    BY <1>o, <2>1 DEF POLine
  <2>3. PICK change : change = (po[o].lines \ {line}) \cup {new}
    OBVIOUS
  <2>4. PICK r : r = [L EXCEPT !.change = change, !.resolve = Mapped({edit}), !.line = line.id]
    OBVIOUS
  <2>5. /\ r.order = o /\ r.pc = "write" /\ r.status = po[o].status
        /\ r.change = change /\ r.add = {} /\ r.drop = {}
    BY <1>d, <2>4 DEF Idle
  <2>6. VersionsOf(r, po[o].lines)
    BY <2>2, <2>3, <2>5 DEF VersionsOf
  <2>7. Fits(r.status, change)
    BY <1>o, <2>2, <2>3, <2>5 DEF Fits
  <2>8. Ready(r)
    BY <2>5, <2>6, <2>7, LoadedReady
  <2>9. OrderRequest(p, o, Checked(r)) /\ Found(o)
    BY <1>9, <1>L, <1>f, <2>1, <2>3, <2>4 DEF UpdateLine, OrderRequest
  <2>10. Ready(Checked(r))
    <3>1. PICK s : s = Checked(r)
      OBVIOUS
    <3>2. /\ s.order = r.order /\ s.status = r.status /\ s.change = r.change
          /\ s.add = r.add /\ s.drop = r.drop /\ s.pc \in {"checks", "write"}
      BY <2>9, <3>1, <2>5, <2>4, <1>d DEF Checked, Idle, Found, POStatuses
    <3>3. r.status # "NONE"
      BY <2>5, <2>9 DEF Found, POStatuses
    <3>4. Ready(s)
      BY <2>5, <2>8, <3>2, <3>3 DEF Ready, Prepared, VersionsOf
    <3> QED BY <3>1, <3>4
  <2> QED BY <1>1, <2>9, <2>10
<1>10. ASSUME NEW line \in po[o].lines, DeleteLine(p, o, line)
       PROVE  SerialInv'
  <2>1. PICK r : r = [L EXCEPT !.change = po[o].lines \ {line}, !.drop = {line.id}]
    OBVIOUS
  <2>2. /\ r.order = o /\ r.pc = "write" /\ r.status = po[o].status
        /\ r.change = po[o].lines \ {line} /\ r.drop = {line.id}
    BY <1>d, <2>1 DEF Idle
  <2>3. po[o].status = "DRAFT" /\ OrderRequest(p, o, r)
    BY <1>10, <1>L, <1>f, <2>1 DEF DeleteLine
  <2>4. VersionsOf(r, po[o].lines)
    BY <2>2 DEF VersionsOf
  <2>5. Ready(r)
    BY <2>2, <2>3, <2>4, LoadedReady DEF Fits
  <2> QED BY <1>1, <2>3, <2>5
<1> QED
  BY <1>2, <1>3, <1>4, <1>5, <1>6, <1>7, <1>8, <1>9, <1>10 DEF OrderEndpoint

(* Nothing came between the read and the write. *)
LEMMA WrittenFits ==
  ASSUME TypeInv, SerialInv, NEW p \in Workers, Prepared(req[p]), req[p].order \in Orders
  PROVE  Fits(Written(req[p]).status, Written(req[p]).lines)
<1> DEFINE r == req[p]
<1>1. Written(r).status = r.status /\ Written(r).lines = LinesAfter(r)
  BY DEF Written
<1>2. /\ Fits(r.status, r.change)
      /\ r.add # {} \/ r.drop # {} => r.status = "DRAFT"
      /\ VersionsOf(r, po[r.order].lines)
  BY DEF SerialInv, Ready
<1>3. CASE r.status = "DRAFT"
  BY <1>1, <1>3 DEF Fits
<1>4. CASE r.status # "DRAFT"
  <2>1. r.add = {} /\ r.drop = {}
    BY <1>2, <1>4
  <2>2. Kept(r) = po[r.order].lines
    BY <2>1 DEF Kept
  <2>3. Untouched(r) = {} /\ Rewritten(r) = r.change
    BY <1>2, <2>1, <2>2 DEF Untouched, Rewritten, VersionsOf
  <2>4. Inserted(r.add, po[r.order].lastId) = {}
    BY <2>1 DEF Inserted
  <2>5. LinesAfter(r) = r.change
    BY <2>3, <2>4 DEF LinesAfter
  <2>6. Fits(r.status, LinesAfter(r))
    BY <1>2, <2>5
  <2> QED BY <1>1, <2>6
<1> QED BY <1>3, <1>4

(* POHeader.recalculatePOStatus after a line has received. *)
LEMMA StatusAfterFits ==
  ASSUME NEW o \in Orders, Found(o), po[o].lines \subseteq POLine,
         Fits(po[o].status, po[o].lines),
         NEW l \in po[o].lines, l.status \notin {"CANCELLED", "RECEIVED"},
         NEW v, v.status \in {"RECEIVED", "PARTIALLY_RECEIVED"},
         NEW lines, lines = (po[o].lines \ {l}) \cup {v}
  PROVE  /\ Fits(StatusAfter(o, lines), lines)
         /\ StatusAfter(o, lines) = po[o].status \/ CanTransition(o, StatusAfter(o, lines))
<1> DEFINE active == {m \in lines : m.status # "CANCELLED"}
<1>1. v \in active
  OBVIOUS
<1>2. po[o].status \notin {"RECEIVED", "CLOSED"}
  BY DEF Fits
<1>3. po[o].status \in {"APPROVED", "PARTIALLY_RECEIVED"} => CanTransition(o, "RECEIVED")
  BY DEF CanTransition, Transitions
<1>4. CanTransition(o, "PARTIALLY_RECEIVED") => po[o].status = "APPROVED"
  BY DEF CanTransition, Transitions
<1>5. PICK s : s = StatusAfter(o, lines)
  OBVIOUS
<1>6. CASE (\A m \in active : m.status = "RECEIVED") /\ CanTransition(o, "RECEIVED")
  <2>1. s = "RECEIVED"
    BY <1>1, <1>5, <1>6 DEF StatusAfter
  <2> QED BY <1>5, <1>6, <2>1 DEF Fits
<1>7. CASE ~ ((\A m \in active : m.status = "RECEIVED") /\ CanTransition(o, "RECEIVED"))
  <2>1. s = IF CanTransition(o, "PARTIALLY_RECEIVED") THEN "PARTIALLY_RECEIVED"
            ELSE po[o].status
    BY <1>1, <1>5, <1>7 DEF StatusAfter
  <2>2. s = "PARTIALLY_RECEIVED" => \E m \in active : m.status # "RECEIVED"
    BY <1>3, <1>4, <1>7, <2>1
  <2>3. s \notin {"RECEIVED", "CLOSED"}
    BY <1>2, <2>1
  <2>4. s = po[o].status \/ CanTransition(o, s)
    BY <2>1
  <2> QED BY <1>1, <1>5, <2>2, <2>3, <2>4 DEF Fits
<1> QED BY <1>6, <1>7

LEMMA ServedReady ==
  ASSUME Serial, TypeInv, SerialInv, NEW p \in Workers,
         Serve(p) \/ Abort(p) \/ ReceivingFails(p)
  PROVE  SerialInv'
<1>r. RequestTyped(req[p]) /\ req[p] \in Request /\ Ready(req[p])
  BY DEF TypeInv, RequestsTyped, RequestTyped, SerialInv
<1>i. Ready(Idle) /\ Idle.pc = "idle"
  BY DEF Ready, Prepared, Idle
<1>1. ASSUME Answer(p), po' = po
      PROVE  SerialInv'
  BY <1>1, <1>i, QuietReady DEF Answer
<1>2. ASSUME NEW r, Proceed(p, r), r.pc \notin {"checks", "insert", "write", "record"},
             r.pc = "receive" => r.drop = {}, OrdersFit'
      PROVE  SerialInv'
  <2>1. Ready(r)'
    BY <1>2 DEF Ready, Prepared
  <2> QED BY <1>2, <2>1, OneRequestReady
<1>3. ASSUME Answer(p), OrdersFit'
      PROVE  SerialInv'
  BY <1>2, <1>3 DEF Answer, Idle
<1>R. ASSUME NEW todo, req[p].pc \in {"receive", "record"}
      PROVE  /\ Receiving(req[p], todo).pc \in {"receive", "saveReceipt"}
             /\ Receiving(req[p], todo).drop = {}
  BY <1>r, <1>R DEF Ready, Receiving, Request
<1>4. CASE ResolveSoLine(p) \/ AssertNotMapped(p)
  <2>1. CASE Answer(p)
    BY <1>1, <1>4, <2>1 DEF ResolveSoLine, AssertNotMapped, Rows
  <2>2. CASE ~ Answer(p)
    <3>1. PICK s : \/ Proceed(p, [req[p] EXCEPT !.resolve = @ \ {s}, !.map = @ \cup {s}])
                   \/ Proceed(p, Checked([req[p] EXCEPT !.map = @ \ {s}]))
      BY <1>4, <2>2 DEF ResolveSoLine, AssertNotMapped
    <3>2. PICK r : /\ Proceed(p, r)
                   /\ \/ r = [req[p] EXCEPT !.resolve = @ \ {s}, !.map = @ \cup {s}]
                      \/ r = Checked([req[p] EXCEPT !.map = @ \ {s}])
      BY <3>1
    <3>3. /\ r.order = req[p].order /\ r.status = req[p].status
          /\ r.change = req[p].change /\ r.add = req[p].add /\ r.drop = req[p].drop
          /\ r.pc = "write" => req[p].status # "NONE"
          /\ r.pc = "insert" => req[p].status = "NONE"
          /\ r.pc \in {"checks", "write", "insert"} /\ req[p].pc = "checks"
      BY <1>4, <1>r, <3>2 DEF Checked, Request, ResolveSoLine, AssertNotMapped
    <3>4. Ready(r)
      BY <1>r, <3>3 DEF Ready, Prepared, VersionsOf
    <3> QED BY <1>4, <3>2, <3>4, QuietReady DEF ResolveSoLine, AssertNotMapped, Rows
  <2> QED BY <2>1, <2>2
<1>5. CASE SaveReceipt(p) \/ Abort(p)
  BY <1>1, <1>5 DEF SaveReceipt, Abort, Rows
<1>6. CASE InsertOrder(p)
  <2>1. \A o \in Orders : po'[o] = po[o] \/ po'[o].status = "DRAFT"
    BY <1>6 DEF InsertOrder, TypeInv, OrdersTyped
  <2>2. OrdersFit'
    BY <2>1 DEF OrdersFit, SerialInv, Fits
  <2> QED BY <1>3, <1>6, <2>2 DEF InsertOrder
<1>7. CASE WriteOrder(p)
  <2>1. \A o \in Orders : po'[o] = po[o] \/ po'[o] = Written(req[p])
    BY <1>7 DEF WriteOrder, TypeInv, OrdersTyped
  <2>2. Prepared(req[p]) /\ req[p].order \in Orders
    BY <1>7, <1>r DEF WriteOrder, RequestTyped, Prepared
  <2>3. OrdersFit'
    BY <2>1, <2>2, WrittenFits DEF OrdersFit, SerialInv
  <2> QED BY <1>3, <1>7, <2>3 DEF WriteOrder
<1>8. CASE DeleteOrder(p)
  <2>1. req[p].order \in Orders
    BY <1>8, <1>r DEF DeleteOrder, RequestTyped
  <2>2. po[req[p].order] \in Order
    BY <2>1 DEF TypeInv, OrdersTyped, OrderTyped
  <2>3. \A o \in Orders : po'[o] = po[o] \/ po'[o].status = "DELETED"
    BY <1>8, <2>1, <2>2 DEF DeleteOrder, TypeInv, OrdersTyped, Order
  <2>4. OrdersFit'
    BY <2>3 DEF OrdersFit, SerialInv, Fits
  <2> QED BY <1>3, <1>8, <2>4 DEF DeleteOrder
<1>f. OrdersFit
  BY DEF SerialInv
<1>g. ASSUME Proceed(p, GiveUp(req[p])), po' = po, req[p].pc \in {"receive", "record"}
      PROVE  SerialInv'
  <2>1. OrdersFit'
    BY <1>f, <1>g DEF OrdersFit
  <2> QED BY <1>2, <1>g, <1>R, <2>1 DEF GiveUp
<1>9. CASE ReadForReceipt(p)
  <2>1. CASE Proceed(p, GiveUp(req[p]))
    BY <1>9, <1>g, <2>1 DEF ReadForReceipt, Rows
  <2>2. ASSUME NEW t \in req[p].todo, NEW l \in po[req[p].order].lines, Receivable(l, t.baseQty),
               NEW lines, lines = (po[req[p].order].lines \ {l}) \cup {Received(l, t.baseQty)},
               Proceed(p, [req[p] EXCEPT !.pc = "record", !.change = lines,
                                         !.status = StatusAfter(req[p].order, lines)])
        PROVE  SerialInv'
    <3>1. PICK o, v, status : /\ o = req[p].order /\ v = Received(l, t.baseQty)
                              /\ status = StatusAfter(o, lines)
      OBVIOUS
    <3>2. o \in Orders /\ req[p].pc = "receive" /\ po' = po
      BY <1>9, <1>r, <3>1 DEF ReadForReceipt, RequestTyped, Rows
    <3>3. po[o].lines \subseteq POLine /\ Found(o) /\ Fits(po[o].status, po[o].lines)
      BY <1>f, <2>2, <3>1, <3>2
      DEF TypeInv, OrdersTyped, OrderTyped, Order, OrdersFit, Found
    <3>4. t.baseQty \in Nat /\ l \in POLine
      BY <1>r, <3>1, <3>3 DEF RequestTyped, ReceiptLinesTyped, ReceiptLine
    <3>5. v.status \in {"RECEIVED", "PARTIALLY_RECEIVED"} /\ v.id = l.id
      BY <3>1, <3>4, ReceivedStatus, ReceivedTyped
    <3>6. lines = (po[o].lines \ {l}) \cup {v} /\ l.status \notin {"CANCELLED", "RECEIVED"}
      BY <2>2, <3>1 DEF Receivable
    <3>7. Fits(status, lines) /\ (status = po[o].status \/ CanTransition(o, status))
      BY <2>2, <3>1, <3>2, <3>3, <3>5, <3>6, StatusAfterFits
    <3>8. PICK r : r = [req[p] EXCEPT !.pc = "record", !.change = lines, !.status = status]
      OBVIOUS
    <3>9. /\ r.order = o /\ r.pc = "record" /\ r.status = status /\ r.change = lines
          /\ r.add = req[p].add /\ r.drop = req[p].drop
      BY <1>r, <3>1, <3>8 DEF Request
    <3>10. r.add = {} /\ r.drop = {}
      BY <1>r, <3>2, <3>9 DEF RequestTyped, Ready
    <3>11. VersionsOf(r, po[o].lines)
      BY <2>2, <3>1, <3>5, <3>6, <3>9 DEF VersionsOf
    <3>12. Ready(r)
      BY <3>7, <3>9, <3>10, <3>11 DEF Ready
    <3> QED BY <2>2, <3>1, <3>2, <3>8, <3>12, QuietReady
  <2> QED BY <1>9, <2>1, <2>2 DEF ReadForReceipt
<1>10. CASE RecordReceipt(p)
  <2>1. CASE Proceed(p, GiveUp(req[p])) /\ UNCHANGED po
    BY <1>10, <1>g, <2>1 DEF RecordReceipt
  <2>2. ASSUME NEW t \in req[p].todo, po' = [po EXCEPT ![req[p].order] = Written(req[p])],
               Proceed(p, Receiving(req[p], req[p].todo \ {t}))
        PROVE  SerialInv'
    <3>1. \A o \in Orders : po'[o] = po[o] \/ po'[o] = Written(req[p])
      BY <2>2 DEF TypeInv, OrdersTyped
    <3>2. Prepared(req[p]) /\ req[p].order \in Orders
      BY <1>10, <1>r DEF RecordReceipt, RequestTyped, Prepared
    <3>3. OrdersFit'
      BY <3>1, <3>2, WrittenFits DEF OrdersFit, SerialInv
    <3>4. PICK r : r = Receiving(req[p], req[p].todo \ {t})
      OBVIOUS
    <3>5. r.pc \in {"receive", "saveReceipt"} /\ r.drop = {}
      BY <1>10, <1>R, <3>4 DEF RecordReceipt
    <3> QED BY <1>2, <2>2, <3>3, <3>4, <3>5
  <2> QED BY <1>10, <2>1, <2>2 DEF RecordReceipt
<1>11. CASE ReceivingFails(p)
  BY <1>11, <1>g DEF ReceivingFails, Rows
<1> QED
  BY <1>4, <1>5, <1>6, <1>7, <1>8, <1>9, <1>10, <1>11 DEF Serve

(* A mapping that is released changes no status and no id. *)
LEMMA SoLineReady ==
  ASSUME TypeInv, SerialInv, NEW s \in SoLines, CloseSoLine(s) \/ DeleteSoLine(s)
  PROVE  SerialInv' /\ \A o \in Orders : po'[o].status = po[o].status
<1>1. CASE CloseSoLine(s)
  BY <1>1 DEF CloseSoLine, SerialInv, OrdersFit, Ready, CanTransition
<1>2. CASE DeleteSoLine(s)
  <2>0. req' = req
    BY <1>2 DEF DeleteSoLine
  <2>1. ASSUME NEW o \in Orders
        PROVE  /\ po'[o].status = po[o].status
               /\ \A l \in po'[o].lines : \E m \in po[o].lines : m.id = l.id /\ m.status = l.status
               /\ \A m \in po[o].lines : \E l \in po'[o].lines : m.id = l.id /\ m.status = l.status
    <3>1. po[o].lines \subseteq POLine /\ po[o] \in Order
      BY DEF TypeInv, OrdersTyped, OrderTyped, Order
    <3>2. /\ po'[o].lines = {[m EXCEPT !.soLine = IF @ = s THEN NoSoLine ELSE @] : m \in po[o].lines}
          /\ po'[o].status = po[o].status
      BY <1>2, <3>1 DEF DeleteSoLine, Order
    <3> DEFINE Freed(m) == [m EXCEPT !.soLine = IF @ = s THEN NoSoLine ELSE @]
    <3>3. \A m \in po[o].lines : Freed(m).id = m.id /\ Freed(m).status = m.status
      BY <3>1 DEF POLine
    <3>4. po'[o].lines = {Freed(m) : m \in po[o].lines}
      BY <3>2
    <3> HIDE DEF Freed
    <3>5. PICK old, new : old = po[o].lines /\ new = po'[o].lines
      OBVIOUS
    <3>6. new = {Freed(m) : m \in old} /\ \A m \in old : Freed(m).id = m.id /\ Freed(m).status = m.status
      BY <3>3, <3>4, <3>5
    <3>7. /\ \A l \in new : \E m \in old : m.id = l.id /\ m.status = l.status
          /\ \A m \in old : \E l \in new : m.id = l.id /\ m.status = l.status
      BY <3>6
    <3> QED BY <3>2, <3>5, <3>7
  <2>2. ASSUME NEW o \in Orders
        PROVE  Fits(po'[o].status, po'[o].lines)
    <3>1. PICK old, new, status : old = po[o].lines /\ new = po'[o].lines /\ status = po[o].status
      OBVIOUS
    <3>2. Fits(status, old)
      BY <3>1 DEF SerialInv, OrdersFit
    <3>3. /\ \A l \in new : \E m \in old : m.status = l.status
          /\ \A m \in old : \E l \in new : m.status = l.status
      BY <2>1, <3>1
    <3>4. Fits(status, new)
      BY <3>2, <3>3 DEF Fits
    <3> QED BY <2>1, <3>1, <3>4
  <2>3. ASSUME NEW p \in Workers
        PROVE  Ready(req[p])'
    <3>1. PICK r, o : r = req[p] /\ o = r.order
      OBVIOUS
    <3>2. Ready(r) /\ RequestTyped(r)
      BY <3>1 DEF SerialInv, TypeInv, RequestsTyped
    <3>3. CASE o \in Orders
      <4>1. PICK old, new : old = po[o].lines /\ new = po'[o].lines
        OBVIOUS
      <4>2. VersionsOf(r, old) => VersionsOf(r, new)
        BY <2>1, <3>3, <4>1 DEF VersionsOf
      <4>3. Ready(r)'
        BY <2>1, <3>1, <3>2, <3>3, <4>1, <4>2 DEF Ready, CanTransition
      <4> QED BY <2>0, <3>1, <4>3
    <3>4. CASE o \notin Orders
      <4>1. r.pc = "idle"
        BY <3>1, <3>2, <3>4 DEF RequestTyped
      <4>2. Ready(r)'
        BY <4>1 DEF Ready, Prepared
      <4> QED BY <2>0, <3>1, <4>2
    <3> QED BY <3>3, <3>4
  <2> QED BY <2>1, <2>2, <2>3 DEF SerialInv, OrdersFit
<1> QED BY <1>1, <1>2

LEMMA SerialNext ==
  ASSUME Serial
  PROVE  TypeInv /\ SerialInv /\ [Next]_vars => SerialInv'
<1> SUFFICES ASSUME TypeInv, SerialInv, [Next]_vars PROVE SerialInv'
  OBVIOUS
<1>1. CASE UNCHANGED <<po, req>>
  BY <1>1 DEF SerialInv, OrdersFit, Ready, CanTransition
<1>2. ASSUME NEW p \in Workers, NEW i \in ReceiptIds, BeginCompletion(p, i)
      PROVE  SerialInv'
  <2>1. PICK s, r : /\ s = [Idle EXCEPT !.order = receipt[i].order, !.receipt = i]
                    /\ r = Receiving(s, receipt[i].lines)
    OBVIOUS
  <2>2. r.drop = {} /\ r.pc \in {"receive", "saveReceipt"}
    BY <2>1 DEF Idle, Receiving
  <2>3. Accept(p, r) /\ po' = po
    BY <1>2, <2>1 DEF BeginCompletion
  <2> QED BY <2>2, <2>3, UnpreparedReady, QuietReady
<1>3. CASE \E i \in ReceiptIds : ReceiptEndpoint(i)
  BY <1>1, <1>3, ReceiptSteps
<1>4. CASE Next
  BY <1>1, <1>2, <1>3, <1>4, EndpointReady, ServedReady, SoLineReady DEF Next, Quiet, vars
<1> QED BY <1>1, <1>4 DEF vars

LEMMA SerialAlways ==
  ASSUME Serial
  PROVE  Spec => [](TypeInv /\ SerialInv)
<1>1. Init => SerialInv
  BY DEF Init, SerialInv, OrdersFit, Fits, Ready, Prepared, Idle
<1>2. TypeInv /\ SerialInv /\ [Next]_vars => (TypeInv /\ SerialInv)'
  BY SerialNext, NextTyped
<1> QED BY <1>1, <1>2, InitTyped, PTL DEF Spec

(* When requests do not overlap, a received order has received all its     *)
(* lines and a partially received one awaits some, whatever fails and      *)
(* whatever the sales side does (POHeader.recalculatePOStatus).            *)
THEOREM StatusesFitLines ==
  ASSUME Serial
  PROVE  Spec => []StatusFitsLines
<1>1. SerialInv => StatusFitsLines
  BY DEF SerialInv, OrdersFit, Fits, StatusFitsLines
<1> QED BY <1>1, SerialAlways, PTL

Moves(o) ==
  Found(o) /\ po'[o].status \notin {po[o].status, "DELETED"} => CanTransition(o, po'[o].status)

LEMMA StepMoves ==
  ASSUME TypeInv, SerialInv, [Next]_vars, NEW o \in Orders
  PROVE  Moves(o)
<1>1. CASE po'[o].status = po[o].status
  BY <1>1 DEF Moves
<1>2. CASE \E s \in SoLines : CloseSoLine(s) \/ DeleteSoLine(s)
  BY <1>1, <1>2, SoLineReady
<1>3. ASSUME NEW p \in Workers, WriteOrder(p) \/ RecordReceipt(p)
      PROVE  Moves(o)
  <2>1. \/ po'[o] = po[o]
        \/ o = req[p].order /\ po'[o] = Written(req[p])
    BY <1>3 DEF WriteOrder, RecordReceipt, TypeInv, OrdersTyped
  <2>2. Prepared(req[p]) /\ Ready(req[p])
    BY <1>3 DEF WriteOrder, RecordReceipt, TypeInv, RequestsTyped, RequestTyped, Prepared, SerialInv
  <2>3. Written(req[p]).status = req[p].status
    BY DEF Written
  <2> QED BY <1>1, <2>1, <2>2, <2>3 DEF Ready, Moves
<1>4. ASSUME NEW p \in Workers, InsertOrder(p)
      PROVE  Moves(o)
  <2>1. po'[o] = po[o] \/ o = req[p].order
    BY <1>4 DEF InsertOrder, TypeInv, OrdersTyped
  <2>2. po[req[p].order].status = "NONE"
    BY <1>4 DEF InsertOrder, SerialInv, Ready
  <2> QED BY <1>1, <2>1, <2>2 DEF Moves, Found, POStatuses
<1>5. ASSUME NEW p \in Workers, DeleteOrder(p)
      PROVE  Moves(o)
  <2>1. po'[o] = po[o] \/ po'[o].status = "DELETED"
    <3>1. req[p].order \in Orders /\ po[req[p].order] \in Order
      BY <1>5 DEF DeleteOrder, TypeInv, RequestsTyped, RequestTyped, OrdersTyped, OrderTyped
    <3> QED BY <1>5, <3>1 DEF DeleteOrder, TypeInv, OrdersTyped, Order
  <2> QED BY <1>1, <2>1 DEF Moves
<1>6. CASE UNCHANGED po
  BY <1>1, <1>6
<1>7. ASSUME NEW p \in Workers, NEW other \in Orders, OrderEndpoint(p, other)
      PROVE  UNCHANGED po
  BY <1>7 DEF OrderEndpoint, BeginCreate, Approve, Cancel, Close, Touch, Remove,
              AddLine, UpdateLine, DeleteLine, OrderRequest, Rows
<1>8. ASSUME NEW p \in Workers, NEW i \in ReceiptIds, BeginCompletion(p, i)
      PROVE  UNCHANGED po
  BY <1>8 DEF BeginCompletion
<1>9. ASSUME NEW p \in Workers,
             \/ ResolveSoLine(p) \/ AssertNotMapped(p) \/ ReadForReceipt(p)
             \/ SaveReceipt(p) \/ Abort(p) \/ ReceivingFails(p)
      PROVE  UNCHANGED po
  BY <1>9 DEF ResolveSoLine, AssertNotMapped, ReadForReceipt, SaveReceipt, Abort,
              ReceivingFails, Rows
<1>10. ASSUME NEW i \in ReceiptIds, ReceiptEndpoint(i)
       PROVE  UNCHANGED po
  BY <1>10, ReceiptSteps
<1>11. Quiet \/ UNCHANGED vars => UNCHANGED po
  BY DEF Quiet, vars
<1> QED
  BY <1>2, <1>3, <1>4, <1>5, <1>6, <1>7, <1>8, <1>9, <1>10, <1>11 DEF Next, Serve

(* When requests do not overlap, the status of an order moves along        *)
(* POStatus.VALID_TRANSITIONS only.                                        *)
THEOREM StatusesFollowTransitions ==
  ASSUME Serial
  PROVE  Spec => StatusFollowsTransitions
<1>1. TypeInv /\ SerialInv /\ [Next]_vars => [\A o \in Orders : Moves(o)]_vars
  BY StepMoves
<1>2. Spec => [][\A o \in Orders : Moves(o)]_vars
  BY <1>1, SerialAlways, PTL DEF Spec
<1> QED BY <1>2 DEF StatusFollowsTransitions, Moves

--------------------------------------------------------------------------------

(***************************************************************************)
(* What is counted, when requests do not overlap.  No call fails; receipts *)
(* come from createGoodsReceiptFromPo (none is given the reference of an   *)
(* order by hand), have one line each, are not amended, and bring what     *)
(* every order has from the start; the lines of an order are numbered as   *)
(* POHeader.create numbers them, keep their SKU and are not deleted, nor   *)
(* are the sales order lines they are mapped to.                           *)
(***************************************************************************)
OnReceipts(k) == \E rec \in ReceiptDocs : \E x \in rec : x.sku = k

Numbers(lines) == {l.num : l \in lines}
Brings(lines)  == \A rec \in ReceiptDocs : \A x \in rec : \E l \in lines : l.sku = x.sku

Regular ==
  /\ \E w \in Workers : Workers = {w}
  /\ ~ Faults
  /\ Endpoints \cap {"deleteLine", "amendReceipt", "referReceipt", "soLines"} = {}
  /\ \A edit \in LineEdits : edit.sku = NoSku
  /\ \A doc \in OrderDocs : Numbers(doc) = 1..Cardinality(doc) /\ Brings(doc)
  /\ \A rec \in ReceiptDocs : \A x, y \in rec : x = y

Worker == CHOOSE w \in Workers : Workers = {w}

(* BroughtFor, of receipts rc. *)
CompletedOf(rc, o) == {j \in ReceiptIds : rc[j].status = "COMPLETED" /\ rc[j].order = o}
QtyOf(lines, k) == SumFunction([l \in {m \in lines : m.sku = k} |-> l.baseQty])
BroughtIn(rc, o, k) == SumFunction([i \in CompletedOf(rc, o) |-> QtyOf(rc[i].lines, k)])

(* What the request has recorded, of a receipt that is not saved yet. *)
Unsaved(rc, r, o, k) ==
  IF r.pc = "saveReceipt" /\ r.order = o THEN QtyOf(rc[r.receipt].lines, k) ELSE 0

FirstHere(l, lines) == First(l, {m \in lines : m.sku = l.sku})

Counted(lines, rc, r, o) ==
  \A l \in lines :
    FirstHere(l, lines) /\ l.status \in {"OPEN", "PARTIALLY_RECEIVED"} =>
      l.receivedQty = BroughtIn(rc, o, l.sku) + Unsaved(rc, r, o, l.sku)

Numbered(lines) == ByNum(lines) /\ \E n \in Nat : Numbers(lines) = 1..n

OrderRegular(x) ==
  /\ Numbered(x.lines)
  /\ x.status \in POStatuses => Brings(x.lines)

ReceiptsRegular(orders, rc) ==
  /\ IsFiniteSet({i \in ReceiptIds : rc[i].status = "COMPLETED"})
  /\ \A i \in ReceiptIds :
       /\ \A x, y \in rc[i].lines : x = y
       /\ \A x \in rc[i].lines : OnReceipts(x.sku)
       /\ rc[i].status # "NONE" /\ rc[i].order \in Orders => orders[rc[i].order].status # "NONE"

(* Lines are written back with the quantities they had, and a new one is   *)
(* the last.                                                               *)
Keeps(r, lines) ==
  /\ r.drop = {}
  /\ \A c \in r.change : \E l \in lines :
       /\ c.id = l.id /\ c.num = l.num /\ c.sku = l.sku /\ c.receivedQty = l.receivedQty
       /\ c.status \in {l.status, "CANCELLED"}
  /\ \A m, n \in r.add : m = n
  /\ \A n \in r.add : n.num \in Nat \ {0} /\ Numbers(lines) = 1..(n.num - 1)

Recording(lines, t, change) ==
  \E l \in lines :
    /\ First(l, {m \in lines : m.sku = t.sku})
    /\ Receivable(l, t.baseQty)
    /\ change = (lines \ {l}) \cup {Received(l, t.baseQty)}

ReceivingPoints == {"receive", "record", "saveReceipt"}

RequestRegular(orders, rc, r) ==
  /\ r.pc \in {"checks", "write"} /\ r.status # "NONE" => Keeps(r, orders[r.order].lines)
  /\ r.pc \in {"checks", "insert"} /\ r.status = "NONE" =>
       Numbers(r.add) = 1..Cardinality(r.add) /\ Brings(r.add)
  /\ r.pc \in ReceivingPoints =>
       /\ r.receipt \in ReceiptIds /\ rc[r.receipt].status = "DRAFT"
       /\ orders[r.order].status # "NONE"
  /\ r.pc \in {"receive", "record"} => r.todo = rc[r.receipt].lines
  /\ r.pc = "record" => \E t \in r.todo : Recording(orders[r.order].lines, t, r.change)

CountOf(orders, rc, r) ==
  /\ \A o \in Orders : OrderRegular(orders[o])
  /\ ReceiptsRegular(orders, rc)
  /\ RequestRegular(orders, rc, r)
  /\ \A o \in Orders : Counted(orders[o].lines, rc, r, o)

CountInv == CountOf(po, receipt, req[Worker])

(* Quantities *)

ReceiptsWell(rc) ==
  /\ IsFiniteSet({i \in ReceiptIds : rc[i].status = "COMPLETED"})
  /\ \A i \in ReceiptIds :
       /\ ReceiptLinesTyped(rc[i].lines)
       /\ \A x, y \in rc[i].lines : x = y

LEMMA QtyOfNone ==
  ASSUME NEW lines, NEW k, \A x \in lines : x.sku # k
  PROVE  QtyOf(lines, k) = 0
<1>1. PICK f : f = [l \in {m \in lines : m.sku = k} |-> l.baseQty]
  OBVIOUS
<1>2. {m \in lines : m.sku = k} = {} /\ DOMAIN f = {}
  BY <1>1
<1>3. QtyOf(lines, k) = SumFunctionOnSet(f, {})
  BY <1>1, <1>2 DEF QtyOf, SumFunction
<1> QED BY <1>3, SumEmpty

LEMMA QtyOfLine ==
  ASSUME NEW lines, ReceiptLinesTyped(lines), \A x, y \in lines : x = y, NEW k
  PROVE  /\ QtyOf(lines, k) \in Nat
         /\ \A x \in lines : QtyOf(lines, k) = IF x.sku = k THEN x.baseQty ELSE 0
<1>1. CASE \A x \in lines : x.sku # k
  BY <1>1, QtyOfNone
<1>2. CASE \E x \in lines : x.sku = k
  <2>1. PICK x \in lines : x.sku = k
    BY <1>2
  <2>2. lines = {x} /\ {m \in lines : m.sku = k} = {x} /\ x.baseQty \in Nat
    BY <2>1 DEF ReceiptLinesTyped, ReceiptLine
  <2>3. PICK f : f = [l \in {m \in lines : m.sku = k} |-> l.baseQty]
    OBVIOUS
  <2>4. f[x] = x.baseQty /\ DOMAIN f = {x}
    BY <2>2, <2>3
  <2>5. QtyOf(lines, k) = SumFunctionOnSet(f, {x})
    BY <2>3, <2>4 DEF QtyOf, SumFunction
  <2>6. SumFunctionOnSet(f, {x}) = x.baseQty
    BY <2>2, <2>4, SumOfOne
  <2> QED BY <2>1, <2>2, <2>5, <2>6
<1> QED BY <1>1, <1>2

LEMMA BroughtType ==
  ASSUME NEW rc, ReceiptsWell(rc), NEW o, NEW k
  PROVE  BroughtIn(rc, o, k) \in Nat /\ IsFiniteSet(CompletedOf(rc, o))
<1> DEFINE q == [i \in CompletedOf(rc, o) |-> QtyOf(rc[i].lines, k)]
<1>1. IsFiniteSet(CompletedOf(rc, o))
  <2>1. CompletedOf(rc, o) \subseteq {i \in ReceiptIds : rc[i].status = "COMPLETED"}
    BY DEF CompletedOf
  <2> QED BY <2>1, FS_Subset DEF ReceiptsWell
<1>2. \A i \in CompletedOf(rc, o) : q[i] \in Nat
  BY QtyOfLine DEF CompletedOf, ReceiptsWell
<1>3. BroughtIn(rc, o, k) = SumFunctionOnSet(q, CompletedOf(rc, o))
  BY DEF BroughtIn, SumFunction
<1> HIDE DEF q
<1> QED BY <1>1, <1>2, <1>3, SumNat

LEMMA BroughtKept ==
  ASSUME NEW rc, NEW sc,
         \A i \in ReceiptIds : (rc[i].status = "COMPLETED") <=> (sc[i].status = "COMPLETED"),
         \A i \in ReceiptIds : rc[i].status = "COMPLETED" => sc[i] = rc[i], NEW o, NEW k
  PROVE  BroughtIn(sc, o, k) = BroughtIn(rc, o, k)
<1>1. CompletedOf(sc, o) = CompletedOf(rc, o)
  BY DEF CompletedOf
<1>2. [i \in CompletedOf(sc, o) |-> QtyOf(sc[i].lines, k)] =
        [i \in CompletedOf(rc, o) |-> QtyOf(rc[i].lines, k)]
  BY <1>1 DEF CompletedOf
<1> QED BY <1>2 DEF BroughtIn

LEMMA BroughtSaved ==
  ASSUME NEW rc, ReceiptsWell(rc), NEW sc, ReceiptsWell(sc), NEW i \in ReceiptIds,
         rc[i].status # "COMPLETED", sc[i].status = "COMPLETED", sc[i].lines = rc[i].lines,
         \A j \in ReceiptIds : j # i => sc[j] = rc[j], NEW o, NEW k
  PROVE  BroughtIn(sc, o, k) = BroughtIn(rc, o, k) +
           IF sc[i].order = o THEN QtyOf(rc[i].lines, k) ELSE 0
<1>t. BroughtIn(rc, o, k) \in Nat /\ IsFiniteSet(CompletedOf(rc, o))
  BY BroughtType
<1>1. CASE sc[i].order = o
  <2> DEFINE D == CompletedOf(rc, o)
             q == [j \in D |-> QtyOf(rc[j].lines, k)]
             u == [j \in CompletedOf(sc, o) |-> QtyOf(sc[j].lines, k)]
  <2>1. CompletedOf(sc, o) = D \cup {i} /\ i \notin D
    BY <1>1 DEF CompletedOf
  <2>2. (\A j \in D : q[j] = u[j]) /\ u[i] = QtyOf(rc[i].lines, k)
    BY <2>1 DEF CompletedOf
  <2>3. \A j \in D \cup {i} : u[j] \in Int
    BY <2>1, QtyOfLine DEF CompletedOf, ReceiptsWell
  <2>4. /\ BroughtIn(rc, o, k) = SumFunctionOnSet(q, D)
        /\ BroughtIn(sc, o, k) = SumFunctionOnSet(u, CompletedOf(sc, o))
    BY DEF BroughtIn, SumFunction
  <2> HIDE DEF q, u
  <2>5. SumFunctionOnSet(u, D \cup {i}) = u[i] + SumFunctionOnSet(u, D)
    BY <1>t, <2>1, <2>3, SumAdd
  <2>6. SumFunctionOnSet(q, D) = SumFunctionOnSet(u, D)
    BY <1>t, <2>2, SumSame
  <2>7. u[i] \in Int
    BY <2>3
  <2> QED BY <1>1, <1>t, <2>1, <2>2, <2>4, <2>5, <2>6, <2>7
<1>2. CASE sc[i].order # o
  <2>1. CompletedOf(sc, o) = CompletedOf(rc, o)
    BY <1>2 DEF CompletedOf
  <2>2. [j \in CompletedOf(sc, o) |-> QtyOf(sc[j].lines, k)] =
          [j \in CompletedOf(rc, o) |-> QtyOf(rc[j].lines, k)]
    BY <2>1 DEF CompletedOf
  <2>3. BroughtIn(sc, o, k) = BroughtIn(rc, o, k)
    BY <2>2 DEF BroughtIn
  <2> QED BY <1>2, <1>t, <2>3
<1> QED BY <1>1, <1>2

(* Nothing of SKU k was brought, or nothing for order o. *)
LEMMA NothingBrought ==
  ASSUME NEW rc, ReceiptsWell(rc), NEW o, NEW k,
         \A i \in CompletedOf(rc, o) : \A x \in rc[i].lines : x.sku # k
  PROVE  BroughtIn(rc, o, k) = 0
<1> DEFINE q == [i \in CompletedOf(rc, o) |-> QtyOf(rc[i].lines, k)]
<1>1. \A i \in CompletedOf(rc, o) : q[i] = 0
  BY QtyOfNone
<1>2. BroughtIn(rc, o, k) = SumFunctionOnSet(q, CompletedOf(rc, o))
  BY DEF BroughtIn, SumFunction
<1>3. IsFiniteSet(CompletedOf(rc, o))
  BY BroughtType
<1> HIDE DEF q
<1> QED BY <1>1, <1>2, <1>3, SumOfZeros

(* Lines *)

(* Lines numbered from one are as many as their last number. *)
LEMMA NumberedCount ==
  ASSUME NEW lines, IsFiniteSet(lines), ByNum(lines), NEW n \in Nat, Numbers(lines) = 1..n
  PROVE  Cardinality(lines) = n
<1>1. PICK f : f = [l \in lines |-> l.num]
  OBVIOUS
<1>2. f \in [lines -> 1..n] /\ \A k \in 1..n : \E l \in lines : f[l] = k
  BY <1>1 DEF Numbers
<1>3. \A l, m \in lines : f[l] = f[m] => l = m
  BY <1>1 DEF ByNum
<1>4. f \in Bijection(lines, 1..n)
  BY <1>2, <1>3 DEF Bijection, Injection, Surjection, IsInjective
<1>5. Cardinality(1..n) = n
  BY FS_Interval
<1> QED BY <1>4, <1>5, FS_Bijection DEF ExistsBijection

(* Requests *)

LEMMA OneWorker ==
  ASSUME Regular
  PROVE  Serial /\ \A p \in Workers : p = Worker
<1>1. Workers = {Worker}
  BY DEF Regular, Worker
<1> QED BY <1>1 DEF Serial

LEMMA NextCount ==
  ASSUME Regular, TypeInv, NEW p \in Workers, NEW r, Proceed(p, r) \/ Accept(p, r),
         CountOf(po', receipt', r)
  PROVE  CountInv'
<1>1. p = Worker
  BY OneWorker
<1>2. req'[Worker] = r
  BY <1>1 DEF TypeInv, RequestsTyped, Proceed, Accept
<1> QED BY <1>2 DEF CountInv

LEMMA CountedAlike ==
  ASSUME NEW lines, NEW rc, NEW o, NEW r, NEW s, Counted(lines, rc, r, o),
         \A k : Unsaved(rc, r, o, k) = Unsaved(rc, s, o, k)
  PROVE  Counted(lines, rc, s, o)
  BY DEF Counted

LEMMA NothingUnsaved ==
  ASSUME NEW r, NEW o, r.pc # "saveReceipt" \/ r.order # o
  PROVE  \A rc, k : Unsaved(rc, r, o, k) = 0
  BY DEF Unsaved

(* No order is written and no receipt is completed. *)
LEMMA QuietCount ==
  ASSUME Regular, TypeInv, CountInv, NEW p \in Workers, NEW r,
         Proceed(p, r) \/ Accept(p, r), UNCHANGED <<po, receipt>>,
         RequestRegular(po, receipt, r), r.pc # "saveReceipt", req[p].pc # "saveReceipt"
  PROVE  CountInv'
<1>1. p = Worker
  BY OneWorker
<1>2. \A o \in Orders : Counted(po[o].lines, receipt, r, o)
  <2> SUFFICES ASSUME NEW o \in Orders PROVE Counted(po[o].lines, receipt, r, o)
    OBVIOUS
  <2>1. Counted(po[o].lines, receipt, req[p], o)
    BY <1>1 DEF CountInv, CountOf
  <2>2. \A k : Unsaved(receipt, req[p], o, k) = Unsaved(receipt, r, o, k)
    BY NothingUnsaved
  <2> QED BY <2>1, <2>2, CountedAlike
<1>3. CountOf(po', receipt', r)
  BY <1>2 DEF CountInv, CountOf
<1> QED BY <1>3, NextCount

LEMMA IdleRegular ==
  \A orders, rc : RequestRegular(orders, rc, Idle)
  BY DEF RequestRegular, Idle, ReceivingPoints

(* A request that has read what it needs of an order. *)
LEMMA PlannedRegular ==
  ASSUME NEW r, r.pc \in {"checks", "write"}, r.status # "NONE", Keeps(r, po[r.order].lines)
  PROVE  RequestRegular(po, receipt, r)
  BY DEF RequestRegular, ReceivingPoints

LEMMA EndpointCount ==
  ASSUME Regular, TypeInv, CountInv, NEW p \in Workers, NEW o \in Orders, OrderEndpoint(p, o)
  PROVE  CountInv'
<1>o. /\ po[o] \in Order /\ po[o].lines \subseteq POLine /\ IsFiniteSet(po[o].lines)
      /\ Numbered(po[o].lines)
  BY DEF TypeInv, OrdersTyped, OrderTyped, Order, CountInv, CountOf, OrderRegular
<1>0. ASSUME NEW r, Accept(p, r), UNCHANGED Rows, RequestRegular(po, receipt, r),
             r.pc # "saveReceipt"
      PROVE  CountInv'
  BY <1>0, QuietCount DEF Accept, Rows
<1>1. ASSUME NEW r, OrderRequest(p, o, r), r.order = o, r.pc \in {"checks", "write"},
             r.status # "NONE", Keeps(r, po[o].lines)
      PROVE  CountInv'
  BY <1>0, <1>1, PlannedRegular DEF OrderRequest
<1>L. PICK L : L = Loaded(o)
  OBVIOUS
<1>d. L = [Idle EXCEPT !.pc = "write", !.order = o, !.status = po[o].status,
                       !.change = po[o].lines]
  BY <1>L DEF Loaded
<1>f. /\ L.order = o /\ L.pc = "write" /\ L.status = po[o].status
      /\ L.change = po[o].lines /\ L.add = {} /\ L.drop = {}
  BY <1>d DEF Idle
<1>v. ASSUME NEW r, r.change = po[o].lines, r.add = {}, r.drop = {}
      PROVE  Keeps(r, po[o].lines)
  BY <1>v DEF Keeps
<1>n. Found(o) => po[o].status # "NONE"
  BY DEF Found, POStatuses
<1>2. ASSUME NEW doc \in OrderDocs, BeginCreate(p, o, doc)
      PROVE  CountInv'
  <2>1. PICK r : r = Checked([Idle EXCEPT !.order = o, !.add = doc, !.resolve = Mapped(doc)])
    OBVIOUS
  <2>2. r.status = "NONE" /\ r.pc \in {"checks", "insert"} /\ r.add = doc
    BY <2>1 DEF Checked, Idle
  <2>3. RequestRegular(po, receipt, r)
    BY <2>2 DEF RequestRegular, ReceivingPoints, Regular
  <2> QED BY <1>0, <1>2, <2>1, <2>2, <2>3 DEF BeginCreate
<1>3. CASE Approve(p, o)
  <2>1. PICK r : r = [L EXCEPT !.status = "APPROVED"]
    OBVIOUS
  <2>2. /\ r.order = o /\ r.pc = "write" /\ r.status = "APPROVED"
        /\ r.change = po[o].lines /\ r.add = {} /\ r.drop = {}
    BY <1>d, <2>1 DEF Idle
  <2> QED BY <1>1, <1>3, <1>L, <1>v, <2>1, <2>2 DEF Approve
<1>4. CASE Close(p, o)
  <2>1. PICK r : r = [L EXCEPT !.status = "CLOSED"]
    OBVIOUS
  <2>2. /\ r.order = o /\ r.pc = "write" /\ r.status = "CLOSED"
        /\ r.change = po[o].lines /\ r.add = {} /\ r.drop = {}
    BY <1>d, <2>1 DEF Idle
  <2> QED BY <1>1, <1>4, <1>L, <1>v, <2>1, <2>2 DEF Close
<1>5. CASE Touch(p, o)
  BY <1>1, <1>5, <1>L, <1>v, <1>f, <1>n DEF Touch, OrderRequest
<1>6. CASE Cancel(p, o)
  <2>1. PICK change : change = {Cancelled(l) : l \in po[o].lines}
    OBVIOUS
  <2>2. PICK r : r = [L EXCEPT !.status = "CANCELLED", !.change = change]
    OBVIOUS
  <2>3. /\ r.order = o /\ r.pc = "write" /\ r.status = "CANCELLED"
        /\ r.change = change /\ r.add = {} /\ r.drop = {}
    BY <1>d, <2>2 DEF Idle
  <2>4. \A l \in po[o].lines :
          LET c == Cancelled(l)
          IN  /\ c.id = l.id /\ c.num = l.num /\ c.sku = l.sku
              /\ c.receivedQty = l.receivedQty /\ c.status \in {l.status, "CANCELLED"}
    BY <1>o DEF Cancelled, POLine
  <2>5. Keeps(r, po[o].lines)
    BY <2>1, <2>3, <2>4 DEF Keeps
  <2>6. OrderRequest(p, o, r)
    BY <1>6, <1>L, <1>f, <2>1, <2>2 DEF Cancel
  <2> QED BY <1>1, <2>3, <2>5, <2>6
<1>7. CASE Remove(p, o)
  <2>1. PICK r : r = [Idle EXCEPT !.pc = "delete", !.order = o]
    OBVIOUS
  <2>2. r.pc = "delete"
    BY <2>1 DEF Idle
  <2>3. RequestRegular(po, receipt, r)
    BY <2>2 DEF RequestRegular, ReceivingPoints
  <2> QED BY <1>0, <1>7, <2>1, <2>2, <2>3 DEF Remove, OrderRequest
<1>8. ASSUME NEW line \in NewLines, AddLine(p, o, line)
      PROVE  CountInv'
  <2>1. PICK n : n = [line EXCEPT !.num = Cardinality(po[o].lines) + 1]
    OBVIOUS
  <2>2. PICK r : r = [L EXCEPT !.add = {n}, !.resolve = Mapped({line})]
    OBVIOUS
  <2>3. /\ r.order = o /\ r.pc = "write" /\ r.status = po[o].status
        /\ r.change = po[o].lines /\ r.drop = {} /\ r.add = {n}
    BY <1>d, <2>2 DEF Idle
  <2>4. po[o].status = "DRAFT" /\ OrderRequest(p, o, Checked(r))
    BY <1>8, <1>L, <2>1, <2>2 DEF AddLine
  <2>5. PICK s : s = Checked(r)
    OBVIOUS
  <2>6. /\ s.order = o /\ s.status = po[o].status /\ s.change = po[o].lines
        /\ s.add = {n} /\ s.drop = {} /\ s.pc \in {"checks", "write"}
    BY <1>d, <2>2, <2>3, <2>4, <2>5 DEF Checked, Idle
  <2>7. PICK c \in Nat : Numbers(po[o].lines) = 1..c
    BY <1>o DEF Numbered
  <2>8. Cardinality(po[o].lines) = c
    BY <1>o, <2>7, NumberedCount DEF Numbered
  <2>9. n.num = c + 1 /\ n.num \in Nat \ {0} /\ Numbers(po[o].lines) = 1..(n.num - 1)
    <3>1. line \in NewLine
      BY ReceivingAssumption
    <3>2. n.num = c + 1
      BY <2>1, <2>8, <3>1 DEF NewLine
    <3>3. n.num - 1 = c /\ n.num \in Nat \ {0}
      BY <3>2
    <3> QED BY <2>7, <3>2, <3>3
  <2>10. Keeps(s, po[o].lines)
    BY <2>6, <2>9 DEF Keeps
  <2>11. s.status # "NONE"
    BY <2>4, <2>6
  <2> QED BY <1>1, <2>4, <2>5, <2>6, <2>10, <2>11
<1>9. ASSUME NEW line \in po[o].lines, NEW edit \in LineEdits, UpdateLine(p, o, line, edit)
      PROVE  CountInv'
  <2>1. PICK new : new = [line EXCEPT
                       !.orderQty = IF edit.orderQty = 0 THEN @ ELSE edit.orderQty,
                       !.soLine   = IF edit.soLine = NoSoLine THEN @ ELSE edit.soLine,
                       !.sku      = IF edit.sku = NoSku THEN @ ELSE edit.sku]
    OBVIOUS
  <2>2. /\ new.id = line.id /\ new.num = line.num /\ new.sku = line.sku
        /\ new.receivedQty = line.receivedQty /\ new.status = line.status
    BY <1>o, <2>1 DEF POLine, Regular
  <2>3. PICK change : change = (po[o].lines \ {line}) \cup {new}
    OBVIOUS
  <2>4. PICK r : r = [L EXCEPT !.change = change, !.resolve = Mapped({edit}), !.line = line.id]
    OBVIOUS
  <2>5. /\ r.order = o /\ r.pc = "write" /\ r.status = po[o].status
        /\ r.change = change /\ r.add = {} /\ r.drop = {}
    BY <1>d, <2>4 DEF Idle
  <2>6. OrderRequest(p, o, Checked(r)) /\ po[o].status # "NONE"
    BY <1>9, <1>L, <1>f, <1>n, <2>1, <2>3, <2>4 DEF UpdateLine, OrderRequest
  <2>7. PICK s : s = Checked(r)
    OBVIOUS
  <2>8. /\ s.order = o /\ s.status = po[o].status /\ s.change = change
        /\ s.add = {} /\ s.drop = {} /\ s.pc \in {"checks", "write"}
    BY <1>d, <2>4, <2>5, <2>6, <2>7 DEF Checked, Idle
  <2>9. Keeps(s, po[o].lines)
    BY <2>2, <2>3, <2>8 DEF Keeps
  <2> QED BY <1>1, <2>6, <2>7, <2>8, <2>9
<1>10. ASSUME NEW line \in po[o].lines, DeleteLine(p, o, line)
       PROVE  FALSE
  BY <1>10 DEF DeleteLine, Regular
<1> QED
  BY <1>2, <1>3, <1>4, <1>5, <1>6, <1>7, <1>8, <1>9, <1>10 DEF OrderEndpoint

LEMMA ChecksCount ==
  ASSUME Regular, TypeInv, CountInv, NEW p \in Workers, ResolveSoLine(p) \/ AssertNotMapped(p)
  PROVE  CountInv'
<1>r. RequestTyped(req[p]) /\ req[p] \in Request /\ req[p].pc = "checks"
  BY DEF TypeInv, RequestsTyped, RequestTyped, ResolveSoLine, AssertNotMapped
<1>c. RequestRegular(po, receipt, req[p])
  <2>1. p = Worker
    BY OneWorker
  <2> QED BY <2>1 DEF CountInv, CountOf
<1>u. UNCHANGED <<po, receipt>>
  BY DEF ResolveSoLine, AssertNotMapped, Rows
<1>1. CASE Answer(p)
  <2>1. Idle.pc # "saveReceipt"
    BY DEF Idle
  <2>2. PICK r : r = Idle
    OBVIOUS
  <2>3. RequestRegular(po, receipt, r)
    BY <2>2, IdleRegular
  <2> QED BY <1>1, <1>r, <1>u, <2>1, <2>2, <2>3, QuietCount DEF Answer
<1>2. CASE ~ Answer(p)
  <2>1. PICK s : \/ Proceed(p, [req[p] EXCEPT !.resolve = @ \ {s}, !.map = @ \cup {s}])
                 \/ Proceed(p, Checked([req[p] EXCEPT !.map = @ \ {s}]))
    BY <1>2 DEF ResolveSoLine, AssertNotMapped
  <2>2. PICK r : /\ Proceed(p, r)
                 /\ \/ r = [req[p] EXCEPT !.resolve = @ \ {s}, !.map = @ \cup {s}]
                    \/ r = Checked([req[p] EXCEPT !.map = @ \ {s}])
    BY <2>1
  <2>3. /\ r.order = req[p].order /\ r.status = req[p].status
        /\ r.change = req[p].change /\ r.add = req[p].add /\ r.drop = req[p].drop
        /\ r.pc = "write" => req[p].status # "NONE"
        /\ r.pc = "insert" => req[p].status = "NONE"
        /\ r.pc \in {"checks", "write", "insert"}
    BY <1>r, <2>2 DEF Checked, Request
  <2>4. RequestRegular(po, receipt, r)
    BY <1>r, <1>c, <2>3 DEF RequestRegular, ReceivingPoints, Keeps
  <2> QED BY <1>r, <1>u, <2>2, <2>3, <2>4, QuietCount
<1> QED BY <1>1, <1>2

(* Writing an order *)

(* Each line has its version, and each version its line. *)
LEMMA VersionsMatch ==
  ASSUME NEW lines, ById(lines), NEW r, Keeps(r, lines), VersionsOf(r, lines)
  PROVE  \A l \in lines : \E c \in r.change :
           /\ c.id = l.id /\ c.num = l.num /\ c.sku = l.sku /\ c.receivedQty = l.receivedQty
           /\ c.status \in {l.status, "CANCELLED"}
<1> SUFFICES ASSUME NEW l \in lines
             PROVE  \E c \in r.change :
                      /\ c.id = l.id /\ c.num = l.num /\ c.sku = l.sku
                      /\ c.receivedQty = l.receivedQty
                      /\ c.status \in {l.status, "CANCELLED"}
  OBVIOUS
<1>1. PICK c \in r.change : c.id = l.id
  BY DEF VersionsOf, Keeps
<1>2. PICK m \in lines : /\ c.id = m.id /\ c.num = m.num /\ c.sku = m.sku
                         /\ c.receivedQty = m.receivedQty
                         /\ c.status \in {m.status, "CANCELLED"}
  BY DEF Keeps
<1>3. m = l
  BY <1>1, <1>2 DEF ById
<1> QED BY <1>2, <1>3

(* The lines of an order before and after it is written: a new line is the *)
(* last, the others keep their quantities.                                 *)
Continues(lines, new) ==
  /\ Numbered(new)
  /\ \A l \in new :
       \/ \E m \in lines :
            /\ l.num = m.num /\ l.sku = m.sku /\ l.receivedQty = m.receivedQty
            /\ l.status \in {m.status, "CANCELLED"}
       \/ l.receivedQty = 0 /\ \A m \in lines : m.num < l.num
  /\ \A m \in lines : \E l \in new : l.num = m.num /\ l.sku = m.sku

(* The lines that a request writes, over those it has read. *)
LEMMA KeptLines ==
  ASSUME NEW lines, lines \subseteq POLine, ById(lines), Numbered(lines),
         NEW r, r \in Request, ById(r.change), Keeps(r, lines), VersionsOf(r, lines),
         NEW lastId, NEW new, new = r.change \cup Inserted(r.add, lastId)
  PROVE  Continues(lines, new)
<1>v. \A l \in lines : \E c \in r.change :
        /\ c.id = l.id /\ c.num = l.num /\ c.sku = l.sku /\ c.receivedQty = l.receivedQty
        /\ c.status \in {l.status, "CANCELLED"}
  BY VersionsMatch
<1>k. \A c \in r.change : \E l \in lines :
        /\ c.id = l.id /\ c.num = l.num /\ c.sku = l.sku /\ c.receivedQty = l.receivedQty
        /\ c.status \in {l.status, "CANCELLED"}
  BY DEF Keeps
<1>b. ByNum(r.change)
  <2> SUFFICES ASSUME NEW c \in r.change, NEW d \in r.change, c.num = d.num PROVE c = d
    BY DEF ByNum
  <2>1. PICK l \in lines : c.id = l.id /\ c.num = l.num
    BY <1>k
  <2>2. PICK m \in lines : d.id = m.id /\ d.num = m.num
    BY <1>k
  <2>3. l = m
    BY <2>1, <2>2 DEF Numbered, ByNum
  <2> QED BY <2>1, <2>2, <2>3 DEF ById
<1>n. Numbers(r.change) = Numbers(lines)
  BY <1>v, <1>k DEF Numbers
<1>1. \A m \in lines : \E l \in new : l.num = m.num /\ l.sku = m.sku
  BY <1>v
<1>3. CASE r.add = {}
  <2>1. new = r.change
    BY <1>3 DEF Inserted
  <2>2. Numbered(new)
    BY <1>b, <1>n, <2>1 DEF Numbered
  <2> QED BY <1>1, <1>k, <2>1, <2>2 DEF Continues
<1>4. CASE r.add # {}
  <2>1. PICK n \in r.add : r.add = {n}
    BY <1>4 DEF Keeps
  <2>2. n.num \in Nat \ {0} /\ Numbers(lines) = 1..(n.num - 1)
    BY <2>1 DEF Keeps
  <2>3. PICK x : x = [id |-> lastId + n.num, num |-> n.num, sku |-> n.sku,
                      orderQty |-> n.orderQty, receivedQty |-> 0, soLine |-> n.soLine,
                      status |-> "OPEN"]
    OBVIOUS
  <2>4. new = r.change \cup {x} /\ x.num = n.num /\ x.receivedQty = 0
    BY <2>1, <2>3 DEF Inserted
  <2>5. \A m \in lines : m.num \in 1..(n.num - 1)
    BY <2>2 DEF Numbers
  <2>6. \A m \in lines : m.num < x.num
    BY <2>2, <2>4, <2>5
  <2>7. \A c \in r.change : c.num < x.num
    BY <1>k, <2>6
  <2>8. ByNum(new)
    <3>1. \A c \in r.change : c.num # x.num
      <4> SUFFICES ASSUME NEW c \in r.change PROVE c.num # x.num
        OBVIOUS
      <4>1. c.num \in 1..(n.num - 1)
        BY <1>k, <2>5
      <4> QED BY <2>2, <2>4, <4>1
    <3> QED BY <1>b, <2>4, <3>1 DEF ByNum
  <2>9. Numbers(new) = Numbers(lines) \cup {n.num}
    BY <1>n, <2>4 DEF Numbers
  <2>10. n.num >= 1
    BY <2>2
  <2>11. (1..(n.num - 1)) \cup {n.num} = 1..n.num
    BY <2>2, <2>10
  <2>12. Numbered(new)
    BY <2>2, <2>8, <2>9, <2>11 DEF Numbered
  <2> QED BY <1>1, <1>k, <2>4, <2>6, <2>12 DEF Continues
<1> QED BY <1>3, <1>4

LEMMA NumbersAreNat ==
  ASSUME NEW lines, Numbered(lines)
  PROVE  \A l \in lines : l.num \in Nat
<1>1. PICK n \in Nat : Numbers(lines) = 1..n
  BY DEF Numbered
<1>2. \A l \in lines : l.num \in 1..n
  BY <1>1 DEF Numbers
<1> QED BY <1>2

(* What an order counts does not change when it is written. *)
LEMMA CountedKept ==
  ASSUME NEW lines, Numbered(lines), Brings(lines), NEW new, Continues(lines, new),
         NEW rc, ReceiptsWell(rc), \A i \in ReceiptIds : \A x \in rc[i].lines : OnReceipts(x.sku),
         NEW r, r.pc # "saveReceipt", NEW s, s.pc # "saveReceipt", NEW o,
         Counted(lines, rc, r, o)
  PROVE  Counted(new, rc, s, o) /\ Brings(new)
<1>b. Brings(new)
  BY DEF Brings, Continues
<1> SUFFICES ASSUME NEW l \in new, FirstHere(l, new), l.status \in {"OPEN", "PARTIALLY_RECEIVED"}
             PROVE  l.receivedQty = BroughtIn(rc, o, l.sku) + Unsaved(rc, s, o, l.sku)
  BY <1>b DEF Counted
<1>c. Continues(lines, new)
  OBVIOUS
<1>u. \A k : Unsaved(rc, s, o, k) = 0 /\ Unsaved(rc, r, o, k) = 0
  BY NothingUnsaved
<1>1. CASE \E m \in lines :
             /\ l.num = m.num /\ l.sku = m.sku /\ l.receivedQty = m.receivedQty
             /\ l.status \in {m.status, "CANCELLED"}
  <2>1. PICK m \in lines :
             /\ l.num = m.num /\ l.sku = m.sku /\ l.receivedQty = m.receivedQty
             /\ l.status \in {m.status, "CANCELLED"}
    BY <1>1
  <2>2. m.status = l.status
    BY <2>1
  <2>3. FirstHere(m, lines)
    <3> SUFFICES ASSUME NEW x \in lines, x.sku = m.sku PROVE m.num <= x.num
      BY DEF FirstHere, First
    <3>1. PICK y \in new : y.num = x.num /\ y.sku = x.sku
      BY <1>c DEF Continues
    <3>2. l.num <= y.num
      BY <2>1, <3>1 DEF FirstHere, First
    <3> QED BY <2>1, <3>1, <3>2
  <2>4. m.receivedQty = BroughtIn(rc, o, m.sku) + Unsaved(rc, r, o, m.sku)
    BY <2>2, <2>3 DEF Counted
  <2> QED BY <1>u, <2>1, <2>4
<1>2. CASE l.receivedQty = 0 /\ \A m \in lines : m.num < l.num
  <2>1. ~ OnReceipts(l.sku)
    <3> SUFFICES ASSUME OnReceipts(l.sku) PROVE FALSE
      OBVIOUS
    <3>1. PICK m \in lines : m.sku = l.sku
      BY DEF Brings, OnReceipts
    <3>2. PICK y \in new : y.num = m.num /\ y.sku = m.sku
      BY <1>c DEF Continues
    <3>3. l.num <= y.num /\ m.num < l.num
      BY <1>2, <3>1, <3>2 DEF FirstHere, First
    <3>4. m.num \in Nat /\ l.num \in Nat
      BY <1>c, NumbersAreNat DEF Continues
    <3> QED BY <3>2, <3>3, <3>4
  <2>2. \A i \in CompletedOf(rc, o) : \A x \in rc[i].lines : x.sku # l.sku
    BY <2>1 DEF CompletedOf
  <2>3. BroughtIn(rc, o, l.sku) = 0
    BY <2>2, NothingBrought
  <2> QED BY <1>2, <1>u, <2>3
<1> QED BY <1>1, <1>2, <1>c DEF Continues

LEMMA WellReceipts ==
  ASSUME TypeInv, CountInv
  PROVE  /\ ReceiptsWell(receipt)
         /\ \A i \in ReceiptIds : \A x \in receipt[i].lines : OnReceipts(x.sku)
  BY DEF TypeInv, ReceiptsTyped, ReceiptTyped, ReceiptsWell, CountInv, CountOf, ReceiptsRegular

(* One order is written. *)
LEMMA OneOrderCount ==
  ASSUME Regular, TypeInv, CountInv, NEW p \in Workers, NEW r, Proceed(p, r),
         NEW o \in Orders, NEW x, po' = [po EXCEPT ![o] = x], receipt' = receipt,
         OrderRegular(x), x.status # "NONE", Counted(x.lines, receipt, r, o),
         req[p].pc # "saveReceipt", r.pc = "saveReceipt" => r.order = o,
         RequestRegular(po', receipt, r)
  PROVE  CountInv'
<1>0. p = Worker
  BY OneWorker
<1>1. \A u \in Orders : po'[u] = IF u = o THEN x ELSE po[u]
  BY DEF TypeInv, OrdersTyped
<1>2. \A u \in Orders : OrderRegular(po'[u])
  BY <1>1 DEF CountInv, CountOf
<1>3. ReceiptsRegular(po', receipt)
  BY <1>1 DEF CountInv, CountOf, ReceiptsRegular
<1>4. \A u \in Orders : Counted(po'[u].lines, receipt, r, u)
  <2> SUFFICES ASSUME NEW u \in Orders, u # o PROVE Counted(po[u].lines, receipt, r, u)
    BY <1>1
  <2>1. Counted(po[u].lines, receipt, req[p], u)
    BY <1>0 DEF CountInv, CountOf
  <2>2. \A k : Unsaved(receipt, req[p], u, k) = Unsaved(receipt, r, u, k)
    BY NothingUnsaved
  <2> QED BY <2>1, <2>2, CountedAlike
<1>5. CountOf(po', receipt', r)
  BY <1>2, <1>3, <1>4 DEF CountOf
<1> QED BY <1>5, NextCount

(* Nothing came between the read and the write. *)
LEMMA WrittenLines ==
  ASSUME TypeInv, SerialInv, NEW p \in Workers, Prepared(req[p]), req[p].drop = {}
  PROVE  LinesAfter(req[p]) = req[p].change \cup Inserted(req[p].add, po[req[p].order].lastId)
<1> DEFINE r == req[p]
<1>1. VersionsOf(r, po[r.order].lines)
  BY DEF SerialInv, Ready
<1>2. Kept(r) = po[r.order].lines
  BY DEF Kept
<1>3. Untouched(r) = {} /\ Rewritten(r) = r.change
  BY <1>1, <1>2 DEF Untouched, Rewritten, VersionsOf
<1> QED BY <1>3 DEF LinesAfter

LEMMA WriteCount ==
  ASSUME Regular, TypeInv, SerialInv, CountInv, NEW p \in Workers, WriteOrder(p)
  PROVE  CountInv'
<1>r. PICK r, o : r = req[p] /\ o = r.order
  OBVIOUS
<1>t. /\ RequestTyped(r) /\ r \in Request /\ r.pc = "write" /\ r.status # "NONE"
      /\ o \in Orders /\ r.status \in POStatuses
  BY <1>r DEF WriteOrder, TypeInv, RequestsTyped, RequestTyped, Request
<1>i. PICK idle : idle = Idle
  OBVIOUS
<1>j. /\ Proceed(p, idle) /\ idle.pc = "idle" /\ receipt' = receipt
      /\ \A orders, rc : RequestRegular(orders, rc, idle)
  BY <1>i, IdleRegular DEF WriteOrder, Answer, Idle
<1>1. CASE ~ Writable(r)
  BY <1>1, <1>r, <1>t, <1>j, QuietCount DEF WriteOrder
<1>2. CASE Writable(r)
  <2>1. Keeps(r, po[o].lines)
    <3>1. p = Worker
      BY OneWorker
    <3> QED BY <1>r, <1>t, <3>1 DEF CountInv, CountOf, RequestRegular
  <2>2. VersionsOf(r, po[o].lines) /\ r.drop = {}
    BY <1>r, <1>t, <2>1 DEF SerialInv, Ready, Prepared, Keeps
  <2>3. PICK old : old = po[o].lines
    OBVIOUS
  <2>4. /\ old \subseteq POLine /\ ById(old) /\ Numbered(old) /\ Brings(old)
    BY <1>2, <1>r, <1>t, <2>3
    DEF TypeInv, OrdersTyped, OrderTyped, Order, CountInv, CountOf, OrderRegular, Writable, Found
  <2>5. PICK x : x = Written(r)
    OBVIOUS
  <2>l. PICK lastId : lastId = po[o].lastId
    OBVIOUS
  <2>6. /\ x.status = r.status
        /\ x.lines = r.change \cup Inserted(r.add, lastId)
    BY <1>r, <1>t, <2>2, <2>5, <2>l, WrittenLines DEF Written, Prepared
  <2>7. PICK new : new = x.lines
    OBVIOUS
  <2>8. ById(r.change)
    BY <1>t DEF RequestTyped
  <2>k. /\ Keeps(r, old) /\ VersionsOf(r, old)
        /\ new = r.change \cup Inserted(r.add, lastId)
    BY <2>1, <2>2, <2>3, <2>6, <2>7
  <2>9. Continues(old, new)
    BY <1>t, <2>4, <2>8, <2>k, KeptLines
  <2>10. Counted(old, receipt, r, o)
    <3>1. p = Worker
      BY OneWorker
    <3> QED BY <1>r, <1>t, <2>3, <3>1 DEF CountInv, CountOf
  <2>11. Counted(new, receipt, idle, o) /\ Brings(new)
    BY <1>t, <1>j, <2>4, <2>9, <2>10, WellReceipts, CountedKept
  <2>12. OrderRegular(x) /\ x.status # "NONE"
    BY <1>t, <2>6, <2>7, <2>9, <2>11 DEF OrderRegular, Continues
  <2>13. po' = [po EXCEPT ![o] = x]
    BY <1>2, <1>r, <2>5 DEF WriteOrder
  <2> QED BY <1>r, <1>t, <1>j, <2>7, <2>11, <2>12, <2>13, OneOrderCount
<1> QED BY <1>1, <1>2

LEMMA NothingNumbered == Numbered({})
<1>1. Numbers({}) = 1..0
  BY DEF Numbers
<1> QED BY <1>1 DEF Numbered, ByNum

LEMMA InsertCount ==
  ASSUME Regular, TypeInv, SerialInv, CountInv, NEW p \in Workers, InsertOrder(p)
  PROVE  CountInv'
<1>r. PICK r, o : r = req[p] /\ o = r.order
  OBVIOUS
<1>t. /\ RequestTyped(r) /\ r \in Request /\ r.pc = "insert" /\ r.status = "NONE"
      /\ o \in Orders /\ po[o].status = "NONE"
  BY <1>r DEF InsertOrder, TypeInv, RequestsTyped, RequestTyped, SerialInv, Ready
<1>i. PICK idle : idle = Idle
  OBVIOUS
<1>j. /\ Proceed(p, idle) /\ idle.pc = "idle" /\ receipt' = receipt
      /\ \A orders, rc : RequestRegular(orders, rc, idle)
  BY <1>i, IdleRegular DEF InsertOrder, Answer, Idle
<1>l. PICK lines : lines = Inserted(r.add, 0)
  OBVIOUS
<1>1. CASE ~ MappingAllowed(o, lines)
  BY <1>1, <1>r, <1>l, <1>t, <1>j, QuietCount DEF InsertOrder
<1>2. CASE MappingAllowed(o, lines)
  <2>1. PICK x : x = [status |-> "DRAFT", lines |-> lines,
                      lastId |-> Max({l.id : l \in lines} \cup {0})]
    OBVIOUS
  <2>2. po' = [po EXCEPT ![o] = x]
    BY <1>2, <1>r, <1>l, <2>1 DEF InsertOrder
  <2>3. Numbers(r.add) = 1..Cardinality(r.add) /\ Brings(r.add)
    <3>1. p = Worker
      BY OneWorker
    <3> QED BY <1>r, <1>t, <3>1 DEF CountInv, CountOf, RequestRegular
  <2>4. ByNum(r.add) /\ Cardinality(r.add) \in Nat
    BY <1>t, FS_CardinalityType DEF RequestTyped
  <2>f. PICK f : f = [n \in r.add |->
          [id |-> 0 + n.num, num |-> n.num, sku |-> n.sku, orderQty |-> n.orderQty,
           receivedQty |-> 0, soLine |-> n.soLine, status |-> "OPEN"]]
    OBVIOUS
  <2>g. lines = {f[n] : n \in r.add}
    BY <1>l, <2>f DEF Inserted
  <2>h. \A n \in r.add : f[n].num = n.num /\ f[n].sku = n.sku /\ f[n].receivedQty = 0
    BY <2>f
  <2>5. /\ \A l \in lines : \E n \in r.add : l.num = n.num /\ l.sku = n.sku /\ l.receivedQty = 0
        /\ \A n \in r.add : \E l \in lines : l.num = n.num /\ l.sku = n.sku
    BY <2>g, <2>h
  <2>6. ByNum(lines)
    BY <2>g, <2>h, <2>4 DEF ByNum
  <2>7. Numbers(lines) = Numbers(r.add)
    BY <2>5 DEF Numbers
  <2>8. Numbered(lines) /\ Brings(lines)
    BY <2>3, <2>4, <2>5, <2>6, <2>7 DEF Numbered, Brings
  <2>9. OrderRegular(x) /\ x.status # "NONE"
    BY <2>1, <2>8 DEF OrderRegular
  <2>10. CompletedOf(receipt, o) = {}
    BY <1>t DEF CompletedOf, CountInv, CountOf, ReceiptsRegular
  <2>11. \A k : BroughtIn(receipt, o, k) = 0
    BY <2>10, WellReceipts, NothingBrought
  <2>12. Counted(x.lines, receipt, idle, o)
    BY <1>j, <2>1, <2>5, <2>11, NothingUnsaved DEF Counted
  <2> QED BY <1>r, <1>t, <1>j, <2>2, <2>9, <2>12, OneOrderCount
<1> QED BY <1>1, <1>2

LEMMA DeleteCount ==
  ASSUME Regular, TypeInv, SerialInv, CountInv, NEW p \in Workers, DeleteOrder(p)
  PROVE  CountInv'
<1>r. PICK r, o : r = req[p] /\ o = r.order
  OBVIOUS
<1>t. r.pc = "delete" /\ o \in Orders /\ po[o] \in Order
  BY <1>r DEF DeleteOrder, TypeInv, RequestsTyped, RequestTyped, OrdersTyped, OrderTyped
<1>i. PICK idle : idle = Idle
  OBVIOUS
<1>j. /\ Proceed(p, idle) /\ idle.pc = "idle" /\ receipt' = receipt
      /\ \A orders, rc : RequestRegular(orders, rc, idle)
  BY <1>i, IdleRegular DEF DeleteOrder, Answer, Idle
<1>1. PICK x : x = [po[o] EXCEPT !.status = "DELETED", !.lines = {}]
  OBVIOUS
<1>2. po' = [po EXCEPT ![o] = x]
  BY <1>r, <1>t, <1>1 DEF DeleteOrder, TypeInv, OrdersTyped
<1>3. x.status = "DELETED" /\ x.lines = {}
  BY <1>t, <1>1 DEF Order
<1>4. OrderRegular(x) /\ Counted(x.lines, receipt, idle, o)
  BY <1>3, NothingNumbered DEF OrderRegular, POStatuses, Counted
<1> QED BY <1>r, <1>t, <1>j, <1>2, <1>3, <1>4, OneOrderCount

(* Receipts *)

(* A draft receipt is made or changed; one being completed keeps its lines.*)
LEMMA DraftCount ==
  ASSUME Regular, TypeInv, CountInv, NEW i \in ReceiptIds, NEW x, ReceiptRequest(i, x),
         receipt[i].status # "COMPLETED", x.status = "DRAFT",
         \A l, m \in x.lines : l = m,
         \A l \in x.lines : OnReceipts(l.sku),
         x.order \in Orders => po[x.order].status # "NONE",
         receipt[i].status = "DRAFT" => x.lines = receipt[i].lines
  PROVE  CountInv'
<1>1. PICK rc, sc, r : rc = receipt /\ sc = receipt' /\ r = req[Worker]
  OBVIOUS
<1>2. \A j \in ReceiptIds : sc[j] = IF j = i THEN x ELSE rc[j]
  BY <1>1 DEF ReceiptRequest, TypeInv, ReceiptsTyped
<1>3. po' = po /\ req' = req
  BY DEF ReceiptRequest
<1>4. ReceiptsRegular(po, rc) /\ RequestRegular(po, rc, r)
  BY <1>1 DEF CountInv, CountOf
<1>5. ReceiptsRegular(po, sc)
  <2>1. {j \in ReceiptIds : sc[j].status = "COMPLETED"} =
          {j \in ReceiptIds : rc[j].status = "COMPLETED"}
    BY <1>1, <1>2
  <2> QED BY <1>2, <1>3, <1>4, <2>1 DEF ReceiptsRegular
<1>6. r.pc \in ReceivingPoints =>
        sc[r.receipt].status = "DRAFT" /\ sc[r.receipt].lines = rc[r.receipt].lines
  BY <1>1, <1>2, <1>4 DEF RequestRegular
<1>7. RequestRegular(po, sc, r)
  <2>1. r.pc \in {"receive", "record"} => r.pc \in ReceivingPoints
    BY DEF ReceivingPoints
  <2> QED BY <1>4, <1>6, <2>1 DEF RequestRegular
<1>8. \A u, k : BroughtIn(sc, u, k) = BroughtIn(rc, u, k)
  <2>1. \A j \in ReceiptIds :
          /\ (rc[j].status = "COMPLETED") <=> (sc[j].status = "COMPLETED")
          /\ rc[j].status = "COMPLETED" => sc[j] = rc[j]
    BY <1>1, <1>2
  <2> QED BY <2>1, BroughtKept
<1>9. \A u, k : Unsaved(sc, r, u, k) = Unsaved(rc, r, u, k)
  BY <1>6 DEF Unsaved, ReceivingPoints
<1>10. \A u \in Orders : Counted(po[u].lines, sc, r, u)
  BY <1>1, <1>8, <1>9 DEF Counted, CountInv, CountOf
<1>11. CountOf(po, sc, r)
  BY <1>5, <1>7, <1>10 DEF CountInv, CountOf
<1> QED BY <1>1, <1>3, <1>11 DEF CountInv

LEMMA ReceiptCount ==
  ASSUME Regular, TypeInv, CountInv, NEW i \in ReceiptIds, ReceiptEndpoint(i)
  PROVE  CountInv'
<1>1. ASSUME NEW o \in Orders, NEW doc \in ReceiptDocs, CreateReceipt(i, o, doc)
      PROVE  CountInv'
  <2>1. PICK x : x = [status |-> "DRAFT", order |-> o, lines |-> doc]
    OBVIOUS
  <2>2. (\A l, m \in doc : l = m) /\ \A l \in doc : OnReceipts(l.sku)
    BY DEF Regular, OnReceipts
  <2>3. ReceiptRequest(i, x) /\ receipt[i].status = "NONE" /\ po[o].status # "NONE"
    BY <1>1, <2>1 DEF CreateReceipt, Found, POStatuses
  <2>4. x.status = "DRAFT" /\ x.order = o /\ x.lines = doc
    BY <2>1
  <2> QED BY <2>2, <2>3, <2>4, DraftCount
<1>2. CASE DivertReceipt(i)
  <2>1. PICK x : x = [receipt[i] EXCEPT !.order = NoOrder]
    OBVIOUS
  <2>2. ReceiptRequest(i, x) /\ receipt[i].status = "DRAFT"
    BY <1>2, <2>1 DEF DivertReceipt
  <2>3. x.status = "DRAFT" /\ x.order = NoOrder /\ x.lines = receipt[i].lines
    BY <2>1, <2>2 DEF TypeInv, ReceiptsTyped, ReceiptTyped, Receipt
  <2>4. ReceiptsRegular(po, receipt) /\ NoOrder \notin Orders
    BY ReceivingAssumption DEF CountInv, CountOf
  <2> QED BY <2>2, <2>3, <2>4, DraftCount DEF ReceiptsRegular
<1>3. /\ ~ \E line : AddReceiptLine(i, line)
      /\ ~ \E o, doc : ReferReceipt(i, o, doc)
      /\ ~ \E o : RedirectReceipt(i, o)
  BY DEF AddReceiptLine, ReferReceipt, RedirectReceipt, Regular
<1> QED BY <1>1, <1>2, <1>3 DEF ReceiptEndpoint

LEMMA BeginCount ==
  ASSUME Regular, TypeInv, CountInv, NEW p \in Workers, NEW i \in ReceiptIds,
         BeginCompletion(p, i)
  PROVE  CountInv'
<1>1. PICK r : r = Receiving([Idle EXCEPT !.order = receipt[i].order, !.receipt = i],
                             receipt[i].lines)
  OBVIOUS
<1>2. /\ r.pc = "receive" /\ r.order = receipt[i].order /\ r.receipt = i
      /\ r.todo = receipt[i].lines
  BY <1>1 DEF Receiving, Idle, BeginCompletion
<1>3. Accept(p, r) /\ UNCHANGED <<po, receipt>> /\ receipt[i].status = "DRAFT"
  BY <1>1 DEF BeginCompletion
<1>4. RequestRegular(po, receipt, r)
  <2>1. receipt[i].order \in Orders
    BY DEF BeginCompletion, TypeInv, ReceiptsTyped, ReceiptTyped, Receipt
  <2>2. po[receipt[i].order].status # "NONE"
    BY <1>3, <2>1 DEF CountInv, CountOf, ReceiptsRegular
  <2> QED BY <1>2, <1>3, <2>2 DEF RequestRegular, ReceivingPoints
<1>5. req[p].pc # "saveReceipt"
  BY <1>3 DEF Accept
<1> QED BY <1>2, <1>3, <1>4, <1>5, QuietCount

LEMMA SaveCount ==
  ASSUME Regular, TypeInv, CountInv, NEW p \in Workers, SaveReceipt(p)
  PROVE  CountInv'
<1>1. PICK rc, sc, r, i : rc = receipt /\ sc = receipt' /\ r = req[p] /\ i = r.receipt
  OBVIOUS
<1>w. p = Worker
  BY OneWorker
<1>2. /\ r.pc = "saveReceipt" /\ i \in ReceiptIds /\ rc[i].status = "DRAFT"
      /\ po[r.order].status # "NONE"
  BY <1>1, <1>w DEF SaveReceipt, CountInv, CountOf, RequestRegular, ReceivingPoints
<1>3. rc[i] \in Receipt
  BY <1>1, <1>2 DEF TypeInv, ReceiptsTyped, ReceiptTyped
<1>4. PICK x : x = [rc[i] EXCEPT !.status = "COMPLETED", !.order = r.order]
  OBVIOUS
<1>5. x.status = "COMPLETED" /\ x.order = r.order /\ x.lines = rc[i].lines
  BY <1>3, <1>4 DEF Receipt
<1>6. \A j \in ReceiptIds : sc[j] = IF j = i THEN x ELSE rc[j]
  BY <1>1, <1>2, <1>4 DEF SaveReceipt, TypeInv, ReceiptsTyped
<1>7. ReceiptsRegular(po, rc)
  BY <1>1 DEF CountInv, CountOf
<1>8. ReceiptsRegular(po, sc)
  <2>1. {j \in ReceiptIds : sc[j].status = "COMPLETED"} =
          {j \in ReceiptIds : rc[j].status = "COMPLETED"} \cup {i}
    BY <1>2, <1>5, <1>6
  <2>2. IsFiniteSet({j \in ReceiptIds : sc[j].status = "COMPLETED"})
    BY <1>7, <2>1, FS_AddElement DEF ReceiptsRegular
  <2> QED BY <1>2, <1>5, <1>6, <1>7, <2>2 DEF ReceiptsRegular
<1>9. ReceiptsWell(rc)
  BY <1>1, WellReceipts
<1>10. ReceiptsWell(sc)
  BY <1>2, <1>5, <1>6, <1>8, <1>9 DEF ReceiptsWell, ReceiptsRegular
<1>11. ASSUME NEW o, NEW k
       PROVE  BroughtIn(sc, o, k) = BroughtIn(rc, o, k) + Unsaved(rc, r, o, k)
  <2>1. BroughtIn(sc, o, k) = BroughtIn(rc, o, k) +
          IF sc[i].order = o THEN QtyOf(rc[i].lines, k) ELSE 0
    BY <1>2, <1>5, <1>6, <1>9, <1>10, BroughtSaved
  <2>2. sc[i].order = r.order
    BY <1>2, <1>5, <1>6
  <2> QED BY <1>1, <1>2, <2>1, <2>2 DEF Unsaved
<1>i. PICK idle : idle = Idle
  OBVIOUS
<1>j. /\ Proceed(p, idle) /\ idle.pc = "idle" /\ po' = po
      /\ \A orders, any : RequestRegular(orders, any, idle)
  BY <1>i, IdleRegular DEF SaveReceipt, Answer, Idle
<1>12. \A o \in Orders : Counted(po[o].lines, sc, idle, o)
  <2> SUFFICES ASSUME NEW o \in Orders PROVE Counted(po[o].lines, sc, idle, o)
    OBVIOUS
  <2>1. Counted(po[o].lines, rc, r, o)
    BY <1>1, <1>w DEF CountInv, CountOf
  <2>2. \A k : BroughtIn(sc, o, k) + Unsaved(sc, idle, o, k) =
                 BroughtIn(rc, o, k) + Unsaved(rc, r, o, k)
    <3> SUFFICES ASSUME NEW k
                 PROVE  BroughtIn(sc, o, k) + Unsaved(sc, idle, o, k) =
                          BroughtIn(rc, o, k) + Unsaved(rc, r, o, k)
      OBVIOUS
    <3>1. BroughtIn(sc, o, k) \in Nat
      BY <1>10, BroughtType
    <3>2. Unsaved(sc, idle, o, k) = 0
      BY <1>j, NothingUnsaved
    <3> QED BY <1>11, <3>1, <3>2
  <2> QED BY <2>1, <2>2 DEF Counted
<1>13. CountOf(po', sc, idle)
  BY <1>j, <1>8, <1>12 DEF CountOf, CountInv
<1> QED BY <1>1, <1>j, <1>13, NextCount

(* A line of the order receives *)

LEMMA ReceivedFields ==
  ASSUME NEW l \in POLine, NEW qty
  PROVE  /\ Received(l, qty).num = l.num /\ Received(l, qty).sku = l.sku
         /\ Received(l, qty).soLine = l.soLine
<1>1. PICK n, status :
        /\ n = l.receivedQty + qty
        /\ status = IF l.receivedQty + qty >= l.orderQty THEN "RECEIVED"
                    ELSE "PARTIALLY_RECEIVED"
  OBVIOUS
<1>2. Received(l, qty) = [[l EXCEPT !.receivedQty = n] EXCEPT !.status = status]
  BY <1>1 DEF Received, POLine
<1>3. PICK v : v = [[l EXCEPT !.receivedQty = n] EXCEPT !.status = status]
  OBVIOUS
<1>4. v.num = l.num /\ v.sku = l.sku /\ v.soLine = l.soLine
  BY <1>3 DEF POLine
<1> QED BY <1>2, <1>3, <1>4

(* What ReadForReceipt computes and RecordReceipt writes. *)
Records(lines, l, t, v, change) ==
  /\ l \in lines /\ First(l, {m \in lines : m.sku = t.sku})
  /\ l.status \notin {"CANCELLED", "RECEIVED"}
  /\ v.id = l.id /\ v.num = l.num /\ v.sku = l.sku /\ v.soLine = l.soLine
  /\ v.receivedQty = l.receivedQty + t.baseQty
  /\ change = (lines \ {l}) \cup {v}

LEMMA RecordingRecords ==
  ASSUME NEW lines, lines \subseteq POLine, NEW t, t.baseQty \in Nat, NEW change,
         Recording(lines, t, change)
  PROVE  \E l, v : Records(lines, l, t, v, change)
<1>1. PICK l \in lines : /\ First(l, {m \in lines : m.sku = t.sku})
                         /\ Receivable(l, t.baseQty)
                         /\ change = (lines \ {l}) \cup {Received(l, t.baseQty)}
  BY DEF Recording
<1>2. PICK v : v = Received(l, t.baseQty)
  OBVIOUS
<1>3. /\ v.id = l.id /\ v.num = l.num /\ v.sku = l.sku /\ v.soLine = l.soLine
      /\ v.receivedQty = l.receivedQty + t.baseQty
  BY <1>2, ReceivedFields, ReceivedTyped
<1> QED BY <1>1, <1>2, <1>3 DEF Records, Receivable

LEMMA RecordedRegular ==
  ASSUME NEW lines, Numbered(lines), NEW l, NEW t, NEW v, NEW change,
         Records(lines, l, t, v, change)
  PROVE  Numbered(change) /\ (Brings(lines) => Brings(change))
<1>1. change = (lines \ {l}) \cup {v} /\ l \in lines /\ v.num = l.num /\ v.sku = l.sku
  BY DEF Records
<1>2. ByNum(change)
  BY <1>1 DEF Numbered, ByNum
<1>3. Numbers(change) = Numbers(lines)
  BY <1>1 DEF Numbers
<1>4. Brings(lines) => Brings(change)
  BY <1>1 DEF Brings
<1> QED BY <1>2, <1>3, <1>4 DEF Numbered

(* The line counts the receipt before it is completed. *)
LEMMA RecordedCounted ==
  ASSUME NEW lines, lines \subseteq POLine, Numbered(lines), NEW l, NEW t, NEW v, NEW change,
         Records(lines, l, t, v, change),
         NEW rc, ReceiptsWell(rc), NEW i \in ReceiptIds, t \in rc[i].lines,
         NEW r, r.pc # "saveReceipt",
         NEW s, s.pc = "saveReceipt", s.receipt = i, NEW o, s.order = o,
         Counted(lines, rc, r, o)
  PROVE  Counted(change, rc, s, o)
<1> SUFFICES ASSUME NEW x \in change, FirstHere(x, change),
                    x.status \in {"OPEN", "PARTIALLY_RECEIVED"}
             PROVE  x.receivedQty = BroughtIn(rc, o, x.sku) + Unsaved(rc, s, o, x.sku)
  BY DEF Counted
<1>r. /\ l \in lines /\ First(l, {m \in lines : m.sku = t.sku}) /\ l.sku = t.sku
      /\ l.status \notin {"CANCELLED", "RECEIVED"}
      /\ v.id = l.id /\ v.num = l.num /\ v.sku = l.sku /\ v.soLine = l.soLine
      /\ v.receivedQty = l.receivedQty + t.baseQty
      /\ change = (lines \ {l}) \cup {v}
  BY DEF Records, First
<1>u. \A k : /\ Unsaved(rc, r, o, k) = 0
             /\ Unsaved(rc, s, o, k) = QtyOf(rc[i].lines, k)
             /\ BroughtIn(rc, o, k) \in Nat
             /\ QtyOf(rc[i].lines, k) = IF t.sku = k THEN t.baseQty ELSE 0
  BY NothingUnsaved, BroughtType, QtyOfLine DEF Unsaved, ReceiptsWell
<1>q. t.baseQty \in Nat
  BY DEF ReceiptsWell, ReceiptLinesTyped, ReceiptLine
<1>1. CASE x = v
  <2>1. FirstHere(l, lines)
    BY <1>r DEF FirstHere
  <2>2. l.status \in {"OPEN", "PARTIALLY_RECEIVED"}
    BY <1>r DEF POLine, LineStatuses
  <2>3. l.receivedQty = BroughtIn(rc, o, l.sku) + Unsaved(rc, r, o, l.sku)
    BY <1>r, <2>1, <2>2 DEF Counted
  <2> QED BY <1>1, <1>r, <1>u, <1>q, <2>3
<1>2. CASE x # v
  <2>1. x \in lines /\ x # l
    BY <1>2, <1>r
  <2>2. x.sku # t.sku
    <3> SUFFICES ASSUME x.sku = t.sku PROVE FALSE
      OBVIOUS
    <3>1. x.num <= v.num
      BY <1>r DEF FirstHere, First
    <3>2. l.num <= x.num
      BY <1>r, <2>1 DEF First
    <3>3. x.num \in Nat /\ l.num \in Nat
      BY <1>r, <2>1 DEF POLine
    <3>4. x.num = l.num
      BY <1>r, <3>1, <3>2, <3>3
    <3> QED BY <1>r, <2>1, <3>4 DEF Numbered, ByNum
  <2>3. FirstHere(x, lines)
    BY <1>r, <2>1, <2>2 DEF FirstHere, First
  <2>4. x.receivedQty = BroughtIn(rc, o, x.sku) + Unsaved(rc, r, o, x.sku)
    BY <2>1, <2>3 DEF Counted
  <2> QED BY <1>u, <2>2, <2>4
<1> QED BY <1>1, <1>2

(* The write is never refused: no line takes a mapping. *)
LEMMA RecordedWritable ==
  ASSUME TypeInv, SerialInv, MappingInv, NEW p \in Workers, req[p].pc = "record",
         NEW o \in Orders, o = req[p].order, NEW l, NEW t, NEW v,
         Records(po[o].lines, l, t, v, req[p].change)
  PROVE  Writable(req[p]) /\ LinesAfter(req[p]) = req[p].change
<1>1. PICK r, lines : r = req[p] /\ lines = po[o].lines
  OBVIOUS
<1>2. RequestTyped(r) /\ Ready(r) /\ OrderTyped(po[o]) /\ lines \subseteq POLine
  BY <1>1 DEF TypeInv, RequestsTyped, SerialInv, OrdersTyped, OrderTyped, Order
<1>3. r.pc = "record" /\ r.order = o /\ r.status # "NONE" /\ r.add = {} /\ r.drop = {}
  BY <1>1, <1>2 DEF RequestTyped, Ready
<1>r. /\ l \in lines /\ v.id = l.id /\ v.num = l.num /\ v.soLine = l.soLine
      /\ r.change = (lines \ {l}) \cup {v}
  BY <1>1 DEF Records
<1>4. Kept(r) = lines /\ Rewritten(r) \subseteq r.change
  BY <1>1, <1>3 DEF Kept, Rewritten
<1>5. LinesAfter(r) = r.change
  <2>1. Inserted(r.add, po[o].lastId) = {}
    BY <1>3 DEF Inserted
  <2>2. Prepared(r)
    BY <1>3 DEF Prepared
  <2> QED BY <1>1, <1>3, <2>1, <2>2, WrittenLines
<1>6. Found(o)
  BY <1>1, <1>2, <1>r DEF Found, OrderTyped
<1>7. \A m, n \in lines : m.soLine = n.soLine /\ m.soLine # NoSoLine => m = n
  BY <1>1 DEF MappingInv, MappedOnce
<1>8. \A c, d \in r.change : c.soLine = d.soLine /\ c.soLine # NoSoLine => c = d
  <2> SUFFICES ASSUME NEW c \in r.change, NEW d \in r.change,
                      c.soLine = d.soLine, c.soLine # NoSoLine
               PROVE  c = d
    OBVIOUS
  <2>1. PICK m : m = IF c = v THEN l ELSE c
    OBVIOUS
  <2>2. PICK n : n = IF d = v THEN l ELSE d
    OBVIOUS
  <2>3. m \in lines /\ n \in lines /\ m.soLine = c.soLine /\ n.soLine = d.soLine
    BY <1>r, <2>1, <2>2
  <2>4. m = n
    BY <1>7, <2>3
  <2> QED BY <1>r, <2>1, <2>2, <2>4
<1>9. \A s \in Mapped(r.change) : \E m \in lines : m.soLine = s /\ s # NoSoLine
  BY <1>r DEF Mapped
<1>10. \A s \in Mapped(r.change) :
         /\ soLine[s] # "DELETED"
         /\ \A other \in Orders \ {o} : s \notin Mapped(po[other].lines)
  <2> SUFFICES ASSUME NEW s \in Mapped(r.change)
               PROVE  /\ soLine[s] # "DELETED"
                      /\ \A other \in Orders \ {o} : s \notin Mapped(po[other].lines)
    OBVIOUS
  <2>1. PICK m \in po[o].lines : m.soLine = s /\ s # NoSoLine
    BY <1>1, <1>9
  <2> QED BY <2>1 DEF MappingInv, MappedOnce, Mapped
<1>11. MappingAllowed(o, LinesAfter(r))
  BY <1>5, <1>8, <1>10 DEF MappingAllowed
<1>12. OneAfterTheOther(r)
  <2> SUFFICES ASSUME NEW c \in r.change, NEW n \in lines,
                      c.soLine = n.soLine, c.soLine # NoSoLine
               PROVE  n.num <= c.num
    BY <1>4 DEF OneAfterTheOther
  <2>1. PICK m : m = IF c = v THEN l ELSE c
    OBVIOUS
  <2>2. m \in lines /\ m.soLine = c.soLine /\ m.num = c.num
    BY <1>r, <2>1
  <2>3. m = n
    BY <1>7, <2>2
  <2>4. n.num \in Nat
    BY <1>2 DEF POLine
  <2> QED BY <2>2, <2>3, <2>4
<1> QED BY <1>1, <1>3, <1>5, <1>6, <1>11, <1>12 DEF Writable

LEMMA ReadCount ==
  ASSUME Regular, TypeInv, SerialInv, CountInv, NEW p \in Workers, ReadForReceipt(p)
  PROVE  CountInv'
<1>r. PICK r, o, i : r = req[p] /\ o = r.order /\ i = r.receipt
  OBVIOUS
<1>w. p = Worker
  BY OneWorker
<1>t. /\ r \in Request /\ r.pc = "receive" /\ o \in Orders /\ po[o].lines \subseteq POLine
      /\ UNCHANGED <<po, receipt>>
  BY <1>r DEF ReadForReceipt, TypeInv, RequestsTyped, RequestTyped, OrdersTyped,
              OrderTyped, Order, Rows
<1>c. /\ i \in ReceiptIds /\ receipt[i].status = "DRAFT" /\ po[o].status # "NONE"
      /\ r.todo = receipt[i].lines
  BY <1>r, <1>w, <1>t DEF CountInv, CountOf, RequestRegular, ReceivingPoints
<1>1. ASSUME NEW t \in r.todo, NEW l \in po[o].lines, NEW lines,
             lines = (po[o].lines \ {l}) \cup {Received(l, t.baseQty)},
             First(l, LinesOf(o, t.sku)), Receivable(l, t.baseQty), NEW status,
             Proceed(p, [req[p] EXCEPT !.pc = "record", !.change = lines, !.status = status])
      PROVE  CountInv'
  <2>1. PICK s : s = [req[p] EXCEPT !.pc = "record", !.change = lines, !.status = status]
    OBVIOUS
  <2>2. /\ s.pc = "record" /\ s.order = o /\ s.receipt = i /\ s.todo = r.todo
        /\ s.change = lines
    BY <1>r, <1>t, <2>1 DEF Request
  <2>3. Recording(po[o].lines, t, lines)
    BY <1>1 DEF Recording, LinesOf
  <2>4. RequestRegular(po, receipt, s)
    BY <1>c, <2>2, <2>3 DEF RequestRegular, ReceivingPoints
  <2> QED BY <1>1, <1>r, <1>t, <2>1, <2>2, <2>4, QuietCount
<1>2. ASSUME NEW t \in r.todo,
             ~ \E l \in po[o].lines : First(l, LinesOf(o, t.sku)) /\ Receivable(l, t.baseQty),
             Proceed(p, GiveUp(req[p]))
      PROVE  CountInv'
  <2>1. PICK s : s = GiveUp(req[p])
    OBVIOUS
  <2>2. s.pc = "saveReceipt" /\ s.order = o /\ s.receipt = i
    BY <1>r, <1>t, <2>1 DEF GiveUp, Receiving, Request
  <2>3. RequestRegular(po, receipt, s)
    BY <1>c, <2>2 DEF RequestRegular, ReceivingPoints
  <2>4. ReceiptsWell(receipt) /\ t.baseQty \in Nat
    BY <1>c, WellReceipts DEF ReceiptsWell, ReceiptLinesTyped, ReceiptLine
  <2>5. ASSUME NEW u \in Orders
        PROVE  Counted(po[u].lines, receipt, s, u)
    <3>1. Counted(po[u].lines, receipt, r, u)
      BY <1>r, <1>w DEF CountInv, CountOf
    <3>2. CASE u # o
      <4>1. \A k : Unsaved(receipt, r, u, k) = Unsaved(receipt, s, u, k)
        BY <1>r, <2>2, <3>2, NothingUnsaved
      <4> QED BY <3>1, <4>1, CountedAlike
    <3>3. CASE u = o
      <4> SUFFICES ASSUME NEW l \in po[o].lines, FirstHere(l, po[o].lines),
                          l.status \in {"OPEN", "PARTIALLY_RECEIVED"}
                   PROVE  l.receivedQty = BroughtIn(receipt, o, l.sku) +
                                            Unsaved(receipt, s, o, l.sku)
        BY <3>3 DEF Counted
      <4>1. l.receivedQty = BroughtIn(receipt, o, l.sku) + Unsaved(receipt, r, o, l.sku)
        BY <3>1, <3>3 DEF Counted
      <4>2. Unsaved(receipt, r, o, l.sku) = 0
        BY <1>t, NothingUnsaved
      <4>3. QtyOf(receipt[i].lines, l.sku) = IF t.sku = l.sku THEN t.baseQty ELSE 0
        BY <1>c, <2>4, QtyOfLine DEF ReceiptsWell
      <4>4. t.sku = l.sku => t.baseQty = 0
        <5> SUFFICES ASSUME t.sku = l.sku PROVE t.baseQty = 0
          OBVIOUS
        <5>1. First(l, LinesOf(o, t.sku))
          BY DEF FirstHere, LinesOf
        <5>2. ~ Receivable(l, t.baseQty)
          BY <1>2, <5>1
        <5> QED BY <2>4, <5>2 DEF Receivable
      <4>5. Unsaved(receipt, s, o, l.sku) = 0
        BY <2>2, <4>3, <4>4 DEF Unsaved
      <4> QED BY <4>1, <4>2, <4>5
    <3> QED BY <3>2, <3>3
  <2>6. CountOf(po', receipt', s)
    BY <1>t, <2>3, <2>5 DEF CountInv, CountOf
  <2> QED BY <1>2, <2>1, <2>6, NextCount
<1> QED
  BY <1>r, <1>1, <1>2 DEF ReadForReceipt

LEMMA RecordCount ==
  ASSUME Regular, TypeInv, SerialInv, MappingInv, CountInv, NEW p \in Workers, RecordReceipt(p)
  PROVE  CountInv'
<1>r. PICK r, o, i : r = req[p] /\ o = r.order /\ i = r.receipt
  OBVIOUS
<1>w. p = Worker
  BY OneWorker
<1>t. /\ r \in Request /\ r.pc = "record" /\ o \in Orders /\ po[o].lines \subseteq POLine
      /\ receipt' = receipt /\ r.status \in POStatuses
  BY <1>r DEF RecordReceipt, TypeInv, RequestsTyped, RequestTyped, Request, OrdersTyped,
              OrderTyped, Order
<1>c. /\ i \in ReceiptIds /\ receipt[i].status = "DRAFT" /\ po[o].status # "NONE"
      /\ r.todo = receipt[i].lines
      /\ \E t \in r.todo : Recording(po[o].lines, t, r.change)
  BY <1>r, <1>w, <1>t DEF CountInv, CountOf, RequestRegular, ReceivingPoints
<1>1. PICK t \in r.todo : Recording(po[o].lines, t, r.change)
  BY <1>c
<1>2. ReceiptsWell(receipt) /\ t.baseQty \in Nat /\ r.todo = {t}
  BY <1>c, WellReceipts DEF ReceiptsWell, ReceiptLinesTyped, ReceiptLine
<1>3. PICK l, v : Records(po[o].lines, l, t, v, r.change)
  BY <1>t, <1>1, <1>2, RecordingRecords
<1>4. Writable(r) /\ LinesAfter(r) = r.change
  BY <1>r, <1>t, <1>3, RecordedWritable
<1>5. PICK x : x = Written(r)
  OBVIOUS
<1>6. x.lines = r.change /\ x.status \in POStatuses
  BY <1>t, <1>4, <1>5 DEF Written
<1>7. PICK s : s = Receiving(r, {})
  OBVIOUS
<1>8. po' = [po EXCEPT ![o] = x] /\ Proceed(p, s)
  <2>1. \A u \in r.todo : r.todo \ {u} = {}
    BY <1>2
  <2> QED BY <1>r, <1>4, <1>5, <1>7, <2>1 DEF RecordReceipt
<1>9. s.pc = "saveReceipt" /\ s.order = o /\ s.receipt = i
  BY <1>r, <1>t, <1>7 DEF Receiving, Request
<1>10. Numbered(po[o].lines) /\ Brings(po[o].lines) /\ Counted(po[o].lines, receipt, r, o)
  <2>1. po[o].status \in POStatuses
    BY <1>r, <1>4 DEF Writable, Found
  <2> QED BY <1>r, <1>w, <1>t, <2>1 DEF CountInv, CountOf, OrderRegular
<1>11. OrderRegular(x) /\ x.status # "NONE"
  BY <1>3, <1>6, <1>10, RecordedRegular DEF OrderRegular, POStatuses
<1>12. Counted(x.lines, receipt, s, o)
  <2>1. t \in receipt[i].lines
    BY <1>c
  <2>2. r.pc # "saveReceipt"
    BY <1>t
  <2>3. Counted(r.change, receipt, s, o)
    BY <1>t, <1>c, <1>2, <1>3, <1>9, <1>10, <2>1, <2>2, RecordedCounted
  <2> QED BY <1>6, <2>3
<1>13. RequestRegular(po', receipt, s)
  <2>1. o \in DOMAIN po
    BY <1>t DEF TypeInv, OrdersTyped
  <2>2. po'[o] = x
    BY <1>8, <2>1
  <2> QED BY <1>c, <1>9, <1>11, <2>2 DEF RequestRegular, ReceivingPoints
<1> QED BY <1>r, <1>t, <1>8, <1>9, <1>11, <1>12, <1>13, OneOrderCount

LEMMA CountKept ==
  ASSUME Regular, TypeInv, SerialInv, MappingInv, CountInv, [Next]_vars
  PROVE  CountInv'
<1>1. CASE UNCHANGED <<po, receipt, req>>
  BY <1>1 DEF CountInv
<1>2. ASSUME NEW p \in Workers, Abort(p) \/ ReceivingFails(p)
      PROVE  FALSE
  BY <1>2 DEF Abort, ReceivingFails, Regular
<1>3. ASSUME NEW i \in ReceiptIds, ReceiptEndpoint(i)
      PROVE  CountInv'
  BY <1>3, ReceiptCount
<1>4. ASSUME NEW s \in SoLines, CloseSoLine(s) \/ DeleteSoLine(s)
      PROVE  FALSE
  BY <1>4 DEF CloseSoLine, DeleteSoLine, Regular
<1>5. ASSUME NEW p \in Workers, Serve(p)
      PROVE  CountInv'
  BY <1>5, ChecksCount, InsertCount, WriteCount, DeleteCount, ReadCount, RecordCount, SaveCount
  DEF Serve
<1>6. CASE Next
  BY <1>1, <1>2, <1>3, <1>4, <1>5, <1>6, EndpointCount, BeginCount
  DEF Next, Quiet, vars
<1> QED BY <1>1, <1>6 DEF vars

LEMMA CountInit ==
  ASSUME Regular, Init
  PROVE  CountInv
<1>1. Worker \in Workers
  BY DEF Regular, Worker
<1>2. req[Worker] = Idle
  BY <1>1 DEF Init
<1>3. PICK idle : idle = Idle
  OBVIOUS
<1>4. RequestRegular(po, receipt, idle)
  BY <1>3, IdleRegular
<1>5. \A o \in Orders : po[o].status = "NONE" /\ po[o].lines = {}
  BY DEF Init
<1>6. \A o \in Orders : OrderRegular(po[o]) /\ Counted(po[o].lines, receipt, idle, o)
  BY <1>5, NothingNumbered DEF OrderRegular, POStatuses, Counted
<1>7. \A i \in ReceiptIds : receipt[i].status = "NONE" /\ receipt[i].lines = {}
  BY DEF Init
<1>8. {i \in ReceiptIds : receipt[i].status = "COMPLETED"} = {}
  BY <1>7
<1>9. ReceiptsRegular(po, receipt)
  BY <1>7, <1>8, FS_EmptySet DEF ReceiptsRegular
<1> QED BY <1>2, <1>3, <1>4, <1>6, <1>9 DEF CountInv, CountOf

(* When requests do not overlap, an order line that still awaits goods has *)
(* recorded every completed receipt of its SKU, neither more nor less, for *)
(* any orders, SKUs, quantities and number of receipts and requests, if    *)
(* every receipt has one line, of a SKU that the orders have from the      *)
(* start, and no line or receipt is taken back (Regular).                  *)
THEOREM ReceiptsAreCounted ==
  ASSUME Regular
  PROVE  Spec => []UnfinishedLinesAreCounted
<1>1. TypeInv /\ SerialInv /\ MappingInv /\ CountInv /\ [Next]_vars => CountInv'
  BY CountKept
<1>2. Init => CountInv
  BY CountInit
<1>3. TypeInv /\ CountInv => UnfinishedLinesAreCounted
  <2> SUFFICES ASSUME TypeInv, CountInv, Resting, NEW o \in Orders, NEW l \in po[o].lines,
                      First(l, LinesOf(o, l.sku)), l.status \in {"OPEN", "PARTIALLY_RECEIVED"}
               PROVE  l.receivedQty = BroughtFor(o, l.sku)
    BY DEF UnfinishedLinesAreCounted
  <2>1. req[Worker].pc = "idle"
    BY DEF Resting, Regular, Worker
  <2>2. FirstHere(l, po[o].lines)
    BY DEF FirstHere, LinesOf
  <2>3. l.receivedQty = BroughtIn(receipt, o, l.sku) + Unsaved(receipt, req[Worker], o, l.sku)
    BY <2>2 DEF CountInv, CountOf, Counted
  <2>4. Unsaved(receipt, req[Worker], o, l.sku) = 0
    BY <2>1 DEF Unsaved
  <2>5. BroughtIn(receipt, o, l.sku) \in Nat
    BY WellReceipts, BroughtType
  <2>6. BroughtIn(receipt, o, l.sku) = BroughtFor(o, l.sku)
    BY DEF BroughtIn, BroughtFor, CompletedOf, QtyOf
  <2> QED BY <2>3, <2>4, <2>5, <2>6
<1>4. Spec => [](TypeInv /\ SerialInv)
  BY OneWorker, SerialAlways
<1>5. Spec => []MappingInv
  BY InitOK, MappingNext, PTL DEF Spec
<1>6. Spec => []CountInv
  BY <1>1, <1>2, <1>4, <1>5, PTL DEF Spec
<1> QED BY <1>3, <1>4, <1>6, PTL

================================================================================
