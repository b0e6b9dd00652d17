--------------------------- MODULE SalesOrderProofs ---------------------------
(***************************************************************************)
(* Proofs about SalesOrderShipping.                                        *)
(***************************************************************************)
EXTENDS SalesOrderShipping, FiniteSums, TLAPS

(* The one quantity clients change lines to is not less than any ordered.  *)
OnlyRaised ==
  \A q \in Quantities :
    /\ \A r \in Quantities : q = r
    /\ \A l \in OrderLines \cup NewLines : l.orderQty <= q

(* A line, stored or remembered, is not shipped beyond its quantity, which *)
(* is still to be raised if it changes at all.                             *)
LineOK(l) ==
  /\ DOMAIN l = {"id", "num", "sku", "orderQty", "shippedQty", "status"}
  /\ l.orderQty \in Nat
  /\ l.shippedQty \in Nat
  /\ l.shippedQty <= l.orderQty
  /\ \A q \in Quantities : l.orderQty <= q

NewLineOK(n) ==
  /\ n.orderQty \in Nat
  /\ \A q \in Quantities : n.orderQty <= q

(* What a request remembers: numbers, ids and statuses do not matter. *)
RequestOK(r) ==
  /\ DOMAIN r = DOMAIN Idle
  /\ r.doc \subseteq IssueLine
  /\ \A t \in r.todo : t.qty \in Nat
  /\ \A l \in r.change : LineOK(l)
  /\ \A n \in r.add : NewLineOK(n)

OrderOK ==
  /\ DOMAIN so = {"status", "lines", "lastId"}
  /\ \A l \in so.lines : LineOK(l)

IssuesOK == issue \in [IssueIds -> Issue]

RequestsOK ==
  /\ req = [p \in Workers |-> req[p]]
  /\ \A p \in Workers : RequestOK(req[p])

ShippingInv == OrderOK /\ IssuesOK /\ RequestsOK

(* Requests *)

LEMMA IdleOK == RequestOK(Idle)
  BY DEF RequestOK, Idle

LEMMA InitOK ==
  ASSUME OnlyRaised
  PROVE  Init => ShippingInv
<1> SUFFICES ASSUME Init PROVE ShippingInv
  OBVIOUS
<1>1. \A l \in OrderLines : LineOK(l)
  BY ShippingAssumption, OnlyRaised DEF LineOK, SOLine, OnlyRaised
<1>2. OrderOK
  BY <1>1 DEF OrderOK, Init
<1>3. IssuesOK
  BY DEF IssuesOK, Init, Issue, IssueStatuses
<1>4. RequestsOK
  BY IdleOK DEF RequestsOK, Init
<1> QED
  BY <1>2, <1>3, <1>4 DEF ShippingInv

LEMMA OneRequest ==
  ASSUME RequestsOK, NEW p \in Workers, NEW r, RequestOK(r),
         req' = [req EXCEPT ![p] = r]
  PROVE  RequestsOK'
<1>1. \A q \in Workers : req'[q] = IF q = p THEN r ELSE req[q]
  BY DEF RequestsOK
<1>2. req' = [q \in Workers |-> req'[q]]
  BY DEF RequestsOK
<1>3. \A q \in Workers : RequestOK(req'[q])
  BY <1>1 DEF RequestsOK
<1> QED
  BY <1>2, <1>3 DEF RequestsOK, RequestOK, LineOK, NewLineOK

LEMMA AnsweredOK ==
  ASSUME RequestsOK, NEW p \in Workers, Answer(p)
  PROVE  RequestsOK'
  BY IdleOK, OneRequest DEF Answer, Proceed

LEMMA ProceedOK ==
  ASSUME RequestsOK, NEW p \in Workers, NEW r, RequestOK(r),
         Proceed(p, r) \/ Accept(p, r)
  PROVE  RequestsOK'
  BY OneRequest DEF Proceed, Accept

(* Writing the order *)

LEMMA NothingWritten ==
  ASSUME OrderOK, UNCHANGED so
  PROVE  OrderOK'
  BY DEF OrderOK, LineOK

LEMMA WrittenOK ==
  ASSUME OrderOK, NEW r, RequestOK(r), so' = Written(r)
  PROVE  OrderOK'
<1> DEFINE new == {[id |-> so.lastId + Cardinality(r.add), num |-> n.num,
                    sku |-> n.sku, orderQty |-> n.orderQty, shippedQty |-> 0,
                    status |-> "OPEN"] : n \in r.add}
<1>1. \A l \in new : LineOK(l)
  BY DEF RequestOK, NewLineOK, LineOK
<1>2. so'.lines \subseteq so.lines \cup r.change \cup new
  BY DEF Written, Kept
<1>3. DOMAIN so' = {"status", "lines", "lastId"}
  BY DEF Written
<1>4. \A l \in so'.lines : LineOK(l)
  BY <1>1, <1>2 DEF OrderOK, RequestOK
<1> QED
  BY <1>3, <1>4 DEF OrderOK, LineOK

(* Goods issues *)

LEMMA GoodsIssueOK ==
  ASSUME OnlyRaised, ShippingInv, NEW p \in Workers,
         \/ \E i \in IssueIds, doc \in IssueDocs : BeginIssue(p, i, doc)
         \/ ReadDrafts(p)
         \/ InsertIssue(p)
  PROVE  ShippingInv'
<1> USE DEF ShippingInv
<1>r. RequestOK(req[p])
  BY DEF RequestsOK
<1>1. CASE \E i \in IssueIds, doc \in IssueDocs : BeginIssue(p, i, doc)
  <2>1. PICK i \in IssueIds, doc \in IssueDocs : BeginIssue(p, i, doc)
    BY <1>1
  <2> DEFINE r == [Idle EXCEPT !.pc = "drafts", !.issue = i, !.doc = doc,
                               !.seen = so.lines]
  <2>2. doc \subseteq IssueLine
    BY ShippingAssumption
  <2>3. RequestOK(r)
    BY <2>2 DEF RequestOK, Idle
  <2> QED
    BY <2>1, <2>3, ProceedOK, NothingWritten DEF BeginIssue, IssuesOK
<1>2. CASE ReadDrafts(p)
  <2> DEFINE r == [req[p] EXCEPT !.pc = "insert", !.seen = {}]
  <2>1. RequestOK(r)
    BY <1>r DEF RequestOK
  <2>2. RequestsOK'
    BY <1>2, <2>1, ProceedOK, AnsweredOK DEF ReadDrafts
  <2> QED
    BY <1>2, <2>2, NothingWritten DEF ReadDrafts, IssuesOK
<1>3. CASE InsertIssue(p)
  <2>1. [status |-> "DRAFT", lines |-> req[p].doc] \in Issue
    BY <1>r DEF RequestOK, Issue, IssueStatuses
  <2> QED
    BY <1>3, <2>1, AnsweredOK, NothingWritten DEF InsertIssue, IssuesOK
<1> QED
  BY <1>1, <1>2, <1>3

LEMMA DraftIssueOK ==
  ASSUME ShippingInv, NEW i \in IssueIds, IssueEndpoint(i)
  PROVE  ShippingInv'
<1> USE DEF ShippingInv
<1>i. issue[i] \in Issue
  BY DEF IssuesOK
<1>1. ASSUME NEW new \in Issue, IssueRequest(i, new)
      PROVE  ShippingInv'
  BY <1>1, NothingWritten DEF IssueRequest, IssuesOK, RequestsOK, RequestOK, LineOK, NewLineOK
<1>2. ASSUME NEW line \in ExtraLines, AddIssueLine(i, line)
      PROVE  ShippingInv'
  <2>1. [line EXCEPT !.baseQty = 0] \in IssueLine
    BY ShippingAssumption DEF IssueLine
  <2>2. [issue[i] EXCEPT !.lines = @ \cup {[line EXCEPT !.baseQty = 0]}] \in Issue
    BY <1>i, <2>1 DEF Issue
  <2> QED BY <1>1, <1>2, <2>2 DEF AddIssueLine, DraftRequest
<1>3. ASSUME NEW line \in issue[i].lines, RemoveIssueLine(i, line)
      PROVE  ShippingInv'
  <2>1. [issue[i] EXCEPT !.lines = @ \ {line}] \in Issue
    BY <1>i DEF Issue
  <2> QED BY <1>1, <1>3, <2>1 DEF RemoveIssueLine, DraftRequest
<1>4. \A status \in IssueStatuses : [issue[i] EXCEPT !.status = status] \in Issue
  BY <1>i DEF Issue
<1>5. [status |-> "DELETED", lines |-> {}] \in Issue
  BY DEF Issue, IssueStatuses
<1>6. ASSUME NEW doc \in IssueDocs, ReferIssue(i, doc)
      PROVE  ShippingInv'
  <2>1. [status |-> "DRAFT", lines |-> doc] \in Issue
    BY ShippingAssumption DEF Issue, IssueStatuses
  <2> QED BY <1>1, <1>6, <2>1 DEF ReferIssue
<1>7. CASE CancelIssue(i) \/ RemoveIssue(i) \/ DivertIssue(i) \/ RedirectIssue(i)
  BY <1>1, <1>4, <1>5, <1>7
  DEF CancelIssue, RemoveIssue, DivertIssue, RedirectIssue, DraftRequest, IssueStatuses
<1> QED BY <1>2, <1>3, <1>6, <1>7 DEF IssueEndpoint

(* Completions *)

(* To ship nothing more is well formed, and so is to ship what was chosen. *)
LEMMA TodoOK ==
  ASSUME NEW r, RequestOK(r), NEW todo, \A t \in todo : t.qty \in Nat
  PROVE  RequestOK(Shipping(r, todo))
  BY DEF RequestOK, Shipping, Idle

LEMMA GivenUpOK ==
  ASSUME NEW r, RequestOK(r)
  PROVE  RequestOK(GiveUp(r))
  BY TodoOK DEF GiveUp

(* SOLine.addShippedQty keeps a line within its quantity: this is where    *)
(* its check, made on the line as it was read, is used.                    *)
LEMMA ShippedOK ==
  ASSUME NEW l, LineOK(l), NEW qty \in Nat, Shippable(l, qty)
  PROVE  LineOK(Shipped(l, qty))
  BY DEF LineOK, Shippable, Shipped

LEMMA CompletionOK ==
  ASSUME ShippingInv, NEW p \in Workers,
         \/ \E i \in IssueIds : BeginCompletion(p, i)
         \/ ReadOrder(p)
         \/ ReadForShipping(p)
         \/ WriteShipping(p)
         \/ SaveIssue(p)
         \/ ShippingFails(p)
  PROVE  ShippingInv'
<1> USE DEF ShippingInv
<1>r. RequestOK(req[p])
  BY DEF RequestsOK
<1>g. RequestOK(GiveUp(req[p]))
  BY <1>r, GivenUpOK
<1>1. CASE \E i \in IssueIds : BeginCompletion(p, i)
  <2>1. PICK i \in IssueIds : BeginCompletion(p, i)
    BY <1>1
  <2> DEFINE r == [Idle EXCEPT !.pc = "order", !.issue = i, !.doc = issue[i].lines]
  <2>2. issue[i].lines \subseteq IssueLine
    BY DEF IssuesOK, Issue
  <2>3. RequestOK(r)
    BY <2>2 DEF RequestOK, Idle
  <2> QED
    BY <2>1, <2>3, ProceedOK, NothingWritten DEF BeginCompletion, IssuesOK
<1>2. CASE ReadOrder(p)
  <2>0. \A x \in req[p].doc : x.baseQty \in Nat
    BY <1>r DEF RequestOK, IssueLine
  <2>1. ASSUME NEW t \in Targets(req[p].doc)
        PROVE  t.qty \in Nat
    <3>1. PICK x \in req[p].doc :
            t = [num |-> x.num, at |-> Min({l.num : l \in NotClosed(x.sku)}), qty |-> x.baseQty]
      BY DEF Targets
    <3> QED BY <2>0, <3>1
  <2>2. RequestOK(Shipping(req[p], Targets(req[p].doc)))
    BY <1>r, <2>1, TodoOK
  <2>3. \E r : RequestOK(r) /\ Proceed(p, r)
    BY <1>2, <1>g, <2>2 DEF ReadOrder
  <2> QED
    BY <1>2, <2>3, ProceedOK, NothingWritten DEF ReadOrder, IssuesOK
<1>3. CASE ReadForShipping(p)
  <2>1. PICK t \in req[p].todo :
          \/ \E l \in so.lines :
               /\ Shippable(l, t.qty)
               /\ Proceed(p, [req[p] EXCEPT !.pc = "shipWrite", !.status = so.status,
                                            !.change = {Shipped(l, t.qty)}])
          \/ Proceed(p, GiveUp(req[p]))
    BY <1>3 DEF ReadForShipping
  <2>2. ASSUME NEW l \in so.lines, Shippable(l, t.qty)
        PROVE  RequestOK([req[p] EXCEPT !.pc = "shipWrite", !.status = so.status,
                                        !.change = {Shipped(l, t.qty)}])
    <3>1. LineOK(Shipped(l, t.qty))
      BY <1>r, <2>2, ShippedOK DEF RequestOK, OrderOK
    <3> QED BY <1>r, <3>1 DEF RequestOK, Idle
  <2>3. \E r : RequestOK(r) /\ Proceed(p, r)
    BY <1>g, <2>1, <2>2
  <2> QED
    BY <1>3, <2>3, ProceedOK, NothingWritten DEF ReadForShipping, IssuesOK
<1>4. CASE WriteShipping(p)
  <2>1. OrderOK'
    BY <1>r, <1>4, WrittenOK, NothingWritten DEF WriteShipping
  <2>2. ASSUME NEW t \in req[p].todo
        PROVE  RequestOK(Shipping(req[p], req[p].todo \ {t}))
    BY <1>r, TodoOK DEF RequestOK
  <2>3. \E r : RequestOK(r) /\ Proceed(p, r)
    BY <1>4, <1>g, <2>2 DEF WriteShipping
  <2> QED
    BY <1>4, <2>1, <2>3, ProceedOK DEF WriteShipping, IssuesOK
<1>5. CASE SaveIssue(p)
  <2>1. issue' \in [IssueIds -> Issue]
    BY <1>5 DEF SaveIssue, IssuesOK, Issue, IssueStatuses
  <2> QED
    BY <1>5, <2>1, AnsweredOK, NothingWritten DEF SaveIssue, IssuesOK
<1>6. CASE ShippingFails(p)
  BY <1>6, <1>g, ProceedOK, NothingWritten DEF ShippingFails, IssuesOK
<1> QED
  BY <1>1, <1>2, <1>3, <1>4, <1>5, <1>6

(* Endpoints of the order *)

LEMMA StoreOK ==
  ASSUME NEW status, NEW change, NEW add, NEW drop,
         \A l \in change : LineOK(l), \A n \in add : NewLineOK(n)
  PROVE  RequestOK(Store(status, change, add, drop))
  BY DEF RequestOK, Store, Idle

LEMMA EndpointAccepted ==
  ASSUME ShippingInv, NEW p \in Workers, NEW r, RequestOK(r),
         Accept(p, r), UNCHANGED <<so, issue, moved>>
  PROVE  ShippingInv'
  BY ProceedOK, NothingWritten DEF ShippingInv, IssuesOK

LEMMA EndpointOK ==
  ASSUME OnlyRaised, ShippingInv, NEW p \in Workers, OrderEndpoint(p)
  PROVE  ShippingInv'
<1> DEFINE Stored(change, add) ==
      \E status, drop : /\ Accept(p, Store(status, change, add, drop))
                        /\ UNCHANGED <<so, issue, moved>>
<1>l. \A l \in so.lines : LineOK(l)
  BY DEF ShippingInv, OrderOK
<1>n. \A n \in NewLines : NewLineOK(n) /\ DOMAIN n = {"num", "sku", "orderQty"}
  BY ShippingAssumption DEF OnlyRaised, NewLineOK, NewLine
<1>s. ASSUME NEW change, NEW add, Stored(change, add),
             \A l \in change : LineOK(l), \A n \in add : NewLineOK(n)
      PROVE  ShippingInv'
  BY <1>s, StoreOK, EndpointAccepted
<1>1. CASE Hold(p) \/ Release(p) \/ Touch(p) \/ \E status \in PatchStatuses : Patch(p, status)
  <2>1. Stored({}, {})
    BY <1>1 DEF Hold, Release, Touch, Patch, OrderRequest
  <2> QED BY <1>s, <2>1
<1>2. CASE Cancel(p)
  <2> DEFINE change == {[l EXCEPT !.status = "CANCELLED"] : l \in so.lines}
  <2>1. \A l \in change : LineOK(l)
    BY <1>l DEF LineOK
  <2>2. Stored(change, {})
    BY <1>2 DEF Cancel, OrderRequest
  <2> QED BY <1>s, <2>1, <2>2
<1>3. CASE Complete(p)
  <2> DEFINE change == {[l EXCEPT !.status = "CLOSED"] :
                          l \in {m \in so.lines : m.status # "CANCELLED"}}
  <2>1. \A l \in change : LineOK(l)
    BY <1>l DEF LineOK
  <2>2. Stored(change, {})
    BY <1>3 DEF Complete, OrderRequest
  <2> QED BY <1>s, <2>1, <2>2
<1>4. CASE Remove(p)
  <2>1. RequestOK([Idle EXCEPT !.pc = "soDelete"])
    BY DEF RequestOK, Idle
  <2> QED BY <1>4, <2>1, EndpointAccepted DEF Remove
<1>5. ASSUME NEW line \in NewLines, AddLine(p, line)
      PROVE  ShippingInv'
  <2> DEFINE n == [line EXCEPT !.num = IF @ = 0 THEN NextNum ELSE @]
  <2>1. NewLineOK(n)
    BY <1>n DEF NewLineOK
  <2>2. Stored({}, {n})
    BY <1>5 DEF AddLine, OrderRequest
  <2> QED BY <1>s, <2>1, <2>2
<1>6. ASSUME NEW line \in so.lines, NEW qty \in Quantities, UpdateLine(p, line, qty)
      PROVE  ShippingInv'
  <2> DEFINE l == [line EXCEPT !.orderQty = qty]
  <2>1. qty \in Nat /\ \A q \in Quantities : qty = q
    BY ShippingAssumption DEF OnlyRaised
  <2>2. LineOK(l)
    BY <1>l, <2>1 DEF LineOK
  <2>3. Stored({l}, {})
    BY <1>6 DEF UpdateLine, OrderRequest
  <2> QED BY <1>s, <2>2, <2>3
<1>7. ASSUME NEW line \in so.lines, DeleteLine(p, line)
      PROVE  ShippingInv'
  <2>1. RequestOK([Idle EXCEPT !.pc = "lineRead", !.num = line.num])
    BY DEF RequestOK, Idle
  <2> QED BY <1>7, <2>1, EndpointAccepted DEF DeleteLine
<1>8. ASSUME NEW linesToDelete, NEW existing, NEW new, new \subseteq NewLines,
             UpdateWithLines(p, linesToDelete, existing, new)
      PROVE  ShippingInv'
  <2> DEFINE r == Store(so.status, {}, new, {l.id : l \in linesToDelete \cup existing})
             k == {l.id : l \in existing}
  <2>1. RequestOK(r)
    BY <1>n, <1>8, StoreOK
  <2> HIDE DEF r
  <2>2. RequestOK([r EXCEPT !.keep = k])
    BY <2>1 DEF RequestOK, Idle
  <2>3. Accept(p, [r EXCEPT !.keep = k]) /\ UNCHANGED <<so, issue, moved>>
    BY <1>8 DEF UpdateWithLines, OrderRequest, r
  <2> QED BY <2>2, <2>3, EndpointAccepted
<1>9. ASSUME NEW line \in so.lines, UpdateWithLines(p, {line}, {}, {}) \/ UpdateWithLines(p, {}, {line}, {})
      PROVE  ShippingInv'
  BY <1>8, <1>9
<1>10. ASSUME NEW line \in NewLines, UpdateWithLines(p, {}, {}, {line})
      PROVE  ShippingInv'
  <2>1. {line} \subseteq NewLines
    OBVIOUS
  <2> QED BY <1>8, <1>10, <2>1
<1> QED
  BY <1>1, <1>2, <1>3, <1>4, <1>5, <1>6, <1>7, <1>9, <1>10 DEF OrderEndpoint

LEMMA OrderWriteOK ==
  ASSUME ShippingInv, NEW p \in Workers,
         WriteOrder(p) \/ DeleteOrder(p) \/ ReadForDelete(p) \/ Abort(p)
  PROVE  ShippingInv'
<1> USE DEF ShippingInv
<1>r. RequestOK(req[p])
  BY DEF RequestsOK
<1>1. CASE WriteOrder(p)
  BY <1>1, <1>r, WrittenOK, NothingWritten, AnsweredOK DEF WriteOrder, IssuesOK
<1>2. CASE DeleteOrder(p)
  <2>1. OrderOK'
    BY <1>2 DEF DeleteOrder, OrderOK
  <2> QED BY <1>2, <2>1, AnsweredOK DEF DeleteOrder, IssuesOK
<1>3. CASE ReadForDelete(p)
  <2>1. \A l \in so.lines : RequestOK(Store(so.status, {}, {}, {l.id}))
    BY StoreOK
  <2>2. RequestsOK'
    BY <1>3, <2>1, ProceedOK, AnsweredOK DEF ReadForDelete
  <2> QED BY <1>3, <2>2, NothingWritten DEF ReadForDelete, IssuesOK
<1>4. CASE Abort(p)
  BY <1>4, AnsweredOK, NothingWritten DEF Abort, IssuesOK
<1> QED
  BY <1>1, <1>2, <1>3, <1>4

LEMMA ShippingNext ==
  ASSUME OnlyRaised
  PROVE  ShippingInv /\ [Next]_vars => ShippingInv'
<1> SUFFICES ASSUME ShippingInv, [Next]_vars PROVE ShippingInv'
  OBVIOUS
<1>1. CASE UNCHANGED vars
  BY <1>1, NothingWritten
  DEF vars, ShippingInv, IssuesOK, RequestsOK, RequestOK, LineOK, NewLineOK
<1>2. CASE Next
  BY <1>1, <1>2, GoodsIssueOK, DraftIssueOK, CompletionOK, EndpointOK, OrderWriteOK
  DEF Next, Serve, Quiet
<1> QED
  BY <1>1, <1>2

(* No line of the order is ever shipped beyond its quantity, for any lines *)
(* and issues, any number of requests at a time, and faults: writes that   *)
(* are computed from older reads lose shipments but never exceed a line,   *)
(* as long as quantities are not reduced.                                  *)
THEOREM NoLineOvershipped ==
  ASSUME OnlyRaised
  PROVE  Spec => []NeverOvershipped
<1>1. ShippingInv => NeverOvershipped
  BY DEF ShippingInv, OrderOK, LineOK, NeverOvershipped
<1> QED
  BY <1>1, InitOK, ShippingNext, PTL DEF Spec

(***************************************************************************)
(* Types.  Beyond TypeOK: what is remembered or stored is finite, rows are *)
(* identified by their ids, lines of an issue by their numbers, and a      *)
(* request about to write the order knows which status to write.           *)
(***************************************************************************)

ById(lines)  == \A l, m \in lines : l.id = m.id => l = m
ByNum(lines) == \A l, m \in lines : l.num = m.num => l = m

OrderTyped ==
  /\ so \in Order
  /\ IsFiniteSet(so.lines)
  /\ ById(so.lines)
  /\ \A l \in so.lines : l.id <= so.lastId
  /\ so.status = "DELETED" => so.lines = {}

IssueLinesTyped(lines) ==
  lines \subseteq IssueLine /\ IsFiniteSet(lines) /\ ByNum(lines)

IssueTyped(x) == x \in Issue /\ IssueLinesTyped(x.lines)

RequestTyped(r) ==
  /\ r \in Request
  /\ IssueLinesTyped(r.doc)
  /\ IsFiniteSet(r.todo) /\ ByNum(r.todo)
  /\ IsFiniteSet(r.change) /\ ById(r.change)
  /\ \E n : r.add \subseteq {n}
  /\ r.pc \in {"soWrite", "shipWrite"} => r.status # "NONE"

IssuesTyped ==
  /\ issue = [i \in IssueIds |-> issue[i]]
  /\ \A i \in IssueIds : IssueTyped(issue[i])

RequestsTyped ==
  /\ req = [p \in Workers |-> req[p]]
  /\ \A p \in Workers : RequestTyped(req[p])

TypeInv ==
  /\ OrderTyped /\ IssuesTyped /\ RequestsTyped
  /\ moved \in [Skus -> Nat]
  /\ issued \in Nat

LEMMA TypeInvIsTypeOK == TypeInv => TypeOK
  BY DEF TypeInv, TypeOK, OrderTyped, IssuesTyped, IssueTyped, RequestsTyped, RequestTyped

LEMMA IdleTyped == RequestTyped(Idle)
<1>1. Idle \in Request
  BY DEF Idle, Request, Points
<1>2. IsFiniteSet({})
  BY FS_EmptySet
<1> QED BY <1>1, <1>2 DEF RequestTyped, Idle, IssueLinesTyped, ById, ByNum

LEMMA InitTyped == Init => TypeInv
<1> SUFFICES ASSUME Init PROVE TypeInv
  OBVIOUS
<1> DEFINE ids == {l.id : l \in OrderLines}
<1>1. OrderLines \subseteq SOLine /\ IsFiniteSet(OrderLines) /\ ById(OrderLines)
  BY ShippingAssumption DEF ById
<1>2. IsFiniteSet(ids \cup {0}) /\ ids \cup {0} # {} /\ \A x \in ids \cup {0} : x \in Nat
  <2> DEFINE f == [l \in OrderLines |-> l.id]
  <2>1. IsFiniteSet({f[l] : l \in OrderLines})
    BY <1>1, FiniteImage
  <2>2. IsFiniteSet(ids)
    BY <2>1
  <2>3. IsFiniteSet(ids \cup {0})
    <3> HIDE DEF ids
    <3> QED BY <2>2, FS_AddElement
  <2> QED BY <1>1, <2>3 DEF SOLine
<1>3. Max(ids \cup {0}) \in Nat /\ \A x \in ids : x <= Max(ids \cup {0})
  <2> HIDE DEF ids
  <2> QED BY <1>2, MaxOfFinite
<1>4. OrderTyped
  <2>1. so \in Order
    BY <1>1, <1>3 DEF Init, Order, SOStatuses
  <2>2. \A l \in so.lines : l.id <= so.lastId
    BY <1>3 DEF Init
  <2> QED BY <1>1, <2>1, <2>2 DEF OrderTyped, Init
<1>5. \A i \in IssueIds : IssueTyped(issue[i])
  BY FS_EmptySet DEF Init, IssueTyped, IssueLinesTyped, ByNum, Issue, IssueStatuses
<1> QED
  BY <1>4, <1>5, IdleTyped DEF TypeInv, Init, IssuesTyped, RequestsTyped

LEMMA OneRequestTyped ==
  ASSUME RequestsTyped, NEW p \in Workers, NEW r, RequestTyped(r),
         req' = [req EXCEPT ![p] = r]
  PROVE  RequestsTyped'
<1>1. \A q \in Workers : req'[q] = IF q = p THEN r ELSE req[q]
  BY DEF RequestsTyped
<1>2. req' = [q \in Workers |-> req'[q]]
  BY DEF RequestsTyped
<1>3. \A q \in Workers : RequestTyped(req'[q])
  BY <1>1 DEF RequestsTyped
<1> QED BY <1>2, <1>3 DEF RequestsTyped

LEMMA ServedTyped ==
  ASSUME TypeInv, NEW p \in Workers, NEW r, RequestTyped(r),
         Proceed(p, r) \/ Accept(p, r)
  PROVE  RequestsTyped' /\ issued' \in Nat
  BY OneRequestTyped DEF TypeInv, Proceed, Accept

LEMMA AnsweredTyped ==
  ASSUME TypeInv, NEW p \in Workers, Answer(p)
  PROVE  RequestsTyped' /\ issued' \in Nat
  BY ServedTyped, IdleTyped DEF Answer

LEMMA QuietTyped ==
  ASSUME TypeInv, NEW p \in Workers, NEW r, RequestTyped(r),
         Proceed(p, r) \/ Accept(p, r), UNCHANGED <<so, issue, moved>>
  PROVE  TypeInv'
  BY ServedTyped DEF TypeInv, OrderTyped, IssuesTyped

LEMMA OneIssueTyped ==
  ASSUME IssuesTyped, NEW i \in IssueIds, NEW x, IssueTyped(x),
         issue' = [issue EXCEPT ![i] = x]
  PROVE  IssuesTyped'
<1>1. \A j \in IssueIds : issue'[j] = IF j = i THEN x ELSE issue[j]
  BY DEF IssuesTyped
<1>2. issue' = [j \in IssueIds |-> issue'[j]]
  BY DEF IssuesTyped
<1> QED BY <1>1, <1>2 DEF IssuesTyped

LEMMA GoodsIssueTyped ==
  ASSUME TypeInv, NEW p \in Workers,
         \/ \E i \in IssueIds, doc \in IssueDocs : BeginIssue(p, i, doc)
         \/ ReadDrafts(p)
         \/ InsertIssue(p)
  PROVE  TypeInv'
<1>r. RequestTyped(req[p])
  BY DEF TypeInv, RequestsTyped
<1>1. ASSUME NEW i \in IssueIds, NEW doc \in IssueDocs, BeginIssue(p, i, doc)
      PROVE  TypeInv'
  <2> DEFINE r == [Idle EXCEPT !.pc = "drafts", !.issue = i, !.doc = doc,
                               !.seen = so.lines]
  <2>1. IssueLinesTyped(doc)
    BY ShippingAssumption DEF IssueLinesTyped, ByNum
  <2>2. so.lines \subseteq SOLine
    BY DEF TypeInv, OrderTyped, Order
  <2>3. r \in Request
    BY <2>1, <2>2 DEF Idle, Request, Points, IssueLinesTyped
  <2>4. RequestTyped(r)
    BY <2>1, <2>3, IdleTyped DEF Idle, RequestTyped
  <2> QED BY <1>1, <2>4, QuietTyped DEF BeginIssue
<1>2. CASE ReadDrafts(p)
  <2> DEFINE r == [req[p] EXCEPT !.pc = "insert", !.seen = {}]
  <2>1. r \in Request
    BY <1>r DEF RequestTyped, Request, Points
  <2>2. RequestTyped(r)
    BY <1>r, <2>1 DEF RequestTyped, Request
  <2> QED BY <1>2, <2>2, QuietTyped, IdleTyped DEF ReadDrafts, Answer
<1>3. CASE InsertIssue(p)
  <2>1. PICK i : i = req[p].issue
    OBVIOUS
  <2>2. CASE i \in IssueIds
    <3>1. IssueTyped([status |-> "DRAFT", lines |-> req[p].doc])
      BY <1>r DEF RequestTyped, IssueTyped, IssueLinesTyped, Issue, IssueStatuses
    <3>2. IssuesTyped'
      BY <1>3, <2>1, <2>2, <3>1, OneIssueTyped DEF InsertIssue, TypeInv
    <3> QED BY <1>3, <3>2, AnsweredTyped DEF InsertIssue, TypeInv, OrderTyped
  <2>3. CASE i \notin IssueIds
    <3>1. issue' = issue
      BY <1>3, <2>1, <2>3 DEF InsertIssue, TypeInv, IssuesTyped
    <3> QED BY <1>3, <3>1, AnsweredTyped DEF InsertIssue, TypeInv, OrderTyped, IssuesTyped
  <2> QED BY <2>2, <2>3
<1> QED BY <1>1, <1>2, <1>3

LEMMA DraftIssueTyped ==
  ASSUME TypeInv, NEW i \in IssueIds, IssueEndpoint(i)
  PROVE  TypeInv'
<1>i. IssueTyped(issue[i])
  BY DEF TypeInv, IssuesTyped
<1>1. ASSUME NEW new, IssueTyped(new), IssueRequest(i, new)
      PROVE  TypeInv'
  <2>1. IssuesTyped'
    BY <1>1, OneIssueTyped DEF IssueRequest, TypeInv
  <2> QED BY <1>1, <2>1 DEF IssueRequest, TypeInv, OrderTyped, RequestsTyped
<1>2. ASSUME NEW line \in ExtraLines, AddIssueLine(i, line)
      PROVE  TypeInv'
  <2> DEFINE x == [line EXCEPT !.baseQty = 0]
             new == [issue[i] EXCEPT !.lines = @ \cup {x}]
  <2>1. x \in IssueLine /\ x.num = line.num
    BY ShippingAssumption DEF IssueLine
  <2>2. IssueLinesTyped(issue[i].lines \cup {x})
    <3>1. IsFiniteSet(issue[i].lines \cup {x})
      BY <1>i, FS_AddElement DEF IssueTyped, IssueLinesTyped
    <3>2. \A l \in issue[i].lines : l.num # line.num
      BY <1>2 DEF AddIssueLine
    <3> QED BY <1>i, <2>1, <3>1, <3>2 DEF IssueTyped, IssueLinesTyped, ByNum
  <2>3. new \in Issue /\ new.lines = issue[i].lines \cup {x}
    BY <1>i, <2>2 DEF IssueTyped, Issue, IssueLinesTyped
  <2>4. IssueTyped(new)
    BY <2>2, <2>3 DEF IssueTyped
  <2> QED BY <1>1, <1>2, <2>4 DEF AddIssueLine, DraftRequest
<1>3. ASSUME NEW line \in issue[i].lines, RemoveIssueLine(i, line)
      PROVE  TypeInv'
  <2> DEFINE new == [issue[i] EXCEPT !.lines = @ \ {line}]
  <2>1. IssueLinesTyped(issue[i].lines \ {line})
    BY <1>i, FS_RemoveElement DEF IssueTyped, IssueLinesTyped, ByNum
  <2>2. new \in Issue /\ new.lines = issue[i].lines \ {line}
    BY <1>i, <2>1 DEF IssueTyped, Issue, IssueLinesTyped
  <2> QED BY <1>1, <1>3, <2>1, <2>2 DEF RemoveIssueLine, DraftRequest, IssueTyped
<1>4. \A status \in IssueStatuses : IssueTyped([issue[i] EXCEPT !.status = status])
  BY <1>i DEF IssueTyped, Issue
<1>5. IssueTyped([status |-> "DELETED", lines |-> {}])
  BY FS_EmptySet DEF IssueTyped, IssueLinesTyped, ByNum, Issue, IssueStatuses
<1>6. ASSUME NEW doc \in IssueDocs, ReferIssue(i, doc)
      PROVE  TypeInv'
  <2>1. IssueTyped([status |-> "DRAFT", lines |-> doc])
    BY ShippingAssumption DEF IssueTyped, IssueLinesTyped, ByNum, Issue, IssueStatuses
  <2> QED BY <1>1, <1>6, <2>1 DEF ReferIssue
<1>7. CASE CancelIssue(i) \/ RemoveIssue(i) \/ DivertIssue(i) \/ RedirectIssue(i)
  BY <1>1, <1>4, <1>5, <1>7
  DEF CancelIssue, RemoveIssue, DivertIssue, RedirectIssue, DraftRequest, IssueStatuses
<1> QED BY <1>2, <1>3, <1>6, <1>7 DEF IssueEndpoint

(* Writing the order keeps its rows identified by their ids: an updated    *)
(* row takes the place of the row with its id, a new one gets a new id.    *)
LEMMA WrittenTyped ==
  ASSUME OrderTyped, NEW r, RequestTyped(r), r.status # "NONE", so' = Written(r)
  PROVE  OrderTyped'
<1> DEFINE kept  == Kept(r)
           fresh == {c \in r.change : \E l \in kept : c.id = l.id}
           rest  == {l \in kept : ~ \E c \in r.change : c.id = l.id}
           id    == so.lastId + Cardinality(r.add)
           new   == {[id |-> id, num |-> n.num, sku |-> n.sku,
                      orderQty |-> n.orderQty, shippedQty |-> 0,
                      status |-> "OPEN"] : n \in r.add}
<1>o. so \in Order /\ so.lastId \in Nat /\ so.lines \subseteq SOLine
  BY DEF OrderTyped, Order
<1>r. /\ r.change \subseteq SOLine /\ r.add \subseteq NewLine
      /\ r.status \in SOStatuses
  BY DEF RequestTyped, Request
<1>1. /\ so'.lines = rest \cup fresh \cup new
      /\ so'.status = r.status /\ so'.lastId = id
      /\ so' = [status |-> so'.status, lines |-> so'.lines, lastId |-> so'.lastId]
  <2> DEFINE stale == {l \in kept : \E c \in r.change : c.id = l.id}
  <2>1. kept \ stale = rest
    OBVIOUS
  <2>2. so' = [status |-> r.status, lines |-> (kept \ stale) \cup fresh \cup new, lastId |-> id]
    BY DEF Written
  <2> HIDE DEF kept, stale, rest, fresh, new, id
  <2> QED BY <2>1, <2>2
<1>2. PICK n : r.add \subseteq {n}
  BY DEF RequestTyped
<1>3. CASE r.add = {}
  <2>1. id = so.lastId
    BY <1>3, <1>o, FS_EmptySet
  <2>2. new = {}
    BY <1>3
  <2>3. so'.lines = rest \cup fresh
    BY <1>1, <2>2
  <2>4. so'.lines \subseteq SOLine
    BY <2>3, <1>o, <1>r DEF Kept
  <2>5. IsFiniteSet(so'.lines)
    <3>1. IsFiniteSet(rest)
      BY FS_Subset DEF OrderTyped, Kept
    <3>2. IsFiniteSet(fresh)
      BY FS_Subset DEF RequestTyped
    <3> HIDE DEF rest, fresh
    <3> QED BY <2>3, <3>1, <3>2, FS_Union
  <2>6. ById(so'.lines)
    BY <2>3 DEF ById, OrderTyped, RequestTyped, Kept
  <2>7. \A l \in so'.lines : l.id <= so.lastId
    BY <2>3 DEF OrderTyped, Kept
  <2>8. so' \in Order
    BY <1>1, <1>r, <1>o, <2>1, <2>4 DEF Order
  <2>9. r.status # "DELETED"
    BY <1>r DEF SOStatuses
  <2> HIDE DEF rest, fresh, new, id, kept
  <2> QED BY <1>1, <2>1, <2>5, <2>6, <2>7, <2>8, <2>9 DEF OrderTyped
<1>4. CASE r.add = {n}
  <2> DEFINE line == [id |-> id, num |-> n.num, sku |-> n.sku,
                      orderQty |-> n.orderQty, shippedQty |-> 0, status |-> "OPEN"]
  <2>1. id = so.lastId + 1
    BY <1>4, FS_Singleton
  <2>2. new = {line}
    BY <1>4
  <2>3. so'.lines = (rest \cup fresh) \cup {line}
    BY <1>1, <2>2
  <2>4. n \in NewLine
    BY <1>4, <1>r
  <2>5. line \in SOLine /\ line.id = id
    BY <2>1, <2>4, <1>o DEF NewLine, SOLine, LineStatuses
  <2> HIDE DEF line
  <2>6. rest \cup fresh \subseteq SOLine
    BY <1>o, <1>r DEF Kept
  <2>7. IsFiniteSet(rest \cup fresh)
    <3>1. IsFiniteSet(rest)
      BY FS_Subset DEF OrderTyped, Kept
    <3>2. IsFiniteSet(fresh)
      BY FS_Subset DEF RequestTyped
    <3> HIDE DEF rest, fresh
    <3> QED BY <3>1, <3>2, FS_Union
  <2>8. ById(rest \cup fresh)
    BY DEF ById, OrderTyped, RequestTyped, Kept
  <2>9. \A l \in rest \cup fresh : l.id <= so.lastId
    BY DEF OrderTyped, Kept
  <2>10. r.status # "DELETED"
    BY <1>r DEF SOStatuses
  <2> HIDE DEF rest, fresh, new, id, kept
  <2>11. IsFiniteSet(so'.lines)
    BY <2>3, <2>7, FS_AddElement
  <2>12. \A l \in rest \cup fresh : l.id \in Nat /\ l.id <= so.lastId
    BY <2>6, <2>9 DEF SOLine
  <2>13. \A l \in rest \cup fresh : l.id # id
    BY <2>1, <2>12, <1>o
  <2>14. ById(so'.lines)
    BY <2>3, <2>5, <2>8, <2>13 DEF ById
  <2>15. \A l \in so'.lines : l.id <= id
    <3>1. id \in Nat
      BY <2>1, <1>o
    <3> QED BY <2>1, <2>3, <2>5, <2>12, <3>1, <1>o
  <2>16. so' \in Order
    <3>1. so'.lines \subseteq SOLine
      BY <2>3, <2>5, <2>6
    <3>2. id \in Nat
      BY <2>1, <1>o
    <3> QED BY <1>1, <1>r, <3>1, <3>2 DEF Order
  <2> QED BY <1>1, <2>10, <2>11, <2>14, <2>15, <2>16 DEF OrderTyped
<1> QED BY <1>2, <1>3, <1>4

LEMMA ShippingTyped ==
  ASSUME NEW r, RequestTyped(r), NEW todo, todo \subseteq Target,
         IsFiniteSet(todo), ByNum(todo)
  PROVE  RequestTyped(Shipping(r, todo))
<1>1. PICK s : s = Shipping(r, todo)
  OBVIOUS
<1>2. r \in Request
  BY DEF RequestTyped
<1>3. s \in Request
  BY <1>1, <1>2 DEF Shipping, Request, Points
<1>4. /\ s.doc = {} /\ s.todo = todo /\ s.change = {} /\ s.add = r.add
      /\ s.pc \in {"saveIssue", "shipRead"}
  BY <1>1, <1>2 DEF Shipping, Request
<1>5. RequestTyped(s)
  BY <1>3, <1>4, FS_EmptySet DEF RequestTyped, IssueLinesTyped, ByNum, ById
<1> QED BY <1>1, <1>5

LEMMA GiveUpTyped ==
  ASSUME NEW r, RequestTyped(r)
  PROVE  RequestTyped(GiveUp(r))
  BY ShippingTyped, FS_EmptySet DEF GiveUp, ByNum

(* Targets have the numbers of the lines of the issue. *)
LEMMA TargetsTyped ==
  ASSUME OrderTyped, NEW doc, IssueLinesTyped(doc)
  PROVE  /\ Targets(doc) \subseteq Target
         /\ IsFiniteSet(Targets(doc))
         /\ ByNum(Targets(doc))
         /\ \A t \in Targets(doc) : \E x \in doc : t.num = x.num /\ t.qty = x.baseQty
<1> DEFINE D == {y \in doc : NotClosed(y.sku) # {}}
           f == [x \in D |-> [num |-> x.num, at |-> Min({l.num : l \in NotClosed(x.sku)}),
                              qty |-> x.baseQty]]
<1>1. Targets(doc) = {f[x] : x \in D}
  BY DEF Targets
<1>2. IsFiniteSet(D)
  BY FS_Subset DEF IssueLinesTyped
<1>3. IsFiniteSet({f[x] : x \in D})
  <2> HIDE DEF D, f
  <2> QED BY <1>2, FiniteImage
<1>4. \A x \in D : x \in doc /\ x.num \in Nat /\ x.baseQty \in Nat
  BY DEF IssueLinesTyped, IssueLine
<1>5. \A x \in D : Min({l.num : l \in NotClosed(x.sku)}) \in Nat
  <2> SUFFICES ASSUME NEW x \in D PROVE Min({l.num : l \in NotClosed(x.sku)}) \in Nat
    OBVIOUS
  <2> DEFINE nums == {l.num : l \in NotClosed(x.sku)}
  <2>1. so.lines \subseteq SOLine
    BY DEF OrderTyped, Order
  <2>2. nums \subseteq Nat
    BY <2>1 DEF NotClosed, SOLine
  <2>3. NotClosed(x.sku) # {}
    OBVIOUS
  <2>4. nums # {}
    BY <2>3
  <2>5. Min(nums) \in nums
    <3> HIDE DEF nums
    <3> QED BY <2>2, <2>4, MinOfNat
  <2> QED BY <2>2, <2>5
<1>6. \A x \in D : f[x] \in Target /\ f[x].num = x.num /\ f[x].qty = x.baseQty
  BY <1>4, <1>5 DEF Target
<1>7. \A x, y \in D : x.num = y.num => x = y
  BY DEF IssueLinesTyped, ByNum
<1> HIDE DEF D, f
<1>8. ByNum({f[x] : x \in D})
  BY <1>6, <1>7 DEF ByNum
<1> QED BY <1>1, <1>3, <1>4, <1>6, <1>8

LEMMA ShippedTyped ==
  ASSUME NEW l \in SOLine, NEW qty \in Nat
  PROVE  /\ Shipped(l, qty) \in SOLine
         /\ Shipped(l, qty).id = l.id
         /\ Shipped(l, qty).shippedQty = l.shippedQty + qty
<1> DEFINE status == IF ~ (l.shippedQty + qty = l.orderQty) THEN "PARTIAL"
                     ELSE IF l.status = "PARTIAL" THEN "CLOSED" ELSE l.status
<1>1. Shipped(l, qty) = [[l EXCEPT !.shippedQty = l.shippedQty + qty] EXCEPT !.status = status]
  BY DEF Shipped, SOLine
<1>2. status \in LineStatuses
  BY DEF SOLine, LineStatuses
<1> HIDE DEF status
<1>3. PICK n : n = l.shippedQty + qty
  OBVIOUS
<1>4. n \in Nat
  BY <1>3 DEF SOLine
<1>5. /\ [[l EXCEPT !.shippedQty = n] EXCEPT !.status = status] \in SOLine
      /\ [[l EXCEPT !.shippedQty = n] EXCEPT !.status = status].id = l.id
      /\ [[l EXCEPT !.shippedQty = n] EXCEPT !.status = status].shippedQty = n
  BY <1>2, <1>4 DEF SOLine
<1> QED BY <1>1, <1>3, <1>5

LEMMA CompletionTyped ==
  ASSUME TypeInv, NEW p \in Workers,
         \/ \E i \in IssueIds : BeginCompletion(p, i)
         \/ ReadOrder(p)
         \/ ReadForShipping(p)
         \/ WriteShipping(p)
         \/ SaveIssue(p)
         \/ ShippingFails(p)
  PROVE  TypeInv'
<1>r. RequestTyped(req[p]) /\ OrderTyped
  BY DEF TypeInv, RequestsTyped
<1>g. RequestTyped(GiveUp(req[p]))
  BY <1>r, GiveUpTyped
<1>1. ASSUME NEW i \in IssueIds, BeginCompletion(p, i)
      PROVE  TypeInv'
  <2> DEFINE r == [Idle EXCEPT !.pc = "order", !.issue = i, !.doc = issue[i].lines]
  <2>1. IssueLinesTyped(issue[i].lines)
    BY DEF TypeInv, IssuesTyped, IssueTyped
  <2>2. r \in Request
    BY <2>1 DEF Idle, Request, Points, IssueLinesTyped
  <2>3. RequestTyped(r)
    BY <2>1, <2>2, IdleTyped DEF Idle, RequestTyped
  <2>4. RequestsTyped' /\ issued' \in Nat
    BY <1>1, <2>3, ServedTyped DEF BeginCompletion
  <2>5. moved' \in [Skus -> Nat]
    <3>1. \A k \in Skus : BaseQtyOf(issue[i].lines, k) \in Nat
      <4> TAKE k \in Skus
      <4> DEFINE D == {m \in issue[i].lines : m.sku = k}
                 f == [l \in D |-> l.baseQty]
      <4>1. IsFiniteSet(D)
        BY <2>1, FS_Subset DEF IssueLinesTyped
      <4>2. \A l \in D : f[l] \in Nat
        BY <2>1 DEF IssueLinesTyped, IssueLine
      <4>3. SumFunctionOnSet(f, D) \in Nat
        <5> HIDE DEF D, f
        <5> QED BY <4>1, <4>2, SumNat
      <4> QED BY <4>3 DEF BaseQtyOf, SumFunction
    <3>2. \A k \in Skus : moved[k] \in Nat
      BY DEF TypeInv
    <3>3. moved' = [k \in Skus |-> moved[k] + BaseQtyOf(issue[i].lines, k)]
      BY <1>1 DEF BeginCompletion
    <3> QED BY <3>1, <3>2, <3>3
  <2> QED BY <1>1, <2>4, <2>5 DEF BeginCompletion, TypeInv, OrderTyped, IssuesTyped
<1>2. CASE ReadOrder(p)
  <2>1. IssueLinesTyped(req[p].doc)
    BY <1>r DEF RequestTyped
  <2>2. RequestTyped(Shipping(req[p], Targets(req[p].doc)))
    BY <1>r, <2>1, TargetsTyped, ShippingTyped
  <2>3. \E r : RequestTyped(r) /\ Proceed(p, r)
    BY <1>2, <1>g, <2>2 DEF ReadOrder
  <2> QED BY <1>2, <2>3, QuietTyped DEF ReadOrder
<1>3. CASE ReadForShipping(p)
  <2>1. ASSUME NEW t \in req[p].todo, NEW l \in so.lines, Shippable(l, t.qty)
        PROVE  RequestTyped([req[p] EXCEPT !.pc = "shipWrite", !.status = so.status,
                                           !.change = {Shipped(l, t.qty)}])
    <3>1. l \in SOLine /\ so.status \in SOStatuses
      BY <1>r DEF OrderTyped, Order
    <3>2. t.qty \in Nat
      BY <1>r DEF RequestTyped, Request, Target
    <3>3. Shipped(l, t.qty) \in SOLine
      BY <3>1, <3>2, ShippedTyped
    <3>4. PICK s : s = [req[p] EXCEPT !.pc = "shipWrite", !.status = so.status,
                                      !.change = {Shipped(l, t.qty)}]
      OBVIOUS
    <3>5. s \in Request /\ s.status = so.status /\ s.change = {Shipped(l, t.qty)}
          /\ s.doc = req[p].doc /\ s.todo = req[p].todo /\ s.add = req[p].add
      BY <1>r, <3>1, <3>3, <3>4 DEF RequestTyped, Request, Points
    <3>6. so.status # "NONE"
      BY <3>1 DEF SOStatuses
    <3>7. RequestTyped(s)
      BY <1>r, <3>5, <3>6, FS_Singleton DEF RequestTyped, ById
    <3> QED BY <3>4, <3>7
  <2>2. \E r : RequestTyped(r) /\ Proceed(p, r)
    BY <1>3, <1>g, <2>1 DEF ReadForShipping
  <2> QED BY <1>3, <2>2, QuietTyped DEF ReadForShipping
<1>4. CASE WriteShipping(p)
  <2>1. req[p].status # "NONE"
    BY <1>r, <1>4 DEF WriteShipping, RequestTyped
  <2>2. OrderTyped'
    <3>1. CASE Found
      BY <1>r, <1>4, <2>1, <3>1, WrittenTyped DEF WriteShipping
    <3>2. CASE ~ Found
      BY <1>r, <1>4, <3>2 DEF WriteShipping, OrderTyped
    <3> QED BY <3>1, <3>2
  <2>3. ASSUME NEW t \in req[p].todo
        PROVE  RequestTyped(Shipping(req[p], req[p].todo \ {t}))
    <3>1. req[p].todo \subseteq Target
      BY <1>r DEF RequestTyped, Request
    <3>2. IsFiniteSet(req[p].todo \ {t}) /\ ByNum(req[p].todo \ {t})
      BY <1>r, FS_RemoveElement DEF RequestTyped, ByNum
    <3>3. req[p].todo \ {t} \subseteq Target
      BY <3>1
    <3> QED BY <1>r, <3>2, <3>3, ShippingTyped
  <2>4. \E r : RequestTyped(r) /\ Proceed(p, r)
    BY <1>4, <1>g, <2>3 DEF WriteShipping
  <2>5. RequestsTyped' /\ issued' \in Nat
    BY <2>4, ServedTyped
  <2> QED BY <1>4, <2>2, <2>5 DEF WriteShipping, TypeInv, IssuesTyped
<1>5. CASE SaveIssue(p)
  <2>1. PICK i : i = req[p].issue
    OBVIOUS
  <2>2. IssuesTyped'
    <3>1. CASE i \in IssueIds
      <4> DEFINE x == [issue[i] EXCEPT !.status = "COMPLETED"]
      <4>1. IssueTyped(issue[i])
        BY <3>1 DEF TypeInv, IssuesTyped
      <4>2. x \in Issue /\ x.lines = issue[i].lines
        BY <4>1 DEF IssueTyped, Issue, IssueStatuses
      <4>3. IssueTyped(x)
        BY <4>1, <4>2 DEF IssueTyped
      <4>4. issue' = issue \/ issue' = [issue EXCEPT ![i] = x]
        BY <1>5, <2>1 DEF SaveIssue
      <4> HIDE DEF x
      <4> QED BY <3>1, <4>3, <4>4, OneIssueTyped DEF TypeInv, IssuesTyped
    <3>2. CASE i \notin IssueIds
      BY <1>5, <2>1, <3>2 DEF SaveIssue, TypeInv, IssuesTyped
    <3> QED BY <3>1, <3>2
  <2> QED BY <1>5, <2>2, AnsweredTyped DEF SaveIssue, TypeInv, OrderTyped
<1>6. CASE ShippingFails(p)
  BY <1>6, <1>g, QuietTyped DEF ShippingFails
<1> QED
  BY <1>1, <1>2, <1>3, <1>4, <1>5, <1>6

LEMMA StoreTyped ==
  ASSUME NEW status \in SOStatuses,
         NEW change, change \subseteq SOLine, IsFiniteSet(change), ById(change),
         NEW add, add \subseteq NewLine, \E n : add \subseteq {n},
         NEW drop, drop \subseteq Nat
  PROVE  RequestTyped(Store(status, change, add, drop))
<1>1. PICK r : r = Store(status, change, add, drop)
  OBVIOUS
<1>2. r \in Request
  BY <1>1 DEF Store, Idle, Request, Points
<1>3. /\ r.doc = {} /\ r.todo = {} /\ r.change = change /\ r.add = add
      /\ r.status = status
  BY <1>1 DEF Store, Idle
<1>4. status # "NONE"
  BY DEF SOStatuses
<1>5. RequestTyped(r)
  BY <1>2, <1>3, <1>4, FS_EmptySet DEF RequestTyped, IssueLinesTyped, ByNum
<1> QED BY <1>1, <1>5

LEMMA EndpointTyped ==
  ASSUME TypeInv, NEW p \in Workers, OrderEndpoint(p)
  PROVE  TypeInv'
<1>o. /\ so.lines \subseteq SOLine /\ IsFiniteSet(so.lines) /\ ById(so.lines)
      /\ Found => so.status \in SOStatuses
  BY DEF TypeInv, OrderTyped, Order, Found
<1>e. IsFiniteSet({}) /\ ById({})
  BY FS_EmptySet DEF ById
<1>s. ASSUME NEW status \in SOStatuses,
             NEW change, change \subseteq SOLine, IsFiniteSet(change), ById(change),
             NEW add, add \subseteq NewLine, \E n : add \subseteq {n},
             NEW drop, drop \subseteq Nat,
             OrderRequest(p, Store(status, change, add, drop))
      PROVE  TypeInv'
  <2>1. RequestTyped(Store(status, change, add, drop))
    BY <1>s, StoreTyped
  <2> QED BY <1>s, <2>1, QuietTyped DEF OrderRequest
<1>t. ASSUME NEW status \in SOStatuses, OrderRequest(p, Store(status, {}, {}, {}))
      PROVE  TypeInv'
  <2>1. /\ {} \subseteq SOLine /\ {} \subseteq NewLine /\ {} \subseteq Nat
        /\ \E n : {} \subseteq {n}
    OBVIOUS
  <2>2. RequestTyped(Store(status, {}, {}, {}))
    BY <1>t, <1>e, <2>1, StoreTyped
  <2> QED BY <1>t, <2>2, QuietTyped DEF OrderRequest
<1>c. ASSUME NEW D, D \subseteq so.lines, NEW status \in SOStatuses, NEW s \in LineStatuses,
             OrderRequest(p, Store(status, {[l EXCEPT !.status = s] : l \in D}, {}, {}))
      PROVE  TypeInv'
  <2> DEFINE f == [l \in D |-> [l EXCEPT !.status = s]]
             change == {[l EXCEPT !.status = s] : l \in D}
  <2>1. change = {f[l] : l \in D}
    OBVIOUS
  <2>2. IsFiniteSet(D)
    BY <1>c, <1>o, FS_Subset
  <2>3. \A l \in D : f[l] \in SOLine /\ f[l].id = l.id
    BY <1>c, <1>o DEF SOLine
  <2>4. IsFiniteSet({f[l] : l \in D})
    <3> HIDE DEF f
    <3> QED BY <2>2, FiniteImage
  <2>5. change \subseteq SOLine /\ ById(change)
    <3> HIDE DEF f, change
    <3> QED BY <1>c, <1>o, <2>1, <2>3 DEF ById
  <2>6. IsFiniteSet(change)
    BY <2>1, <2>4
  <2>7. OrderRequest(p, Store(status, change, {}, {}))
    BY <1>c
  <2> HIDE DEF f, change
  <2> QED BY <1>s, <2>5, <2>6, <2>7
<1>1. CASE Hold(p) \/ Release(p)
  BY <1>1, <1>t DEF Hold, Release, SOStatuses
<1>2. CASE Touch(p)
  <2>1. so.status \in SOStatuses
    BY <1>2, <1>o DEF Touch, OrderRequest
  <2> QED BY <1>2, <2>1, <1>t DEF Touch
<1>3. ASSUME NEW status \in PatchStatuses, Patch(p, status)
      PROVE  TypeInv'
  BY <1>3, <1>t, ShippingAssumption DEF Patch
<1>4. CASE Cancel(p)
  BY <1>4, <1>c DEF Cancel, SOStatuses, LineStatuses
<1>5. CASE Complete(p)
  <2>1. {m \in so.lines : m.status # "CANCELLED"} \subseteq so.lines
    OBVIOUS
  <2> QED BY <1>5, <2>1, <1>c DEF Complete, SOStatuses, LineStatuses
<1>6. CASE Remove(p)
  <2> DEFINE r == [Idle EXCEPT !.pc = "soDelete"]
  <2>1. RequestTyped(r)
    BY IdleTyped DEF Idle, RequestTyped, Request, Points
  <2> QED BY <1>6, <2>1, QuietTyped DEF Remove
<1>7. ASSUME NEW line \in NewLines, AddLine(p, line)
      PROVE  TypeInv'
  <2> DEFINE n == [line EXCEPT !.num = IF @ = 0 THEN NextNum ELSE @]
             nums == {l.num : l \in so.lines}
  <2>1. NextNum \in Nat
    <3> DEFINE f == [l \in so.lines |-> l.num]
    <3>1. IsFiniteSet({f[l] : l \in so.lines})
      <4> HIDE DEF f
      <4> QED BY <1>o, FiniteImage
    <3>2. IsFiniteSet(nums)
      BY <3>1
    <3>3. \A x \in nums : x \in Nat
      BY <1>o DEF SOLine
    <3>4. Max(nums \cup {0}) \in Nat
      <4> HIDE DEF nums, f
      <4>1. IsFiniteSet(nums \cup {0}) /\ \A x \in nums \cup {0} : x \in Int
        BY <3>2, <3>3, FS_AddElement
      <4> QED BY <3>3, <4>1, MaxOfFinite
    <3> QED BY <3>4 DEF NextNum
  <2>2. line \in NewLine
    BY ShippingAssumption
  <2>3. n \in NewLine
    BY <2>1, <2>2 DEF NewLine
  <2>4. OrderRequest(p, Store(so.status, {}, {n}, {})) /\ so.status \in SOStatuses
    BY <1>7, <1>o DEF AddLine, OrderRequest
  <2> HIDE DEF n
  <2>5. {n} \subseteq NewLine /\ {n} \subseteq {n} /\ {} \subseteq SOLine /\ {} \subseteq Nat
    BY <2>3
  <2>6. PICK add, status : add = {n} /\ status = so.status
    OBVIOUS
  <2>7. /\ OrderRequest(p, Store(status, {}, add, {})) /\ status \in SOStatuses
        /\ add \subseteq NewLine /\ \E x : add \subseteq {x}
    BY <2>4, <2>5, <2>6
  <2>8. RequestTyped(Store(status, {}, add, {}))
    BY <1>e, <2>5, <2>7, StoreTyped
  <2> QED BY <2>7, <2>8, QuietTyped DEF OrderRequest
<1>8. ASSUME NEW line \in so.lines, NEW qty \in Quantities, UpdateLine(p, line, qty)
      PROVE  TypeInv'
  <2> DEFINE l == [line EXCEPT !.orderQty = qty]
  <2>1. line \in SOLine /\ qty \in Nat
    BY <1>o, ShippingAssumption
  <2>2. l \in SOLine
    BY <2>1 DEF SOLine
  <2>3. OrderRequest(p, Store(so.status, {l}, {}, {})) /\ so.status \in SOStatuses
    BY <1>8, <1>o DEF UpdateLine, OrderRequest
  <2> HIDE DEF l
  <2>4. PICK change : change = {l}
    OBVIOUS
  <2>5. change \subseteq SOLine /\ IsFiniteSet(change) /\ ById(change)
    BY <2>2, <2>4, FS_Singleton DEF ById
  <2>6. {} \subseteq NewLine /\ {} \subseteq {l} /\ {} \subseteq Nat
    OBVIOUS
  <2>7. OrderRequest(p, Store(so.status, change, {}, {}))
    BY <2>3, <2>4
  <2> QED BY <1>s, <2>3, <2>5, <2>6, <2>7
<1>9. ASSUME NEW line \in so.lines, DeleteLine(p, line)
      PROVE  TypeInv'
  <2> DEFINE r == [Idle EXCEPT !.pc = "lineRead", !.num = line.num]
  <2>1. line.num \in Nat
    BY <1>o DEF SOLine
  <2>2. RequestTyped(r)
    BY <2>1, IdleTyped DEF Idle, RequestTyped, Request, Points
  <2> QED BY <1>9, <2>2, QuietTyped DEF DeleteLine
<1>10. ASSUME NEW gone, gone \subseteq so.lines, NEW existing, existing \subseteq so.lines,
              NEW new, new \subseteq NewLines, \E n : new \subseteq {n},
              UpdateWithLines(p, gone, existing, new)
       PROVE  TypeInv'
  <2> DEFINE drop == {l.id : l \in gone \cup existing}
             k == {l.id : l \in existing}
  <2>1. drop \subseteq Nat /\ k \subseteq Nat
    BY <1>10, <1>o DEF SOLine
  <2>2. PICK r : r = Store(so.status, {}, new, drop)
    OBVIOUS
  <2>3. so.status \in SOStatuses
    BY <1>10, <1>o DEF UpdateWithLines, OrderRequest
  <2>4. new \subseteq NewLine
    BY <1>10, ShippingAssumption
  <2>5. RequestTyped(r)
    <3> HIDE DEF drop, k
    <3> QED BY <1>e, <1>10, <2>1, <2>2, <2>3, <2>4, StoreTyped
  <2>6. OrderRequest(p, [r EXCEPT !.keep = k])
    BY <1>10, <2>2 DEF UpdateWithLines
  <2> HIDE DEF drop, k
  <2>7. RequestTyped([r EXCEPT !.keep = k])
    BY <2>1, <2>5 DEF RequestTyped, Request
  <2>8. PICK u : u = [r EXCEPT !.keep = k]
    OBVIOUS
  <2>9. RequestTyped(u) /\ Accept(p, u) /\ UNCHANGED <<so, issue, moved>>
    BY <2>6, <2>7, <2>8 DEF OrderRequest
  <2> QED BY <2>9, QuietTyped
<1>11. ASSUME NEW line \in so.lines,
              UpdateWithLines(p, {line}, {}, {}) \/ UpdateWithLines(p, {}, {line}, {})
       PROVE  TypeInv'
  <2>1. PICK one : one = {line}
    OBVIOUS
  <2>2. one \subseteq so.lines /\ {} \subseteq so.lines /\ {} \subseteq NewLines /\ {} \subseteq {line}
    BY <2>1
  <2>3. UpdateWithLines(p, one, {}, {}) \/ UpdateWithLines(p, {}, one, {})
    BY <1>11, <2>1
  <2> QED BY <1>10, <2>2, <2>3
<1>12. ASSUME NEW line \in NewLines, UpdateWithLines(p, {}, {}, {line})
       PROVE  TypeInv'
  <2>1. {line} \subseteq NewLines /\ {line} \subseteq {line} /\ {} \subseteq so.lines
    OBVIOUS
  <2> QED BY <1>10, <1>12, <2>1
<1> QED
  BY <1>1, <1>2, <1>3, <1>4, <1>5, <1>6, <1>7, <1>8, <1>9, <1>11, <1>12 DEF OrderEndpoint

LEMMA OrderWriteTyped ==
  ASSUME TypeInv, NEW p \in Workers,
         WriteOrder(p) \/ DeleteOrder(p) \/ ReadForDelete(p) \/ Abort(p)
  PROVE  TypeInv'
<1>r. RequestTyped(req[p]) /\ OrderTyped
  BY DEF TypeInv, RequestsTyped
<1>1. CASE WriteOrder(p)
  <2>1. req[p].status # "NONE"
    BY <1>r, <1>1 DEF WriteOrder, RequestTyped
  <2>2. OrderTyped'
    <3>1. CASE Writable(req[p])
      BY <1>r, <1>1, <2>1, <3>1, WrittenTyped DEF WriteOrder
    <3>2. CASE ~ Writable(req[p])
      BY <1>r, <1>1, <3>2 DEF WriteOrder, OrderTyped
    <3> QED BY <3>1, <3>2
  <2> QED BY <1>1, <2>2, AnsweredTyped DEF WriteOrder, TypeInv, IssuesTyped
<1>2. CASE DeleteOrder(p)
  <2>1. so' \in Order /\ so'.lines = {}
    BY <1>r, <1>2 DEF DeleteOrder, OrderTyped, Order
  <2>2. OrderTyped'
    BY <2>1, FS_EmptySet DEF OrderTyped, ById
  <2> QED BY <1>2, <2>2, AnsweredTyped DEF DeleteOrder, TypeInv, IssuesTyped
<1>3. CASE ReadForDelete(p)
  <2>1. ASSUME NEW l \in so.lines
        PROVE  RequestTyped(Store(so.status, {}, {}, {l.id}))
    <3>1. l.id \in Nat /\ so.status \in SOStatuses
      BY <1>r DEF OrderTyped, Order, SOLine
    <3> QED BY <3>1, StoreTyped, FS_EmptySet DEF ById
  <2>2. \E r : RequestTyped(r) /\ Proceed(p, r)
    BY <1>3, <2>1, IdleTyped DEF ReadForDelete, Answer
  <2> QED BY <1>3, <2>2, QuietTyped DEF ReadForDelete
<1>4. CASE Abort(p)
  BY <1>4, IdleTyped, QuietTyped DEF Abort, Answer
<1> QED BY <1>1, <1>2, <1>3, <1>4

LEMMA NextTyped == TypeInv /\ [Next]_vars => TypeInv'
<1> SUFFICES ASSUME TypeInv, [Next]_vars PROVE TypeInv'
  OBVIOUS
<1>1. CASE UNCHANGED vars
  BY <1>1 DEF vars, TypeInv, OrderTyped, IssuesTyped, RequestsTyped
<1>2. CASE Next
  BY <1>1, <1>2, GoodsIssueTyped, DraftIssueTyped, CompletionTyped, EndpointTyped,
     OrderWriteTyped
  DEF Next, Serve, Quiet
<1> QED BY <1>1, <1>2

(* Every value stored or remembered has its type, and rows are identified  *)
(* by their ids, for any lines, issues and number of requests at a time.   *)
THEOREM TypeCorrect == Spec => []TypeOK
<1>1. Spec => []TypeInv
  BY InitTyped, NextTyped, PTL DEF Spec
<1> QED BY <1>1, TypeInvIsTypeOK, PTL

(***************************************************************************)
(* What is shipped was moved.  The lines of the order cannot say alone why *)
(* they record no more than was moved: requests overwrite them with rows   *)
(* computed from older reads.  The reason is an account b of quantities    *)
(* by line id which no version of a line, stored or about to be stored,    *)
(* exceeds.  Every quantity moved is entered in it at most once, when the  *)
(* version that ships it is computed; until then it is ahead of a request. *)
(***************************************************************************)

DocSum(doc)   == SumFunction([x \in doc |-> x.baseQty])
TodoSum(todo) == SumFunction([t \in todo |-> t.qty])

(* What the request has moved and not yet shipped, or skipped. *)
Ahead(r) ==
  IF r.pc = "order" THEN DocSum(r.doc)
  ELSE IF r.pc = "shipRead" THEN TodoSum(r.todo)
  ELSE IF r.pc = "shipWrite" THEN TodoSum({t \in r.todo : ~ First(t, r.todo)})
  ELSE 0

Covers(b, D, lines) == \A l \in lines : l.id \in D /\ l.shippedQty <= b[l.id]

Account(D, b) ==
  /\ IsFiniteSet(D) /\ b \in [D -> Nat]
  /\ Covers(b, D, so.lines)
  /\ \A p \in Workers : Covers(b, D, req[p].change)
  /\ SumFunctionOnSet(b, D) + SumFunction([p \in Workers |-> Ahead(req[p])])
       <= SumFunction(moved)

Accounted == \E D, b : Account(D, b)

(* Sums of quantities *)

LEMMA DocSumType ==
  ASSUME NEW doc, IssueLinesTyped(doc)
  PROVE  DocSum(doc) \in Nat
<1> DEFINE f == [x \in doc |-> x.baseQty]
<1>1. IsFiniteSet(doc) /\ \A x \in doc : f[x] \in Nat
  BY DEF IssueLinesTyped, IssueLine
<1>2. SumFunctionOnSet(f, doc) \in Nat
  <2> HIDE DEF f
  <2> QED BY <1>1, SumNat
<1> QED BY <1>2 DEF DocSum, SumFunction

LEMMA TodoSumType ==
  ASSUME NEW todo, todo \subseteq Target, IsFiniteSet(todo)
  PROVE  TodoSum(todo) \in Nat
<1> DEFINE f == [t \in todo |-> t.qty]
<1>1. \A t \in todo : f[t] \in Nat
  BY DEF Target
<1>2. SumFunctionOnSet(f, todo) \in Nat
  <2> HIDE DEF f
  <2> QED BY <1>1, SumNat
<1> QED BY <1>2 DEF TodoSum, SumFunction

LEMMA TodoSumRemove ==
  ASSUME NEW todo, todo \subseteq Target, IsFiniteSet(todo), NEW t \in todo
  PROVE  TodoSum(todo) = t.qty + TodoSum(todo \ {t})
<1> DEFINE f == [x \in todo |-> x.qty]
           g == [x \in todo \ {t} |-> x.qty]
<1>1. \A x \in todo : f[x] \in Int
  BY DEF Target
<1>2. SumFunctionOnSet(f, todo) = f[t] + SumFunctionOnSet(f, todo \ {t})
  <2>1. todo \in SUBSET todo
    OBVIOUS
  <2> HIDE DEF f
  <2> QED BY <1>1, <2>1, SumRemove
<1>3. SumFunctionOnSet(f, todo \ {t}) = SumFunctionOnSet(g, todo \ {t})
  <2>1. IsFiniteSet(todo \ {t})
    BY FS_RemoveElement
  <2>2. \A x \in todo \ {t} : f[x] = g[x]
    OBVIOUS
  <2> HIDE DEF f, g
  <2> QED BY <2>1, <2>2, SumSame
<1>4. TodoSum(todo) = SumFunctionOnSet(f, todo)
  BY DEF TodoSum, SumFunction
<1>5. TodoSum(todo \ {t}) = SumFunctionOnSet(g, todo \ {t})
  BY DEF TodoSum, SumFunction
<1>6. f[t] = t.qty
  OBVIOUS
<1> HIDE DEF f, g
<1> QED BY <1>2, <1>3, <1>4, <1>5, <1>6

LEMMA OneFirst ==
  ASSUME NEW todo, todo \subseteq Target, ByNum(todo), NEW t \in todo, First(t, todo)
  PROVE  {u \in todo : ~ First(u, todo)} = todo \ {t}
<1>1. ASSUME NEW u \in todo, First(u, todo)
      PROVE  u = t
  <2>1. u.num <= t.num /\ t.num <= u.num
    BY <1>1 DEF First
  <2>2. u.num \in Nat /\ t.num \in Nat
    BY DEF Target
  <2>3. u.num = t.num
    BY <2>1, <2>2
  <2> QED BY <2>3 DEF ByNum
<1> QED BY <1>1

LEMMA TodoSumEmpty == TodoSum({}) = 0
  BY SumEmpty DEF TodoSum, SumFunction

LEMMA AheadType ==
  ASSUME NEW r, RequestTyped(r)
  PROVE  Ahead(r) \in Nat
<1>1. r.todo \subseteq Target /\ IsFiniteSet(r.todo) /\ IssueLinesTyped(r.doc)
  BY DEF RequestTyped, Request
<1>2. IsFiniteSet({t \in r.todo : ~ First(t, r.todo)})
  BY <1>1, FS_Subset
<1> QED BY <1>1, <1>2, DocSumType, TodoSumType DEF Ahead

LEMMA MovedType ==
  ASSUME NEW m \in [Skus -> Nat]
  PROVE  SumFunction(m) \in Nat /\ SumFunction(m) = SumFunctionOnSet(m, Skus)
<1>1. SumFunction(m) = SumFunctionOnSet(m, Skus)
  BY DEF SumFunction
<1>2. \A k \in Skus : m[k] \in Nat
  OBVIOUS
<1> QED BY <1>1, <1>2, SumNat, ShippingAssumption

(* One request moves on: what it enters into the account, and what is then *)
(* ahead of it, is covered by what it had ahead and what it moves now.     *)
LEMMA AccountStep ==
  ASSUME TypeInv, NEW p \in Workers, NEW r, RequestTyped(r),
         req' = [req EXCEPT ![p] = r],
         NEW D, NEW b, Account(D, b),
         NEW E, IsFiniteSet(E), D \subseteq E, NEW c \in [E -> Nat],
         \A x \in D : b[x] <= c[x],
         Covers(c, E, so'.lines), Covers(c, E, r.change),
         moved' \in [Skus -> Nat],
         SumFunctionOnSet(c, E) + Ahead(r) + SumFunction(moved)
           <= SumFunctionOnSet(b, D) + Ahead(req[p]) + SumFunction(moved')
  PROVE  Accounted'
<1> DEFINE f == [q \in Workers |-> Ahead(req[q])]
           g == [q \in Workers |-> Ahead(req'[q])]
<1>1. \A q \in Workers : req'[q] = IF q = p THEN r ELSE req[q]
  BY DEF TypeInv, RequestsTyped
<1>2. \A q \in Workers : RequestTyped(req[q])
  BY DEF TypeInv, RequestsTyped
<1>3. \A q \in Workers : f[q] \in Nat /\ g[q] \in Nat
  BY <1>1, <1>2, AheadType
<1>4. \A q \in Workers \ {p} : f[q] = g[q]
  BY <1>1
<1>5. f[p] = Ahead(req[p]) /\ g[p] = Ahead(r)
  BY <1>1
<1>6. SumFunctionOnSet(g, Workers) = SumFunctionOnSet(f, Workers) - f[p] + g[p]
  <2> HIDE DEF f, g
  <2>1. \A q \in Workers : f[q] \in Int /\ g[q] \in Int
    BY <1>3
  <2> QED BY <1>4, <2>1, SumChange, ShippingAssumption
<1>7. /\ SumFunctionOnSet(f, Workers) \in Nat
      /\ SumFunctionOnSet(g, Workers) \in Nat
  <2> HIDE DEF f, g
  <2> QED BY <1>3, SumNat, ShippingAssumption
<1>8. SumFunction(f) = SumFunctionOnSet(f, Workers) /\ SumFunction(g) = SumFunctionOnSet(g, Workers)
  BY DEF SumFunction
<1>9. SumFunctionOnSet(b, D) + SumFunction(f) <= SumFunction(moved)
  BY DEF Account
<1>10. SumFunctionOnSet(b, D) \in Nat /\ SumFunctionOnSet(c, E) \in Nat
  <2>1. (\A x \in D : b[x] \in Nat) /\ IsFiniteSet(D)
    BY DEF Account
  <2>2. \A x \in E : c[x] \in Nat
    OBVIOUS
  <2> QED BY <2>1, <2>2, SumNat
<1>11. SumFunction(moved) \in Nat /\ SumFunction(moved') \in Nat
  BY MovedType DEF TypeInv
<1>12. Ahead(r) \in Nat /\ Ahead(req[p]) \in Nat
  BY <1>2, AheadType
<1>13. SumFunctionOnSet(c, E) + SumFunction(g) <= SumFunction(moved')
  <2> HIDE DEF f, g
  <2> QED BY <1>3, <1>5, <1>6, <1>7, <1>8, <1>9, <1>10, <1>11, <1>12
<1>14. \A q \in Workers : Covers(c, E, req'[q].change)
  <2> SUFFICES ASSUME NEW q \in Workers PROVE Covers(c, E, req'[q].change)
    OBVIOUS
  <2>1. CASE q = p
    BY <1>1, <2>1
  <2>2. CASE q # p
    <3>1. req'[q] = req[q]
      BY <1>1, <2>2
    <3>2. \A l \in req[q].change : l.id \in D /\ l.shippedQty <= b[l.id] /\ l.shippedQty \in Nat
      BY <1>2 DEF Account, Covers, RequestTyped, Request, SOLine
    <3>3. ASSUME NEW l \in req[q].change
          PROVE  l.id \in E /\ l.shippedQty <= c[l.id]
      <4>1. l.id \in D /\ l.id \in E
        BY <3>2
      <4>2. b[l.id] \in Nat /\ c[l.id] \in Nat /\ b[l.id] <= c[l.id]
        BY <4>1 DEF Account
      <4> QED BY <3>2, <4>1, <4>2
    <3> QED BY <3>1, <3>3 DEF Covers
  <2> QED BY <2>1, <2>2
<1>15. Account(E, c)'
  BY <1>13, <1>14 DEF Account
<1> QED BY <1>15 DEF Accounted

(* A version of a line that says nothing new. *)
Old(l, p) ==
  \E m \in so.lines \cup req[p].change : m.id = l.id /\ m.shippedQty = l.shippedQty

LEMMA OldCovered ==
  ASSUME NEW p \in Workers, NEW D, NEW b, Account(D, b), NEW lines,
         \A l \in lines : Old(l, p)
  PROVE  Covers(b, D, lines)
<1> SUFFICES ASSUME NEW l \in lines PROVE l.id \in D /\ l.shippedQty <= b[l.id]
  BY DEF Covers
<1>1. PICK m \in so.lines \cup req[p].change : m.id = l.id /\ m.shippedQty = l.shippedQty
  BY DEF Old
<1>2. m.id \in D /\ m.shippedQty <= b[m.id]
  BY DEF Account, Covers
<1>3. PICK x, y : x = m.id /\ y = m.shippedQty
  OBVIOUS
<1> QED BY <1>1, <1>2, <1>3

LEMMA AccountKept ==
  ASSUME TypeInv, Accounted, NEW p \in Workers, NEW r, RequestTyped(r),
         Proceed(p, r) \/ Accept(p, r),
         \A l \in so'.lines : Old(l, p), \A l \in r.change : Old(l, p),
         moved' = moved, Ahead(r) <= Ahead(req[p])
  PROVE  Accounted'
<1>1. PICK D, b : Account(D, b)
  BY DEF Accounted
<1>2. IsFiniteSet(D) /\ b \in [D -> Nat] /\ \A x \in D : b[x] <= b[x]
  BY <1>1 DEF Account
<1>3. Covers(b, D, r.change)
  BY <1>1, OldCovered
<1>4. Covers(b, D, so'.lines)
  <2>1. PICK lines : lines = so'.lines
    OBVIOUS
  <2> QED BY <1>1, <2>1, OldCovered
<1>5. req' = [req EXCEPT ![p] = r]
  BY DEF Proceed, Accept
<1>6. moved' \in [Skus -> Nat]
  BY DEF TypeInv
<1>7. SumFunctionOnSet(b, D) + Ahead(r) + SumFunction(moved)
        <= SumFunctionOnSet(b, D) + Ahead(req[p]) + SumFunction(moved')
  <2>1. SumFunctionOnSet(b, D) \in Nat
    BY <1>2, SumNat
  <2>2. Ahead(r) \in Nat /\ Ahead(req[p]) \in Nat
    BY AheadType DEF TypeInv, RequestsTyped
  <2>3. SumFunction(moved) \in Nat /\ SumFunction(moved') = SumFunction(moved)
    BY MovedType DEF TypeInv
  <2> QED BY <2>1, <2>2, <2>3
<1> QED BY <1>1, <1>2, <1>3, <1>4, <1>5, <1>6, <1>7, AccountStep

(* A new line has shipped nothing. *)
LEMMA AccountWritten ==
  ASSUME TypeInv, Accounted, NEW p \in Workers, NEW r, RequestTyped(r),
         Proceed(p, r), so' = Written(req[p]), r.change = {},
         moved' = moved, Ahead(r) <= Ahead(req[p])
  PROVE  Accounted'
<1>1. PICK D, b : Account(D, b)
  BY DEF Accounted
<1>2. PICK id : id = so.lastId + Cardinality(req[p].add)
  OBVIOUS
<1> DEFINE E == D \cup {id}
           c == [x \in E |-> IF x \in D THEN b[x] ELSE 0]
<1>3. IsFiniteSet(D) /\ b \in [D -> Nat] /\ \A x \in D : b[x] \in Nat
  BY <1>1 DEF Account
<1>4. /\ IsFiniteSet(E) /\ D \subseteq E /\ c \in [E -> Nat]
      /\ \A x \in D : c[x] = b[x] /\ b[x] <= c[x]
      /\ id \notin D => c[id] = 0
  BY <1>3, FS_AddElement
<1>5. SumFunctionOnSet(c, E) = SumFunctionOnSet(b, D)
  <2>1. SumFunctionOnSet(c, D) = SumFunctionOnSet(b, D)
    <3> HIDE DEF c
    <3> QED BY <1>3, <1>4, SumSame
  <2>2. CASE id \in D
    <3>1. E = D
      BY <2>2
    <3> HIDE DEF E, c
    <3> QED BY <2>1, <3>1
  <2>3. CASE id \notin D
    <3>1. \A x \in D \cup {id} : c[x] \in Int
      BY <1>3
    <3>2. SumFunctionOnSet(c, D \cup {id}) = c[id] + SumFunctionOnSet(c, D)
      <4> HIDE DEF c
      <4> QED BY <1>3, <2>3, <3>1, SumAdd
    <3>3. SumFunctionOnSet(b, D) \in Nat
      BY <1>3, SumNat
    <3>4. c[id] = 0
      BY <2>3
    <3> HIDE DEF c
    <3> QED BY <2>1, <3>2, <3>3, <3>4
  <2> QED BY <2>2, <2>3
<1> HIDE DEF E, c
<1>6. ASSUME NEW l \in so'.lines
      PROVE  l.id \in E /\ l.shippedQty <= c[l.id]
  <2>1. \/ l \in so.lines \cup req[p].change
        \/ \E n \in req[p].add :
             l = [id |-> id, num |-> n.num, sku |-> n.sku,
                  orderQty |-> n.orderQty, shippedQty |-> 0, status |-> "OPEN"]
    BY <1>2 DEF Written, Kept
  <2>2. CASE l \in so.lines \cup req[p].change
    <3>1. l.id \in D /\ l.shippedQty <= b[l.id]
      BY <1>1, <2>2 DEF Account, Covers
    <3>2. PICK x : x = l.id
      OBVIOUS
    <3> QED BY <1>4, <3>1, <3>2
  <2>3. CASE ~ (l \in so.lines \cup req[p].change)
    <3>1. l.id = id /\ l.shippedQty = 0
      BY <2>1, <2>3
    <3>2. id \in E /\ c[id] \in Nat
      BY <1>4 DEF E
    <3> QED BY <3>1, <3>2
  <2> QED BY <2>2, <2>3
<1>7. Covers(c, E, so'.lines) /\ Covers(c, E, r.change)
  BY <1>6 DEF Covers
<1>8. req' = [req EXCEPT ![p] = r]
  BY DEF Proceed
<1>9. moved' \in [Skus -> Nat]
  BY DEF TypeInv
<1>10. SumFunctionOnSet(c, E) + Ahead(r) + SumFunction(moved)
         <= SumFunctionOnSet(b, D) + Ahead(req[p]) + SumFunction(moved')
  <2>1. SumFunctionOnSet(b, D) \in Nat
    BY <1>3, SumNat
  <2>2. Ahead(r) \in Nat /\ Ahead(req[p]) \in Nat
    BY AheadType DEF TypeInv, RequestsTyped
  <2>3. SumFunction(moved) \in Nat /\ SumFunction(moved') = SumFunction(moved)
    BY MovedType DEF TypeInv
  <2> QED BY <1>5, <2>1, <2>2, <2>3
<1>11. PICK F, d : F = E /\ d = c
  OBVIOUS
<1>12. /\ IsFiniteSet(F) /\ D \subseteq F /\ d \in [F -> Nat]
       /\ \A x \in D : b[x] <= d[x]
       /\ Covers(d, F, so'.lines) /\ Covers(d, F, r.change)
       /\ SumFunctionOnSet(d, F) + Ahead(r) + SumFunction(moved)
            <= SumFunctionOnSet(b, D) + Ahead(req[p]) + SumFunction(moved')
  BY <1>4, <1>7, <1>10, <1>11
<1> QED BY <1>1, <1>8, <1>9, <1>12, AccountStep

LEMMA AccountAnswered ==
  ASSUME TypeInv, Accounted, NEW p \in Workers, Answer(p),
         so'.lines \subseteq so.lines, moved' = moved
  PROVE  Accounted'
<1>1. Ahead(Idle) = 0 /\ Idle.change = {}
  BY DEF Ahead, Idle
<1>2. Ahead(req[p]) \in Nat
  BY AheadType DEF TypeInv, RequestsTyped
<1>3. \A l \in so'.lines : Old(l, p)
  BY DEF Old
<1> QED BY <1>1, <1>2, <1>3, IdleTyped, AccountKept DEF Answer

(* A request that has nothing ahead of it and changes no shipped quantity. *)
LEMMA AccountQuiet ==
  ASSUME TypeInv, Accounted, NEW p \in Workers, NEW r, RequestTyped(r),
         Proceed(p, r) \/ Accept(p, r), UNCHANGED <<so, moved>>,
         \A l \in r.change : Old(l, p), Ahead(r) = 0
  PROVE  Accounted'
<1>1. Ahead(req[p]) \in Nat
  BY AheadType DEF TypeInv, RequestsTyped
<1>2. \A l \in so'.lines : Old(l, p)
  BY DEF Old
<1>3. Ahead(r) <= Ahead(req[p]) /\ moved' = moved
  BY <1>1
<1> QED BY <1>2, <1>3, AccountKept

(* A completion enters all it moves as ahead of it, whatever the SKUs. *)
LEMMA MovedByDocument ==
  ASSUME NEW doc, IssueLinesTyped(doc), NEW m \in [Skus -> Nat]
  PROVE  SumFunction([k \in Skus |-> m[k] + BaseQtyOf(doc, k)])
           = SumFunction(m) + DocSum(doc)
<1> DEFINE f == [x \in doc |-> x.baseQty]
           key == [x \in doc |-> x.sku]
           part == [k \in Skus |-> SumFunctionOnSet(f, {x \in doc : key[x] = k})]
           e == [k \in Skus |-> m[k] + BaseQtyOf(doc, k)]
<1>1. IsFiniteSet(doc) /\ key \in [doc -> Skus] /\ \A x \in doc : f[x] \in Nat
  BY DEF IssueLinesTyped, IssueLine
<1>2. SumFunctionOnSet(part, Skus) = SumFunctionOnSet(f, doc)
  <2> HIDE DEF f, key
  <2>1. \A x \in doc : f[x] \in Int
    BY <1>1
  <2> QED BY <1>1, <2>1, SumByKey, ShippingAssumption
<1>3. ASSUME NEW k \in Skus
      PROVE  BaseQtyOf(doc, k) = part[k] /\ part[k] \in Nat
  <2> DEFINE D == {x \in doc : x.sku = k}
             h == [x \in D |-> x.baseQty]
  <2>1. IsFiniteSet(D)
    BY <1>1, FS_Subset
  <2>2. \A x \in D : h[x] = f[x] /\ f[x] \in Nat
    BY <1>1
  <2>3. D = {x \in doc : key[x] = k}
    OBVIOUS
  <2>4. BaseQtyOf(doc, k) = SumFunctionOnSet(h, D)
    BY DEF BaseQtyOf, SumFunction
  <2>5. part[k] = SumFunctionOnSet(f, D)
    BY <2>3
  <2> HIDE DEF D, h, f, part
  <2> QED BY <2>1, <2>2, <2>4, <2>5, SumSame, SumNat
<1>4. SumFunctionOnSet(e, Skus) = SumFunctionOnSet(m, Skus) + SumFunctionOnSet(part, Skus)
  <2>1. \A k \in Skus : e[k] = m[k] + part[k] /\ m[k] \in Int /\ part[k] \in Int
    <3> TAKE k \in Skus
    <3>1. e[k] = m[k] + BaseQtyOf(doc, k)
      OBVIOUS
    <3>2. m[k] \in Nat
      OBVIOUS
    <3> HIDE DEF e, part
    <3> QED BY <1>3, <3>1, <3>2
  <2> HIDE DEF e, part
  <2> QED BY <2>1, SumOfSums, ShippingAssumption
<1>5. SumFunction(e) = SumFunctionOnSet(e, Skus) /\ SumFunction(m) = SumFunctionOnSet(m, Skus)
  BY DEF SumFunction
<1>6. DocSum(doc) = SumFunctionOnSet(f, doc)
  BY DEF DocSum, SumFunction
<1> HIDE DEF e, f, part
<1>7. SumFunction(e) = SumFunction(m) + DocSum(doc)
  BY <1>2, <1>4, <1>5, <1>6
<1> QED BY <1>7 DEF e

(* What is chosen to be shipped was moved. *)
LEMMA TargetsSum ==
  ASSUME OrderTyped, NEW doc, IssueLinesTyped(doc)
  PROVE  TodoSum(Targets(doc)) <= DocSum(doc)
<1>1. PICK T : T = Targets(doc)
  OBVIOUS
<1>2. /\ T \subseteq Target /\ IsFiniteSet(T) /\ ByNum(T)
      /\ \A t \in T : \E x \in doc : t.num = x.num /\ t.qty = x.baseQty
  BY <1>1, TargetsTyped
<1> DEFINE g == [t \in T |-> CHOOSE x \in doc : t.num = x.num /\ t.qty = x.baseQty]
           f == [t \in T |-> t.qty]
           h == [x \in doc |-> x.baseQty]
<1>3. \A t \in T : g[t] \in doc /\ t.num = g[t].num /\ t.qty = g[t].baseQty
  BY <1>2
<1>4. g \in [T -> doc] /\ \A t, u \in T : g[t] = g[u] => t = u
  BY <1>2, <1>3 DEF ByNum
<1>5. \A x \in doc : h[x] \in Nat
  BY DEF IssueLinesTyped, IssueLine
<1>6. \A t \in T : f[t] \in Int /\ f[t] <= h[g[t]]
  <2> TAKE t \in T
  <2>1. f[t] = t.qty /\ t.qty \in Nat
    BY <1>2 DEF Target
  <2>2. h[g[t]] = g[t].baseQty
    BY <1>3
  <2> QED BY <1>3, <2>1, <2>2
<1>7. IsFiniteSet(doc)
  BY DEF IssueLinesTyped
<1>8. SumFunctionOnSet(f, T) <= SumFunctionOnSet(h, doc)
  <2> HIDE DEF f, g, h
  <2> QED BY <1>2, <1>4, <1>5, <1>6, <1>7, SumBounded
<1>9. TodoSum(T) = SumFunctionOnSet(f, T) /\ DocSum(doc) = SumFunctionOnSet(h, doc)
  BY DEF TodoSum, DocSum, SumFunction
<1> HIDE DEF f, h
<1> QED BY <1>1, <1>8, <1>9

LEMMA AheadShipping ==
  ASSUME NEW r, RequestTyped(r), NEW todo
  PROVE  Ahead(Shipping(r, todo)) = TodoSum(todo) /\ Shipping(r, todo).change = {}
<1>1. PICK s : s = Shipping(r, todo)
  OBVIOUS
<1>2. /\ s.todo = todo /\ s.change = {}
      /\ s.pc = IF todo = {} THEN "saveIssue" ELSE "shipRead"
  BY <1>1 DEF Shipping, RequestTyped, Request
<1> QED BY <1>1, <1>2, TodoSumEmpty DEF Ahead

LEMMA AheadGivenUp ==
  ASSUME NEW r, RequestTyped(r)
  PROVE  Ahead(GiveUp(r)) = 0 /\ GiveUp(r).change = {}
  BY AheadShipping, TodoSumEmpty DEF GiveUp

LEMMA GoodsIssueAccounted ==
  ASSUME TypeInv, Accounted, NEW p \in Workers,
         \/ \E i \in IssueIds, doc \in IssueDocs : BeginIssue(p, i, doc)
         \/ ReadDrafts(p)
         \/ InsertIssue(p)
  PROVE  Accounted'
<1>r. RequestTyped(req[p])
  BY DEF TypeInv, RequestsTyped
<1>1. ASSUME NEW i \in IssueIds, NEW doc \in IssueDocs, BeginIssue(p, i, doc)
      PROVE  Accounted'
  <2> DEFINE r == [Idle EXCEPT !.pc = "drafts", !.issue = i, !.doc = doc,
                               !.seen = so.lines]
  <2>1. PICK s : s = r
    OBVIOUS
  <2>2. IssueLinesTyped(doc)
    BY ShippingAssumption DEF IssueLinesTyped, ByNum
  <2>3. so.lines \subseteq SOLine
    BY DEF TypeInv, OrderTyped, Order
  <2>4. s \in Request
    BY <2>1, <2>2, <2>3 DEF Idle, Request, Points, IssueLinesTyped
  <2>5. RequestTyped(s) /\ Ahead(s) = 0 /\ s.change = {}
    BY <2>1, <2>2, <2>4, IdleTyped DEF Idle, RequestTyped, Ahead
  <2>6. Accept(p, s) /\ UNCHANGED <<so, moved>>
    BY <1>1, <2>1 DEF BeginIssue
  <2> QED BY <2>5, <2>6, AccountQuiet
<1>2. CASE ReadDrafts(p)
  <2>1. PICK s : s = [req[p] EXCEPT !.pc = "insert", !.seen = {}]
    OBVIOUS
  <2>2. s \in Request
    BY <1>r, <2>1 DEF RequestTyped, Request, Points
  <2>3. RequestTyped(s) /\ Ahead(s) = 0 /\ s.change = req[p].change
    BY <1>r, <2>1, <2>2 DEF RequestTyped, Request, Ahead
  <2>4. \A l \in s.change : Old(l, p)
    BY <2>3 DEF Old
  <2>5. CASE Proceed(p, s)
    BY <1>2, <2>3, <2>4, <2>5, AccountQuiet DEF ReadDrafts
  <2>6. CASE Answer(p)
    BY <1>2, <2>6, AccountAnswered DEF ReadDrafts
  <2> QED BY <1>2, <2>1, <2>5, <2>6 DEF ReadDrafts
<1>3. CASE InsertIssue(p)
  BY <1>3, AccountAnswered DEF InsertIssue
<1> QED BY <1>1, <1>2, <1>3

LEMMA CompletionAccounted ==
  ASSUME TypeInv, Accounted, NEW p \in Workers,
         \/ \E i \in IssueIds : BeginCompletion(p, i)
         \/ ReadOrder(p)
         \/ ReadForShipping(p)
         \/ WriteShipping(p)
         \/ SaveIssue(p)
         \/ ShippingFails(p)
  PROVE  Accounted'
<1>r. RequestTyped(req[p]) /\ OrderTyped
  BY DEF TypeInv, RequestsTyped
<1>a. /\ req[p].todo \subseteq Target /\ IsFiniteSet(req[p].todo)
      /\ IssueLinesTyped(req[p].doc)
  BY <1>r DEF RequestTyped, Request
<1>g. RequestTyped(GiveUp(req[p])) /\ Ahead(GiveUp(req[p])) = 0 /\ GiveUp(req[p]).change = {}
  BY <1>r, GiveUpTyped, AheadGivenUp
<1>q. ASSUME Proceed(p, GiveUp(req[p])), UNCHANGED <<so, moved>>
      PROVE  Accounted'
  <2>1. PICK s : s = GiveUp(req[p])
    OBVIOUS
  <2> QED BY <1>g, <1>q, <2>1, AccountQuiet
<1>1. ASSUME NEW i \in IssueIds, BeginCompletion(p, i)
      PROVE  Accounted'
  <2>1. PICK doc : doc = issue[i].lines
    OBVIOUS
  <2>2. PICK s : s = [Idle EXCEPT !.pc = "order", !.issue = i, !.doc = doc]
    OBVIOUS
  <2>3. IssueLinesTyped(doc)
    BY <2>1 DEF TypeInv, IssuesTyped, IssueTyped
  <2>4. s \in Request
    BY <2>2, <2>3 DEF Idle, Request, Points, IssueLinesTyped
  <2>5. RequestTyped(s)
    BY <2>2, <2>3, <2>4, IdleTyped DEF Idle, RequestTyped
  <2>6. Ahead(s) = DocSum(doc) /\ s.change = {}
    BY <2>2 DEF Ahead, Idle
  <2>7. req[p].pc = "idle" /\ req' = [req EXCEPT ![p] = s] /\ so' = so
    BY <1>1, <2>1, <2>2 DEF BeginCompletion, Accept
  <2>8. Ahead(req[p]) = 0
    BY <2>7 DEF Ahead
  <2>9. moved' = [k \in Skus |-> moved[k] + BaseQtyOf(doc, k)]
    BY <1>1, <2>1 DEF BeginCompletion
  <2>10. moved' \in [Skus -> Nat]
    BY <1>1, CompletionTyped DEF TypeInv
  <2>11. SumFunction(moved') = SumFunction(moved) + DocSum(doc)
    <3>1. PICK m : m = moved
      OBVIOUS
    <3>2. SumFunction([k \in Skus |-> m[k] + BaseQtyOf(doc, k)]) = SumFunction(m) + DocSum(doc)
      BY <2>3, <3>1, MovedByDocument DEF TypeInv
    <3> QED BY <2>9, <3>1, <3>2
  <2>12. PICK D, b : Account(D, b)
    BY DEF Accounted
  <2>13. /\ IsFiniteSet(D) /\ b \in [D -> Nat] /\ (\A x \in D : b[x] <= b[x])
         /\ Covers(b, D, so'.lines) /\ Covers(b, D, s.change)
    BY <2>6, <2>7, <2>12 DEF Account, Covers
  <2>14. SumFunctionOnSet(b, D) + Ahead(s) + SumFunction(moved)
           <= SumFunctionOnSet(b, D) + Ahead(req[p]) + SumFunction(moved')
    <3>1. SumFunctionOnSet(b, D) \in Nat
      BY <2>13, SumNat
    <3>2. DocSum(doc) \in Nat /\ SumFunction(moved) \in Nat
      BY <2>3, DocSumType, MovedType DEF TypeInv
    <3> QED BY <2>6, <2>8, <2>11, <3>1, <3>2
  <2> QED BY <2>5, <2>7, <2>10, <2>12, <2>13, <2>14, AccountStep
<1>2. CASE ReadOrder(p)
  <2>1. CASE Found
    <3>1. PICK s : s = Shipping(req[p], Targets(req[p].doc))
      OBVIOUS
    <3>2. RequestTyped(s)
      BY <1>r, <1>a, <3>1, TargetsTyped, ShippingTyped
    <3>3. Ahead(s) = TodoSum(Targets(req[p].doc)) /\ s.change = {}
      BY <1>r, <3>1, AheadShipping
    <3>4. Ahead(req[p]) = DocSum(req[p].doc)
      BY <1>2 DEF ReadOrder, Ahead
    <3>5. Ahead(s) <= Ahead(req[p])
      BY <1>r, <1>a, <3>3, <3>4, TargetsSum
    <3>6. Proceed(p, s) /\ moved' = moved /\ so' = so
      BY <1>2, <2>1, <3>1 DEF ReadOrder
    <3>7. \A l \in so'.lines : Old(l, p)
      BY <3>6 DEF Old
    <3> QED BY <3>2, <3>3, <3>5, <3>6, <3>7, AccountKept
  <2>2. CASE ~ Found
    BY <1>2, <1>q, <2>2 DEF ReadOrder
  <2> QED BY <2>1, <2>2
<1>3. CASE ReadForShipping(p)
  <2>1. ASSUME NEW t \in req[p].todo, First(t, req[p].todo),
               NEW l \in so.lines, Shippable(l, t.qty),
               Proceed(p, [req[p] EXCEPT !.pc = "shipWrite", !.status = so.status,
                                         !.change = {Shipped(l, t.qty)}])
        PROVE  Accounted'
    <3>1. PICK v, status : v = Shipped(l, t.qty) /\ status = so.status
      OBVIOUS
    <3>2. PICK s : s = [req[p] EXCEPT !.pc = "shipWrite", !.status = status, !.change = {v}]
      OBVIOUS
    <3>3. l \in SOLine /\ status \in SOStatuses /\ t.qty \in Nat
      <4>1. l \in SOLine /\ so.status \in SOStatuses
        BY <1>r DEF OrderTyped, Order
      <4>2. t.qty \in Nat
        BY <1>a DEF Target
      <4> QED BY <3>1, <4>1, <4>2
    <3>4. v \in SOLine /\ v.id = l.id /\ v.shippedQty = l.shippedQty + t.qty
      BY <3>1, <3>3, ShippedTyped
    <3>5. s \in Request /\ s.status = status /\ s.change = {v} /\ s.pc = "shipWrite"
          /\ s.doc = req[p].doc /\ s.todo = req[p].todo /\ s.add = req[p].add
      BY <1>r, <3>2, <3>3, <3>4 DEF RequestTyped, Request, Points
    <3>6. status # "NONE"
      BY <3>3 DEF SOStatuses
    <3>7. RequestTyped(s)
      BY <1>r, <3>5, <3>6, FS_Singleton DEF RequestTyped, ById
    <3>8. {u \in req[p].todo : ~ First(u, req[p].todo)} = req[p].todo \ {t}
      BY <1>r, <1>a, <2>1, OneFirst DEF RequestTyped
    <3>9. Ahead(s) = TodoSum(req[p].todo \ {t})
      BY <3>5, <3>8 DEF Ahead
    <3>10. Ahead(req[p]) = t.qty + TodoSum(req[p].todo \ {t})
      BY <1>3, <1>a, TodoSumRemove DEF ReadForShipping, Ahead
    <3>11. PICK D, b : Account(D, b)
      BY DEF Accounted
    <3>12. IsFiniteSet(D) /\ b \in [D -> Nat] /\ \A x \in D : b[x] \in Nat
      BY <3>11 DEF Account
    <3>13. PICK id, qty : id = l.id /\ qty = t.qty
      OBVIOUS
    <3>14. id \in D /\ l.shippedQty <= b[id] /\ l.shippedQty \in Nat /\ qty \in Nat
      BY <3>3, <3>11, <3>13 DEF Account, Covers, SOLine
    <3>15. PICK c : c = [b EXCEPT ![id] = b[id] + qty]
      OBVIOUS
    <3>16. /\ c \in [D -> Nat] /\ c[id] = b[id] + qty
           /\ \A x \in D \ {id} : c[x] = b[x]
      BY <3>12, <3>14, <3>15
    <3>17. \A x \in D : b[x] <= c[x] /\ c[x] \in Nat
      BY <3>12, <3>14, <3>16
    <3>18. SumFunctionOnSet(c, D) = SumFunctionOnSet(b, D) + qty
      <4>1. \A x \in D : b[x] \in Int /\ c[x] \in Int
        BY <3>12, <3>17
      <4>2. SumFunctionOnSet(c, D) = SumFunctionOnSet(b, D) - b[id] + c[id]
        BY <3>12, <3>14, <3>16, <4>1, SumChange
      <4>3. SumFunctionOnSet(b, D) \in Nat /\ b[id] \in Nat
        BY <3>12, <3>14, SumNat
      <4> QED BY <3>14, <3>16, <4>2, <4>3
    <3>19. so' = so /\ moved' = moved /\ req' = [req EXCEPT ![p] = s]
      BY <1>3, <2>1, <3>1, <3>2 DEF ReadForShipping, Proceed
    <3>20. Covers(c, D, so'.lines)
      <4> SUFFICES ASSUME NEW m \in so.lines PROVE m.id \in D /\ m.shippedQty <= c[m.id]
        BY <3>19 DEF Covers
      <4>1. m.id \in D /\ m.shippedQty <= b[m.id]
        BY <3>11 DEF Account, Covers
      <4>2. m.shippedQty \in Nat
        BY <1>r DEF OrderTyped, Order, SOLine
      <4>3. PICK x, y : x = m.id /\ y = m.shippedQty
        OBVIOUS
      <4>4. b[x] \in Nat /\ c[x] \in Nat /\ b[x] <= c[x] /\ y <= b[x]
        BY <3>12, <3>17, <4>1, <4>3
      <4> QED BY <4>1, <4>2, <4>3, <4>4
    <3>21. Covers(c, D, s.change)
      <4>1. b[id] \in Nat
        BY <3>12, <3>14
      <4>2. v.shippedQty = l.shippedQty + qty
        BY <3>4, <3>13
      <4>3. v.id = id
        BY <3>4, <3>13
      <4>4. v.shippedQty <= c[id]
        BY <3>14, <3>16, <4>1, <4>2
      <4> QED BY <3>5, <3>14, <4>3, <4>4 DEF Covers
    <3>22. SumFunctionOnSet(c, D) + Ahead(s) + SumFunction(moved)
             <= SumFunctionOnSet(b, D) + Ahead(req[p]) + SumFunction(moved')
      <4>1. SumFunctionOnSet(b, D) \in Nat
        BY <3>12, SumNat
      <4>2. TodoSum(req[p].todo \ {t}) \in Nat
        <5>1. IsFiniteSet(req[p].todo \ {t}) /\ req[p].todo \ {t} \subseteq Target
          BY <1>a, FS_RemoveElement
        <5> QED BY <5>1, TodoSumType
      <4>3. SumFunction(moved) \in Nat /\ SumFunction(moved') = SumFunction(moved)
        BY <3>19, MovedType DEF TypeInv
      <4> QED BY <3>9, <3>10, <3>13, <3>14, <3>18, <4>1, <4>2, <4>3
    <3>23. moved' \in [Skus -> Nat]
      BY <3>19 DEF TypeInv
    <3> QED BY <3>7, <3>11, <3>12, <3>16, <3>17, <3>19, <3>20, <3>21, <3>22, <3>23, AccountStep
  <2> QED BY <1>3, <1>q, <2>1 DEF ReadForShipping
<1>4. CASE WriteShipping(p)
  <2>1. ASSUME NEW t \in req[p].todo, First(t, req[p].todo), so' = Written(req[p]),
               Proceed(p, Shipping(req[p], req[p].todo \ {t}))
        PROVE  Accounted'
    <3>1. PICK s : s = Shipping(req[p], req[p].todo \ {t})
      OBVIOUS
    <3>2. IsFiniteSet(req[p].todo \ {t}) /\ ByNum(req[p].todo \ {t})
          /\ req[p].todo \ {t} \subseteq Target
      BY <1>r, <1>a, FS_RemoveElement DEF RequestTyped, ByNum
    <3>3. RequestTyped(s)
      BY <1>r, <3>1, <3>2, ShippingTyped
    <3>4. Ahead(s) = TodoSum(req[p].todo \ {t}) /\ s.change = {}
      BY <1>r, <3>1, AheadShipping
    <3>5. {u \in req[p].todo : ~ First(u, req[p].todo)} = req[p].todo \ {t}
      BY <1>r, <1>a, <2>1, OneFirst DEF RequestTyped
    <3>6. Ahead(req[p]) = TodoSum(req[p].todo \ {t})
      BY <1>4, <3>5 DEF WriteShipping, Ahead
    <3>7. TodoSum(req[p].todo \ {t}) \in Nat
      BY <3>2, TodoSumType
    <3>8. Ahead(s) <= Ahead(req[p]) /\ moved' = moved /\ Proceed(p, s)
      BY <1>4, <2>1, <3>1, <3>4, <3>6, <3>7 DEF WriteShipping
    <3> QED BY <2>1, <3>3, <3>4, <3>8, AccountWritten
  <2> QED BY <1>4, <1>q, <2>1 DEF WriteShipping
<1>5. CASE SaveIssue(p)
  BY <1>5, AccountAnswered DEF SaveIssue
<1>6. CASE ShippingFails(p)
  BY <1>6, <1>q DEF ShippingFails
<1> QED BY <1>1, <1>2, <1>3, <1>4, <1>5, <1>6

LEMMA StoredAhead ==
  ASSUME NEW status, NEW change, NEW add, NEW drop
  PROVE  /\ Ahead(Store(status, change, add, drop)) = 0
         /\ Store(status, change, add, drop).change = change
  BY DEF Store, Idle, Ahead

(* Endpoints of the order store lines as they were read, but for their     *)
(* status and ordered quantity.                                            *)
LEMMA EndpointAccounted ==
  ASSUME TypeInv, Accounted, NEW p \in Workers, OrderEndpoint(p)
  PROVE  Accounted'
<1> DEFINE Harmless(r) ==
      /\ Accept(p, r) /\ UNCHANGED <<so, issue, moved>>
      /\ Ahead(r) = 0 /\ \A l \in r.change : Old(l, p)
<1>t. TypeInv'
  BY EndpointTyped
<1>1. ASSUME NEW r, Harmless(r)
      PROVE  Accounted'
  <2>1. req'[p] = r
    BY <1>1 DEF TypeInv, RequestsTyped, Accept
  <2>2. RequestTyped(req'[p])
    BY <1>t DEF TypeInv, RequestsTyped
  <2> QED BY <1>1, <2>1, <2>2, AccountQuiet
<1>l. \A l \in so.lines : l \in SOLine
  BY DEF TypeInv, OrderTyped, Order
<1>s. ASSUME NEW status, NEW change, NEW add, NEW drop,
             OrderRequest(p, Store(status, change, add, drop)),
             \A l \in change : Old(l, p)
      PROVE  Accounted'
  <2>1. Harmless(Store(status, change, add, drop))
    BY <1>s, StoredAhead DEF OrderRequest
  <2> HIDE DEF Harmless
  <2> QED BY <1>1, <2>1
<1>2. CASE \/ Hold(p) \/ Release(p) \/ Touch(p)
           \/ \E status \in PatchStatuses : Patch(p, status)
           \/ \E line \in NewLines : AddLine(p, line)
  <2>1. PICK status, add : OrderRequest(p, Store(status, {}, add, {}))
    BY <1>2 DEF Hold, Release, Touch, Patch, AddLine
  <2> QED BY <1>s, <2>1
<1>3. ASSUME NEW status, NEW change, OrderRequest(p, Store(status, change, {}, {})),
             \A c \in change : \E l \in so.lines, s \in LineStatuses :
               c = [l EXCEPT !.status = s]
      PROVE  Accounted'
  <2>1. ASSUME NEW c \in change
        PROVE  Old(c, p)
    <3>1. PICK l \in so.lines, s \in LineStatuses : c = [l EXCEPT !.status = s]
      BY <1>3
    <3>2. l.id = c.id /\ l.shippedQty = c.shippedQty
      BY <1>l, <3>1 DEF SOLine
    <3> QED BY <3>2 DEF Old
  <2> QED BY <1>3, <1>s, <2>1
<1>4. CASE Cancel(p)
  <2>1. PICK change : change = {[l EXCEPT !.status = "CANCELLED"] : l \in so.lines}
    OBVIOUS
  <2>2. OrderRequest(p, Store("CANCELLED", change, {}, {}))
    BY <1>4, <2>1 DEF Cancel
  <2> QED BY <1>3, <2>1, <2>2 DEF LineStatuses
<1>5. CASE Complete(p)
  <2>1. PICK change : change = {[l EXCEPT !.status = "CLOSED"] :
                                  l \in {m \in so.lines : m.status # "CANCELLED"}}
    OBVIOUS
  <2>2. OrderRequest(p, Store("CLOSED", change, {}, {}))
    BY <1>5, <2>1 DEF Complete
  <2>3. ASSUME NEW c \in change
        PROVE  \E l \in so.lines, s \in LineStatuses : c = [l EXCEPT !.status = s]
    BY <2>1 DEF LineStatuses
  <2> QED BY <1>3, <2>2, <2>3
<1>6. CASE Remove(p)
  <2>1. Harmless([Idle EXCEPT !.pc = "soDelete"])
    BY <1>6 DEF Remove, Ahead, Idle
  <2> HIDE DEF Harmless
  <2> QED BY <1>1, <2>1
<1>7. ASSUME NEW line \in so.lines, NEW qty \in Quantities, UpdateLine(p, line, qty)
      PROVE  Accounted'
  <2>1. PICK l, status : l = [line EXCEPT !.orderQty = qty] /\ status = so.status
    OBVIOUS
  <2>2. l.id = line.id /\ l.shippedQty = line.shippedQty
    BY <1>l, <2>1 DEF SOLine
  <2>3. OrderRequest(p, Store(status, {l}, {}, {})) /\ \A m \in {l} : Old(m, p)
    BY <1>7, <2>1, <2>2 DEF UpdateLine, Old
  <2> QED BY <1>s, <2>3
<1>8. ASSUME NEW line \in so.lines, DeleteLine(p, line)
      PROVE  Accounted'
  <2>1. PICK r : r = [Idle EXCEPT !.pc = "lineRead", !.num = line.num]
    OBVIOUS
  <2>2. Harmless(r)
    BY <1>8, <2>1 DEF DeleteLine, Ahead, Idle
  <2> HIDE DEF Harmless
  <2> QED BY <1>1, <2>2
<1>9. ASSUME NEW gone, NEW existing, NEW new, UpdateWithLines(p, gone, existing, new)
      PROVE  Accounted'
  <2>1. PICK r, k : /\ r = Store(so.status, {}, new, {l.id : l \in gone \cup existing})
                    /\ k = {l.id : l \in existing}
    OBVIOUS
  <2>2. PICK u : u = [r EXCEPT !.keep = k]
    OBVIOUS
  <2>3. u.pc = "soWrite" /\ u.change = {}
    BY <2>1, <2>2 DEF Store, Idle
  <2>4. Harmless(u)
    BY <1>9, <2>1, <2>2, <2>3 DEF UpdateWithLines, OrderRequest, Ahead
  <2> HIDE DEF Harmless
  <2> QED BY <1>1, <2>4
<1> QED
  BY <1>2, <1>4, <1>5, <1>6, <1>7, <1>8, <1>9 DEF OrderEndpoint

LEMMA OrderWriteAccounted ==
  ASSUME TypeInv, Accounted, NEW p \in Workers,
         WriteOrder(p) \/ DeleteOrder(p) \/ ReadForDelete(p) \/ Abort(p)
  PROVE  Accounted'
<1>1. CASE WriteOrder(p)
  <2>1. moved' = moved /\ Answer(p)
    BY <1>1 DEF WriteOrder
  <2>2. CASE Writable(req[p])
    <3>1. Ahead(req[p]) \in Nat
      BY AheadType DEF TypeInv, RequestsTyped
    <3>2. Ahead(Idle) <= Ahead(req[p]) /\ Idle.change = {}
      BY <3>1 DEF Ahead, Idle
    <3>3. so' = Written(req[p]) /\ Proceed(p, Idle)
      BY <1>1, <2>2 DEF WriteOrder, Answer
    <3> QED BY <2>1, <3>2, <3>3, IdleTyped, AccountWritten
  <2>3. CASE ~ Writable(req[p])
    BY <1>1, <2>1, <2>3, AccountAnswered DEF WriteOrder
  <2> QED BY <2>2, <2>3
<1>2. CASE DeleteOrder(p)
  <2>1. so'.lines = {}
    BY <1>2 DEF DeleteOrder, TypeInv, OrderTyped, Order
  <2> QED BY <1>2, <2>1, AccountAnswered DEF DeleteOrder
<1>3. CASE ReadForDelete(p)
  <2>1. ASSUME NEW l \in so.lines, Proceed(p, Store(so.status, {}, {}, {l.id}))
        PROVE  Accounted'
    <3>1. PICK s : s = Store(so.status, {}, {}, {l.id})
      OBVIOUS
    <3>2. l.id \in Nat /\ so.status \in SOStatuses
      BY DEF TypeInv, OrderTyped, Order, SOLine
    <3>3. RequestTyped(s)
      BY <3>1, <3>2, StoreTyped, FS_EmptySet DEF ById
    <3>4. Ahead(s) = 0 /\ s.change = {}
      BY <3>1, StoredAhead
    <3>5. Proceed(p, s) /\ UNCHANGED <<so, moved>>
      BY <1>3, <2>1, <3>1 DEF ReadForDelete
    <3> QED BY <3>3, <3>4, <3>5, AccountQuiet
  <2>2. CASE Answer(p)
    BY <1>3, <2>2, AccountAnswered DEF ReadForDelete
  <2> QED BY <1>3, <2>1, <2>2 DEF ReadForDelete
<1>4. CASE Abort(p)
  BY <1>4, AccountAnswered DEF Abort
<1> QED BY <1>1, <1>2, <1>3, <1>4

LEMMA NextAccounted == TypeInv /\ Accounted /\ [Next]_vars => Accounted'
<1> SUFFICES ASSUME TypeInv, Accounted, [Next]_vars PROVE Accounted'
  OBVIOUS
<1>1. CASE UNCHANGED <<so, req, moved>>
  BY <1>1 DEF Accounted, Account
<1>2. CASE \E i \in IssueIds : IssueEndpoint(i)
  BY <1>1, <1>2 DEF IssueEndpoint, AddIssueLine, RemoveIssueLine, CancelIssue,
                    RemoveIssue, ReferIssue, DivertIssue, RedirectIssue, DraftRequest,
                    IssueRequest
<1>3. CASE Next
  BY <1>1, <1>2, <1>3, GoodsIssueAccounted, CompletionAccounted, EndpointAccounted,
     OrderWriteAccounted
  DEF Next, Serve, Quiet, vars
<1> QED BY <1>1, <1>3 DEF vars

LEMMA InitAccounted == Init => Accounted
<1> SUFFICES ASSUME Init PROVE Accounted
  OBVIOUS
<1> DEFINE ids == {l.id : l \in OrderLines}
           f == [l \in OrderLines |-> l.id]
           b == [x \in ids |-> 0]
           ahead == [p \in Workers |-> Ahead(req[p])]
<1>1. IsFiniteSet(ids)
  <2>1. IsFiniteSet({f[l] : l \in OrderLines})
    <3> HIDE DEF f
    <3> QED BY FiniteImage, ShippingAssumption
  <2> QED BY <2>1
<1>2. Covers(b, ids, so.lines) /\ \A p \in Workers : Covers(b, ids, req[p].change)
  BY ShippingAssumption DEF Covers, Init, Idle
<1>3. SumFunctionOnSet(b, ids) = 0
  <2>1. \A x \in ids : b[x] = 0
    OBVIOUS
  <2> HIDE DEF b, ids
  <2> QED BY <1>1, <2>1, SumOfZeros
<1>4. SumFunction(ahead) = 0
  <2>1. \A p \in Workers : ahead[p] = 0
    BY DEF Init, Idle, Ahead
  <2>2. SumFunctionOnSet(ahead, Workers) = 0
    <3> HIDE DEF ahead
    <3> QED BY <2>1, SumOfZeros, ShippingAssumption
  <2> QED BY <2>2 DEF SumFunction
<1>5. SumFunction(moved) \in Nat
  BY MovedType DEF Init
<1>6. Account(ids, b)
  <2>1. b \in [ids -> Nat]
    OBVIOUS
  <2> HIDE DEF ids, b
  <2> QED BY <1>1, <1>2, <1>3, <1>4, <1>5, <2>1 DEF Account
<1> QED BY <1>6 DEF Accounted

LEMMA AccountedIsMoved == TypeInv /\ Accounted => ShippedIsMoved
<1> SUFFICES ASSUME TypeInv, Accounted PROVE ShippedIsMoved
  OBVIOUS
<1>1. PICK D, b : Account(D, b)
  BY DEF Accounted
<1> DEFINE shipped == [l \in so.lines |-> l.shippedQty]
           id == [l \in so.lines |-> l.id]
           ahead == [p \in Workers |-> Ahead(req[p])]
<1>2. so.lines \subseteq SOLine /\ IsFiniteSet(so.lines) /\ ById(so.lines)
  BY DEF TypeInv, OrderTyped, Order
<1>3. IsFiniteSet(D) /\ \A x \in D : b[x] \in Nat
  BY <1>1 DEF Account
<1>4. id \in [so.lines -> D] /\ \A l, m \in so.lines : id[l] = id[m] => l = m
  BY <1>1, <1>2 DEF Account, Covers, ById
<1>5. \A l \in so.lines : shipped[l] \in Int /\ shipped[l] <= b[id[l]]
  BY <1>1, <1>2 DEF Account, Covers, SOLine
<1>6. SumFunctionOnSet(shipped, so.lines) <= SumFunctionOnSet(b, D)
  <2> HIDE DEF shipped, id
  <2> QED BY <1>2, <1>3, <1>4, <1>5, SumBounded
<1>7. SumFunctionOnSet(b, D) + SumFunction(ahead) <= SumFunction(moved)
  BY <1>1 DEF Account
<1>8. SumFunction(ahead) \in Nat
  <2>1. \A p \in Workers : ahead[p] \in Nat
    BY AheadType DEF TypeInv, RequestsTyped
  <2>2. SumFunctionOnSet(ahead, Workers) \in Nat
    <3> HIDE DEF ahead
    <3> QED BY <2>1, SumNat, ShippingAssumption
  <2> QED BY <2>2 DEF SumFunction
<1>9. SumFunction(shipped) = SumFunctionOnSet(shipped, so.lines)
  BY DEF SumFunction
<1>10. SumFunctionOnSet(b, D) \in Nat /\ SumFunction(moved) \in Nat
       /\ SumFunctionOnSet(shipped, so.lines) \in Int
  <2>1. \A l \in so.lines : shipped[l] \in Nat
    BY <1>2 DEF SOLine
  <2>2. SumFunctionOnSet(shipped, so.lines) \in Nat
    <3> HIDE DEF shipped
    <3> QED BY <1>2, <2>1, SumNat
  <2> QED BY <1>3, <2>2, SumNat, MovedType DEF TypeInv
<1>11. SumFunction(shipped) <= SumFunction(moved)
  <2> HIDE DEF shipped, ahead
  <2> QED BY <1>6, <1>7, <1>8, <1>9, <1>10
<1> QED BY <1>11 DEF ShippedIsMoved

(* The order never records more than was moved out of stock for it, for    *)
(* any lines and issues, any number of requests at a time, and faults      *)
(* (SalesOrderService.addShippedQty).                                      *)
THEOREM NothingShippedFromNowhere == Spec => []ShippedIsMoved
<1>1. TypeInv /\ Accounted /\ [Next]_vars => (TypeInv /\ Accounted)'
  BY NextTyped, NextAccounted
<1>2. Spec => [](TypeInv /\ Accounted)
  BY <1>1, InitTyped, InitAccounted, PTL DEF Spec
<1> QED BY <1>2, AccountedIsMoved, PTL

--------------------------------------------------------------------------------
(***************************************************************************)
(* Requests on the order that do not overlap.  What a request is about to  *)
(* store was computed from the order as it still is: a status the order    *)
(* can move to and, when that is final, lines that are final too.          *)
(***************************************************************************)
Serial == (\A p, q \in Workers : p = q) /\ PatchStatuses = {}

Final == {"CLOSED", "CANCELLED"}

Editing == "updateWithLines" \in Endpoints

FinalLines == \A l \in so.lines : l.status \in Final

Storing(r) == r.pc \in {"soWrite", "shipWrite"}

(* The change closes or cancels every line that is neither, and nothing else. *)
Finishes(change) ==
  /\ \A c \in change : /\ c.status \in Final
                       /\ \E m \in so.lines : m.id = c.id /\ m.shippedQty = c.shippedQty
  /\ \A l \in so.lines : l.status \in Final \/ \E c \in change : c.id = l.id

Current(r) ==
  Storing(r) =>
    /\ r.status = so.status \/ CanTransition(r.status)
    /\ ~ Editing /\ r.status \in Final =>
         r.pc = "soWrite" /\ r.add = {} /\ Finishes(r.change)

SerialInv ==
  /\ ~ Editing /\ so.status \in Final => FinalLines
  /\ \A p \in Workers : Current(req[p])

LEMMA NoWayBack == so.status \in Final => \A s : ~ CanTransition(s)
  BY DEF Final, CanTransition, Transitions

LEMMA SerialStep ==
  ASSUME TypeInv, SerialInv, NEW p \in Workers, NEW n, req' = [req EXCEPT ![p] = n],
         so' = so, Current(n)
  PROVE  SerialInv'
<1>1. req'[p] = n /\ \A q \in Workers : q # p => req'[q] = req[q]
  BY DEF TypeInv, RequestsTyped
<1>2. ASSUME NEW q \in Workers
      PROVE  Current(req[q])'
  <2>1. PICK r : r = req'[q]
    OBVIOUS
  <2>2. Current(r)
    BY <1>1, <2>1 DEF SerialInv
  <2>3. Current(r)'
    BY <2>2 DEF Current, CanTransition, Finishes
  <2>4. Current(r)' = Current(req[q])'
    BY <2>1 DEF Current, Storing
  <2> QED BY <2>3, <2>4
<1> QED BY <1>2 DEF SerialInv, FinalLines

LEMMA SerialWrite ==
  ASSUME Serial, TypeInv, SerialInv, NEW p \in Workers, NEW n, req' = [req EXCEPT ![p] = n],
         ~ Storing(n), ~ Editing /\ so'.status \in Final => FinalLines'
  PROVE  SerialInv'
<1>1. req'[p] = n /\ \A q \in Workers : q = p
  BY DEF TypeInv, RequestsTyped, Serial
<1>2. \A q \in Workers : Current(req[q])'
  BY <1>1 DEF Current, Storing
<1> QED BY <1>2 DEF SerialInv

LEMMA Waiting ==
  /\ ~ Storing(Idle)
  /\ \A r, todo : RequestTyped(r) => ~ Storing(Shipping(r, todo))
  BY DEF Storing, Idle, Shipping, RequestTyped, Request

LEMMA SerialWaits ==
  ASSUME TypeInv, SerialInv, NEW p \in Workers, NEW n, Proceed(p, n) \/ Accept(p, n),
         so' = so, ~ Storing(n)
  PROVE  SerialInv'
<1>1. req' = [req EXCEPT ![p] = n] /\ Current(n)
  BY DEF Proceed, Accept, Current
<1> QED BY <1>1, SerialStep

(* A request that stores no line and a status that may follow. *)
LEMMA StatusStored ==
  ASSUME TypeInv, SerialInv, NEW p \in Workers, NEW status, NEW drop,
         \/ Accept(p, Store(status, {}, {}, drop))
         \/ Proceed(p, Store(status, {}, {}, drop)),
         status = so.status \/ CanTransition(status), status \in Final => status = so.status,
         so' = so
  PROVE  SerialInv'
<1>1. PICK n : n = Store(status, {}, {}, drop)
  OBVIOUS
<1>2. n.status = status /\ n.add = {} /\ n.change = {} /\ n.pc = "soWrite"
  BY <1>1 DEF Store, Idle
<1>3. Current(n)
  BY <1>2 DEF Current, Finishes, SerialInv, FinalLines
<1>4. req' = [req EXCEPT ![p] = n]
  BY <1>1 DEF Accept, Proceed
<1> QED BY <1>3, <1>4, SerialStep

LEMMA EndpointSerial ==
  ASSUME Serial, TypeInv, SerialInv, NEW p \in Workers, OrderEndpoint(p)
  PROVE  SerialInv'
<1>l. \A l \in so.lines : l \in SOLine
  BY DEF TypeInv, OrderTyped, Order
<1>1. CASE Hold(p)
  BY <1>1, StatusStored DEF Hold, OrderRequest, Final
<1>2. CASE Release(p)
  BY <1>2, StatusStored DEF Release, OrderRequest, Final
<1>3. CASE Touch(p)
  BY <1>3, StatusStored DEF Touch, OrderRequest
<1>4. ASSUME NEW status \in Final, CanTransition(status), NEW change,
             OrderRequest(p, Store(status, change, {}, {})), Finishes(change)
      PROVE  SerialInv'
  <2>1. PICK n : n = Store(status, change, {}, {})
    OBVIOUS
  <2>2. n.status = status /\ n.add = {} /\ n.change = change /\ n.pc = "soWrite"
    BY <2>1 DEF Store, Idle
  <2>3. Current(n)
    BY <1>4, <2>2 DEF Current
  <2>4. req' = [req EXCEPT ![p] = n] /\ so' = so
    BY <1>4, <2>1 DEF OrderRequest, Accept
  <2> QED BY <2>3, <2>4, SerialStep
<1>5. CASE Cancel(p)
  <2>1. PICK change : change = {[l EXCEPT !.status = "CANCELLED"] : l \in so.lines}
    OBVIOUS
  <2>2. OrderRequest(p, Store("CANCELLED", change, {}, {})) /\ CanTransition("CANCELLED")
    BY <1>5, <2>1 DEF Cancel
  <2>3. ASSUME NEW l \in so.lines
        PROVE  \E c \in change : c.id = l.id
    <3>1. PICK c : c = [l EXCEPT !.status = "CANCELLED"]
      OBVIOUS
    <3>2. c \in change /\ c.id = l.id
      BY <1>l, <2>1, <3>1 DEF SOLine
    <3> QED BY <3>2
  <2>4. ASSUME NEW c \in change
        PROVE  c.status \in Final /\ \E m \in so.lines : m.id = c.id /\ m.shippedQty = c.shippedQty
    BY <1>l, <2>1 DEF SOLine, Final
  <2>5. Finishes(change)
    BY <2>3, <2>4 DEF Finishes
  <2> QED BY <1>4, <2>2, <2>5 DEF Final
<1>6. CASE Complete(p)
  <2>1. PICK change : change = {[l EXCEPT !.status = "CLOSED"] :
                                  l \in {m \in so.lines : m.status # "CANCELLED"}}
    OBVIOUS
  <2>2. OrderRequest(p, Store("CLOSED", change, {}, {})) /\ CanTransition("CLOSED")
    BY <1>6, <2>1 DEF Complete
  <2>3. ASSUME NEW l \in so.lines, l.status # "CANCELLED"
        PROVE  \E c \in change : c.id = l.id
    <3>1. PICK c : c = [l EXCEPT !.status = "CLOSED"]
      OBVIOUS
    <3>2. c \in change /\ c.id = l.id
      BY <1>l, <2>1, <2>3, <3>1 DEF SOLine
    <3> QED BY <3>2
  <2>4. ASSUME NEW c \in change
        PROVE  c.status \in Final /\ \E m \in so.lines : m.id = c.id /\ m.shippedQty = c.shippedQty
    BY <1>l, <2>1 DEF SOLine, Final
  <2>5. Finishes(change)
    BY <2>3, <2>4 DEF Finishes, Final
  <2> QED BY <1>4, <2>2, <2>5 DEF Final
<1>7. CASE Remove(p) \/ \E line \in so.lines : DeleteLine(p, line)
  <2>1. PICK num, n : /\ Accept(p, n)
                      /\ \/ n = [Idle EXCEPT !.pc = "soDelete"]
                         \/ n = [Idle EXCEPT !.pc = "lineRead", !.num = num]
    BY <1>7 DEF Remove, DeleteLine
  <2>2. n.pc \in {"soDelete", "lineRead"}
    BY <2>1 DEF Idle
  <2>3. so' = so
    BY <1>7 DEF Remove, DeleteLine
  <2> QED BY <2>1, <2>2, <2>3, SerialWaits DEF Storing
<1>8. ASSUME NEW n, OrderRequest(p, n), n.status = so.status, n.pc = "soWrite",
             Editing \/ Editable
      PROVE  SerialInv'
  <2>1. Current(n)
    BY <1>8 DEF Current, Editable, Final
  <2>2. req' = [req EXCEPT ![p] = n] /\ so' = so
    BY <1>8 DEF OrderRequest, Accept
  <2> QED BY <2>1, <2>2, SerialStep
<1>9. ASSUME NEW change, NEW add, OrderRequest(p, Store(so.status, change, add, {})), Editable
      PROVE  SerialInv'
  <2>1. PICK s, n : s = so.status /\ n = Store(s, change, add, {})
    OBVIOUS
  <2>2. n.status = s /\ n.pc = "soWrite"
    BY <2>1 DEF Store, Idle
  <2> QED BY <1>8, <1>9, <2>1, <2>2
<1>10. CASE \E line \in NewLines : AddLine(p, line)
  BY <1>9, <1>10 DEF AddLine
<1>11. CASE \E line \in so.lines : \E qty \in Quantities : UpdateLine(p, line, qty)
  BY <1>9, <1>11 DEF UpdateLine
<1>12. ASSUME NEW gone, NEW existing, NEW new, UpdateWithLines(p, gone, existing, new)
       PROVE  SerialInv'
  <2>1. PICK s, k, d : /\ s = so.status /\ k = {l.id : l \in existing}
                       /\ d = {l.id : l \in gone \cup existing}
    OBVIOUS
  <2>2. PICK n : n = [Store(s, {}, new, d) EXCEPT !.keep = k]
    OBVIOUS
  <2>3. n.pc = "soWrite" /\ n.status = s
    BY <2>2 DEF Store, Idle
  <2>4. OrderRequest(p, n) /\ Editing
    BY <1>12, <2>1, <2>2 DEF UpdateWithLines, Editing
  <2> QED BY <1>8, <2>1, <2>3, <2>4
<1> QED
  BY <1>1, <1>2, <1>3, <1>5, <1>6, <1>7, <1>10, <1>11, <1>12 DEF OrderEndpoint, Serial

(* What is written of a request that finishes the order. *)
LEMMA WrittenFinal ==
  ASSUME NEW r, r.add = {}, Finishes(r.change)
  PROVE  /\ \A l \in Written(r).lines : l.status \in Final
         /\ \A l \in Written(r).lines : \E m \in so.lines :
              m.id = l.id /\ m.shippedQty = l.shippedQty
<1> DEFINE kept  == Kept(r)
           stale == {l \in Kept(r) : \E c \in r.change : c.id = l.id}
           fresh == {c \in r.change : \E l \in Kept(r) : c.id = l.id}
<1>1. Written(r).lines = (kept \ stale) \cup fresh
  BY DEF Written
<1>2. kept \subseteq so.lines
  BY DEF Kept
<1>3. ASSUME NEW l \in Written(r).lines
      PROVE  /\ l.status \in Final
             /\ \E m \in so.lines : m.id = l.id /\ m.shippedQty = l.shippedQty
  <2>1. CASE l \in fresh
    BY <2>1 DEF Finishes
  <2>2. CASE l \in kept \ stale
    <3>1. l \in so.lines /\ ~ \E c \in r.change : c.id = l.id
      BY <1>2, <2>2
    <3> QED BY <3>1 DEF Finishes
  <2> QED BY <1>1, <2>1, <2>2
<1> QED BY <1>3

LEMMA WriteSerial ==
  ASSUME Serial, TypeInv, SerialInv, NEW p \in Workers, NEW n, req' = [req EXCEPT ![p] = n],
         ~ Storing(n), Storing(req[p]), so' = so \/ so' = Written(req[p])
  PROVE  SerialInv'
<1>1. CASE so' = so
  BY <1>1, SerialWrite DEF SerialInv, FinalLines
<1>2. CASE so' = Written(req[p])
  <2>1. so'.status = req[p].status
    BY <1>2 DEF Written
  <2>2. ASSUME ~ Editing, so'.status \in Final
        PROVE  FinalLines'
    <3>1. req[p].add = {} /\ Finishes(req[p].change)
      BY <2>1, <2>2 DEF SerialInv, Current
    <3> QED BY <1>2, <3>1, WrittenFinal DEF FinalLines
  <2> QED BY <2>2, SerialWrite
<1> QED BY <1>1, <1>2

LEMMA ServeSerial ==
  ASSUME Serial, TypeInv, SerialInv, NEW p \in Workers,
         \/ \E i \in IssueIds, doc \in IssueDocs : BeginIssue(p, i, doc)
         \/ \E i \in IssueIds : BeginCompletion(p, i)
         \/ Serve(p)
         \/ Abort(p)
         \/ ShippingFails(p)
  PROVE  SerialInv'
<1>r. RequestTyped(req[p]) /\ req[p] \in Request
  BY DEF TypeInv, RequestsTyped, RequestTyped
<1>a. ASSUME Answer(p), so' = so
      PROVE  SerialInv'
  BY <1>a, Waiting, SerialWaits DEF Answer
<1>s. ASSUME NEW todo, Proceed(p, Shipping(req[p], todo)), so' = so
      PROVE  SerialInv'
  BY <1>r, <1>s, Waiting, SerialWaits
<1>1. ASSUME NEW i \in IssueIds, NEW doc, BeginIssue(p, i, doc)
      PROVE  SerialInv'
  <2>1. PICK s : s = so.lines
    OBVIOUS
  <2>2. PICK n : n = [Idle EXCEPT !.pc = "drafts", !.issue = i, !.doc = doc, !.seen = s]
    OBVIOUS
  <2>3. n.pc = "drafts"
    BY <2>2 DEF Idle
  <2>4. Accept(p, n) /\ so' = so
    BY <1>1, <2>1, <2>2 DEF BeginIssue
  <2> QED BY <2>3, <2>4, SerialWaits DEF Storing
<1>2. ASSUME NEW i \in IssueIds, BeginCompletion(p, i)
      PROVE  SerialInv'
  <2>1. PICK s : s = issue[i].lines
    OBVIOUS
  <2>2. PICK n : n = [Idle EXCEPT !.pc = "order", !.issue = i, !.doc = s]
    OBVIOUS
  <2>3. n.pc = "order"
    BY <2>2 DEF Idle
  <2>4. Accept(p, n) /\ so' = so
    BY <1>2, <2>1, <2>2 DEF BeginCompletion
  <2> QED BY <2>3, <2>4, SerialWaits DEF Storing
<1>3. CASE ReadDrafts(p)
  <2>1. PICK n : n = [req[p] EXCEPT !.pc = "insert", !.seen = {}]
    OBVIOUS
  <2>2. n.pc = "insert"
    BY <1>r, <2>1 DEF Request
  <2>3. so' = so /\ (Proceed(p, n) \/ Answer(p))
    BY <1>3, <2>1 DEF ReadDrafts
  <2> QED BY <1>a, <2>2, <2>3, SerialWaits DEF Storing
<1>4. CASE InsertIssue(p) \/ SaveIssue(p) \/ Abort(p)
  BY <1>4, <1>a DEF InsertIssue, SaveIssue, Abort
<1>5. CASE ReadOrder(p) \/ ShippingFails(p)
  <2>1. so' = so /\ \E todo : Proceed(p, Shipping(req[p], todo))
    BY <1>5 DEF ReadOrder, ShippingFails, GiveUp
  <2> QED BY <1>s, <2>1
<1>6. CASE ReadForShipping(p)
  <2>1. ASSUME NEW l \in so.lines, NEW qty, Shippable(l, qty), NEW v,
               Proceed(p, [req[p] EXCEPT !.pc = "shipWrite", !.status = so.status, !.change = {v}])
        PROVE  SerialInv'
    <3>1. PICK s, n : s = so.status /\ n = [req[p] EXCEPT !.pc = "shipWrite", !.status = s, !.change = {v}]
      OBVIOUS
    <3>2. n.pc = "shipWrite" /\ n.status = s
      BY <1>r, <3>1 DEF Request
    <3>3. ~ Editing => s \notin Final
      BY <2>1, <3>1 DEF SerialInv, FinalLines, Shippable, Final
    <3>4. Current(n)
      BY <3>1, <3>2, <3>3 DEF Current
    <3>5. req' = [req EXCEPT ![p] = n] /\ so' = so
      BY <1>6, <2>1, <3>1 DEF Proceed, ReadForShipping
    <3> QED BY <3>4, <3>5, SerialStep
  <2>2. CASE Proceed(p, GiveUp(req[p]))
    BY <1>6, <1>s, <2>2 DEF GiveUp, ReadForShipping
  <2> QED BY <1>6, <2>1, <2>2 DEF ReadForShipping
<1>7. CASE WriteShipping(p)
  <2>1. \E todo : Proceed(p, Shipping(req[p], todo))
    BY <1>7 DEF WriteShipping, GiveUp
  <2>2. PICK todo : Proceed(p, Shipping(req[p], todo))
    BY <2>1
  <2>3. PICK n : n = Shipping(req[p], todo)
    OBVIOUS
  <2>4. req' = [req EXCEPT ![p] = n] /\ ~ Storing(n) /\ Storing(req[p])
    BY <1>7, <1>r, <2>2, <2>3, Waiting DEF Proceed, WriteShipping, Storing
  <2>5. so' = so \/ so' = Written(req[p])
    BY <1>7 DEF WriteShipping
  <2> QED BY <2>4, <2>5, WriteSerial
<1>8. CASE WriteOrder(p)
  <2>1. req' = [req EXCEPT ![p] = Idle] /\ Storing(req[p]) /\ (so' = so \/ so' = Written(req[p]))
    BY <1>8 DEF WriteOrder, Answer, Proceed, Storing
  <2> QED BY <2>1, Waiting, WriteSerial
<1>9. CASE DeleteOrder(p)
  <2>1. req' = [req EXCEPT ![p] = Idle]
    BY <1>9 DEF DeleteOrder, Answer, Proceed
  <2>2. so'.status \notin Final
    BY <1>9 DEF DeleteOrder, Final, TypeInv, OrderTyped, Order
  <2> QED BY <2>1, <2>2, Waiting, SerialWrite
<1>10. CASE ReadForDelete(p)
  <2>1. ASSUME NEW l, Proceed(p, Store(so.status, {}, {}, {l.id}))
        PROVE  SerialInv'
    <3>1. PICK s : s = so.status
      OBVIOUS
    <3>2. PICK drop : drop = {l.id}
      OBVIOUS
    <3> QED BY <1>10, <2>1, <3>1, <3>2, StatusStored DEF ReadForDelete
  <2> QED BY <1>10, <1>a, <2>1 DEF ReadForDelete
<1> QED
  BY <1>1, <1>2, <1>3, <1>4, <1>5, <1>6, <1>7, <1>8, <1>9, <1>10 DEF Serve

LEMMA NextSerial ==
  ASSUME Serial, TypeInv, SerialInv, [Next]_vars
  PROVE  SerialInv'
<1>1. CASE UNCHANGED <<so, req>>
  BY <1>1 DEF SerialInv, Current, FinalLines, Finishes, CanTransition, Storing
<1>2. CASE \E i \in IssueIds : IssueEndpoint(i)
  BY <1>1, <1>2 DEF IssueEndpoint, AddIssueLine, RemoveIssueLine, CancelIssue,
                    RemoveIssue, ReferIssue, DivertIssue, RedirectIssue, DraftRequest,
                    IssueRequest
<1>3. CASE Next
  BY <1>1, <1>2, <1>3, ServeSerial, EndpointSerial DEF Next, Quiet, vars
<1> QED BY <1>1, <1>3 DEF vars

LEMMA SerialAlways ==
  ASSUME Serial
  PROVE  Spec => [](TypeInv /\ SerialInv)
<1>1. Init => SerialInv
  BY Waiting DEF Init, SerialInv, Current, Final
<1>2. TypeInv /\ SerialInv /\ [Next]_vars => TypeInv' /\ SerialInv'
  BY NextTyped, NextSerial
<1> QED BY <1>1, <1>2, InitTyped, PTL DEF Spec

(* Only the writes of the order and its deletion change it. *)
LEMMA OrderSteps ==
  ASSUME TypeInv, [Next]_vars
  PROVE  \/ so' = so
         \/ so'.status = "DELETED" /\ so'.lines = {}
         \/ \E p \in Workers : Storing(req[p]) /\ so' = Written(req[p])
<1>1. CASE \E i \in IssueIds : IssueEndpoint(i)
  BY <1>1 DEF IssueEndpoint, AddIssueLine, RemoveIssueLine, CancelIssue, RemoveIssue,
              ReferIssue, DivertIssue, RedirectIssue, DraftRequest, IssueRequest
<1>2. CASE \E p \in Workers : OrderEndpoint(p)
  BY <1>2 DEF OrderEndpoint, Hold, Release, Cancel, Complete, Touch, Remove, Patch, AddLine,
              UpdateLine, DeleteLine, UpdateWithLines, OrderRequest
<1>3. CASE \E p \in Workers : WriteOrder(p) \/ WriteShipping(p)
  BY <1>3 DEF WriteOrder, WriteShipping, Storing
<1>4. CASE \E p \in Workers : DeleteOrder(p)
  BY <1>4 DEF DeleteOrder, TypeInv, OrderTyped, Order
<1>5. CASE \E p \in Workers :
             \/ \E i \in IssueIds, doc \in IssueDocs : BeginIssue(p, i, doc)
             \/ \E i \in IssueIds : BeginCompletion(p, i)
             \/ ReadDrafts(p) \/ InsertIssue(p) \/ ReadOrder(p) \/ ReadForShipping(p)
             \/ SaveIssue(p) \/ ReadForDelete(p) \/ Abort(p) \/ ShippingFails(p)
  BY <1>5 DEF BeginIssue, BeginCompletion, ReadDrafts, InsertIssue, ReadOrder, ReadForShipping,
              SaveIssue, ReadForDelete, Abort, ShippingFails
<1> QED BY <1>1, <1>2, <1>3, <1>4, <1>5 DEF Next, Serve, Quiet, vars

(* With requests that do not overlap, no status patched and no order       *)
(* updated with its lines, a closed or cancelled order gets no new line    *)
(* and ships nothing more, faults or not.                                  *)
THEOREM FinalOrdersAreFrozen ==
  ASSUME Serial, ~ Editing
  PROVE  Spec => FinalOrderIsFrozen
<1>1. TypeInv /\ SerialInv /\ [Next]_vars =>
        [so.status \in {"CLOSED", "CANCELLED"} =>
           \A l \in so'.lines : \E m \in so.lines :
             m.id = l.id /\ m.shippedQty = l.shippedQty]_vars
  <2> SUFFICES ASSUME TypeInv, SerialInv, [Next]_vars, so.status \in Final, so' # so,
                      NEW l \in so'.lines
               PROVE  \E m \in so.lines : m.id = l.id /\ m.shippedQty = l.shippedQty
    BY DEF Final
  <2>1. PICK p \in Workers : Storing(req[p]) /\ so' = Written(req[p])
    BY OrderSteps
  <2>2. req[p].status = so.status
    BY <2>1, NoWayBack DEF SerialInv, Current
  <2>3. req[p].add = {} /\ Finishes(req[p].change)
    BY <2>1, <2>2 DEF SerialInv, Current
  <2> QED BY <2>1, <2>3, WrittenFinal
<1>2. Spec => [][so.status \in {"CLOSED", "CANCELLED"} =>
           \A l \in so'.lines : \E m \in so.lines :
             m.id = l.id /\ m.shippedQty = l.shippedQty]_vars
  BY <1>1, SerialAlways, PTL DEF Spec
<1> QED BY <1>2 DEF FinalOrderIsFrozen

================================================================================
