--------------------------- MODULE AllocationProofs ---------------------------
(***************************************************************************)
(* Proofs about SalesOrderShipping: what an order has shipped, what its    *)
(* drafts will ship, and what its completed issues took from stock.        *)
(***************************************************************************)
EXTENDS SalesOrderProofs

(***************************************************************************)
(* Clients that keep to the order of things.  One request is served at a   *)
(* time, none fails, and drafts come from createGoodsIssueFromSo only:     *)
(* none is given the reference of the order by hand, and none is amended.  *)
(* Lines are appended and quantities raised only; the status of the order  *)
(* is left to its endpoints.  An issue names a SKU once, in its unit.      *)
(***************************************************************************)
Plain(lines) ==
  /\ \A x \in lines : x.quantity = x.baseQty /\ x.quantity > 0
  /\ \A x, y \in lines : x.sku = y.sku => x = y

Orderly ==
  /\ \E w : Workers = {w}
  /\ OnePerIssue /\ ~ Faults
  /\ PatchStatuses = {}
  /\ Endpoints \cap {"deleteLine", "updateWithLines", "amendIssue", "referIssue"} = {}
  /\ OnlyRaised
  /\ \A n \in NewLines : n.num = 0
  /\ \A doc \in IssueDocs : Plain(doc)

Worker == CHOOSE w : Workers = {w}

(***************************************************************************)
(* The invariant.  It is stated of an order s, goods issues is and the one *)
(* request r, so that it can be stated of the next ones as well.           *)
(***************************************************************************)
Drafts(is)  == {i \in IssueIds : is[i].status = "DRAFT"}
Ended(is)   == {i \in IssueIds : is[i].status = "COMPLETED"}
Started(is) == {i \in IssueIds : is[i].status # "NONE"}

PendingIn(is, k) == SumFunction([i \in Drafts(is) |-> QuantityOf(is[i].lines, k)])
IssuedIn(is, k)  == SumFunction([i \in Ended(is) |-> BaseQtyOf(is[i].lines, k)])

Having(lines, k)    == {l \in lines : l.sku = k}
ShippedIn(lines, k) == SumFunction([l \in Having(lines, k) |-> l.shippedQty])
OrderedIn(lines, k) == SumFunction([l \in Having(lines, k) |-> l.orderQty])

ShippingPoints == {"shipRead", "shipWrite", "saveIssue"}

(* Whether SKU k is still to be shipped by the completion r. *)
Awaits(is, r, k) ==
  \E t \in r.todo, x \in is[r.issue].lines : x.num = t.num /\ x.sku = k

(* What the completion r has shipped of SKU k, from an issue still a draft. *)
ShippedBy(is, r, k) ==
  IF r.pc \in ShippingPoints /\ ~ Awaits(is, r, k)
  THEN QuantityOf(is[r.issue].lines, k) ELSE 0

(* What is still to be shipped of SKU k. *)
Left(is, r, k) == PendingIn(is, k) - ShippedBy(is, r, k)

Live(s) == s.status \notin {"CLOSED", "CANCELLED", "DELETED"}

FirstOpen(l, lines, k) == First(l, OpenLines(lines, k))

(* One line has room for the quantity q of SKU k: as long as the order is  *)
(* not final, the line that the next issue of k is shipped from.           *)
Room(s, k, q) ==
  \/ q = 0
  \/ \E l \in s.lines :
       /\ l.sku = k
       /\ l.shippedQty + q <= l.orderQty
       /\ Live(s) => FirstOpen(l, s.lines, k)

FitsIn(is, doc, lines) ==
  \A x \in doc : \E l \in lines :
    /\ FirstOpen(l, lines, x.sku)
    /\ x.quantity + PendingIn(is, x.sku) + l.shippedQty <= l.orderQty

(* Every line of the issue still to be shipped found its line of the order. *)
TodoFits(s, is, r) ==
  \A t \in r.todo : \E x \in is[r.issue].lines :
    /\ x.num = t.num /\ x.baseQty = t.qty
    /\ \E l \in s.lines : l.num = t.at /\ FirstOpen(l, s.lines, x.sku)

WriteFits(s, r) ==
  /\ r.status = s.status
  /\ \E t \in r.todo, l \in s.lines :
       /\ First(t, r.todo)
       /\ l.num = t.at
       /\ Shippable(l, t.qty)
       /\ r.change = {Shipped(l, t.qty)}

Keeps(s, r) ==
  /\ r.change = {} /\ r.add = {}
  /\ \/ r.status = s.status
     \/ Live(s) /\ r.status \notin {"CLOSED", "CANCELLED"}
Ends(s, r) ==
  /\ Live(s) /\ r.status \in {"CLOSED", "CANCELLED"} /\ r.add = {}
  /\ \A c \in r.change : \E l \in s.lines :
       /\ c.id = l.id /\ c.num = l.num /\ c.sku = l.sku
       /\ c.orderQty = l.orderQty /\ c.shippedQty = l.shippedQty
Raises(s, r) ==
  /\ Live(s) /\ r.status = s.status /\ r.add = {}
  /\ \E l \in s.lines, q \in Quantities : r.change = {[l EXCEPT !.orderQty = q]}
Adds(s, r) ==
  /\ Live(s) /\ r.status = s.status /\ r.change = {}
  /\ \E n : r.add = {n} /\ \A l \in s.lines : l.num < n.num

StoreFits(s, r) ==
  r.drop = {} /\ (Keeps(s, r) \/ Ends(s, r) \/ Raises(s, r) \/ Adds(s, r))

RequestFits(s, is, r) ==
  /\ Plain(r.doc)
  /\ r.pc # "lineRead"
  /\ r.pc \in {"drafts", "insert"} =>
       r.issue \in IssueIds /\ is[r.issue].status = "NONE"
  /\ r.pc = "drafts" => r.seen = s.lines
  /\ r.pc = "insert" => FitsIn(is, r.doc, s.lines)
  /\ r.pc \in {"order"} \cup ShippingPoints =>
       r.issue \in IssueIds /\ is[r.issue].status = "DRAFT" /\ r.add = {} /\ r.drop = {}
  /\ r.pc = "order" => r.doc = is[r.issue].lines
  /\ r.pc \in {"shipRead", "shipWrite"} /\ Live(s) => TodoFits(s, is, r)
  /\ r.pc = "shipWrite" => WriteFits(s, r)
  /\ r.pc = "saveIssue" => r.todo = {}
  /\ r.pc = "soWrite" => StoreFits(s, r)

LinesFit(s) ==
  /\ ByNum(s.lines)
  /\ Live(s) => \A l \in s.lines : l.status # "CANCELLED"

IssuesFit(is) ==
  /\ IsFiniteSet(Started(is))
  /\ \A i \in IssueIds : Plain(is[i].lines)

Covered(s, is, r) ==
  s.status # "DELETED" => \A k \in Skus : Room(s, k, Left(is, r, k))

Recorded(s, is, r) ==
  Live(s) => \A k \in Skus :
    ShippedIn(s.lines, k) = IssuedIn(is, k) + ShippedBy(is, r, k)

Fitting(s, is, r) ==
  /\ LinesFit(s) /\ IssuesFit(is) /\ RequestFits(s, is, r)
  /\ Covered(s, is, r) /\ Recorded(s, is, r)

AllocInv == Fitting(so, issue, req[Worker])

--------------------------------------------------------------------------------
(* Sums *)

(* An issue asks for a SKU in one line, in the unit of the SKU. *)
LEMMA PlainQuantities ==
  ASSUME NEW lines, IssueLinesTyped(lines), Plain(lines), NEW k
  PROVE  /\ QuantityOf(lines, k) \in Nat
         /\ BaseQtyOf(lines, k) = QuantityOf(lines, k)
         /\ \A x \in lines : x.sku = k => QuantityOf(lines, k) = x.quantity
         /\ (\A x \in lines : x.sku # k) => QuantityOf(lines, k) = 0
<1> DEFINE D == {m \in lines : m.sku = k}
           q == [l \in D |-> l.quantity]
           b == [l \in D |-> l.baseQty]
<1>0. QuantityOf(lines, k) = SumFunctionOnSet(q, D) /\ BaseQtyOf(lines, k) = SumFunctionOnSet(b, D)
  BY DEF QuantityOf, BaseQtyOf, SumFunction
<1>1. \A l \in D : q[l] = l.quantity /\ q[l] \in Nat /\ b[l] = q[l]
  BY DEF IssueLinesTyped, IssueLine, Plain
<1>2. CASE D = {}
  <2>1. SumFunctionOnSet(q, D) = 0 /\ SumFunctionOnSet(b, D) = 0
    BY <1>2, SumEmpty
  <2> QED BY <1>0, <1>2, <2>1
<1>3. ASSUME NEW x \in D
      PROVE  SumFunctionOnSet(q, D) = x.quantity /\ SumFunctionOnSet(b, D) = x.quantity
  <2>1. D = {x}
    BY DEF Plain
  <2> HIDE DEF D, q, b
  <2>2. SumFunctionOnSet(q, {x}) = q[x] /\ SumFunctionOnSet(b, {x}) = b[x]
    <3>1. q[x] \in Int /\ b[x] \in Int
      BY <1>1
    <3> QED BY <3>1, SumOfOne
  <2> QED BY <1>1, <2>1, <2>2
<1>4. \A x \in lines : x.sku = k => x \in D /\ x.quantity \in Nat
  BY DEF IssueLinesTyped, IssueLine
<1>5. CASE D # {}
  <2>1. PICK x \in D : TRUE
    BY <1>5
  <2>2. x \in lines /\ x.sku = k /\ x.quantity \in Nat
    BY <1>4
  <2> HIDE DEF D, q, b
  <2>3. /\ QuantityOf(lines, k) = x.quantity
        /\ BaseQtyOf(lines, k) = x.quantity
    BY <1>0, <1>3
  <2>4. \A y \in lines : y.sku = k => QuantityOf(lines, k) = y.quantity
    BY <1>0, <1>3, <1>4
  <2> QED BY <2>2, <2>3, <2>4
<1> HIDE DEF D
<1> QED BY <1>2, <1>5

(* What the drafts of an order ask for. *)
IssuesWell(is) ==
  /\ is = [i \in IssueIds |-> is[i]]
  /\ \A i \in IssueIds : IssueTyped(is[i])
  /\ IssuesFit(is)

LEMMA AskedType ==
  ASSUME NEW is, IssuesWell(is), NEW i \in IssueIds, NEW k
  PROVE  /\ QuantityOf(is[i].lines, k) \in Nat
         /\ BaseQtyOf(is[i].lines, k) = QuantityOf(is[i].lines, k)
  BY PlainQuantities DEF IssuesWell, IssueTyped, IssuesFit

LEMMA DraftsFinite ==
  ASSUME NEW is, IssuesWell(is)
  PROVE  IsFiniteSet(Drafts(is)) /\ IsFiniteSet(Ended(is))
<1>1. Drafts(is) \subseteq Started(is) /\ Ended(is) \subseteq Started(is)
  BY DEF Drafts, Ended, Started
<1> QED BY <1>1, FS_Subset DEF IssuesWell, IssuesFit

LEMMA PendingHas ==
  ASSUME NEW is, IssuesWell(is), NEW k
  PROVE  /\ PendingIn(is, k) \in Nat
         /\ \A i \in Drafts(is) : QuantityOf(is[i].lines, k) <= PendingIn(is, k)
<1> DEFINE q == [i \in Drafts(is) |-> QuantityOf(is[i].lines, k)]
<1>1. \A i \in Drafts(is) : q[i] = QuantityOf(is[i].lines, k) /\ q[i] \in Nat
  BY AskedType DEF Drafts
<1>2. PendingIn(is, k) = SumFunctionOnSet(q, Drafts(is))
  BY DEF PendingIn, SumFunction
<1>3. IsFiniteSet(Drafts(is))
  BY DraftsFinite
<1> HIDE DEF q
<1>4. SumFunctionOnSet(q, Drafts(is)) \in Nat
  BY <1>1, <1>3, SumNat
<1>5. ASSUME NEW i \in Drafts(is)
      PROVE  q[i] <= SumFunctionOnSet(q, Drafts(is))
  <2>1. {i} \subseteq Drafts(is) /\ \A j \in Drafts(is) : q[j] \in Nat
    BY <1>1
  <2>2. SumFunctionOnSet(q, {i}) <= SumFunctionOnSet(q, Drafts(is))
    BY <1>3, <2>1, SumGrows
  <2>3. q[i] \in Int
    BY <1>1
  <2> QED BY <2>2, <2>3, SumOfOne
<1> QED BY <1>1, <1>2, <1>4, <1>5

(* One issue that becomes a draft adds what it asks for ... *)
LEMMA PendingAdd ==
  ASSUME NEW is, IssuesWell(is), NEW js, IssuesWell(js), NEW i \in IssueIds,
         is[i].status # "DRAFT", js[i].status = "DRAFT",
         \A j \in IssueIds : j # i => js[j] = is[j], NEW k
  PROVE  PendingIn(js, k) = PendingIn(is, k) + QuantityOf(js[i].lines, k)
<1> DEFINE q == [j \in Drafts(is) |-> QuantityOf(is[j].lines, k)]
           u == [j \in Drafts(js) |-> QuantityOf(js[j].lines, k)]
<1>1. Drafts(js) = Drafts(is) \cup {i} /\ i \notin Drafts(is)
  BY DEF Drafts
<1>2. /\ \A j \in Drafts(is) : q[j] = u[j]
      /\ u[i] = QuantityOf(js[i].lines, k)
  BY <1>1 DEF Drafts
<1>3. \A j \in Drafts(is) \cup {i} : u[j] \in Int
  BY <1>1, AskedType DEF Drafts
<1>4. PendingIn(is, k) = SumFunctionOnSet(q, Drafts(is)) /\ PendingIn(js, k) = SumFunctionOnSet(u, Drafts(js))
  BY DEF PendingIn, SumFunction
<1>5. IsFiniteSet(Drafts(is))
  BY DraftsFinite
<1> HIDE DEF q, u
<1>6. SumFunctionOnSet(u, Drafts(is) \cup {i}) = u[i] + SumFunctionOnSet(u, Drafts(is))
  BY <1>1, <1>3, <1>5, SumAdd
<1>7. SumFunctionOnSet(q, Drafts(is)) = SumFunctionOnSet(u, Drafts(is))
  BY <1>2, <1>5, SumSame
<1>8. PendingIn(is, k) \in Nat /\ u[i] \in Int
  BY PendingHas, <1>3
<1> QED BY <1>1, <1>2, <1>4, <1>6, <1>7, <1>8

(* ... and one that is no draft any longer takes it away. *)
LEMMA PendingRemove ==
  ASSUME NEW is, IssuesWell(is), NEW js, IssuesWell(js), NEW i \in IssueIds,
         is[i].status = "DRAFT", js[i].status # "DRAFT",
         \A j \in IssueIds : j # i => js[j] = is[j], NEW k
  PROVE  PendingIn(js, k) = PendingIn(is, k) - QuantityOf(is[i].lines, k)
<1>1. \A j \in IssueIds : j # i => is[j] = js[j]
  OBVIOUS
<1>2. PendingIn(is, k) = PendingIn(js, k) + QuantityOf(is[i].lines, k)
  BY <1>1, PendingAdd
<1>3. PendingIn(js, k) \in Nat /\ QuantityOf(is[i].lines, k) \in Nat
  BY PendingHas, AskedType
<1> QED BY <1>2, <1>3

(* What the completed issues took: another one adds its quantity. *)
LEMMA IssuedType ==
  ASSUME NEW is, IssuesWell(is), NEW k
  PROVE  IssuedIn(is, k) \in Nat
<1> DEFINE q == [i \in Ended(is) |-> BaseQtyOf(is[i].lines, k)]
<1>1. \A i \in Ended(is) : q[i] \in Nat
  BY AskedType DEF Ended
<1>2. IssuedIn(is, k) = SumFunctionOnSet(q, Ended(is))
  BY DEF IssuedIn, SumFunction
<1>3. IsFiniteSet(Ended(is))
  BY DraftsFinite
<1> HIDE DEF q
<1> QED BY <1>1, <1>2, <1>3, SumNat

LEMMA IssuedAdd ==
  ASSUME NEW is, IssuesWell(is), NEW js, IssuesWell(js), NEW i \in IssueIds,
         is[i].status # "COMPLETED", js[i].status = "COMPLETED",
         \A j \in IssueIds : j # i => js[j] = is[j], NEW k
  PROVE  IssuedIn(js, k) = IssuedIn(is, k) + QuantityOf(js[i].lines, k)
<1> DEFINE q == [j \in Ended(is) |-> BaseQtyOf(is[j].lines, k)]
           u == [j \in Ended(js) |-> BaseQtyOf(js[j].lines, k)]
<1>1. Ended(js) = Ended(is) \cup {i} /\ i \notin Ended(is)
  BY DEF Ended
<1>2. /\ \A j \in Ended(is) : q[j] = u[j]
      /\ u[i] = BaseQtyOf(js[i].lines, k)
  BY <1>1 DEF Ended
<1>3. \A j \in Ended(is) \cup {i} : u[j] \in Int
  BY <1>1, AskedType DEF Ended
<1>4. IssuedIn(is, k) = SumFunctionOnSet(q, Ended(is)) /\ IssuedIn(js, k) = SumFunctionOnSet(u, Ended(js))
  BY DEF IssuedIn, SumFunction
<1>5. IsFiniteSet(Ended(is))
  BY DraftsFinite
<1> HIDE DEF q, u
<1>6. SumFunctionOnSet(u, Ended(is) \cup {i}) = u[i] + SumFunctionOnSet(u, Ended(is))
  BY <1>1, <1>3, <1>5, SumAdd
<1>7. SumFunctionOnSet(q, Ended(is)) = SumFunctionOnSet(u, Ended(is))
  BY <1>2, <1>5, SumSame
<1>8. IssuedIn(is, k) \in Nat /\ u[i] \in Int /\ u[i] = QuantityOf(js[i].lines, k)
  BY IssuedType, <1>2, <1>3, AskedType
<1> QED BY <1>1, <1>4, <1>6, <1>7, <1>8

LEMMA IssuedKept ==
  ASSUME NEW is, NEW js,
         \A i \in IssueIds : (is[i].status = "COMPLETED") <=> (js[i].status = "COMPLETED"),
         \A i \in IssueIds : is[i].status = "COMPLETED" => js[i] = is[i], NEW k
  PROVE  IssuedIn(js, k) = IssuedIn(is, k)
<1>1. Ended(js) = Ended(is)
  BY DEF Ended
<1>2. [i \in Ended(js) |-> BaseQtyOf(js[i].lines, k)] = [i \in Ended(is) |-> BaseQtyOf(is[i].lines, k)]
  BY <1>1 DEF Ended
<1> QED BY <1>2 DEF IssuedIn

(* What the lines of an order have shipped of a SKU. *)
LinesWell(lines) == lines \subseteq SOLine /\ IsFiniteSet(lines) /\ ById(lines)

LEMMA HavingFinite ==
  ASSUME NEW lines, LinesWell(lines), NEW k
  PROVE  IsFiniteSet(Having(lines, k)) /\ Having(lines, k) \subseteq SOLine
  BY FS_Subset DEF LinesWell, Having

LEMMA ShippedSum ==
  ASSUME NEW lines, LinesWell(lines), NEW k, NEW f, \A l \in lines : f[l] = l.shippedQty
  PROVE  /\ ShippedIn(lines, k) = SumFunctionOnSet(f, Having(lines, k))
         /\ ShippedIn(lines, k) \in Nat
<1> DEFINE g == [l \in Having(lines, k) |-> l.shippedQty]
<1>1. ShippedIn(lines, k) = SumFunctionOnSet(g, Having(lines, k))
  BY DEF ShippedIn, SumFunction
<1>2. \A l \in Having(lines, k) : g[l] = f[l] /\ g[l] \in Nat
  BY DEF Having, LinesWell, SOLine
<1> HIDE DEF g
<1> QED BY <1>1, <1>2, HavingFinite, SumSame, SumNat

(* A line that takes the place of another one of its SKU. *)
LEMMA ShippedReplaced ==
  ASSUME NEW lines, LinesWell(lines), NEW l \in lines, NEW c \in SOLine,
         c.id = l.id, c.sku = l.sku, NEW k
  PROVE  ShippedIn((lines \ {l}) \cup {c}, k) =
           IF k = l.sku THEN ShippedIn(lines, k) - l.shippedQty + c.shippedQty
           ELSE ShippedIn(lines, k)
<1> DEFINE rest == lines \ {l}
           new  == rest \cup {c}
           f    == [m \in lines \cup {c} |-> m.shippedQty]
<1>1. /\ LinesWell(rest) /\ LinesWell(new)
      /\ c \notin rest
  <2>1. IsFiniteSet(rest) /\ IsFiniteSet(new)
    <3>1. IsFiniteSet(rest)
      BY FS_RemoveElement DEF LinesWell
    <3> HIDE DEF rest
    <3> QED BY <3>1, FS_AddElement
  <2> QED BY <2>1 DEF LinesWell, ById
<1>2. \A m \in lines \cup {c} : f[m] = m.shippedQty /\ f[m] \in Int
  BY DEF LinesWell, SOLine
<1>3. /\ ShippedIn(lines, k) = SumFunctionOnSet(f, Having(lines, k))
      /\ ShippedIn(rest, k) = SumFunctionOnSet(f, Having(rest, k))
      /\ ShippedIn(new, k) = SumFunctionOnSet(f, Having(new, k))
      /\ ShippedIn(rest, k) \in Nat
  <2> HIDE DEF f
  <2> QED BY <1>1, <1>2, ShippedSum
<1>4. CASE k # l.sku
  <2>1. Having(new, k) = Having(lines, k)
    BY <1>4 DEF Having
  <2> QED BY <1>3, <1>4, <2>1
<1>5. CASE k = l.sku
  <2>1. /\ Having(new, k) = Having(rest, k) \cup {c}
        /\ Having(lines, k) = Having(rest, k) \cup {l}
        /\ c \notin Having(rest, k) /\ l \notin Having(rest, k)
    BY <1>1, <1>5 DEF Having
  <2>2. Having(rest, k) \subseteq lines
    BY DEF Having
  <2>3. IsFiniteSet(Having(rest, k))
    BY <1>1, HavingFinite
  <2> HIDE DEF f, new, rest
  <2>4. SumFunctionOnSet(f, Having(new, k)) = f[c] + SumFunctionOnSet(f, Having(rest, k))
    <3>1. \A m \in Having(rest, k) \cup {c} : f[m] \in Int
      BY <1>2, <2>2
    <3> QED BY <2>1, <2>3, <3>1, SumAdd
  <2>5. SumFunctionOnSet(f, Having(lines, k)) = f[l] + SumFunctionOnSet(f, Having(rest, k))
    <3>1. \A m \in Having(rest, k) \cup {l} : f[m] \in Int
      BY <1>2, <2>2
    <3> QED BY <2>1, <2>3, <3>1, SumAdd
  <2>6. ShippedIn(new, k) = c.shippedQty + ShippedIn(rest, k) /\ ShippedIn(lines, k) = l.shippedQty + ShippedIn(rest, k)
    BY <1>2, <1>3, <2>4, <2>5
  <2>7. c.shippedQty \in Nat /\ l.shippedQty \in Nat
    BY DEF SOLine, LinesWell
  <2> QED BY <1>3, <1>5, <2>6, <2>7 DEF new, rest
<1> QED BY <1>4, <1>5

(* A line that comes in has shipped nothing. *)
LEMMA ShippedAppended ==
  ASSUME NEW lines, NEW c, LinesWell(lines), LinesWell(lines \cup {c}), c \notin lines,
         c.shippedQty = 0, NEW k
  PROVE  ShippedIn(lines \cup {c}, k) = ShippedIn(lines, k)
<1> DEFINE new == lines \cup {c}
           f   == [m \in new |-> m.shippedQty]
<1>2. \A m \in new : f[m] = m.shippedQty /\ f[m] \in Int
  BY DEF LinesWell, SOLine
<1>3. /\ ShippedIn(lines, k) = SumFunctionOnSet(f, Having(lines, k))
      /\ ShippedIn(new, k) = SumFunctionOnSet(f, Having(new, k))
      /\ ShippedIn(lines, k) \in Nat
  <2> HIDE DEF f
  <2> QED BY <1>2, ShippedSum
<1>4. CASE k # c.sku
  <2>1. Having(new, k) = Having(lines, k)
    BY <1>4 DEF Having
  <2> QED BY <1>3, <2>1
<1>5. CASE k = c.sku
  <2>1. Having(new, k) = Having(lines, k) \cup {c} /\ c \notin Having(lines, k)
    BY <1>5 DEF Having
  <2>2. \A m \in Having(lines, k) \cup {c} : f[m] \in Int
    BY <1>2 DEF Having
  <2>3. IsFiniteSet(Having(lines, k))
    BY HavingFinite
  <2> HIDE DEF f, new
  <2>4. SumFunctionOnSet(f, Having(new, k)) = f[c] + SumFunctionOnSet(f, Having(lines, k))
    BY <2>1, <2>2, <2>3, SumAdd
  <2>5. f[c] = 0
    BY <1>2 DEF new
  <2> QED BY <1>3, <2>4, <2>5 DEF new
<1> QED BY <1>4, <1>5

(* If every line is within its quantity and one has room for more, so has  *)
(* the order.                                                              *)
LEMMA RoomInOrder ==
  ASSUME NEW lines, LinesWell(lines), \A l \in lines : l.shippedQty <= l.orderQty,
         NEW k, NEW q \in Nat,
         q = 0 \/ \E l \in lines : l.sku = k /\ l.shippedQty + q <= l.orderQty
  PROVE  ShippedIn(lines, k) + q <= OrderedIn(lines, k)
<1> DEFINE D == Having(lines, k)
           g == [l \in D |-> l]
           s == [l \in D |-> l.shippedQty]
           o == [l \in D |-> l.orderQty]
<1>1. ShippedIn(lines, k) = SumFunctionOnSet(s, D) /\ OrderedIn(lines, k) = SumFunctionOnSet(o, D)
  BY DEF ShippedIn, OrderedIn, SumFunction
<1>2. \A l \in D : /\ s[l] = l.shippedQty /\ o[l] = l.orderQty
                   /\ s[l] \in Nat /\ o[l] \in Nat /\ s[l] <= o[l]
  BY DEF Having, LinesWell, SOLine
<1>3. IsFiniteSet(D)
  BY HavingFinite
<1>4. g \in [D -> D] /\ \A l \in D : g[l] = l
  OBVIOUS
<1>5. SumFunctionOnSet(s, D) \in Nat /\ SumFunctionOnSet(o, D) \in Nat
  <2> HIDE DEF s, o, D
  <2> QED BY <1>2, <1>3, SumNat
<1>6. CASE q = 0
  <2>1. SumFunctionOnSet(s, D) <= SumFunctionOnSet(o, D)
    <3> HIDE DEF s, o, D, g
    <3>1. \A l \in D : s[l] \in Int /\ s[l] <= o[g[l]]
      BY <1>2, <1>4
    <3>2. \A l, m \in D : g[l] = g[m] => l = m
      BY <1>4
    <3> QED BY <1>2, <1>3, <1>4, <3>1, <3>2, SumBounded
  <2> QED BY <1>1, <1>5, <1>6, <2>1
<1>7. ASSUME NEW l \in lines, l.sku = k, l.shippedQty + q <= l.orderQty
      PROVE  ShippedIn(lines, k) + q <= OrderedIn(lines, k)
  <2> DEFINE t == [m \in D |-> IF m = l THEN m.shippedQty + q ELSE m.shippedQty]
  <2>1. l \in D
    BY <1>7 DEF Having
  <2>2. \A m \in D : t[m] \in Int /\ t[m] <= o[m]
    BY <1>2, <1>7
  <2>3. t[l] = s[l] + q /\ \A m \in D \ {l} : s[m] = t[m]
    BY <2>1
  <2> HIDE DEF s, o, t, D, g
  <2>4. SumFunctionOnSet(t, D) <= SumFunctionOnSet(o, D)
    <3>1. \A m \in D : t[m] \in Int /\ t[m] <= o[g[m]]
      BY <1>4, <2>2
    <3>2. \A m, n \in D : g[m] = g[n] => m = n
      BY <1>4
    <3> QED BY <1>2, <1>3, <1>4, <3>1, <3>2, SumBounded
  <2>5. SumFunctionOnSet(t, D) = SumFunctionOnSet(s, D) - s[l] + t[l]
    <3>1. \A m \in D : s[m] \in Int /\ t[m] \in Int
      BY <1>2, <2>2
    <3> QED BY <1>3, <2>1, <2>3, <3>1, SumChange
  <2>6. s[l] \in Nat
    BY <1>2, <2>1
  <2>7. SumFunctionOnSet(t, D) = SumFunctionOnSet(s, D) + q
    BY <1>5, <2>3, <2>5, <2>6
  <2> QED BY <1>1, <1>5, <2>4, <2>7
<1> QED BY <1>6, <1>7

--------------------------------------------------------------------------------
(* Steps that change the request only *)

AllInv == TypeInv /\ ShippingInv /\ SerialInv /\ AllocInv

LEMMA OneWorker ==
  ASSUME Orderly
  PROVE  /\ Workers = {Worker}
         /\ Serial /\ ~ Editing
  BY DEF Orderly, Worker, Serial, Editing

LEMMA Wells ==
  ASSUME TypeInv, AllocInv
  PROVE  IssuesWell(issue) /\ LinesWell(so.lines)
  BY DEF TypeInv, AllocInv, Fitting, IssuesWell, LinesWell, IssuesTyped, OrderTyped, Order

(* What the completion in flight has shipped is part of what drafts ask.   *)
LEMMA LeftType ==
  ASSUME NEW s, NEW is, NEW r, IssuesWell(is), RequestFits(s, is, r), NEW k
  PROVE  /\ ShippedBy(is, r, k) \in Nat /\ PendingIn(is, k) \in Nat
         /\ Left(is, r, k) \in Nat
<1>1. PendingIn(is, k) \in Nat
  BY PendingHas
<1>2. CASE r.pc \in ShippingPoints
  <2>1. r.issue \in Drafts(is)
    BY <1>2 DEF RequestFits, Drafts
  <2>2. QuantityOf(is[r.issue].lines, k) <= PendingIn(is, k)
    BY <2>1, PendingHas
  <2>3. QuantityOf(is[r.issue].lines, k) \in Nat
    BY <2>1, AskedType DEF Drafts
  <2> QED BY <1>1, <2>2, <2>3 DEF ShippedBy, Left
<1>3. CASE r.pc \notin ShippingPoints
  BY <1>1, <1>3 DEF ShippedBy, Left
<1> QED BY <1>2, <1>3

LEMMA RoomForLess ==
  ASSUME NEW s, s.lines \subseteq SOLine, NEW k, NEW q \in Nat, NEW n \in Nat, n <= q, Room(s, k, q)
  PROVE  Room(s, k, n)
<1>1. CASE q = 0
  BY <1>1 DEF Room
<1>2. CASE q # 0
  <2>1. PICK l \in s.lines : /\ l.sku = k
                             /\ l.shippedQty + q <= l.orderQty
                             /\ Live(s) => FirstOpen(l, s.lines, k)
    BY <1>2 DEF Room
  <2>2. l.shippedQty \in Nat /\ l.orderQty \in Nat
    BY <2>1 DEF SOLine
  <2>3. l.shippedQty + n <= l.orderQty
    BY <2>1, <2>2
  <2> QED BY <2>1, <2>3 DEF Room
<1> QED BY <1>1, <1>2

LEMMA RequestStep ==
  ASSUME AllInv, NEW n, req'[Worker] = n, UNCHANGED <<so, issue>>,
         RequestFits(so, issue, n),
         \A k \in Skus : /\ ShippedBy(issue, req[Worker], k) <= ShippedBy(issue, n, k)
                         /\ Live(so) => ShippedBy(issue, req[Worker], k) = ShippedBy(issue, n, k)
  PROVE  AllocInv'
<1> DEFINE r == req[Worker]
<1>1. Fitting(so, issue, r) /\ IssuesWell(issue) /\ so.lines \subseteq SOLine
  BY Wells DEF AllInv, AllocInv, LinesWell
<1>2. Covered(so, issue, n)
  <2> SUFFICES ASSUME so.status # "DELETED", NEW k \in Skus
               PROVE  Room(so, k, Left(issue, n, k))
    BY DEF Covered
  <2>1. Room(so, k, Left(issue, r, k))
    BY <1>1 DEF Fitting, Covered
  <2>2. /\ Left(issue, r, k) \in Nat /\ Left(issue, n, k) \in Nat
        /\ ShippedBy(issue, r, k) \in Nat /\ ShippedBy(issue, n, k) \in Nat /\ PendingIn(issue, k) \in Nat
    BY <1>1, LeftType DEF Fitting
  <2>3. Left(issue, n, k) <= Left(issue, r, k)
    BY <2>2 DEF Left
  <2> QED BY <1>1, <2>1, <2>2, <2>3, RoomForLess
<1>3. Recorded(so, issue, n)
  BY <1>1 DEF Fitting, Recorded
<1>4. Fitting(so, issue, n)
  BY <1>1, <1>2, <1>3 DEF Fitting
<1> QED BY <1>4 DEF AllocInv

(* A request that is not shipping makes room for another one that is not. *)
LEMMA QuietStep ==
  ASSUME AllInv, NEW n, req'[Worker] = n, UNCHANGED <<so, issue>>,
         RequestFits(so, issue, n),
         req[Worker].pc \notin ShippingPoints, n.pc \notin ShippingPoints
  PROVE  AllocInv'
<1>1. \A k \in Skus : ShippedBy(issue, req[Worker], k) = 0 /\ ShippedBy(issue, n, k) = 0
  BY DEF ShippedBy
<1> QED BY <1>1, RequestStep

LEMMA IdleFits ==
  ASSUME NEW s, NEW is
  PROVE  RequestFits(s, is, Idle) /\ Idle.pc \notin ShippingPoints
  BY DEF Idle, RequestFits, ShippingPoints, Plain

LEMMA NextRequest ==
  ASSUME Orderly, TypeInv, NEW p \in Workers, NEW n, Proceed(p, n) \/ Accept(p, n)
  PROVE  p = Worker /\ req'[Worker] = n
  BY OneWorker DEF Proceed, Accept, TypeInv, RequestsTyped

(* Endpoints of the order *)

LEMMA StoreStep ==
  ASSUME Orderly, AllInv, NEW p \in Workers, NEW n, OrderRequest(p, n),
         n.pc = "soWrite", n.doc = {}, StoreFits(so, n)
  PROVE  AllocInv'
<1>1. p = Worker /\ req'[Worker] = n
  BY NextRequest DEF OrderRequest, AllInv
<1>2. req[Worker].pc \notin ShippingPoints /\ n.pc \notin ShippingPoints
  BY <1>1 DEF OrderRequest, Accept, ShippingPoints
<1>3. RequestFits(so, issue, n)
  BY DEF RequestFits, ShippingPoints, Plain
<1> QED BY <1>1, <1>2, <1>3, QuietStep DEF OrderRequest

LEMMA StoreFields ==
  ASSUME NEW status, NEW change, NEW add
  PROVE  LET n == Store(status, change, add, {})
         IN  /\ n.pc = "soWrite" /\ n.doc = {} /\ n.drop = {}
             /\ n.status = status /\ n.change = change /\ n.add = add
  BY DEF Store, Idle

LEMMA NextNumIsNew ==
  ASSUME OrderTyped
  PROVE  NextNum \in Nat /\ \A l \in so.lines : l.num < NextNum
<1> DEFINE nums == {l.num : l \in so.lines}
           f == [l \in so.lines |-> l.num]
<1>1. \A l \in so.lines : l.num \in Nat
  BY DEF OrderTyped, Order, SOLine
<1>2. IsFiniteSet(nums)
  <2>1. IsFiniteSet({f[l] : l \in so.lines})
    <3> HIDE DEF f
    <3> QED BY FiniteImage DEF OrderTyped
  <2> QED BY <2>1
<1>3. IsFiniteSet(nums \cup {0}) /\ \A x \in nums \cup {0} : x \in Nat
  <2>1. \A x \in nums : x \in Nat
    BY <1>1
  <2> HIDE DEF nums
  <2> QED BY <1>2, <2>1, FS_AddElement
<1>4. Max(nums \cup {0}) \in Nat /\ \A x \in nums : x <= Max(nums \cup {0})
  <2> HIDE DEF nums
  <2> QED BY <1>3, MaxOfFinite
<1>5. \A l \in so.lines : l.num \in nums
  OBVIOUS
<1>6. NextNum = Max(nums \cup {0}) + 1
  BY DEF NextNum
<1> HIDE DEF nums
<1> QED BY <1>1, <1>4, <1>5, <1>6

LEMMA EndpointFits ==
  ASSUME Orderly, AllInv, NEW p \in Workers, OrderEndpoint(p)
  PROVE  AllocInv'
<1>l. \A l \in so.lines : l \in SOLine
  BY Wells DEF AllInv, LinesWell
<1>f. Found => so.status # "DELETED"
  BY DEF Found
<1>s. ASSUME NEW status, NEW change, NEW add, OrderRequest(p, Store(status, change, add, {})),
             \A n : n.status = status /\ n.change = change /\ n.add = add =>
                      Keeps(so, n) \/ Ends(so, n) \/ Raises(so, n) \/ Adds(so, n)
      PROVE  AllocInv'
  <2>1. PICK n : n = Store(status, change, add, {})
    OBVIOUS
  <2>2. /\ n.pc = "soWrite" /\ n.doc = {} /\ n.drop = {}
        /\ n.status = status /\ n.change = change /\ n.add = add
    BY <2>1, StoreFields
  <2>3. StoreFits(so, n)
    BY <1>s, <2>2 DEF StoreFits
  <2>4. OrderRequest(p, n)
    BY <1>s, <2>1
  <2> QED BY <2>2, <2>3, <2>4, StoreStep
<1>1. CASE Hold(p)
  <2>1. OrderRequest(p, Store("ON_HOLD", {}, {}, {})) /\ so.status = "OPEN"
    BY <1>1 DEF Hold, CanTransition, Transitions
  <2> QED BY <1>s, <2>1 DEF Keeps, Live
<1>2. CASE Release(p)
  <2>1. OrderRequest(p, Store("OPEN", {}, {}, {})) /\ so.status = "ON_HOLD"
    BY <1>2 DEF Release
  <2> QED BY <1>s, <2>1 DEF Keeps, Live
<1>3. CASE Touch(p)
  <2>1. PICK status : status = so.status
    OBVIOUS
  <2>2. OrderRequest(p, Store(status, {}, {}, {}))
    BY <1>3, <2>1 DEF Touch
  <2> QED BY <1>s, <2>1, <2>2 DEF Keeps
<1>4. ASSUME NEW status \in {"CLOSED", "CANCELLED"}, CanTransition(status), NEW change,
             OrderRequest(p, Store(status, change, {}, {})),
             \A c \in change : \E l \in so.lines : c = [l EXCEPT !.status = status]
      PROVE  AllocInv'
  <2>1. Live(so)
    BY <1>4 DEF Live, CanTransition, Transitions
  <2>2. ASSUME NEW c \in change
        PROVE  \E l \in so.lines :
                 /\ c.id = l.id /\ c.num = l.num /\ c.sku = l.sku
                 /\ c.orderQty = l.orderQty /\ c.shippedQty = l.shippedQty
    BY <1>l, <1>4 DEF SOLine
  <2> QED BY <1>s, <1>4, <2>1, <2>2 DEF Ends
<1>5. CASE Cancel(p)
  <2>1. PICK change : change = {[l EXCEPT !.status = "CANCELLED"] : l \in so.lines}
    OBVIOUS
  <2>2. OrderRequest(p, Store("CANCELLED", change, {}, {})) /\ CanTransition("CANCELLED")
    BY <1>5, <2>1 DEF Cancel
  <2> QED BY <1>4, <2>1, <2>2
<1>6. CASE Complete(p)
  <2>1. PICK change : change = {[l EXCEPT !.status = "CLOSED"] :
                                  l \in {m \in so.lines : m.status # "CANCELLED"}}
    OBVIOUS
  <2>2. OrderRequest(p, Store("CLOSED", change, {}, {})) /\ CanTransition("CLOSED")
    BY <1>6, <2>1 DEF Complete
  <2> QED BY <1>4, <2>1, <2>2
<1>7. CASE Remove(p)
  <2>1. PICK n : n = [Idle EXCEPT !.pc = "soDelete"]
    OBVIOUS
  <2>2. n.pc = "soDelete" /\ n.doc = {}
    BY <2>1 DEF Idle
  <2>3. req[p].pc = "idle" /\ Accept(p, n) /\ UNCHANGED <<so, issue>>
    BY <1>7, <2>1 DEF Remove, Accept
  <2>4. RequestFits(so, issue, n)
    BY <2>2 DEF RequestFits, ShippingPoints, Plain
  <2> QED BY <2>2, <2>3, <2>4, NextRequest, QuietStep DEF AllInv, ShippingPoints
<1>e. Editable /\ Found => Live(so)
  BY DEF Editable, Found, Live
<1>8. ASSUME NEW line \in NewLines, AddLine(p, line)
      PROVE  AllocInv'
  <2>1. PICK new : new = [line EXCEPT !.num = IF @ = 0 THEN NextNum ELSE @]
    OBVIOUS
  <2>2. line \in NewLine /\ line.num = 0
    BY ShippingAssumption DEF Orderly
  <2>3. new.num = NextNum
    BY <2>1, <2>2 DEF NewLine
  <2>4. \A l \in so.lines : l.num < new.num
    BY <2>3, NextNumIsNew DEF AllInv, TypeInv
  <2>5. PICK status : status = so.status
    OBVIOUS
  <2>6. OrderRequest(p, Store(status, {}, {new}, {})) /\ Live(so)
    BY <1>8, <1>e, <2>1, <2>5 DEF AddLine, OrderRequest
  <2> QED BY <1>s, <2>4, <2>5, <2>6 DEF Adds
<1>9. ASSUME NEW line \in so.lines, NEW qty \in Quantities, UpdateLine(p, line, qty)
      PROVE  AllocInv'
  <2>1. PICK status, change : status = so.status /\ change = {[line EXCEPT !.orderQty = qty]}
    OBVIOUS
  <2>2. OrderRequest(p, Store(status, change, {}, {})) /\ Live(so)
    BY <1>9, <1>e, <2>1 DEF UpdateLine, OrderRequest
  <2> QED BY <1>s, <2>1, <2>2 DEF Raises
<1>10. /\ ~ \E line : DeleteLine(p, line)
       /\ ~ \E a, b, c : UpdateWithLines(p, a, b, c)
       /\ PatchStatuses = {}
  BY DEF Orderly, DeleteLine, UpdateWithLines
<1> QED BY <1>1, <1>2, <1>3, <1>5, <1>6, <1>7, <1>8, <1>9, <1>10 DEF OrderEndpoint

--------------------------------------------------------------------------------
(* Steps of goods issues *)

LEMMA BeginIssueFits ==
  ASSUME Orderly, AllInv, NEW p \in Workers, NEW i \in IssueIds, NEW doc \in IssueDocs,
         BeginIssue(p, i, doc)
  PROVE  AllocInv'
<1>1. PICK s, n : s = so.lines /\ n = [Idle EXCEPT !.pc = "drafts", !.issue = i, !.doc = doc, !.seen = s]
  OBVIOUS
<1>2. n.pc = "drafts" /\ n.issue = i /\ n.doc = doc /\ n.seen = s
  BY <1>1 DEF Idle
<1>3. Accept(p, n) /\ UNCHANGED <<so, issue>> /\ issue[i].status = "NONE" /\ req[p].pc = "idle"
  BY <1>1 DEF BeginIssue, Accept
<1>4. RequestFits(so, issue, n)
  BY <1>1, <1>2, <1>3 DEF RequestFits, ShippingPoints, Orderly
<1> QED BY <1>2, <1>3, <1>4, NextRequest, QuietStep DEF AllInv, ShippingPoints

LEMMA ReadDraftsFits ==
  ASSUME Orderly, AllInv, NEW p \in Workers, ReadDrafts(p)
  PROVE  AllocInv'
<1>w. p = Worker /\ RequestFits(so, issue, req[p]) /\ req[p] \in Request
  BY OneWorker DEF AllInv, AllocInv, Fitting, TypeInv, RequestsTyped, RequestTyped
<1>1. req[p].pc = "drafts" /\ UNCHANGED <<so, issue>>
  BY DEF ReadDrafts
<1>2. CASE Fits(req[p].doc, req[p].seen)
  <2>1. PICK n : n = [req[p] EXCEPT !.pc = "insert", !.seen = {}]
    OBVIOUS
  <2>2. n.pc = "insert" /\ n.issue = req[p].issue /\ n.doc = req[p].doc
    BY <1>w, <2>1 DEF Request
  <2>3. FitsIn(issue, n.doc, so.lines)
    <3>1. req[p].seen = so.lines
      BY <1>w, <1>1 DEF RequestFits
    <3>2. \A k : Pending(k) = PendingIn(issue, k)
      BY DEF Pending, PendingIn, Drafts
    <3> QED BY <1>2, <2>2, <3>1, <3>2 DEF Fits, FitsIn, FirstOpen
  <2>4. RequestFits(so, issue, n)
    BY <1>w, <1>1, <2>2, <2>3 DEF RequestFits, ShippingPoints
  <2>5. Proceed(p, n)
    BY <1>2, <2>1 DEF ReadDrafts
  <2> QED BY <1>w, <1>1, <2>2, <2>4, <2>5, NextRequest, QuietStep DEF AllInv, ShippingPoints
<1>3. CASE ~ Fits(req[p].doc, req[p].seen)
  <2>1. Proceed(p, Idle)
    BY <1>3 DEF ReadDrafts, Answer
  <2> QED BY <1>w, <1>1, <2>1, IdleFits, NextRequest, QuietStep DEF AllInv, ShippingPoints
<1> QED BY <1>2, <1>3

(* The quantity check has left room for what the new draft asks for. *)
LEMMA InsertIssueFits ==
  ASSUME Orderly, AllInv, NEW p \in Workers, InsertIssue(p), TypeInv'
  PROVE  AllocInv'
<1> DEFINE r == req[p]
           i == r.issue
<1>w. p = Worker /\ RequestFits(so, issue, r) /\ RequestTyped(r)
  BY OneWorker DEF AllInv, AllocInv, Fitting, TypeInv, RequestsTyped
<1>1. /\ r.pc = "insert" /\ i \in IssueIds /\ issue[i].status = "NONE"
      /\ Plain(r.doc) /\ IssueLinesTyped(r.doc)
      /\ FitsIn(issue, r.doc, so.lines)
  BY <1>w DEF InsertIssue, RequestFits, RequestTyped
<1>2. IssuesWell(issue) /\ LinesWell(so.lines)
  BY Wells DEF AllInv
<1>3. /\ issue'[i].status = "DRAFT" /\ issue'[i].lines = r.doc
      /\ \A j \in IssueIds : j # i => issue'[j] = issue[j]
      /\ so' = so
  BY <1>1, <1>2 DEF InsertIssue, IssuesWell
<1>4. req'[Worker] = Idle
  BY NextRequest DEF InsertIssue, Answer, AllInv
<1>5. IssuesFit(issue')
  <2>1. Started(issue') = Started(issue) \cup {i}
    BY <1>1, <1>3 DEF Started
  <2>2. IsFiniteSet(Started(issue'))
    BY <1>2, <2>1, FS_AddElement DEF IssuesWell, IssuesFit
  <2> QED BY <1>1, <1>2, <1>3, <2>2 DEF IssuesFit, IssuesWell
<1>6. IssuesWell(issue')
  BY <1>5 DEF TypeInv, IssuesTyped, IssuesWell
<1>7. /\ \A k : ShippedBy(issue, r, k) = 0 /\ ShippedBy(issue', Idle, k) = 0
      /\ \A k : PendingIn(issue', k) = PendingIn(issue, k) + QuantityOf(r.doc, k)
      /\ \A k : IssuedIn(issue', k) = IssuedIn(issue, k)
  <2>1. \A k : ShippedBy(issue, r, k) = 0 /\ ShippedBy(issue', Idle, k) = 0
    BY <1>1 DEF ShippedBy, ShippingPoints, Idle
  <2>2. \A k : PendingIn(issue', k) = PendingIn(issue, k) + QuantityOf(r.doc, k)
    BY <1>1, <1>2, <1>3, <1>6, PendingAdd
  <2>3. \A k : IssuedIn(issue', k) = IssuedIn(issue, k)
    BY <1>1, <1>3, IssuedKept
  <2> QED BY <2>1, <2>2, <2>3
<1>8. Fitting(so, issue, r)
  BY <1>w DEF AllInv, AllocInv
<1>9. Covered(so, issue', Idle)
  <2> SUFFICES ASSUME so.status # "DELETED", NEW k \in Skus
               PROVE  Room(so, k, Left(issue', Idle, k))
    BY DEF Covered
  <2>p. PendingIn(issue, k) \in Nat /\ PendingIn(issue', k) \in Nat
    BY <1>2, <1>6, PendingHas
  <2>1. Room(so, k, Left(issue, r, k))
    BY <1>8 DEF Fitting, Covered
  <2>2. Left(issue, r, k) = PendingIn(issue, k) /\ Left(issue', Idle, k) = PendingIn(issue', k)
    BY <1>7, <2>p DEF Left
  <2>3. ASSUME NEW x \in r.doc, x.sku = k
        PROVE  Room(so, k, PendingIn(issue', k))
    <3>1. PICK l \in so.lines : /\ FirstOpen(l, so.lines, x.sku)
                                /\ x.quantity + PendingIn(issue, x.sku) + l.shippedQty <= l.orderQty
      BY <1>1 DEF FitsIn
    <3>2. l.sku = k
      BY <2>3, <3>1 DEF FirstOpen, First, OpenLines
    <3>3. QuantityOf(r.doc, k) = x.quantity /\ x.quantity \in Nat
      BY <1>1, <2>3, PlainQuantities
    <3>4. l.shippedQty \in Nat /\ l.orderQty \in Nat
      BY <1>2 DEF LinesWell, SOLine
    <3>5. l.shippedQty + PendingIn(issue', k) <= l.orderQty
      BY <1>7, <2>3, <2>p, <3>1, <3>3, <3>4
    <3> QED BY <2>3, <3>1, <3>2, <3>5 DEF Room
  <2>4. CASE \A x \in r.doc : x.sku # k
    <3>1. PendingIn(issue', k) = PendingIn(issue, k)
      BY <1>1, <1>7, <2>4, <2>p, PlainQuantities
    <3> QED BY <2>1, <2>2, <3>1
  <2> QED BY <2>2, <2>3, <2>4
<1>10. Recorded(so, issue', Idle)
  BY <1>7, <1>8 DEF Fitting, Recorded
<1>11. Fitting(so, issue', Idle)
  BY <1>5, <1>8, <1>9, <1>10, IdleFits DEF Fitting
<1> QED BY <1>3, <1>4, <1>11 DEF AllocInv

(* A draft that is cancelled, deleted or diverted only makes room. *)
LEMMA DraftClosed ==
  ASSUME Orderly, AllInv, NEW i \in IssueIds, NEW new, DraftRequest(i, new), TypeInv',
         new.status \in {"CANCELLED", "DELETED", "ELSEWHERE"}, Plain(new.lines)
  PROVE  AllocInv'
<1> DEFINE r == req[Worker]
<1>2. IssuesWell(issue) /\ LinesWell(so.lines) /\ Fitting(so, issue, r)
  BY Wells DEF AllInv, AllocInv
<1>3. /\ issue'[i] = new /\ issue[i].status = "DRAFT"
      /\ \A j \in IssueIds : j # i => issue'[j] = issue[j]
      /\ so' = so /\ req' = req
  BY <1>2 DEF DraftRequest, IssueRequest, IssuesWell
<1>4. r.issue # i
  BY OneWorker DEF DraftRequest, Free, Orderly
<1>5. IssuesFit(issue')
  <2>1. Started(issue') = Started(issue)
    BY <1>3 DEF Started
  <2> QED BY <1>2, <1>3, <2>1 DEF IssuesFit, IssuesWell
<1>6. IssuesWell(issue')
  BY <1>5 DEF TypeInv, IssuesTyped, IssuesWell
<1>7. ASSUME NEW k
      PROVE  /\ PendingIn(issue', k) = PendingIn(issue, k) - QuantityOf(issue[i].lines, k)
             /\ QuantityOf(issue[i].lines, k) \in Nat
             /\ PendingIn(issue, k) \in Nat /\ PendingIn(issue', k) \in Nat
             /\ PendingIn(issue', k) <= PendingIn(issue, k)
             /\ IssuedIn(issue', k) = IssuedIn(issue, k)
  <2>1. PendingIn(issue', k) = PendingIn(issue, k) - QuantityOf(issue[i].lines, k)
    BY <1>2, <1>3, <1>6, PendingRemove
  <2>2. /\ QuantityOf(issue[i].lines, k) \in Nat
        /\ PendingIn(issue, k) \in Nat /\ PendingIn(issue', k) \in Nat
    BY <1>2, <1>6, PendingHas, AskedType
  <2>3. IssuedIn(issue', k) = IssuedIn(issue, k)
    BY <1>3, IssuedKept
  <2> QED BY <2>1, <2>2, <2>3
<1>8. RequestFits(so, issue', r)
  <2>1. RequestFits(so, issue, r)
    BY <1>2 DEF Fitting
  <2>2. r.issue \in IssueIds => issue'[r.issue] = issue[r.issue]
    BY <1>3, <1>4
  <2>3. FitsIn(issue, r.doc, so.lines) /\ r.pc = "insert" => FitsIn(issue', r.doc, so.lines)
    <3> SUFFICES ASSUME FitsIn(issue, r.doc, so.lines), NEW x \in r.doc
                 PROVE  \E l \in so.lines :
                          /\ FirstOpen(l, so.lines, x.sku)
                          /\ x.quantity + PendingIn(issue', x.sku) + l.shippedQty <= l.orderQty
      BY DEF FitsIn
    <3>1. PICK l \in so.lines : /\ FirstOpen(l, so.lines, x.sku)
                                /\ x.quantity + PendingIn(issue, x.sku) + l.shippedQty <= l.orderQty
      BY DEF FitsIn
    <3>2. x.quantity \in Nat
      <4>1. RequestTyped(r)
        BY OneWorker DEF AllInv, TypeInv, RequestsTyped
      <4> QED BY <4>1 DEF RequestTyped, IssueLinesTyped, IssueLine
    <3>3. l.shippedQty \in Nat /\ l.orderQty \in Nat
      BY <1>2 DEF LinesWell, SOLine
    <3>4. /\ PendingIn(issue, x.sku) \in Nat /\ PendingIn(issue', x.sku) \in Nat
          /\ PendingIn(issue', x.sku) <= PendingIn(issue, x.sku)
      BY <1>7
    <3>5. x.quantity + PendingIn(issue', x.sku) + l.shippedQty <= l.orderQty
      BY <3>1, <3>2, <3>3, <3>4
    <3> QED BY <3>1, <3>5
  <2>4. r.pc \in {"shipRead", "shipWrite"} /\ Live(so) => TodoFits(so, issue', r)
    <3>1. r.pc \in {"shipRead", "shipWrite"} => r.issue \in IssueIds
      BY <2>1 DEF RequestFits, ShippingPoints
    <3> QED BY <2>1, <2>2, <3>1 DEF RequestFits, TodoFits
  <2>5. r.pc \in {"drafts", "insert", "order"} \cup ShippingPoints => r.issue \in IssueIds
    BY <2>1 DEF RequestFits
  <2> HIDE DEF r
  <2> QED BY <2>1, <2>2, <2>3, <2>4, <2>5 DEF RequestFits
<1>9. \A k : ShippedBy(issue', r, k) = ShippedBy(issue, r, k)
  <2>1. r.pc \in ShippingPoints => issue'[r.issue] = issue[r.issue]
    BY <1>2, <1>3, <1>4 DEF Fitting, RequestFits
  <2> QED BY <2>1 DEF ShippedBy, Awaits
<1>10. Covered(so, issue', r)
  <2> SUFFICES ASSUME so.status # "DELETED", NEW k \in Skus
               PROVE  Room(so, k, Left(issue', r, k))
    BY DEF Covered
  <2>1. Room(so, k, Left(issue, r, k))
    BY <1>2 DEF Fitting, Covered
  <2>2. /\ Left(issue, r, k) \in Nat /\ ShippedBy(issue, r, k) \in Nat
        /\ Left(issue', r, k) \in Nat
    BY <1>2, <1>6, <1>8, LeftType DEF Fitting
  <2>3. Left(issue', r, k) <= Left(issue, r, k)
    BY <1>7, <1>9, <2>2 DEF Left
  <2>4. so.lines \subseteq SOLine
    BY <1>2 DEF LinesWell
  <2> QED BY <2>1, <2>2, <2>3, <2>4, RoomForLess
<1>11. Recorded(so, issue', r)
  BY <1>2, <1>7, <1>9 DEF Fitting, Recorded
<1>12. Fitting(so, issue', r)
  BY <1>2, <1>5, <1>8, <1>10, <1>11 DEF Fitting
<1> QED BY <1>3, <1>12 DEF AllocInv

LEMMA IssueEndpointFits ==
  ASSUME Orderly, AllInv, NEW i \in IssueIds, IssueEndpoint(i), TypeInv'
  PROVE  AllocInv'
<1>1. IssuesWell(issue)
  BY Wells DEF AllInv
<1>2. CASE CancelIssue(i)
  <2>1. PICK new : new = [issue[i] EXCEPT !.status = "CANCELLED"]
    OBVIOUS
  <2>2. new.status = "CANCELLED" /\ Plain(new.lines)
    BY <1>1, <2>1 DEF IssuesWell, IssueTyped, Issue, IssuesFit
  <2>3. DraftRequest(i, new)
    BY <1>2, <2>1 DEF CancelIssue
  <2> QED BY <2>2, <2>3, DraftClosed
<1>3. CASE RemoveIssue(i)
  <2>1. PICK new : new = [status |-> "DELETED", lines |-> {}]
    OBVIOUS
  <2>2. new.status = "DELETED" /\ Plain(new.lines)
    BY <2>1 DEF Plain
  <2>3. DraftRequest(i, new)
    BY <1>3, <2>1 DEF RemoveIssue
  <2> QED BY <2>2, <2>3, DraftClosed
<1>4. CASE DivertIssue(i)
  <2>1. PICK new : new = [issue[i] EXCEPT !.status = "ELSEWHERE"]
    OBVIOUS
  <2>2. new.status = "ELSEWHERE" /\ Plain(new.lines)
    BY <1>1, <2>1 DEF IssuesWell, IssueTyped, Issue, IssuesFit
  <2>3. DraftRequest(i, new)
    BY <1>4, <2>1 DEF DivertIssue
  <2> QED BY <2>2, <2>3, DraftClosed
<1>5. /\ ~ \E line : AddIssueLine(i, line) \/ RemoveIssueLine(i, line)
      /\ ~ (\E doc : ReferIssue(i, doc)) /\ ~ RedirectIssue(i)
  BY DEF Orderly, AddIssueLine, RemoveIssueLine, ReferIssue, RedirectIssue
<1> QED BY <1>2, <1>3, <1>4, <1>5 DEF IssueEndpoint

(* A completion ends: what it shipped it shipped for a completed issue. *)
LEMMA SaveIssueFits ==
  ASSUME Orderly, AllInv, NEW p \in Workers, SaveIssue(p), TypeInv'
  PROVE  AllocInv'
<1> DEFINE r == req[p]
           i == r.issue
<1>w. p = Worker /\ RequestFits(so, issue, r)
  BY OneWorker DEF AllInv, AllocInv, Fitting
<1>1. r.pc = "saveIssue" /\ i \in IssueIds /\ issue[i].status = "DRAFT" /\ r.todo = {}
  BY <1>w DEF SaveIssue, RequestFits, ShippingPoints
<1>2. IssuesWell(issue) /\ LinesWell(so.lines) /\ Fitting(so, issue, r)
  BY <1>w, Wells DEF AllInv, AllocInv
<1>3. /\ issue'[i].status = "COMPLETED" /\ issue'[i].lines = issue[i].lines
      /\ \A j \in IssueIds : j # i => issue'[j] = issue[j]
      /\ so' = so
  BY <1>1, <1>2 DEF SaveIssue, IssuesWell, IssueTyped, Issue
<1>4. req'[Worker] = Idle
  BY NextRequest DEF SaveIssue, Answer, AllInv
<1>5. IssuesFit(issue')
  <2>1. Started(issue') = Started(issue)
    BY <1>1, <1>3 DEF Started
  <2> QED BY <1>2, <1>3, <2>1 DEF IssuesFit, IssuesWell
<1>6. IssuesWell(issue')
  BY <1>5 DEF TypeInv, IssuesTyped, IssuesWell
<1>7. ASSUME NEW k
      PROVE  /\ Left(issue', Idle, k) = Left(issue, r, k)
             /\ IssuedIn(issue', k) + ShippedBy(issue', Idle, k) =
                  IssuedIn(issue, k) + ShippedBy(issue, r, k)
  <2> DEFINE q == QuantityOf(issue[i].lines, k)
  <2>1. PendingIn(issue', k) = PendingIn(issue, k) - q
    BY <1>1, <1>2, <1>3, <1>6, PendingRemove
  <2>2. IssuedIn(issue', k) = IssuedIn(issue, k) + q
    BY <1>1, <1>2, <1>3, <1>6, IssuedAdd
  <2>3. ShippedBy(issue, r, k) = q /\ ShippedBy(issue', Idle, k) = 0
    BY <1>1 DEF ShippedBy, Awaits, ShippingPoints, Idle
  <2>4. q \in Nat /\ PendingIn(issue, k) \in Nat /\ IssuedIn(issue, k) \in Nat
    BY <1>1, <1>2, PendingHas, AskedType, IssuedType
  <2> HIDE DEF q
  <2> QED BY <2>1, <2>2, <2>3, <2>4 DEF Left
<1>8. Covered(so, issue', Idle)
  BY <1>2, <1>7 DEF Fitting, Covered
<1>9. Recorded(so, issue', Idle)
  BY <1>2, <1>7 DEF Fitting, Recorded
<1>10. Fitting(so, issue', Idle)
  BY <1>2, <1>5, <1>8, <1>9, IdleFits DEF Fitting
<1> QED BY <1>3, <1>4, <1>10 DEF AllocInv

--------------------------------------------------------------------------------
(* Steps of a completion *)

LEMMA BeginCompletionFits ==
  ASSUME Orderly, AllInv, NEW p \in Workers, NEW i \in IssueIds, BeginCompletion(p, i)
  PROVE  AllocInv'
<1>1. PICK s, n : s = issue[i].lines /\ n = [Idle EXCEPT !.pc = "order", !.issue = i, !.doc = s]
  OBVIOUS
<1>2. n.pc = "order" /\ n.issue = i /\ n.doc = s /\ n.add = {} /\ n.drop = {}
  BY <1>1 DEF Idle
<1>3. Accept(p, n) /\ UNCHANGED <<so, issue>> /\ issue[i].status = "DRAFT" /\ req[p].pc = "idle"
  BY <1>1 DEF BeginCompletion, Accept
<1>4. Plain(s)
  BY <1>1, Wells DEF AllInv, IssuesWell, IssuesFit
<1>5. RequestFits(so, issue, n)
  BY <1>1, <1>2, <1>3, <1>4 DEF RequestFits, ShippingPoints
<1> QED BY <1>2, <1>3, <1>5, NextRequest, QuietStep DEF AllInv, ShippingPoints

LEMMA ShippingFields ==
  ASSUME NEW r \in Request, NEW todo
  PROVE  LET n == Shipping(r, todo)
         IN  /\ n.pc = IF todo = {} THEN "saveIssue" ELSE "shipRead"
             /\ n.issue = r.issue /\ n.todo = todo /\ n.doc = {}
             /\ n.add = r.add /\ n.drop = r.drop
  BY DEF Shipping, Request

(* A completion gives up when the order is final or gone, and only then. *)
LEMMA GiveUpFits ==
  ASSUME Orderly, AllInv, NEW p \in Workers, Proceed(p, GiveUp(req[p])), UNCHANGED <<so, issue>>,
         req[p].pc \in {"order", "shipRead", "shipWrite"}, ~ Live(so)
  PROVE  AllocInv'
<1> DEFINE r == req[p]
<1>w. p = Worker /\ RequestFits(so, issue, r) /\ r \in Request
  BY OneWorker DEF AllInv, AllocInv, Fitting, TypeInv, RequestsTyped, RequestTyped
<1>1. PICK n : n = GiveUp(r)
  OBVIOUS
<1>2. n.pc = "saveIssue" /\ n.issue = r.issue /\ n.todo = {} /\ n.doc = {} /\ n.add = r.add /\ n.drop = r.drop
  BY <1>1, <1>w, ShippingFields DEF GiveUp
<1>3. RequestFits(so, issue, n)
  BY <1>w, <1>2 DEF RequestFits, Plain, ShippingPoints
<1>4. IssuesWell(issue)
  BY Wells DEF AllInv
<1>5. ASSUME NEW k
      PROVE  ShippedBy(issue, r, k) <= ShippedBy(issue, n, k)
  <2>1. ShippedBy(issue, n, k) = QuantityOf(issue[r.issue].lines, k)
    BY <1>2 DEF ShippedBy, ShippingPoints, Awaits
  <2>2. QuantityOf(issue[r.issue].lines, k) \in Nat
    BY <1>w, <1>4, AskedType DEF RequestFits, ShippingPoints
  <2> QED BY <2>1, <2>2 DEF ShippedBy
<1>6. req'[Worker] = n
  BY <1>1, NextRequest DEF AllInv
<1> QED BY <1>w, <1>3, <1>5, <1>6, RequestStep

(* As long as the order is not final, what is left to ship of a SKU finds  *)
(* room in the first open line.                                            *)
LEMMA NextLine ==
  ASSUME AllInv, Live(so), NEW k \in Skus, Left(issue, req[Worker], k) # 0
  PROVE  \E l \in so.lines :
           /\ l.sku = k /\ FirstOpen(l, so.lines, k)
           /\ l.shippedQty + Left(issue, req[Worker], k) <= l.orderQty
<1>1. Covered(so, issue, req[Worker])
  BY DEF AllInv, AllocInv, Fitting
<1>2. so.status # "DELETED"
  BY DEF Live
<1>3. Room(so, k, Left(issue, req[Worker], k))
  BY <1>1, <1>2 DEF Covered
<1> QED BY <1>3 DEF Room

LEMMA OneFirstOpen ==
  ASSUME NEW lines, LinesWell(lines), ByNum(lines), NEW l, NEW m, NEW k,
         FirstOpen(l, lines, k), FirstOpen(m, lines, k)
  PROVE  l = m
<1>1. l \in lines /\ m \in lines /\ l.num <= m.num /\ m.num <= l.num
  BY DEF FirstOpen, First, OpenLines
<1>2. l.num \in Nat /\ m.num \in Nat
  BY <1>1 DEF LinesWell, SOLine
<1>3. l.num = m.num
  BY <1>1, <1>2
<1> QED BY <1>1, <1>3 DEF ByNum

(* A line of the issue that is still to be shipped. *)
LEMMA AwaitedLine ==
  ASSUME AllInv, Live(so), req[Worker].pc \in {"order"} \cup ShippingPoints,
         NEW x \in issue[req[Worker].issue].lines,
         ShippedBy(issue, req[Worker], x.sku) = 0
  PROVE  /\ x.sku \in Skus
         /\ x.baseQty \in Nat /\ x.baseQty > 0
         /\ QuantityOf(issue[req[Worker].issue].lines, x.sku) = x.baseQty
         /\ x.baseQty <= Left(issue, req[Worker], x.sku)
<1> DEFINE i == req[Worker].issue
<1>1. IssuesWell(issue) /\ i \in IssueIds /\ issue[i].status = "DRAFT"
  BY Wells DEF AllInv, AllocInv, Fitting, RequestFits
<1>2. IssueLinesTyped(issue[i].lines) /\ Plain(issue[i].lines)
  BY <1>1 DEF IssuesWell, IssueTyped, IssuesFit
<1>3. x.sku \in Skus /\ x.baseQty \in Nat /\ x.baseQty > 0 /\ x.quantity = x.baseQty
  BY <1>2 DEF IssueLinesTyped, IssueLine, Plain
<1>4. QuantityOf(issue[i].lines, x.sku) = x.baseQty
  BY <1>2, <1>3, PlainQuantities
<1>5. x.baseQty <= PendingIn(issue, x.sku) /\ PendingIn(issue, x.sku) \in Nat
  BY <1>1, <1>4, PendingHas DEF Drafts
<1> QED BY <1>3, <1>4, <1>5 DEF Left

LEMMA TargetIsFirst ==
  ASSUME AllInv, Live(so), NEW k, NEW l, FirstOpen(l, so.lines, k)
  PROVE  NotClosed(k) # {} /\ Min({m.num : m \in NotClosed(k)}) = l.num
<1> DEFINE nums == {m.num : m \in NotClosed(k)}
<1>1. so.lines \subseteq SOLine /\ \A m \in so.lines : m.status # "CANCELLED"
  BY Wells DEF AllInv, AllocInv, Fitting, LinesFit, LinesWell
<1>2. NotClosed(k) = OpenLines(so.lines, k)
  BY <1>1 DEF NotClosed, OpenLines, SOLine, LineStatuses
<1>3. l \in NotClosed(k) /\ \A m \in NotClosed(k) : l.num <= m.num
  BY <1>2 DEF FirstOpen, First
<1>4. nums \subseteq Nat
  BY <1>1 DEF NotClosed, SOLine
<1>5. l.num \in nums /\ \A n \in nums : l.num <= n
  BY <1>3
<1>6. Min(nums) \in nums /\ \A n \in nums : Min(nums) <= n
  <2> HIDE DEF nums
  <2> QED BY <1>4, <1>5, MinOfNat
<1>7. Min(nums) = l.num
  <2>1. PICK y, z : y = Min(nums) /\ z = l.num
    OBVIOUS
  <2> HIDE DEF nums
  <2>2. y \in nums /\ z \in nums /\ y <= z /\ z <= y
    BY <1>5, <1>6, <2>1
  <2>3. y \in Nat /\ z \in Nat
    BY <1>4, <2>2
  <2> QED BY <2>1, <2>2, <2>3
<1> QED BY <1>3, <1>7

LEMMA ReadOrderFits ==
  ASSUME Orderly, AllInv, NEW p \in Workers, ReadOrder(p)
  PROVE  AllocInv'
<1> DEFINE r == req[p]
           lines == issue[r.issue].lines
<1>w. p = Worker /\ RequestFits(so, issue, r) /\ r \in Request
  BY OneWorker DEF AllInv, AllocInv, Fitting, TypeInv, RequestsTyped, RequestTyped
<1>1. /\ r.pc = "order" /\ UNCHANGED <<so, issue>> /\ r.doc = lines
      /\ r.issue \in IssueIds /\ issue[r.issue].status = "DRAFT" /\ r.add = {} /\ r.drop = {}
  BY <1>w DEF ReadOrder, RequestFits
<1>2. CASE Found
  <2>1. PICK n : n = Shipping(r, Targets(lines))
    OBVIOUS
  <2>2. req'[Worker] = n
    BY <1>1, <1>2, <2>1, NextRequest DEF ReadOrder, AllInv
  <2>3. /\ n.pc = IF Targets(lines) = {} THEN "saveIssue" ELSE "shipRead"
        /\ n.issue = r.issue /\ n.todo = Targets(lines) /\ n.doc = {}
        /\ n.add = {} /\ n.drop = {}
    BY <1>w, <1>1, <2>1, ShippingFields
  <2>4. ASSUME Live(so), NEW x \in lines
        PROVE  \E l \in so.lines : /\ FirstOpen(l, so.lines, x.sku)
                                   /\ NotClosed(x.sku) # {}
                                   /\ Min({m.num : m \in NotClosed(x.sku)}) = l.num
    <3>1. ShippedBy(issue, r, x.sku) = 0
      BY <1>1 DEF ShippedBy, ShippingPoints
    <3>2. x.sku \in Skus /\ Left(issue, r, x.sku) # 0
      <4>1. x.sku \in Skus /\ x.baseQty \in Nat /\ x.baseQty > 0 /\ x.baseQty <= Left(issue, r, x.sku)
        BY <1>w, <1>1, <2>4, <3>1, AwaitedLine
      <4> QED BY <4>1
    <3>3. PICK l \in so.lines : FirstOpen(l, so.lines, x.sku)
      BY <1>w, <2>4, <3>2, NextLine
    <3> QED BY <2>4, <3>3, TargetIsFirst
  <2>5. Live(so) => TodoFits(so, issue, n)
    <3> SUFFICES ASSUME Live(so), NEW t \in Targets(lines)
                 PROVE  \E x \in lines :
                          /\ x.num = t.num /\ x.baseQty = t.qty
                          /\ \E l \in so.lines : l.num = t.at /\ FirstOpen(l, so.lines, x.sku)
      BY <2>3 DEF TodoFits
    <3>1. PICK x \in lines :
            t = [num |-> x.num, at |-> Min({l.num : l \in NotClosed(x.sku)}), qty |-> x.baseQty]
      BY DEF Targets
    <3>2. t.num = x.num /\ t.at = Min({l.num : l \in NotClosed(x.sku)}) /\ t.qty = x.baseQty
      BY <3>1
    <3> QED BY <2>4, <3>2
  <2>6. RequestFits(so, issue, n)
    BY <1>1, <2>3, <2>5 DEF RequestFits, Plain, ShippingPoints
  <2>7. IssuesWell(issue)
    BY Wells DEF AllInv
  <2>8. ASSUME NEW k \in Skus
        PROVE  /\ ShippedBy(issue, r, k) <= ShippedBy(issue, n, k)
               /\ Live(so) => ShippedBy(issue, r, k) = ShippedBy(issue, n, k)
    <3>1. ShippedBy(issue, r, k) = 0
      BY <1>1 DEF ShippedBy, ShippingPoints
    <3>2. ShippedBy(issue, n, k) \in Nat
      BY <2>6, <2>7, LeftType
    <3>3. ASSUME Live(so)
          PROVE  ShippedBy(issue, n, k) = 0
      <4>1. CASE \E x \in lines : x.sku = k
        <5>1. PICK x \in lines : x.sku = k
          BY <4>1
        <5>2. PICK t : t = [num |-> x.num, at |-> Min({l.num : l \in NotClosed(x.sku)}),
                            qty |-> x.baseQty]
          OBVIOUS
        <5>3. t \in Targets(lines) /\ t.num = x.num
          BY <2>4, <3>3, <5>2 DEF Targets
        <5>4. Awaits(issue, n, k)
          BY <2>3, <5>1, <5>3 DEF Awaits
        <5> QED BY <5>4 DEF ShippedBy
      <4>2. CASE \A x \in lines : x.sku # k
        <5>1. IssueLinesTyped(lines) /\ Plain(lines)
          BY <1>1, <2>7 DEF IssuesWell, IssueTyped, IssuesFit
        <5>2. QuantityOf(lines, k) = 0
          BY <4>2, <5>1, PlainQuantities
        <5> QED BY <2>3, <5>2 DEF ShippedBy
      <4> QED BY <4>1, <4>2
    <3> QED BY <3>1, <3>2, <3>3
  <2> HIDE DEF r
  <2> QED BY <1>w, <1>1, <2>2, <2>6, <2>8, RequestStep DEF r
<1>3. CASE ~ Found
  <2>1. ~ Live(so) /\ Proceed(p, GiveUp(req[p]))
    BY <1>3 DEF Live, Found, ReadOrder
  <2> QED BY <1>1, <2>1, GiveUpFits
<1> QED BY <1>2, <1>3

(* Only a line of an order that is not final can be shipped. *)
LEMMA ShippableIsLive ==
  ASSUME Orderly, AllInv, NEW l \in so.lines, NEW qty, Shippable(l, qty)
  PROVE  Live(so)
<1>1. so.status = "DELETED" => so.lines = {}
  BY DEF AllInv, TypeInv, OrderTyped
<1>2. so.status \in Final => l.status \in Final
  BY OneWorker DEF AllInv, SerialInv, FinalLines
<1> QED BY <1>1, <1>2 DEF Live, Shippable, Final

(* The check of addShippedQty never refuses: the draft was counted. *)
LEMMA ReadForShippingFits ==
  ASSUME Orderly, AllInv, NEW p \in Workers, ReadForShipping(p)
  PROVE  AllocInv'
<1> DEFINE r == req[p]
           lines == issue[r.issue].lines
<1>w. p = Worker /\ RequestFits(so, issue, r) /\ r \in Request
  BY OneWorker DEF AllInv, AllocInv, Fitting, TypeInv, RequestsTyped, RequestTyped
<1>1. r.pc = "shipRead" /\ UNCHANGED <<so, issue>>
  BY DEF ReadForShipping
<1>2. PICK t \in r.todo :
        /\ First(t, r.todo)
        /\ \/ \E l \in so.lines :
                /\ l.num = t.at
                /\ Shippable(l, t.qty)
                /\ Proceed(p, [r EXCEPT !.pc = "shipWrite", !.status = so.status,
                                        !.change = {Shipped(l, t.qty)}])
           \/ /\ \A l \in so.lines : l.num = t.at => ~ Shippable(l, t.qty)
              /\ Proceed(p, GiveUp(r))
  BY DEF ReadForShipping
<1>3. ASSUME NEW l \in so.lines, l.num = t.at, Shippable(l, t.qty),
             Proceed(p, [r EXCEPT !.pc = "shipWrite", !.status = so.status,
                                  !.change = {Shipped(l, t.qty)}])
      PROVE  AllocInv'
  <2>1. PICK status, change, n : /\ status = so.status /\ change = {Shipped(l, t.qty)}
                                 /\ n = [r EXCEPT !.pc = "shipWrite", !.status = status,
                                                  !.change = change]
    OBVIOUS
  <2>2. /\ n.pc = "shipWrite" /\ n.status = status /\ n.change = change
        /\ n.issue = r.issue /\ n.todo = r.todo /\ n.doc = r.doc
        /\ n.add = r.add /\ n.drop = r.drop
    BY <1>w, <2>1 DEF Request
  <2>3. WriteFits(so, n)
    BY <1>2, <1>3, <2>1, <2>2 DEF WriteFits
  <2>4. Live(so) => TodoFits(so, issue, n)
    BY <1>w, <1>1, <2>2 DEF RequestFits, TodoFits
  <2>5. RequestFits(so, issue, n)
    BY <1>w, <1>1, <2>2, <2>3, <2>4 DEF RequestFits, ShippingPoints
  <2>6. \A k : ShippedBy(issue, n, k) = ShippedBy(issue, r, k)
    BY <1>1, <2>2 DEF ShippedBy, Awaits, ShippingPoints
  <2>7. \A k : ShippedBy(issue, r, k) \in Nat
    BY <1>w, Wells, LeftType DEF AllInv
  <2>8. req'[Worker] = n
    BY <1>3, <2>1, NextRequest DEF AllInv
  <2> QED BY <1>w, <1>1, <2>5, <2>6, <2>7, <2>8, RequestStep
<1>4. ASSUME Live(so), \A l \in so.lines : l.num = t.at => ~ Shippable(l, t.qty)
      PROVE  FALSE
  <2>1. PICK x \in lines, l \in so.lines :
          /\ x.num = t.num /\ x.baseQty = t.qty /\ l.num = t.at /\ FirstOpen(l, so.lines, x.sku)
    BY <1>w, <1>1, <1>4 DEF RequestFits, TodoFits
  <2>2. ShippedBy(issue, r, x.sku) = 0
    BY <2>1 DEF ShippedBy, Awaits
  <2>3. x.sku \in Skus /\ t.qty \in Nat /\ t.qty > 0 /\ t.qty <= Left(issue, r, x.sku)
    BY <1>w, <1>1, <1>4, <2>1, <2>2, AwaitedLine DEF ShippingPoints
  <2>4. Left(issue, r, x.sku) \in Nat
    BY <1>w, Wells, LeftType DEF AllInv
  <2>5. PICK m \in so.lines : /\ FirstOpen(m, so.lines, x.sku)
                              /\ m.shippedQty + Left(issue, r, x.sku) <= m.orderQty
    BY <1>w, <1>4, <2>3, <2>4, NextLine
  <2>6. LinesWell(so.lines) /\ ByNum(so.lines)
    BY Wells DEF AllInv, AllocInv, Fitting, LinesFit
  <2>7. m = l
    BY <2>1, <2>5, <2>6, OneFirstOpen
  <2>8. l.shippedQty \in Nat /\ l.orderQty \in Nat /\ l.status \in {"OPEN", "PARTIAL"}
    BY <2>1, <2>6 DEF LinesWell, SOLine, FirstOpen, First, OpenLines
  <2>9. l.shippedQty + t.qty <= l.orderQty
    BY <2>3, <2>4, <2>5, <2>7, <2>8
  <2> QED BY <1>4, <2>1, <2>3, <2>8, <2>9 DEF Shippable
<1>5. ASSUME \A l \in so.lines : l.num = t.at => ~ Shippable(l, t.qty), Proceed(p, GiveUp(r))
      PROVE  AllocInv'
  BY <1>1, <1>4, <1>5, GiveUpFits
<1> QED BY <1>2, <1>3, <1>5

--------------------------------------------------------------------------------
(* Steps that write the order *)

LEMMA WrittenSame ==
  ASSUME NEW r, r.drop = {}, r.add = {}, r.change = {}
  PROVE  Written(r).status = r.status /\ Written(r).lines = so.lines
<1>1. Kept(r) = so.lines
  BY DEF Kept
<1> QED BY <1>1 DEF Written

LEMMA WrittenLine ==
  ASSUME NEW r, r.drop = {}, r.add = {}, ById(so.lines), NEW l \in so.lines, NEW c,
         r.change = {c}, c.id = l.id
  PROVE  Written(r).status = r.status /\ Written(r).lines = (so.lines \ {l}) \cup {c}
<1> DEFINE stale == {m \in Kept(r) : \E d \in r.change : d.id = m.id}
           fresh == {d \in r.change : \E m \in Kept(r) : d.id = m.id}
<1>1. Kept(r) = so.lines
  BY DEF Kept
<1>2. stale = {l}
  BY <1>1 DEF ById
<1>3. fresh = {c}
  BY <1>1
<1>4. Written(r).lines = (Kept(r) \ stale) \cup fresh
  BY DEF Written
<1>5. Written(r).status = r.status
  BY DEF Written
<1> HIDE DEF stale, fresh
<1> QED BY <1>1, <1>2, <1>3, <1>4, <1>5

LEMMA WrittenNew ==
  ASSUME NEW r, r.drop = {}, NEW n, r.add = {n}, r.change = {}
  PROVE  /\ Written(r).status = r.status
         /\ Written(r).lines = so.lines \cup
              {[id |-> Written(r).lastId, num |-> n.num, sku |-> n.sku,
                orderQty |-> n.orderQty, shippedQty |-> 0, status |-> "OPEN"]}
         /\ Written(r).lastId = so.lastId + Cardinality({n})
<1>1. Kept(r) = so.lines
  BY DEF Kept
<1> QED BY <1>1 DEF Written

(* Which line is first after one line took the place of another. *)
LEMMA FirstElsewhere ==
  ASSUME NEW lines, NEW l \in lines, NEW c, c.sku = l.sku, NEW k, k # l.sku,
         NEW m, FirstOpen(m, lines, k)
  PROVE  m # l /\ FirstOpen(m, (lines \ {l}) \cup {c}, k)
<1>1. OpenLines((lines \ {l}) \cup {c}, k) = OpenLines(lines, k)
  BY DEF OpenLines
<1>2. m # l
  BY DEF FirstOpen, First, OpenLines
<1> QED BY <1>1, <1>2 DEF FirstOpen

LEMMA FirstReplaced ==
  ASSUME NEW lines, NEW l \in lines, NEW c, c.sku = l.sku, c.num = l.num,
         c.status \in {"OPEN", "PARTIAL"} => l.status \in {"OPEN", "PARTIAL"}, NEW k,
         NEW m, FirstOpen(m, lines, k),
         m = l => c.status \in {"OPEN", "PARTIAL"}
  PROVE  FirstOpen(IF m = l THEN c ELSE m, (lines \ {l}) \cup {c}, k)
<1> DEFINE new == (lines \ {l}) \cup {c}
           f   == IF m = l THEN c ELSE m
<1>1. m \in OpenLines(lines, k) /\ \A n \in OpenLines(lines, k) : m.num <= n.num
  BY DEF FirstOpen, First
<1>2. f \in OpenLines(new, k) /\ f.num = m.num
  BY <1>1 DEF OpenLines
<1>3. ASSUME NEW n \in OpenLines(new, k)
      PROVE  f.num <= n.num
  <2>1. CASE n = c
    <3>1. l \in OpenLines(lines, k)
      BY <2>1 DEF OpenLines
    <3> QED BY <1>1, <1>2, <2>1, <3>1
  <2>2. CASE n # c
    <3>1. n \in OpenLines(lines, k)
      BY <2>2 DEF OpenLines
    <3> QED BY <1>1, <1>2, <3>1
  <2> QED BY <2>1, <2>2
<1> HIDE DEF f, new
<1>4. FirstOpen(f, new, k)
  BY <1>2, <1>3 DEF FirstOpen, First
<1> QED BY <1>4 DEF f, new

LEMMA NumsReplaced ==
  ASSUME NEW lines, ByNum(lines), NEW l \in lines, NEW c, c.num = l.num
  PROVE  ByNum((lines \ {l}) \cup {c})
  BY DEF ByNum

(* What addShippedQty makes of a line. *)
LEMMA ShippedLine ==
  ASSUME NEW l \in SOLine, NEW qty \in Nat, Shippable(l, qty)
  PROVE  LET c == Shipped(l, qty)
         IN  /\ c \in SOLine
             /\ c.id = l.id /\ c.num = l.num /\ c.sku = l.sku
             /\ c.orderQty = l.orderQty /\ c.shippedQty = l.shippedQty + qty
             /\ c.status \in {"OPEN", "PARTIAL", "CLOSED"}
             /\ c.shippedQty # c.orderQty => c.status = "PARTIAL"
             /\ l.status \in {"OPEN", "PARTIAL"}
<1> DEFINE status == IF ~ (l.shippedQty + qty = l.orderQty) THEN "PARTIAL"
                     ELSE IF l.status = "PARTIAL" THEN "CLOSED" ELSE l.status
<1>1. Shipped(l, qty) = [[l EXCEPT !.shippedQty = l.shippedQty + qty] EXCEPT !.status = status]
  BY DEF Shipped, SOLine
<1>2. l.status \in {"OPEN", "PARTIAL"}
  BY DEF SOLine, LineStatuses, Shippable
<1>3. status \in {"OPEN", "PARTIAL", "CLOSED"} /\ (l.shippedQty + qty # l.orderQty => status = "PARTIAL")
  BY <1>2
<1> HIDE DEF status
<1>4. PICK n : n = l.shippedQty + qty
  OBVIOUS
<1>5. n \in Nat
  BY <1>4 DEF SOLine
<1>6. PICK c : c = [[l EXCEPT !.shippedQty = n] EXCEPT !.status = status]
  OBVIOUS
<1>7. /\ c \in SOLine /\ c.id = l.id /\ c.num = l.num /\ c.sku = l.sku
      /\ c.orderQty = l.orderQty /\ c.shippedQty = n /\ c.status = status
  BY <1>3, <1>5, <1>6 DEF SOLine, LineStatuses
<1>8. Shipped(l, qty) = c
  BY <1>1, <1>4, <1>6
<1> QED BY <1>2, <1>3, <1>4, <1>7, <1>8

LEMMA OrderStep ==
  ASSUME AllInv, NEW n, req'[Worker] = n, UNCHANGED issue,
         LinesFit(so'), RequestFits(so', issue, n),
         Covered(so', issue, n), Recorded(so', issue, n)
  PROVE  AllocInv'
  BY DEF AllInv, AllocInv, Fitting

(* A line is shipped: it has the quantity the drafts have no longer. *)
LEMMA WriteShippingFits ==
  ASSUME Orderly, AllInv, NEW p \in Workers, WriteShipping(p), TypeInv'
  PROVE  AllocInv'
<1> DEFINE r == req[p]
           lines == issue[r.issue].lines
<1>w. /\ p = Worker /\ RequestFits(so, issue, r) /\ r \in Request /\ RequestTyped(r)
      /\ LinesFit(so) /\ Covered(so, issue, r) /\ Recorded(so, issue, r)
  BY OneWorker DEF AllInv, AllocInv, Fitting, TypeInv, RequestsTyped, RequestTyped
<1>i. IssuesWell(issue) /\ LinesWell(so.lines) /\ LinesWell(so'.lines)
  BY Wells DEF AllInv, TypeInv, OrderTyped, Order, LinesWell
<1>1. /\ r.pc = "shipWrite" /\ UNCHANGED issue /\ WriteFits(so, r)
      /\ r.issue \in IssueIds /\ issue[r.issue].status = "DRAFT"
      /\ r.add = {} /\ r.drop = {}
  BY <1>w DEF WriteShipping, RequestFits, ShippingPoints
<1>2. PICK t \in r.todo, l \in so.lines :
        First(t, r.todo) /\ l.num = t.at /\ Shippable(l, t.qty) /\ r.change = {Shipped(l, t.qty)}
  BY <1>1 DEF WriteFits
<1>3. Live(so) /\ Found /\ r.status = so.status
  BY <1>1, <1>2, ShippableIsLive DEF Live, Found, WriteFits
<1>4. /\ IssueLinesTyped(lines) /\ Plain(lines) /\ ByNum(lines)
      /\ r.todo \subseteq Target /\ ByNum(r.todo)
  BY <1>1, <1>i, <1>w DEF IssuesWell, IssueTyped, IssueLinesTyped, IssuesFit, Request, RequestTyped
<1>5. PICK x \in lines : /\ x.num = t.num /\ x.baseQty = t.qty
                         /\ \E m \in so.lines : m.num = t.at /\ FirstOpen(m, so.lines, x.sku)
  BY <1>w, <1>1, <1>3 DEF RequestFits, TodoFits
<1> DEFINE k0 == x.sku
           q  == t.qty
<1>6. FirstOpen(l, so.lines, k0) /\ l.sku = k0
  BY <1>2, <1>5, <1>w DEF LinesFit, ByNum, FirstOpen, First, OpenLines
<1>7. ShippedBy(issue, r, k0) = 0
  BY <1>5 DEF ShippedBy, Awaits
<1>8. /\ k0 \in Skus /\ q \in Nat /\ q > 0
      /\ QuantityOf(lines, k0) = q /\ q <= Left(issue, r, k0)
  BY <1>w, <1>1, <1>3, <1>5, <1>7, AwaitedLine DEF ShippingPoints
<1>9. l \in SOLine
  BY <1>i DEF LinesWell
<1>10. PICK c : c = Shipped(l, q)
  OBVIOUS
<1>11. /\ c \in SOLine
       /\ c.id = l.id /\ c.num = l.num /\ c.sku = l.sku
       /\ c.orderQty = l.orderQty /\ c.shippedQty = l.shippedQty + q
       /\ c.status \in {"OPEN", "PARTIAL", "CLOSED"}
       /\ c.shippedQty # c.orderQty => c.status = "PARTIAL"
       /\ l.status \in {"OPEN", "PARTIAL"}
  BY <1>2, <1>8, <1>9, <1>10, ShippedLine
<1>12. /\ so' = Written(r)
       /\ \E u \in r.todo : First(u, r.todo) /\ Proceed(p, Shipping(r, r.todo \ {u}))
  BY <1>3 DEF WriteShipping
<1>13. PICK u \in r.todo : First(u, r.todo) /\ Proceed(p, Shipping(r, r.todo \ {u}))
  BY <1>12
<1>14. u = t
  <2>1. u.num <= t.num /\ t.num <= u.num
    BY <1>2, <1>13 DEF First
  <2>2. u.num \in Nat /\ t.num \in Nat
    BY <1>4 DEF Target
  <2> QED BY <1>4, <2>1, <2>2 DEF ByNum
<1>15. PICK n : n = Shipping(r, r.todo \ {t})
  OBVIOUS
<1>16. /\ n.pc = IF r.todo \ {t} = {} THEN "saveIssue" ELSE "shipRead"
       /\ n.issue = r.issue /\ n.todo = r.todo \ {t} /\ n.doc = {}
       /\ n.add = {} /\ n.drop = {}
  BY <1>w, <1>1, <1>15, ShippingFields
<1>17. req'[Worker] = n
  BY <1>13, <1>14, <1>15, NextRequest DEF AllInv
<1>18. so'.status = so.status /\ so'.lines = (so.lines \ {l}) \cup {c}
  BY <1>1, <1>2, <1>3, <1>10, <1>11, <1>12, <1>i, WrittenLine DEF LinesWell
<1>19. Live(so')
  BY <1>3, <1>18 DEF Live
<1>20. ASSUME NEW v \in r.todo, NEW y \in lines, y.num = v.num
       PROVE  v = t <=> y.sku = k0
  BY <1>4, <1>5, <1>20 DEF Plain, ByNum
<1>21. ASSUME NEW k
       PROVE  ShippedBy(issue, n, k) = IF k = k0 THEN q ELSE ShippedBy(issue, r, k)
  <2>1. n.pc \in ShippingPoints /\ r.pc \in ShippingPoints
    BY <1>1, <1>16 DEF ShippingPoints
  <2>2. ~ Awaits(issue, n, k0)
    BY <1>16, <1>20 DEF Awaits
  <2>3. k # k0 => (Awaits(issue, n, k) <=> Awaits(issue, r, k))
    BY <1>16, <1>20 DEF Awaits
  <2> QED BY <1>8, <1>16, <2>1, <2>2, <2>3 DEF ShippedBy
<1>22. LinesFit(so')
  <2>1. ByNum(so'.lines)
    BY <1>w, <1>11, <1>18, NumsReplaced DEF LinesFit
  <2>2. \A m \in so'.lines : m.status # "CANCELLED"
    BY <1>w, <1>3, <1>11, <1>18 DEF LinesFit
  <2> QED BY <2>1, <2>2 DEF LinesFit
<1>23. RequestFits(so', issue, n)
  <2>1. TodoFits(so', issue, n)
    <3> SUFFICES ASSUME NEW v \in r.todo \ {t}
                 PROVE  \E y \in lines :
                          /\ y.num = v.num /\ y.baseQty = v.qty
                          /\ \E m \in so'.lines : m.num = v.at /\ FirstOpen(m, so'.lines, y.sku)
      BY <1>16 DEF TodoFits
    <3>1. PICK y \in lines :
            /\ y.num = v.num /\ y.baseQty = v.qty
            /\ \E m \in so.lines : m.num = v.at /\ FirstOpen(m, so.lines, y.sku)
      BY <1>w, <1>1, <1>3 DEF RequestFits, TodoFits
    <3>2. PICK m \in so.lines : m.num = v.at /\ FirstOpen(m, so.lines, y.sku)
      BY <3>1
    <3>3. y.sku # l.sku
      BY <1>6, <1>20, <3>1
    <3>4. m # l /\ FirstOpen(m, so'.lines, y.sku)
      BY <1>11, <1>18, <3>2, <3>3, FirstElsewhere
    <3> QED BY <1>18, <3>1, <3>2, <3>4
  <2> QED BY <1>1, <1>16, <2>1 DEF RequestFits, Plain, ShippingPoints
<1>24. ASSUME NEW k
       PROVE  /\ Left(issue, n, k) \in Nat /\ Left(issue, r, k) \in Nat
              /\ Left(issue, n, k) = IF k = k0 THEN Left(issue, r, k) - q ELSE Left(issue, r, k)
  <2>1. /\ Left(issue, n, k) \in Nat /\ Left(issue, r, k) \in Nat
        /\ PendingIn(issue, k) \in Nat
    BY <1>i, <1>w, <1>23, LeftType
  <2> QED BY <1>7, <1>8, <1>21, <2>1 DEF Left
<1>25. Covered(so', issue, n)
  <2> SUFFICES ASSUME NEW k \in Skus PROVE Room(so', k, Left(issue, n, k))
    BY DEF Covered
  <2>1. CASE k = k0
    <3>1. Left(issue, r, k) # 0
      <4>1. Left(issue, r, k0) \in Nat
        BY <1>24
      <4> QED BY <1>8, <2>1, <4>1
    <3>2. PICK m \in so.lines : /\ FirstOpen(m, so.lines, k)
                                /\ m.shippedQty + Left(issue, r, k) <= m.orderQty
      BY <1>w, <1>3, <3>1, NextLine
    <3>3. m = l
      BY <1>6, <1>i, <1>w, <2>1, <3>2, OneFirstOpen DEF LinesFit
    <3>4. l.shippedQty \in Nat /\ l.orderQty \in Nat
      BY <1>9 DEF SOLine
    <3>5. c.shippedQty + Left(issue, n, k) <= c.orderQty
      BY <1>8, <1>11, <1>24, <2>1, <3>2, <3>3, <3>4
    <3>6. CASE c.shippedQty = c.orderQty
      <4>1. Left(issue, n, k) = 0
        BY <1>8, <1>11, <1>24, <3>4, <3>5, <3>6
      <4> QED BY <4>1 DEF Room
    <3>7. CASE c.shippedQty # c.orderQty
      <4>1. FirstOpen(IF l = l THEN c ELSE l, (so.lines \ {l}) \cup {c}, k)
        <5>1. c.status = "PARTIAL"
          BY <1>11, <3>7
        <5> QED BY <1>6, <1>11, <2>1, <5>1, FirstReplaced
      <4>2. FirstOpen(c, so'.lines, k)
        BY <1>18, <4>1
      <4> QED BY <1>6, <1>11, <1>18, <2>1, <3>5, <4>2 DEF Room
    <3> QED BY <3>6, <3>7
  <2>2. CASE k # k0
    <3>1. Left(issue, n, k) = Left(issue, r, k)
      BY <1>24, <2>2
    <3>2. CASE Left(issue, r, k) = 0
      BY <3>1, <3>2 DEF Room
    <3>3. CASE Left(issue, r, k) # 0
      <4>1. PICK m \in so.lines : /\ m.sku = k /\ FirstOpen(m, so.lines, k)
                                  /\ m.shippedQty + Left(issue, r, k) <= m.orderQty
        BY <1>w, <1>3, <3>3, NextLine
      <4>2. m # l /\ FirstOpen(m, so'.lines, k)
        <5>1. k # l.sku
          BY <1>6, <2>2
        <5>2. c.sku = l.sku
          BY <1>11
        <5>3. m # l /\ FirstOpen(m, (so.lines \ {l}) \cup {c}, k)
          BY <4>1, <5>1, <5>2, FirstElsewhere
        <5> QED BY <1>18, <5>3
      <4> QED BY <1>18, <3>1, <4>1, <4>2 DEF Room
    <3> QED BY <3>2, <3>3
  <2> QED BY <2>1, <2>2
<1>26. Recorded(so', issue, n)
  <2> SUFFICES ASSUME NEW k \in Skus
               PROVE  ShippedIn(so'.lines, k) = IssuedIn(issue, k) + ShippedBy(issue, n, k)
    BY DEF Recorded
  <2>1. ShippedIn(so.lines, k) = IssuedIn(issue, k) + ShippedBy(issue, r, k)
    BY <1>w, <1>3 DEF Recorded
  <2>2. ShippedIn((so.lines \ {l}) \cup {c}, k) =
          IF k = l.sku THEN ShippedIn(so.lines, k) - l.shippedQty + c.shippedQty
          ELSE ShippedIn(so.lines, k)
    BY <1>i, <1>11, ShippedReplaced
  <2>3. IssuedIn(issue, k) \in Nat /\ l.shippedQty \in Nat
    BY <1>i, <1>9, IssuedType DEF SOLine
  <2>4. CASE k = k0
    <3>1. ShippedIn(so'.lines, k) = ShippedIn(so.lines, k) - l.shippedQty + (l.shippedQty + q)
      BY <1>6, <1>11, <1>18, <2>2, <2>4
    <3>2. ShippedIn(so.lines, k) = IssuedIn(issue, k)
      BY <1>7, <2>1, <2>3, <2>4
    <3>3. ShippedBy(issue, n, k) = q
      BY <1>21, <2>4
    <3> QED BY <1>8, <2>3, <3>1, <3>2, <3>3
  <2>5. CASE k # k0
    BY <1>6, <1>18, <1>21, <2>1, <2>2, <2>5
  <2> QED BY <2>4, <2>5
<1> QED BY <1>1, <1>17, <1>22, <1>23, <1>25, <1>26, OrderStep

(* What other requests write: the lines that were there keep the room they *)
(* have, unless the order becomes final.                                   *)
LEMMA StoredFits ==
  ASSUME Orderly, AllInv, TypeInv', NEW r, RequestTyped(r), StoreFits(so, r), Found,
         so' = Written(r)
  PROVE  /\ LinesFit(so')
         /\ \A k : \A q \in Nat : Room(so, k, q) => Room(so', k, q)
         /\ Live(so') => Live(so) /\ \A k : ShippedIn(so'.lines, k) = ShippedIn(so.lines, k)
<1>i. LinesWell(so.lines) /\ LinesWell(so'.lines)
  BY Wells DEF AllInv, TypeInv, OrderTyped, Order, LinesWell
<1>f. LinesFit(so) /\ r.drop = {}
  BY DEF AllInv, AllocInv, Fitting, StoreFits
<1>1. CASE Keeps(so, r)
  <2>1. so'.status = r.status /\ so'.lines = so.lines
    BY <1>1, <1>f, WrittenSame DEF Keeps
  <2>2. Live(so') => Live(so)
    BY <1>1, <2>1 DEF Keeps, Live
  <2> QED BY <1>f, <2>1, <2>2 DEF LinesFit, Room
<1>2. CASE Ends(so, r)
  <2>1. ~ Live(so')
    BY <1>2 DEF Ends, Written, Live
  <2>2. /\ \A m \in so'.lines : m \in so.lines \/ m \in r.change
        /\ \A l \in so.lines : l \in so'.lines \/ \E c \in r.change : c.id = l.id /\ c \in so'.lines
    <3> DEFINE stale == {l \in Kept(r) : \E c \in r.change : c.id = l.id}
               fresh == {c \in r.change : \E l \in Kept(r) : c.id = l.id}
    <3>1. Kept(r) = so.lines
      BY <1>f DEF Kept
    <3>2. so'.lines = (so.lines \ stale) \cup fresh
      BY <1>2, <3>1 DEF Written, Ends
    <3> QED BY <3>1, <3>2
  <2>3. ASSUME NEW m \in so'.lines
        PROVE  \E l \in so.lines : m.id = l.id /\ m.num = l.num
    BY <1>2, <2>2 DEF Ends
  <2>4. ByNum(so'.lines)
    <3> SUFFICES ASSUME NEW m \in so'.lines, NEW n \in so'.lines, m.num = n.num PROVE m = n
      BY DEF ByNum
    <3>1. m.id = n.id
      BY <1>f, <2>3 DEF LinesFit, ByNum
    <3> QED BY <1>i, <3>1 DEF LinesWell, ById
  <2>5. ASSUME NEW k, NEW q \in Nat, Room(so, k, q)
        PROVE  Room(so', k, q)
    <3>1. CASE q = 0
      BY <3>1 DEF Room
    <3>2. CASE q # 0
      <4>1. PICK l \in so.lines : l.sku = k /\ l.shippedQty + q <= l.orderQty
        BY <2>5, <3>2 DEF Room
      <4>2. \E c \in so'.lines : c.sku = l.sku /\ c.orderQty = l.orderQty /\ c.shippedQty = l.shippedQty
        <5>1. CASE l \in so'.lines
          BY <5>1
        <5>2. CASE \E c \in r.change : c.id = l.id /\ c \in so'.lines
          <6>1. PICK c \in r.change : c.id = l.id /\ c \in so'.lines
            BY <5>2
          <6>2. PICK m \in so.lines : /\ c.id = m.id /\ c.sku = m.sku
                                      /\ c.orderQty = m.orderQty /\ c.shippedQty = m.shippedQty
            BY <1>2 DEF Ends
          <6>3. m = l
            BY <1>i, <6>1, <6>2 DEF LinesWell, ById
          <6> QED BY <6>1, <6>2, <6>3
        <5> QED BY <2>2, <5>1, <5>2
      <4> QED BY <2>1, <4>1, <4>2 DEF Room
    <3> QED BY <3>1, <3>2
  <2> QED BY <2>1, <2>4, <2>5 DEF LinesFit
<1>3. CASE Raises(so, r)
  <2>1. PICK l \in so.lines, qty \in Quantities : r.change = {[l EXCEPT !.orderQty = qty]}
    BY <1>3 DEF Raises
  <2>2. l \in SOLine /\ qty \in Nat /\ l.orderQty <= qty
    BY <1>i, ShippingAssumption DEF LinesWell, AllInv, ShippingInv, OrderOK, LineOK
  <2>3. PICK c : c = [l EXCEPT !.orderQty = qty]
    OBVIOUS
  <2>4. /\ c \in SOLine /\ c.id = l.id /\ c.num = l.num /\ c.sku = l.sku
        /\ c.orderQty = qty /\ c.shippedQty = l.shippedQty /\ c.status = l.status
    BY <2>2, <2>3 DEF SOLine
  <2>5. so'.status = so.status /\ so'.lines = (so.lines \ {l}) \cup {c}
    <3>1. r.change = {c} /\ r.add = {} /\ r.drop = {} /\ r.status = so.status
      BY <1>3, <1>f, <2>1, <2>3 DEF Raises
    <3>2. ById(so.lines)
      BY <1>i DEF LinesWell
    <3> QED BY <2>4, <3>1, <3>2, WrittenLine
  <2>6. LinesFit(so')
    <3>1. ByNum(so'.lines)
      BY <1>f, <2>4, <2>5, NumsReplaced DEF LinesFit
    <3>2. \A m \in so'.lines : m.status # "CANCELLED"
      BY <1>3, <1>f, <2>4, <2>5 DEF LinesFit, Raises
    <3> QED BY <3>1, <3>2 DEF LinesFit
  <2>7. ASSUME NEW k, NEW q \in Nat, Room(so, k, q)
        PROVE  Room(so', k, q)
    <3>1. CASE q = 0
      BY <3>1 DEF Room
    <3>2. CASE q # 0
      <4>1. PICK m \in so.lines : /\ m.sku = k /\ m.shippedQty + q <= m.orderQty
                                  /\ FirstOpen(m, so.lines, k)
        BY <1>3, <2>7, <3>2 DEF Room, Raises
      <4>2. PICK d : d = IF m = l THEN c ELSE m
        OBVIOUS
      <4>3. FirstOpen(d, so'.lines, k)
        <5>1. m = l => c.status \in {"OPEN", "PARTIAL"}
          BY <2>4, <4>1 DEF FirstOpen, First, OpenLines
        <5>2. c.status \in {"OPEN", "PARTIAL"} => l.status \in {"OPEN", "PARTIAL"}
          BY <2>4
        <5>3. c.sku = l.sku /\ c.num = l.num
          BY <2>4
        <5>4. FirstOpen(IF m = l THEN c ELSE m, (so.lines \ {l}) \cup {c}, k)
          BY <4>1, <5>1, <5>2, <5>3, FirstReplaced
        <5> QED BY <2>5, <4>2, <5>4
      <4>4. d \in so'.lines /\ d.sku = k
        BY <2>4, <2>5, <4>1, <4>2
      <4>5. d.shippedQty + q <= d.orderQty
        <5>1. CASE m # l
          BY <4>1, <4>2, <5>1
        <5>2. CASE m = l
          <6>1. l.shippedQty + q <= l.orderQty
            BY <4>1, <5>2
          <6>2. d.shippedQty = l.shippedQty /\ d.orderQty = qty
            BY <2>4, <4>2, <5>2
          <6>3. l.shippedQty \in Nat /\ l.orderQty \in Nat /\ q \in Nat
            BY <2>2 DEF SOLine
          <6> QED BY <2>2, <6>1, <6>2, <6>3
        <5> QED BY <5>1, <5>2
      <4> QED BY <4>3, <4>4, <4>5 DEF Room
    <3> QED BY <3>1, <3>2
  <2>8. ASSUME NEW k
        PROVE  ShippedIn(so'.lines, k) = ShippedIn(so.lines, k)
    <3>1. ShippedIn((so.lines \ {l}) \cup {c}, k) =
            IF k = l.sku THEN ShippedIn(so.lines, k) - l.shippedQty + c.shippedQty
            ELSE ShippedIn(so.lines, k)
      BY <1>i, <2>4, ShippedReplaced
    <3>2. ShippedIn(so.lines, k) \in Nat
      <4> DEFINE f == [m \in so.lines |-> m.shippedQty]
      <4>1. \A m \in so.lines : f[m] = m.shippedQty
        OBVIOUS
      <4> HIDE DEF f
      <4> QED BY <1>i, <4>1, ShippedSum
    <3>3. l.shippedQty \in Nat
      BY <2>2 DEF SOLine
    <3> QED BY <2>4, <2>5, <3>1, <3>2, <3>3
  <2> QED BY <1>3, <2>6, <2>7, <2>8 DEF Raises
<1>4. CASE Adds(so, r)
  <2>1. PICK n : r.add = {n} /\ \A l \in so.lines : l.num < n.num
    BY <1>4 DEF Adds
  <2>2. n \in NewLine
    BY <2>1 DEF RequestTyped, Request
  <2>3. PICK c : c = [id |-> Written(r).lastId, num |-> n.num, sku |-> n.sku,
                      orderQty |-> n.orderQty, shippedQty |-> 0, status |-> "OPEN"]
    OBVIOUS
  <2>4. c.num = n.num /\ c.shippedQty = 0 /\ c.status = "OPEN"
    BY <2>3
  <2>5. so'.status = so.status /\ so'.lines = so.lines \cup {c}
    BY <1>4, <1>f, <2>1, <2>3, WrittenNew DEF Adds
  <2>6. \A l \in so.lines : l.num \in Nat /\ l.num < c.num
    BY <1>i, <2>1, <2>4 DEF LinesWell, SOLine
  <2>n. c.num \in Nat
    BY <2>2, <2>4 DEF NewLine
  <2>7. c \notin so.lines
    BY <2>6
  <2>8. LinesFit(so')
    <3>1. ByNum(so'.lines)
      BY <1>f, <2>5, <2>6 DEF LinesFit, ByNum
    <3> QED BY <1>4, <1>f, <2>4, <2>5, <3>1 DEF LinesFit, Adds
  <2>9. ASSUME NEW k, NEW q \in Nat, Room(so, k, q)
        PROVE  Room(so', k, q)
    <3>1. CASE q = 0
      BY <3>1 DEF Room
    <3>2. CASE q # 0
      <4>1. PICK m \in so.lines : /\ m.sku = k /\ m.shippedQty + q <= m.orderQty
                                  /\ FirstOpen(m, so.lines, k)
        BY <1>4, <2>9, <3>2 DEF Room, Adds
      <4>2. FirstOpen(m, so'.lines, k)
        <5>1. m \in OpenLines(so'.lines, k) /\ \A d \in OpenLines(so.lines, k) : m.num <= d.num
          BY <2>5, <4>1 DEF FirstOpen, First, OpenLines
        <5>2. OpenLines(so'.lines, k) \subseteq OpenLines(so.lines, k) \cup {c}
          BY <2>5 DEF OpenLines
        <5>3. m.num <= c.num
          BY <2>6, <2>n
        <5> QED BY <5>1, <5>2, <5>3 DEF FirstOpen, First
      <4> QED BY <2>5, <4>1, <4>2 DEF Room
    <3> QED BY <3>1, <3>2
  <2>10. \A k : ShippedIn(so'.lines, k) = ShippedIn(so.lines, k)
    BY <1>i, <2>4, <2>5, <2>7, ShippedAppended
  <2> QED BY <1>4, <2>8, <2>9, <2>10 DEF Adds
<1> QED BY <1>1, <1>2, <1>3, <1>4 DEF StoreFits

LEMMA WriteOrderFits ==
  ASSUME Orderly, AllInv, NEW p \in Workers, WriteOrder(p), TypeInv'
  PROVE  AllocInv'
<1> DEFINE r == req[p]
<1>w. /\ p = Worker /\ RequestFits(so, issue, r) /\ RequestTyped(r)
      /\ Covered(so, issue, r) /\ Recorded(so, issue, r)
  BY OneWorker DEF AllInv, AllocInv, Fitting, TypeInv, RequestsTyped
<1>1. /\ r.pc = "soWrite" /\ UNCHANGED issue /\ StoreFits(so, r)
      /\ req'[Worker] = Idle
  BY <1>w, NextRequest DEF WriteOrder, Answer, RequestFits, AllInv
<1>2. CASE Writable(r)
  <2>1. Found /\ so' = Written(r)
    BY <1>2 DEF Writable, WriteOrder
  <2>2. /\ LinesFit(so')
        /\ \A k : \A q \in Nat : Room(so, k, q) => Room(so', k, q)
        /\ Live(so') => Live(so) /\ \A k : ShippedIn(so'.lines, k) = ShippedIn(so.lines, k)
    BY <1>w, <1>1, <2>1, StoredFits
  <2>3. \A k : ShippedBy(issue, r, k) = 0 /\ ShippedBy(issue, Idle, k) = 0
    BY <1>1, IdleFits DEF ShippedBy, ShippingPoints
  <2>4. Covered(so', issue, Idle)
    <3> SUFFICES ASSUME NEW k \in Skus
                 PROVE  Room(so', k, Left(issue, Idle, k))
      BY DEF Covered
    <3>1. Left(issue, r, k) \in Nat /\ Left(issue, Idle, k) = Left(issue, r, k)
      BY <1>w, <2>3, Wells, LeftType DEF Left, AllInv
    <3>2. Room(so, k, Left(issue, r, k))
      BY <1>w, <2>1 DEF Covered, Found
    <3> QED BY <2>2, <3>1, <3>2
  <2>5. Recorded(so', issue, Idle)
    BY <1>w, <2>2, <2>3 DEF Recorded
  <2> QED BY <1>1, <2>2, <2>4, <2>5, IdleFits, OrderStep
<1>3. CASE ~ Writable(r)
  <2>1. so' = so /\ r.pc \notin ShippingPoints
    BY <1>1, <1>3 DEF WriteOrder, ShippingPoints
  <2> QED BY <1>w, <1>1, <2>1, IdleFits, QuietStep
<1> QED BY <1>2, <1>3

LEMMA DeleteOrderFits ==
  ASSUME Orderly, AllInv, NEW p \in Workers, DeleteOrder(p)
  PROVE  AllocInv'
<1>1. UNCHANGED issue /\ req'[Worker] = Idle
  BY NextRequest DEF DeleteOrder, Answer, AllInv
<1>2. so'.status = "DELETED" /\ so'.lines = {}
  BY DEF DeleteOrder, AllInv, TypeInv, OrderTyped, Order
<1>3. LinesFit(so') /\ Covered(so', issue, Idle) /\ Recorded(so', issue, Idle)
  BY <1>2 DEF LinesFit, ByNum, Covered, Recorded, Live
<1> QED BY <1>1, <1>3, IdleFits, OrderStep

LEMMA NextFits ==
  ASSUME Orderly, AllInv, TypeInv', [Next]_vars
  PROVE  AllocInv'
<1>1. CASE UNCHANGED vars
  BY <1>1 DEF vars, AllInv, AllocInv
<1>2. ASSUME NEW p \in Workers, Serve(p)
      PROVE  AllocInv'
  <2>1. ~ ReadForDelete(p)
    BY OneWorker DEF ReadForDelete, AllInv, AllocInv, Fitting, RequestFits
  <2> QED BY <1>2, <2>1, ReadDraftsFits, InsertIssueFits, ReadOrderFits, ReadForShippingFits,
             WriteShippingFits, SaveIssueFits, WriteOrderFits, DeleteOrderFits DEF Serve
<1>3. ASSUME NEW p \in Workers
      PROVE  ~ Abort(p) /\ ~ ShippingFails(p)
  BY DEF Orderly, Abort, ShippingFails
<1> QED BY <1>1, <1>2, <1>3, BeginIssueFits, BeginCompletionFits, EndpointFits,
           IssueEndpointFits DEF Next, Quiet

LEMMA InitFits ==
  ASSUME Orderly, Init
  PROVE  AllocInv
<1>1. /\ so.lines = OrderLines /\ so.status = "OPEN"
      /\ \A i \in IssueIds : issue[i] = [status |-> "NONE", lines |-> {}]
      /\ req[Worker] = Idle
  BY OneWorker DEF Init
<1>2. Drafts(issue) = {} /\ Ended(issue) = {} /\ Started(issue) = {}
  BY <1>1 DEF Drafts, Ended, Started
<1>3. LinesFit(so)
  BY <1>1, ShippingAssumption DEF LinesFit, ByNum
<1>4. IssuesFit(issue)
  BY <1>1, <1>2, FS_EmptySet DEF IssuesFit, Plain
<1>5. \A k : PendingIn(issue, k) = 0 /\ IssuedIn(issue, k) = 0
  BY <1>2, SumEmpty DEF PendingIn, IssuedIn, SumFunction
<1>6. \A k : ShippedBy(issue, Idle, k) = 0
  BY IdleFits DEF ShippedBy
<1>7. ASSUME NEW k
      PROVE  ShippedIn(so.lines, k) = 0
  <2> DEFINE f == [l \in Having(OrderLines, k) |-> l.shippedQty]
  <2>1. IsFiniteSet(Having(OrderLines, k)) /\ \A l \in Having(OrderLines, k) : f[l] = 0
    BY ShippingAssumption, FS_Subset DEF Having
  <2>2. ShippedIn(so.lines, k) = SumFunctionOnSet(f, Having(OrderLines, k))
    BY <1>1 DEF ShippedIn, SumFunction
  <2> HIDE DEF f
  <2> QED BY <2>1, <2>2, SumOfZeros
<1>8. Covered(so, issue, Idle) /\ Recorded(so, issue, Idle)
  BY <1>5, <1>6, <1>7 DEF Covered, Recorded, Left, Room
<1> QED BY <1>1, <1>3, <1>4, <1>8, IdleFits DEF AllocInv, Fitting

LEMMA AllocAlways ==
  ASSUME Orderly
  PROVE  Spec => []AllInv
<1>0. Serial /\ OnlyRaised
  BY OneWorker DEF Orderly
<1>1. Spec => [](TypeInv /\ SerialInv)
  BY <1>0, SerialAlways
<1>2. Init => ShippingInv
  BY <1>0, InitOK
<1>3. ShippingInv /\ [Next]_vars => ShippingInv'
  BY <1>0, ShippingNext
<1>4. Spec => []ShippingInv
  BY <1>2, <1>3, PTL DEF Spec
<1>5. Init => AllocInv
  BY InitFits
<1>6. AllInv /\ TypeInv' /\ [Next]_vars => AllocInv'
  BY NextFits
<1> QED BY <1>1, <1>4, <1>5, <1>6, PTL DEF Spec, AllInv

(* Clients that keep to the order of things never make the order promise   *)
(* more than it has: what was shipped and what its drafts will ship is     *)
(* covered (createGoodsIssueFromSo: "Order - Shipped - Pending >= Current  *)
(* Request").                                                              *)
THEOREM DraftsAreCovered ==
  ASSUME Orderly
  PROVE  Spec => []Allocated
<1>1. AllInv => Allocated
  <2> SUFFICES ASSUME AllInv, Resting, Found, NEW k \in Skus
               PROVE  ShippedOf(k) + Pending(k) <= OrderedOf(k)
    BY DEF Allocated
  <2> DEFINE q == Left(issue, req[Worker], k)
  <2>1. req[Worker].pc = "idle"
    BY OneWorker DEF Resting
  <2>2. /\ Fitting(so, issue, req[Worker])
        /\ IssuesWell(issue) /\ LinesWell(so.lines)
    BY Wells DEF AllInv, AllocInv
  <2>3. Room(so, k, q)
    BY <2>2 DEF Fitting, Covered, Found
  <2>4. q \in Nat /\ q = Pending(k)
    <3>1. PendingIn(issue, k) \in Nat
      BY <2>2, PendingHas
    <3>2. q = PendingIn(issue, k)
      BY <2>1, <3>1 DEF Left, ShippedBy, ShippingPoints
    <3> QED BY <3>1, <3>2 DEF PendingIn, Pending, Drafts
  <2>5. \A l \in so.lines : l.shippedQty <= l.orderQty
    BY DEF AllInv, ShippingInv, OrderOK, LineOK
  <2>6. q = 0 \/ \E l \in so.lines : l.sku = k /\ l.shippedQty + q <= l.orderQty
    BY <2>3 DEF Room
  <2> HIDE DEF q
  <2>7. ShippedIn(so.lines, k) + q <= OrderedIn(so.lines, k)
    BY <2>2, <2>4, <2>5, <2>6, RoomInOrder
  <2>8. ShippedIn(so.lines, k) = ShippedOf(k) /\ OrderedIn(so.lines, k) = OrderedOf(k)
    BY DEF ShippedIn, OrderedIn, ShippedOf, OrderedOf, Having, LinesOf
  <2> QED BY <2>4, <2>7, <2>8
<1> QED BY <1>1, AllocAlways, PTL

(* And, as long as the order is not final, it has recorded exactly what    *)
(* its completed issues took from stock (completeByPublicId: "Update SO    *)
(* Shipped Qty").                                                          *)
THEOREM IssuedIsRecorded ==
  ASSUME Orderly
  PROVE  Spec => []ShippedIsIssued
<1>1. AllInv => ShippedIsIssued
  <2> SUFFICES ASSUME AllInv, Resting, Live(so), NEW k \in Skus
               PROVE  ShippedOf(k) = SumFunction([i \in Completed |-> BaseQtyOf(issue[i].lines, k)])
    BY DEF ShippedIsIssued, Live
  <2>1. req[Worker].pc = "idle"
    BY OneWorker DEF Resting
  <2>2. Recorded(so, issue, req[Worker]) /\ IssuesWell(issue)
    BY Wells DEF AllInv, AllocInv, Fitting
  <2>3. ShippedIn(so.lines, k) = IssuedIn(issue, k) + 0
    BY <2>1, <2>2 DEF Recorded, ShippedBy, ShippingPoints
  <2>4. IssuedIn(issue, k) \in Nat
    BY <2>2, IssuedType
  <2>5. ShippedIn(so.lines, k) = IssuedIn(issue, k)
    BY <2>3, <2>4
  <2> QED BY <2>5 DEF ShippedIn, ShippedOf, Having, LinesOf, IssuedIn, Ended, Completed
<1> QED BY <1>1, AllocAlways, PTL

(***************************************************************************)
(* The remainder of a line.  A shipment that fills a line closes it only   *)
(* when it was partially shipped before (SOLine.addShippedQty): shipped in *)
(* one piece, a line stays OPEN with nothing left and stands in the way of *)
(* later lines of its SKU.  Where no issue line is as large as an order    *)
(* line that cannot happen, whatever overlaps or fails: a line, stored or  *)
(* remembered by a request, is OPEN only before its first shipment and     *)
(* PARTIAL only while something is left of it.                             *)
(***************************************************************************)
Ordered == OrderLines \cup NewLines

Piecewise == \A doc \in IssueDocs : \A x \in doc, m \in Ordered : x.baseQty < m.orderQty

(* A quantity that no line is as small as. *)
Piece(q) == \A m \in Ordered : q < m.orderQty

AsOrdered(l) == \E m \in Ordered : m.orderQty <= l.orderQty

LineGoesOn(l) ==
  /\ AsOrdered(l)
  /\ l.status = "OPEN" => l.shippedQty = 0
  /\ l.status = "PARTIAL" => l.shippedQty < l.orderQty

RequestGoesOn(r) ==
  /\ \A x \in r.doc : Piece(x.baseQty)
  /\ \A t \in r.todo : Piece(t.qty)
  /\ \A c \in r.change : LineGoesOn(c)
  /\ \A n \in r.add : AsOrdered(n)

OrderGoesOn    == \A l \in so.lines : LineGoesOn(l)
IssuesGoOn     == \A i \in IssueIds : \A x \in issue[i].lines : Piece(x.baseQty)
RequestsGoOn   == \A p \in Workers : RequestGoesOn(req[p])

RemainderInv == OrderGoesOn /\ IssuesGoOn /\ RequestsGoOn

(* What was proved of all requests before. *)
Known == TypeInv /\ ShippingInv

LEMMA ServedGoesOn ==
  ASSUME Known, RequestsGoOn, NEW p \in Workers, NEW r, RequestGoesOn(r),
         Proceed(p, r) \/ Accept(p, r)
  PROVE  RequestsGoOn'
<1>1. \A q \in Workers : req'[q] = IF q = p THEN r ELSE req[q]
  BY DEF Known, TypeInv, RequestsTyped, Proceed, Accept
<1>2. \A q \in Workers : RequestGoesOn(req'[q])
  BY <1>1 DEF RequestsGoOn
<1> QED BY <1>2 DEF RequestsGoOn, RequestGoesOn, LineGoesOn, AsOrdered, Piece

LEMMA IdleGoesOn == RequestGoesOn(Idle)
  BY DEF RequestGoesOn, Idle

LEMMA AnsweredGoesOn ==
  ASSUME Known, RequestsGoOn, NEW p \in Workers, Answer(p)
  PROVE  RequestsGoOn'
  BY IdleGoesOn, ServedGoesOn DEF Answer

LEMMA QuietGoesOn ==
  ASSUME Known, RemainderInv, NEW p \in Workers, NEW r, RequestGoesOn(r),
         Proceed(p, r) \/ Accept(p, r), UNCHANGED <<so, issue>>
  PROVE  RemainderInv'
<1>1. RequestsGoOn'
  BY ServedGoesOn DEF RemainderInv
<1> QED BY <1>1 DEF RemainderInv, OrderGoesOn, IssuesGoOn, LineGoesOn, AsOrdered, Piece

LEMMA WrittenGoesOn ==
  ASSUME OrderGoesOn, NEW r, RequestGoesOn(r), so' = Written(r)
  PROVE  OrderGoesOn'
<1> DEFINE new == {[id |-> so.lastId + Cardinality(r.add), num |-> n.num,
                    sku |-> n.sku, orderQty |-> n.orderQty, shippedQty |-> 0,
                    status |-> "OPEN"] : n \in r.add}
<1>1. \A l \in new : LineGoesOn(l)
  BY DEF RequestGoesOn, LineGoesOn, AsOrdered
<1>2. so'.lines \subseteq so.lines \cup r.change \cup new
  BY DEF Written, Kept
<1>3. \A l \in so'.lines : LineGoesOn(l)
  BY <1>1, <1>2 DEF OrderGoesOn, RequestGoesOn
<1> QED BY <1>3 DEF OrderGoesOn, LineGoesOn, AsOrdered

LEMMA SameOrderGoesOn ==
  ASSUME OrderGoesOn, UNCHANGED so
  PROVE  OrderGoesOn'
  BY DEF OrderGoesOn, LineGoesOn, AsOrdered

LEMMA SameIssuesGoOn ==
  ASSUME IssuesGoOn, UNCHANGED issue
  PROVE  IssuesGoOn'
  BY DEF IssuesGoOn, Piece

(* Goods issues *)

LEMMA IssuesChanged ==
  ASSUME Known, IssuesGoOn, NEW i \in IssueIds, NEW x, issue' = [issue EXCEPT ![i] = x],
         \A y \in x.lines : Piece(y.baseQty)
  PROVE  IssuesGoOn'
<1>1. \A j \in IssueIds : issue'[j] = IF j = i THEN x ELSE issue[j]
  BY DEF Known, TypeInv, IssuesTyped
<1>2. \A j \in IssueIds : \A y \in issue'[j].lines : Piece(y.baseQty)
  BY <1>1 DEF IssuesGoOn
<1> QED BY <1>2 DEF IssuesGoOn, Piece

LEMMA GoodsIssueGoesOn ==
  ASSUME Piecewise, Known, RemainderInv, NEW p \in Workers,
         \/ \E i \in IssueIds, doc \in IssueDocs : BeginIssue(p, i, doc)
         \/ ReadDrafts(p)
         \/ InsertIssue(p)
  PROVE  RemainderInv'
<1>r. RequestGoesOn(req[p]) /\ req[p] \in Request
  BY DEF RemainderInv, RequestsGoOn, Known, TypeInv, RequestsTyped, RequestTyped
<1>1. CASE \E i \in IssueIds, doc \in IssueDocs : BeginIssue(p, i, doc)
  <2>1. PICK i \in IssueIds, doc \in IssueDocs : BeginIssue(p, i, doc)
    BY <1>1
  <2>2. PICK r : r = [Idle EXCEPT !.pc = "drafts", !.issue = i, !.doc = doc, !.seen = so.lines]
    OBVIOUS
  <2>3. r.doc = doc /\ r.todo = {} /\ r.change = {} /\ r.add = {}
    BY <2>2 DEF Idle
  <2>4. RequestGoesOn(r)
    BY <2>3 DEF RequestGoesOn, Piecewise, Piece
  <2> QED BY <2>1, <2>2, <2>4, QuietGoesOn DEF BeginIssue
<1>2. CASE ReadDrafts(p)
  <2>1. PICK r : r = [req[p] EXCEPT !.pc = "insert", !.seen = {}]
    OBVIOUS
  <2>2. r.doc = req[p].doc /\ r.todo = req[p].todo /\ r.change = req[p].change /\ r.add = req[p].add
    BY <1>r, <2>1 DEF Request
  <2>3. RequestGoesOn(r)
    BY <1>r, <2>2 DEF RequestGoesOn
  <2> QED BY <1>2, <2>1, <2>3, QuietGoesOn, IdleGoesOn DEF ReadDrafts, Answer
<1>3. CASE InsertIssue(p)
  <2>1. ASSUME req[p].issue \in IssueIds
        PROVE  IssuesGoOn'
    <3>1. PICK x : x = [status |-> "DRAFT", lines |-> req[p].doc]
      OBVIOUS
    <3>2. \A y \in x.lines : Piece(y.baseQty)
      BY <1>r, <3>1 DEF RequestGoesOn
    <3>3. issue' = [issue EXCEPT ![req[p].issue] = x]
      BY <1>3, <3>1 DEF InsertIssue
    <3> QED BY <2>1, <3>2, <3>3, IssuesChanged DEF RemainderInv
  <2>2. ASSUME req[p].issue \notin IssueIds
        PROVE  IssuesGoOn'
    <3>1. UNCHANGED issue
      BY <1>3, <2>2 DEF InsertIssue, Known, TypeInv, IssuesTyped
    <3> QED BY <3>1, SameIssuesGoOn DEF RemainderInv
  <2>3. IssuesGoOn'
    BY <2>1, <2>2
  <2> QED BY <1>3, <2>3, AnsweredGoesOn, SameOrderGoesOn DEF InsertIssue, RemainderInv
<1> QED BY <1>1, <1>2, <1>3

LEMMA DraftIssueGoesOn ==
  ASSUME Piecewise, Known, RemainderInv, NEW i \in IssueIds, IssueEndpoint(i)
  PROVE  RemainderInv'
<1>i. issue[i] \in Issue /\ \A y \in issue[i].lines : Piece(y.baseQty)
  BY DEF Known, TypeInv, IssuesTyped, IssueTyped, RemainderInv, IssuesGoOn
<1>0. Piece(0)
  BY ShippingAssumption DEF Piece, Ordered, NewLine, SOLine
<1>1. ASSUME NEW new, IssueRequest(i, new), \A y \in new.lines : Piece(y.baseQty)
      PROVE  RemainderInv'
  <2>1. IssuesGoOn'
    BY <1>1, IssuesChanged DEF IssueRequest, RemainderInv
  <2>2. RequestsGoOn'
    BY <1>1 DEF IssueRequest, RemainderInv, RequestsGoOn, RequestGoesOn, LineGoesOn,
                AsOrdered, Piece
  <2> QED BY <1>1, <2>1, <2>2, SameOrderGoesOn DEF IssueRequest, RemainderInv
<1>2. ASSUME NEW line \in ExtraLines, AddIssueLine(i, line)
      PROVE  RemainderInv'
  <2>1. PICK new : new = [issue[i] EXCEPT !.lines = @ \cup {[line EXCEPT !.baseQty = 0]}]
    OBVIOUS
  <2>2. line \in IssueLine
    BY ShippingAssumption
  <2>3. [line EXCEPT !.baseQty = 0].baseQty = 0
    BY <2>2 DEF IssueLine
  <2>4. new.lines = issue[i].lines \cup {[line EXCEPT !.baseQty = 0]}
    BY <1>i, <2>1 DEF Issue
  <2>5. \A y \in new.lines : Piece(y.baseQty)
    BY <1>0, <1>i, <2>3, <2>4
  <2> QED BY <1>1, <1>2, <2>1, <2>5 DEF AddIssueLine, DraftRequest
<1>3. ASSUME NEW line \in issue[i].lines, RemoveIssueLine(i, line)
      PROVE  RemainderInv'
  <2>1. PICK new : new = [issue[i] EXCEPT !.lines = @ \ {line}]
    OBVIOUS
  <2>2. \A y \in new.lines : Piece(y.baseQty)
    BY <1>i, <2>1 DEF Issue
  <2> QED BY <1>1, <1>3, <2>1, <2>2 DEF RemoveIssueLine, DraftRequest
<1>4. CASE CancelIssue(i) \/ DivertIssue(i) \/ RedirectIssue(i)
  <2>1. PICK new : /\ \E status : new = [issue[i] EXCEPT !.status = status]
                   /\ IssueRequest(i, new)
    BY <1>4 DEF CancelIssue, DivertIssue, RedirectIssue, DraftRequest
  <2>2. \A y \in new.lines : Piece(y.baseQty)
    BY <1>i, <2>1 DEF Issue
  <2> QED BY <1>1, <2>1, <2>2
<1>5. CASE RemoveIssue(i)
  <2>1. PICK new : new = [status |-> "DELETED", lines |-> {}]
    OBVIOUS
  <2>2. \A y \in new.lines : Piece(y.baseQty)
    BY <2>1
  <2> QED BY <1>1, <1>5, <2>1, <2>2 DEF RemoveIssue, DraftRequest
<1>6. ASSUME NEW doc \in IssueDocs, ReferIssue(i, doc)
      PROVE  RemainderInv'
  <2>1. PICK new : new = [status |-> "DRAFT", lines |-> doc]
    OBVIOUS
  <2>2. \A y \in new.lines : Piece(y.baseQty)
    BY <2>1, ShippingAssumption DEF Piecewise, Piece
  <2> QED BY <1>1, <1>6, <2>1, <2>2 DEF ReferIssue
<1> QED BY <1>2, <1>3, <1>4, <1>5, <1>6 DEF IssueEndpoint

(* Completions *)

LEMMA ShippingGoesOn ==
  ASSUME NEW r, r \in Request, RequestGoesOn(r), NEW todo, \A t \in todo : Piece(t.qty)
  PROVE  RequestGoesOn(Shipping(r, todo)) /\ RequestGoesOn(GiveUp(r))
<1>1. ASSUME NEW rest, \A t \in rest : Piece(t.qty)
      PROVE  RequestGoesOn(Shipping(r, rest))
  <2>1. PICK s : s = Shipping(r, rest)
    OBVIOUS
  <2>2. s.doc = {} /\ s.todo = rest /\ s.change = {} /\ s.add = r.add
    BY <2>1 DEF Shipping, Request
  <2>3. RequestGoesOn(s)
    BY <1>1, <2>2 DEF RequestGoesOn
  <2> QED BY <2>1, <2>3
<1> QED BY <1>1 DEF GiveUp

(* The first shipment of a line leaves it PARTIAL with something left, the *)
(* last one closes it.                                                     *)
LEMMA LineShippedGoesOn ==
  ASSUME NEW l \in SOLine, LineGoesOn(l), NEW qty \in Nat, Piece(qty), Shippable(l, qty)
  PROVE  LineGoesOn(Shipped(l, qty))
<1>1. PICK s : s = Shipped(l, qty)
  OBVIOUS
<1>2. PICK m \in Ordered : m.orderQty <= l.orderQty /\ qty < m.orderQty /\ m.orderQty \in Nat
  BY ShippingAssumption DEF LineGoesOn, AsOrdered, Piece, Ordered, SOLine, NewLine
<1>3. /\ s.orderQty = l.orderQty /\ s.shippedQty = l.shippedQty + qty
      /\ s.status = IF ~ (l.shippedQty + qty = l.orderQty) THEN "PARTIAL"
                    ELSE IF l.status = "PARTIAL" THEN "CLOSED" ELSE l.status
  BY <1>1 DEF Shipped, SOLine
<1>4. l.orderQty \in Nat /\ l.shippedQty \in Nat /\ l.status \in LineStatuses
  BY DEF SOLine
<1>5. AsOrdered(s)
  BY <1>2, <1>3 DEF AsOrdered
<1>6. l.status = "OPEN" => l.shippedQty + qty # l.orderQty
  BY <1>2, <1>4 DEF LineGoesOn
<1>7. s.status # "OPEN"
  BY <1>3, <1>4, <1>6 DEF Shippable
<1>8. s.status = "PARTIAL" => s.shippedQty < s.orderQty
  <2>1. l.shippedQty + qty <= l.orderQty
    BY DEF Shippable
  <2> QED BY <1>3, <1>4, <2>1
<1> QED BY <1>1, <1>5, <1>7, <1>8 DEF LineGoesOn

LEMMA CompletionGoesOn ==
  ASSUME Known, RemainderInv, NEW p \in Workers,
         \/ \E i \in IssueIds : BeginCompletion(p, i)
         \/ ReadOrder(p)
         \/ ReadForShipping(p)
         \/ WriteShipping(p)
         \/ SaveIssue(p)
         \/ ShippingFails(p)
  PROVE  RemainderInv'
<1>r. RequestGoesOn(req[p]) /\ req[p] \in Request /\ RequestTyped(req[p])
  BY DEF RemainderInv, RequestsGoOn, Known, TypeInv, RequestsTyped, RequestTyped
<1>g. RequestGoesOn(GiveUp(req[p]))
  BY <1>r, ShippingGoesOn DEF RequestGoesOn
<1>l. OrderGoesOn /\ so.lines \subseteq SOLine /\ OrderTyped
  BY DEF RemainderInv, Known, TypeInv, OrderTyped, Order
<1>1. CASE \E i \in IssueIds : BeginCompletion(p, i)
  <2>1. PICK i \in IssueIds : BeginCompletion(p, i)
    BY <1>1
  <2>2. PICK r : r = [Idle EXCEPT !.pc = "order", !.issue = i, !.doc = issue[i].lines]
    OBVIOUS
  <2>3. r.doc = issue[i].lines /\ r.todo = {} /\ r.change = {} /\ r.add = {}
    BY <2>2 DEF Idle
  <2>4. RequestGoesOn(r)
    BY <2>3 DEF RequestGoesOn, RemainderInv, IssuesGoOn
  <2> QED BY <2>1, <2>2, <2>4, QuietGoesOn DEF BeginCompletion
<1>2. CASE ReadOrder(p)
  <2>1. \A t \in Targets(req[p].doc) : Piece(t.qty)
    BY <1>l, <1>r, TargetsTyped DEF RequestTyped, RequestGoesOn
  <2>2. RequestGoesOn(Shipping(req[p], Targets(req[p].doc)))
    BY <1>r, <2>1, ShippingGoesOn
  <2>3. \E r : RequestGoesOn(r) /\ Proceed(p, r)
    BY <1>2, <1>g, <2>2 DEF ReadOrder
  <2> QED BY <1>2, <2>3, QuietGoesOn DEF ReadOrder
<1>3. CASE ReadForShipping(p)
  <2>1. PICK t \in req[p].todo :
          \/ \E l \in so.lines :
               /\ Shippable(l, t.qty)
               /\ Proceed(p, [req[p] EXCEPT !.pc = "shipWrite", !.status = so.status,
                                            !.change = {Shipped(l, t.qty)}])
          \/ Proceed(p, GiveUp(req[p]))
    BY <1>3 DEF ReadForShipping
  <2>2. t.qty \in Nat /\ Piece(t.qty)
    BY <1>r DEF RequestGoesOn, Request, Target
  <2>3. ASSUME NEW l \in so.lines, Shippable(l, t.qty)
        PROVE  RequestGoesOn([req[p] EXCEPT !.pc = "shipWrite", !.status = so.status,
                                            !.change = {Shipped(l, t.qty)}])
    <3>1. LineGoesOn(Shipped(l, t.qty))
      BY <1>l, <2>2, <2>3, LineShippedGoesOn DEF OrderGoesOn
    <3>2. PICK r : r = [req[p] EXCEPT !.pc = "shipWrite", !.status = so.status,
                                      !.change = {Shipped(l, t.qty)}]
      OBVIOUS
    <3>3. /\ r.doc = req[p].doc /\ r.todo = req[p].todo /\ r.add = req[p].add
          /\ r.change = {Shipped(l, t.qty)}
      BY <1>r, <3>2 DEF Request
    <3>4. RequestGoesOn(r)
      BY <1>r, <3>1, <3>3 DEF RequestGoesOn
    <3> QED BY <3>2, <3>4
  <2>4. \E r : RequestGoesOn(r) /\ Proceed(p, r)
    BY <1>g, <2>1, <2>3
  <2> QED BY <1>3, <2>4, QuietGoesOn DEF ReadForShipping
<1>4. CASE WriteShipping(p)
  <2>1. OrderGoesOn'
    BY <1>l, <1>r, <1>4, WrittenGoesOn, SameOrderGoesOn DEF WriteShipping
  <2>2. ASSUME NEW t \in req[p].todo
        PROVE  RequestGoesOn(Shipping(req[p], req[p].todo \ {t}))
    BY <1>r, ShippingGoesOn DEF RequestGoesOn
  <2>3. \E r : RequestGoesOn(r) /\ Proceed(p, r)
    BY <1>4, <1>g, <2>2 DEF WriteShipping
  <2> QED BY <1>4, <2>1, <2>3, ServedGoesOn, SameIssuesGoOn DEF WriteShipping, RemainderInv
<1>5. CASE SaveIssue(p)
  <2>1. \A i \in IssueIds : issue'[i].lines = issue[i].lines
    BY <1>5 DEF SaveIssue, Known, TypeInv, IssuesTyped, IssueTyped, Issue
  <2>2. IssuesGoOn'
    BY <2>1 DEF RemainderInv, IssuesGoOn, Piece
  <2> QED BY <1>5, <1>l, <2>2, AnsweredGoesOn, SameOrderGoesOn DEF SaveIssue, RemainderInv
<1>6. CASE ShippingFails(p)
  BY <1>6, <1>g, QuietGoesOn DEF ShippingFails
<1> QED BY <1>1, <1>2, <1>3, <1>4, <1>5, <1>6

(* Endpoints of the order *)

LEMMA StoreGoesOn ==
  ASSUME NEW status, NEW change, NEW add, NEW drop,
         \A c \in change : LineGoesOn(c), \A n \in add : AsOrdered(n)
  PROVE  RequestGoesOn(Store(status, change, add, drop))
<1>1. PICK r : r = Store(status, change, add, drop)
  OBVIOUS
<1>2. r.doc = {} /\ r.todo = {} /\ r.change = change /\ r.add = add
  BY <1>1 DEF Store, Idle
<1>3. RequestGoesOn(r)
  BY <1>2 DEF RequestGoesOn
<1> QED BY <1>1, <1>3

LEMMA EndpointGoesOn ==
  ASSUME OnlyRaised, Known, RemainderInv, NEW p \in Workers, OrderEndpoint(p)
  PROVE  RemainderInv'
<1> DEFINE Stored(change, add) ==
      \E status, drop : /\ Accept(p, Store(status, change, add, drop))
                        /\ UNCHANGED <<so, issue, moved>>
<1>l. \A l \in so.lines : LineGoesOn(l) /\ l \in SOLine
  BY DEF RemainderInv, OrderGoesOn, Known, TypeInv, OrderTyped, Order
<1>n. \A n \in NewLines : AsOrdered(n) /\ n \in NewLine
  BY ShippingAssumption DEF AsOrdered, Ordered, NewLine
<1>s. ASSUME NEW change, NEW add, Stored(change, add),
             \A c \in change : LineGoesOn(c), \A n \in add : AsOrdered(n)
      PROVE  RemainderInv'
  BY <1>s, StoreGoesOn, QuietGoesOn
<1>1. CASE Hold(p) \/ Release(p) \/ Touch(p) \/ \E status \in PatchStatuses : Patch(p, status)
  <2>1. Stored({}, {})
    BY <1>1 DEF Hold, Release, Touch, Patch, OrderRequest
  <2> QED BY <1>s, <2>1
<1>2. CASE Cancel(p)
  <2> DEFINE change == {[l EXCEPT !.status = "CANCELLED"] : l \in so.lines}
  <2>1. ASSUME NEW c \in change
        PROVE  LineGoesOn(c)
    <3>1. PICK l \in so.lines : c = [l EXCEPT !.status = "CANCELLED"]
      OBVIOUS
    <3>2. c.orderQty = l.orderQty /\ c.status = "CANCELLED"
      BY <1>l, <3>1 DEF SOLine
    <3> QED BY <1>l, <3>2 DEF LineGoesOn, AsOrdered
  <2>2. Stored(change, {})
    BY <1>2 DEF Cancel, OrderRequest
  <2> QED BY <1>s, <2>1, <2>2
<1>3. CASE Complete(p)
  <2> DEFINE change == {[l EXCEPT !.status = "CLOSED"] :
                          l \in {m \in so.lines : m.status # "CANCELLED"}}
  <2>1. ASSUME NEW c \in change
        PROVE  LineGoesOn(c)
    <3>1. PICK l \in so.lines : c = [l EXCEPT !.status = "CLOSED"]
      OBVIOUS
    <3>2. c.orderQty = l.orderQty /\ c.status = "CLOSED"
      BY <1>l, <3>1 DEF SOLine
    <3> QED BY <1>l, <3>2 DEF LineGoesOn, AsOrdered
  <2>2. Stored(change, {})
    BY <1>3 DEF Complete, OrderRequest
  <2> QED BY <1>s, <2>1, <2>2
<1>4. CASE Remove(p)
  <2>1. PICK r : r = [Idle EXCEPT !.pc = "soDelete"]
    OBVIOUS
  <2>2. RequestGoesOn(r)
    BY <2>1 DEF RequestGoesOn, Idle
  <2> QED BY <1>4, <2>1, <2>2, QuietGoesOn DEF Remove
<1>5. ASSUME NEW line \in NewLines, AddLine(p, line)
      PROVE  RemainderInv'
  <2>1. PICK n : n = [line EXCEPT !.num = IF @ = 0 THEN NextNum ELSE @]
    OBVIOUS
  <2>2. n.orderQty = line.orderQty
    BY <1>n, <2>1 DEF NewLine
  <2>3. AsOrdered(n)
    BY <1>n, <2>2 DEF AsOrdered
  <2>4. Stored({}, {n})
    BY <1>5, <2>1 DEF AddLine, OrderRequest
  <2> QED BY <1>s, <2>3, <2>4
<1>6. ASSUME NEW line \in so.lines, NEW qty \in Quantities, UpdateLine(p, line, qty)
      PROVE  RemainderInv'
  <2>1. PICK c : c = [line EXCEPT !.orderQty = qty]
    OBVIOUS
  <2>2. c.orderQty = qty /\ c.shippedQty = line.shippedQty /\ c.status = line.status
    BY <1>l, <2>1 DEF SOLine
  <2>3. qty \in Nat /\ line.orderQty <= qty
    BY ShippingAssumption DEF Known, ShippingInv, OrderOK, LineOK
  <2>4. line.orderQty \in Nat /\ line.shippedQty \in Nat
    BY <1>l DEF SOLine
  <2>5. AsOrdered(c)
    <3>1. PICK m \in Ordered : m.orderQty <= line.orderQty
      BY <1>l DEF LineGoesOn, AsOrdered
    <3>2. m.orderQty \in Nat
      BY ShippingAssumption DEF Ordered, SOLine, NewLine
    <3>3. m.orderQty <= qty
      BY <2>3, <2>4, <3>1, <3>2
    <3> QED BY <2>2, <3>3 DEF AsOrdered
  <2>6. line.shippedQty < line.orderQty => line.shippedQty < qty
    BY <2>3, <2>4
  <2>7. LineGoesOn(c)
    BY <1>l, <2>2, <2>5, <2>6 DEF LineGoesOn
  <2>8. Stored({c}, {})
    BY <1>6, <2>1 DEF UpdateLine, OrderRequest
  <2> QED BY <1>s, <2>7, <2>8
<1>7. ASSUME NEW line \in so.lines, DeleteLine(p, line)
      PROVE  RemainderInv'
  <2>1. PICK r : r = [Idle EXCEPT !.pc = "lineRead", !.num = line.num]
    OBVIOUS
  <2>2. RequestGoesOn(r)
    BY <2>1 DEF RequestGoesOn, Idle
  <2> QED BY <1>7, <2>1, <2>2, QuietGoesOn DEF DeleteLine
<1>8. ASSUME NEW linesToDelete, NEW existing, NEW new, new \subseteq NewLines,
             UpdateWithLines(p, linesToDelete, existing, new)
      PROVE  RemainderInv'
  <2>1. PICK r : r = [Store(so.status, {}, new, {l.id : l \in linesToDelete \cup existing})
                        EXCEPT !.keep = {l.id : l \in existing}]
    OBVIOUS
  <2>2. r.doc = {} /\ r.todo = {} /\ r.change = {} /\ r.add = new
    BY <2>1 DEF Store, Idle
  <2>3. RequestGoesOn(r)
    BY <1>n, <1>8, <2>2 DEF RequestGoesOn
  <2> QED BY <1>8, <2>1, <2>3, QuietGoesOn DEF UpdateWithLines, OrderRequest
<1>9. ASSUME NEW line \in so.lines,
             UpdateWithLines(p, {line}, {}, {}) \/ UpdateWithLines(p, {}, {line}, {})
      PROVE  RemainderInv'
  BY <1>8, <1>9
<1>10. ASSUME NEW line \in NewLines, UpdateWithLines(p, {}, {}, {line})
       PROVE  RemainderInv'
  <2>1. {line} \subseteq NewLines
    OBVIOUS
  <2> QED BY <1>8, <1>10, <2>1
<1> QED
  BY <1>1, <1>2, <1>3, <1>4, <1>5, <1>6, <1>7, <1>9, <1>10 DEF OrderEndpoint

LEMMA OrderWriteGoesOn ==
  ASSUME Known, RemainderInv, NEW p \in Workers,
         WriteOrder(p) \/ DeleteOrder(p) \/ ReadForDelete(p) \/ Abort(p)
  PROVE  RemainderInv'
<1>r. RequestGoesOn(req[p])
  BY DEF RemainderInv, RequestsGoOn
<1>1. CASE WriteOrder(p)
  <2>1. OrderGoesOn'
    BY <1>1, <1>r, WrittenGoesOn, SameOrderGoesOn DEF WriteOrder, RemainderInv
  <2> QED BY <1>1, <2>1, AnsweredGoesOn, SameIssuesGoOn DEF WriteOrder, RemainderInv
<1>2. CASE DeleteOrder(p)
  <2>1. so'.lines = {}
    BY <1>2 DEF DeleteOrder, Known, TypeInv, OrderTyped, Order
  <2>2. OrderGoesOn'
    BY <2>1 DEF OrderGoesOn
  <2> QED BY <1>2, <2>2, AnsweredGoesOn, SameIssuesGoOn DEF DeleteOrder, RemainderInv
<1>3. CASE ReadForDelete(p)
  <2>1. \A l \in so.lines : RequestGoesOn(Store(so.status, {}, {}, {l.id}))
    BY StoreGoesOn
  <2> QED BY <1>3, <2>1, IdleGoesOn, QuietGoesOn DEF ReadForDelete, Answer
<1>4. CASE Abort(p)
  BY <1>4, IdleGoesOn, QuietGoesOn DEF Abort, Answer
<1> QED BY <1>1, <1>2, <1>3, <1>4

LEMMA RemainderNext ==
  ASSUME OnlyRaised, Piecewise, Known, RemainderInv, [Next]_vars
  PROVE  RemainderInv'
<1>1. CASE UNCHANGED vars
  BY <1>1 DEF vars, RemainderInv, OrderGoesOn, IssuesGoOn, RequestsGoOn, RequestGoesOn,
              LineGoesOn, AsOrdered, Piece
<1>2. CASE Next
  BY <1>1, <1>2, GoodsIssueGoesOn, DraftIssueGoesOn, CompletionGoesOn, EndpointGoesOn,
     OrderWriteGoesOn DEF Next, Serve, Quiet
<1> QED BY <1>1, <1>2

LEMMA RemainderInit ==
  ASSUME Init
  PROVE  RemainderInv
<1>1. OrderGoesOn
  <2>1. so.lines = OrderLines
    BY DEF Init
  <2>2. \A l \in OrderLines : l \in Ordered /\ l.orderQty \in Nat /\ l.shippedQty = 0 /\ l.status = "OPEN"
    BY ShippingAssumption DEF Ordered, SOLine
  <2>3. \A l \in OrderLines : AsOrdered(l)
    BY <2>2 DEF AsOrdered
  <2> QED BY <2>1, <2>2, <2>3 DEF OrderGoesOn, LineGoesOn
<1>2. IssuesGoOn
  BY DEF Init, IssuesGoOn
<1>3. RequestsGoOn
  BY IdleGoesOn DEF Init, RequestsGoOn
<1> QED BY <1>1, <1>2, <1>3 DEF RemainderInv

LEMMA FirstOfLines ==
  ASSUME NEW lines, lines \subseteq SOLine, NEW l \in lines
  PROVE  \E m \in lines : First(m, lines)
<1> DEFINE nums == {m.num : m \in lines}
<1>1. nums \subseteq Nat /\ nums # {}
  BY DEF SOLine
<1>2. Min(nums) \in nums /\ \A x \in nums : Min(nums) <= x
  BY <1>1, MinOfNat
<1>3. PICK m \in lines : m.num = Min(nums)
  BY <1>2
<1> QED BY <1>2, <1>3 DEF First

(* Where no issue takes a whole line at once, a line that is open and not  *)
(* fully shipped can be shipped further as soon as no draft is pending,    *)
(* for any lines and issues, any number of requests at a time, and faults  *)
(* (createGoodsIssueFromSo: "First open line with matching SKU").          *)
THEOREM RemaindersAreIssuable ==
  ASSUME OnlyRaised, Piecewise
  PROVE  Spec => []RemainderIsIssuable
<1>1. Known /\ RemainderInv => RemainderIsIssuable
  <2> SUFFICES ASSUME Known, RemainderInv, Resting,
                      \A i \in IssueIds : issue[i].status # "DRAFT",
                      NEW l \in so.lines, l.status \in {"OPEN", "PARTIAL"}
               PROVE  Fits({[num |-> 1, sku |-> l.sku, quantity |-> 1, baseQty |-> 1]}, so.lines)
    BY DEF RemainderIsIssuable
  <2> DEFINE open == OpenLines(so.lines, l.sku)
  <2>1. so.lines \subseteq SOLine /\ l \in open /\ open \subseteq so.lines
    BY DEF Known, TypeInv, OrderTyped, Order, OpenLines
  <2>2. PICK m \in open : First(m, open)
    BY <2>1, FirstOfLines
  <2>3. m.shippedQty < m.orderQty /\ m.shippedQty \in Nat /\ m.orderQty \in Nat
    <3>1. LineGoesOn(m) /\ m \in SOLine /\ m.status \in {"OPEN", "PARTIAL"}
      BY <2>1, <2>2 DEF RemainderInv, OrderGoesOn, OpenLines
    <3>2. m.orderQty > 0
      BY <3>1, ShippingAssumption DEF LineGoesOn, AsOrdered, Ordered, SOLine, NewLine
    <3> QED BY <3>1, <3>2 DEF LineGoesOn, SOLine
  <2>4. Pending(l.sku) = 0
    <3>1. {j \in IssueIds : issue[j].status = "DRAFT"} = {}
      OBVIOUS
    <3> QED BY <3>1, SumEmpty DEF Pending, SumFunction
  <2>5. 1 + Pending(l.sku) + m.shippedQty <= m.orderQty
    BY <2>3, <2>4
  <2> QED BY <2>1, <2>2, <2>5 DEF Fits
<1>2. Init => Known /\ RemainderInv
  BY InitTyped, InitOK, RemainderInit DEF Known
<1>3. Known /\ RemainderInv /\ [Next]_vars => (Known /\ RemainderInv)'
  BY NextTyped, ShippingNext, RemainderNext DEF Known
<1> QED BY <1>1, <1>2, <1>3, PTL DEF Spec

================================================================================
