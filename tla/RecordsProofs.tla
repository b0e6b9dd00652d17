---------------------------- MODULE RecordsProofs ----------------------------
(***************************************************************************)
(* Proofs about the smaller modules, for any number of clients, requests,   *)
(* rows and values: what a request read holds until another one writes.     *)
(* The part of a behaviour keeps an invariant of three conjuncts: its       *)
(* tables are typed, every request holds what its next step needs (...Req), *)
(* and a request that no other overtook knows of the tables what its checks *)
(* found (...Knows).  The action properties follow step by step.  The       *)
(* numbers of documents rest on lemmas about digits and the order of        *)
(* strings, each proved from a least counterexample.                        *)
(***************************************************************************)
EXTENDS MCRecords, FiniteSums, TLAPS

\* The fields of a request.
Fields == {"op", "id", "row"}

\* What is so of the requests of every part.
Served ==
  /\ req = [c \in Clients |-> req[c]]
  /\ overtaken \subseteq Clients
  /\ left \in 0..MaxRequests

LEMMA DoingFields ==
  ASSUME NEW op, NEW id, NEW row
  PROVE  /\ DOMAIN Doing(op, id, row) = Fields
         /\ Doing(op, id, row).op = op
         /\ Doing(op, id, row).id = id
         /\ Doing(op, id, row).row = row
BY DEF Doing, Fields

LEMMA IdleFields == DOMAIN Idle = Fields /\ Idle.op = "idle"
BY DEF Idle, Fields

\* Accepting a request overtakes none; a write overtakes every open request
\* but its own.
LEMMA BeginServes ==
  ASSUME Served, NEW c \in Clients, NEW r, Ready(c), Begin(c, r)
  PROVE  /\ Served'
         /\ req' = [req EXCEPT ![c] = r]
         /\ overtaken \subseteq overtaken' \cup {c}
BY RequestAssumption DEF Served, Ready, Begin

LEMMA ProceedServes ==
  ASSUME Served, NEW c \in Clients, NEW r, Proceed(c, r)
  PROVE  /\ Served'
         /\ req' = [req EXCEPT ![c] = r]
         /\ overtaken \cup (Open \ {c}) \subseteq overtaken' \cup {c}
<1>1. overtaken' \subseteq Clients
  BY DEF Proceed, Served, Open
<1>2. left' = left /\ req' = [req EXCEPT ![c] = r]
  BY DEF Proceed
<1> QED
  BY <1>1, <1>2 DEF Served, Proceed

LEMMA AnswerServes ==
  ASSUME Served, NEW c \in Clients, Answer(c)
  PROVE  /\ Served'
         /\ req' = [req EXCEPT ![c] = Idle]
         /\ overtaken \cup (Open \ {c}) \subseteq overtaken' \cup {c}
<1>1. overtaken' \subseteq Clients
  BY DEF Answer, Served, Open
<1>2. left' = left /\ req' = [req EXCEPT ![c] = Idle]
  BY DEF Answer
<1> QED
  BY <1>1, <1>2 DEF Served, Answer

LEMMA AbandonServes ==
  ASSUME Served, NEW c \in Clients, Abandon(c)
  PROVE  /\ Served'
         /\ req' = [req EXCEPT ![c] = Idle]
         /\ overtaken \subseteq overtaken' \cup {c}
BY DEF Served, Abandon

\* A client other than the one that writes has no open request, or is
\* overtaken.
LEMMA OthersOvertaken ==
  ASSUME NEW c \in Clients, NEW d \in Clients, d # c, Served, NEW r,
         req' = [req EXCEPT ![c] = r],
         overtaken \cup (Open \ {c}) \subseteq overtaken' \cup {c},
         d \notin overtaken'
  PROVE  req'[d] = Idle
BY DEF Served, Open

LEMMA Answered ==
  ASSUME Served, NEW c \in Clients, Answer(c), req[c].op # "idle"
  PROVE  Answers(c)
BY IdleFields DEF Answers, Answer, Served

\* Every set of ids has a first one.
LEMMA FirstOf ==
  ASSUME NEW S, S \subseteq Nat, S # {}
  PROVE  \E y \in S : \A z \in S : y <= z
BY MinOfNat

\* A row is inserted at an id that no row has had.
LEMMA InsertedAt ==
  ASSUME NEW t, NEW row, Free(t) # {}, DOMAIN t \subseteq Nat
  PROVE  \E x \in Free(t) : Inserted(t, row) = [t EXCEPT ![x] = row]
<1>1. \E y \in Free(t) : \A z \in Free(t) : y <= z
  BY FirstOf DEF Free
<1> DEFINE x == CHOOSE y \in Free(t) : \A z \in Free(t) : y <= z
<1>2. x \in Free(t)
  BY <1>1
<1>3. Inserted(t, row) = [t EXCEPT ![x] = row]
  BY DEF Inserted
<1> QED
  BY <1>2, <1>3

\* What the request of a partner handler holds.
PartnerReq(r) ==
  /\ DOMAIN r = Fields
  /\ r.op = "insertCustomer" => r.row \in CustomerRow
  /\ r.op = "saveCustomer" => r.id \in CustomerIds /\ r.row \in CustomerRow
  /\ r.op \in {"unsetThenInsert", "insertAddress"}
       => r.id = None /\ r.row \in AddressRow
  /\ r.op \in {"unsetThenSave", "saveAddress", "keepAddress"}
       => r.id \in AddressIds /\ r.row \in AddressRow
  /\ r.op \in {"insertSupplier", "saveSupplier", "setSupplier"}
       => r.row \in SupplierRow
  /\ r.op = "activateSupplier" => r.row \in BOOLEAN
  /\ r.op = "insertPackaging" => r.row \in PackagingRow
  /\ r.op = "savePackaging" =>
       /\ DOMAIN r.row = {"dto", "base"} /\ r.row.dto \in UpdatePackagingDto
       /\ r.row.base \in Nat \cup {Absent}
  /\ r.op = "recalculate" =>
       /\ DOMAIN r.row = {"todo", "base", "per", "at"}
       /\ r.row.todo \subseteq Levels /\ r.row.todo # {}
       /\ \A l \in r.row.todo : r.row.per[l] \in Ratios
                                /\ r.row.at[l] \in PackagingIds
       /\ r.row.base # None =>
            r.row.base[1] \in r.row.todo /\ r.row.base[2] \in Nat

\* What it knows of the tables, until another request writes: the customer
\* that is blacklisted stays so, the supplier stays as active as it is, and
\* the default it makes is the only one of its type.
PartnerKnows(r) ==
  /\ r.op = "saveCustomer" /\ customer[r.id].status = "BLACKLIST"
       => r.row.status = "BLACKLIST"
  /\ r.op = "saveSupplier" => r.row.active = supplier[r.id].active
  /\ r.op = "insertAddress" /\ r.row.default
       => Defaults(r.row.customer, r.row.type) = {}
  /\ r.op = "saveAddress" /\ r.row.default
       => Defaults(r.row.customer, r.row.type) \subseteq {r.id}
  /\ r.op = "keepAddress" =>
       /\ r.row.customer = address[r.id].customer
       /\ r.row.default = address[r.id].default

\* A supplier item has one packaging of a level.
OneOfALevel ==
  \A p, q \in Live(packaging) :
    packaging[p].of = packaging[q].of /\ packaging[p].level = packaging[q].level
      => p = q

PartnerInv ==
  /\ Served /\ PartnersTyped /\ OneOfALevel
  /\ \A c \in Clients : PartnerReq(req[c])
  /\ \A c \in Clients \ overtaken : PartnerKnows(req[c])

LEMMA IdlePartner == PartnerReq(Idle) /\ PartnerKnows(Idle)
BY IdleFields DEF PartnerReq, PartnerKnows

\* A step that leaves the tables alone, and one that writes.
LEMMA PartnerQuiet ==
  ASSUME PartnerInv, NEW c \in Clients, NEW r,
         UNCHANGED partnerVars, Served',
         req' = [req EXCEPT ![c] = r],
         overtaken \subseteq overtaken' \cup {c},
         PartnerReq(r), c \notin overtaken' => PartnerKnows(r)
  PROVE  PartnerInv'
<1>1. (PartnersTyped /\ OneOfALevel)'
  BY DEF PartnerInv, partnerVars, tables, PartnersTyped, OneOfALevel, Live
<1>2. req'[c] = r /\ \A d \in Clients \ {c} : req'[d] = req[d]
  BY DEF PartnerInv, Served
<1>3. \A d \in Clients : PartnerReq(req'[d])
  BY <1>2 DEF PartnerInv
<1>4. \A s : PartnerKnows(s) => PartnerKnows(s)'
  BY DEF partnerVars, tables, PartnerKnows, Defaults, Live
<1>5. ASSUME NEW d \in Clients \ overtaken'
      PROVE  PartnerKnows(req[d])'
  <2>1. CASE d = c
    <3>1. PartnerKnows(r)'
      BY <2>1, <1>4, <1>5
    <3> QED
      BY <3>1, <2>1, <1>2 DEF PartnerKnows, Defaults, Live
  <2>2. CASE d # c
    <3>1. PICK s : s = req[d]
      OBVIOUS
    <3>2. PartnerKnows(s)'
      BY <2>2, <3>1, <1>4, <1>5 DEF PartnerInv
    <3>3. req'[d] = s
      BY <2>2, <3>1, <1>2
    <3> QED
      BY <3>2, <3>3 DEF PartnerKnows, Defaults, Live
  <2> QED
    BY <2>1, <2>2
<1> QED
  BY <1>1, <1>3, <1>5 DEF PartnerInv, PartnerReq

LEMMA PartnerWrites ==
  ASSUME PartnerInv, NEW c \in Clients, NEW r,
         PartnersTyped', OneOfALevel', Served',
         req' = [req EXCEPT ![c] = r],
         overtaken \cup (Open \ {c}) \subseteq overtaken' \cup {c},
         PartnerReq(r), c \notin overtaken' => PartnerKnows(r)'
  PROVE  PartnerInv'
<1>2. req'[c] = r /\ \A d \in Clients \ {c} : req'[d] = req[d]
  BY DEF PartnerInv, Served
<1>3. \A d \in Clients : PartnerReq(req'[d])
  BY <1>2 DEF PartnerInv
<1>5. ASSUME NEW d \in Clients \ overtaken'
      PROVE  PartnerKnows(req[d])'
  <2>1. CASE d = c
    BY <2>1, <1>2, <1>5 DEF PartnerKnows, Defaults, Live
  <2>2. CASE d # c
    <3>1. req'[d] = Idle
      BY <2>2, <1>5, OthersOvertaken DEF PartnerInv
    <3> QED
      BY <3>1, IdleFields DEF PartnerKnows
  <2> QED
    BY <2>1, <2>2
<1> QED
  BY <1>3, <1>5 DEF PartnerInv, PartnerReq

\* A request is accepted; one is given up; a last write.
LEMMA PartnerBegins ==
  ASSUME PartnerInv, NEW c \in Clients, UNCHANGED partnerVars, Ready(c),
         NEW op, NEW id, NEW row, Begin(c, Doing(op, id, row)),
         PartnerReq(Doing(op, id, row)), PartnerKnows(Doing(op, id, row))
  PROVE  PartnerInv'
<1> PICK r : r = Doing(op, id, row)
  OBVIOUS
<1>1. Served' /\ req' = [req EXCEPT ![c] = r]
      /\ overtaken \subseteq overtaken' \cup {c}
  BY BeginServes DEF PartnerInv
<1>2. PartnerReq(r) /\ PartnerKnows(r)
  OBVIOUS
<1> QED
  BY <1>1, <1>2, PartnerQuiet

LEMMA PartnerAbandons ==
  ASSUME PartnerInv, NEW c \in Clients, AbandonPartner(c)
  PROVE  PartnerInv'
<1>1. Served' /\ req' = [req EXCEPT ![c] = Idle]
      /\ overtaken \subseteq overtaken' \cup {c}
  BY AbandonServes DEF PartnerInv, AbandonPartner
<1> QED
  BY <1>1, IdlePartner, PartnerQuiet DEF AbandonPartner

LEMMA PartnerAnswers ==
  ASSUME PartnerInv, NEW c \in Clients, PartnersTyped', OneOfALevel', Answer(c)
  PROVE  PartnerInv'
<1>1. Served' /\ req' = [req EXCEPT ![c] = Idle]
      /\ overtaken \cup (Open \ {c}) \subseteq overtaken' \cup {c}
  BY AnswerServes DEF PartnerInv
<1>2. PartnerKnows(Idle)'
  BY IdleFields DEF PartnerKnows
<1> QED
  BY <1>1, <1>2, IdlePartner, PartnerWrites

-----------------------------------------------------------------------------
(* Requests of the handlers of customers, addresses and suppliers.         *)

LEMMA CustomersTyped ==
  ASSUME NEW dto \in CreateCustomerDto
  PROVE  NewCustomer(dto) \in CustomerRow
BY DEF CreateCustomerDto, NewCustomer, CustomerRow, CustomerStatus, Given

LEMMA CustomerBecomes ==
  ASSUME NEW row \in CustomerRow, NEW status \in CustomerStatus,
         MayBecome(row, status)
  PROVE  /\ Become(row, status) \in CustomerRow
         /\ row.status = "BLACKLIST" => Become(row, status).status = "BLACKLIST"
BY DEF CustomerRow, Become, MayBecome

LEMMA CustomerPatches ==
  ASSUME NEW row \in CustomerRow, NEW dto \in UpdateCustomerDto,
         dto.status # Absent => MayBecome(row, dto.status)
  PROVE  /\ CustomerPatched(row, dto) \in CustomerRow
         /\ row.status = "BLACKLIST"
              => CustomerPatched(row, dto).status = "BLACKLIST"
<1>1. CASE dto.status = Absent
  BY <1>1 DEF CustomerPatched
<1>2. CASE dto.status # Absent
  <2>1. dto.status \in CustomerStatus
    BY <1>2 DEF UpdateCustomerDto
  <2> QED
    BY <1>2, <2>1, CustomerBecomes DEF CustomerPatched
<1> QED
  BY <1>1, <1>2

LEMMA CustomerRequestOK ==
  ASSUME PartnerInv, NEW c \in Clients, Ready(c), UNCHANGED partnerVars,
         CustomerRequest(c)
  PROVE  PartnerInv'
<1>0. customer \in [CustomerIds -> CustomerRow] /\ Live(customer) \subseteq CustomerIds
  BY DEF PartnerInv, PartnersTyped, Live
<1>1. ASSUME NEW k \in Live(customer), NEW row \in CustomerRow,
             customer[k].status = "BLACKLIST" => row.status = "BLACKLIST",
             Begin(c, Doing("saveCustomer", k, row))
      PROVE  PartnerInv'
  <2>1. PartnerReq(Doing("saveCustomer", k, row))
    BY <1>0, <1>1, DoingFields DEF PartnerReq
  <2>2. PartnerKnows(Doing("saveCustomer", k, row))
    BY <1>0, <1>1, DoingFields DEF PartnerKnows
  <2> QED
    BY <1>1, <2>1, <2>2, PartnerBegins
<1>2. CASE CreateCustomer(c)
  <2>1. PICK dto \in CreateCustomerDto :
          Begin(c, Doing("insertCustomer", None, NewCustomer(dto)))
    BY <1>2 DEF CreateCustomer
  <2>2. PICK row \in CustomerRow : row = NewCustomer(dto)
    BY CustomersTyped
  <2>3. PartnerReq(Doing("insertCustomer", None, row))
    BY DoingFields DEF PartnerReq
  <2>4. PartnerKnows(Doing("insertCustomer", None, row))
    BY DoingFields DEF PartnerKnows
  <2> QED
    BY <2>1, <2>2, <2>3, <2>4, PartnerBegins
<1>3. CASE UpdateCustomer(c)
  <2>1. PICK k \in Live(customer), dto \in UpdateCustomerDto :
          /\ dto.status # Absent => MayBecome(customer[k], dto.status)
          /\ Begin(c, Doing("saveCustomer", k, CustomerPatched(customer[k], dto)))
    BY <1>3 DEF UpdateCustomer
  <2>2. PICK row : row = CustomerPatched(customer[k], dto)
    OBVIOUS
  <2>3. row \in CustomerRow
        /\ (customer[k].status = "BLACKLIST" => row.status = "BLACKLIST")
    BY <1>0, <2>1, <2>2, CustomerPatches
  <2> QED
    BY <1>1, <2>1, <2>2, <2>3
<1>4. ASSUME NEW status \in CustomerStatus, SetCustomer(c, status)
      PROVE  PartnerInv'
  <2>1. PICK k \in Live(customer) :
          /\ MayBecome(customer[k], status)
          /\ Begin(c, Doing("saveCustomer", k, Become(customer[k], status)))
    BY <1>4 DEF SetCustomer
  <2>2. PICK row : row = Become(customer[k], status)
    OBVIOUS
  <2>3. row \in CustomerRow
        /\ (customer[k].status = "BLACKLIST" => row.status = "BLACKLIST")
    BY <1>0, <2>1, <2>2, CustomerBecomes
  <2> QED
    BY <1>1, <2>1, <2>2, <2>3
<1>5. CASE RemoveCustomer(c)
  <2>1. PICK k \in Live(customer) : Begin(c, Doing("deleteCustomer", k, None))
    BY <1>5 DEF RemoveCustomer
  <2>2. PartnerReq(Doing("deleteCustomer", k, None))
    BY DoingFields DEF PartnerReq
  <2>3. PartnerKnows(Doing("deleteCustomer", k, None))
    BY DoingFields DEF PartnerKnows
  <2> QED
    BY <2>1, <2>2, <2>3, PartnerBegins
<1> QED
  BY <1>2, <1>3, <1>4, <1>5 DEF CustomerRequest, ActivateCustomer,
     DeactivateCustomer, BlacklistCustomer, CustomerStatus

LEMMA AddressPatches ==
  ASSUME NEW row \in AddressRow, NEW dto \in UpdateAddressDto
  PROVE  /\ AddressPatched(row, dto) \in AddressRow
         /\ AddressPatched(row, dto).customer = row.customer
         /\ AddressPatched(row, dto).default = Given(dto.default, row.default)
BY DEF AddressRow, UpdateAddressDto, AddressPatched, Given

LEMMA AddressRequestOK ==
  ASSUME PartnerInv, NEW c \in Clients, Ready(c), UNCHANGED partnerVars,
         AddressRequest(c)
  PROVE  PartnerInv'
<1>0. address \in [AddressIds -> AddressRow] /\ Live(address) \subseteq AddressIds
  BY DEF PartnerInv, PartnersTyped, Live
<1>1. CASE CreateAddress(c)
  <2>1. PICK dto \in CreateAddressDto :
          Begin(c, Doing(IF dto.default /\ Defaults(dto.customer, dto.type) # {}
                         THEN "unsetThenInsert" ELSE "insertAddress",
                         None, NewAddress(dto)))
    BY <1>1 DEF CreateAddress
  <2>2. PICK row : row = NewAddress(dto)
    OBVIOUS
  <2>3. row \in AddressRow /\ row.customer = dto.customer
        /\ row.type = dto.type /\ row.default = dto.default
    BY <2>2 DEF NewAddress, CreateAddressDto, AddressRow
  <2>4. CASE dto.default /\ Defaults(dto.customer, dto.type) # {}
    <3>1. PartnerReq(Doing("unsetThenInsert", None, row))
      BY <2>3, DoingFields DEF PartnerReq
    <3>2. PartnerKnows(Doing("unsetThenInsert", None, row))
      BY DoingFields DEF PartnerKnows
    <3> QED
      BY <2>1, <2>2, <2>4, <3>1, <3>2, PartnerBegins
  <2>5. CASE ~(dto.default /\ Defaults(dto.customer, dto.type) # {})
    <3>1. PartnerReq(Doing("insertAddress", None, row))
      BY <2>3, DoingFields DEF PartnerReq
    <3>2. PartnerKnows(Doing("insertAddress", None, row))
      BY <2>3, <2>5, DoingFields DEF PartnerKnows
    <3> QED
      BY <2>1, <2>2, <2>5, <3>1, <3>2, PartnerBegins
  <2> QED
    BY <2>4, <2>5
<1>2. CASE UpdateAddress(c)
  <2>1. PICK a \in Live(address), dto \in UpdateAddressDto :
          Begin(c, Doing(CASE dto.default = TRUE -> "unsetThenSave"
                           [] dto.default = FALSE -> "saveAddress"
                           [] OTHER -> "keepAddress",
                         a, AddressPatched(address[a], dto)))
    BY <1>2 DEF UpdateAddress
  <2>2. PICK row : row = AddressPatched(address[a], dto)
    OBVIOUS
  <2>3. row \in AddressRow /\ row.customer = address[a].customer
        /\ row.default = Given(dto.default, address[a].default)
    BY <1>0, <2>2, AddressPatches
  <2>4. CASE dto.default = TRUE
    <3>1. PartnerReq(Doing("unsetThenSave", a, row))
      BY <1>0, <2>3, DoingFields DEF PartnerReq
    <3>2. PartnerKnows(Doing("unsetThenSave", a, row))
      BY DoingFields DEF PartnerKnows
    <3> QED
      BY <2>1, <2>2, <2>4, <3>1, <3>2, PartnerBegins
  <2>5. CASE dto.default = FALSE
    <3>0. row.default = FALSE
      BY <2>3, <2>5, RequestAssumption DEF Given
    <3>1. PartnerReq(Doing("saveAddress", a, row))
      BY <1>0, <2>3, DoingFields DEF PartnerReq
    <3>2. PartnerKnows(Doing("saveAddress", a, row))
      BY <3>0, DoingFields DEF PartnerKnows
    <3>3. Begin(c, Doing("saveAddress", a, row))
      BY <2>1, <2>2, <2>5
    <3> QED
      BY <3>1, <3>2, <3>3, PartnerBegins
  <2>6. CASE dto.default # TRUE /\ dto.default # FALSE
    <3>0. dto.default = Absent
      BY <2>6 DEF UpdateAddressDto
    <3>1. PartnerReq(Doing("keepAddress", a, row))
      BY <1>0, <2>3, DoingFields DEF PartnerReq
    <3>2. PartnerKnows(Doing("keepAddress", a, row))
      BY <3>0, <2>3, DoingFields DEF PartnerKnows, Given
    <3>3. Begin(c, Doing("keepAddress", a, row))
      BY <2>1, <2>2, <2>6
    <3> QED
      BY <3>1, <3>2, <3>3, PartnerBegins
  <2> QED
    BY <2>4, <2>5, <2>6
<1>3. CASE RemoveAddress(c)
  <2>1. PICK a \in Live(address) : Begin(c, Doing("deleteAddress", a, None))
    BY <1>3 DEF RemoveAddress
  <2>2. PartnerReq(Doing("deleteAddress", a, None))
    BY DoingFields DEF PartnerReq
  <2>3. PartnerKnows(Doing("deleteAddress", a, None))
    BY DoingFields DEF PartnerKnows
  <2> QED
    BY <2>1, <2>2, <2>3, PartnerBegins
<1> QED
  BY <1>1, <1>2, <1>3 DEF AddressRequest

LEMMA SupplierRequestOK ==
  ASSUME PartnerInv, NEW c \in Clients, Ready(c), UNCHANGED partnerVars,
         SupplierRequest(c)
  PROVE  PartnerInv'
<1>0. supplier \in [SupplierIds -> SupplierRow] /\ Live(supplier) \subseteq SupplierIds
  BY DEF PartnerInv, PartnersTyped, Live
<1>1. ASSUME NEW id, NEW row \in SupplierRow,
             NEW op \in {"insertSupplier", "saveSupplier", "setSupplier"},
             op = "saveSupplier" => row.active = supplier[id].active,
             Begin(c, Doing(op, id, row))
      PROVE  PartnerInv'
  <2>1. PartnerReq(Doing(op, id, row))
    BY <1>1, DoingFields DEF PartnerReq
  <2>2. PartnerKnows(Doing(op, id, row))
    BY <1>1, DoingFields DEF PartnerKnows
  <2> QED
    BY <1>1, <2>1, <2>2, PartnerBegins
<1>2. CASE CreateSupplier(c)
  <2>1. PICK dto \in CreateSupplierDto :
          Begin(c, Doing("insertSupplier", None, NewSupplier(dto)))
    BY <1>2 DEF CreateSupplier
  <2>2. NewSupplier(dto) \in SupplierRow
    BY DEF CreateSupplierDto, NewSupplier, SupplierRow
  <2> QED
    BY <1>1, <2>1, <2>2
<1>3. CASE UpdateSupplier(c)
  <2>1. PICK s \in Live(supplier), dto \in UpdateSupplierDto :
          Begin(c, Doing(IF dto.active = Absent THEN "saveSupplier"
                         ELSE "setSupplier",
                         s, SupplierPatched(supplier[s], dto)))
    BY <1>3 DEF UpdateSupplier
  <2>2. PICK row : row = SupplierPatched(supplier[s], dto)
    OBVIOUS
  <2>3. row \in SupplierRow /\ (dto.active = Absent => row.active = supplier[s].active)
    BY <1>0, <2>2 DEF SupplierPatched, SupplierRow, UpdateSupplierDto, Given
  <2>4. CASE dto.active = Absent
    BY <1>1, <2>1, <2>2, <2>3, <2>4
  <2>5. CASE dto.active # Absent
    BY <1>1, <2>1, <2>2, <2>3, <2>5
  <2> QED
    BY <2>4, <2>5
<1>4. ASSUME NEW s, NEW op \in {"deleteSupplier", "activateSupplier"}, NEW row,
             op = "activateSupplier" => row \in BOOLEAN,
             Begin(c, Doing(op, s, row))
      PROVE  PartnerInv'
  <2>1. PartnerReq(Doing(op, s, row))
    BY <1>4, DoingFields DEF PartnerReq
  <2>2. PartnerKnows(Doing(op, s, row))
    BY <1>4, DoingFields DEF PartnerKnows
  <2> QED
    BY <1>4, <2>1, <2>2, PartnerBegins
<1> QED
  BY <1>2, <1>3, <1>4 DEF SupplierRequest, RemoveSupplier, ActivateSupplier,
     DeactivateSupplier

-----------------------------------------------------------------------------
(* Requests about packagings.                                              *)

\* What is calculated is a number when the level below has its number: it has
\* one packaging.
LEMMA CalculatedIsNat ==
  ASSUME PartnerInv, NEW s, NEW l \in Levels, NEW per \in Ratios,
         Calculable(s, l)
  PROVE  QtyToBase(s, l, per) \in Nat
<1>0. per \in Nat
  BY PartnerAssumption
<1>1. CASE l = 1
  BY <1>0, <1>1 DEF QtyToBase
<1>2. CASE l # 1
  <2>1. PICK p \in At(s, l - 1) : packaging[p].base # None
    BY <1>2 DEF Calculable
  <2>2. (CHOOSE q \in At(s, l - 1) : TRUE) \in At(s, l - 1)
    BY <2>1
  <2>3. PICK q \in At(s, l - 1) : q = CHOOSE x \in At(s, l - 1) : TRUE
    BY <2>2
  <2>4. q = p
    BY DEF At, PartnerInv, OneOfALevel
  <2>5. packaging[p].base \in Nat
    BY <2>1 DEF At, Live, PartnerInv, PartnersTyped, PackagingRow
  <2>6. QtyToBase(s, l, per) = per * packaging[q].base
    BY <1>2, <2>3 DEF QtyToBase
  <2>7. PICK b \in Nat : b = packaging[q].base
    BY <2>4, <2>5
  <2> QED
    BY <1>0, <2>6, <2>7
<1> QED
  BY <1>1, <1>2

LEMMA PackagingRequestOK ==
  ASSUME PartnerInv, NEW c \in Clients, Ready(c), UNCHANGED partnerVars,
         PackagingRequest(c)
  PROVE  PartnerInv'
<1>0. /\ packaging \in [PackagingIds -> PackagingRow]
      /\ Live(packaging) \subseteq PackagingIds
  BY DEF PartnerInv, PartnersTyped, Live
<1>1. CASE CreatePackaging(c)
  <2>1. PICK dto \in CreatePackagingDto :
          /\ dto.base = Absent => Calculable(dto.of, dto.level)
          /\ Begin(c, Doing("insertPackaging", None,
               [st |-> "live", of |-> dto.of, level |-> dto.level,
                per |-> dto.per,
                base |-> IF dto.base = Absent
                         THEN QtyToBase(dto.of, dto.level, dto.per)
                         ELSE dto.base]))
    BY <1>1 DEF CreatePackaging
  <2>2. dto.of \in SupplierItems /\ dto.level \in Levels /\ dto.per \in Ratios
        /\ dto.base \in Ratios \cup {Absent}
    BY DEF CreatePackagingDto
  <2>3. PICK b : b = IF dto.base = Absent THEN QtyToBase(dto.of, dto.level, dto.per)
                     ELSE dto.base
    OBVIOUS
  <2>4. b \in Nat
    BY <2>1, <2>2, <2>3, CalculatedIsNat, PartnerAssumption
  <2>5. PICK row : row = [st |-> "live", of |-> dto.of, level |-> dto.level,
                          per |-> dto.per, base |-> b]
    OBVIOUS
  <2>6. row \in PackagingRow
    BY <2>2, <2>4, <2>5 DEF PackagingRow
  <2>7. Begin(c, Doing("insertPackaging", None, row))
    BY <2>1, <2>3, <2>5
  <2>8. PartnerReq(Doing("insertPackaging", None, row))
    BY <2>6, DoingFields DEF PartnerReq
  <2>9. PartnerKnows(Doing("insertPackaging", None, row))
    BY DoingFields DEF PartnerKnows
  <2> QED
    BY <2>7, <2>8, <2>9, PartnerBegins
<1>2. CASE UpdatePackaging(c)
  <2>0. PICK p \in Live(packaging), dto \in UpdatePackagingDto :
          LET new == PackagingPatched(packaging[p], dto)
              calculates == dto.per # Absent /\ dto.base = Absent
          IN  /\ calculates => Calculable(new.of, new.level)
              /\ Begin(c, Doing("savePackaging", p,
                   [dto |-> dto,
                    base |-> IF calculates
                             THEN QtyToBase(new.of, new.level, new.per)
                             ELSE dto.base]))
    BY <1>2 DEF UpdatePackaging
  <2> PICK new : new = PackagingPatched(packaging[p], dto)
    OBVIOUS
  <2> DEFINE calculates == dto.per # Absent /\ dto.base = Absent
  <2>1. /\ calculates => Calculable(new.of, new.level)
        /\ Begin(c, Doing("savePackaging", p,
             [dto |-> dto,
              base |-> IF calculates THEN QtyToBase(new.of, new.level, new.per)
                       ELSE dto.base]))
    BY <2>0
  <2>2. packaging[p] \in PackagingRow
    BY <1>0
  <2>3. new.level \in Levels /\ new.per \in Ratios
    BY <2>2 DEF PackagingPatched, PackagingRow, UpdatePackagingDto, Given
  <2>4. PICK b : b = IF calculates THEN QtyToBase(new.of, new.level, new.per)
                     ELSE dto.base
    OBVIOUS
  <2>5. b \in Nat \cup {Absent}
    <3>1. CASE calculates
      BY <2>1, <2>3, <2>4, <3>1, CalculatedIsNat
    <3>2. CASE ~ calculates
      BY <2>4, <3>2, PartnerAssumption DEF UpdatePackagingDto
    <3> QED
      BY <3>1, <3>2
  <2>6. PICK row : row = [dto |-> dto, base |-> b]
    OBVIOUS
  <2>7. PartnerReq(Doing("savePackaging", p, row))
    BY <2>5, <2>6, DoingFields DEF PartnerReq
  <2>8. PartnerKnows(Doing("savePackaging", p, row))
    BY DoingFields DEF PartnerKnows
  <2>9. Begin(c, Doing("savePackaging", p, row))
    BY <2>1, <2>4, <2>6
  <2> QED
    BY <2>7, <2>8, <2>9, PartnerBegins
<1>3. CASE RemovePackaging(c)
  <2>1. PICK p \in Live(packaging) : Begin(c, Doing("deletePackaging", p, None))
    BY <1>3 DEF RemovePackaging
  <2>2. PartnerReq(Doing("deletePackaging", p, None))
    BY DoingFields DEF PartnerReq
  <2>3. PartnerKnows(Doing("deletePackaging", p, None))
    BY DoingFields DEF PartnerKnows
  <2> QED
    BY <2>1, <2>2, <2>3, PartnerBegins
<1>4. CASE RecalculateQtyToBase(c)
  <2>1. PICK s \in SupplierItems :
          /\ LevelsOf(s) # {}
          /\ Begin(c, Doing("recalculate", s,
               [todo |-> LevelsOf(s), base |-> None,
                per |-> [l \in LevelsOf(s) |-> packaging[CHOOSE p \in At(s, l) :
                                                           TRUE].per],
                at |-> [l \in LevelsOf(s) |-> CHOOSE p \in At(s, l) : TRUE]]))
    BY <1>4 DEF RecalculateQtyToBase
  <2> DEFINE per == [l \in LevelsOf(s) |-> packaging[CHOOSE p \in At(s, l) :
                                                       TRUE].per]
             at == [l \in LevelsOf(s) |-> CHOOSE p \in At(s, l) : TRUE]
  <2>2. \A l \in LevelsOf(s) : /\ l \in Levels /\ at[l] \in PackagingIds
                               /\ per[l] = packaging[at[l]].per
    BY <1>0 DEF LevelsOf, At
  <2> HIDE DEF per, at
  <2>3. \A l \in LevelsOf(s) : per[l] \in Ratios
    BY <1>0, <2>2 DEF PackagingRow
  <2>4. PICK row : row = [todo |-> LevelsOf(s), base |-> None, per |-> per,
                          at |-> at]
    OBVIOUS
  <2>5. PartnerReq(Doing("recalculate", s, row))
    <3>1. /\ DOMAIN row = {"todo", "base", "per", "at"}
          /\ row.todo = LevelsOf(s) /\ row.base = None
          /\ row.per = per /\ row.at = at
      BY <2>4
    <3>2. LevelsOf(s) \subseteq Levels
      BY DEF LevelsOf
    <3> QED
      BY <2>1, <2>2, <2>3, <3>1, <3>2, DoingFields DEF PartnerReq
  <2>6. PartnerKnows(Doing("recalculate", s, row))
    BY DoingFields DEF PartnerKnows
  <2>7. Begin(c, Doing("recalculate", s, row))
    BY <2>1, <2>4 DEF per, at
  <2> QED
    BY <2>5, <2>6, <2>7, PartnerBegins
<1> QED
  BY <1>1, <1>2, <1>3, <1>4 DEF PackagingRequest

-----------------------------------------------------------------------------
(* The writes.                                                             *)

\* What is written in a table of rows is a table of rows.
LEMMA InsertedTyped ==
  ASSUME NEW S, NEW R, NEW t \in [S -> R], NEW row \in R
  PROVE  Inserted(t, row) \in [S -> R]
BY DEF Inserted

LEMMA SaveCustomerOK ==
  ASSUME PartnerInv, NEW c \in Clients, SaveCustomer(c)
  PROVE  PartnerInv'
<1> DEFINE r == req[c]
<1>0. /\ customer \in [CustomerIds -> CustomerRow]
      /\ address \in [AddressIds -> AddressRow]
      /\ PartnerReq(r)
  BY DEF PartnerInv, PartnersTyped
<1>1. UNCHANGED <<supplier, packaging, ordered, supplied>> /\ Answer(c)
  BY DEF SaveCustomer
<1>2. customer' \in [CustomerIds -> CustomerRow]
      /\ address' \in [AddressIds -> AddressRow]
  <2>1. CASE r.op = "insertCustomer" /\ customer' = Inserted(customer, r.row)
                                     /\ UNCHANGED address
    BY <1>0, <2>1, InsertedTyped DEF PartnerReq
  <2>2. CASE r.op = "saveCustomer" /\ UNCHANGED address
             /\ customer' = [customer EXCEPT ![r.id].status = r.row.status,
                                             ![r.id].active = r.row.active]
    BY <1>0, <2>2 DEF PartnerReq, CustomerRow
  <2>3. CASE r.op = "deleteCustomer" /\ customer' = Deleted(customer, r.id)
             /\ address' = [a \in AddressIds |->
                  IF address[a].st = "live" /\ address[a].customer = r.id
                  THEN [address[a] EXCEPT !.st = "gone"] ELSE address[a]]
    <3>1. customer' \in [CustomerIds -> CustomerRow]
      BY <1>0, <2>3 DEF Deleted, CustomerRow
    <3>2. \A a \in AddressIds : [address[a] EXCEPT !.st = "gone"] \in AddressRow
      BY <1>0 DEF AddressRow
    <3> QED
      BY <1>0, <2>3, <3>1, <3>2
  <2> QED
    BY <2>1, <2>2, <2>3 DEF SaveCustomer
<1>3. (PartnersTyped /\ OneOfALevel)'
  BY <1>1, <1>2 DEF PartnerInv, PartnersTyped, OneOfALevel, Live
<1> QED
  BY <1>1, <1>3, PartnerAnswers

LEMMA SaveAddressOK ==
  ASSUME PartnerInv, NEW c \in Clients, SaveAddress(c)
  PROVE  PartnerInv'
<1> DEFINE r == req[c]
<1>0. address \in [AddressIds -> AddressRow] /\ PartnerReq(r)
  BY DEF PartnerInv, PartnersTyped
<1>1. UNCHANGED <<customer, supplier, packaging, ordered, supplied>> /\ Answer(c)
  BY DEF SaveAddress
<1>2. address' \in [AddressIds -> AddressRow]
  <2>1. CASE r.op = "insertAddress" /\ address' = Inserted(address, r.row)
    BY <1>0, <2>1, InsertedTyped DEF PartnerReq
  <2>2. CASE r.op \in {"saveAddress", "keepAddress"}
             /\ address' = [address EXCEPT ![r.id] = r.row]
    BY <1>0, <2>2 DEF PartnerReq
  <2>3. CASE address' = Deleted(address, r.id)
    BY <1>0, <2>3 DEF Deleted, AddressRow
  <2> QED
    BY <2>1, <2>2, <2>3 DEF SaveAddress
<1>3. (PartnersTyped /\ OneOfALevel)'
  BY <1>1, <1>2 DEF PartnerInv, PartnersTyped, OneOfALevel, Live
<1> QED
  BY <1>1, <1>3, PartnerAnswers

\* The default that gives way leaves the new one alone in its type.
LEMMA UnsetDefaultsOK ==
  ASSUME PartnerInv, NEW c \in Clients, UnsetDefaults(c)
  PROVE  PartnerInv'
<1> PICK op \in {"insertAddress", "saveAddress"} :
      op = IF req[c].op = "unsetThenInsert" THEN "insertAddress" ELSE "saveAddress"
  OBVIOUS
<1> PICK r : r = [req[c] EXCEPT !.op = op]
  OBVIOUS
<1>0. address \in [AddressIds -> AddressRow] /\ PartnerReq(req[c])
  BY DEF PartnerInv, PartnersTyped
<1>1. /\ UNCHANGED <<customer, supplier, packaging, ordered, supplied>>
      /\ req[c].op \in {"unsetThenInsert", "unsetThenSave"}
      /\ Proceed(c, r)
  BY DEF UnsetDefaults
<1>2. DOMAIN r = Fields /\ r.op = op /\ r.id = req[c].id /\ r.row = req[c].row
  BY <1>0 DEF PartnerReq, Fields
<1>3. address' = [a \in AddressIds |->
        IF a \in Defaults(r.row.customer, r.row.type) \ {r.id}
        THEN [address[a] EXCEPT !.default = FALSE] ELSE address[a]]
  BY <1>2 DEF UnsetDefaults
<1>4. address' \in [AddressIds -> AddressRow]
  <2>1. \A a \in AddressIds : [address[a] EXCEPT !.default = FALSE] \in AddressRow
    BY <1>0 DEF AddressRow
  <2> QED
    BY <1>0, <1>3, <2>1
<1>5. (PartnersTyped /\ OneOfALevel)'
  BY <1>1, <1>4 DEF PartnerInv, PartnersTyped, OneOfALevel, Live
<1>6. PartnerReq(r)
  BY <1>0, <1>1, <1>2 DEF PartnerReq
<1>7. Defaults(r.row.customer, r.row.type)' \subseteq {r.id}
  <2>1. ASSUME NEW a \in AddressIds, a # r.id,
               address'[a].customer = r.row.customer,
               address'[a].type = r.row.type, address'[a].st = "live",
               address'[a].default
        PROVE  FALSE
    <3>1. CASE a \in Defaults(r.row.customer, r.row.type)
      BY <1>0, <1>3, <2>1, <3>1 DEF AddressRow
    <3>2. CASE a \notin Defaults(r.row.customer, r.row.type)
      BY <1>0, <1>3, <2>1, <3>2 DEF Defaults, Live
    <3> QED
      BY <3>1, <3>2
  <2> QED
    BY <1>4, <2>1 DEF Defaults, Live
<1>8. op = "insertAddress" => r.id \notin AddressIds
  BY <1>0, <1>1, <1>2, RequestAssumption, PartnerAssumption DEF PartnerReq
<1>9. op = "insertAddress" => Defaults(r.row.customer, r.row.type)' = {}
  BY <1>4, <1>7, <1>8 DEF Defaults, Live
<1>10. PartnerKnows(r)'
  BY <1>2, <1>7, <1>9 DEF PartnerKnows
<1>11. /\ Served' /\ req' = [req EXCEPT ![c] = r]
       /\ overtaken \cup (Open \ {c}) \subseteq overtaken' \cup {c}
  BY <1>1, ProceedServes DEF PartnerInv
<1> QED
  BY <1>5, <1>6, <1>10, <1>11, PartnerWrites

LEMMA SaveSupplierOK ==
  ASSUME PartnerInv, NEW c \in Clients, SaveSupplier(c)
  PROVE  PartnerInv'
<1> DEFINE r == req[c]
<1>0. supplier \in [SupplierIds -> SupplierRow] /\ PartnerReq(r)
  BY DEF PartnerInv, PartnersTyped
<1>1. UNCHANGED <<customer, address, packaging, ordered, supplied>> /\ Answer(c)
  BY DEF SaveSupplier
<1>2. supplier' \in [SupplierIds -> SupplierRow]
  <2>1. CASE r.op = "insertSupplier" /\ supplier' = Inserted(supplier, r.row)
    BY <1>0, <2>1, InsertedTyped DEF PartnerReq
  <2>2. CASE r.op \in {"saveSupplier", "setSupplier"}
             /\ supplier' = [supplier EXCEPT ![r.id] = r.row]
    BY <1>0, <2>2 DEF PartnerReq
  <2>3. CASE r.op = "activateSupplier"
             /\ supplier' = [supplier EXCEPT ![r.id].active = r.row]
    BY <1>0, <2>3 DEF PartnerReq, SupplierRow
  <2>4. CASE supplier' = Deleted(supplier, r.id)
    BY <1>0, <2>4 DEF Deleted, SupplierRow
  <2> QED
    BY <2>1, <2>2, <2>3, <2>4 DEF SaveSupplier
<1>3. (PartnersTyped /\ OneOfALevel)'
  BY <1>1, <1>2 DEF PartnerInv, PartnersTyped, OneOfALevel, Live
<1> QED
  BY <1>1, <1>3, PartnerAnswers

LEMMA SavePackagingOK ==
  ASSUME PartnerInv, NEW c \in Clients, SavePackaging(c)
  PROVE  PartnerInv'
<1> DEFINE r == req[c]
<1>0. packaging \in [PackagingIds -> PackagingRow] /\ PartnerReq(r) /\ OneOfALevel
  BY DEF PartnerInv, PartnersTyped
<1>1. UNCHANGED <<customer, address, supplier, ordered, supplied>> /\ Answer(c)
  BY DEF SavePackaging
<1>2. (packaging \in [PackagingIds -> PackagingRow] /\ OneOfALevel)'
  <2>1. CASE r.op = "insertPackaging" /\ packaging' = Inserted(packaging, r.row)
             /\ At(r.row.of, r.row.level) = {} /\ Free(packaging) # {}
    <3>1. PICK x \in Free(packaging) : packaging' = [packaging EXCEPT ![x] = r.row]
      BY <1>0, <2>1, InsertedAt, PartnerAssumption
    <3>2. packaging' \in [PackagingIds -> PackagingRow]
      BY <1>0, <2>1, InsertedTyped DEF PartnerReq
    <3>3. \A p \in Live(packaging) :
            packaging[p].of # r.row.of \/ packaging[p].level # r.row.level
      BY <2>1 DEF At
    <3>4. \A p \in PackagingIds : p # x => packaging'[p] = packaging[p]
      BY <1>0, <3>1
    <3>5. packaging'[x] = r.row
      BY <1>0, <3>1 DEF Free
    <3>6. \A p \in Live(packaging)' : p \in PackagingIds /\ (p = x \/ p \in Live(packaging))
      BY <1>0, <3>2, <3>4 DEF Live
    <3> QED
      BY <1>0, <3>2, <3>3, <3>4, <3>5, <3>6 DEF OneOfALevel
  <2>2. CASE r.op = "savePackaging" /\ r.id \in Live(packaging)
             /\ LET new == PackagingPatched(packaging[r.id],
                                            [r.row.dto EXCEPT !.base = r.row.base])
                IN  /\ At(new.of, new.level) \subseteq {r.id}
                    /\ packaging' = [packaging EXCEPT ![r.id] = new]
    <3>1. PICK dto : dto = [r.row.dto EXCEPT !.base = r.row.base]
      OBVIOUS
    <3>2. /\ dto.of \in SupplierItems \cup {Absent} /\ dto.level \in Levels \cup {Absent}
          /\ dto.per \in Ratios \cup {Absent} /\ dto.base \in Nat \cup {Absent}
      <4>1. r.row.dto \in UpdatePackagingDto /\ r.row.base \in Nat \cup {Absent}
        BY <1>0, <2>2 DEF PartnerReq
      <4> QED
        BY <3>1, <4>1 DEF UpdatePackagingDto
    <3>3. PICK x \in PackagingIds : x = r.id
      BY <1>0, <2>2 DEF Live
    <3>4. PICK new : new = PackagingPatched(packaging[x], dto)
      OBVIOUS
    <3>5. new \in PackagingRow
      <4>1. packaging[x] \in PackagingRow
        BY <1>0
      <4> QED
        BY <3>2, <3>4, <4>1 DEF PackagingPatched, PackagingRow, Given
    <3>6. At(new.of, new.level) \subseteq {x}
          /\ packaging' = [packaging EXCEPT ![x] = new]
      BY <2>2, <3>1, <3>3, <3>4
    <3>7. packaging' \in [PackagingIds -> PackagingRow]
      BY <1>0, <3>5, <3>6
    <3>8. \A p \in Live(packaging) : p # x =>
            packaging[p].of # new.of \/ packaging[p].level # new.level
      BY <3>6 DEF At
    <3>9. packaging'[x] = new /\ \A p \in PackagingIds : p # x => packaging'[p] = packaging[p]
      BY <1>0, <3>6
    <3>10. \A p \in Live(packaging)' : p \in PackagingIds /\ (p = x \/ p \in Live(packaging))
      BY <1>0, <3>7, <3>9 DEF Live
    <3> QED
      BY <1>0, <3>7, <3>8, <3>9, <3>10 DEF OneOfALevel
  <2>3. CASE packaging' = Deleted(packaging, r.id)
    <3>1. packaging' \in [PackagingIds -> PackagingRow]
      BY <1>0, <2>3 DEF Deleted, PackagingRow
    <3>2. \A p \in Live(packaging)' :
            /\ p \in Live(packaging) /\ packaging'[p].of = packaging[p].of
            /\ packaging'[p].level = packaging[p].level
      BY <1>0, <2>3, <3>1 DEF Deleted, PackagingRow, Live
    <3> QED
      BY <1>0, <3>1, <3>2 DEF OneOfALevel
  <2> QED
    BY <2>1, <2>2, <2>3 DEF SavePackaging
<1>3. (PartnersTyped /\ OneOfALevel)'
  BY <1>1, <1>2 DEF PartnerInv, PartnersTyped
<1> QED
  BY <1>1, <1>3, PartnerAnswers

\* Levels are recalculated one after the other, each from its own packaging.
LEMMA RecalculateLevelOK ==
  ASSUME PartnerInv, NEW c \in Clients, RecalculateLevel(c)
  PROVE  PartnerInv'
<1>0. PartnerReq(req[c]) /\ req[c].op = "recalculate"
  BY DEF PartnerInv, RecalculateLevel
<1> PICK l : l = Lowest(req[c].row.todo)
  OBVIOUS
<1>1. l \in req[c].row.todo /\ l \in Levels
  <2>1. req[c].row.todo \subseteq Levels /\ req[c].row.todo # {}
    BY <1>0 DEF PartnerReq
  <2>2. \E y \in req[c].row.todo : \A z \in req[c].row.todo : y <= z
    <3>1. req[c].row.todo \subseteq Nat
      BY <2>1, PartnerAssumption DEF Levels
    <3> QED
      BY <2>1, <3>1, FirstOf
  <2> QED
    BY <2>1, <2>2 DEF Lowest
<1> PICK b : b = QtyToBase(req[c].id, l, req[c].row.per[l])
  OBVIOUS
<1>2. b \in Nat
  <2>1. req[c].row.per[l] \in Ratios
    BY <1>0, <1>1 DEF PartnerReq
  <2>2. Calculable(req[c].id, l)
    BY DEF RecalculateLevel
  <2> QED
    BY <1>1, <2>1, <2>2, CalculatedIsNat
<1>3. req' = [req EXCEPT ![c].row.base = <<l, b>>]
      /\ UNCHANGED <<partnerVars, overtaken, left>>
  BY DEF RecalculateLevel
<1> PICK row : row = [req[c].row EXCEPT !.base = <<l, b>>]
  OBVIOUS
<1> PICK r : r = [req[c] EXCEPT !.row = row]
  OBVIOUS
<1>4. req' = [req EXCEPT ![c] = r]
  BY <1>3
<1>5. DOMAIN r = Fields /\ r.op = "recalculate" /\ r.row = row
  BY <1>0 DEF PartnerReq, Fields
<1>6. /\ DOMAIN row = {"todo", "base", "per", "at"}
      /\ row.todo = req[c].row.todo /\ row.per = req[c].row.per
      /\ row.at = req[c].row.at /\ row.base = <<l, b>>
  BY <1>0 DEF PartnerReq
<1>7. PartnerReq(r)
  <2>1. row.base[1] = l /\ row.base[2] = b
    BY <1>6
  <2> QED
    BY <1>0, <1>1, <1>2, <1>5, <1>6, <2>1, ZenonT(60) DEF PartnerReq
<1>8. PartnerKnows(r)
  BY <1>5 DEF PartnerKnows
<1>9. Served' /\ overtaken \subseteq overtaken' \cup {c}
  BY <1>3, <1>4 DEF PartnerInv, Served
<1> QED
  BY <1>3, <1>4, <1>7, <1>8, <1>9, PartnerQuiet

LEMMA SaveRecalculatedOK ==
  ASSUME PartnerInv, NEW c \in Clients, SaveRecalculated(c)
  PROVE  PartnerInv'
<1>0. /\ PartnerReq(req[c]) /\ req[c].op = "recalculate"
      /\ req[c].row.base # None
      /\ packaging \in [PackagingIds -> PackagingRow]
  BY DEF PartnerInv, SaveRecalculated, PartnersTyped
<1> PICK l : l = req[c].row.base[1]
  OBVIOUS
<1> PICK b : b = req[c].row.base[2]
  OBVIOUS
<1> PICK x : x = req[c].row.at[l]
  OBVIOUS
<1>1. l \in req[c].row.todo /\ b \in Nat /\ x \in PackagingIds
  BY <1>0 DEF PartnerReq
<1>2. /\ packaging' = [packaging EXCEPT ![x].base = b]
      /\ UNCHANGED <<customer, address, supplier, ordered, supplied>>
  BY DEF SaveRecalculated
<1>3. packaging' \in [PackagingIds -> PackagingRow]
  <2>1. packaging[x] \in PackagingRow
    BY <1>0, <1>1
  <2>2. PICK row : row = [packaging[x] EXCEPT !.base = b]
    OBVIOUS
  <2>3. row \in PackagingRow
    BY <1>1, <2>1, <2>2 DEF PackagingRow
  <2>4. packaging' = [packaging EXCEPT ![x] = row]
    BY <1>2, <2>2
  <2> QED
    BY <1>0, <2>3, <2>4
<1>4. \A p \in PackagingIds : /\ packaging'[p].st = packaging[p].st
                              /\ packaging'[p].of = packaging[p].of
                              /\ packaging'[p].level = packaging[p].level
  BY <1>0, <1>2, ZenonT(60) DEF PackagingRow
<1>5. (PartnersTyped /\ OneOfALevel)'
  <2>1. Live(packaging)' = Live(packaging) /\ Live(packaging) \subseteq PackagingIds
    BY <1>0, <1>3, <1>4 DEF Live
  <2>2. OneOfALevel'
    BY <2>1, <1>4 DEF PartnerInv, OneOfALevel
  <2> QED
    BY <1>2, <1>3, <2>2 DEF PartnerInv, PartnersTyped
<1>6. CASE req[c].row.todo = {l}
  BY <1>5, <1>6, PartnerAnswers DEF SaveRecalculated
<1>7. CASE req[c].row.todo # {l}
  <2> PICK row : row = [req[c].row EXCEPT !.todo = @ \ {l}, !.base = None]
    OBVIOUS
  <2> PICK r : r = [req[c] EXCEPT !.row = row]
    OBVIOUS
  <2>1. [req[c] EXCEPT !.row.todo = @ \ {l}, !.row.base = None] = r
    BY <1>0 DEF PartnerReq, Fields
  <2>2. Proceed(c, r)
    BY <1>7, <2>1 DEF SaveRecalculated
  <2>3. DOMAIN r = Fields /\ r.op = "recalculate" /\ r.row = row
    BY <1>0 DEF PartnerReq, Fields
  <2>4. /\ DOMAIN row = {"todo", "base", "per", "at"}
        /\ row.todo = req[c].row.todo \ {l} /\ row.per = req[c].row.per
        /\ row.at = req[c].row.at /\ row.base = None
    BY <1>0 DEF PartnerReq
  <2>5. row.todo \subseteq Levels /\ row.todo # {}
    BY <1>0, <1>7, <2>4 DEF PartnerReq
  <2>6. PartnerReq(r)
    BY <1>0, <2>3, <2>4, <2>5 DEF PartnerReq
  <2>7. PartnerKnows(r)'
    BY <2>3 DEF PartnerKnows
  <2>8. /\ Served' /\ req' = [req EXCEPT ![c] = r]
        /\ overtaken \cup (Open \ {c}) \subseteq overtaken' \cup {c}
    BY <2>2, ProceedServes DEF PartnerInv
  <2> QED
    BY <1>5, <2>6, <2>7, <2>8, PartnerWrites
<1> QED
  BY <1>6, <1>7

LEMMA PartnerElsewhere ==
  ASSUME PartnerInv, PlaceSalesOrder \/ Supply
  PROVE  PartnerInv'
<1>1. /\ UNCHANGED <<tables, reqVars>>
      /\ ordered' \subseteq CustomerIds /\ supplied' \subseteq SupplierIds
  BY DEF PlaceSalesOrder, Supply, PartnerInv, PartnersTyped, Live
<1> QED
  BY <1>1 DEF PartnerInv, tables, reqVars, Served, PartnersTyped, OneOfALevel,
     Live, PartnerKnows, Defaults, PartnerReq

LEMMA PartnersNextOK ==
  ASSUME PartnerInv, PartnersNext
  PROVE  PartnerInv'
<1>1. ASSUME NEW c \in Clients, PartnerRequest(c)
      PROVE  PartnerInv'
  BY <1>1, CustomerRequestOK, AddressRequestOK, SupplierRequestOK,
     PackagingRequestOK DEF PartnerRequest
<1>2. ASSUME NEW c \in Clients, PartnerSave(c)
      PROVE  PartnerInv'
  BY <1>2, SaveCustomerOK, UnsetDefaultsOK, SaveAddressOK, SaveSupplierOK,
     SavePackagingOK, RecalculateLevelOK, SaveRecalculatedOK DEF PartnerSave
<1> QED
  BY <1>1, <1>2, PartnerAbandons, PartnerElsewhere DEF PartnersNext

-----------------------------------------------------------------------------
(* Packaging levels.  The packagings of a level in a table, how many of the *)
(* level below they hold, and the product of those quantities.              *)
LevelIn(t, s, l) == {p \in Live(t) : t[p].of = s /\ t[p].level = l}
PerIn(t, s, l) == t[CHOOSE p \in LevelIn(t, s, l) : TRUE].per

\* f is the function by which the product of the first n levels is computed.
IsProduct(t, s, n, f) ==
  f = [m \in 0..n |-> IF m = 0 THEN 1 ELSE f[m - 1] * PerIn(t, s, m)]

ProductIn(t, s, n) == (CHOOSE f : IsProduct(t, s, n, f))[n]

LEMMA ProductByDefinition ==
  /\ \A s, l : At(s, l) = LevelIn(packaging, s, l)
  /\ \A s, l : Product(s, l) = ProductIn(packaging, s, l)
  /\ \A s, l : At(s, l)' = LevelIn(packaging', s, l)
  /\ \A s, l : Product(s, l)' = ProductIn(packaging', s, l)
BY DEF Product, At, Live, ProductIn, IsProduct, PerIn, LevelIn

LEMMA ProductsAreUnique ==
  ASSUME NEW t, NEW s, NEW n \in Nat, NEW k \in Nat, NEW f, NEW g,
         IsProduct(t, s, n, f), IsProduct(t, s, k, g)
  PROVE  \A m \in Nat : m <= n /\ m <= k => f[m] = g[m]
<1> DEFINE C == {m \in Nat : m <= n /\ m <= k /\ f[m] # g[m]}
<1> SUFFICES ASSUME C # {} PROVE FALSE
  OBVIOUS
<1>1. PICK m \in C : \A z \in C : m <= z
  <2>1. C \subseteq Nat
    OBVIOUS
  <2> HIDE DEF C
  <2> QED
    BY <2>1, FirstOf
<1>2. m # 0
  BY DEF IsProduct
<1>3. m - 1 \in 0..n /\ m - 1 \notin C /\ m \in 0..n /\ m \in 0..k
  BY <1>1, <1>2
<1>4. f[m - 1] = g[m - 1]
  BY <1>2, <1>3
<1>5. f[m] = f[m - 1] * PerIn(t, s, m) /\ g[m] = g[m - 1] * PerIn(t, s, m)
  BY <1>2, <1>3 DEF IsProduct
<1> QED
  BY <1>4, <1>5

LEMMA ProductsExist ==
  ASSUME NEW t, NEW s
  PROVE  \A n \in Nat : \E f : IsProduct(t, s, n, f)
<1> DEFINE C == {n \in Nat : ~ \E f : IsProduct(t, s, n, f)}
<1> SUFFICES ASSUME C # {} PROVE FALSE
  OBVIOUS
<1>1. PICK n \in C : \A z \in C : n <= z
  <2>1. C \subseteq Nat
    OBVIOUS
  <2> HIDE DEF C
  <2> QED
    BY <2>1, FirstOf
<1>2. PICK g : n > 0 => IsProduct(t, s, n - 1, g)
  <2>1. CASE n = 0
    BY <2>1
  <2>2. CASE n > 0
    <3>1. n - 1 \in Nat /\ n - 1 \notin C
      BY <1>1, <2>2
    <3> QED
      BY <3>1
  <2> QED
    BY <2>1, <2>2
<1> PICK f : f = [m \in 0..n |-> IF m = 0 THEN 1 ELSE g[m - 1] * PerIn(t, s, m)]
  OBVIOUS
<1>3. \A q \in 0..n - 1 : f[q] = g[q]
  BY <1>2 DEF IsProduct
<1>4. \A m \in 0..n : m # 0 => g[m - 1] = f[m - 1]
  <2> SUFFICES ASSUME NEW m \in 0..n, m # 0 PROVE g[m - 1] = f[m - 1]
    OBVIOUS
  <2>1. m - 1 \in 0..n - 1
    OBVIOUS
  <2> QED BY <1>3, <2>1
<1>5. f = [m \in 0..n |-> IF m = 0 THEN 1 ELSE f[m - 1] * PerIn(t, s, m)]
  BY <1>4
<1>6. IsProduct(t, s, n, f)
  BY <1>5 DEF IsProduct
<1> QED
  BY <1>1, <1>6

LEMMA ProductUnfolds ==
  ASSUME NEW t, NEW s
  PROVE  /\ ProductIn(t, s, 0) = 1
         /\ \A n \in Nat :
              ProductIn(t, s, n + 1) = ProductIn(t, s, n) * PerIn(t, s, n + 1)
<1> DEFINE F(k) == CHOOSE f : IsProduct(t, s, k, f)
<1>1. \A k \in Nat : IsProduct(t, s, k, F(k)) /\ ProductIn(t, s, k) = F(k)[k]
  BY ProductsExist DEF ProductIn
<1> HIDE DEF F
<1>2. ProductIn(t, s, 0) = 1
  BY <1>1 DEF IsProduct
<1>3. ASSUME NEW n \in Nat
      PROVE  ProductIn(t, s, n + 1) = ProductIn(t, s, n) * PerIn(t, s, n + 1)
  <2> PICK m \in Nat : m = n + 1
    OBVIOUS
  <2>1. IsProduct(t, s, m, F(m)) /\ IsProduct(t, s, n, F(n))
    BY <1>1
  <2>2. F(m)[m] = F(m)[n] * PerIn(t, s, m)
    BY <2>1 DEF IsProduct
  <2>3. F(m)[n] = F(n)[n]
    BY <2>1, ProductsAreUnique
  <2>4. ProductIn(t, s, m) = F(m)[m] /\ ProductIn(t, s, n) = F(n)[n]
    BY <1>1
  <2> QED
    BY <2>2, <2>3, <2>4
<1> QED
  BY <1>2, <1>3

\* Two tables whose levels hold the same have the same products.
SameQuantities(t, u, s, n) ==
  \A m \in 1..n : PerIn(t, s, m) = PerIn(u, s, m)

LEMMA SameProducts ==
  ASSUME NEW t, NEW u, NEW s, NEW n \in Nat, SameQuantities(t, u, s, n)
  PROVE  ProductIn(t, s, n) = ProductIn(u, s, n)
<1> DEFINE C == {m \in Nat : m <= n /\ ProductIn(t, s, m) # ProductIn(u, s, m)}
<1> SUFFICES ASSUME C # {} PROVE FALSE
  OBVIOUS
<1>1. PICK m \in C : \A z \in C : m <= z
  <2>1. C \subseteq Nat
    OBVIOUS
  <2> HIDE DEF C
  <2> QED
    BY <2>1, FirstOf
<1>2. m # 0
  BY ProductUnfolds
<1> PICK k : k = m - 1
  OBVIOUS
<1>3. k \in Nat /\ k + 1 = m /\ k \notin C /\ k <= n /\ m \in 1..n
  BY <1>1, <1>2
<1>4. ProductIn(t, s, k) = ProductIn(u, s, k)
  BY <1>3
<1>5. /\ ProductIn(t, s, k + 1) = ProductIn(t, s, k) * PerIn(t, s, k + 1)
      /\ ProductIn(u, s, k + 1) = ProductIn(u, s, k) * PerIn(u, s, k + 1)
  BY <1>3, ProductUnfolds
<1> QED
  BY <1>3, <1>4, <1>5 DEF SameQuantities

\* What a recalculation that no other request overtook knows.  The levels done
\* are the lowest ones, without a gap, and hold their products; of the others
\* it holds the packaging and its quantity; the level it is about to write is
\* the lowest of those.
RecalculationKnows(r) ==
  r.op = "recalculate" =>
    LET todo == r.row.todo
        done == LevelsOf(r.id) \ todo
    IN  /\ todo \subseteq LevelsOf(r.id)
        /\ \A l \in done, m \in todo : l < m
        /\ \A l \in done : 1..l \subseteq LevelsOf(r.id)
        /\ \A l \in done : \A p \in At(r.id, l) :
             packaging[p].base = Product(r.id, l)
        /\ \A l \in todo : /\ r.row.at[l] \in At(r.id, l)
                           /\ r.row.per[l] = packaging[r.row.at[l]].per
        /\ r.row.base # None =>
             /\ \A m \in todo : r.row.base[1] <= m
             /\ 1..r.row.base[1] \subseteq LevelsOf(r.id)
             /\ r.row.base[2] = Product(r.id, r.row.base[1])

LevelsInv == \A c \in Clients \ overtaken : RecalculationKnows(req[c])

\* A step that leaves the packagings alone, and one that writes them.
LEMMA LevelsQuiet ==
  ASSUME PartnerInv, LevelsInv, NEW c \in Clients, NEW r,
         packaging' = packaging,
         req' = [req EXCEPT ![c] = r],
         overtaken \subseteq overtaken' \cup {c},
         c \notin overtaken' => RecalculationKnows(r)
  PROVE  LevelsInv'
<1>1. \A s, l : At(s, l)' = At(s, l) /\ Product(s, l)' = Product(s, l)
  BY ProductByDefinition
<1>2. \A s : LevelsOf(s)' = LevelsOf(s)
  BY <1>1 DEF LevelsOf
<1>3. req'[c] = r /\ \A d \in Clients \ {c} : req'[d] = req[d]
  BY DEF PartnerInv, Served
<1>4. SUFFICES ASSUME NEW d \in Clients \ overtaken' PROVE RecalculationKnows(req[d])'
  BY DEF LevelsInv
<1> PICK s : s = req'[d]
  OBVIOUS
<1>5. RecalculationKnows(s)
  <2>1. CASE d = c
    BY <2>1, <1>3, <1>4
  <2>2. CASE d # c
    <3>1. d \in Clients \ overtaken /\ s = req[d]
      BY <2>2, <1>3, <1>4
    <3> QED BY <3>1 DEF LevelsInv
  <2> QED BY <2>1, <2>2
<1> QED BY <1>1, <1>2, <1>5 DEF RecalculationKnows

LEMMA LevelsWritten ==
  ASSUME PartnerInv, NEW c \in Clients, NEW r,
         req' = [req EXCEPT ![c] = r],
         overtaken \cup (Open \ {c}) \subseteq overtaken' \cup {c},
         c \notin overtaken' => RecalculationKnows(r)'
  PROVE  LevelsInv'
<1>3. req'[c] = r
  BY DEF PartnerInv, Served
<1>4. SUFFICES ASSUME NEW d \in Clients \ overtaken' PROVE RecalculationKnows(req[d])'
  BY DEF LevelsInv
<1>5. CASE d = c
  BY <1>3, <1>4, <1>5 DEF RecalculationKnows
<1>6. CASE d # c
  <2>1. req'[d] = Idle
    BY <1>6, <1>4, OthersOvertaken DEF PartnerInv
  <2> QED BY <2>1, IdleFields DEF RecalculationKnows
<1> QED BY <1>5, <1>6

\* Requests of other operations.
LEMMA LevelsOtherwise ==
  ASSUME PartnerInv, LevelsInv, NEW c \in Clients, NEW r, r.op # "recalculate",
         packaging' = packaging,
         req' = [req EXCEPT ![c] = r],
         overtaken \subseteq overtaken' \cup {c}
  PROVE  LevelsInv'
BY LevelsQuiet DEF RecalculationKnows

LEMMA LevelsAnswered ==
  ASSUME PartnerInv, NEW c \in Clients, Answer(c)
  PROVE  LevelsInv'
<1>1. /\ req' = [req EXCEPT ![c] = Idle]
      /\ overtaken \cup (Open \ {c}) \subseteq overtaken' \cup {c}
  BY AnswerServes DEF PartnerInv
<1>2. RecalculationKnows(Idle)'
  BY IdleFields DEF RecalculationKnows
<1> QED BY <1>1, <1>2, LevelsWritten

LEMMA LevelsBegun ==
  ASSUME PartnerInv, LevelsInv, NEW c \in Clients, packaging' = packaging,
         NEW op, NEW id, NEW row, Begin(c, Doing(op, id, row)),
         op # "recalculate"
  PROVE  LevelsInv'
<1> PICK r : r = Doing(op, id, row)
  OBVIOUS
<1>1. r.op # "recalculate"
  BY DoingFields
<1>2. req' = [req EXCEPT ![c] = r] /\ overtaken \subseteq overtaken' \cup {c}
  BY DEF Begin
<1> QED BY <1>1, <1>2, LevelsOtherwise

\* The levels are read.
LEMMA LevelsRead ==
  ASSUME PartnerInv, LevelsInv, NEW c \in Clients, packaging' = packaging,
         RecalculateQtyToBase(c)
  PROVE  LevelsInv'
<1>1. PICK s \in SupplierItems :
        /\ LevelsOf(s) # {}
        /\ Begin(c, Doing("recalculate", s,
             [todo |-> LevelsOf(s), base |-> None,
              per |-> [l \in LevelsOf(s) |-> packaging[CHOOSE p \in At(s, l) :
                                                         TRUE].per],
              at |-> [l \in LevelsOf(s) |-> CHOOSE p \in At(s, l) : TRUE]]))
  BY DEF RecalculateQtyToBase
<1> DEFINE per == [l \in LevelsOf(s) |-> packaging[CHOOSE p \in At(s, l) :
                                                     TRUE].per]
           at == [l \in LevelsOf(s) |-> CHOOSE p \in At(s, l) : TRUE]
<1>2. \A l \in LevelsOf(s) : at[l] \in At(s, l) /\ per[l] = packaging[at[l]].per
  BY DEF LevelsOf
<1> HIDE DEF per, at
<1> PICK row : row = [todo |-> LevelsOf(s), base |-> None, per |-> per, at |-> at]
  OBVIOUS
<1> PICK r : r = Doing("recalculate", s, row)
  OBVIOUS
<1>3. r.op = "recalculate" /\ r.id = s /\ r.row = row
  BY DoingFields
<1>4. RecalculationKnows(r)
  <2>1. row.todo = LevelsOf(s) /\ row.base = None /\ row.per = per /\ row.at = at
    OBVIOUS
  <2> QED BY <1>2, <1>3, <2>1 DEF RecalculationKnows
<1>5. Begin(c, r)
  BY <1>1 DEF per, at
<1>6. req' = [req EXCEPT ![c] = r] /\ overtaken \subseteq overtaken' \cup {c}
  BY <1>5 DEF Begin
<1> QED BY <1>4, <1>6, LevelsQuiet

\* One level is computed from the one below it, which is done.
LEMMA LevelComputed ==
  ASSUME PartnerInv, LevelsInv, NEW c \in Clients, RecalculateLevel(c)
  PROVE  LevelsInv'
<1>0. /\ PartnerReq(req[c]) /\ req[c].op = "recalculate"
      /\ packaging \in [PackagingIds -> PackagingRow]
  BY DEF PartnerInv, PartnersTyped, RecalculateLevel
<1> PICK l : l = Lowest(req[c].row.todo)
  OBVIOUS
<1> PICK s : s = req[c].id
  OBVIOUS
<1>1. /\ l \in req[c].row.todo /\ l \in Levels
      /\ \A m \in req[c].row.todo : l <= m
  <2>1. req[c].row.todo \subseteq Levels /\ req[c].row.todo # {}
    BY <1>0 DEF PartnerReq
  <2>2. \E y \in req[c].row.todo : \A z \in req[c].row.todo : y <= z
    <3>1. req[c].row.todo \subseteq Nat
      BY <2>1, PartnerAssumption DEF Levels
    <3> QED BY <2>1, <3>1, FirstOf
  <2> QED BY <2>1, <2>2 DEF Lowest
<1> PICK b : b = QtyToBase(s, l, req[c].row.per[l])
  OBVIOUS
<1>2. /\ req' = [req EXCEPT ![c].row.base = <<l, b>>]
      /\ packaging' = packaging /\ overtaken' = overtaken
      /\ Calculable(s, l)
  BY DEF RecalculateLevel, partnerVars, tables
<1> PICK row : row = [req[c].row EXCEPT !.base = <<l, b>>]
  OBVIOUS
<1> PICK r : r = [req[c] EXCEPT !.row = row]
  OBVIOUS
<1>3. req' = [req EXCEPT ![c] = r]
  BY <1>2
<1>4. r.op = "recalculate" /\ r.id = s /\ r.row = row
  BY <1>0 DEF PartnerReq, Fields
<1>5. /\ row.todo = req[c].row.todo /\ row.per = req[c].row.per
      /\ row.at = req[c].row.at /\ row.base[1] = l /\ row.base[2] = b
  BY <1>0 DEF PartnerReq
<1>6. ASSUME c \notin overtaken
      PROVE  RecalculationKnows(r)
  <2>1. RecalculationKnows(req[c])
    BY <1>6 DEF LevelsInv
  <2> PICK x : x = req[c].row.at[l]
    OBVIOUS
  <2>2. /\ x \in At(s, l) /\ req[c].row.per[l] = packaging[x].per
        /\ l \in LevelsOf(s)
    BY <1>0, <1>1, <2>1 DEF RecalculationKnows
  <2>3. (CHOOSE p \in At(s, l) : TRUE) = x
    BY <2>2 DEF At, PartnerInv, OneOfALevel
  <2>4. PerIn(packaging, s, l) = packaging[x].per
    BY <2>3, ProductByDefinition DEF PerIn
  <2>5. packaging[x].per \in Nat /\ l \in Nat /\ l >= 1
    <3>1. x \in PackagingIds
      BY <1>0, <2>2 DEF At, Live
    <3> QED BY <1>0, <1>1, <3>1, PartnerAssumption DEF PackagingRow, Levels
  <2>6. 1..l \subseteq LevelsOf(s) /\ b = Product(s, l)
    <3>1. CASE l = 1
      <4>1. b = packaging[x].per
        BY <2>2, <3>1 DEF QtyToBase
      <4>2. ProductIn(packaging, s, 0) = 1
            /\ ProductIn(packaging, s, 0 + 1) = ProductIn(packaging, s, 0)
                                                  * PerIn(packaging, s, 0 + 1)
        BY ProductUnfolds
      <4>3. ProductIn(packaging, s, 1) = packaging[x].per
        BY <3>1, <4>2, <2>4, <2>5
      <4>4. Product(s, l) = ProductIn(packaging, s, 1)
        BY <3>1, ProductByDefinition
      <4>5. 1..l \subseteq LevelsOf(s)
        <5>1. \A m \in 1..l : m = l
          BY <3>1
        <5> QED BY <2>2, <5>1
      <4> QED BY <4>1, <4>3, <4>4, <4>5
    <3>2. CASE l # 1
      <4> PICK k : k = l - 1
        OBVIOUS
      <4>1. k \in Nat /\ k >= 1 /\ l = k + 1 /\ k < l
        BY <2>5, <3>2
      <4>2. PICK p \in At(s, k) : packaging[p].base # None
        BY <1>2, <3>2, <4>1 DEF Calculable
      <4>3. k \in LevelsOf(s)
        <5>1. k \in Levels
          BY <1>1, <4>1, PartnerAssumption DEF Levels
        <5> QED BY <4>2, <5>1 DEF LevelsOf
      <4>4. k \notin req[c].row.todo
        <5>1. ~ (l <= k)
          BY <4>1
        <5> QED BY <1>1, <5>1
      <4>5. 1..k \subseteq LevelsOf(s)
        BY <1>0, <2>1, <4>3, <4>4 DEF RecalculationKnows
      <4>6. packaging[p].base = Product(s, k)
        BY <1>0, <2>1, <4>2, <4>3, <4>4 DEF RecalculationKnows
      <4>7. packaging[p].base \in Nat
        BY <1>0, <4>2 DEF At, Live, PackagingRow
      <4>8. (CHOOSE q \in At(s, k) : TRUE) = p
        BY <4>2 DEF At, PartnerInv, OneOfALevel
      <4>9. b = packaging[x].per * packaging[p].base
        BY <2>2, <3>2, <4>1, <4>8 DEF QtyToBase
      <4>10. Product(s, l) = Product(s, k) * packaging[x].per
        BY <4>1, <2>4, ProductUnfolds, ProductByDefinition
      <4>11. PICK u \in Nat : u = packaging[x].per
        BY <2>5
      <4>12. PICK v \in Nat : v = packaging[p].base
        BY <4>7
      <4>13. b = Product(s, l)
        <5>1. b = u * v /\ Product(s, l) = v * u
          BY <4>6, <4>9, <4>10, <4>11, <4>12
        <5> QED BY <5>1
      <4>14. 1..l = (1..k) \cup {l}
        BY <4>1
      <4> QED BY <2>2, <4>5, <4>13, <4>14
    <3> QED BY <3>1, <3>2
  <2> PICK todo : todo = req[c].row.todo
    OBVIOUS
  <2> PICK at : at = req[c].row.at
    OBVIOUS
  <2> PICK per : per = req[c].row.per
    OBVIOUS
  <2>7. /\ todo \subseteq LevelsOf(s)
        /\ \A k \in LevelsOf(s) \ todo, m \in todo : k < m
        /\ \A k \in LevelsOf(s) \ todo : 1..k \subseteq LevelsOf(s)
        /\ \A k \in LevelsOf(s) \ todo : \A p \in At(s, k) :
             packaging[p].base = Product(s, k)
        /\ \A k \in todo : at[k] \in At(s, k) /\ per[k] = packaging[at[k]].per
    BY <1>0, <2>1 DEF RecalculationKnows
  <2>8. /\ r.row.todo = todo /\ r.row.at = at /\ r.row.per = per /\ r.id = s
        /\ r.row.base[1] = l /\ r.row.base[2] = b
    BY <1>4, <1>5
  <2>9. \A m \in todo : l <= m
    BY <1>1
  <2> QED BY <2>6, <2>7, <2>8, <2>9 DEF RecalculationKnows
<1> QED BY <1>2, <1>3, <1>6, LevelsQuiet

\* A table with the base units of one row changed.
WithBase(t, x, b) == [t EXCEPT ![x].base = b]

LEMMA BaseChanged ==
  ASSUME NEW t \in [PackagingIds -> PackagingRow], NEW x \in PackagingIds, NEW b,
         NEW u, u = WithBase(t, x, b)
  PROVE  /\ DOMAIN u = PackagingIds /\ Live(u) = Live(t)
         /\ Live(t) \subseteq PackagingIds
         /\ \A s, l : LevelIn(u, s, l) = LevelIn(t, s, l)
         /\ \A p \in PackagingIds : u[p].per = t[p].per
         /\ u[x].base = b /\ \A p \in PackagingIds \ {x} : u[p] = t[p]
<1>1. DOMAIN u = PackagingIds /\ DOMAIN t = PackagingIds
  BY DEF WithBase
<1>2. \A p \in PackagingIds \ {x} : u[p] = t[p]
  BY DEF WithBase
<1>3. u[x] = [t[x] EXCEPT !.base = b]
  BY DEF WithBase
<1>4. /\ u[x].base = b /\ u[x].st = t[x].st /\ u[x].of = t[x].of
      /\ u[x].level = t[x].level /\ u[x].per = t[x].per
  <2>1. t[x] \in PackagingRow
    OBVIOUS
  <2> QED BY <1>3, <2>1 DEF PackagingRow
<1>5. Live(u) = Live(t) /\ Live(t) \subseteq PackagingIds
  BY <1>1, <1>2, <1>4 DEF Live
<1>6. \A s, l : LevelIn(u, s, l) = LevelIn(t, s, l)
  BY <1>2, <1>4, <1>5 DEF LevelIn
<1>7. \A p \in PackagingIds : u[p].per = t[p].per
  BY <1>2, <1>4
<1> QED BY <1>1, <1>2, <1>4, <1>5, <1>6, <1>7

LEMMA ProductsKept ==
  ASSUME NEW t \in [PackagingIds -> PackagingRow], NEW x \in PackagingIds, NEW b,
         NEW u, u = WithBase(t, x, b),
         NEW s, NEW n \in Nat, \A m \in 1..n : LevelIn(t, s, m) # {}
  PROVE  ProductIn(u, s, n) = ProductIn(t, s, n)
<1>1. ASSUME NEW m \in 1..n
      PROVE  PerIn(u, s, m) = PerIn(t, s, m)
  <2>1. LevelIn(u, s, m) = LevelIn(t, s, m)
    BY BaseChanged
  <2>2. PICK q : q = CHOOSE p \in LevelIn(t, s, m) : TRUE
    OBVIOUS
  <2>3. q \in LevelIn(t, s, m)
    BY <2>2
  <2>4. q \in PackagingIds
    BY <2>3 DEF LevelIn, Live
  <2>5. u[q].per = t[q].per
    BY <2>4, BaseChanged
  <2> QED BY <2>1, <2>2, <2>5 DEF PerIn
<1>2. SameQuantities(u, t, s, n)
  BY <1>1 DEF SameQuantities
<1> QED BY <1>2, SameProducts

LEMMA PackagingRebased ==
  ASSUME packaging \in [PackagingIds -> PackagingRow], NEW x \in PackagingIds,
         NEW b, packaging' = WithBase(packaging, x, b)
  PROVE  /\ \A z, y : At(z, y)' = At(z, y)
         /\ \A z : LevelsOf(z)' = LevelsOf(z)
         /\ \A z : \A n \in LevelsOf(z) : 1..n \subseteq LevelsOf(z)
              => Product(z, n)' = Product(z, n)
         /\ \A p \in PackagingIds : packaging'[p].per = packaging[p].per
         /\ packaging'[x].base = b
         /\ \A p \in PackagingIds \ {x} : packaging'[p] = packaging[p]
         /\ \A z, y : At(z, y) \subseteq PackagingIds
<1> PICK t : t = packaging
  OBVIOUS
<1> PICK u : u = packaging'
  OBVIOUS
<1>1. t \in [PackagingIds -> PackagingRow] /\ u = WithBase(t, x, b)
  OBVIOUS
<1>2. /\ Live(t) \subseteq PackagingIds
      /\ \A z, y : LevelIn(u, z, y) = LevelIn(t, z, y)
      /\ \A p \in PackagingIds : u[p].per = t[p].per
      /\ u[x].base = b /\ \A p \in PackagingIds \ {x} : u[p] = t[p]
  BY <1>1, BaseChanged
<1>3. \A z, y : At(z, y)' = At(z, y)
  BY <1>2, ProductByDefinition
<1>4. \A z : LevelsOf(z)' = LevelsOf(z)
  BY <1>3 DEF LevelsOf
<1>5. ASSUME NEW z, NEW n \in LevelsOf(z), 1..n \subseteq LevelsOf(z)
      PROVE  Product(z, n)' = Product(z, n)
  <2>1. n \in Nat
    BY PartnerAssumption DEF LevelsOf, Levels
  <2>2. \A m \in 1..n : LevelIn(t, z, m) # {}
    BY <1>5, ProductByDefinition DEF LevelsOf
  <2>3. ProductIn(u, z, n) = ProductIn(t, z, n)
    BY <1>1, <2>1, <2>2, ProductsKept
  <2> QED BY <2>3, ProductByDefinition
<1>6. \A z, y : At(z, y) \subseteq PackagingIds
  BY <1>2 DEF At
<1> QED BY <1>2, <1>3, <1>4, <1>5, <1>6

\* The level that was computed is written.
LEMMA LevelWritten ==
  ASSUME PartnerInv, LevelsInv, NEW c \in Clients, SaveRecalculated(c)
  PROVE  LevelsInv'
<1>0. /\ PartnerReq(req[c]) /\ req[c].op = "recalculate"
      /\ req[c].row.base # None
      /\ packaging \in [PackagingIds -> PackagingRow]
  BY DEF PartnerInv, SaveRecalculated, PartnersTyped
<1> PICK s : s = req[c].id
  OBVIOUS
<1> PICK todo : todo = req[c].row.todo
  OBVIOUS
<1> PICK at : at = req[c].row.at
  OBVIOUS
<1> PICK per : per = req[c].row.per
  OBVIOUS
<1> PICK l : l = req[c].row.base[1]
  OBVIOUS
<1> PICK b : b = req[c].row.base[2]
  OBVIOUS
<1>1. l \in todo /\ at[l] \in PackagingIds
  BY <1>0 DEF PartnerReq
<1>2. packaging' = [packaging EXCEPT ![at[l]].base = b]
  BY DEF SaveRecalculated
<1> PICK x : x = at[l]
  OBVIOUS
<1>3. /\ packaging \in [PackagingIds -> PackagingRow] /\ x \in PackagingIds
      /\ packaging' = WithBase(packaging, x, b)
  BY <1>0, <1>1, <1>2 DEF WithBase
<1>4. /\ \A z, y : At(z, y)' = At(z, y)
      /\ \A z : LevelsOf(z)' = LevelsOf(z)
      /\ \A z : \A n \in LevelsOf(z) : 1..n \subseteq LevelsOf(z)
           => Product(z, n)' = Product(z, n)
      /\ \A p \in PackagingIds : packaging'[p].per = packaging[p].per
      /\ packaging'[x].base = b
      /\ \A p \in PackagingIds \ {x} : packaging'[p] = packaging[p]
      /\ \A z, y : At(z, y) \subseteq PackagingIds
  BY <1>3, PackagingRebased
<1>5. CASE todo = {l}
  BY <1>5, LevelsAnswered DEF SaveRecalculated
<1>6. CASE todo # {l}
  <2> PICK row : row = [req[c].row EXCEPT !.todo = @ \ {l}, !.base = None]
    OBVIOUS
  <2> PICK r : r = [req[c] EXCEPT !.row = row]
    OBVIOUS
  <2>1. [req[c] EXCEPT !.row.todo = @ \ {l}, !.row.base = None] = r
    BY <1>0 DEF PartnerReq, Fields
  <2>2. Proceed(c, r)
    BY <1>6, <2>1 DEF SaveRecalculated
  <2>3. /\ r.op = "recalculate" /\ r.id = s
        /\ r.row.todo = todo \ {l} /\ r.row.per = per
        /\ r.row.at = at /\ r.row.base = None
    BY <1>0 DEF PartnerReq, Fields
  <2>4. /\ req' = [req EXCEPT ![c] = r]
        /\ overtaken \cup (Open \ {c}) \subseteq overtaken' \cup {c}
        /\ c \notin overtaken' => c \notin overtaken
    BY <2>2 DEF Proceed
  <2>5. ASSUME c \notin overtaken
        PROVE  RecalculationKnows(r)'
    <3>1. /\ todo \subseteq LevelsOf(s)
          /\ \A k \in LevelsOf(s) \ todo, m \in todo : k < m
          /\ \A k \in LevelsOf(s) \ todo : 1..k \subseteq LevelsOf(s)
          /\ \A k \in LevelsOf(s) \ todo : \A p \in At(s, k) :
               packaging[p].base = Product(s, k)
          /\ \A k \in todo : at[k] \in At(s, k) /\ per[k] = packaging[at[k]].per
          /\ \A m \in todo : l <= m
          /\ 1..l \subseteq LevelsOf(s)
          /\ b = Product(s, l)
      BY <1>0, <2>5 DEF LevelsInv, RecalculationKnows
    <3>2. \A k \in LevelsOf(s) : \A p \in At(s, k) : p = x => k = l
      BY <1>1, <3>1 DEF At
    <3>3. \A k \in LevelsOf(s) : \A p \in At(s, k) :
            /\ p \in PackagingIds
            /\ k # l => packaging'[p] = packaging[p]
      BY <1>4, <3>2 DEF At
    <3>4. \A p \in At(s, l) : p = x
      BY <1>1, <3>1 DEF At, PartnerInv, OneOfALevel
    <3> PICK rest : rest = todo \ {l}
      OBVIOUS
    <3>5. /\ rest \subseteq LevelsOf(s)
          /\ \A k \in LevelsOf(s) \ rest, m \in rest : k < m
      <4>1. ASSUME NEW k \in LevelsOf(s) \ rest, NEW m \in rest
            PROVE  k < m
        <5>1. CASE k = l
          <6>1. l <= m /\ m # l /\ l \in Nat /\ m \in Nat
            BY <1>1, <3>1, PartnerAssumption DEF LevelsOf, Levels
          <6> QED BY <5>1, <6>1
        <5>2. CASE k # l
          BY <5>2, <3>1
        <5> QED BY <5>1, <5>2
      <4> QED BY <3>1, <4>1
    <3>6. \A k \in LevelsOf(s) \ rest : 1..k \subseteq LevelsOf(s)
      BY <3>1
    <3>7. ASSUME NEW k \in LevelsOf(s) \ rest, NEW p \in At(s, k)
          PROVE  packaging'[p].base = Product(s, k)'
      <4>1. Product(s, k)' = Product(s, k)
        BY <1>4, <3>6
      <4>2. CASE k = l
        BY <4>1, <4>2, <3>1, <1>4, <3>4
      <4>3. CASE k # l
        BY <4>1, <4>3, <3>1, <3>3
      <4> QED BY <4>2, <4>3
    <3>8. ASSUME NEW k \in rest
          PROVE  at[k] \in At(s, k) /\ per[k] = packaging'[at[k]].per
      <4>1. at[k] \in At(s, k) /\ per[k] = packaging[at[k]].per /\ at[k] \in PackagingIds
        BY <3>1, <3>3
      <4> QED BY <4>1, <1>4
    <3>9. /\ rest \subseteq LevelsOf(s)'
          /\ \A k \in LevelsOf(s)' \ rest, m \in rest : k < m
          /\ \A k \in LevelsOf(s)' \ rest : 1..k \subseteq LevelsOf(s)'
      BY <1>4, <3>5, <3>6
    <3>10. \A k \in LevelsOf(s)' \ rest : \A p \in At(s, k)' :
             packaging'[p].base = Product(s, k)'
      BY <1>4, <3>7
    <3>11. \A k \in rest : at[k] \in At(s, k)' /\ per[k] = packaging'[at[k]].per
      BY <1>4, <3>8
    <3> QED BY <2>3, <3>9, <3>10, <3>11 DEF RecalculationKnows
  <2> QED BY <2>4, <2>5, LevelsWritten
<1> QED BY <1>5, <1>6

LEMMA LevelsNext ==
  ASSUME PartnerInv, LevelsInv, PartnersNext
  PROVE  LevelsInv'
<1>1. ASSUME NEW c \in Clients, PartnerRequest(c)
      PROVE  LevelsInv'
  <2>1. packaging' = packaging
    BY <1>1 DEF PartnerRequest, partnerVars, tables
  <2>2. CASE RecalculateQtyToBase(c)
    BY <2>1, <2>2, LevelsRead
  <2>3. CASE ~ RecalculateQtyToBase(c)
    <3>1. CASE CustomerRequest(c)
      BY <2>1, <3>1, LevelsBegun DEF CustomerRequest, CreateCustomer,
         UpdateCustomer, SetCustomer, ActivateCustomer, DeactivateCustomer,
         BlacklistCustomer, RemoveCustomer
    <3>2. CASE AddressRequest(c)
      <4>1. CASE CreateAddress(c)
        BY <2>1, <4>1, LevelsBegun DEF CreateAddress
      <4>2. CASE UpdateAddress(c)
        <5>1. PICK a \in Live(address), dto \in UpdateAddressDto :
                Begin(c, Doing(CASE dto.default = TRUE -> "unsetThenSave"
                                 [] dto.default = FALSE -> "saveAddress"
                                 [] OTHER -> "keepAddress",
                               a, AddressPatched(address[a], dto)))
          BY <4>2 DEF UpdateAddress
        <5>2. PICK op : op = CASE dto.default = TRUE -> "unsetThenSave"
                               [] dto.default = FALSE -> "saveAddress"
                               [] OTHER -> "keepAddress"
          OBVIOUS
        <5>3. op # "recalculate"
          BY <5>2
        <5> QED BY <2>1, <5>1, <5>2, <5>3, LevelsBegun
      <4>3. CASE RemoveAddress(c)
        BY <2>1, <4>3, LevelsBegun DEF RemoveAddress
      <4> QED BY <3>2, <4>1, <4>2, <4>3 DEF AddressRequest
    <3>3. CASE SupplierRequest(c)
      BY <2>1, <3>3, LevelsBegun DEF SupplierRequest, CreateSupplier,
         UpdateSupplier, RemoveSupplier, ActivateSupplier, DeactivateSupplier
    <3>4. CASE PackagingRequest(c)
      BY <2>1, <2>3, <3>4, LevelsBegun DEF PackagingRequest, CreatePackaging,
         UpdatePackaging, RemovePackaging
    <3> QED BY <1>1, <3>1, <3>2, <3>3, <3>4 DEF PartnerRequest
  <2> QED BY <2>2, <2>3
<1>2. ASSUME NEW c \in Clients, PartnerSave(c)
      PROVE  LevelsInv'
  <2>1. CASE SaveCustomer(c) \/ SaveAddress(c) \/ SaveSupplier(c) \/ SavePackaging(c)
    <3>1. Answer(c)
      BY <2>1 DEF SaveCustomer, SaveAddress, SaveSupplier, SavePackaging
    <3> QED BY <3>1, LevelsAnswered
  <2>2. CASE UnsetDefaults(c)
    <3> PICK op : op = IF req[c].op = "unsetThenInsert" THEN "insertAddress"
                       ELSE "saveAddress"
      OBVIOUS
    <3> PICK r : r = [req[c] EXCEPT !.op = op]
      OBVIOUS
    <3>1. packaging' = packaging /\ Proceed(c, r)
      BY <2>2 DEF UnsetDefaults
    <3>2. r.op # "recalculate"
      BY DEF PartnerInv, PartnerReq, Fields
    <3>3. /\ req' = [req EXCEPT ![c] = r]
          /\ overtaken \subseteq overtaken' \cup {c}
      BY <3>1 DEF Proceed
    <3> QED BY <3>1, <3>2, <3>3, LevelsOtherwise
  <2>3. CASE RecalculateLevel(c)
    BY <2>3, LevelComputed
  <2>4. CASE SaveRecalculated(c)
    BY <2>4, LevelWritten
  <2> QED BY <1>2, <2>1, <2>2, <2>3, <2>4 DEF PartnerSave
<1>3. ASSUME NEW c \in Clients, AbandonPartner(c)
      PROVE  LevelsInv'
  <2>1. /\ packaging' = packaging /\ req' = [req EXCEPT ![c] = Idle]
        /\ overtaken \subseteq overtaken' \cup {c}
    BY <1>3 DEF AbandonPartner, Abandon, partnerVars, tables
  <2> QED BY <2>1, IdleFields, LevelsOtherwise
<1>4. CASE PlaceSalesOrder \/ Supply
  <2>1. UNCHANGED <<packaging, req, overtaken>>
    BY <1>4 DEF PlaceSalesOrder, Supply, tables, reqVars
  <2>2. \A s, l : At(s, l)' = At(s, l) /\ Product(s, l)' = Product(s, l)
    BY <2>1, ProductByDefinition
  <2>3. \A s : LevelsOf(s)' = LevelsOf(s)
    BY <2>2 DEF LevelsOf
  <2> QED BY <2>1, <2>2, <2>3 DEF LevelsInv, RecalculationKnows
<1> QED BY <1>1, <1>2, <1>3, <1>4 DEF PartnersNext

\* The last level is written.
LevelsHold ==
  \A c \in Clients \ overtaken :
    req[c].op = "recalculate" /\ Answers(c) /\ packaging' # packaging
      => \A l \in LevelsOf(req[c].id), p \in PackagingIds :
           p \in At(req[c].id, l) => packaging'[p].base = Product(req[c].id, l)

LEMMA LevelsSettle ==
  ASSUME PartnerInv, LevelsInv, PartnersNext
  PROVE  LevelsHold
<1> SUFFICES ASSUME NEW c \in Clients \ overtaken,
                    req[c].op = "recalculate", Answers(c), packaging' # packaging,
                    NEW k \in LevelsOf(req[c].id), NEW p \in At(req[c].id, k)
             PROVE  packaging'[p].base = Product(req[c].id, k)
  BY DEF LevelsHold
<1>1. PICK d \in Clients : SavePackaging(d) \/ SaveRecalculated(d)
  BY DEF PartnersNext, PartnerRequest, PartnerSave, AbandonPartner,
     PlaceSalesOrder, Supply, partnerVars, tables, UnsetDefaults, SaveAddress,
     SaveCustomer, SaveSupplier, RecalculateLevel
<1>2. \A x \in Clients \ {d} : req'[x] = req[x]
  BY <1>1 DEF SavePackaging, SaveRecalculated, Answer, Proceed, PartnerInv, Served
<1>3. d = c
  BY <1>2 DEF Answers
<1>4. SaveRecalculated(c)
  BY <1>1, <1>3 DEF SavePackaging
<1>5. /\ PartnerReq(req[c]) /\ RecalculationKnows(req[c])
      /\ packaging \in [PackagingIds -> PackagingRow]
  BY DEF PartnerInv, PartnersTyped, LevelsInv
<1> PICK s : s = req[c].id
  OBVIOUS
<1> PICK todo : todo = req[c].row.todo
  OBVIOUS
<1> PICK l : l = req[c].row.base[1]
  OBVIOUS
<1> PICK x : x = req[c].row.at[l]
  OBVIOUS
<1> PICK b : b = req[c].row.base[2]
  OBVIOUS
<1>6. packaging' = [packaging EXCEPT ![x].base = b]
  BY <1>4 DEF SaveRecalculated
<1>7. todo = {l}
  <2> SUFFICES ASSUME todo # {l} PROVE FALSE
    OBVIOUS
  <2> PICK row : row = [req[c].row EXCEPT !.todo = @ \ {l}, !.base = None]
    OBVIOUS
  <2> PICK r : r = [req[c] EXCEPT !.row = row]
    OBVIOUS
  <2>1. [req[c] EXCEPT !.row.todo = @ \ {l}, !.row.base = None] = r
    BY <1>5 DEF PartnerReq, Fields
  <2>2. Proceed(c, r)
    BY <1>4, <2>1 DEF SaveRecalculated
  <2>3. req'[c] = r
    BY <2>2 DEF Proceed, PartnerInv, Served
  <2>4. r.op = "recalculate"
    BY <1>5 DEF PartnerReq, Fields
  <2> QED BY <2>3, <2>4, IdleFields DEF Answers
<1>8. /\ x \in At(s, l) /\ b = Product(s, l) /\ l \in LevelsOf(s)
      /\ \A m \in LevelsOf(s) \ {l} : \A q \in At(s, m) :
           packaging[q].base = Product(s, m)
  BY <1>4, <1>5, <1>7 DEF RecalculationKnows, SaveRecalculated
<1>9. p \in PackagingIds /\ x \in PackagingIds
  BY <1>5, <1>8 DEF At, Live
<1>10. CASE k = l
  <2>1. p = x
    BY <1>8, <1>10 DEF At, PartnerInv, OneOfALevel
  <2>2. packaging'[x] = [packaging[x] EXCEPT !.base = b]
    BY <1>5, <1>6, <1>9
  <2>3. packaging'[x].base = b
    <3>1. packaging[x] \in PackagingRow
      BY <1>5, <1>9
    <3> QED BY <2>2, <3>1 DEF PackagingRow
  <2> QED BY <1>8, <1>10, <2>1, <2>3
<1>11. CASE k # l
  <2>1. p # x
    BY <1>8, <1>11 DEF At
  <2>2. packaging'[p] = packaging[p]
    BY <1>5, <1>6, <1>9, <2>1
  <2> QED BY <1>8, <1>11, <2>2
<1> QED BY <1>10, <1>11

-----------------------------------------------------------------------------
(* What a step does to customers, suppliers and addresses.                 *)

\* A customer leaves the blacklist only by an overtaken request.
BlacklistHolds ==
  \A k \in Live(customer) :
    customer[k].status = "BLACKLIST" /\ customer'[k].status # "BLACKLIST"
      => \E c \in overtaken : Answers(c) /\ req[c].id = k

\* A type of address gets a second default only by an overtaken request, or by
\* one that moves a default address to the type.
OneDefaultHolds ==
  \A k \in CustomerIds, t \in AddressTypes :
    LET more == Cardinality(Defaults(k, t)') IN
    more > 1 /\ more > Cardinality(Defaults(k, t))
      => \E c \in Clients :
           /\ Answers(c)
           /\ \/ c \in overtaken
              \/ /\ req[c].op = "keepAddress"
                 /\ address[req[c].id].type # t

LEMMA BlacklistStep ==
  ASSUME PartnerInv, PartnersNext
  PROVE  BlacklistHolds
<1> SUFFICES ASSUME NEW k \in Live(customer), customer[k].status = "BLACKLIST",
                    customer'[k].status # "BLACKLIST"
             PROVE  \E c \in overtaken : Answers(c) /\ req[c].id = k
  BY DEF BlacklistHolds
<1>0. /\ customer \in [CustomerIds -> CustomerRow] /\ k \in CustomerIds
      /\ customer' # customer
  BY DEF PartnerInv, PartnersTyped, Live
<1>1. PICK c \in Clients : SaveCustomer(c)
  BY <1>0 DEF PartnersNext, PartnerRequest, PartnerSave, AbandonPartner,
     PlaceSalesOrder, Supply, partnerVars, tables, UnsetDefaults, SaveAddress,
     SaveSupplier, SavePackaging, RecalculateLevel, SaveRecalculated
<1> DEFINE r == req[c]
<1>2. r.op # "insertCustomer"
  <2> SUFFICES ASSUME r.op = "insertCustomer" PROVE FALSE
    OBVIOUS
  <2>1. Free(customer) # {} /\ customer' = Inserted(customer, r.row)
    BY <1>1 DEF SaveCustomer
  <2>2. PICK x \in Free(customer) : customer' = [customer EXCEPT ![x] = r.row]
    BY <1>0, <2>1, InsertedAt, PartnerAssumption
  <2> QED
    BY <1>0, <2>2 DEF Free, Live
<1>3. r.op # "deleteCustomer"
  BY <1>0, <1>1 DEF SaveCustomer, Deleted, CustomerRow
<1>4. r.op = "saveCustomer"
      /\ customer' = [customer EXCEPT ![r.id].status = r.row.status,
                                      ![r.id].active = r.row.active]
  BY <1>1, <1>2, <1>3 DEF SaveCustomer
<1>5. r.id = k
  BY <1>0, <1>4
<1>6. customer'[k].status = r.row.status
  BY <1>0, <1>4, <1>5 DEF CustomerRow
<1>7. c \in overtaken
  BY <1>4, <1>5, <1>6 DEF PartnerInv, PartnerKnows
<1>8. Answers(c)
  BY <1>1, <1>4, Answered DEF PartnerInv, SaveCustomer
<1> QED
  BY <1>5, <1>7, <1>8

LEMMA SupplierStep ==
  ASSUME PartnerInv, PartnersNext
  PROVE  SupplierActivityMovesAsAsked
<1> SUFFICES ASSUME NEW s \in Live(supplier),
                    supplier'[s].active # supplier[s].active
             PROVE  \E c \in Clients :
                      /\ Answers(c) /\ req[c].id = s
                      /\ \/ req[c].op \in {"activateSupplier", "setSupplier"}
                         \/ c \in overtaken
  BY DEF SupplierActivityMovesAsAsked
<1>0. /\ supplier \in [SupplierIds -> SupplierRow] /\ s \in SupplierIds
      /\ supplier' # supplier
  BY DEF PartnerInv, PartnersTyped, Live
<1>1. PICK c \in Clients : SaveSupplier(c)
  BY <1>0 DEF PartnersNext, PartnerRequest, PartnerSave, AbandonPartner,
     PlaceSalesOrder, Supply, partnerVars, tables, UnsetDefaults, SaveAddress,
     SaveCustomer, SavePackaging, RecalculateLevel, SaveRecalculated
<1> DEFINE r == req[c]
<1>2. r.op # "insertSupplier"
  <2> SUFFICES ASSUME r.op = "insertSupplier" PROVE FALSE
    OBVIOUS
  <2>1. Free(supplier) # {} /\ supplier' = Inserted(supplier, r.row)
    BY <1>1 DEF SaveSupplier
  <2>2. PICK x \in Free(supplier) : supplier' = [supplier EXCEPT ![x] = r.row]
    BY <1>0, <2>1, InsertedAt, PartnerAssumption
  <2> QED
    BY <1>0, <2>2 DEF Free, Live
<1>3. r.op # "deleteSupplier"
  BY <1>0, <1>1 DEF SaveSupplier, Deleted, SupplierRow
<1>4. r.op \in {"saveSupplier", "setSupplier", "activateSupplier"}
  BY <1>1, <1>2, <1>3 DEF SaveSupplier
<1>5. r.id = s
  BY <1>0, <1>1, <1>4 DEF SaveSupplier
<1>6. r.op = "saveSupplier" => c \in overtaken
  <2> SUFFICES ASSUME r.op = "saveSupplier", c \notin overtaken PROVE FALSE
    OBVIOUS
  <2>1. supplier' = [supplier EXCEPT ![s] = r.row]
    BY <1>1, <1>5 DEF SaveSupplier
  <2>2. r.row.active = supplier[s].active
    BY <1>5 DEF PartnerInv, PartnerKnows
  <2> QED
    BY <1>0, <2>1, <2>2
<1>7. Answers(c)
  BY <1>1, <1>4, Answered DEF PartnerInv, SaveSupplier
<1> QED
  BY <1>4, <1>5, <1>6, <1>7

\* The defaults there are after a step: they grow by no more than the step of
\* one request, which knows what it does unless it was overtaken.
LEMMA DefaultsFinite ==
  ASSUME PartnerInv, NEW k, NEW t
  PROVE  /\ Defaults(k, t) \subseteq AddressIds
         /\ IsFiniteSet(Defaults(k, t))
<1>1. Defaults(k, t) \subseteq AddressIds
  BY DEF Defaults, Live, PartnerInv, PartnersTyped
<1> QED
  BY <1>1, PartnerAssumption, FS_Subset

LEMMA FewerDefaults ==
  ASSUME NEW S, NEW T, IsFiniteSet(T), S \subseteq T
  PROVE  ~ (Cardinality(S) > Cardinality(T))
<1>1. IsFiniteSet(S) /\ Cardinality(S) <= Cardinality(T)
  BY FS_Subset
<1>2. Cardinality(S) \in Nat /\ Cardinality(T) \in Nat
  BY <1>1, FS_CardinalityType
<1> QED
  BY <1>1, <1>2

LEMMA OnlyDefault ==
  ASSUME NEW S, NEW x, S \subseteq {x}
  PROVE  ~ (Cardinality(S) > 1)
<1>1. IsFiniteSet({x}) /\ Cardinality({x}) = 1
  BY FS_Singleton
<1> QED
  BY <1>1, FewerDefaults

LEMMA OneDefaultStep ==
  ASSUME PartnerInv, PartnersNext
  PROVE  OneDefaultHolds
<1> SUFFICES ASSUME NEW k \in CustomerIds, NEW t \in AddressTypes,
                    Cardinality(Defaults(k, t)') > 1,
                    Cardinality(Defaults(k, t)') > Cardinality(Defaults(k, t))
             PROVE  \E c \in Clients :
                      /\ Answers(c)
                      /\ \/ c \in overtaken
                         \/ /\ req[c].op = "keepAddress"
                            /\ address[req[c].id].type # t
  BY DEF OneDefaultHolds
<1>0. address \in [AddressIds -> AddressRow]
  BY DEF PartnerInv, PartnersTyped
<1>1. PICK T : T = Defaults(k, t)
  OBVIOUS
<1>2. PICK S : S = Defaults(k, t)'
  OBVIOUS
<1>3. ~ (S \subseteq T)
  BY <1>1, <1>2, DefaultsFinite, FewerDefaults
<1>4. \A x : ~ (S \subseteq {x})
  BY <1>2, OnlyDefault
<1>5. PICK c \in Clients : SaveCustomer(c) \/ UnsetDefaults(c) \/ SaveAddress(c)
  <2>1. address' # address
    BY <1>1, <1>2, <1>3 DEF Defaults, Live
  <2> QED
    BY <2>1 DEF PartnersNext, PartnerRequest, PartnerSave, AbandonPartner,
       PlaceSalesOrder, Supply, partnerVars, tables, SaveSupplier,
       SavePackaging, RecalculateLevel, SaveRecalculated
<1> DEFINE r == req[c]
\* Rows that are unset or deleted are no defaults.
<1>6. ASSUME \A a \in AddressIds :
               \/ address'[a] = address[a]
               \/ address'[a].st # "live"
               \/ ~ address'[a].default,
             DOMAIN address' = AddressIds
      PROVE  FALSE
  BY <1>0, <1>1, <1>2, <1>3, <1>6 DEF Defaults, Live
<1>7. ~ SaveCustomer(c)
  <2> SUFFICES ASSUME SaveCustomer(c) PROVE FALSE
    OBVIOUS
  <2>1. address' = address \/
        address' = [a \in AddressIds |->
             IF address[a].st = "live" /\ address[a].customer = r.id
             THEN [address[a] EXCEPT !.st = "gone"] ELSE address[a]]
    BY DEF SaveCustomer
  <2> QED
    BY <1>0, <1>6, <2>1 DEF AddressRow
<1>8. ~ UnsetDefaults(c)
  <2> SUFFICES ASSUME UnsetDefaults(c) PROVE FALSE
    OBVIOUS
  <2>1. PICK D : D = Defaults(r.row.customer, r.row.type) \ {r.id}
    OBVIOUS
  <2>2. address' = [a \in AddressIds |->
          IF a \in D THEN [address[a] EXCEPT !.default = FALSE] ELSE address[a]]
    BY <2>1 DEF UnsetDefaults
  <2> QED
    BY <1>0, <1>6, <2>2 DEF AddressRow
<1>9. SaveAddress(c)
  BY <1>5, <1>7, <1>8
<1>10. r.op # "deleteAddress"
  BY <1>0, <1>6, <1>9 DEF SaveAddress, Deleted, AddressRow
<1>11. PICK x \in AddressIds : address' = [address EXCEPT ![x] = r.row]
             /\ (r.op # "insertAddress" => x = r.id /\ x \in Live(address))
  <2>1. CASE r.op = "insertAddress"
    <3>1. Free(address) # {} /\ address' = Inserted(address, r.row)
      BY <1>9, <2>1 DEF SaveAddress
    <3>2. PICK x \in Free(address) : address' = [address EXCEPT ![x] = r.row]
      BY <1>0, <3>1, InsertedAt, PartnerAssumption
    <3> QED
      BY <1>0, <2>1, <3>2 DEF Free
  <2>2. CASE r.op # "insertAddress"
    BY <1>0, <1>9, <1>10, <2>2 DEF SaveAddress, Live
  <2> QED
    BY <2>1, <2>2
<1>12. Answers(c)
  <2>1. r.op # "idle" /\ Answer(c)
    BY <1>9 DEF SaveAddress
  <2> QED
    BY <2>1, Answered DEF PartnerInv
<1>13. \A a \in AddressIds \ {x} : a \in S => a \in T
  BY <1>0, <1>1, <1>2, <1>11 DEF Defaults, Live
<1>14. S \subseteq AddressIds /\ x \in S /\ x \notin T
  <2>1. S \subseteq AddressIds
    BY <1>0, <1>2, <1>11 DEF Defaults, Live
  <2> QED
    BY <1>3, <1>13, <2>1
<1>15. r.row.customer = k /\ r.row.type = t /\ r.row.default
  BY <1>0, <1>2, <1>11, <1>14 DEF Defaults
<1>16. CASE c \notin overtaken
  <2>1. PartnerKnows(r)
    BY <1>16 DEF PartnerInv
  <2>2. ~ (T \subseteq {x})
    BY <1>4, <1>13, <1>14
  <2>3. r.op \notin {"insertAddress", "saveAddress"}
    BY <1>1, <1>11, <1>15, <2>1, <2>2 DEF PartnerKnows
  <2>4. r.op = "keepAddress"
    BY <1>9, <1>10, <2>3 DEF SaveAddress
  <2>5. address[x].customer = k /\ address[x].default /\ x \in Live(address)
    BY <1>11, <1>15, <2>1, <2>4 DEF PartnerKnows
  <2>6. address[x].type # t
    BY <1>1, <1>14, <2>5 DEF Defaults
  <2> QED
    BY <1>11, <1>12, <2>4, <2>6
<1> QED
  BY <1>12, <1>16

-----------------------------------------------------------------------------
(* Master data.                                                            *)

MasterReq(r) ==
  /\ DOMAIN r = Fields
  /\ r.op = "insertRef" => r.row \in RefRow
  /\ r.op \in {"saveRef", "setActiveRow"} => r.row \in RefRow /\ r.row.st = "live"
  /\ r.op = "saveRef" => table # "Color"
  /\ r.op = "saveCode" => r.row \in RefCodes \cup {None}
  /\ r.op = "setActive" => r.row \in BOOLEAN

\* Until another request writes, the row is as active as it was read, and the
\* material that is deleted is named by no item.
MasterKnows(r) ==
  /\ r.op = "saveRef" => r.row.active = ref[r.id].active
  /\ r.op = "deleteRef" /\ table = "Material" => Naming(r.id) = {}

MasterInv ==
  /\ Served /\ MasterTyped
  /\ \A c \in Clients : MasterReq(req[c])
  /\ \A c \in Clients \ overtaken : MasterKnows(req[c])

LEMMA IdleMaster == MasterReq(Idle) /\ MasterKnows(Idle)
BY IdleFields DEF MasterReq, MasterKnows

LEMMA MasterQuiet ==
  ASSUME MasterInv, NEW c \in Clients, NEW r,
         UNCHANGED masterVars, Served',
         req' = [req EXCEPT ![c] = r],
         overtaken \subseteq overtaken' \cup {c},
         MasterReq(r), c \notin overtaken' => MasterKnows(r)
  PROVE  MasterInv'
<1>1. MasterTyped'
  BY DEF MasterInv, masterVars, MasterTyped
<1>2. req'[c] = r /\ \A d \in Clients \ {c} : req'[d] = req[d]
  BY DEF MasterInv, Served
<1>3. \A d \in Clients : MasterReq(req'[d])
  BY <1>2 DEF MasterInv
<1>4. \A s : MasterKnows(s) => MasterKnows(s)'
  BY DEF masterVars, MasterKnows, Naming
<1>5. ASSUME NEW d \in Clients \ overtaken'
      PROVE  MasterKnows(req[d])'
  <2>1. PICK s : s = req'[d]
    OBVIOUS
  <2>2. MasterKnows(s)
    BY <1>2, <1>5, <2>1 DEF MasterInv
  <2> QED
    BY <1>4, <2>1, <2>2 DEF MasterKnows, Naming
<1>6. (\A d \in Clients : MasterReq(req[d]))'
  BY <1>3 DEF MasterReq, masterVars
<1> QED
  BY <1>1, <1>6, <1>5 DEF MasterInv

LEMMA MasterBegins ==
  ASSUME MasterInv, NEW c \in Clients, UNCHANGED masterVars, Ready(c),
         NEW op, NEW id, NEW row, Begin(c, Doing(op, id, row)),
         MasterReq(Doing(op, id, row)), MasterKnows(Doing(op, id, row))
  PROVE  MasterInv'
<1> PICK r : r = Doing(op, id, row)
  OBVIOUS
<1>1. Served' /\ req' = [req EXCEPT ![c] = r]
      /\ overtaken \subseteq overtaken' \cup {c}
  BY BeginServes DEF MasterInv
<1>2. MasterReq(r) /\ MasterKnows(r)
  OBVIOUS
<1> QED
  BY <1>1, <1>2, MasterQuiet

LEMMA MasterAbandons ==
  ASSUME MasterInv, NEW c \in Clients, AbandonMaster(c)
  PROVE  MasterInv'
<1>1. Served' /\ req' = [req EXCEPT ![c] = Idle]
      /\ overtaken \subseteq overtaken' \cup {c}
  BY AbandonServes DEF MasterInv, AbandonMaster
<1> QED
  BY <1>1, IdleMaster, MasterQuiet DEF AbandonMaster

\* After a write nobody knows anything but the one that wrote.
LEMMA MasterAnswers ==
  ASSUME MasterInv, NEW c \in Clients, MasterTyped', table' = table, Answer(c)
  PROVE  MasterInv'
<1>1. Served' /\ req' = [req EXCEPT ![c] = Idle]
      /\ overtaken \cup (Open \ {c}) \subseteq overtaken' \cup {c}
  BY AnswerServes DEF MasterInv
<1>2. req'[c] = Idle /\ \A d \in Clients \ {c} : req'[d] = req[d]
  BY <1>1 DEF MasterInv, Served
<1>3. \A d \in Clients : MasterReq(req'[d])
  BY <1>2, IdleMaster DEF MasterInv
<1>4. (\A d \in Clients : MasterReq(req[d]))'
  BY <1>3 DEF MasterReq
<1>5. ASSUME NEW d \in Clients \ overtaken'
      PROVE  MasterKnows(req[d])'
  <2>1. req'[d] = Idle
    BY <1>1, <1>2, <1>5, OthersOvertaken DEF MasterInv
  <2> QED
    BY <2>1, IdleFields DEF MasterKnows
<1> QED
  BY <1>1, <1>4, <1>5 DEF MasterInv

LEMMA RefPatches ==
  ASSUME NEW row \in RefRow, NEW dto \in UpdateRefDto
  PROVE  /\ RefPatched(row, dto) \in RefRow /\ RefPatched(row, dto).st = row.st
         /\ RefPatched(row, dto).active = row.active
BY DEF RefRow, UpdateRefDto, RefPatched, Given

LEMMA MasterRequestOK ==
  ASSUME MasterInv, NEW c \in Clients, MasterRequest(c)
  PROVE  MasterInv'
<1>0. /\ ref \in [RefIds -> RefRow] /\ Live(ref) \subseteq RefIds
      /\ UNCHANGED masterVars /\ Ready(c)
  BY DEF MasterInv, MasterTyped, MasterRequest, Live
<1>1. ASSUME NEW row \in RefRow, Begin(c, Doing("insertRef", None, row))
      PROVE  MasterInv'
  <2>1. MasterReq(Doing("insertRef", None, row))
    BY DoingFields DEF MasterReq
  <2>2. MasterKnows(Doing("insertRef", None, row))
    BY DoingFields DEF MasterKnows
  <2> QED
    BY <1>0, <1>1, <2>1, <2>2, MasterBegins
<1>2. ASSUME CheckedCreate(c) \/ UncheckedCreate(c)
      PROVE  MasterInv'
  <2>1. PICK dto \in CreateRefDto : Begin(c, Doing("insertRef", None, NewRef(dto)))
    BY <1>2 DEF CheckedCreate, UncheckedCreate
  <2>2. NewRef(dto) \in RefRow
    BY DEF NewRef, CreateRefDto, RefRow
  <2> QED
    BY <1>1, <2>1, <2>2
<1>3. ASSUME NEW x \in Live(ref), NEW row \in RefRow, table # "Color",
             row.st = "live", row.active = ref[x].active, Begin(c, Doing("saveRef", x, row))
      PROVE  MasterInv'
  <2>1. MasterReq(Doing("saveRef", x, row))
    BY <1>3, DoingFields DEF MasterReq
  <2>2. MasterKnows(Doing("saveRef", x, row))
    BY <1>3, DoingFields DEF MasterKnows
  <2> QED
    BY <1>0, <1>3, <2>1, <2>2, MasterBegins
<1>4. ASSUME table # "Color", CheckedUpdate(c)
      PROVE  MasterInv'
  <2>1. PICK x \in Live(ref), dto \in UpdateRefDto :
          Begin(c, Doing("saveRef", x, RefPatched(ref[x], dto)))
    BY <1>4 DEF CheckedUpdate
  <2>2. PICK row : row = RefPatched(ref[x], dto)
    OBVIOUS
  <2>3. row \in RefRow /\ row.st = "live" /\ row.active = ref[x].active
    BY <1>0, <2>2, RefPatches DEF Live
  <2> QED
    BY <1>3, <1>4, <2>1, <2>2, <2>3
<1>5. ASSUME table # "Color", DetailsUpdate(c)
      PROVE  MasterInv'
  <2>1. PICK x \in Live(ref) : Begin(c, Doing("saveRef", x, ref[x]))
    BY <1>5 DEF DetailsUpdate
  <2>2. ref[x] \in RefRow /\ ref[x].st = "live"
    BY <1>0 DEF Live
  <2> QED
    BY <1>3, <1>5, <2>1, <2>2
<1>6. ASSUME ColumnsUpdate(c)
      PROVE  MasterInv'
  <2>1. PICK x \in Live(ref), dto \in UpdateRefDto :
          Begin(c, Doing("saveCode", x, Given(dto.code, None)))
    BY <1>6 DEF ColumnsUpdate
  <2>2. PICK code \in RefCodes \cup {None} : code = Given(dto.code, None)
    BY DEF UpdateRefDto, Given
  <2>3. MasterReq(Doing("saveCode", x, code))
    BY DoingFields DEF MasterReq
  <2>4. MasterKnows(Doing("saveCode", x, code))
    BY DoingFields DEF MasterKnows
  <2> QED
    BY <1>0, <2>1, <2>2, <2>3, <2>4, MasterBegins
<1>7. ASSUME SetActiveColumn(c)
      PROVE  MasterInv'
  <2>1. PICK x \in Live(ref), active \in BOOLEAN :
          Begin(c, Doing("setActive", x, active))
    BY <1>7 DEF SetActiveColumn
  <2>2. PICK row \in BOOLEAN : row = active
    OBVIOUS
  <2>3. MasterReq(Doing("setActive", x, row))
    BY DoingFields DEF MasterReq
  <2>4. MasterKnows(Doing("setActive", x, row))
    BY DoingFields DEF MasterKnows
  <2> QED
    BY <1>0, <2>1, <2>2, <2>3, <2>4, MasterBegins
<1>8. ASSUME SetActiveRow(c)
      PROVE  MasterInv'
  <2>1. PICK x \in Live(ref), active \in BOOLEAN :
          Begin(c, Doing("setActiveRow", x, [ref[x] EXCEPT !.active = active]))
    BY <1>8 DEF SetActiveRow
  <2>2. PICK row : row = [ref[x] EXCEPT !.active = active]
    OBVIOUS
  <2>3. row \in RefRow /\ row.st = "live"
    BY <1>0, <2>2 DEF RefRow, Live
  <2>4. MasterReq(Doing("setActiveRow", x, row))
    BY <2>3, DoingFields DEF MasterReq
  <2>5. MasterKnows(Doing("setActiveRow", x, row))
    BY DoingFields DEF MasterKnows
  <2> QED
    BY <1>0, <2>1, <2>2, <2>4, <2>5, MasterBegins
<1>9. ASSUME NEW x, Begin(c, Doing("deleteRef", x, None)),
             table = "Material" => Naming(x) = {}
      PROVE  MasterInv'
  <2>1. MasterReq(Doing("deleteRef", x, None))
    BY DoingFields DEF MasterReq
  <2>2. MasterKnows(Doing("deleteRef", x, None))
    BY <1>9, DoingFields DEF MasterKnows
  <2> QED
    BY <1>0, <1>9, <2>1, <2>2, MasterBegins
<1>10. ASSUME table # "Material", RemoveRef(c)
       PROVE  MasterInv'
  BY <1>9, <1>10 DEF RemoveRef
<1>11. ASSUME RemoveUnused(c)
       PROVE  MasterInv'
  BY <1>9, <1>11 DEF RemoveUnused
<1> QED
  BY <1>2, <1>4, <1>5, <1>6, <1>7, <1>8, <1>10, <1>11 DEF MasterRequest,
     ItemTypeService, ItemCategoryService, GenderService, MaterialService,
     SizeService, ColorsService, AdjustReasonService

LEMMA MasterSaveOK ==
  ASSUME MasterInv, NEW c \in Clients, MasterSave(c)
  PROVE  MasterInv'
<1> DEFINE r == req[c]
<1>0. /\ ref \in [RefIds -> RefRow] /\ MasterReq(r) /\ Live(ref) \subseteq RefIds
      /\ names \in [Users -> RefIds \cup {None}]
      /\ table \in Tables /\ table' = table /\ Answer(c)
  BY DEF MasterInv, MasterTyped, MasterSave, Live
<1>1. ref' \in [RefIds -> RefRow] /\ names' \in [Users -> RefIds \cup {None}]
  <2>1. CASE InsertRef(c)
    BY <1>0, <2>1, InsertedTyped DEF InsertRef, MasterReq
  <2>2. CASE SaveRefRow(c)
    BY <1>0, <2>2 DEF SaveRefRow, MasterReq
  <2>3. CASE SaveRefColumns(c)
    <3>1. r.id \in RefIds /\ ref[r.id] \in RefRow /\ names' = names
      BY <1>0, <2>3 DEF SaveRefColumns
    <3>2. CASE r.op = "setActive"
      <4>1. PICK row : row = [ref[r.id] EXCEPT !.active = r.row]
        OBVIOUS
      <4>2. row \in RefRow
        BY <1>0, <3>1, <3>2, <4>1 DEF RefRow, MasterReq
      <4>3. ref' = [ref EXCEPT ![r.id] = row]
        BY <2>3, <3>2, <4>1 DEF SaveRefColumns
      <4> QED
        BY <1>0, <3>1, <4>2, <4>3
    <3>3. CASE r.op = "saveCode"
      <4>1. PICK code : code = IF r.row = None THEN ref[r.id].code ELSE r.row
        OBVIOUS
      <4>2. code \in RefCodes
        BY <1>0, <3>1, <3>3, <4>1 DEF RefRow, MasterReq
      <4>3. PICK row : row = [ref[r.id] EXCEPT !.code = code]
        OBVIOUS
      <4>4. row \in RefRow
        BY <3>1, <4>2, <4>3 DEF RefRow
      <4>5. ref' = [ref EXCEPT ![r.id] = row]
        BY <1>0, <2>3, <3>3, <4>1, <4>3 DEF SaveRefColumns
      <4> QED
        BY <1>0, <3>1, <4>4, <4>5
    <3> QED
      BY <2>3, <3>2, <3>3 DEF SaveRefColumns
  <2>4. CASE DeleteRef(c)
    <3>1. ref' \in [RefIds -> RefRow]
      BY <1>0, <2>4 DEF DeleteRef, Deleted, RefRow
    <3> QED
      BY <1>0, <2>4, <3>1 DEF DeleteRef
  <2> QED
    BY <2>1, <2>2, <2>3, <2>4 DEF MasterSave
<1>2. MasterTyped'
  BY <1>0, <1>1 DEF MasterTyped
<1> QED
  BY <1>0, <1>2, MasterAnswers

LEMMA NameRefOK ==
  ASSUME MasterInv, NameRef
  PROVE  MasterInv'
<1>1. PICK u \in Users, x \in Live(ref) \cup {None} :
        /\ names' = [names EXCEPT ![u] = x]
        /\ overtaken' = overtaken \cup Open
        /\ UNCHANGED <<table, ref, req, left>>
  BY DEF NameRef
<1>2. x \in RefIds \cup {None}
  BY DEF MasterInv, MasterTyped, Live
<1>3. MasterTyped'
  BY <1>1, <1>2 DEF MasterInv, MasterTyped
<1>4. Served'
  BY <1>1 DEF MasterInv, Served, Open
<1>5. (\A d \in Clients : MasterReq(req[d]))'
  BY <1>1 DEF MasterInv, MasterReq
<1>6. ASSUME NEW d \in Clients \ overtaken'
      PROVE  MasterKnows(req[d])'
  <2>1. req'[d] = Idle
    BY <1>1, <1>6 DEF Open
  <2> QED
    BY <2>1, IdleFields DEF MasterKnows
<1> QED
  BY <1>3, <1>4, <1>5, <1>6 DEF MasterInv

LEMMA MasterNextOK ==
  ASSUME MasterInv, MasterNext
  PROVE  MasterInv'
BY MasterRequestOK, MasterSaveOK, MasterAbandons, NameRefOK DEF MasterNext

\* A material in use is deleted only by an overtaken request.
MaterialHolds ==
  \A x \in Live(ref) :
    table = "Material" /\ Naming(x) # {} /\ ref'[x].st = "gone"
      => \E c \in overtaken : Answers(c) /\ req[c].id = x

LEMMA ReferenceStep ==
  ASSUME MasterInv, MasterNext
  PROVE  ReferenceActivityMovesAsAsked
<1> SUFFICES ASSUME NEW x \in Live(ref), ref'[x].active # ref[x].active
             PROVE  \E c \in Clients :
                      /\ Answers(c) /\ req[c].id = x
                      /\ \/ req[c].op \in {"setActive", "setActiveRow"}
                         \/ c \in overtaken /\ table # "Color"
  BY DEF ReferenceActivityMovesAsAsked
<1>0. ref \in [RefIds -> RefRow] /\ x \in RefIds /\ ref' # ref
  BY DEF MasterInv, MasterTyped, Live
<1>1. PICK c \in Clients : MasterSave(c)
  BY <1>0 DEF MasterNext, MasterRequest, AbandonMaster, NameRef, masterVars
<1> DEFINE r == req[c]
<1>2. ~ InsertRef(c)
  <2> SUFFICES ASSUME InsertRef(c) PROVE FALSE
    OBVIOUS
  <2>1. Free(ref) # {} /\ ref' = Inserted(ref, r.row)
    BY DEF InsertRef
  <2>2. PICK y \in Free(ref) : ref' = [ref EXCEPT ![y] = r.row]
    BY <1>0, <2>1, InsertedAt, MasterAssumption
  <2> QED
    BY <1>0, <2>2 DEF Free, Live
<1>3. ~ DeleteRef(c)
  BY <1>0 DEF DeleteRef, Deleted, RefRow
<1>4. SaveRefRow(c) \/ SaveRefColumns(c)
  BY <1>1, <1>2, <1>3 DEF MasterSave
<1>5. r.id = x /\ r.op # "saveCode"
  BY <1>0, <1>4 DEF SaveRefRow, SaveRefColumns, RefRow
<1>6. r.op = "saveRef" => c \in overtaken /\ table # "Color"
  <2>1. r.op = "saveRef" => table # "Color"
    BY DEF MasterInv, MasterReq
  <2> SUFFICES ASSUME r.op = "saveRef", c \notin overtaken PROVE FALSE
    BY <2>1
  <2>2. ref' = [ref EXCEPT ![x] = r.row]
    BY <1>4, <1>5 DEF SaveRefRow, SaveRefColumns
  <2>3. r.row.active = ref[x].active
    BY <1>5 DEF MasterInv, MasterKnows
  <2> QED
    BY <1>0, <2>2, <2>3
<1>7. Answers(c)
  <2>1. r.op # "idle" /\ Answer(c)
    BY <1>1, <1>4 DEF MasterSave, SaveRefRow, SaveRefColumns
  <2> QED
    BY <2>1, Answered DEF MasterInv
<1> QED
  BY <1>4, <1>5, <1>6, <1>7 DEF SaveRefRow, SaveRefColumns

LEMMA MaterialStep ==
  ASSUME MasterInv, MasterNext
  PROVE  MaterialHolds
<1> SUFFICES ASSUME NEW x \in Live(ref), table = "Material", Naming(x) # {},
                    ref'[x].st = "gone"
             PROVE  \E c \in overtaken : Answers(c) /\ req[c].id = x
  BY DEF MaterialHolds
<1>0. ref \in [RefIds -> RefRow] /\ x \in RefIds /\ ref[x].st = "live" /\ ref' # ref
  BY DEF MasterInv, MasterTyped, Live
<1>1. PICK c \in Clients : MasterSave(c)
  BY <1>0 DEF MasterNext, MasterRequest, AbandonMaster, NameRef, masterVars
<1> DEFINE r == req[c]
<1>2. ~ InsertRef(c)
  <2> SUFFICES ASSUME InsertRef(c) PROVE FALSE
    OBVIOUS
  <2>1. Free(ref) # {} /\ ref' = Inserted(ref, r.row)
    BY DEF InsertRef
  <2>2. PICK y \in Free(ref) : ref' = [ref EXCEPT ![y] = r.row]
    BY <1>0, <2>1, InsertedAt, MasterAssumption
  <2> QED
    BY <1>0, <2>2 DEF Free
<1>3. ~ SaveRefRow(c)
  <2>1. MasterReq(r)
    BY DEF MasterInv
  <2> QED
    BY <1>0, <2>1 DEF SaveRefRow, MasterReq
<1>4. DeleteRef(c)
  BY <1>0, <1>1, <1>2, <1>3 DEF MasterSave, SaveRefColumns, RefRow
<1>5. req[c].id = x /\ req[c].op = "deleteRef"
  BY <1>0, <1>4 DEF DeleteRef, Deleted
<1>6. c \in overtaken
  BY <1>5 DEF MasterInv, MasterKnows, Naming
<1>7. Answers(c)
  <2>1. req[c].op # "idle" /\ Answer(c)
    BY <1>1, <1>5 DEF MasterSave
  <2> QED
    BY <2>1, Answered DEF MasterInv
<1> QED
  BY <1>5, <1>6, <1>7

-----------------------------------------------------------------------------
(* Themes and their files.                                                 *)

\* What the next step of a deletion is once the rows of File are marked.
After == {"upload", "deleteTheme"}

ThemeReq(r) ==
  /\ DOMAIN r = Fields
  /\ r.op \in {"listFiles", "unlink", "softDelete", "upload", "insertFile",
               "setImage"} => r.id \in ThemeIds
  /\ r.op \in {"insertFile", "setImage"} => r.row \in Paths
  /\ r.op \in {"listFiles", "softDelete"} => r.row \in After
  /\ r.op = "unlink" => r.row.then \in After

\* What a request that deletes knows, until another one writes.
ThemeKnows(r) ==
  /\ r.op = "unlink" => \A f \in FilesOf(r.id) : file[f].path \in r.row.paths
  /\ r.op = "softDelete" => \A f \in FilesOf(r.id) : file[f].path \notin disk
  /\ r.op = "deleteTheme" => FilesOf(r.id) = {}

ThemeInv ==
  /\ Served /\ ThemesTyped
  /\ \A c \in Clients : ThemeReq(req[c])
  /\ \A c \in Clients \ overtaken : ThemeKnows(req[c])

LEMMA IdleTheme == ThemeReq(Idle) /\ ThemeKnows(Idle)
BY IdleFields DEF ThemeReq, ThemeKnows

LEMMA ThemeQuiet ==
  ASSUME ThemeInv, NEW c \in Clients, NEW r,
         UNCHANGED themeVars, Served',
         req' = [req EXCEPT ![c] = r],
         overtaken \subseteq overtaken' \cup {c},
         ThemeReq(r), c \notin overtaken' => ThemeKnows(r)
  PROVE  ThemeInv'
<1>1. ThemesTyped'
  BY DEF ThemeInv, themeVars, ThemesTyped
<1>2. req'[c] = r /\ \A d \in Clients \ {c} : req'[d] = req[d]
  BY DEF ThemeInv, Served
<1>3. \A d \in Clients : ThemeReq(req'[d])
  BY <1>2 DEF ThemeInv
<1>4. \A s : ThemeKnows(s) => ThemeKnows(s)'
  BY DEF themeVars, ThemeKnows, FilesOf, Live
<1>5. ASSUME NEW d \in Clients \ overtaken'
      PROVE  ThemeKnows(req[d])'
  <2>1. PICK s : s = req'[d]
    OBVIOUS
  <2>2. ThemeKnows(s)
    BY <1>2, <1>5, <2>1 DEF ThemeInv
  <2> QED
    BY <1>4, <2>1, <2>2 DEF ThemeKnows, FilesOf, Live
<1> QED
  BY <1>1, <1>3, <1>5 DEF ThemeInv, ThemeReq

LEMMA ThemeWrites ==
  ASSUME ThemeInv, NEW c \in Clients, NEW r,
         ThemesTyped', Served',
         req' = [req EXCEPT ![c] = r],
         overtaken \cup (Open \ {c}) \subseteq overtaken' \cup {c},
         ThemeReq(r), c \notin overtaken' => ThemeKnows(r)'
  PROVE  ThemeInv'
<1>2. req'[c] = r /\ \A d \in Clients \ {c} : req'[d] = req[d]
  BY DEF ThemeInv, Served
<1>3. \A d \in Clients : ThemeReq(req'[d])
  BY <1>2 DEF ThemeInv
<1>5. ASSUME NEW d \in Clients \ overtaken'
      PROVE  ThemeKnows(req[d])'
  <2>1. CASE d = c
    BY <2>1, <1>2, <1>5 DEF ThemeKnows, FilesOf, Live
  <2>2. CASE d # c
    <3>1. req'[d] = Idle
      BY <2>2, <1>5, OthersOvertaken DEF ThemeInv
    <3> QED
      BY <3>1, IdleFields DEF ThemeKnows
  <2> QED
    BY <2>1, <2>2
<1> QED
  BY <1>3, <1>5 DEF ThemeInv, ThemeReq

LEMMA ThemeAbandons ==
  ASSUME ThemeInv, NEW c \in Clients, AbandonTheme(c)
  PROVE  ThemeInv'
<1>1. Served' /\ req' = [req EXCEPT ![c] = Idle]
      /\ overtaken \subseteq overtaken' \cup {c}
  BY AbandonServes DEF ThemeInv, AbandonTheme
<1> QED
  BY <1>1, IdleTheme, ThemeQuiet DEF AbandonTheme

LEMMA ThemeAnswers ==
  ASSUME ThemeInv, NEW c \in Clients, ThemesTyped', Answer(c)
  PROVE  ThemeInv'
<1>1. Served' /\ req' = [req EXCEPT ![c] = Idle]
      /\ overtaken \cup (Open \ {c}) \subseteq overtaken' \cup {c}
  BY AnswerServes DEF ThemeInv
<1>2. ThemeKnows(Idle)'
  BY IdleFields DEF ThemeKnows
<1> QED
  BY <1>1, <1>2, IdleTheme, ThemeWrites

LEMMA ThemeProceeds ==
  ASSUME ThemeInv, NEW c \in Clients, ThemesTyped', NEW r, Proceed(c, r),
         ThemeReq(r), c \notin overtaken => ThemeKnows(r)'
  PROVE  ThemeInv'
<1>1. Served' /\ req' = [req EXCEPT ![c] = r]
      /\ overtaken \cup (Open \ {c}) \subseteq overtaken' \cup {c}
  BY ProceedServes DEF ThemeInv
<1>2. c \notin overtaken' => c \notin overtaken
  BY DEF Proceed
<1> QED
  BY <1>1, <1>2, ThemeWrites

\* A step that is no deletion's has nothing to know.
LEMMA ThemeGoesOn ==
  ASSUME ThemeInv, NEW c \in Clients, ThemesTyped',
         NEW op \in {"upload", "insertFile", "setImage"}, NEW id \in ThemeIds,
         NEW row, op \in {"insertFile", "setImage"} => row \in Paths,
         Proceed(c, Doing(op, id, row))
  PROVE  ThemeInv'
<1> PICK r : r = Doing(op, id, row)
  OBVIOUS
<1>1. r.op = op /\ r.id = id /\ r.row = row /\ DOMAIN r = Fields
  BY DoingFields
<1>2. ThemeReq(r) /\ ThemeKnows(r)'
  BY <1>1 DEF ThemeReq, ThemeKnows
<1> QED
  BY <1>2, ThemeProceeds

LEMMA ThemeRequestOK ==
  ASSUME ThemeInv, NEW c \in Clients, ThemeRequest(c)
  PROVE  ThemeInv'
<1>0. UNCHANGED themeVars /\ Ready(c)
      /\ Live(theme) \subseteq ThemeIds
  BY DEF ThemeRequest, ThemeInv, ThemesTyped, Live
<1>1. ASSUME NEW op \in {"insertTheme", "upload", "listFiles"}, NEW id, NEW row,
             op = "listFiles" => row \in After,
             op # "insertTheme" => id \in ThemeIds,
             Begin(c, Doing(op, id, row))
      PROVE  ThemeInv'
  <2> PICK r : r = Doing(op, id, row)
    OBVIOUS
  <2>1. r.op = op /\ r.id = id /\ r.row = row /\ DOMAIN r = Fields
    BY DoingFields
  <2>2. ThemeReq(r) /\ ThemeKnows(r)
    BY <1>1, <2>1 DEF ThemeReq, ThemeKnows
  <2>3. Served' /\ req' = [req EXCEPT ![c] = r]
        /\ overtaken \subseteq overtaken' \cup {c}
    BY <1>0, <1>1, BeginServes DEF ThemeInv
  <2> QED
    BY <1>0, <2>2, <2>3, ThemeQuiet
<1>2. CASE SaveTheme(c)
  BY <1>1, <1>2 DEF SaveTheme
<1>3. CASE UpdateImage(c)
  BY <1>0, <1>1, <1>3 DEF UpdateImage, After
<1>4. CASE DeleteTheme(c)
  BY <1>1, <1>4 DEF DeleteTheme, After
<1> QED
  BY <1>2, <1>3, <1>4 DEF ThemeRequest

LEMMA InsertThemeOK ==
  ASSUME ThemeInv, NEW c \in Clients, InsertTheme(c)
  PROVE  ThemeInv'
<1>0. theme \in [ThemeIds -> ThemeRow] /\ Free(theme) # {}
  BY DEF ThemeInv, ThemesTyped, InsertTheme
<1> PICK row : row = [st |-> "live", image |-> None]
  OBVIOUS
<1>1. row \in ThemeRow
  BY DEF ThemeRow
<1>2. theme' = Inserted(theme, row) /\ UNCHANGED <<file, disk, given>>
  BY DEF InsertTheme
<1>3. ThemesTyped'
  BY <1>0, <1>1, <1>2, InsertedTyped DEF ThemeInv, ThemesTyped
<1> PICK t : t = CHOOSE x \in Free(theme) : \A y \in Free(theme) : x <= y
  OBVIOUS
<1>4. t \in ThemeIds
  <2>1. Free(theme) \subseteq Nat
    BY <1>0, ThemeAssumption DEF Free
  <2>2. \E x \in Free(theme) : \A y \in Free(theme) : x <= y
    BY <1>0, <2>1, FirstOf
  <2> QED
    BY <1>0, <2>2 DEF Free
<1>5. Answer(c) \/ Proceed(c, Doing("upload", t, "upload"))
  BY DEF InsertTheme
<1> QED
  BY <1>3, <1>4, <1>5, ThemeAnswers, ThemeGoesOn

LEMMA UploadOK ==
  ASSUME ThemeInv, NEW c \in Clients, UploadToDisk(c)
  PROVE  ThemeInv'
<1>1. PICK path \in Paths \ given :
        /\ disk' = disk \cup {path} /\ given' = given \cup {path}
        /\ Proceed(c, Doing("insertFile", req[c].id, path))
        /\ UNCHANGED <<theme, file>>
  BY DEF UploadToDisk
<1>2. req[c].id \in ThemeIds
  BY DEF UploadToDisk, ThemeInv, ThemeReq
<1>3. ThemesTyped'
  BY <1>1 DEF ThemeInv, ThemesTyped
<1> QED
  BY <1>1, <1>2, <1>3, ThemeGoesOn

LEMMA InsertFileOK ==
  ASSUME ThemeInv, NEW c \in Clients, InsertFile(c)
  PROVE  ThemeInv'
<1>0. /\ ThemeReq(req[c]) /\ req[c].op = "insertFile"
      /\ file \in [FileIds -> FileRow]
  BY DEF InsertFile, ThemeInv, ThemesTyped
<1>1. PICK row : row = NewFile(req[c].id, req[c].row)
  OBVIOUS
<1>2. row \in FileRow
  BY <1>0, <1>1 DEF ThemeReq, NewFile, FileRow
<1>3. file' = Inserted(file, row) /\ UNCHANGED <<theme, disk, given>>
  BY <1>1 DEF InsertFile
<1>4. ThemesTyped'
  BY <1>0, <1>2, <1>3, InsertedTyped DEF ThemeInv, ThemesTyped
<1>5. [req[c] EXCEPT !.op = "setImage"]
        = Doing("setImage", req[c].id, req[c].row)
  BY <1>0 DEF ThemeReq, Doing, Fields
<1>6. Proceed(c, [req[c] EXCEPT !.op = "setImage"])
  BY DEF InsertFile
<1>7. Proceed(c, Doing("setImage", req[c].id, req[c].row))
  BY <1>5, <1>6
<1> QED
  BY <1>0, <1>4, <1>7, ThemeGoesOn DEF ThemeReq

LEMMA SetImageOK ==
  ASSUME ThemeInv, NEW c \in Clients, SetImage(c)
  PROVE  ThemeInv'
<1>0. /\ theme \in [ThemeIds -> ThemeRow] /\ req[c].row \in Paths
      /\ req[c].id \in ThemeIds
  BY DEF SetImage, ThemeInv, ThemesTyped, ThemeReq
<1>1. theme' \in [ThemeIds -> ThemeRow]
  BY <1>0 DEF SetImage, ThemeRow
<1>2. ThemesTyped'
  BY <1>1 DEF SetImage, ThemeInv, ThemesTyped
<1> QED
  BY <1>2, ThemeAnswers DEF SetImage

\* Reading the files of a theme: their paths are those of its rows.
LEMMA ListOK ==
  ASSUME ThemeInv, NEW c \in Clients, ListFiles(c)
  PROVE  ThemeInv'
<1> DEFINE found == [paths |-> {file[f].path : f \in FilesOf(req[c].id)},
                     then |-> req[c].row]
           r == Doing("unlink", req[c].id, found)
<1>1. ThemeReq(r)
  <2>1. found.then \in After /\ req[c].id \in ThemeIds
    BY DEF ListFiles, ThemeInv, ThemeReq
  <2> HIDE DEF found
  <2> QED
    BY <2>1, DoingFields DEF ThemeReq
<1>2. ThemeKnows(r)
  <2>1. \A f \in FilesOf(req[c].id) : file[f].path \in found.paths
    OBVIOUS
  <2> HIDE DEF found
  <2> QED
    BY <2>1, DoingFields DEF ThemeKnows
<1>3. req' = [req EXCEPT ![c] = r] /\ UNCHANGED <<themeVars, overtaken, left>>
  BY DEF ListFiles
<1> HIDE DEF r
<1>4. Served'
  BY <1>3 DEF ThemeInv, Served
<1> QED
  BY <1>1, <1>2, <1>3, <1>4, ThemeQuiet

\* Taking the files off the disk: the rows found have none any more.
LEMMA UnlinkOK ==
  ASSUME ThemeInv, NEW c \in Clients, UnlinkFiles(c)
  PROVE  ThemeInv'
<1>0. PICK r : r = Doing("softDelete", req[c].id, req[c].row.then)
  OBVIOUS
<1>1. ThemesTyped' /\ UNCHANGED <<theme, file>>
  BY DEF UnlinkFiles, ThemeInv, ThemesTyped
<1>2. CASE Answer(c)
  BY <1>1, <1>2, ThemeAnswers
<1>3. CASE Proceed(c, r)
  <2>1. ThemeReq(r)
    BY <1>0, DoingFields DEF UnlinkFiles, ThemeInv, ThemeReq
  <2>2. ASSUME c \notin overtaken
        PROVE  ThemeKnows(r)'
    <3>1. \A f \in FilesOf(req[c].id) : file[f].path \in req[c].row.paths
      BY <2>2 DEF UnlinkFiles, ThemeInv, ThemeKnows
    <3>2. disk' = disk \ req[c].row.paths
      BY DEF UnlinkFiles
    <3>3. \A f \in FilesOf(req[c].id) : file[f].path \notin disk'
      BY <3>1, <3>2
    <3>4. \A f \in FilesOf(r.id)' : file'[f].path \notin disk'
      BY <3>3, <1>0, <1>1, DoingFields DEF FilesOf, Live
    <3> QED
      BY <3>4, <1>0, DoingFields DEF ThemeKnows
  <2> QED
    BY <1>1, <1>3, <2>1, <2>2, ThemeProceeds
<1> QED
  BY <1>0, <1>2, <1>3 DEF UnlinkFiles

\* Marking the rows: the theme has none left.
LEMMA SoftDeleteOK ==
  ASSUME ThemeInv, NEW c \in Clients, SoftDeleteFiles(c)
  PROVE  ThemeInv'
<1>0. PICK r : r = [req[c] EXCEPT !.op = req[c].row]
  OBVIOUS
<1>1. /\ DOMAIN req[c] = Fields /\ req[c].row \in After
      /\ req[c].id \in ThemeIds /\ file \in [FileIds -> FileRow]
  BY DEF SoftDeleteFiles, ThemeInv, ThemeReq, ThemesTyped
<1>2. DOMAIN r = Fields /\ r.op \in After /\ r.id = req[c].id
  BY <1>0, <1>1 DEF Fields
<1>3. UNCHANGED <<theme, disk, given>>
  BY DEF SoftDeleteFiles
<1>4. file' = [f \in FileIds |->
         IF f \in FilesOf(req[c].id) THEN [file[f] EXCEPT !.st = "gone"]
         ELSE file[f]]
  BY DEF SoftDeleteFiles
<1>5. ThemesTyped'
  <2>1. \A f \in FileIds : [file[f] EXCEPT !.st = "gone"] \in FileRow
    BY <1>1 DEF FileRow
  <2>2. file' \in [FileIds -> FileRow]
    BY <1>1, <1>4, <2>1
  <2> QED
    BY <1>3, <2>2 DEF ThemeInv, ThemesTyped
<1>6. FilesOf(r.id)' = {}
  <2>1. \A f \in FileIds : f \in Live(file)' => f \in Live(file)
                                              /\ f \notin FilesOf(req[c].id)
                                              /\ file'[f] = file[f]
    BY <1>1, <1>4 DEF Live, FileRow
  <2>2. DOMAIN file' = FileIds
    BY <1>4
  <2> QED
    BY <1>2, <2>1, <2>2 DEF FilesOf, Live
<1>7. ThemeReq(r) /\ ThemeKnows(r)'
  BY <1>1, <1>2, <1>6 DEF ThemeReq, ThemeKnows, After
<1>8. Proceed(c, r)
  BY <1>0 DEF SoftDeleteFiles
<1> QED
  BY <1>5, <1>7, <1>8, ThemeProceeds

LEMMA DeleteThemeRowOK ==
  ASSUME ThemeInv, NEW c \in Clients, DeleteThemeRow(c)
  PROVE  ThemeInv'
<1>1. ThemesTyped'
  BY DEF DeleteThemeRow, Deleted, ThemeInv, ThemesTyped, ThemeRow
<1> QED
  BY <1>1, ThemeAnswers DEF DeleteThemeRow

LEMMA ThemesNextOK ==
  ASSUME ThemeInv, ThemesNext
  PROVE  ThemeInv'
BY ThemeRequestOK, ThemeAbandons, InsertThemeOK, UploadOK, InsertFileOK,
   SetImageOK, ListOK, UnlinkOK, SoftDeleteOK, DeleteThemeRowOK
   DEF ThemesNext, ThemeStep

\* What one step may do to rows of File, and to themes.
RowsGoAfterFiles ==
  \A f \in Live(file) :
    file'[f].st = "gone" =>
      \/ file[f].path \notin disk
      \/ \E c \in overtaken : req'[c] # req[c]

ThemesGoAfterRows ==
  \A t \in Live(theme) :
    theme'[t].st = "gone" =>
      \/ FilesOf(t) = {}
      \/ \E c \in overtaken : Answers(c)

\* Only SoftDeleteFiles marks live rows of File: those whose files its request
\* has taken off the disk.
LEMMA RowsStep ==
  ASSUME ThemeInv, ThemesNext
  PROVE  RowsGoAfterFiles
<1> SUFFICES ASSUME NEW f \in Live(file), file'[f].st = "gone"
             PROVE  \/ file[f].path \notin disk
                    \/ \E c \in overtaken : req'[c] # req[c]
  BY DEF RowsGoAfterFiles
<1>0. /\ f \in FileIds /\ file[f].st = "live" /\ file' # file
      /\ file \in [FileIds -> FileRow]
  BY DEF Live, ThemeInv, ThemesTyped
<1>1. PICK c \in Clients : InsertFile(c) \/ SoftDeleteFiles(c)
  BY <1>0 DEF ThemesNext, ThemeRequest, ThemeStep, AbandonTheme,
     themeVars, InsertTheme, UploadToDisk, SetImage, ListFiles, UnlinkFiles,
     DeleteThemeRow
<1>2. CASE InsertFile(c)
  BY <1>0, <1>2 DEF InsertFile, Inserted, NewFile
<1>3. CASE SoftDeleteFiles(c)
  <2>1. f \in FilesOf(req[c].id)
    BY <1>0, <1>3 DEF SoftDeleteFiles
  <2>2. CASE c \notin overtaken
    BY <1>3, <2>1, <2>2 DEF ThemeInv, ThemeKnows, SoftDeleteFiles
  <2>3. CASE c \in overtaken
    <3>1. DOMAIN req[c] = Fields /\ req[c].row \in After
      BY <1>3 DEF SoftDeleteFiles, ThemeInv, ThemeReq
    <3>2. req'[c] = [req[c] EXCEPT !.op = req[c].row]
      BY <1>3 DEF SoftDeleteFiles, Proceed, ThemeInv, Served
    <3>3. req'[c].op # req[c].op
      BY <1>3, <3>1, <3>2 DEF SoftDeleteFiles, After, Fields
    <3> QED
      BY <2>3, <3>3
  <2> QED
    BY <2>2, <2>3
<1> QED
  BY <1>1, <1>2, <1>3

\* Only DeleteThemeRow deletes a theme, when its request has left it no row.
LEMMA ThemesStep ==
  ASSUME ThemeInv, ThemesNext
  PROVE  ThemesGoAfterRows
<1> SUFFICES ASSUME NEW t \in Live(theme), theme'[t].st = "gone"
             PROVE  FilesOf(t) = {} \/ \E c \in overtaken : Answers(c)
  BY DEF ThemesGoAfterRows
<1>0. /\ t \in ThemeIds /\ theme[t].st = "live" /\ theme' # theme
      /\ theme \in [ThemeIds -> ThemeRow]
  BY DEF Live, ThemeInv, ThemesTyped
<1>1. PICK c \in Clients : InsertTheme(c) \/ SetImage(c) \/ DeleteThemeRow(c)
  BY <1>0 DEF ThemesNext, ThemeRequest, ThemeStep, AbandonTheme,
     themeVars, UploadToDisk, InsertFile, ListFiles, UnlinkFiles,
     SoftDeleteFiles
<1>2. CASE InsertTheme(c)
  BY <1>0, <1>2 DEF InsertTheme, Inserted
<1>3. CASE SetImage(c)
  BY <1>0, <1>3 DEF SetImage, ThemeRow
<1>4. CASE DeleteThemeRow(c)
  <2>1. t = req[c].id /\ req[c].op = "deleteTheme"
    BY <1>0, <1>4 DEF DeleteThemeRow, Deleted
  <2>2. CASE c \notin overtaken
    BY <2>1, <2>2 DEF ThemeInv, ThemeKnows
  <2>3. CASE c \in overtaken
    BY <1>4, <2>1, <2>3, Answered, IdleFields DEF DeleteThemeRow, ThemeInv
  <2> QED
    BY <2>2, <2>3
<1> QED
  BY <1>1, <1>2, <1>3, <1>4

-----------------------------------------------------------------------------
(* Digits.                                                                 *)

\* Division by the base.
LEMMA Division ==
  ASSUME NEW b \in Nat \ {0, 1}, NEW m \in Nat
  PROVE  /\ m \div b \in Nat /\ m % b \in 0..b - 1
         /\ m = b * (m \div b) + (m % b)
<1>1. m \div b \in Int /\ m % b \in Int
  BY SMT
<1>2. m % b \in 0..b - 1
  BY SMT
<1>3. m = b * (m \div b) + (m % b)
  BY SMT
<1> QED
  BY <1>1, <1>2, <1>3

LEMMA QuotientIsSmaller ==
  ASSUME NEW b \in Nat \ {0, 1}, NEW m \in Nat, m >= b
  PROVE  m \div b \in 0..m - 1
<1>1. PICK q \in Nat : q = m \div b
  BY Division
<1>2. PICK r \in 0..b - 1 : r = m % b
  BY Division
<1>3. m = b * q + r
  BY <1>1, <1>2, Division
<1>4. q < m
  <2> SUFFICES ASSUME q >= m PROVE FALSE
    OBVIOUS
  <2>1. b * q >= 2 * q
    BY SMT
  <2> QED
    BY <1>3, <2>1
<1> QED
  BY <1>1, <1>4

Digit == 0..Base - 1

\* A number has the digits of what is left of it without its last one, and
\* its last one.
Rest(m) == m \div Base
Extended(s, m) == IF m < Base THEN <<m>> ELSE Append(s, m % Base)

LEMMA RestIsSmaller ==
  ASSUME NEW m \in Nat, ~ (m < Base)
  PROVE  Rest(m) \in 0..m - 1
<1>1. m >= Base
  BY NumberAssumption
<1> QED
  BY <1>1, QuotientIsSmaller, NumberAssumption DEF Rest

\* Nothing is asked of what is left of a single digit.
LEMMA LastDigit ==
  ASSUME NEW m, m < Base, NEW s, NEW t
  PROVE  Extended(s, m) = Extended(t, m)
BY DEF Extended

\* f is the function by which Digits(n) is computed.
IsDigits(n, f) == f = [m \in 0..n |-> Extended(f[Rest(m)], m)]

LEMMA DigitsByDefinition ==
  ASSUME NEW n
  PROVE  Digits(n) = (CHOOSE f : IsDigits(n, f))[n]
BY DEF Digits, IsDigits, Extended, Rest

LEMMA DigitsAreUnique ==
  ASSUME NEW n \in Nat, NEW k \in Nat, NEW f, NEW g,
         IsDigits(n, f), IsDigits(k, g)
  PROVE  \A m \in Nat : m <= n /\ m <= k => f[m] = g[m]
<1> DEFINE C == {m \in Nat : m <= n /\ m <= k /\ f[m] # g[m]}
<1> SUFFICES ASSUME C # {} PROVE FALSE
  OBVIOUS
<1>1. PICK m \in C : \A z \in C : m <= z
  <2>1. C \subseteq Nat
    OBVIOUS
  <2> HIDE DEF C
  <2> QED
    BY <2>1, FirstOf
<1>2. f[m] = Extended(f[Rest(m)], m) /\ g[m] = Extended(g[Rest(m)], m)
  BY DEF IsDigits
<1>3. ~ (m < Base)
  BY <1>2, LastDigit
<1>4. Rest(m) \in 0..m - 1
  BY <1>3, RestIsSmaller
<1>5. Rest(m) \notin C
  BY <1>1, <1>4
<1>6. f[Rest(m)] = g[Rest(m)]
  BY <1>4, <1>5
<1> QED
  BY <1>2, <1>6

LEMMA DigitsExist ==
  \A n \in Nat : \E f : IsDigits(n, f)
<1> DEFINE C == {n \in Nat : ~ \E f : IsDigits(n, f)}
<1> SUFFICES ASSUME C # {} PROVE FALSE
  OBVIOUS
<1>1. PICK n \in C : \A z \in C : n <= z
  <2>1. C \subseteq Nat
    OBVIOUS
  <2> HIDE DEF C
  <2> QED
    BY <2>1, FirstOf
<1>2. PICK g : n > 0 => IsDigits(n - 1, g)
  <2>1. CASE n = 0
    BY <2>1
  <2>2. CASE n > 0
    <3>1. n - 1 \in Nat /\ n - 1 \notin C
      BY <1>1, <2>2
    <3> QED
      BY <3>1
  <2> QED
    BY <2>1, <2>2
<1> PICK f : f = [m \in 0..n |-> Extended(g[Rest(m)], m)]
  OBVIOUS
<1>3. \A q \in 0..n - 1 : f[q] = g[q]
  BY <1>2 DEF IsDigits
<1>4. \A m \in 0..n : Extended(g[Rest(m)], m) = Extended(f[Rest(m)], m)
  <2> SUFFICES ASSUME NEW m \in 0..n
               PROVE  Extended(g[Rest(m)], m) = Extended(f[Rest(m)], m)
    OBVIOUS
  <2>1. CASE m < Base
    BY <2>1, LastDigit
  <2>2. CASE ~ (m < Base)
    <3>1. Rest(m) \in 0..n - 1
      BY <2>2, RestIsSmaller
    <3> QED
      BY <3>1, <1>3
  <2> QED
    BY <2>1, <2>2
<1>5. f = [m \in 0..n |-> Extended(f[Rest(m)], m)]
  BY <1>4
<1>6. IsDigits(n, f)
  BY <1>5 DEF IsDigits
<1> QED
  BY <1>1, <1>6

LEMMA DigitsUnfold ==
  ASSUME NEW n \in Nat
  PROVE  Digits(n) = Extended(Digits(Rest(n)), n)
<1> DEFINE F(k) == CHOOSE f : IsDigits(k, f)
<1>1. \A k \in Nat : IsDigits(k, F(k)) /\ Digits(k) = F(k)[k]
  BY DigitsExist, DigitsByDefinition
<1> HIDE DEF F
<1>2. F(n)[n] = Extended(F(n)[Rest(n)], n)
  BY <1>1 DEF IsDigits
<1>3. CASE n < Base
  BY <1>1, <1>2, <1>3, LastDigit
<1>4. CASE ~ (n < Base)
  <2>1. PICK q \in Nat : q = Rest(n) /\ q <= n
    BY <1>4, RestIsSmaller
  <2>2. F(n)[q] = F(q)[q]
    BY <1>1, <2>1, DigitsAreUnique
  <2> QED
    BY <1>1, <1>2, <2>1, <2>2
<1> QED
  BY <1>3, <1>4

-----------------------------------------------------------------------------
(* Values.                                                                 *)

\* f is the function by which the value of the first n digits is computed.
IsValue(s, n, f) ==
  f = [i \in 0..n |-> IF i = 0 THEN 0 ELSE Base * f[i - 1] + s[i]]

ValueTo(s, n) == (CHOOSE f : IsValue(s, n, f))[n]

LEMMA ValueByDefinition ==
  ASSUME NEW s
  PROVE  Value(s) = ValueTo(s, Len(s))
BY DEF Value, ValueTo, IsValue

LEMMA ValuesAreUnique ==
  ASSUME NEW s, NEW n \in Nat, NEW k \in Nat, NEW f, NEW g,
         IsValue(s, n, f), IsValue(s, k, g)
  PROVE  \A m \in Nat : m <= n /\ m <= k => f[m] = g[m]
<1> DEFINE C == {m \in Nat : m <= n /\ m <= k /\ f[m] # g[m]}
<1> SUFFICES ASSUME C # {} PROVE FALSE
  OBVIOUS
<1>1. PICK m \in C : \A z \in C : m <= z
  <2>1. C \subseteq Nat
    OBVIOUS
  <2> HIDE DEF C
  <2> QED
    BY <2>1, FirstOf
<1>2. m # 0
  BY DEF IsValue
<1>3. m - 1 \in 0..n /\ m - 1 \notin C /\ m \in 0..n /\ m \in 0..k
  BY <1>1, <1>2
<1>4. f[m - 1] = g[m - 1]
  BY <1>2, <1>3
<1>5. f[m] = Base * f[m - 1] + s[m] /\ g[m] = Base * g[m - 1] + s[m]
  BY <1>2, <1>3 DEF IsValue
<1> QED
  BY <1>4, <1>5

LEMMA ValuesExist ==
  ASSUME NEW s
  PROVE  \A n \in Nat : \E f : IsValue(s, n, f)
<1> DEFINE C == {n \in Nat : ~ \E f : IsValue(s, n, f)}
<1> SUFFICES ASSUME C # {} PROVE FALSE
  OBVIOUS
<1>1. PICK n \in C : \A z \in C : n <= z
  <2>1. C \subseteq Nat
    OBVIOUS
  <2> HIDE DEF C
  <2> QED
    BY <2>1, FirstOf
<1>2. PICK g : n > 0 => IsValue(s, n - 1, g)
  <2>1. CASE n = 0
    BY <2>1
  <2>2. CASE n > 0
    <3>1. n - 1 \in Nat /\ n - 1 \notin C
      BY <1>1, <2>2
    <3> QED
      BY <3>1
  <2> QED
    BY <2>1, <2>2
<1> PICK f : f = [i \in 0..n |-> IF i = 0 THEN 0 ELSE Base * g[i - 1] + s[i]]
  OBVIOUS
<1>3. \A q \in 0..n - 1 : f[q] = g[q]
  BY <1>2 DEF IsValue
<1>4. \A i \in 0..n : i # 0 => g[i - 1] = f[i - 1]
  BY <1>3, SMTT(30)
<1>5. f = [i \in 0..n |-> IF i = 0 THEN 0 ELSE Base * f[i - 1] + s[i]]
  BY <1>4
<1>6. IsValue(s, n, f)
  BY <1>5 DEF IsValue
<1> QED
  BY <1>1, <1>6

LEMMA ValueUnfolds ==
  ASSUME NEW s
  PROVE  /\ ValueTo(s, 0) = 0
         /\ \A n \in Nat : ValueTo(s, n + 1) = Base * ValueTo(s, n) + s[n + 1]
<1> DEFINE F(k) == CHOOSE f : IsValue(s, k, f)
<1>1. \A k \in Nat : IsValue(s, k, F(k)) /\ ValueTo(s, k) = F(k)[k]
  BY ValuesExist DEF ValueTo
<1> HIDE DEF F
<1>2. ValueTo(s, 0) = 0
  BY <1>1 DEF IsValue
<1>3. ASSUME NEW n \in Nat
      PROVE  ValueTo(s, n + 1) = Base * ValueTo(s, n) + s[n + 1]
  <2> PICK m \in Nat : m = n + 1
    OBVIOUS
  <2>1. IsValue(s, m, F(m)) /\ IsValue(s, n, F(n))
    BY <1>1
  <2>2. F(m)[m] = Base * F(m)[n] + s[m]
    BY <2>1 DEF IsValue
  <2>3. F(m)[n] = F(n)[n]
    BY <2>1, ValuesAreUnique
  <2> QED
    BY <1>1, <2>2, <2>3
<1> QED
  BY <1>2, <1>3

LEMMA ValueOfNone ==
  ASSUME NEW s, NEW n, n = 0
  PROVE  ValueTo(s, n) = 0
BY ValueUnfolds, Zenon

\* What is not zero follows a number.
LEMMA Predecessor ==
  ASSUME NEW l \in Nat, NEW n \in 0..l, n # 0
  PROVE  \E m \in Nat : n = m + 1 /\ m \in 0..l /\ n \in 1..l
<1>1. n - 1 \in Nat /\ n = (n - 1) + 1 /\ n - 1 \in 0..l /\ n \in 1..l
  OBVIOUS
<1> QED
  BY <1>1

\* Up to the first n at which a statement about values fails, it holds.
LEMMA ValueIsNat ==
  ASSUME NEW s \in Seq(Digit)
  PROVE  \A n \in 0..Len(s) : ValueTo(s, n) \in Nat
<1> PICK w \in Nat : w = Len(s)
  OBVIOUS
<1> DEFINE C == {n \in 0..w : ValueTo(s, n) \notin Nat}
<1> SUFFICES ASSUME C # {} PROVE FALSE
  OBVIOUS
<1>1. PICK n \in C : \A z \in C : n <= z
  <2>1. C \subseteq Nat
    OBVIOUS
  <2> HIDE DEF C
  <2> QED
    BY <2>1, FirstOf
<1>a. n \in 0..w /\ ValueTo(s, n) \notin Nat
  OBVIOUS
<1>2. n # 0
  <2> SUFFICES ASSUME n = 0 PROVE FALSE
    OBVIOUS
  <2>1. ValueTo(s, n) = 0
    BY ValueOfNone
  <2> QED
    BY <1>a, <2>1
<1>3. PICK m \in Nat : n = m + 1 /\ m \in 0..w /\ n \in 1..w
  <2> HIDE DEF C
  <2> QED
    BY <1>a, <1>2, Predecessor
<1>4. m \notin C
  BY <1>1, <1>3
<1>5. PICK v \in Nat : v = ValueTo(s, m)
  BY <1>3, <1>4
<1>6. PICK d \in Nat : d = s[n]
  <2>1. s[n] \in Digit
    BY <1>3
  <2> QED
    BY <2>1, NumberAssumption DEF Digit
<1>7. ValueTo(s, n) = Base * v + d
  BY <1>3, <1>5, <1>6, ValueUnfolds
<1>8. Base * v + d \in Nat
  <2>1. Base * v \in Nat
    BY NumberAssumption
  <2> QED
    BY <2>1
<1> QED
  BY <1>a, <1>7, <1>8

\* The same digits have the same value, after any number of zeros.
LEMMA ValueAfterZeros ==
  ASSUME NEW s, NEW t, NEW k \in Nat, NEW l \in Nat,
         \A i \in 1..k : t[i] = 0,
         \A i \in 1..l : t[k + i] = s[i]
  PROVE  ValueTo(t, k + l) = ValueTo(s, l)
<1>0. ValueTo(t, k) = 0
  <2> DEFINE C == {n \in 0..k : ValueTo(t, n) # 0}
  <2> SUFFICES ASSUME C # {} PROVE FALSE
    OBVIOUS
  <2>1. PICK n \in C : \A z \in C : n <= z
    <3>1. C \subseteq Nat
      OBVIOUS
    <3> HIDE DEF C
    <3> QED
      BY <3>1, FirstOf
  <2>a. n \in 0..k /\ ValueTo(t, n) # 0
    OBVIOUS
  <2>2. n # 0
    <3> SUFFICES ASSUME n = 0 PROVE FALSE
      OBVIOUS
    <3>1. ValueTo(t, n) = 0
      BY ValueOfNone
    <3> QED
      BY <2>a, <3>1
  <2>3. PICK m \in Nat : n = m + 1 /\ m \in 0..k /\ n \in 1..k
    BY <2>a, <2>2, Predecessor
  <2>4. ValueTo(t, m) = 0
    BY <2>1, <2>3
  <2>5. ValueTo(t, n) = Base * 0 + 0
    BY <2>3, <2>4, ValueUnfolds
  <2> QED
    BY <2>5, NumberAssumption
<1> DEFINE C == {n \in 0..l : ValueTo(t, k + n) # ValueTo(s, n)}
<1> SUFFICES ASSUME C # {} PROVE FALSE
  OBVIOUS
<1>1. PICK n \in C : \A z \in C : n <= z
  <2>1. C \subseteq Nat
    OBVIOUS
  <2> HIDE DEF C
  <2> QED
    BY <2>1, FirstOf
<1>a. n \in 0..l /\ ValueTo(t, k + n) # ValueTo(s, n)
  OBVIOUS
<1>2. n # 0
  <2> SUFFICES ASSUME n = 0 PROVE FALSE
    OBVIOUS
  <2>1. ValueTo(s, n) = 0 /\ k + n = k
    BY ValueOfNone
  <2> QED
    BY <1>0, <1>a, <2>1
<1>3. PICK m \in Nat : n = m + 1 /\ m \in 0..l /\ n \in 1..l
  BY <1>a, <1>2, Predecessor
<1>4. ValueTo(t, k + m) = ValueTo(s, m)
  BY <1>1, <1>3
<1>5. ValueTo(s, n) = Base * ValueTo(s, m) + s[n]
  BY <1>3, ValueUnfolds
<1>6. ValueTo(t, k + n) = Base * ValueTo(t, k + m) + t[k + n]
  <2>1. PICK j \in Nat : j = k + m
    BY <1>3
  <2>2. k + n = j + 1
    BY <1>3, <2>1
  <2> QED
    BY <2>1, <2>2, ValueUnfolds
<1> QED
  BY <1>3, <1>4, <1>5, <1>6

\* Of two strings of digits the one that comes first has the smaller value.
LEMMA ValueGrows ==
  ASSUME NEW s \in Seq(Digit), NEW t \in Seq(Digit), NEW w \in Nat,
         Len(s) = w, Len(t) = w, Before(s, t)
  PROVE  Value(s) < Value(t)
<1>1. PICK i \in 1..w : s[i] < t[i] /\ \A j \in 1..i - 1 : s[j] = t[j]
  BY DEF Before
<1>2. \A n \in 0..w : ValueTo(s, n) \in Nat /\ ValueTo(t, n) \in Nat
  BY ValueIsNat
<1>3. ValueTo(s, i - 1) = ValueTo(t, i - 1)
  <2>1. PICK l \in Nat : l = i - 1
    BY <1>1
  <2>2. PICK k \in Nat : k = 0
    OBVIOUS
  <2>3. (\A j \in 1..k : t[j] = 0) /\ \A j \in 1..l : t[k + j] = s[j]
    BY <1>1, <2>1, <2>2
  <2>4. ValueTo(t, k + l) = ValueTo(s, l)
    BY <2>3, ValueAfterZeros, ZenonT(60)
  <2>5. k + l = l
    BY <2>2
  <2> QED
    BY <2>1, <2>4, <2>5
<1> DEFINE C == {n \in i..w : ~ (ValueTo(s, n) < ValueTo(t, n))}
<1>4. C = {}
  <2> SUFFICES ASSUME C # {} PROVE FALSE
    OBVIOUS
  <2>1. PICK n \in C : \A z \in C : n <= z
    <3>1. C \subseteq Nat
      OBVIOUS
    <3> HIDE DEF C
    <3> QED
      BY <3>1, FirstOf
  <2>2. PICK m \in Nat : n = m + 1 /\ m \in 0..w
    OBVIOUS
  <2>3. PICK a \in Nat : a = ValueTo(s, m)
    BY <1>2, <2>2
  <2>4. PICK b \in Nat : b = ValueTo(t, m)
    BY <1>2, <2>2
  <2>5. PICK d \in 0..Base - 1 : d = s[n]
    <3>1. n \in 1..Len(s)
      OBVIOUS
    <3>2. s[n] \in Digit
      BY <3>1
    <3> QED
      BY <3>2 DEF Digit
  <2>6. PICK e \in 0..Base - 1 : e = t[n]
    <3>1. n \in 1..Len(t)
      OBVIOUS
    <3>2. t[n] \in Digit
      BY <3>1
    <3> QED
      BY <3>2 DEF Digit
  <2>7. ValueTo(s, n) = Base * a + d /\ ValueTo(t, n) = Base * b + e
    BY <2>2, <2>3, <2>4, <2>5, <2>6, ValueUnfolds
  <2>8. PICK x \in Nat : x = Base * a
    BY NumberAssumption
  <2>9. PICK y \in Nat : y = Base * b
    BY NumberAssumption
  <2>10. CASE n = i
    <3>1. a = b /\ d < e
      BY <1>1, <1>3, <2>2, <2>3, <2>4, <2>5, <2>6, <2>10
    <3> QED
      BY <2>7, <2>8, <2>9, <3>1, NumberAssumption
  <2>11. CASE n # i
    <3>1. m \notin C /\ m \in i..w
      BY <2>1, <2>2, <2>11
    <3>2. a < b
      BY <2>3, <2>4, <3>1
    <3>3. PICK u \in Nat : b = a + 1 + u
      <4>1. b - a - 1 \in Nat /\ b = a + 1 + (b - a - 1)
        BY <3>2
      <4> QED
        BY <4>1
    <3>4. y = x + Base + Base * u
      BY <2>8, <2>9, <3>3, NumberAssumption
    <3>5. Base * u \in Nat
      BY NumberAssumption
    <3> QED
      BY <2>7, <2>8, <2>9, <3>4, <3>5, NumberAssumption
  <2> QED
    BY <2>10, <2>11
<1>5. w \in i..w
  OBVIOUS
<1>6. ValueTo(s, w) < ValueTo(t, w)
  BY <1>4, <1>5
<1> QED
  BY <1>6, ValueByDefinition

\* Two different strings as long as each other come one before the other.
LEMMA OneIsBefore ==
  ASSUME NEW s \in Seq(Digit), NEW t \in Seq(Digit), Len(s) = Len(t), s # t
  PROVE  Before(s, t) \/ Before(t, s)
<1> DEFINE C == {i \in 1..Len(s) : s[i] # t[i]}
<1>1. C # {}
  BY DEF Digit
<1>2. PICK i \in C : \A z \in C : i <= z
  <2>1. C \subseteq Nat
    OBVIOUS
  <2> HIDE DEF C
  <2> QED
    BY <1>1, <2>1, FirstOf
<1>3. \A j \in 1..i - 1 : s[j] = t[j]
  BY <1>2
<1>4. i \in 1..Len(s) /\ s[i] \in Int /\ t[i] \in Int /\ s[i] # t[i]
  BY NumberAssumption DEF Digit
<1>5. s[i] < t[i] \/ t[i] < s[i]
  BY <1>4
<1> QED
  BY <1>3, <1>4, <1>5 DEF Before

-----------------------------------------------------------------------------
(* Numbers: the value of the digits of n is n, padded or not.              *)

LEMMA ValueOfExtended ==
  ASSUME NEW s \in Seq(Digit), NEW n \in Nat, ~ (n < Base), Value(s) = Rest(n)
  PROVE  Extended(s, n) \in Seq(Digit) /\ Value(Extended(s, n)) = n
<1>1. PICK d \in Digit : d = n % Base
  BY Division, NumberAssumption DEF Digit
<1>2. PICK t : t = Append(s, d)
  OBVIOUS
<1>3. Extended(s, n) = t
  BY <1>1, <1>2 DEF Extended
<1>4. t \in Seq(Digit) /\ Len(t) = Len(s) + 1 /\ t[Len(s) + 1] = d
      /\ \A i \in 1..Len(s) : t[i] = s[i]
  BY <1>2
<1>5. PICK l \in Nat : l = Len(s)
  OBVIOUS
<1>6. ValueTo(t, l + 1) = Base * ValueTo(t, l) + d
  BY <1>4, <1>5, ValueUnfolds
<1>7. ValueTo(t, l) = ValueTo(s, l)
  <2>1. PICK k \in Nat : k = 0
    OBVIOUS
  <2>2. (\A j \in 1..k : t[j] = 0) /\ \A j \in 1..l : t[k + j] = s[j]
    BY <1>4, <1>5, <2>1
  <2>3. ValueTo(t, k + l) = ValueTo(s, l)
    BY <2>2, ValueAfterZeros, ZenonT(60)
  <2> QED
    BY <2>1, <2>3
<1>8. Value(t) = Base * Rest(n) + d
  BY <1>4, <1>5, <1>6, <1>7, ValueByDefinition
<1>9. n = Base * Rest(n) + d
  BY <1>1, Division, NumberAssumption DEF Rest
<1> QED
  BY <1>3, <1>4, <1>8, <1>9

LEMMA ValueOfDigits ==
  \A n \in Nat : Digits(n) \in Seq(Digit) /\ Len(Digits(n)) >= 1
                 /\ Value(Digits(n)) = n
<1> DEFINE P(n) == Digits(n) \in Seq(Digit) /\ Len(Digits(n)) >= 1
                   /\ Value(Digits(n)) = n
           C == {n \in Nat : ~ P(n)}
<1> SUFFICES ASSUME C # {} PROVE FALSE
  OBVIOUS
<1>1. PICK n \in C : \A z \in C : n <= z
  <2>1. C \subseteq Nat
    OBVIOUS
  <2> HIDE DEF C
  <2> QED
    BY <2>1, FirstOf
<1>2. CASE n < Base
  <2>1. Digits(n) = <<n>>
    BY <1>2, DigitsUnfold DEF Extended
  <2>2. n \in Digit
    BY <1>2, NumberAssumption DEF Digit
  <2>3. PICK t : t = <<n>>
    OBVIOUS
  <2>4. t \in Seq(Digit) /\ Len(t) = 1 /\ t[1] = n
    BY <2>2, <2>3
  <2>5. PICK k \in Nat : k = 0
    OBVIOUS
  <2>6. Value(t) = n
    <3>1. ValueTo(t, k + 1) = Base * ValueTo(t, k) + t[k + 1]
      BY ValueUnfolds
    <3>2. ValueTo(t, k) = 0 /\ k + 1 = 1 /\ Base * 0 = 0
      BY <2>5, ValueUnfolds, NumberAssumption
    <3>3. ValueTo(t, 1) = 0 + n
      BY <2>4, <3>1, <3>2
    <3>4. n \in Nat /\ 0 + n = n
      OBVIOUS
    <3>5. Value(t) = ValueTo(t, Len(t))
      BY ValueByDefinition
    <3> HIDE DEF C, P
    <3> QED
      BY <2>4, <3>3, <3>4, <3>5
  <2>7. Digits(n) = t
    BY <2>1, <2>3
  <2>8. P(n)
    BY <2>4, <2>6, <2>7
  <2> QED
    BY <2>8
<1>3. CASE ~ (n < Base)
  <2>1. PICK q \in Nat : q = Rest(n) /\ q < n
    BY <1>3, RestIsSmaller
  <2>2. P(q)
    BY <1>1, <2>1
  <2>3. PICK s \in Seq(Digit) : s = Digits(q) /\ Value(s) = Rest(n)
    BY <2>1, <2>2
  <2>4. Digits(n) = Extended(s, n)
    BY <2>1, <2>3, DigitsUnfold
  <2>5. PICK t : t = Extended(s, n)
    OBVIOUS
  <2>6. t \in Seq(Digit) /\ Value(t) = n
    BY <1>3, <2>3, <2>5, ValueOfExtended
  <2>7. Len(t) >= 1
    BY <1>3, <2>5 DEF Extended
  <2> QED
    BY <2>4, <2>5, <2>6, <2>7
<1> QED
  BY <1>2, <1>3

LEMMA WidthIsNat == Width \in Nat
BY DEF Width

LEMMA PaddedValue ==
  ASSUME NEW s \in Seq(Digit)
  PROVE  /\ Padded(s) \in Seq(Digit) /\ Len(Padded(s)) >= Width
         /\ Value(Padded(s)) = Value(s)
<1>1. PICK w \in Nat : w = Width
  BY WidthIsNat
<1>2. PICK k \in Nat : k = IF w > Len(s) THEN w - Len(s) ELSE 0
  OBVIOUS
<1>3. PICK z : z = [i \in 1..k |-> 0]
  OBVIOUS
<1>4. z \in Seq(Digit) /\ Len(z) = k /\ \A i \in 1..k : z[i] = 0
  <2>1. 0 \in Digit
    BY NumberAssumption DEF Digit
  <2> QED
    BY <1>3, <2>1
<1>5. PICK t : t = z \o s
  OBVIOUS
<1>6. Padded(s) = t
  BY <1>1, <1>2, <1>3, <1>5 DEF Padded
<1>7. PICK l \in Nat : l = Len(s)
  OBVIOUS
<1>8. t \in Seq(Digit) /\ Len(t) = k + l
      /\ (\A i \in 1..k : t[i] = 0) /\ \A i \in 1..l : t[k + i] = s[i]
  <2>1. t \in Seq(Digit)
    BY <1>4, <1>5
  <2>5. Len(t) = k + l
    <3>1. Len(z \o s) = Len(z) + Len(s)
      BY <1>4
    <3> QED
      BY <3>1, <1>4, <1>5, <1>7
  <2>2. \A i \in 1..k + l : t[i] = IF i <= k THEN z[i] ELSE s[i - k]
    <3>1. \A i \in 1..Len(z) + Len(s) :
            (z \o s)[i] = IF i <= Len(z) THEN z[i] ELSE s[i - Len(z)]
      BY <1>4
    <3> QED
      BY <3>1, <1>4, <1>5, <1>7
  <2>3. \A i \in 1..k : t[i] = 0
    BY <1>4, <2>2
  <2>4. ASSUME NEW i \in 1..l
        PROVE  t[k + i] = s[i]
    <3>1. PICK j \in 1..k + l : j = k + i
      OBVIOUS
    <3>2. ~ (j <= k) /\ j - k = i
      BY <3>1
    <3> QED
      BY <2>2, <3>1, <3>2
  <2> QED
    BY <2>1, <2>5, <2>3, <2>4
<1>9. ValueTo(t, k + l) = ValueTo(s, l)
  BY <1>8, ValueAfterZeros, ZenonT(60)
<1>10. Value(t) = Value(s)
  BY <1>7, <1>8, <1>9, ValueByDefinition
<1>11. Len(t) >= w
  BY <1>2, <1>7, <1>8
<1> QED
  BY <1>1, <1>6, <1>8, <1>10, <1>11

LEMMA PaddedDigits ==
  ASSUME NEW n \in Nat
  PROVE  /\ Padded(Digits(n)) \in Seq(Digit) /\ Len(Padded(Digits(n))) >= Width
         /\ Value(Padded(Digits(n))) = n
BY ValueOfDigits, PaddedValue

-----------------------------------------------------------------------------
(* The next number.                                                        *)

\* The documents: finitely many, of months that have come, with the digits of
\* a padded number.
DocsTyped ==
  /\ IsFiniteSet(docs)
  /\ \A d \in docs : /\ DOMAIN d = {"month", "digits"} /\ d.month \in 1..month
                     /\ d.digits \in Seq(Digit) /\ Len(d.digits) >= Width

\* One string is before another at the first place where they differ, or where
\* it has ended.
BeforeAt(s, t, i) ==
  /\ i \in 1..Len(t) /\ i <= Len(s) + 1
  /\ \A j \in 1..i - 1 : s[j] = t[j]
  /\ i <= Len(s) => s[i] < t[i]

LEMMA BeforeSomewhere ==
  ASSUME NEW s \in Seq(Digit), NEW t \in Seq(Digit)
  PROVE  Before(s, t) <=> \E i \in Nat : BeforeAt(s, t, i)
<1> PICK k \in Nat : k = Len(s)
  OBVIOUS
<1> PICK l \in Nat : l = Len(t)
  OBVIOUS
<1>1. ASSUME Before(s, t)
      PROVE  \E i \in Nat : BeforeAt(s, t, i)
  <2>1. ASSUME NEW i \in 1..k, i <= l, s[i] < t[i], \A j \in 1..i - 1 : s[j] = t[j]
        PROVE  BeforeAt(s, t, i)
    BY <2>1 DEF BeforeAt
  <2>2. ASSUME k < l, \A j \in 1..k : s[j] = t[j]
        PROVE  BeforeAt(s, t, k + 1)
    BY <2>2 DEF BeforeAt
  <2> QED
    BY <1>1, <2>1, <2>2 DEF Before
<1>2. ASSUME NEW i \in Nat, BeforeAt(s, t, i)
      PROVE  Before(s, t)
  <2>1. /\ i \in 1..l /\ i <= k + 1 /\ \A j \in 1..i - 1 : s[j] = t[j]
        /\ i <= k => s[i] < t[i]
    BY <1>2 DEF BeforeAt
  <2>2. CASE i <= k
    BY <2>1, <2>2 DEF Before
  <2>3. CASE ~ (i <= k)
    <3>1. i - 1 = k /\ k < l
      BY <2>1, <2>3
    <3>2. \A j \in 1..k : s[j] = t[j]
      BY <2>1, <3>1
    <3> QED
      BY <3>1, <3>2 DEF Before
  <2> QED
    BY <2>2, <2>3
<1> QED
  BY <1>1, <1>2

LEMMA BeforeIsStrict ==
  ASSUME NEW s \in Seq(Digit)
  PROVE  ~ Before(s, s)
<1>1. \A i \in 1..Len(s) : s[i] \in Int
  BY NumberAssumption DEF Digit
<1> QED
  BY <1>1 DEF Before

LEMMA BeforeIsTransitive ==
  ASSUME NEW s \in Seq(Digit), NEW t \in Seq(Digit), NEW u \in Seq(Digit),
         Before(s, t), Before(t, u)
  PROVE  Before(s, u)
<1>1. PICK i \in Nat : BeforeAt(s, t, i)
  BY BeforeSomewhere
<1>2. PICK j \in Nat : BeforeAt(t, u, j)
  BY BeforeSomewhere
<1>3. PICK k \in Nat : k = Len(s)
  OBVIOUS
<1>4. PICK l \in Nat : l = Len(t)
  OBVIOUS
<1>5. PICK m \in Nat : m = Len(u)
  OBVIOUS
<1>6. /\ i \in 1..l /\ i <= k + 1 /\ \A x \in 1..i - 1 : s[x] = t[x]
      /\ i <= k => s[i] < t[i]
  BY <1>1, <1>3, <1>4 DEF BeforeAt
<1>7. /\ j \in 1..m /\ j <= l + 1 /\ \A x \in 1..j - 1 : t[x] = u[x]
      /\ j <= l => t[j] < u[j]
  BY <1>2, <1>4, <1>5 DEF BeforeAt
<1>8. /\ \A x \in 1..k : s[x] \in Int
      /\ \A x \in 1..l : t[x] \in Int
      /\ \A x \in 1..m : u[x] \in Int
  BY <1>3, <1>4, <1>5, NumberAssumption DEF Digit
<1>9. CASE i < j
  <2>1. i \in 1..m /\ t[i] = u[i] /\ \A x \in 1..i - 1 : s[x] = u[x]
    BY <1>6, <1>7, <1>9
  <2>2. BeforeAt(s, u, i)
    BY <1>3, <1>5, <1>6, <2>1 DEF BeforeAt
  <2> QED
    BY <2>2, BeforeSomewhere
<1>10. CASE j < i
  <2>1. j <= k /\ j <= l /\ s[j] = t[j] /\ \A x \in 1..j - 1 : s[x] = u[x]
    BY <1>6, <1>7, <1>10
  <2>2. BeforeAt(s, u, j)
    BY <1>3, <1>5, <1>7, <2>1 DEF BeforeAt
  <2> QED
    BY <2>2, BeforeSomewhere
<1>11. CASE i = j
  <2>1. \A x \in 1..i - 1 : s[x] = u[x]
    BY <1>6, <1>7, <1>11
  <2>2. i <= k => s[i] < u[i]
    BY <1>6, <1>7, <1>8, <1>11
  <2>3. BeforeAt(s, u, i)
    BY <1>3, <1>5, <1>6, <1>7, <1>11, <2>1, <2>2 DEF BeforeAt
  <2> QED
    BY <2>3, BeforeSomewhere
<1> QED
  BY <1>9, <1>10, <1>11

HasLast(T) == \E d \in T : \A e \in T : ~ Before(d.digits, e.digits)

\* A month with documents has a last one, whatever lengths their numbers have.
LEMMA LastExists ==
  ASSUME DocsTyped, NEW m, OfMonth(m) # {}
  PROVE  /\ LastOf(m) \in OfMonth(m)
         /\ \A e \in OfMonth(m) : ~ Before(LastOf(m).digits, e.digits)
<1> PICK S : S = OfMonth(m)
  OBVIOUS
<1>1. IsFiniteSet(S) /\ \A d \in S : d.digits \in Seq(Digit)
  <2>1. S \subseteq docs
    BY DEF OfMonth
  <2> QED
    BY <2>1, FS_Subset DEF DocsTyped
<1> DEFINE C == {T \in SUBSET S : T # {} /\ ~ HasLast(T)}
<1>2. C = {}
  <2> SUFFICES ASSUME C # {} PROVE FALSE
    OBVIOUS
  <2>1. PICK T \in C : \A s \in C : s \subseteq T => s = T
    <3>1. C \subseteq SUBSET S
      OBVIOUS
    <3> HIDE DEF C
    <3> QED
      BY <1>1, <3>1, MinimalSet
  <2>2. PICK c \in T : TRUE
    OBVIOUS
  <2>3. \A d \in T : d.digits \in Seq(Digit)
    BY <1>1
  <2>4. CASE T = {c}
    BY <2>3, <2>4, BeforeIsStrict DEF HasLast
  <2>5. CASE T # {c}
    <3>1. T \ {c} \in SUBSET S /\ T \ {c} # {} /\ T \ {c} \notin C
      BY <2>1, <2>2, <2>5
    <3>2. PICK d \in T \ {c} : \A e \in T \ {c} : ~ Before(d.digits, e.digits)
      BY <3>1 DEF HasLast
    <3>3. CASE ~ Before(d.digits, c.digits)
      BY <3>2, <3>3 DEF HasLast
    <3>4. CASE Before(d.digits, c.digits)
      <4>1. ASSUME NEW e \in T, Before(c.digits, e.digits)
            PROVE  FALSE
        <5>1. Before(d.digits, e.digits)
          BY <2>2, <2>3, <3>4, <4>1, BeforeIsTransitive
        <5>2. e # c
          BY <2>2, <2>3, <4>1, BeforeIsStrict
        <5> QED
          BY <3>2, <5>1, <5>2
      <4> QED
        BY <2>2, <4>1 DEF HasLast
    <3> QED
      BY <3>3, <3>4
  <2> QED
    BY <2>4, <2>5
<1>3. HasLast(S)
  <2>1. S \in SUBSET S /\ S \notin C
    BY <1>2
  <2> QED
    BY <2>1
<1>4. \E d \in OfMonth(m) : \A e \in OfMonth(m) : ~ Before(d.digits, e.digits)
  BY <1>3 DEF HasLast
<1> QED
  BY <1>4 DEF LastOf

LEMMA DocValues ==
  ASSUME DocsTyped
  PROVE  \A d \in docs : Value(d.digits) \in Nat
<1> SUFFICES ASSUME NEW d \in docs PROVE Value(d.digits) \in Nat
  OBVIOUS
<1>1. PICK s \in Seq(Digit) : s = d.digits
  BY DEF DocsTyped
<1>2. ValueTo(s, Len(s)) \in Nat
  BY ValueIsNat
<1> QED
  BY <1>1, <1>2, ValueByDefinition

LEMMA LastValue ==
  ASSUME DocsTyped, NEW m
  PROVE  OfMonth(m) = {} \/ Value(LastOf(m).digits) \in Nat
BY LastExists, DocValues DEF OfMonth

\* In a month whose numbers have all Width digits the last one has the
\* greatest value.
LEMMA LastIsGreatest ==
  ASSUME DocsTyped, NEW m, ~ Exhausted(m), NEW e \in OfMonth(m)
  PROVE  Value(e.digits) <= Value(LastOf(m).digits)
<1>1. PICK d \in OfMonth(m) : d = LastOf(m) /\ ~ Before(d.digits, e.digits)
  BY LastExists
<1>2. \A x \in OfMonth(m) : x \in docs /\ x.digits \in Seq(Digit)
                            /\ Len(x.digits) = Width
  BY WidthIsNat DEF OfMonth, DocsTyped, Exhausted
<1>3. Value(d.digits) \in Nat /\ Value(e.digits) \in Nat
  BY <1>2, DocValues
<1>4. CASE d.digits = e.digits
  BY <1>1, <1>3, <1>4
<1>5. CASE d.digits # e.digits
  <2>1. Before(e.digits, d.digits)
    BY <1>1, <1>2, <1>5, OneIsBefore
  <2>2. Value(e.digits) < Value(d.digits)
    BY <1>2, <2>1, ValueGrows, WidthIsNat
  <2> QED
    BY <1>1, <1>3, <2>2
<1> QED
  BY <1>4, <1>5

\* The number that is generated is a new one, unless its month has more
\* documents than its digits count.
LEMMA NextIsNumber ==
  ASSUME DocsTyped, NEW m
  PROVE  /\ DOMAIN NextNumber(m) = {"month", "digits"}
         /\ NextNumber(m).month = m
         /\ NextNumber(m).digits \in Seq(Digit)
         /\ Len(NextNumber(m).digits) >= Width
         /\ \/ OfMonth(m) = {}
            \/ Value(NextNumber(m).digits) = Value(LastOf(m).digits) + 1
<1>1. PICK n : n = IF OfMonth(m) = {} THEN 1 ELSE Value(LastOf(m).digits) + 1
  OBVIOUS
<1>2. NextNumber(m) = [month |-> m, digits |-> Padded(Digits(n))]
  BY <1>1 DEF NextNumber
<1>3. n \in Nat
  BY <1>1, LastValue
<1>4. DOMAIN NextNumber(m) = {"month", "digits"} /\ NextNumber(m).month = m
      /\ NextNumber(m).digits = Padded(Digits(n))
  BY <1>2
<1>5. /\ NextNumber(m).digits \in Seq(Digit)
      /\ Len(NextNumber(m).digits) >= Width
      /\ Value(NextNumber(m).digits) = n
  BY <1>3, <1>4, PaddedDigits
<1>6. OfMonth(m) # {} => n = Value(LastOf(m).digits) + 1
  BY <1>1
<1> QED
  BY <1>4, <1>5, <1>6

LEMMA NextIsNew ==
  ASSUME DocsTyped, NEW m, ~ Exhausted(m)
  PROVE  NextNumber(m) \notin docs
<1>1. CASE OfMonth(m) = {}
  BY <1>1, NextIsNumber DEF OfMonth
<1>2. CASE OfMonth(m) # {}
  <2> SUFFICES ASSUME NextNumber(m) \in docs PROVE FALSE
    OBVIOUS
  <2>1. PICK e \in OfMonth(m) : e = NextNumber(m)
    BY NextIsNumber DEF OfMonth
  <2>2. Value(e.digits) <= Value(LastOf(m).digits)
    BY LastIsGreatest
  <2>3. PICK v \in Nat : v = Value(LastOf(m).digits)
    BY <1>2, LastValue
  <2>4. Value(e.digits) = v + 1
    BY <1>2, <2>1, <2>3, NextIsNumber
  <2> QED
    BY <2>2, <2>3, <2>4
<1> QED
  BY <1>1, <1>2

\* The row of a document, its digits whatever their number.
IsNumber(d) ==
  /\ DOMAIN d = {"month", "digits"} /\ d.month \in 1..month
  /\ d.digits \in Seq(Digit) /\ Len(d.digits) >= Width

NumberReq(r) ==
  /\ DOMAIN r = Fields
  /\ r.op = "insertDocument" => IsNumber(r.row)

\* Until another request writes, the number is nobody's, unless its month has
\* run out of numbers.
NumberKnows(r) ==
  r.op = "insertDocument" => r.row \notin docs \/ Exhausted(r.row.month)

NumberInv ==
  /\ Served
  /\ docKind \in Kinds /\ month \in 1..Months
  /\ IsFiniteSet(docs) /\ \A d \in docs : IsNumber(d)
  /\ \A c \in Clients : NumberReq(req[c])
  /\ \A c \in Clients \ overtaken : NumberKnows(req[c])

LEMMA NumberDocs ==
  ASSUME NumberInv
  PROVE  DocsTyped /\ month \in Nat /\ Months \in Nat
BY NumberAssumption DEF NumberInv, DocsTyped, IsNumber

LEMMA NumbersAreTyped ==
  ASSUME NumberInv
  PROVE  NumbersTyped
<1>1. ASSUME NEW d \in docs, NEW i \in 1..Len(d.digits)
      PROVE  d.month \in 1..month /\ d.digits[i] \in 0..Base - 1
  <2>1. d.month \in 1..month /\ d.digits \in Seq(Digit)
    BY DEF NumberInv, IsNumber
  <2>2. d.digits[i] \in Digit
    BY <2>1
  <2> QED
    BY <2>1, <2>2 DEF Digit
<1>2. \A d \in docs : d.month \in 1..month
  BY DEF NumberInv, IsNumber
<1> QED
  BY <1>1, <1>2 DEF NumberInv, NumbersTyped

\* A step that leaves the documents alone, whether or not a month passes.
LEMMA NumberQuiet ==
  ASSUME NumberInv, NEW c \in Clients, NEW r,
         UNCHANGED numberVars, Served',
         req' = [req EXCEPT ![c] = r],
         overtaken \subseteq overtaken' \cup {c},
         NumberReq(r), c \notin overtaken' => NumberKnows(r)
  PROVE  NumberInv'
<1>0. UNCHANGED <<docKind, docs, month>>
  BY DEF numberVars
<1>1. req'[c] = r /\ \A d \in Clients \ {c} : req'[d] = req[d]
  BY DEF NumberInv, Served
<1>2. \A s : IsNumber(s) <=> IsNumber(s)'
  BY <1>0 DEF IsNumber, Width
<1>3. \A s : (NumberReq(s) => NumberReq(s)') /\ (NumberKnows(s) => NumberKnows(s)')
  BY <1>0, <1>2 DEF NumberReq, NumberKnows, Exhausted, OfMonth, Width
<1>4. ASSUME NEW d \in Clients
      PROVE  NumberReq(req[d])'
  <2>1. PICK s : s = req'[d]
    OBVIOUS
  <2>2. NumberReq(s)
    BY <1>1, <2>1 DEF NumberInv
  <2>3. NumberReq(s)'
    BY <1>3, <2>2
  <2> QED
    BY <2>1, <2>3 DEF NumberReq, IsNumber, Width
<1>5. ASSUME NEW d \in Clients \ overtaken'
      PROVE  NumberKnows(req[d])'
  <2>1. PICK s : s = req'[d]
    OBVIOUS
  <2>2. NumberKnows(s)
    BY <1>1, <1>5, <2>1 DEF NumberInv
  <2>3. NumberKnows(s)'
    BY <1>3, <2>2
  <2> QED
    BY <2>1, <2>3 DEF NumberKnows, Exhausted, OfMonth, Width
<1>6. (\A d \in docs : IsNumber(d))'
  BY <1>0, <1>2 DEF NumberInv
<1> QED
  BY <1>0, <1>4, <1>5, <1>6 DEF NumberInv

LEMMA NumberAnswers ==
  ASSUME NumberInv, NEW c \in Clients, Answer(c),
         UNCHANGED <<docKind, month>>,
         IsFiniteSet(docs'), \A d \in docs' : IsNumber(d)
  PROVE  NumberInv'
<1>1. Served' /\ req' = [req EXCEPT ![c] = Idle]
      /\ overtaken \cup (Open \ {c}) \subseteq overtaken' \cup {c}
  BY AnswerServes DEF NumberInv
<1>2. req'[c] = Idle /\ \A d \in Clients \ {c} : req'[d] = req[d]
  BY <1>1 DEF NumberInv, Served
<1>3. \A s : IsNumber(s) <=> IsNumber(s)'
  BY DEF IsNumber, Width
<1>4. ASSUME NEW d \in Clients
      PROVE  NumberReq(req[d])'
  <2>1. PICK s : s = req'[d]
    OBVIOUS
  <2>2. NumberReq(s)
    BY <1>2, <2>1, IdleFields DEF NumberInv, NumberReq
  <2>3. NumberReq(s)'
    BY <1>3, <2>2 DEF NumberReq
  <2> QED
    BY <2>1, <2>3 DEF NumberReq, IsNumber, Width
<1>5. ASSUME NEW d \in Clients \ overtaken'
      PROVE  NumberKnows(req[d])'
  <2>1. req'[d] = Idle
    BY <1>1, <1>2, <1>5, OthersOvertaken DEF NumberInv
  <2> QED
    BY <2>1, IdleFields DEF NumberKnows
<1>6. (\A d \in docs : IsNumber(d))'
  BY <1>3
<1> QED
  BY <1>1, <1>4, <1>5, <1>6 DEF NumberInv

LEMMA NumberBegins ==
  ASSUME NumberInv, NEW c \in Clients, UNCHANGED numberVars, Ready(c),
         NEW op, NEW row, Begin(c, Doing(op, None, row)),
         op = "insertDocument" =>
           IsNumber(row) /\ (row \notin docs \/ Exhausted(row.month))
  PROVE  NumberInv'
<1> PICK r : r = Doing(op, None, row)
  OBVIOUS
<1>1. Served' /\ req' = [req EXCEPT ![c] = r]
      /\ overtaken \subseteq overtaken' \cup {c}
  BY BeginServes DEF NumberInv
<1>2. NumberReq(r) /\ NumberKnows(r)
  BY DoingFields DEF NumberReq, NumberKnows
<1> QED
  BY <1>1, <1>2, NumberQuiet

LEMMA GenerateNumberOK ==
  ASSUME NumberInv, NEW c \in Clients, Ready(c), GenerateNumber(c)
  PROVE  NumberInv'
<1> PICK number : number = NextNumber(month)
  OBVIOUS
<1>1. Begin(c, Doing("insertDocument", None, number)) /\ UNCHANGED numberVars
  BY DEF GenerateNumber
<1>2. DocsTyped /\ month \in Nat /\ month \in 1..month
  BY NumberDocs, NumberAssumption DEF NumberInv
<1>3. number \notin docs \/ Exhausted(number.month)
  BY <1>2, NextIsNew, NextIsNumber
<1>4. IsNumber(number)
  <2>1. /\ DOMAIN number = {"month", "digits"} /\ number.month = month
        /\ number.digits \in Seq(Digit) /\ Len(number.digits) >= Width
    BY <1>2, NextIsNumber
  <2> QED
    BY <1>2, <2>1 DEF IsNumber
<1> QED
  BY <1>1, <1>3, <1>4, NumberBegins

LEMMA NumbersNextOK ==
  ASSUME NumberInv, NumbersNext
  PROVE  NumberInv'
<1>1. ASSUME NEW c \in Clients, Ready(c), DeleteDocument(c)
      PROVE  NumberInv'
  BY <1>1, NumberBegins DEF DeleteDocument
<1>2. ASSUME NEW c \in Clients, InsertDocument(c)
      PROVE  NumberInv'
  <2>1. IsNumber(req[c].row)
    BY <1>2 DEF InsertDocument, NumberInv, NumberReq
  <2>2. docs' = docs \cup {req[c].row} /\ Answer(c) /\ UNCHANGED <<docKind, month>>
    BY <1>2 DEF InsertDocument
  <2>3. IsFiniteSet(docs') /\ \A d \in docs' : IsNumber(d)
    BY <2>1, <2>2, FS_AddElement DEF NumberInv
  <2> QED
    BY <2>2, <2>3, NumberAnswers
<1>3. ASSUME NEW c \in Clients, RemoveDocument(c)
      PROVE  NumberInv'
  <2>1. docs' = docs \ {req[c].row} /\ Answer(c) /\ UNCHANGED <<docKind, month>>
    BY <1>3 DEF RemoveDocument
  <2>2. IsFiniteSet(docs') /\ \A d \in docs' : IsNumber(d)
    BY <2>1, FS_RemoveElement DEF NumberInv
  <2> QED
    BY <2>1, <2>2, NumberAnswers
<1>4. ASSUME NEW c \in Clients, AbandonDocument(c)
      PROVE  NumberInv'
  <2>1. Served' /\ req' = [req EXCEPT ![c] = Idle]
        /\ overtaken \subseteq overtaken' \cup {c}
    BY <1>4, AbandonServes DEF NumberInv, AbandonDocument
  <2>2. NumberReq(Idle) /\ NumberKnows(Idle)
    BY IdleFields DEF NumberReq, NumberKnows
  <2> QED
    BY <1>4, <2>1, <2>2, NumberQuiet DEF AbandonDocument
<1>5. ASSUME NextMonth
      PROVE  NumberInv'
  <2>0. /\ month' = month + 1 /\ month' \in 1..Months
        /\ UNCHANGED <<docKind, docs, req, overtaken, left>>
    BY <1>5, NumberAssumption DEF NextMonth, reqVars, NumberInv
  <2>1. \A s : IsNumber(s) => IsNumber(s)'
    <3>1. \A i \in 1..month : i \in 1..month'
      BY <2>0, NumberAssumption DEF NumberInv
    <3> QED
      BY <2>0, <3>1 DEF IsNumber, Width
  <2>2. (\A d \in docs : IsNumber(d))'
    BY <2>0, <2>1 DEF NumberInv
  <2>3. (\A c \in Clients : NumberReq(req[c]))'
    BY <2>0, <2>1 DEF NumberInv, NumberReq
  <2>4. (\A c \in Clients \ overtaken : NumberKnows(req[c]))'
    BY <2>0 DEF NumberInv, NumberKnows, Exhausted, OfMonth, Width
  <2> QED
    BY <2>0, <2>2, <2>3, <2>4 DEF NumberInv, Served
<1> QED
  BY <1>1, <1>2, <1>3, <1>4, <1>5, GenerateNumberOK DEF NumbersNext

\* A number is refused only when the request was overtaken, or its month has
\* run out of numbers.
RefusedFairly ==
  \A c \in Clients :
    req[c].op = "insertDocument" /\ Answers(c) /\ req[c].row \in docs
      => c \in overtaken \/ Exhausted(req[c].row.month)

LEMMA RefusedStep ==
  ASSUME NumberInv
  PROVE  RefusedFairly
BY DEF NumberInv, NumberKnows, RefusedFairly

\* The documents a month starts with.
LEMMA NumbersFirstOK ==
  ASSUME NumbersFirst \/ NumbersInit
  PROVE  docKind \in Kinds /\ month \in 1..Months
         /\ IsFiniteSet(docs) /\ \A d \in docs : IsNumber(d)
<1>1. docKind \in Kinds /\ month = 1 /\ month \in 1..Months
  BY NumberAssumption DEF NumbersFirst, NumbersInit
<1>2. CASE NumbersInit
  BY <1>1, <1>2, FS_EmptySet DEF NumbersInit
<1>3. CASE NumbersFirst
  <2>1. PICK n \in 0..MaxNumber :
          docs = {[month |-> 1, digits |-> Padded(Digits(i))] : i \in 1..n}
    BY <1>3 DEF NumbersFirst
  <2> DEFINE f == [i \in 1..n |-> [month |-> 1, digits |-> Padded(Digits(i))]]
  <2>2. docs = {f[i] : i \in 1..n}
    BY <2>1
  <2>3. \A i \in 1..n : IsNumber(f[i])
    <3> SUFFICES ASSUME NEW i \in 1..n PROVE IsNumber(f[i])
      OBVIOUS
    <3>1. PICK d : d = [month |-> 1, digits |-> Padded(Digits(i))]
      OBVIOUS
    <3>2. f[i] = d
      BY <3>1
    <3>3. i \in Nat /\ 1 \in 1..month
      BY <1>1
    <3>4. IsNumber(d)
      BY <3>1, <3>3, PaddedDigits DEF IsNumber
    <3> QED
      BY <3>2, <3>4
  <2>4. IsFiniteSet(1..n)
    BY FS_Interval, NumberAssumption
  <2> HIDE DEF f
  <2>5. IsFiniteSet(docs)
    BY <2>2, <2>4, FiniteImage
  <2> QED
    BY <1>1, <2>2, <2>3, <2>5
<1> QED
  BY <1>2, <1>3

-----------------------------------------------------------------------------
(* The parts together.                                                     *)

\* The part a behaviour is about keeps its invariant, and the others their
\* first tables.
RecordsInv ==
  /\ part \in Parts /\ Served
  /\ \A c \in Clients : DOMAIN req[c] = Fields
  /\ PartnersTyped /\ MasterTyped /\ ThemesTyped /\ NumbersTyped
  /\ part = "partners" => PartnerInv
  /\ part = "master data" => MasterInv
  /\ part = "themes" => ThemeInv
  /\ IF part = "numbers" THEN NumberInv ELSE docs = {}

\* The ids a row that is free names are some of the tables'.
LEMMA FirstRows ==
  /\ NoCustomer \in CustomerRow /\ NoAddress \in AddressRow
  /\ NoSupplier \in SupplierRow /\ NoPackaging \in PackagingRow
  /\ NoRef \in RefRow
<1>1. /\ (CHOOSE x \in PartnerCodes : TRUE) \in PartnerCodes
      /\ (CHOOSE k \in CustomerIds : TRUE) \in CustomerIds
      /\ (CHOOSE t \in AddressTypes : TRUE) \in AddressTypes
      /\ (CHOOSE s \in SupplierItems : TRUE) \in SupplierItems
      /\ (CHOOSE q \in Ratios : TRUE) \in Ratios
      /\ (CHOOSE x \in RefCodes : TRUE) \in RefCodes
  BY PartnerAssumption, MasterAssumption
<1>2. 1 \in Levels
  BY PartnerAssumption DEF Levels
<1>3. NoCustomer \in CustomerRow
  BY <1>1 DEF NoCustomer, CustomerRow, CustomerStatus
<1>4. NoAddress \in AddressRow
  BY <1>1 DEF NoAddress, AddressRow
<1>5. NoSupplier \in SupplierRow
  BY <1>1 DEF NoSupplier, SupplierRow
<1>6. NoPackaging \in PackagingRow
  BY <1>1, <1>2 DEF NoPackaging, PackagingRow
<1>7. NoRef \in RefRow
  BY <1>1 DEF NoRef, RefRow
<1> QED
  BY <1>3, <1>4, <1>5, <1>6, <1>7

LEMMA RequestsFirst ==
  ASSUME NoRequests
  PROVE  Served /\ \A c \in Clients : req[c] = Idle
BY RequestAssumption DEF NoRequests, Served

\* No row is live but those the part starts from.
LEMMA PartnersFirstOK ==
  ASSUME PartnersFirst \/ PartnersInit
  PROVE  PartnersTyped /\ OneOfALevel
<1> USE FirstRows
<1>1. CASE PartnersInit
  BY <1>1 DEF PartnersInit, PartnersTyped, OneOfALevel, Live, NoPackaging
<1>2. CASE OneCustomer /\ ordered = {} /\ supplied = {}
  <2>1. PICK type \in AddressTypes :
          address = [a \in AddressIds |->
            CASE a = 1 -> [NoAddress EXCEPT !.st = "live", !.default = TRUE]
              [] a = 2 -> [NoAddress EXCEPT !.st = "live", !.type = type]
              [] OTHER -> NoAddress]
    BY <1>2 DEF OneCustomer
  <2>2. /\ [NoAddress EXCEPT !.st = "live", !.default = TRUE] \in AddressRow
        /\ [NoAddress EXCEPT !.st = "live", !.type = type] \in AddressRow
    BY DEF AddressRow
  <2>3. address \in [AddressIds -> AddressRow]
    BY <2>1, <2>2
  <2>4. [NoCustomer EXCEPT !.st = "live"] \in CustomerRow
    BY DEF CustomerRow
  <2>5. customer \in [CustomerIds -> CustomerRow]
    BY <1>2, <2>4 DEF OneCustomer
  <2>6. supplier \in [SupplierIds -> SupplierRow]
    BY <1>2 DEF OneCustomer
  <2>7. packaging = [p \in PackagingIds |-> NoPackaging]
    BY <1>2 DEF OneCustomer
  <2>8. OneOfALevel
    BY <2>7 DEF OneOfALevel, Live, NoPackaging
  <2> QED
    BY <1>2, <2>3, <2>5, <2>6, <2>7, <2>8 DEF PartnersTyped
<1>3. CASE OneSupplier /\ ordered = {} /\ supplied = {}
  <2>1. PICK base \in Ratios, per \in Ratios :
          packaging = [p \in PackagingIds |->
            IF p \notin Levels \cap {1, 2} THEN NoPackaging
            ELSE [NoPackaging EXCEPT !.st = "live", !.level = p, !.per = per,
                                     !.base = base]]
    BY <1>3 DEF OneSupplier
  <2>2. \A p \in Levels :
          [NoPackaging EXCEPT !.st = "live", !.level = p, !.per = per,
                              !.base = base] \in PackagingRow
    BY PartnerAssumption DEF PackagingRow
  <2>3. packaging \in [PackagingIds -> PackagingRow]
    BY <2>1, <2>2
  <2>4. \A p \in Live(packaging) : packaging[p].level = p
    BY <2>1 DEF Live, NoPackaging
  <2>5. OneOfALevel
    BY <2>4 DEF OneOfALevel
  <2>6. [NoSupplier EXCEPT !.st = "live"] \in SupplierRow
    BY DEF SupplierRow
  <2>7. supplier \in [SupplierIds -> SupplierRow]
    BY <1>3, <2>6 DEF OneSupplier
  <2>8. /\ customer \in [CustomerIds -> CustomerRow]
        /\ address \in [AddressIds -> AddressRow]
    BY <1>3 DEF OneSupplier
  <2> QED
    BY <1>3, <2>3, <2>5, <2>7, <2>8 DEF PartnersTyped
<1> QED
  BY <1>1, <1>2, <1>3 DEF PartnersFirst

LEMMA MasterFirstOK ==
  ASSUME MasterFirst \/ MasterInit
  PROVE  MasterTyped
<1>1. CASE MasterInit
  BY <1>1, FirstRows DEF MasterInit, MasterTyped
<1>2. CASE /\ table \in Tables
           /\ ref = [x \in RefIds |->
                IF x = 1 THEN [NoRef EXCEPT !.st = "live"] ELSE NoRef]
           /\ \E n \in {None} \cup (RefIds \cap {1}) : names = [u \in Users |-> n]
  <2>1. [NoRef EXCEPT !.st = "live"] \in RefRow
    BY FirstRows DEF RefRow
  <2>2. ref \in [RefIds -> RefRow]
    BY <1>2, <2>1, FirstRows
  <2>3. names \in [Users -> RefIds \cup {None}]
    BY <1>2
  <2> QED
    BY <1>2, <2>2, <2>3 DEF MasterTyped
<1> QED
  BY <1>1, <1>2 DEF MasterFirst

LEMMA ThemesFirstOK ==
  ASSUME ThemesFirst \/ ThemesInit
  PROVE  ThemesTyped
<1>1. (CHOOSE t \in ThemeIds : TRUE) \in ThemeIds
  BY ThemeAssumption
<1> QED
  BY <1>1 DEF ThemesFirst, ThemesInit, ThemesTyped, ThemeRow, FileRow

LEMMA RecordsFirst ==
  ASSUME MCInit
  PROVE  RecordsInv
<1>1. Served /\ \A c \in Clients : req[c] = Idle
  BY RequestsFirst DEF MCInit
<1>2. part \in Parts /\ PartnersTyped /\ OneOfALevel /\ MasterTyped /\ ThemesTyped
  BY PartnersFirstOK, MasterFirstOK, ThemesFirstOK DEF MCInit
<1>3. NumbersFirst \/ NumbersInit
  BY DEF MCInit
<1>4. /\ docKind \in Kinds /\ month \in 1..Months
      /\ IsFiniteSet(docs) /\ \A d \in docs : IsNumber(d)
  BY <1>3, NumbersFirstOK
<1>5. NumberInv
  BY <1>1, <1>4, IdleFields DEF NumberInv, NumberReq, NumberKnows
<1>6. part # "numbers" => docs = {}
  BY DEF MCInit, NumbersInit
<1>7. PartnerInv
  BY <1>1, <1>2, IdlePartner DEF PartnerInv
<1>8. MasterInv
  BY <1>1, <1>2, IdleMaster DEF MasterInv
<1>9. ThemeInv
  BY <1>1, <1>2, IdleTheme DEF ThemeInv
<1> QED
  BY <1>1, <1>2, <1>5, <1>6, <1>7, <1>8, <1>9, NumbersAreTyped, IdleFields
     DEF RecordsInv

LEMMA RecordsNextOK ==
  ASSUME RecordsInv, MCNext
  PROVE  RecordsInv'
<1>1. CASE /\ part = "partners" /\ PartnersNext
           /\ UNCHANGED <<part, masterVars, themeVars, numberVars>>
  <2>1. PartnerInv'
    BY <1>1, PartnersNextOK DEF RecordsInv
  <2> QED
    BY <1>1, <2>1 DEF RecordsInv, masterVars, themeVars, numberVars,
       PartnerInv, PartnerReq, MasterTyped, ThemesTyped, NumbersTyped
<1>2. CASE /\ part = "master data" /\ MasterNext
           /\ UNCHANGED <<part, partnerVars, themeVars, numberVars>>
  <2>1. MasterInv'
    BY <1>2, MasterNextOK DEF RecordsInv
  <2> QED
    BY <1>2, <2>1 DEF RecordsInv, partnerVars, tables, themeVars, numberVars,
       MasterInv, MasterReq, PartnersTyped, ThemesTyped, NumbersTyped
<1>3. CASE /\ part = "themes" /\ ThemesNext
           /\ UNCHANGED <<part, partnerVars, masterVars, numberVars>>
  <2>1. ThemeInv'
    BY <1>3, ThemesNextOK DEF RecordsInv
  <2> QED
    BY <1>3, <2>1 DEF RecordsInv, partnerVars, tables, masterVars, numberVars,
       ThemeInv, ThemeReq, PartnersTyped, MasterTyped, NumbersTyped
<1>4. CASE /\ part = "numbers" /\ NumbersNext
           /\ UNCHANGED <<part, partnerVars, masterVars, themeVars>>
  <2>1. NumberInv'
    BY <1>4, NumbersNextOK DEF RecordsInv
  <2>2. NumbersTyped'
    BY <2>1, NumbersAreTyped, PTL
  <2> QED
    BY <1>4, <2>1, <2>2 DEF RecordsInv, partnerVars, tables, masterVars,
       themeVars, NumberInv, NumberReq, PartnersTyped, MasterTyped, ThemesTyped
<1> QED
  BY <1>1, <1>2, <1>3, <1>4 DEF MCNext

LEMMA RecordsStep ==
  ASSUME RecordsInv, [MCNext]_vars
  PROVE  RecordsInv'
<1>1. CASE UNCHANGED vars
  <2>1. /\ UNCHANGED <<part, req, overtaken, left>>
        /\ UNCHANGED <<customer, address, supplier, packaging, ordered, supplied>>
        /\ UNCHANGED <<table, ref, names, theme, file, disk, given>>
        /\ UNCHANGED <<docKind, docs, month>>
    BY <1>1 DEF vars, reqVars, partnerVars, tables, masterVars, themeVars,
       numberVars
  <2>2. /\ Served' /\ (\A c \in Clients : DOMAIN req[c] = Fields)'
        /\ (PartnersTyped /\ MasterTyped /\ ThemesTyped /\ NumbersTyped)'
    BY <2>1 DEF RecordsInv, Served, PartnersTyped, MasterTyped, ThemesTyped,
       NumbersTyped
  <2>3. PartnerInv => PartnerInv'
    BY <2>1, <2>2 DEF PartnerInv, PartnerReq, PartnerKnows, OneOfALevel, Live,
       Defaults
  <2>4. MasterInv => MasterInv'
    BY <2>1, <2>2 DEF MasterInv, MasterReq, MasterKnows, Naming
  <2>5. ThemeInv => ThemeInv'
    BY <2>1, <2>2 DEF ThemeInv, ThemeReq, ThemeKnows, FilesOf, Live
  <2>6. NumberInv => NumberInv'
    BY <2>1, <2>2 DEF NumberInv, NumberReq, NumberKnows, IsNumber, Exhausted,
       OfMonth, Width
  <2> QED
    BY <2>1, <2>2, <2>3, <2>4, <2>5, <2>6 DEF RecordsInv
<1> QED
  BY <1>1, RecordsNextOK

LEMMA RecordsAlways == MCSpec => []RecordsInv
<1>1. MCInit => RecordsInv
  BY RecordsFirst
<1>2. RecordsInv /\ [MCNext]_vars => RecordsInv'
  BY RecordsStep
<1> QED
  BY <1>1, <1>2, PTL DEF MCSpec

\* TypeOK: every table is made of the values its columns can hold, whichever
\* requests interleave, are refused or are cut short.
THEOREM TypeCorrect == MCSpec => []TypeOK
<1>1. RecordsInv => TypeOK
  BY IdleFields DEF RecordsInv, TypeOK, RequestsTyped, Served
<1> QED
  BY <1>1, RecordsAlways, PTL

\* BlacklistIsFinal: only a request that read the customer before it was
\* blacklisted, and writes after, takes it off the blacklist (Customer.activate
\* and deactivate).
THEOREM BlacklistedForGood == MCSpec => BlacklistIsFinal
<1>1. RecordsInv /\ [MCNext]_vars => [BlacklistHolds]_<<customer, req>>
  <2> SUFFICES ASSUME RecordsInv, MCNext
               PROVE  BlacklistHolds \/ UNCHANGED <<customer, req>>
    BY DEF vars, reqVars, partnerVars, tables
  <2>1. (part = "partners" /\ PartnersNext) \/ UNCHANGED customer
    BY DEF MCNext, partnerVars, tables
  <2> QED
    BY <2>1, BlacklistStep DEF RecordsInv, BlacklistHolds
<1>2. MCSpec => [][BlacklistHolds]_<<customer, req>>
  BY <1>1, RecordsAlways, PTL DEF MCSpec
<1> QED
  BY <1>2 DEF BlacklistIsFinal, BlacklistHolds

\* OneDefaultOfAType: a customer's second default address of a type comes from
\* an overtaken request, or from an update that moves a default to the type
\* (CustomerAddressService.create and update).
THEOREM OneDefaultUnlessOvertaken == MCSpec => OneDefaultOfAType
<1>1. RecordsInv /\ [MCNext]_vars => [OneDefaultHolds]_<<address, req>>
  <2> SUFFICES ASSUME RecordsInv, MCNext
               PROVE  OneDefaultHolds \/ UNCHANGED <<address, req>>
    BY DEF vars, reqVars, partnerVars, tables
  <2>1. (part = "partners" /\ PartnersNext) \/ UNCHANGED address
    BY DEF MCNext, partnerVars, tables
  <2>2. CASE UNCHANGED address
    <3>1. \A k \in CustomerIds, t \in AddressTypes :
            Defaults(k, t)' = Defaults(k, t)
      BY <2>2 DEF Defaults, Live
    <3>2. ASSUME NEW k \in CustomerIds, NEW t \in AddressTypes
          PROVE  ~ (Cardinality(Defaults(k, t)') > Cardinality(Defaults(k, t)))
      <4>1. Defaults(k, t)' = Defaults(k, t)
        BY <3>1
      <4>2. address \in [AddressIds -> AddressRow]
        BY DEF RecordsInv, PartnersTyped
      <4>3. Defaults(k, t) \subseteq AddressIds
        BY <4>2 DEF Defaults, Live
      <4>4. IsFiniteSet(Defaults(k, t))
        BY <4>3, FS_Subset, PartnerAssumption
      <4>5. Cardinality(Defaults(k, t)) \in Nat
        BY <4>4, FS_CardinalityType
      <4>6. PICK n \in Nat : n = Cardinality(Defaults(k, t))
        BY <4>5
      <4> QED
        BY <4>1, <4>6
    <3> QED
      BY <3>2 DEF OneDefaultHolds
  <2> QED
    BY <2>1, <2>2, OneDefaultStep DEF RecordsInv
<1>2. MCSpec => [][OneDefaultHolds]_<<address, req>>
  BY <1>1, RecordsAlways, PTL DEF MCSpec
<1> QED
  BY <1>2 DEF OneDefaultOfAType, OneDefaultHolds

\* ActivityMovesAsAsked: a supplier, or a row of the master data, becomes
\* active or inactive only when a request asks for it, or by one that writes
\* back what it read before another wrote.
THEOREM ActivityAsAsked == MCSpec => ActivityMovesAsAsked
<1> DEFINE A == SupplierActivityMovesAsAsked /\ ReferenceActivityMovesAsAsked
<1>1. RecordsInv /\ [MCNext]_vars => [A]_<<supplier, ref, req>>
  <2> SUFFICES ASSUME RecordsInv, MCNext
               PROVE  A \/ UNCHANGED <<supplier, ref, req>>
    BY DEF vars, reqVars, partnerVars, tables, masterVars
  <2>1. SupplierActivityMovesAsAsked
    <3>1. (part = "partners" /\ PartnersNext) \/ UNCHANGED supplier
      BY DEF MCNext, partnerVars, tables
    <3> QED
      BY <3>1, SupplierStep DEF RecordsInv, SupplierActivityMovesAsAsked
  <2>2. ReferenceActivityMovesAsAsked
    <3>1. (part = "master data" /\ MasterNext) \/ UNCHANGED ref
      BY DEF MCNext, masterVars
    <3> QED
      BY <3>1, ReferenceStep DEF RecordsInv, ReferenceActivityMovesAsAsked
  <2> QED
    BY <2>1, <2>2
<1>2. MCSpec => [][A]_<<supplier, ref, req>>
  BY <1>1, RecordsAlways, PTL DEF MCSpec
<1> QED
  BY <1>2 DEF ActivityMovesAsAsked

\* RecalculationSettles: a recalculation that no other request overtook leaves
\* every level with the product of the quantities from its own level down
\* (SupplierItemPackagingService.recalculateQtyToBase).
THEOREM RecalculationsSettle == MCSpec => RecalculationSettles
<1> DEFINE I == RecordsInv /\ (part = "partners" => LevelsInv)
<1>1. MCInit => I
  <2>1. MCInit => \A c \in Clients : req[c] = Idle
    BY RequestsFirst DEF MCInit
  <2> QED BY <2>1, RecordsFirst, IdleFields DEF LevelsInv, RecalculationKnows
<1>2. I /\ [MCNext]_vars => I'
  <2> SUFFICES ASSUME I, [MCNext]_vars PROVE I'
    OBVIOUS
  <2>1. RecordsInv'
    BY RecordsStep
  <2>2. CASE UNCHANGED vars
    <3>1. UNCHANGED <<part, req, overtaken, packaging>>
      BY <2>2 DEF vars, reqVars, partnerVars, tables
    <3>2. \A s, l : At(s, l)' = At(s, l) /\ Product(s, l)' = Product(s, l)
      BY <3>1, ProductByDefinition
    <3>3. \A s : LevelsOf(s)' = LevelsOf(s)
      BY <3>2 DEF LevelsOf
    <3> QED BY <2>1, <3>1, <3>2, <3>3 DEF LevelsInv, RecalculationKnows
  <2>3. CASE MCNext
    <3>1. part' = part /\ (part = "partners" => PartnersNext)
      BY <2>3 DEF MCNext
    <3>2. part = "partners" => PartnerInv
      BY DEF RecordsInv
    <3> QED BY <2>1, <3>1, <3>2, LevelsNext
  <2> QED BY <2>2, <2>3
<1>3. I /\ [MCNext]_vars => [LevelsHold]_<<packaging, req>>
  <2> SUFFICES ASSUME I, MCNext
               PROVE  LevelsHold \/ UNCHANGED <<packaging, req>>
    BY DEF vars, reqVars, partnerVars, tables
  <2>1. (part = "partners" /\ PartnersNext) \/ UNCHANGED packaging
    BY DEF MCNext, partnerVars, tables
  <2>2. part = "partners" => PartnerInv
    BY DEF RecordsInv
  <2> QED BY <2>1, <2>2, LevelsSettle DEF LevelsHold
<1>4. MCSpec => [][LevelsHold]_<<packaging, req>>
  <2> HIDE DEF I
  <2> QED BY <1>1, <1>2, <1>3, PTL DEF MCSpec
<1> QED BY <1>4 DEF RecalculationSettles, LevelsHold

\* MaterialsInUseStay: a material that an item names is deleted only by a
\* request that was overtaken after it had counted the material's items
\* (MaterialService.remove).
THEOREM MaterialsAreKept == MCSpec => MaterialsInUseStay
<1>1. RecordsInv /\ [MCNext]_vars => [MaterialHolds]_<<ref, req>>
  <2> SUFFICES ASSUME RecordsInv, MCNext
               PROVE  MaterialHolds \/ UNCHANGED <<ref, req>>
    BY DEF vars, reqVars, masterVars
  <2>1. CASE part = "master data" /\ MasterNext
    BY <2>1, MaterialStep DEF RecordsInv
  <2>2. CASE UNCHANGED ref
    BY <2>2 DEF MaterialHolds, Live
  <2> QED
    BY <2>1, <2>2 DEF MCNext, masterVars
<1>2. MCSpec => [][MaterialHolds]_<<ref, req>>
  BY <1>1, RecordsAlways, PTL DEF MCSpec
<1> QED
  BY <1>2 DEF MaterialsInUseStay, MaterialHolds

\* DeletionTakesTheFiles: a row of File is marked deleted when its file is off
\* the disk, and a theme goes when no row of File is left to it, unless the
\* request that does it was overtaken (FileService.deleteFilesByContext).
THEOREM DeletionInOrder == MCSpec => DeletionTakesTheFiles
<1> DEFINE A == RowsGoAfterFiles /\ ThemesGoAfterRows
<1>1. RecordsInv /\ [MCNext]_vars => [A]_<<theme, file, req>>
  <2> SUFFICES ASSUME RecordsInv, MCNext
               PROVE  A \/ UNCHANGED <<theme, file, req>>
    BY DEF vars, reqVars, themeVars
  <2>1. \/ part = "themes" /\ ThemesNext
        \/ UNCHANGED <<theme, file>>
    BY DEF MCNext, themeVars
  <2>2. CASE UNCHANGED <<theme, file>>
    BY <2>2 DEF RowsGoAfterFiles, ThemesGoAfterRows, Live
  <2> QED
    BY <2>1, <2>2, RowsStep, ThemesStep DEF RecordsInv
<1>2. [A]_<<theme, file, req>>
        => [/\ \A f \in Live(file) :
                 file'[f].st = "gone" =>
                   \/ file[f].path \notin disk
                   \/ \E c \in overtaken : req'[c] # req[c]
            /\ \A t \in Live(theme) :
                 theme'[t].st = "gone" =>
                   \/ FilesOf(t) = {}
                   \/ \E c \in overtaken : Answers(c)]_<<theme, file, req>>
  BY DEF RowsGoAfterFiles, ThemesGoAfterRows
<1> QED
  BY <1>1, <1>2, RecordsAlways, PTL DEF MCSpec, DeletionTakesTheFiles

\* RefusedOnlyWhenOvertaken: for any base, width of the numbers and months, the
\* number of a document is taken when it is inserted only if another request
\* wrote since it was generated, or the numbers of its month have outgrown
\* their digits (generateOrderNumber, generatePONumber, generateTransactionNum).
THEOREM NumbersRefusedFairly == MCSpec => RefusedOnlyWhenOvertaken
<1>1. RecordsInv /\ [MCNext]_vars => [RefusedFairly]_<<req, docs>>
  <2> SUFFICES ASSUME RecordsInv
               PROVE  RefusedFairly
    OBVIOUS
  <2>1. CASE part = "numbers"
    BY <2>1, RefusedStep DEF RecordsInv
  <2>2. CASE part # "numbers"
    BY <2>2 DEF RecordsInv, RefusedFairly
  <2> QED
    BY <2>1, <2>2
<1>2. MCSpec => [][RefusedFairly]_<<req, docs>>
  BY <1>1, RecordsAlways, PTL DEF MCSpec
<1> QED
  BY <1>2 DEF RefusedOnlyWhenOvertaken, RefusedFairly
==============================================================================
