------------------------------ MODULE Partners ------------------------------
(***************************************************************************)
(* Customers with their addresses, suppliers, and the packaging levels of   *)
(* what a supplier delivers (src/src/customers, customer-addresses,         *)
(* suppliers, supplier-item-packagings).  Every handler reads first and     *)
(* writes later, one statement at a time and in no transaction.             *)
(***************************************************************************)
EXTENDS Requests

CONSTANTS
  CustomerIds, AddressIds, SupplierIds, PackagingIds,
  PartnerCodes,   \* codes of customers and of suppliers
  AddressTypes,
  SupplierItems,  \* what is packed: pairs of a supplier and an item
  MaxLevel,       \* bound: levels of packaging
  Ratios          \* bound: quantities clients give

ASSUME PartnerAssumption ==
  /\ CustomerIds \subseteq Nat /\ AddressIds \subseteq Nat
  /\ SupplierIds \subseteq Nat /\ PackagingIds \subseteq Nat
  /\ IsFiniteSet(AddressIds)
  /\ MaxLevel \in Nat \ {0} /\ Ratios \subseteq Nat \ {0}
  /\ {} \notin {CustomerIds, PartnerCodes, AddressTypes, SupplierItems, Ratios}

VARIABLES
  customer, address, supplier, packaging,  \* the tables
  ordered,   \* customers that sales orders name
  supplied   \* suppliers that purchase orders or supplier items name

tables == <<customer, address, supplier, packaging>>
partnerVars == <<tables, ordered, supplied>>

CustomerStatus == {"ACTIVE", "INACTIVE", "BLACKLIST"}

Levels == 1..MaxLevel

CustomerRow == [st : {"free", "live", "gone"}, code : PartnerCodes,
                status : CustomerStatus, active : BOOLEAN]

AddressRow == [st : {"free", "live", "gone"}, customer : CustomerIds,
               type : AddressTypes, default : BOOLEAN]

SupplierRow == [st : {"free", "live", "gone"}, code : PartnerCodes,
                active : BOOLEAN]

PackagingRow == [st : {"free", "live", "gone"}, of : SupplierItems,
                 level : Levels, per : Ratios, base : Nat \cup {None}]

CreateCustomerDto == [code : PartnerCodes, active : BOOLEAN \cup {Absent},
                      status : CustomerStatus \cup {Absent}]

UpdateCustomerDto == [code : PartnerCodes \cup {Absent},
                      status : CustomerStatus \cup {Absent}]

CreateAddressDto == [customer : CustomerIds, type : AddressTypes,
                     default : BOOLEAN]

UpdateAddressDto == [type : AddressTypes \cup {Absent},
                     default : BOOLEAN \cup {Absent}]

CreateSupplierDto == [code : PartnerCodes, active : BOOLEAN]

UpdateSupplierDto == [code : PartnerCodes \cup {Absent},
                      active : BOOLEAN \cup {Absent}]

CreatePackagingDto == [of : SupplierItems, level : Levels, per : Ratios,
                       base : Ratios \cup {Absent}]

UpdatePackagingDto == [of : SupplierItems \cup {Absent},
                       level : Levels \cup {Absent},
                       per : Ratios \cup {Absent},
                       base : Ratios \cup {Absent}]

-----------------------------------------------------------------------------
(* Customers.                                                              *)

NewCustomer(dto) ==
  [st |-> "live", code |-> dto.code, status |-> Given(dto.status, "ACTIVE"),
   active |-> Given(dto.active, TRUE)]

\* A slip: a blacklisted customer can be activated and deactivated.
MayBecomeAnything(row, status) == status \in CustomerStatus

MayBecome(row, status) == row.status # "BLACKLIST" \/ status = "BLACKLIST"

Become(row, status) ==
  [row EXCEPT !.status = status, !.active = (status = "ACTIVE")]

\* The code of the body is checked, and then it is not among the columns the
\* update writes.
CustomerPatched(row, dto) ==
  IF dto.status = Absent THEN row ELSE Become(row, dto.status)

CreateCustomer(c) ==
  \E dto \in CreateCustomerDto :
    /\ CodeFree(customer, dto.code, None)
    /\ Begin(c, Doing("insertCustomer", None, NewCustomer(dto)))

UpdateCustomer(c) ==
  \E k \in Live(customer), dto \in UpdateCustomerDto :
    /\ dto.code # Absent => CodeFree(customer, dto.code, k)
    /\ dto.status # Absent => MayBecome(customer[k], dto.status)
    /\ Begin(c, Doing("saveCustomer", k, CustomerPatched(customer[k], dto)))

SetCustomer(c, status) ==
  \E k \in Live(customer) :
    /\ MayBecome(customer[k], status)
    /\ Begin(c, Doing("saveCustomer", k, Become(customer[k], status)))

ActivateCustomer(c) == SetCustomer(c, "ACTIVE")
DeactivateCustomer(c) == SetCustomer(c, "INACTIVE")
BlacklistCustomer(c) == SetCustomer(c, "BLACKLIST")

RemoveCustomer(c) ==
  \E k \in Live(customer) : Begin(c, Doing("deleteCustomer", k, None))

\* The database keeps a customer that orders name, and deletes the addresses
\* of one it deletes.
SaveCustomer(c) ==
  LET r == req[c] IN
  /\ \/ /\ r.op = "insertCustomer"
        /\ CodeFree(customer, r.row.code, None) /\ Free(customer) # {}
        /\ customer' = Inserted(customer, r.row)
        /\ UNCHANGED address
     \/ /\ r.op = "saveCustomer" /\ r.id \in Live(customer)
        /\ customer' = [customer EXCEPT ![r.id].status = r.row.status,
                                        ![r.id].active = r.row.active]
        /\ UNCHANGED address
     \/ /\ r.op = "deleteCustomer" /\ r.id \in Live(customer) \ ordered
        /\ customer' = Deleted(customer, r.id)
        /\ address' = [a \in AddressIds |->
             IF address[a].st = "live" /\ address[a].customer = r.id
             THEN [address[a] EXCEPT !.st = "gone"] ELSE address[a]]
  /\ Answer(c)
  /\ UNCHANGED <<supplier, packaging, ordered, supplied>>

-----------------------------------------------------------------------------
(* Addresses: one of each type may be the customer's default.              *)

Defaults(k, t) == {a \in Live(address) : /\ address[a].customer = k
                                         /\ address[a].type = t
                                         /\ address[a].default}

NewAddress(dto) == [st |-> "live", customer |-> dto.customer,
                    type |-> dto.type, default |-> dto.default]

\* A new default unsets the default there is, if there is one.
CreateAddress(c) ==
  \E dto \in CreateAddressDto :
    Begin(c, Doing(IF dto.default /\ Defaults(dto.customer, dto.type) # {}
                   THEN "unsetThenInsert" ELSE "insertAddress",
                   None, NewAddress(dto)))

AddressPatched(row, dto) ==
  [row EXCEPT !.type = Given(dto.type, @), !.default = Given(dto.default, @)]

\* A body without isDefault unsets nothing, whatever type it gives.
UpdateAddress(c) ==
  \E a \in Live(address), dto \in UpdateAddressDto :
    Begin(c, Doing(CASE dto.default = TRUE -> "unsetThenSave"
                     [] dto.default = FALSE -> "saveAddress"
                     [] OTHER -> "keepAddress",
                   a, AddressPatched(address[a], dto)))

RemoveAddress(c) ==
  \E a \in Live(address) : Begin(c, Doing("deleteAddress", a, None))

\* A slip: the default that gives way is the one of the type before.
UnsetAllOthers(c) ==
  LET r == req[c] IN
  /\ r.op \in {"unsetThenInsert", "unsetThenSave"}
  /\ address' = [a \in AddressIds |->
       IF r.id # None /\ a \in Defaults(r.row.customer, address[r.id].type)
                              \ {r.id}
       THEN [address[a] EXCEPT !.default = FALSE] ELSE address[a]]
  /\ Proceed(c, [r EXCEPT !.op = IF r.op = "unsetThenInsert"
                                 THEN "insertAddress" ELSE "saveAddress"])
  /\ UNCHANGED <<customer, supplier, packaging, ordered, supplied>>

UnsetDefaults(c) ==
  LET r == req[c] IN
  /\ r.op \in {"unsetThenInsert", "unsetThenSave"}
  /\ address' = [a \in AddressIds |->
       IF a \in Defaults(r.row.customer, r.row.type) \ {r.id}
       THEN [address[a] EXCEPT !.default = FALSE] ELSE address[a]]
  /\ Proceed(c, [r EXCEPT !.op = IF r.op = "unsetThenInsert"
                                 THEN "insertAddress" ELSE "saveAddress"])
  /\ UNCHANGED <<customer, supplier, packaging, ordered, supplied>>

SaveAddress(c) ==
  LET r == req[c] IN
  /\ \/ /\ r.op = "insertAddress"
        /\ r.row.customer \in Live(customer) /\ Free(address) # {}
        /\ address' = Inserted(address, r.row)
     \/ /\ r.op \in {"saveAddress", "keepAddress"} /\ r.id \in Live(address)
        /\ address' = [address EXCEPT ![r.id] = r.row]
     \/ /\ r.op = "deleteAddress" /\ r.id \in Live(address)
        /\ address' = Deleted(address, r.id)
  /\ Answer(c)
  /\ UNCHANGED <<customer, supplier, packaging, ordered, supplied>>

-----------------------------------------------------------------------------
(* Suppliers.                                                              *)

NewSupplier(dto) == [st |-> "live", code |-> dto.code, active |-> dto.active]

\* A slip: a body without isActive sets what the constructor would.
SupplierRebuilt(row, dto) ==
  [row EXCEPT !.code = Given(dto.code, @), !.active = Given(dto.active, TRUE)]

\* A new entity from the body and the one that was read: every column is
\* written back.
SupplierPatched(row, dto) ==
  [row EXCEPT !.code = Given(dto.code, @), !.active = Given(dto.active, @)]

CreateSupplier(c) ==
  \E dto \in CreateSupplierDto :
    /\ CodeFree(supplier, dto.code, None)
    /\ Begin(c, Doing("insertSupplier", None, NewSupplier(dto)))

\* "setSupplier" is an update that asks for isActive.
UpdateSupplier(c) ==
  \E s \in Live(supplier), dto \in UpdateSupplierDto :
    /\ dto.code # Absent => CodeFree(supplier, dto.code, s)
    /\ Begin(c, Doing(IF dto.active = Absent THEN "saveSupplier"
                      ELSE "setSupplier",
                      s, SupplierPatched(supplier[s], dto)))

RemoveSupplier(c) ==
  \E s \in Live(supplier) : Begin(c, Doing("deleteSupplier", s, None))

\* These two write their columns alone.
ActivateSupplier(c) ==
  \E s \in Live(supplier) : Begin(c, Doing("activateSupplier", s, TRUE))

DeactivateSupplier(c) ==
  \E s \in Live(supplier) : Begin(c, Doing("activateSupplier", s, FALSE))

SaveSupplier(c) ==
  LET r == req[c] IN
  /\ \/ /\ r.op = "insertSupplier"
        /\ CodeFree(supplier, r.row.code, None) /\ Free(supplier) # {}
        /\ supplier' = Inserted(supplier, r.row)
     \/ /\ r.op \in {"saveSupplier", "setSupplier"} /\ r.id \in Live(supplier)
        /\ CodeFree(supplier, r.row.code, r.id)
        /\ supplier' = [supplier EXCEPT ![r.id] = r.row]
     \/ /\ r.op = "activateSupplier" /\ r.id \in Live(supplier)
        /\ supplier' = [supplier EXCEPT ![r.id].active = r.row]
     \/ /\ r.op = "deleteSupplier" /\ r.id \in Live(supplier) \ supplied
        /\ supplier' = Deleted(supplier, r.id)
  /\ Answer(c)
  /\ UNCHANGED <<customer, address, packaging, ordered, supplied>>

-----------------------------------------------------------------------------
(* Packaging levels: so many of the level below, so many base units.       *)

At(s, l) == {p \in Live(packaging) : packaging[p].of = s
                                     /\ packaging[p].level = l}

Calculable(s, l) == l = 1 \/ \E p \in At(s, l - 1) : packaging[p].base # None

QtyToBase(s, l, per) ==
  IF l = 1 THEN per
  ELSE per * packaging[CHOOSE p \in At(s, l - 1) : TRUE].base

\* Base units as the body gives them, or calculated.
CreatePackaging(c) ==
  \E dto \in CreatePackagingDto :
    /\ At(dto.of, dto.level) = {}
    /\ dto.base = Absent => Calculable(dto.of, dto.level)
    /\ Begin(c, Doing("insertPackaging", None,
         [st |-> "live", of |-> dto.of, level |-> dto.level, per |-> dto.per,
          base |-> IF dto.base = Absent
                   THEN QtyToBase(dto.of, dto.level, dto.per)
                   ELSE dto.base]))

PackagingPatched(row, dto) ==
  [row EXCEPT !.of = Given(dto.of, @), !.level = Given(dto.level, @),
              !.per = Given(dto.per, @), !.base = Given(dto.base, @)]

\* The level is checked only when the body gives the supplier item too; the
\* base units of the levels above stay as they were.
UpdatePackaging(c) ==
  \E p \in Live(packaging), dto \in UpdatePackagingDto :
    LET new == PackagingPatched(packaging[p], dto) IN
    /\ dto.level # Absent /\ dto.of # Absent
         => At(dto.of, dto.level) \subseteq {p}
    /\ LET calculates == dto.per # Absent /\ dto.base = Absent IN
       /\ calculates => Calculable(new.of, new.level)
       /\ Begin(c, Doing("savePackaging", p,
            [dto |-> dto,
             base |-> IF calculates THEN QtyToBase(new.of, new.level, new.per)
                      ELSE dto.base]))

RemovePackaging(c) ==
  \E p \in Live(packaging) : Begin(c, Doing("deletePackaging", p, None))

SavePackaging(c) ==
  LET r == req[c] IN
  /\ \/ /\ r.op = "insertPackaging"
        /\ At(r.row.of, r.row.level) = {} /\ Free(packaging) # {}
        /\ packaging' = Inserted(packaging, r.row)
     \/ /\ r.op = "savePackaging" /\ r.id \in Live(packaging)
        /\ LET new == PackagingPatched(packaging[r.id],
                                       [r.row.dto EXCEPT !.base = r.row.base])
           IN  /\ At(new.of, new.level) \subseteq {r.id}
               /\ packaging' = [packaging EXCEPT ![r.id] = new]
     \/ /\ r.op = "deletePackaging" /\ r.id \in Live(packaging)
        /\ packaging' = Deleted(packaging, r.id)
  /\ Answer(c)
  /\ UNCHANGED <<customer, address, supplier, ordered, supplied>>

\* The levels of a supplier item, lowest first, as they are read once.
LevelsOf(s) == {l \in Levels : At(s, l) # {}}

RecalculateQtyToBase(c) ==
  \E s \in SupplierItems :
    /\ LevelsOf(s) # {}
    /\ Begin(c, Doing("recalculate", s,
         [todo |-> LevelsOf(s), base |-> None,
          per |-> [l \in LevelsOf(s) |-> packaging[CHOOSE p \in At(s, l) :
                                                     TRUE].per],
          at |-> [l \in LevelsOf(s) |-> CHOOSE p \in At(s, l) : TRUE]]))

Lowest(todo) == CHOOSE l \in todo : \A m \in todo : l <= m
Highest(todo) == CHOOSE l \in todo : \A m \in todo : l >= m

\* A slip: the highest level first.
RecalculateFromTop(c) ==
  LET r == req[c] IN
  /\ r.op = "recalculate" /\ r.row.base = None
  /\ LET l == Highest(r.row.todo) IN
     /\ Calculable(r.id, l)
     /\ req' = [req EXCEPT ![c].row.base =
                  <<l, QtyToBase(r.id, l, r.row.per[l])>>]
  /\ UNCHANGED <<partnerVars, overtaken, left>>

\* For one level after the other: the level below is read ...
RecalculateLevel(c) ==
  LET r == req[c] IN
  /\ r.op = "recalculate" /\ r.row.base = None
  /\ LET l == Lowest(r.row.todo) IN
     /\ Calculable(r.id, l)
     /\ req' = [req EXCEPT ![c].row.base =
                  <<l, QtyToBase(r.id, l, r.row.per[l])>>]
  /\ UNCHANGED <<partnerVars, overtaken, left>>

\* ... and the level is written.
SaveRecalculated(c) ==
  LET r == req[c] IN
  /\ r.op = "recalculate" /\ r.row.base # None
  /\ LET l == r.row.base[1] IN
     /\ r.row.at[l] \in Live(packaging)
     /\ packaging' = [packaging EXCEPT ![r.row.at[l]].base = r.row.base[2]]
     /\ IF r.row.todo = {l} THEN Answer(c)
        ELSE Proceed(c, [r EXCEPT !.row.todo = @ \ {l}, !.row.base = None])
  /\ UNCHANGED <<customer, address, supplier, ordered, supplied>>

-----------------------------------------------------------------------------
(* What other parts of the system write about partners.                    *)

PlaceSalesOrder ==
  \E k \in Live(customer) \ ordered :
    /\ ordered' = ordered \cup {k}
    /\ UNCHANGED <<tables, supplied, reqVars>>

Supply ==
  \E s \in Live(supplier) \ supplied :
    /\ supplied' = supplied \cup {s}
    /\ UNCHANGED <<tables, ordered, reqVars>>

AbandonPartner(c) == Abandon(c) /\ UNCHANGED partnerVars

CustomerRequest(c) ==
  \/ CreateCustomer(c) \/ UpdateCustomer(c) \/ ActivateCustomer(c)
  \/ DeactivateCustomer(c) \/ BlacklistCustomer(c) \/ RemoveCustomer(c)

AddressRequest(c) == CreateAddress(c) \/ UpdateAddress(c) \/ RemoveAddress(c)

SupplierRequest(c) ==
  \/ CreateSupplier(c) \/ UpdateSupplier(c) \/ RemoveSupplier(c)
  \/ ActivateSupplier(c) \/ DeactivateSupplier(c)

PackagingRequest(c) ==
  \/ CreatePackaging(c) \/ UpdatePackaging(c) \/ RemovePackaging(c)
  \/ RecalculateQtyToBase(c)

PartnerRequest(c) ==
  /\ Ready(c)
  /\ \/ CustomerRequest(c) \/ AddressRequest(c)
     \/ SupplierRequest(c) \/ PackagingRequest(c)
  /\ UNCHANGED partnerVars

PartnerSave(c) ==
  \/ SaveCustomer(c) \/ UnsetDefaults(c) \/ SaveAddress(c) \/ SaveSupplier(c)
  \/ SavePackaging(c) \/ RecalculateLevel(c) \/ SaveRecalculated(c)

PartnersNext ==
  \/ \E c \in Clients :
       PartnerRequest(c) \/ PartnerSave(c) \/ AbandonPartner(c)
  \/ PlaceSalesOrder
  \/ Supply

NoCustomer == [st |-> "free", code |-> CHOOSE x \in PartnerCodes : TRUE,
               status |-> "ACTIVE", active |-> TRUE]
NoAddress == [st |-> "free", customer |-> CHOOSE k \in CustomerIds : TRUE,
              type |-> CHOOSE t \in AddressTypes : TRUE, default |-> FALSE]
NoSupplier == [st |-> "free", code |-> CHOOSE x \in PartnerCodes : TRUE,
               active |-> TRUE]
NoPackaging == [st |-> "free", of |-> CHOOSE s \in SupplierItems : TRUE,
                level |-> 1, per |-> CHOOSE q \in Ratios : TRUE,
                base |-> None]

PartnersInit ==
  /\ customer = [k \in CustomerIds |-> NoCustomer]
  /\ address = [a \in AddressIds |-> NoAddress]
  /\ supplier = [s \in SupplierIds |-> NoSupplier]
  /\ packaging = [p \in PackagingIds |-> NoPackaging]
  /\ ordered = {}
  /\ supplied = {}

-----------------------------------------------------------------------------
(* Properties.                                                             *)

\* Every row is made of the values its columns can hold.
PartnersTyped ==
  /\ customer \in [CustomerIds -> CustomerRow]
  /\ address \in [AddressIds -> AddressRow]
  /\ supplier \in [SupplierIds -> SupplierRow]
  /\ packaging \in [PackagingIds -> PackagingRow]
  /\ ordered \subseteq CustomerIds /\ supplied \subseteq SupplierIds

\* A customer leaves the blacklist only by a request that had read it before
\* it was blacklisted (the guards of Customer.activate and deactivate are on
\* the row as read, and the update is unconditional).
BlacklistIsFinal ==
  [][\A k \in Live(customer) :
       customer[k].status = "BLACKLIST" /\ customer'[k].status # "BLACKLIST"
         => \E c \in overtaken : Answers(c) /\ req[c].id = k]_<<customer, req>>

\* A type of address gets a second default only from a request that another
\* one overtook, or from an update that moves a default address to the type
\* (CustomerAddressService.create and update unset the others first).
OneDefaultOfAType ==
  [][\A k \in CustomerIds, t \in AddressTypes :
       LET more == Cardinality(Defaults(k, t)') IN
       more > 1 /\ more > Cardinality(Defaults(k, t))
         => \E c \in Clients :
              /\ Answers(c)
              /\ \/ c \in overtaken
                 \/ /\ req[c].op = "keepAddress"
                    /\ address[req[c].id].type # t]_<<address, req>>

\* A supplier is activated or deactivated only as asked, or by an update that
\* read it before another request wrote it (the whole row is written back).
SupplierActivityMovesAsAsked ==
  \A s \in Live(supplier) :
    supplier'[s].active # supplier[s].active
      => \E c \in Clients :
           /\ Answers(c) /\ req[c].id = s
           /\ \/ req[c].op \in {"activateSupplier", "setSupplier"}
              \/ c \in overtaken

\* The base units of level l as the quantities of the levels give them.
Product(s, l) ==
  LET f[m \in 0..l] == IF m = 0 THEN 1
        ELSE f[m - 1] * packaging[CHOOSE p \in At(s, m) : TRUE].per
  IN  f[l]

\* A recalculation that no other request overtook leaves every level with the
\* product of the quantities from its own level down.
RecalculationSettles ==
  [][\A c \in Clients \ overtaken :
       req[c].op = "recalculate" /\ Answers(c) /\ packaging' # packaging
         => \A l \in LevelsOf(req[c].id), p \in PackagingIds :
              p \in At(req[c].id, l)
                => packaging'[p].base = Product(req[c].id, l)]_<<packaging, req>>
=============================================================================
