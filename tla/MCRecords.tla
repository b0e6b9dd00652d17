------------------------------ MODULE MCRecords ------------------------------
(***************************************************************************)
(* The smaller modules for TLC.  They share no table, so a behaviour is     *)
(* about one of them and their state spaces add up.  Each starts from the   *)
(* tables that some requests of one client leave.                           *)
(***************************************************************************)
EXTENDS Partners, MasterData, ThemeFiles, DocumentNumbers

VARIABLE part

vars == <<part, reqVars, partnerVars, masterVars, themeVars, numberVars>>

Parts == {"partners", "master data", "themes", "numbers"}

OneCustomer ==
  /\ customer = [k \in CustomerIds |->
       IF k = 1 THEN [NoCustomer EXCEPT !.st = "live"] ELSE NoCustomer]
  /\ \E type \in AddressTypes :
       address = [a \in AddressIds |->
         CASE a = 1 -> [NoAddress EXCEPT !.st = "live", !.default = TRUE]
           [] a = 2 -> [NoAddress EXCEPT !.st = "live", !.type = type]
           [] OTHER -> NoAddress]
  /\ supplier = [s \in SupplierIds |-> NoSupplier]
  /\ packaging = [p \in PackagingIds |-> NoPackaging]

OneSupplier ==
  /\ supplier = [s \in SupplierIds |->
       IF s = 1 THEN [NoSupplier EXCEPT !.st = "live"] ELSE NoSupplier]
  /\ \E base \in Ratios, per \in Ratios :
       packaging = [p \in PackagingIds |->
         IF p \notin Levels \cap {1, 2} THEN NoPackaging
         ELSE [NoPackaging EXCEPT !.st = "live", !.level = p, !.per = per,
                                  !.base = base]]
  /\ customer = [k \in CustomerIds |-> NoCustomer]
  /\ address = [a \in AddressIds |-> NoAddress]

PartnersFirst ==
  \/ PartnersInit
  \/ (OneCustomer \/ OneSupplier) /\ ordered = {} /\ supplied = {}

MasterFirst ==
  \/ MasterInit
  \/ /\ table \in Tables
     /\ ref = [x \in RefIds |->
          IF x = 1 THEN [NoRef EXCEPT !.st = "live"] ELSE NoRef]
     /\ \E n \in {None} \cup (RefIds \cap {1}) : names = [u \in Users |-> n]

ThemesFirst ==
  \/ ThemesInit
  \/ \E image \in Paths :
       /\ 1 \in ThemeIds
       /\ theme = [t \in ThemeIds |-> IF t = 1
                  THEN [st |-> "live", image |-> image]
                  ELSE [st |-> "free", image |-> None]]
       /\ file = [f \in FileIds |->
            [st |-> IF f = 1 THEN "live" ELSE "free",
             theme |-> 1, path |-> IF f = 1 THEN image ELSE None]]
       /\ disk = {image} /\ given = {image}

\* Months with their first n documents, made one after the other.
NumbersFirst ==
  /\ docKind \in Kinds /\ month = 1
  /\ \E n \in 0..MaxNumber :
       docs = {[month |-> 1, digits |-> Padded(Digits(i))] : i \in 1..n}

MCInit ==
  /\ part \in Parts
  /\ IF part = "partners" THEN PartnersFirst ELSE PartnersInit
  /\ IF part = "master data" THEN MasterFirst
     ELSE MasterInit /\ table = "Color"
  /\ IF part = "themes" THEN ThemesFirst ELSE ThemesInit
  /\ IF part = "numbers" THEN NumbersFirst
     ELSE NumbersInit /\ docKind = "SO"
  /\ NoRequests

MCNext ==
  \/ /\ part = "partners" /\ PartnersNext
     /\ UNCHANGED <<part, masterVars, themeVars, numberVars>>
  \/ /\ part = "master data" /\ MasterNext
     /\ UNCHANGED <<part, partnerVars, themeVars, numberVars>>
  \/ /\ part = "themes" /\ ThemesNext
     /\ UNCHANGED <<part, partnerVars, masterVars, numberVars>>
  \/ /\ part = "numbers" /\ NumbersNext
     /\ UNCHANGED <<part, partnerVars, masterVars, themeVars>>

MCSpec == MCInit /\ [][MCNext]_vars

TypeOK ==
  /\ RequestsTyped /\ PartnersTyped /\ MasterTyped /\ ThemesTyped
  /\ NumbersTyped

\* A supplier, and a row of the master data, is activated or deactivated only
\* when a request asks for it, or when one writes back a row it read before
\* another changed it (supplier.service.ts:95, adjust-reason.service.ts:62).
ActivityMovesAsAsked ==
  [][SupplierActivityMovesAsAsked /\ ReferenceActivityMovesAsAsked]_<<supplier, ref, req>>
=============================================================================
