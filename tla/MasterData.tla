----------------------------- MODULE MasterData -----------------------------
(***************************************************************************)
(* The tables items, SKUs and adjustments choose from: item types and       *)
(* categories, materials, genders, sizes, colors and adjustment reasons.    *)
(* They have the same operations, and differ in what each checks, in which  *)
(* columns it writes back, and in what the database does with the rows that *)
(* name a deleted one.  A behaviour is about one of the tables: they share  *)
(* nothing but the items.                                                   *)
(***************************************************************************)
EXTENDS Requests

CONSTANTS
  RefIds,    \* ids the sequence of the table can still give
  RefCodes,
  Users      \* rows of other tables: each may name one row of this one

ASSUME MasterAssumption == RefIds \subseteq Nat /\ RefCodes # {}

VARIABLES
  table,   \* which of the tables
  ref,     \* its rows: id -> row
  names    \* user -> the id of the row it names, or None (also if there is
           \* no such user)

masterVars == <<table, ref, names>>

Tables == {"ItemType", "ItemCategory", "Material", "Gender", "Size", "Color",
           "AdjustReason"}

RefRow == [st : {"free", "live", "gone"}, code : RefCodes, active : BOOLEAN]

CreateRefDto == [code : RefCodes]
UpdateRefDto == [code : RefCodes \cup {Absent}]

-----------------------------------------------------------------------------
(* What the requests read and check.                                       *)

NewRef(dto) == [st |-> "live", code |-> dto.code, active |-> TRUE]

\* With a look-up of the code first, or leaving it to the unique index.
CheckedCreate(c) ==
  \E dto \in CreateRefDto :
    /\ CodeFree(ref, dto.code, None)
    /\ Begin(c, Doing("insertRef", None, NewRef(dto)))

UncheckedCreate(c) ==
  \E dto \in CreateRefDto : Begin(c, Doing("insertRef", None, NewRef(dto)))

RefPatched(row, dto) == [row EXCEPT !.code = Given(dto.code, @)]

CheckedUpdate(c) ==
  \E x \in Live(ref), dto \in UpdateRefDto :
    /\ dto.code # Absent => CodeFree(ref, dto.code, x)
    /\ Begin(c, Doing("saveRef", x, RefPatched(ref[x], dto)))

\* The code is not among what can be updated: the row is written as read.
DetailsUpdate(c) ==
  \E x \in Live(ref) : Begin(c, Doing("saveRef", x, ref[x]))

\* Only the columns the body gives are written.
ColumnsUpdate(c) ==
  \E x \in Live(ref), dto \in UpdateRefDto :
    Begin(c, Doing("saveCode", x, Given(dto.code, None)))

\* isActive alone, or the whole row with it.
SetActiveColumn(c) ==
  \E x \in Live(ref), active \in BOOLEAN :
    Begin(c, Doing("setActive", x, active))

SetActiveRow(c) ==
  \E x \in Live(ref), active \in BOOLEAN :
    Begin(c, Doing("setActiveRow", x, [ref[x] EXCEPT !.active = active]))

RemoveRef(c) == \E x \in Live(ref) : Begin(c, Doing("deleteRef", x, None))

\* Users that name row x.
Naming(x) == {u \in Users : names[u] = x}

\* A slip: a material is deleted whatever uses it.
RemoveInUse(c) == RemoveRef(c)

\* isUsedByItems counts the items that name the material.
RemoveUnused(c) ==
  \E x \in Live(ref) :
    /\ Naming(x) = {}
    /\ Begin(c, Doing("deleteRef", x, None))

ItemTypeService(c) ==
  \/ CheckedCreate(c) \/ CheckedUpdate(c) \/ SetActiveColumn(c) \/ RemoveRef(c)

ItemCategoryService(c) ==
  \/ CheckedCreate(c) \/ DetailsUpdate(c) \/ SetActiveRow(c) \/ RemoveRef(c)

GenderService(c) ==
  \/ CheckedCreate(c) \/ CheckedUpdate(c) \/ SetActiveColumn(c) \/ RemoveRef(c)

\* A created or updated material, or size, is never stored: the entity writes
\* a column status, which its table does not have, and Prisma refuses it.
MaterialService(c) == SetActiveColumn(c) \/ RemoveUnused(c)

SizeService(c) == SetActiveColumn(c) \/ RemoveRef(c)

ColorsService(c) ==
  \/ UncheckedCreate(c) \/ ColumnsUpdate(c) \/ SetActiveColumn(c)
  \/ RemoveRef(c)

AdjustReasonService(c) ==
  \/ CheckedCreate(c) \/ DetailsUpdate(c) \/ SetActiveRow(c) \/ RemoveRef(c)

-----------------------------------------------------------------------------
(* The writes.                                                             *)

InsertRef(c) ==
  LET r == req[c] IN
  /\ r.op = "insertRef"
  /\ CodeFree(ref, r.row.code, None) /\ Free(ref) # {}
  /\ ref' = Inserted(ref, r.row)
  /\ UNCHANGED names

\* Every column as the entity has it.
SaveRefRow(c) ==
  LET r == req[c] IN
  /\ r.op \in {"saveRef", "setActiveRow"} /\ r.id \in Live(ref)
  /\ CodeFree(ref, r.row.code, r.id)
  /\ ref' = [ref EXCEPT ![r.id] = r.row]
  /\ UNCHANGED names

SaveRefColumns(c) ==
  LET r == req[c] IN
  /\ r.op \in {"setActive", "saveCode"} /\ r.id \in Live(ref)
  /\ IF r.op = "setActive"
     THEN ref' = [ref EXCEPT ![r.id].active = r.row]
     ELSE /\ r.row # None => CodeFree(ref, r.row, r.id)
          /\ ref' = [ref EXCEPT ![r.id].code = IF r.row = None THEN @
                                               ELSE r.row]
  /\ UNCHANGED names

\* A row that others must name stays (RESTRICT); one that they may name goes,
\* and they name none from then on (SET NULL).
DeleteRef(c) ==
  LET r == req[c] IN
  /\ r.op = "deleteRef" /\ r.id \in Live(ref)
  /\ table \in {"ItemType", "ItemCategory", "Color"} => Naming(r.id) = {}
  /\ ref' = Deleted(ref, r.id)
  /\ names' = [u \in Users |-> IF names[u] = r.id THEN None ELSE names[u]]

\* An item, a SKU or an adjustment is stored with the row it names (its foreign
\* key is checked), given another one or none by an update or by a save of the
\* whole row as it was read, or deleted.
NameRef ==
  \E u \in Users, x \in Live(ref) \cup {None} :
    /\ names[u] # x
    /\ names' = [names EXCEPT ![u] = x]
    /\ overtaken' = overtaken \cup Open
    /\ UNCHANGED <<table, ref, req, left>>

MasterRequest(c) ==
  /\ Ready(c)
  /\ \/ table = "ItemType" /\ ItemTypeService(c)
     \/ table = "ItemCategory" /\ ItemCategoryService(c)
     \/ table = "Material" /\ MaterialService(c)
     \/ table = "Gender" /\ GenderService(c)
     \/ table = "Size" /\ SizeService(c)
     \/ table = "Color" /\ ColorsService(c)
     \/ table = "AdjustReason" /\ AdjustReasonService(c)
  /\ UNCHANGED masterVars

MasterSave(c) ==
  /\ req[c] # Idle
  /\ InsertRef(c) \/ SaveRefRow(c) \/ SaveRefColumns(c) \/ DeleteRef(c)
  /\ Answer(c)
  /\ UNCHANGED table

AbandonMaster(c) == Abandon(c) /\ UNCHANGED masterVars

MasterNext ==
  \/ \E c \in Clients : MasterRequest(c) \/ MasterSave(c) \/ AbandonMaster(c)
  \/ NameRef

NoRef == [st |-> "free", code |-> CHOOSE x \in RefCodes : TRUE,
          active |-> TRUE]

MasterInit ==
  /\ table \in Tables
  /\ ref = [x \in RefIds |-> NoRef]
  /\ names = [u \in Users |-> None]

-----------------------------------------------------------------------------
(* Properties.                                                             *)

\* Every row is made of the values its columns can hold, and what others name
\* is there.
MasterTyped ==
  /\ table \in Tables
  /\ ref \in [RefIds -> RefRow]
  /\ names \in [Users -> RefIds \cup {None}]

\* A row is activated or deactivated only as asked, or by an update that read
\* it before another request wrote it; those of tables whose updates write
\* the given columns alone, never.
ReferenceActivityMovesAsAsked ==
  \A x \in Live(ref) :
    ref'[x].active # ref[x].active
      => \E c \in Clients :
           /\ Answers(c) /\ req[c].id = x
           /\ \/ req[c].op \in {"setActive", "setActiveRow"}
              \/ c \in overtaken /\ table # "Color"

\* A material that an item names is deleted only by a request that another one
\* overtook after it had counted the items: the foreign key (SET NULL) would
\* let any deletion pass, and isUsedByItems runs before it.  Nothing of the
\* kind guards the reason of an adjustment.
MaterialsInUseStay ==
  [][\A x \in Live(ref) :
       table = "Material" /\ Naming(x) # {} /\ ref'[x].st = "gone"
         => \E c \in overtaken : Answers(c) /\ req[c].id = x]_<<ref, req>>
=============================================================================
