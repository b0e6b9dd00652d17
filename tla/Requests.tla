------------------------------ MODULE Requests ------------------------------
(***************************************************************************)
(* How a handler of the smaller modules runs: it reads, and rejects or goes *)
(* on; it writes, in one or several steps, and answers.  The requests of    *)
(* several clients interleave between those steps, and the process may die, *)
(* or the database refuse a write, before any of them.  Modules of tables   *)
(* that no transaction spans extend this one.                               *)
(***************************************************************************)
EXTENDS Integers, FiniteSets

CONSTANTS
  Clients,      \* requests being served at once
  MaxRequests,  \* bound: requests of one behaviour
  None,         \* NULL in a column
  Absent        \* a field the body leaves out

\* NULL is no id, and a boolean left out is neither TRUE nor FALSE.
ASSUME RequestAssumption ==
  MaxRequests \in Nat /\ None \notin Nat /\ Absent \notin BOOLEAN

VARIABLES
  req,        \* client -> the request it waits for
  overtaken,  \* history: the clients whose open request has read rows that
              \* another client has written since
  left        \* requests still to come (bound)

reqVars == <<req, overtaken, left>>

Idle == [op |-> "idle", id |-> None, row |-> None]

\* A request: what it does next, the id of the row it is about, and what it
\* has read or built so far.
Doing(op, id, row) == [op |-> op, id |-> id, row |-> row]

Ready(c) == req[c] = Idle /\ left > 0

\* The handler has read and checked what r holds.
Begin(c, r) ==
  /\ req' = [req EXCEPT ![c] = r]
  /\ left' = left - 1
  /\ UNCHANGED overtaken

Open == {c \in Clients : req[c] # Idle}

\* A write that is not the handler's last.
Proceed(c, r) ==
  /\ req' = [req EXCEPT ![c] = r]
  /\ overtaken' = overtaken \cup (Open \ {c})
  /\ UNCHANGED left

\* The last write.
Answer(c) ==
  /\ req' = [req EXCEPT ![c] = Idle]
  /\ overtaken' = (overtaken \cup Open) \ {c}
  /\ UNCHANGED left

\* A write that is refused, or a process that dies: the rest is never done.
Abandon(c) ==
  /\ req[c] # Idle
  /\ req' = [req EXCEPT ![c] = Idle]
  /\ overtaken' = overtaken \ {c}
  /\ UNCHANGED left

Answers(c) == req[c] # Idle /\ req'[c] = Idle

NoRequests ==
  /\ req = [c \in Clients |-> Idle]
  /\ overtaken = {}
  /\ left = MaxRequests

RequestsTyped ==
  /\ \A c \in Clients : DOMAIN req[c] = DOMAIN Idle
  /\ overtaken \subseteq Clients
  /\ left \in 0..MaxRequests

-----------------------------------------------------------------------------
(* Tables: id -> row.  Ids come from a sequence, so none is given twice.   *)

Live(t) == {x \in DOMAIN t : t[x].st = "live"}
Free(t) == {x \in DOMAIN t : t[x].st = "free"}

\* The table with a new row, or with one row gone.
Inserted(t, row) ==
  LET x == CHOOSE y \in Free(t) : \A z \in Free(t) : y <= z
  IN  [t EXCEPT ![x] = row]
Deleted(t, x) == [t EXCEPT ![x].st = "gone"]

\* No other row has the code: what a unique index checks.
CodeFree(t, code, x) == \A y \in Live(t) \ {x} : t[y].code # code

Given(value, old) == IF value = Absent THEN old ELSE value
=============================================================================
