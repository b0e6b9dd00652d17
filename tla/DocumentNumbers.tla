--------------------------- MODULE DocumentNumbers ---------------------------
(***************************************************************************)
(* The numbers of sales orders, purchase orders and transactions: a prefix  *)
(* with the month, and a sequence padded with zeros.  A handler reads the   *)
(* last number of its prefix, in the order of strings, some time before it  *)
(* inserts the document; the unique index of the table is what keeps two    *)
(* from having the same.                                                    *)
(***************************************************************************)
EXTENDS Requests, Sequences

CONSTANTS
  Base,       \* digits are 0..Base-1 (10 in the code)
  MaxNumber,  \* bound: numbers of one prefix
  Months      \* bound: months that pass

ASSUME NumberAssumption ==
  Base \in Nat \ {0, 1} /\ MaxNumber \in Nat /\ Months \in Nat \ {0}

VARIABLES
  docKind,  \* which of the tables
  docs,     \* its documents: the set of their numbers
  month     \* the clock

numberVars == <<docKind, docs, month>>

Kinds == {"SO", "PO", "GR", "GI", "ST", "ADJ"}

\* Digits the sequence is padded to: 5 for sales orders and 4 for the rest in
\* the code, here a short one and a long one.
Width == IF docKind = "SO" THEN 2 ELSE 1

DocNumbers == [month : 1..Months, digits : Seq(0..Base - 1)]

\* A slip: a digit too many.
DigitsPast(n) ==
  LET f[m \in 0..n] == IF m <= Base THEN <<m>>
                       ELSE Append(f[m \div Base], m % Base)
  IN  f[n]

Digits(n) ==
  LET f[m \in 0..n] == IF m < Base THEN <<m>>
                       ELSE Append(f[m \div Base], m % Base)
  IN  f[n]

Padded(s) == [i \in 1..(IF Width > Len(s) THEN Width - Len(s) ELSE 0) |-> 0]
             \o s

\* parseInt of the digits.
Value(s) ==
  LET f[i \in 0..Len(s)] == IF i = 0 THEN 0 ELSE Base * f[i - 1] + s[i]
  IN  f[Len(s)]

\* The order of the column: the first digit that differs, or the shorter.
Before(s, t) ==
  \/ \E i \in 1..Len(s) : /\ i <= Len(t) /\ s[i] < t[i]
                          /\ \A j \in 1..i - 1 : s[j] = t[j]
  \/ Len(s) < Len(t) /\ \A j \in 1..Len(s) : s[j] = t[j]

OfMonth(m) == {d \in docs : d.month = m}

\* findLast...ByPrefix: descending, the first.
LastOf(m) == CHOOSE d \in OfMonth(m) :
               \A e \in OfMonth(m) : ~Before(d.digits, e.digits)

\* A slip: as many as there are, and one more.
CountedNumber(m) ==
  [month |-> m, digits |-> Padded(Digits(Cardinality(OfMonth(m)) + 1))]

NextNumber(m) ==
  [month |-> m,
   digits |-> Padded(Digits(IF OfMonth(m) = {} THEN 1
                            ELSE Value(LastOf(m).digits) + 1))]

GenerateNumber(c) ==
  LET number == NextNumber(month) IN
  /\ Value(number.digits) <= MaxNumber
  /\ Begin(c, Doing("insertDocument", None, number))
  /\ UNCHANGED numberVars

\* A sales order looks for its number once more; for all of them the insert
\* fails when it is taken.
InsertDocument(c) ==
  LET r == req[c] IN
  /\ r.op = "insertDocument"
  /\ docs' = docs \cup {r.row}
  /\ Answer(c)
  /\ UNCHANGED <<docKind, month>>

DeleteDocument(c) ==
  /\ \E d \in docs : Begin(c, Doing("deleteDocument", None, d))
  /\ UNCHANGED numberVars

RemoveDocument(c) ==
  LET r == req[c] IN
  /\ r.op = "deleteDocument" /\ r.row \in docs
  /\ docs' = docs \ {r.row}
  /\ Answer(c)
  /\ UNCHANGED <<docKind, month>>

NextMonth ==
  /\ month < Months
  /\ month' = month + 1
  /\ UNCHANGED <<docKind, docs, reqVars>>

AbandonDocument(c) == Abandon(c) /\ UNCHANGED numberVars

NumbersNext ==
  \/ \E c \in Clients :
       \/ Ready(c) /\ (GenerateNumber(c) \/ DeleteDocument(c))
       \/ InsertDocument(c) \/ RemoveDocument(c) \/ AbandonDocument(c)
  \/ NextMonth

NumbersInit ==
  /\ docKind \in Kinds
  /\ docs = {}
  /\ month = 1

-----------------------------------------------------------------------------
(* Properties.                                                             *)

\* Every number has its month and its digits.
NumbersTyped ==
  /\ docKind \in Kinds /\ month \in 1..Months
  /\ \A d \in docs : d.month \in 1..month
                     /\ \A i \in 1..Len(d.digits) : d.digits[i] \in 0..Base - 1

\* The numbers of a month that has had more documents than its digits count.
Exhausted(m) == \E d \in OfMonth(m) : Len(d.digits) > Width

\* A document is refused for its number only when another request overtook
\* it, or in a month whose numbers have outgrown their digits ("Uses
\* findLastPOByPrefix to avoid race condition").
RefusedOnlyWhenOvertaken ==
  [][\A c \in Clients :
       req[c].op = "insertDocument" /\ Answers(c) /\ req[c].row \in docs
         => c \in overtaken \/ Exhausted(req[c].row.month)]_<<req, docs>>
=============================================================================
