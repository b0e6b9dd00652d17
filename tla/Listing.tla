------------------------------- MODULE Listing -------------------------------
(***************************************************************************)
(* The lists: a client walks one page by page, or by cursor, while others   *)
(* write the rows.  A page is two statements of one Promise.all, the rows   *)
(* and their number, which the database answers in either order, each from  *)
(* what is committed then; a page by cursor is one statement.  Where the    *)
(* sort leaves rows tied, each statement may order them as it likes.        *)
(***************************************************************************)
EXTENDS Integers, SequencesExt

CONSTANTS
  RowIds,      \* the ids of a table, 1..n; the unique number grows with them
  Keys,        \* values of the column the list sorts by first
  MaxLimit,    \* the limit a page is cut to (100 in the code)
  MaxWrites,   \* bound: writes during a walk
  NoValue      \* a parameter left out, a part not read yet

ASSUME ListingAssumption ==
  /\ IsFiniteSet(RowIds) /\ RowIds = 1..Cardinality(RowIds)
  /\ Keys \subseteq Nat
  /\ MaxLimit \in Nat \ {0} /\ MaxWrites \in Nat
  /\ NoValue \notin Int /\ NoValue \notin [key: Nat, num: Nat]

VARIABLES
  row,       \* id -> [st, key, match]: match says whether the filters ask for it
  walk,      \* the walk in progress
  touched,   \* history: the rows written since it began
  writes     \* writes so far (bound)

listVars == <<row, walk, touched, writes>>

\* The lists, by the way their handlers build the query: sales orders (also
\* suppliers and customers), inventory transactions, items, models and SKUs,
\* categories, purchase orders by skip and take, and the lists by cursor.
Built == {"orders", "transactions", "items"}
ByPage == Built \cup {"models", "categories", "purchases"}
Lists == ByPage \cup {"by cursor"}

DefaultSort(list) ==
  CASE list = "orders" -> <<"-key", "-num">>
    [] list \in {"transactions", "categories", "purchases"} -> <<"-key">>
    [] list = "items" -> <<"num">>
    [] list = "models" -> <<"-num">>
    [] OTHER -> <<"key", "num">>

\* What the query string may ask for: "note" is a column that does not tell
\* the rows apart and that no list lets one sort by.
SortsOf(list) ==
  IF list \in {"orders", "items", "models", "categories"}
  THEN {NoValue, <<"key">>, <<"note">>} ELSE {NoValue}
LimitsOf(list) ==
  CASE list = "by cursor" -> 1..MaxLimit
    [] list \in {"orders", "items", "models"} -> 1..(MaxLimit + 1) \cup {NoValue}
    [] OTHER -> 1..(MaxLimit + 1)

Sortable(f) == f \in {"key", "num"}
OrderBy(list, sort) ==
  CASE sort = NoValue -> DefaultSort(list)
    [] sort # NoValue /\ list \in Built -> SelectSeq(sort, Sortable)
    [] OTHER -> sort

LiveRows == {x \in RowIds : row[x].st = "live"}
Matching == {x \in LiveRows : row[x].match}

Column(x, f) ==
  CASE f = "key" -> row[x].key  [] f = "-key" -> -row[x].key
    [] f = "num" -> x           [] f = "-num" -> -x
    [] OTHER -> 0

Precedes(x, y, by) ==
  \E i \in DOMAIN by :
    /\ Column(x, by[i]) < Column(y, by[i])
    /\ \A j \in 1..(i - 1) : Column(x, by[j]) = Column(y, by[j])

\* The orders in which a statement may return the rows S.
Sorted(S, by) ==
  {q \in SetToSeqs(S) :
     \A i, j \in DOMAIN q : i < j => ~Precedes(q[j], q[i], by)}

-----------------------------------------------------------------------------
NoWalk == [at |-> "idle", list |-> NoValue, by |-> <<>>, limit |-> NoValue,
           page |-> 1, cursor |-> NoValue, rows |-> NoValue, total |-> NoValue,
           start |-> {}, seen |-> [x \in RowIds |-> 0]]

StartWalk ==
  /\ walk.at = "idle"
  /\ \E list \in Lists : \E sort \in SortsOf(list), limit \in LimitsOf(list) :
       walk' = [NoWalk EXCEPT !.at = "page", !.list = list, !.limit = limit,
                              !.by = OrderBy(list, sort), !.start = Matching]
  /\ UNCHANGED <<row, touched, writes>>

\* The limit of the statement: cut by the query builder, not by the others.
Take ==
  IF walk.list \in Built /\ walk.limit # NoValue /\ walk.limit > MaxLimit
  THEN MaxLimit ELSE walk.limit

SkipOf(page, take) == (page - 1) * take

Upto(q, n) == SubSeq(q, 1, IF n < Len(q) THEN n ELSE Len(q))

PageOf(q) ==
  LET skip == SkipOf(walk.page, Take)
  IN  IF walk.limit = NoValue THEN q
      ELSE SubSeq(Upto(q, skip + Take), skip + 1, Len(Upto(q, skip + Take)))

ReadRows ==
  /\ walk.at = "page" /\ walk.list \in ByPage /\ walk.rows = NoValue
  /\ \E q \in Sorted(Matching, walk.by) : walk' = [walk EXCEPT !.rows = PageOf(q)]
  /\ UNCHANGED <<row, touched, writes>>

CountRows ==
  /\ walk.at = "page" /\ walk.list \in ByPage /\ walk.total = NoValue
  /\ walk' = [walk EXCEPT !.total = Cardinality(Matching)]
  /\ UNCHANGED <<row, touched, writes>>

Seen(q) == [x \in RowIds |->
  walk.seen[x] + Cardinality({i \in DOMAIN q : q[i] = x})]

CeilDiv(n, d) == (n + d - 1) \div d

\* hasNextPage, from the limit of the request: without one the rows returned
\* stand for it, and of 0 rows a page there is always another page, unless
\* there are 0 rows in all.  Customers, models and SKUs say
\* nothing of pages then; a purchase order client asks on while pages are full.
HasNextPage ==
  LET limit == IF walk.limit = NoValue THEN Len(walk.rows) ELSE walk.limit
  IN  CASE walk.list = "purchases" -> Len(walk.rows) = limit
        [] walk.list = "models" /\ walk.limit = NoValue -> FALSE
        [] OTHER -> IF limit = 0 THEN walk.total > 0
                    ELSE walk.page < CeilDiv(walk.total, limit)

TurnPage ==
  /\ walk.at = "page" /\ NoValue \notin {walk.rows, walk.total}
  /\ walk' = [walk EXCEPT !.seen = Seen(walk.rows), !.rows = NoValue,
                          !.total = NoValue,
                          !.at = IF HasNextPage THEN "page" ELSE "done",
                          !.page = IF HasNextPage THEN @ + 1 ELSE @]
  /\ UNCHANGED <<row, touched, writes>>

\* A slip: the rows tied with the cursor are forgotten.
AfterKey(c, x) == row[x].key > c.key

\* The rows after the cursor: the first column tells, then the number.
AfterCursor(c, x) ==
  \/ row[x].key > c.key
  \/ row[x].key = c.key /\ x > c.num

\* One statement asks for a row more than the page holds.
ReadByCursor ==
  /\ walk.at = "page" /\ walk.list = "by cursor"
  /\ LET after == {x \in Matching :
                     walk.cursor = NoValue \/ AfterCursor(walk.cursor, x)}
     IN  \E q \in Sorted(after, walk.by) :
           LET data == Upto(q, walk.limit + 1)
               items == Upto(data, walk.limit)
               hasMore == Len(data) > walk.limit
               last == items[Len(items)]
           IN  walk' = [walk EXCEPT
                 !.seen = Seen(items),
                 !.at = IF hasMore THEN "page" ELSE "done",
                 !.cursor = IF hasMore THEN [key |-> row[last].key, num |-> last]
                            ELSE NoValue]
  /\ UNCHANGED <<row, touched, writes>>

-----------------------------------------------------------------------------
(* The writers of the table.                                               *)

Written(x, r) ==
  /\ walk.at = "page" /\ writes < MaxWrites
  /\ row' = [row EXCEPT ![x] = r]
  /\ touched' = touched \cup {x}
  /\ writes' = writes + 1
  /\ UNCHANGED walk

InsertRow ==
  \E x \in RowIds :
    /\ row[x].st = "free" /\ \A y \in RowIds : y < x => row[y].st # "free"
    /\ \E k \in Keys, m \in BOOLEAN :
         Written(x, [st |-> "live", key |-> k, match |-> m])
ChangeRow ==
  \E x \in LiveRows, k \in Keys, m \in BOOLEAN :
    Written(x, [st |-> "live", key |-> k, match |-> m])
DeleteRow == \E x \in LiveRows : Written(x, [row[x] EXCEPT !.st = "gone"])

NoWalkYet == walk = NoWalk /\ touched = {} /\ writes = 0

ListingNext ==
  \/ StartWalk \/ ReadRows \/ CountRows \/ TurnPage \/ ReadByCursor
  \/ InsertRow \/ ChangeRow \/ DeleteRow

ListingTyped ==
  /\ row \in [RowIds -> [st: {"free", "live", "gone"}, key: Keys, match: BOOLEAN]]
  /\ walk.at \in {"idle", "page", "done"}
  /\ walk.seen \in [RowIds -> Nat] /\ walk.start \subseteq RowIds
  /\ touched \subseteq RowIds /\ writes \in 0..MaxWrites

-----------------------------------------------------------------------------
\* What a walk promises.  By cursor, writes do no harm.  By pages they may
\* move rows between pages, so nothing is promised then, nor where the sort
\* leaves matching rows tied, nor where the page is cut shorter than asked.
Dependable ==
  \/ walk.list = "by cursor"
  \/ /\ touched = {}
     /\ walk.limit = NoValue \/ Take = walk.limit
     /\ walk.limit = NoValue \/ \A x, y \in Matching :
          x = y \/ Precedes(x, y, walk.by) \/ Precedes(y, x, walk.by)

\* A walk that ends has returned each row that asked-for filters matched from
\* its start to its end, and that nobody wrote in between, exactly once
\* (query-builder.service.ts buildQuery and buildPaginatedResponse, and the
\* findAll and findAllWithCursor of the query services).
WalksReturnEveryRow ==
  [][walk.at = "page" /\ walk'.at = "done" /\ Dependable
     => \A x \in walk.start \ touched : walk'.seen[x] = 1]_listVars
=============================================================================
