-------------------------------- MODULE Screen --------------------------------
(***************************************************************************)
(* A screen of one snapshot (screen in src/cli/market_screen.cpp, over     *)
(* pairs, and in src/cli/basket_screen.cpp, over baskets of three legs):   *)
(* the rows are searched in the order of their ids, out of one budget of   *)
(* evaluations.  A search is what it finds and the evaluations it needs    *)
(* (PairSizing, BasketSizing); levels, prices and the report are left out. *)
(***************************************************************************)
EXTENDS Integers, FiniteSets, FiniteSetsExt, Sequences, Sums

CONSTANTS
  Inputs,   \* inputs of a screen
  Modulus   \* times are unsigned, modulo Modulus

Book == [market : Nat, requested : 0..Modulus - 1, received : 0..Modulus - 1,
         depth : [{"yes", "no"} -> Nat],  \* what can be bought, in steps
         crossed : BOOLEAN]
Fee == [market : Nat, quantum : Nat]
SnapshotRow == [id : Nat, legs : Seq([market : Nat, outcome : {"yes", "no"}]),
                needs : Nat,     \* evaluations of a search without a budget
                verdict : {"optimal", "no_positive_margin", "insufficient_cash"}]  \* and its result

ScreenConstants ==
  /\ Modulus \in Nat \ {0}
  /\ \A i \in Inputs :
       /\ i.basket \in BOOLEAN /\ i.markets \subseteq Nat
       /\ i.rows \subseteq SnapshotRow /\ IsFiniteSet(i.rows)
       /\ i.books \in Seq(Book) /\ i.fees \in Seq(Fee)
       /\ \A r, s \in i.rows : r.id = s.id => r = s
       /\ \A r \in i.rows : Len(r.legs) = IF i.basket THEN 3 ELSE 2
       /\ \A r \in i.rows : \A leg \in DOMAIN r.legs : r.legs[leg].market \in i.markets
       /\ i.as_of \in 0..Modulus - 1 /\ i.max_age \in Nat /\ i.max_skew \in Nat
       /\ i.total_budget \in Nat /\ i.row_budget \in Nat
       /\ i.basket => \A r \in i.rows : r.needs > 0

VARIABLES
  input,
  stage,      \* reading, rows, done or rejected
  report,     \* status and evaluations of each row screened so far
  evaluated,  \* evaluations of all of them
  complete    \* no search was cut short

screenVars == <<input, stage, report, evaluated, complete>>

ScreenInit ==
  /\ input \in Inputs /\ stage = "reading"
  /\ report = <<>> /\ evaluated = 0 /\ complete = TRUE

-----------------------------------------------------------------------------
(* Reading. *)

Apart(entries) == \A i, j \in DOMAIN entries : entries[i].market = entries[j].market => i = j

ValidFee(fee) == fee.market \in input.markets /\ fee.quantum \in {100, 10000}

Timely(book) == book.requested <= book.received /\ book.received <= input.as_of

\* Only baskets refuse a crossed book.
ValidBook(book) == book.market \in input.markets /\ Timely(book) /\ ~(input.basket /\ book.crossed)

ValidInput ==
  /\ input.row_budget > 0 /\ input.total_budget > 0
  /\ Len(input.fees) <= Cardinality(input.markets) /\ Len(input.books) <= Cardinality(input.markets)
  /\ Apart(input.fees) /\ \A i \in DOMAIN input.fees : ValidFee(input.fees[i])
  /\ Apart(input.books) /\ \A i \in DOMAIN input.books : ValidBook(input.books[i])

Read ==
  /\ stage = "reading"
  /\ stage' = IF ValidInput THEN "rows" ELSE "rejected"
  /\ UNCHANGED <<input, report, evaluated, complete>>

-----------------------------------------------------------------------------
(* One row. *)

BooksOf(row) ==
  {input.books[i] : i \in {j \in DOMAIN input.books :
                             \E leg \in DOMAIN row.legs : row.legs[leg].market = input.books[j].market}}
HasBook(row) == \A leg \in DOMAIN row.legs : \E book \in BooksOf(row) : book.market = row.legs[leg].market
HasFee(row) ==
  \A leg \in DOMAIN row.legs : \E i \in DOMAIN input.fees : input.fees[i].market = row.legs[leg].market

Oldest(row) == Min({book.requested : book \in BooksOf(row)})

Newest(row) == Max({book.received : book \in BooksOf(row)})

Minus(a, b) == (a - b) % Modulus

HasDepth(row) ==
  \A leg \in DOMAIN row.legs : \E book \in BooksOf(row) :
    book.market = row.legs[leg].market /\ book.depth[row.legs[leg].outcome] > 0

Exhausted == evaluated = input.total_budget

\* Why a row is not searched, in the order of the checks.
Skipped(row) ==
  IF ~HasBook(row) THEN "missing_book"
  ELSE IF Minus(input.as_of, Oldest(row)) > input.max_age THEN "stale_book"
  ELSE IF Minus(Newest(row), Oldest(row)) > input.max_skew THEN "nonsynchronous_books"
  ELSE IF ~HasFee(row) THEN "missing_fee"
  ELSE IF input.basket /\ ~HasDepth(row) THEN "no_depth"
  ELSE IF Exhausted THEN "screening_budget_exceeded" ELSE "none"

Bound == Min({input.row_budget, input.total_budget - evaluated})

\* A pair without depth is found out by the search, before its first evaluation.
Search(row) ==
  IF ~HasDepth(row) THEN [status |-> "no_depth", evaluated |-> 0]
  ELSE IF row.needs > Bound THEN [status |-> "search_budget_exceeded", evaluated |-> Bound]
  ELSE [status |-> row.verdict, evaluated |-> row.needs]

Outcome(row) ==
  IF Skipped(row) = "none" THEN Search(row) ELSE [status |-> Skipped(row), evaluated |-> 0]

\* Mutant of CutShort: only the rows that are not searched count.
CutShortBefore(status) == status = "screening_budget_exceeded"

CutShort(status) == status \in {"screening_budget_exceeded", "search_budget_exceeded"}

Waiting == input.rows \ DOMAIN report

ScreenRow ==
  /\ stage = "rows"
  /\ \E row \in Waiting :
       /\ \A other \in Waiting : row.id <= other.id
       /\ report' = [r \in DOMAIN report \cup {row} |-> IF r = row THEN Outcome(row) ELSE report[r]]
       /\ evaluated' = evaluated + Outcome(row).evaluated
       /\ complete' = (complete /\ ~CutShort(Outcome(row).status))
  /\ UNCHANGED <<input, stage>>

Finish == stage = "rows" /\ Waiting = {} /\ stage' = "done" /\ UNCHANGED <<input, report, evaluated, complete>>

ScreenNext == Read \/ ScreenRow \/ Finish

ScreenSpec == ScreenInit /\ [][ScreenNext]_screenVars

-----------------------------------------------------------------------------
(* Properties. *)

\* A book is as of some instant between its request and its receipt.
Instants(book) == book.requested..book.received

\* At whatever instants its books were taken, they are of the screen's past, not
\* too old, and not too far apart.
Synchronous(row) ==
  /\ HasBook(row)
  /\ \A book, other \in BooksOf(row) : \A s \in Instants(book), t \in Instants(other) :
       /\ s <= input.as_of /\ input.as_of - s <= input.max_age
       /\ s - t <= input.max_skew

\* A row gets past the checks of its times if and only if its books are synchronous
\* whenever they were taken: request and receipt are compared the right way round,
\* and no difference of unsigned times wraps.
OnlySynchronous ==
  \A row \in DOMAIN report :
    report[row].status \notin {"missing_book", "stale_book", "nonsynchronous_books"} <=> Synchronous(row)

Searchable(row) == Synchronous(row) /\ HasFee(row) /\ HasDepth(row)

\* In a complete screen no row shows that others were searched before it: each is
\* reported as by a search of its own without any budget.
CompleteIsStandalone ==
  stage = "done" /\ complete =>
    \A row \in input.rows :
      IF Searchable(row) THEN report[row] = [status |-> row.verdict, evaluated |-> row.needs]
      ELSE report[row].evaluated = 0 /\ ~CutShort(report[row].status)

Evaluations(rows) == SumOf([row \in rows |-> report[row].evaluated])

\* All rows together stay within the budget, and the total is theirs.
BudgetShared == evaluated <= input.total_budget /\ evaluated = Evaluations(DOMAIN report)

Needs == SumOf([row \in {r \in input.rows : Searchable(r)} |-> row.needs])

\* A screen is called incomplete only when the budgets are too small; a screen of
\* pairs also when they are used up exactly, since a pair without depth is then not
\* looked at any more.
IncompleteOnlyIfShort ==
  stage = "done" /\ ~complete =>
    \/ \E row \in input.rows : Searchable(row) /\ row.needs > input.row_budget
    \/ Needs > input.total_budget
    \/ ~input.basket /\ Needs = input.total_budget
==============================================================================
