----------------------------- MODULE BasketSizing -----------------------------
(***************************************************************************)
(* size_buy_basket (src/core/basket_sizing.cpp): every whole number of     *)
(* contracts of three legs in turn, with a cursor per leg that remembers   *)
(* what the levels already used up have cost, until the depth, the cash or *)
(* the budget ends.  Two of the three legs pay, so the floor is two        *)
(* contracts.  As in PairSizing no charge is ever refused.                 *)
(***************************************************************************)
EXTENDS BuyDepth

CONSTANTS
  Whole,    \* a whole contract, in units of quantity
  Depths,   \* depth a leg may have
  Limits    \* [cap, available, minimum, max_evaluations]

Legs == {1, 2, 3}
None == [none |-> TRUE]
Payout == 2 * PriceScale

BasketConstants ==
  /\ Step = 1 /\ Whole \in Nat \ {0}
  /\ \A depth \in Depths :
       IsDepth(depth) /\ \A i \in 1..Len(depth.levels) : depth.levels[i].quantity > 0
  /\ \A limits \in Limits :
       limits.cap >= Whole /\ (limits.cap % Whole) = 0 /\ limits.max_evaluations > 0

VARIABLES
  depth, limits,   \* the call
  cursor,          \* CostCursor of each leg
  quantity,        \* q
  best, evaluated, funded,
  diagnostic,      \* one_contract_diagnostic
  status           \* "search" while it runs, then SizingStatus

call == <<depth, limits>>
vars == <<call, cursor, quantity, best, evaluated, funded, diagnostic, status>>

-----------------------------------------------------------------------------
(* CostCursor::at. *)

Charge(leg, c, q) ==
  FillAmounts("buy", q, depth[leg].levels[c.index].price, depth[leg].fee, c.accumulator)

\* Levels that a quantity uses up are charged once and for all.
At(leg, q) ==
  LET move[c \in Nat] ==   \* the cursor at level c
        IF c = cursor[leg].index THEN cursor[leg]
        ELSE LET before == move[c - 1]
                 level  == depth[leg].levels[c - 1]
                 charge == Charge(leg, before, level.quantity)
             IN  [index |-> c, quantity |-> before.quantity + level.quantity,
                  debit |-> before.debit + charge.change, accumulator |-> charge.accumulator]
      stops == {i \in cursor[leg].index..Len(depth[leg].levels) :
                  depth[leg].levels[i].quantity >= q - move[i].quantity}
  IN  move[CHOOSE i \in stops : \A j \in stops : i <= j]

\* What a quantity costs on a leg whose cursor stands on its last level.
LegDebit(leg, c, q) == c.debit + Charge(leg, c, q - c.quantity).change

Sum3(term(_)) == term(1) + term(2) + term(3)

Value(cs, q) ==
  [quantity |-> q,
   margin   |-> q * Payout - Sum3(LAMBDA leg : LegDebit(leg, cs[leg], q)),
   reserve  |-> Sum3(LAMBDA leg :
                  Reservation(q, depth[leg].levels[cs[leg].index].price, depth[leg].fee))]

-----------------------------------------------------------------------------
(* size_buy_basket. *)

\* Contracts that all legs have, no more than the cap.
Depth(leg) ==
  FoldLeft(LAMBDA total, level : Min2(limits.cap, total + Min2(level.quantity, limits.cap)),
           0, depth[leg].levels)
Available == Min2(limits.cap, Min2(Depth(1), Min2(Depth(2), Depth(3))))

Init ==
  /\ depth \in [Legs -> Depths] /\ limits \in Limits
  /\ cursor = [leg \in Legs |-> [index |-> 1, quantity |-> 0, debit |-> 0, accumulator |-> 0]]
  /\ quantity = Whole /\ best = None /\ evaluated = 0 /\ funded = FALSE /\ diagnostic = None
  /\ status = "search"

Conclusion ==
  IF best # None THEN "optimal"
  ELSE IF Available < Whole THEN "no_depth"
  ELSE IF funded THEN "no_positive_margin" ELSE "insufficient_cash"

Stop(reason) ==
  /\ status' = reason
  /\ UNCHANGED <<call, cursor, quantity, best, evaluated, funded, diagnostic>>

Finish ==
  /\ status = "search" /\ quantity > Available
  /\ Stop(Conclusion)

OutOfBudget ==
  /\ status = "search" /\ quantity <= Available
  /\ evaluated = limits.max_evaluations
  /\ Stop("search_budget_exceeded")

Enough(value) == value.reserve <= limits.available

Improves(value) ==
  value.margin > limits.minimum /\ (IF best = None THEN TRUE ELSE Better(value, best))

Diagnosed(value) == IF quantity = Whole THEN value ELSE diagnostic

\* One quantity.  Larger ones reserve more: the first that is too dear ends the search.
Try ==
  LET cs    == [leg \in Legs |-> At(leg, quantity)]
      value == Value(cs, quantity)
  IN  /\ status = "search" /\ quantity <= Available
      /\ evaluated < limits.max_evaluations
      /\ evaluated' = evaluated + 1
      /\ cursor' = cs
      /\ diagnostic' = Diagnosed(value)
      /\ IF Enough(value)
         THEN /\ funded' = TRUE
              /\ best' = IF Improves(value) THEN value ELSE best
              /\ quantity' = quantity + Whole
              /\ UNCHANGED status
         ELSE /\ status' = Conclusion
              /\ UNCHANGED <<funded, best, quantity>>
      /\ UNCHANGED call

Next == Finish \/ OutOfBudget \/ Try

Spec == Init /\ [][Next]_vars

-----------------------------------------------------------------------------
(* Properties. *)

Grid == {q \in Whole..limits.cap : (q % Whole) = 0}
Answers == Candidates(depth, Grid, 1, Payout, limits)
Complete == {"optimal", "no_positive_margin", "no_depth", "insufficient_cash"}

\* A cursor that is moved on from quantity to quantity prices each of them as if
\* it were bought alone, one fill per level: the answer is that of trying every
\* quantity from scratch, and stopping at the first one that is too dear misses none.
BasketIsExact ==
  status \in Complete =>
    /\ (status = "optimal") = (Answers # {})
    /\ status = "optimal" => best = BestOf(Answers)
    /\ (status = "no_depth") = (Offered(depth, Grid, 1) = {})
    /\ status = "insufficient_cash" => Funded(depth, Grid, 1, Payout, limits.available) = {}

\* The diagnostic of one contract is priced whenever there is depth for it, be
\* there cash, margin and budget for more or not.
DiagnosticIsOneContract ==
  status # "search" =>
    diagnostic = IF Whole \in Offered(depth, Grid, 1) THEN Priced(depth, Whole, 1, Payout) ELSE None
==============================================================================
