------------------------------- MODULE BuyDepth -------------------------------
(***************************************************************************)
(* Depth to buy from, and what the searches of src/core/net_sizing.cpp and *)
(* src/core/basket_sizing.cpp must agree with: the cost of a quantity from *)
(* the first level down, with one fill per level, and the best quantity of *)
(* a grid by trying all of them.                                           *)
(***************************************************************************)
EXTENDS ExecutionCost, SequencesExt

\* Levels to buy from, cheapest first, and the fee policy of the market.
IsDepth(depth) ==
  /\ depth.fee \in Fees
  /\ \A i \in 1..Len(depth.levels) :
       /\ depth.levels[i].price \in Price /\ depth.levels[i].quantity \in Nat
       /\ i > 1 => depth.levels[i - 1].price < depth.levels[i].price

\* A quantity on a level that is bought in multiples of a step.
OnGrid(quantity, step) == (quantity \div step) * step

\* Buys from one more level what is still missing.
Buy(paid, level, fee, step) ==
  LET quantity == Min2(paid.missing, OnGrid(level.quantity, step))
      fill     == FillAmounts("buy", quantity, level.price, fee, paid.accumulator)
  IN  IF quantity = 0 THEN paid
      ELSE [missing |-> paid.missing - quantity, debit |-> paid.debit + fill.change,
            accumulator |-> fill.accumulator, limit |-> level.price]

\* Before the first level.
Unpaid(quantity) == [missing |-> quantity, debit |-> 0, accumulator |-> 0, limit |-> 0]

\* What is paid for a quantity, and the price of the last level it needs.
Paid(depth, quantity, step) ==
  LET paid[i \in 0..Len(depth.levels)] ==
        IF i = 0 THEN Unpaid(quantity) ELSE Buy(paid[i - 1], depth.levels[i], depth.fee, step)
  IN  paid[Len(depth.levels)]

\* The sum of a sequence of numbers.
TotalOf(terms) ==
  LET sum[i \in 0..Len(terms)] == IF i = 0 THEN 0 ELSE sum[i - 1] + terms[i]
  IN  sum[Len(terms)]

\* A quantity of every leg against a payout per contract.
Priced(legs, quantity, step, payout) ==
  LET paid == [i \in 1..Len(legs) |-> Paid(legs[i], quantity, step)]
  IN  [quantity |-> quantity,
       margin   |-> quantity * payout - TotalOf([i \in 1..Len(legs) |-> paid[i].debit]),
       reserve  |-> TotalOf([i \in 1..Len(legs) |->
                               Reservation(quantity, paid[i].limit, legs[i].fee)])]

\* More margin, then less cash reserved, then fewer contracts.
Better(a, b) ==
  \/ a.margin > b.margin
  \/ a.margin = b.margin /\ a.reserve < b.reserve
  \/ a.margin = b.margin /\ a.reserve = b.reserve /\ a.quantity < b.quantity

\* The quantities of a grid that all legs have, and those the cash is enough for.
Offered(legs, grid, step) ==
  {q \in grid : \A i \in 1..Len(legs) : Paid(legs[i], q, step).missing = 0}

Funded(legs, grid, step, payout, available) ==
  {q \in Offered(legs, grid, step) : Priced(legs, q, step, payout).reserve <= available}

\* What an exhaustive search would answer.
Candidates(legs, grid, step, payout, limits) ==
  {v \in {Priced(legs, q, step, payout) : q \in Funded(legs, grid, step, payout, limits.available)} :
     v.margin > limits.minimum}

BestOf(candidates) ==
  CHOOSE v \in candidates : \A w \in candidates : w = v \/ Better(v, w)
==============================================================================
