------------------------------ MODULE PairSizing ------------------------------
(***************************************************************************)
(* size_buy_pair (src/core/net_sizing.cpp): how many contracts of two legs *)
(* to buy for the largest margin that the depth and the cash allow.  Net   *)
(* profit is not monotone in the quantity (every fill is rounded), so the  *)
(* search bounds it on intervals and prunes those that cannot win.  The    *)
(* caps of the code keep every amount far below MaxCash, so no charge is   *)
(* refused (arithmetic_error) and the instances keep it so too.            *)
(***************************************************************************)
EXTENDS BuyDepth

CONSTANTS
  Depths,   \* depth a leg may have
  Limits    \* [cap, available, minimum, max_evaluations]

Legs == {1, 2}
None == [none |-> TRUE]

PairConstants ==
  /\ \A depth \in Depths : IsDepth(depth)
  /\ \A limits \in Limits : limits.cap >= Step /\ limits.max_evaluations > 0

VARIABLES
  depth, limits,   \* the call
  cursor,          \* Cursor of each leg: the level it is at and what the ones before cost
  first,           \* first quantity of the current stretch
  stretch,         \* its last quantity, its end and slope_
  intervals,       \* intervals still to be searched, the next one first
  best,            \* best_
  evaluated, pruned, funded,
  status           \* "search" and "interval" while it runs, then SizingStatus

call == <<depth, limits>>
vars == <<call, cursor, first, stretch, intervals, best, evaluated, pruned, funded, status>>

Cap == OnGrid(limits.cap, Step)

-----------------------------------------------------------------------------
(* Cursor. *)

Size(leg, index) == OnGrid(Min2(depth[leg].levels[index].quantity, limits.cap), Step)

\* Levels smaller than the step are passed over.
Seek(leg, c) ==
  LET levels == Len(depth[leg].levels)
      sized  == {i \in c.index..levels : Size(leg, i) > 0}
  IN  [c EXCEPT !.index = IF sized = {} THEN levels + 1
                          ELSE CHOOSE i \in sized : \A j \in sized : i <= j]

Exhausted(leg, c) == c.index > Len(depth[leg].levels)
PriceAt(leg, c) == depth[leg].levels[c.index].price
EndOf(leg, c) == c.quantity + Size(leg, c.index)

Charge(leg, c, quantity) ==
  FillAmounts("buy", quantity, PriceAt(leg, c), depth[leg].fee, c.accumulator)

Pass(leg, c) ==
  LET charge == Charge(leg, c, Size(leg, c.index))
  IN  [index |-> c.index + 1, quantity |-> EndOf(leg, c),
       debit |-> c.debit + charge.change, accumulator |-> charge.accumulator]

Start(leg) == [index |-> 1, quantity |-> 0, debit |-> 0, accumulator |-> 0]

-----------------------------------------------------------------------------
(* evaluate. *)

Reserved(cs, q) ==
  Reservation(q, PriceAt(1, cs[1]), depth[1].fee) + Reservation(q, PriceAt(2, cs[2]), depth[2].fee)

\* What rounding the trade fee up to one unit of cash added.
CeilError(leg, c, q) ==
  LET remainder == ((q - c.quantity) * FeeFactor(PriceAt(leg, c), depth[leg].fee)) % FeeDenominator
  IN  IF remainder = 0 THEN 0 ELSE FeeDenominator - remainder

\* Mutant of Upper: the rounding that a later rebate may give back is forgotten.
UpperNoRounding(margin, rounding, ceilError) == margin + (ceilError \div FeeDenominator)

\* Margin without any rounding, to bound what lies further along a slope.
Upper(margin, rounding, ceilError) == margin + rounding + (ceilError \div FeeDenominator)

Evaluate(cs, q) ==
  LET charge == [leg \in Legs |-> Charge(leg, cs[leg], q - cs[leg].quantity)]
      margin == q * PriceScale - (cs[1].debit + charge[1].change + cs[2].debit + charge[2].change)
  IN  [quantity |-> q, margin |-> margin, reserve |-> Reserved(cs, q),
       upper    |-> Upper(margin, charge[1].accumulator + charge[2].accumulator,
                          CeilError(1, cs[1], q) + CeilError(2, cs[2], q))]

\* best_ after an evaluation.
Improved(old, value) ==
  IF value.margin > limits.minimum /\ (old = None \/ Better(value, old)) THEN value ELSE old

-----------------------------------------------------------------------------
(* run. *)

\* The last quantity of a stretch that the cash is enough for, by bisection.
LastFunded(cs, from, end) ==
  LET bisect[lo \in Nat, hi \in Nat] ==
        LET mid == lo + ((hi - lo + 1) \div 2)
        IN  IF lo >= hi THEN lo
            ELSE IF Reserved(cs, mid * Step) <= limits.available
                 THEN bisect[mid, hi] ELSE bisect[lo, mid - 1]
  IN  IF Reserved(cs, end) <= limits.available THEN end
      ELSE bisect[(from \div Step) - 1, end \div Step] * Step

Slope(cs) ==
  FeeDenominator * (PriceScale - PriceAt(1, cs[1]) - PriceAt(2, cs[2]))
    - (FeeFactor(PriceAt(1, cs[1]), depth[1].fee) + FeeFactor(PriceAt(2, cs[2]), depth[2].fee))

Stop(reason) ==
  /\ status' = reason
  /\ UNCHANGED <<call, cursor, first, stretch, intervals, best, evaluated, pruned, funded>>

Init ==
  /\ depth \in [Legs -> Depths] /\ limits \in Limits
  /\ cursor = [leg \in Legs |-> Start(leg)]
  /\ first = Step /\ stretch = None /\ intervals = <<>> /\ best = None
  /\ evaluated = 0 /\ pruned = 0 /\ funded = FALSE
  /\ status = "start"

Sought == [leg \in Legs |-> Seek(leg, cursor[leg])]
MoreDepth == first <= Cap /\ \A leg \in Legs : ~Exhausted(leg, Sought[leg])

\* A pair that costs its payout before fees is not searched at all.
Begin ==
  /\ status = "start"
  /\ IF ~MoreDepth THEN Stop("no_depth")
     ELSE IF PriceAt(1, Sought[1]) + PriceAt(2, Sought[2]) >= PriceScale THEN Stop("no_positive_margin")
     ELSE Stop("search")

\* The result when nothing is left to search.
Conclusion ==
  IF best # None THEN "optimal" ELSE IF funded THEN "no_positive_margin" ELSE "insufficient_cash"

Conclude ==
  /\ status = "search" /\ ~MoreDepth
  /\ Stop(Conclusion)

\* One stretch, in which both legs stay at one price: its two ends first.
Stretch ==
  LET cs   == Sought
      end  == Min2(Cap, Min2(EndOf(1, cs[1]), EndOf(2, cs[2])))
      last == LastFunded(cs, first, end)
      low  == Evaluate(cs, first)
      high == Evaluate(cs, last)
      needed == IF last = first THEN 1 ELSE 2
  IN  /\ status = "search" /\ MoreDepth
      /\ IF last < first THEN Stop(Conclusion)
         ELSE /\ cursor' = cs /\ funded' = TRUE
              /\ evaluated' = Min2(evaluated + needed, limits.max_evaluations)
              /\ stretch' = [end |-> end, last |-> last, slope |-> Slope(cs)]
              /\ IF evaluated + needed > limits.max_evaluations
                 THEN status' = "search_budget_exceeded" /\ UNCHANGED <<best, intervals>>
                 ELSE /\ status' = "interval"
                      /\ best' = Improved(Improved(best, low), high)
                      /\ intervals' = <<<<low, high>>>>
              /\ UNCHANGED <<call, first, pruned>>

Narrow(low, high) == high.quantity - low.quantity <= Step

\* Nothing inside the interval can be better than what has been found.
Hopeless(low, high) ==
  LET upper == IF stretch.slope >= 0 THEN high.upper ELSE low.upper
      floor == IF best = None THEN limits.minimum ELSE best.margin
  IN  \/ upper < floor
      \/ upper = floor /\ (IF best = None THEN TRUE ELSE low.quantity >= best.quantity)

\* interval, one call of the recursion.
Interval ==
  /\ status = "interval" /\ intervals # <<>>
  /\ LET low  == Head(intervals)[1]
         high == Head(intervals)[2]
         mid  == Evaluate(cursor, low.quantity +
                   (((high.quantity - low.quantity) \div Step) \div 2) * Step)
     IN  \/ /\ Narrow(low, high)
            /\ intervals' = Tail(intervals)
            /\ UNCHANGED <<best, evaluated, pruned, status>>
         \/ /\ ~Narrow(low, high) /\ Hopeless(low, high)
            /\ intervals' = Tail(intervals) /\ pruned' = pruned + 1
            /\ UNCHANGED <<best, evaluated, status>>
         \/ /\ ~Narrow(low, high) /\ ~Hopeless(low, high)
            /\ evaluated = limits.max_evaluations
            /\ status' = "search_budget_exceeded"
            /\ UNCHANGED <<best, evaluated, pruned, intervals>>
         \/ /\ ~Narrow(low, high) /\ ~Hopeless(low, high)
            /\ evaluated < limits.max_evaluations
            /\ evaluated' = evaluated + 1
            /\ best' = Improved(best, mid)
            /\ intervals' = <<<<low, mid>>, <<mid, high>>>> \o Tail(intervals)
            /\ UNCHANGED <<pruned, status>>
  /\ UNCHANGED <<call, cursor, first, stretch, funded>>

\* The stretch is done: on to the next price of the legs that it exhausted.
Advance ==
  /\ status = "interval" /\ intervals = <<>>
  /\ IF stretch.last < stretch.end \/ stretch.end = Cap THEN Stop(Conclusion)
     ELSE /\ first' = stretch.end + Step
          /\ cursor' = [leg \in Legs |->
               IF EndOf(leg, cursor[leg]) = stretch.end THEN Pass(leg, cursor[leg]) ELSE cursor[leg]]
          /\ status' = "search"
          /\ UNCHANGED <<call, stretch, intervals, best, evaluated, pruned, funded>>

Next == Begin \/ Conclude \/ Stretch \/ Interval \/ Advance

Spec == Init /\ [][Next]_vars

-----------------------------------------------------------------------------
(* Properties. *)

Grid == {q \in Step..limits.cap : (q % Step) = 0}
Answers == Candidates(depth, Grid, Step, PriceScale, limits)
Complete == {"optimal", "no_positive_margin", "no_depth", "insufficient_cash"}

\* "Exact on the configured grid": a complete answer is the one that trying every
\* quantity would give, whatever was pruned, and there is a quote when and only
\* when some quantity earns more than the minimum.
ExactOnGrid ==
  status \in Complete =>
    /\ (status = "optimal") = (Answers # {})
    /\ status = "optimal" =>
         [quantity |-> best.quantity, margin |-> best.margin, reserve |-> best.reserve] = BestOf(Answers)
    /\ status = "no_depth" => Offered(depth, Grid, Step) = {}
    /\ status = "insufficient_cash" =>
         Funded(depth, Grid, Step, PriceScale, limits.available) = {}

\* No quantity is evaluated twice: a budget of as many evaluations as there are
\* quantities that can be bought is never exceeded.
BudgetSuffices ==
  status = "search_budget_exceeded" =>
    limits.max_evaluations <
      Cardinality(Funded(depth, Grid, Step, PriceScale, limits.available))
==============================================================================
