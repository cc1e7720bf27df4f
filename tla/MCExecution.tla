----------------------------- MODULE MCExecution -----------------------------
(* The execution studies: the two-leg simulation with a lifecycle policy     *)
(* (ExecutionLifecycle) and without (ImmediateStudy), and the study of       *)
(* three-leg baskets (BasketExecution).                                      *)
EXTENDS ExecutionLifecycle

VARIABLES
  study,
  \* ImmediateStudy
  used, time, frames, stage, book, generation, opened, last_update, deciding,
  tries, pending, consumed, available, spent, failed,
  \* BasketExecution
  connected, markets, scenario, attempt, status

-----------------------------------------------------------------------------
(* With a lifecycle: two constraints over three markets, the middle one in both. *)

CONSTANTS c1, c2, m1, m2, m3

MCLegMarket == (c1 :> <<m1, m2>>) @@ (c2 :> <<m2, m3>>)
MCLegYes == (c1 :> <<TRUE, FALSE>>) @@ (c2 :> <<TRUE, TRUE>>)

Resolution(market, t) == [market |-> market, yes_wins |-> TRUE, time |-> t]

Parallel ==
  [sequential |-> FALSE, latency |-> <<1, 0>>, response |-> <<0, 1>>,
   completion_timeout |-> 0, completion_loss_limit |-> 0, maximum_completion_orders |-> 1,
   exit |-> "reduce_once", exit_latency |-> 1, exit_response |-> 1, exit_timeout |-> 3,
   settlements |-> <<>>]

Sequential ==
  [Parallel EXCEPT !.sequential = TRUE, !.latency = <<0, 1>>, !.completion_timeout = 3,
                   !.completion_loss_limit = 1, !.maximum_completion_orders = 2]

MCPolicies ==
  {Parallel, Sequential,
   [Sequential EXCEPT !.exit = "none"],
   [Parallel EXCEPT !.settlements = <<Resolution(m2, 2)>>, !.exit = "hold"],
   [Parallel EXCEPT !.settlements = <<Resolution(m1, 1), Resolution(m2, 3)>>],
   [Sequential EXCEPT !.settlements = <<Resolution(m2, 1), Resolution(m1, 4)>>]}

-----------------------------------------------------------------------------
(* Without: two constraints that both buy NO of market 2. *)

ImmediateLegs ==
  <<<<[market |-> 1, outcome |-> "yes"], [market |-> 2, outcome |-> "no"]>>,
    <<[market |-> 1, outcome |-> "no"], [market |-> 2, outcome |-> "no"]>>>>

ImmediateFees == <<[coefficient |-> 0, quantum |-> 1], [coefficient |-> 1, quantum |-> 2]>>

Level(p, q) == [price |-> p, quantity |-> q]

\* One level and two, cheap and dear, below the step and above.
ImmediateBooks ==
  <<{[yes |-> <<Level(2, 4)>>, no |-> <<Level(4, 2)>>],
     [yes |-> <<Level(1, 3), Level(3, 2)>>, no |-> <<Level(9, 4)>>]},
    {[yes |-> <<>>, no |-> <<Level(1, 2), Level(2, 3)>>],
     [yes |-> <<>>, no |-> <<Level(2, 4)>>]}>>

ImmediatePolicy(capital, bps, latency, reject, optimal) ==
  [capital |-> capital, cap |-> 5, min_margin |-> 0, max_age |-> 1, bps |-> bps,
   latency |-> latency, reject |-> reject, optimal |-> optimal]

ImmediatePolicies ==
  {ImmediatePolicy(capital, 10000, latency, <<FALSE, FALSE>>, optimal) :
     capital \in {22, 60}, latency \in {<<1, 1>>, <<1, 2>>}, optimal \in BOOLEAN}
  \cup {ImmediatePolicy(60, 6000, <<2, 1>>, <<TRUE, FALSE>>, FALSE)}

ImmediateConstraints == {1, 2}
ImmediateFeePolicies == Range(ImmediateFees)

Immediate ==
  INSTANCE ImmediateStudy
    WITH PriceScale <- 10, CoefficientScale <- 5, MaxCash <- 1000, Step <- 2, MaxQuantity <- 100,
         Fees <- ImmediateFeePolicies, Constraint <- ImmediateConstraints,
         LegsOf <- ImmediateLegs, FeeOf <- ImmediateFees, Books <- ImmediateBooks,
         Policies <- ImmediatePolicies, MaxTime <- 3, MaxFrames <- 4,
         policy <- used, now <- time, phase <- stage, attempts <- tries, connected <- opened

ASSUME Immediate!StudyConstants

immediateVars == <<used, time, frames, stage, book, generation, opened, last_update, deciding,
                   tries, pending, consumed, available, spent, failed>>

-----------------------------------------------------------------------------
(* Baskets: legs 1 and 3 have a deep and cheap book and a worse one: two     *)
(* levels, one of them for nothing, without bids, or an expensive one.  Leg  *)
(* 2 can only be sold once.                                                  *)

Levels(price, quantity) == <<Level(price, quantity)>>
TwoLevels == <<Level(0, 1), Level(2, 1)>>

BasketBooks ==
  <<{[buy |-> Levels(1, 3), sell |-> Levels(1, 2)], [buy |-> TwoLevels, sell |-> <<>>]},
    {[buy |-> Levels(1, 3), sell |-> Levels(1, 1)]},
    {[buy |-> Levels(1, 3), sell |-> <<>>], [buy |-> Levels(2, 1), sell |-> <<>>]}>>

Basket ==
  INSTANCE BasketExecution
    WITH Books <- BasketBooks, Capital <- 6, Payout <- 5, Margin <- 1, Cap <- 2, Delay <- 1,
         MaxGap <- 2, MaxAttempts <- 2

ASSUME Basket!ExecutionConstants

basketVars == <<connected, markets, scenario, attempt, status>>

-----------------------------------------------------------------------------
mcVars == <<study, vars, immediateVars, basketVars>>

MCInit ==
  /\ study \in {"lifecycle", "immediate", "basket"}
  /\ study # "lifecycle" => policy = Parallel
  /\ study # "immediate" => used = ImmediatePolicy(22, 10000, <<1, 1>>, <<FALSE, FALSE>>, TRUE)
  /\ Init /\ Immediate!Init /\ Basket!Init

\* Only with a lifecycle there is always something left to do, until it has ended.
MayEnd == study # "lifecycle"

MCNext ==
  /\ \/ study = "lifecycle" /\ Next /\ UNCHANGED <<immediateVars, basketVars>>
     \/ study = "immediate" /\ Immediate!Next /\ UNCHANGED <<vars, basketVars>>
     \/ study = "basket" /\ Basket!Next /\ UNCHANGED <<vars, immediateVars>>
     \/ MayEnd /\ UNCHANGED <<vars, immediateVars, basketVars>>
  /\ UNCHANGED study

MCSpec == MCInit /\ [][MCNext]_mcVars

\* The cash of the immediate study (src/src/session/execution_study.cpp) is available,
\* spent or reserved, the reservation of an order covers what it pays on a later book,
\* and the quantity that bisection finds is the largest that can be funded.
ImmediateLedgerSound ==
  study = "immediate" =>
    Immediate!CashAddsUp /\ Immediate!ReservationHolds /\ Immediate!QuotesHold

\* Its orders are executed on the books of their arrival, and together take no more
\* from a level than it shows.
ImmediateFillsAreReal == Immediate!LiquidityUsedOnce /\ Immediate!ExecutedAtArrival

\* A basket study (src/src/session/basket_execution.cpp) neither loses nor invents money
\* or contracts, over all attempts and however each of them ends.
BasketAccountsAddUp == study = "basket" => Basket!LedgerSound /\ Basket!AccountsAddUp

\* "No replenishment credit": no basket, bought or sold, gets liquidity that another
\* one has taken.
BasketLiquidityNeverReused == study = "basket" => Basket!LiquidityNeverReused
==============================================================================
