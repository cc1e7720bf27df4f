---------------------------- MODULE ExecutionCost ----------------------------
(***************************************************************************)
(* What a fill costs (src/core/execution_cost.cpp), and what is reserved   *)
(* for an order before its fills are known (buy_reservation in             *)
(* src/core/net_sizing.cpp).                                               *)
(*                                                                         *)
(* The scales are parameters; the code has 10^4 for prices, 10^6 for fee   *)
(* coefficients and the largest int64 for cash, and an accumulator twice   *)
(* as wide.  ceil_product is the exact quotient here; CeilProduct is about *)
(* the loop that computes it in 64 bits.                                   *)
(***************************************************************************)
EXTENDS Integers

CONSTANTS
  PriceScale,        \* price of a sure contract
  CoefficientScale,  \* coefficient 1
  MaxCash,           \* largest cash
  Fees,              \* fee policies
  Step,              \* grid of quantities
  MaxQuantity        \* largest quantity that buy_reservation takes

FeePolicy == [coefficient : 0..CoefficientScale, quantum : Nat \ {0}]

ASSUME FillConstants ==
  /\ PriceScale \in Nat \ {0} /\ (PriceScale % 2) = 0
  /\ CoefficientScale \in Nat \ {0}
  /\ MaxCash \in Nat
  /\ Fees \subseteq FeePolicy
  /\ Step \in Nat \ {0}
  /\ MaxQuantity \in Nat

Price == 0..PriceScale

-----------------------------------------------------------------------------
(* fill_amounts. *)

Min2(a, b) == IF a <= b THEN a ELSE b

\* a / b, rounded up.
CeilDiv(a, b) == (a \div b) + (IF (a % b) # 0 THEN 1 ELSE 0)

FeeDenominator == CoefficientScale * PriceScale
FeeFactor(price, fee) == fee.coefficient * price * (PriceScale - price)
TradeFee(quantity, price, fee) == CeilDiv(quantity * FeeFactor(price, fee), FeeDenominator)

\* What is paid or received before it is rounded to the quantum, and the
\* rounding, always against the trader.
Total(side, notional, charged) ==
  IF side = "buy" THEN notional + charged ELSE notional - charged

Rounding(side, total, quantum) ==
  IF side = "buy" THEN (quantum - (total % quantum)) % quantum ELSE total % quantum

\* A rebate may not make this fill's total fee negative.
Rebate(accumulated, cost, quantum) ==
  Min2(accumulated \div quantum, cost \div quantum) * quantum

NoFill == [ok |-> FALSE]

\* One fill of a quantity at a price, by an order that has accumulated this
\* much rounding.
FillAmounts(side, quantity, price, fee, accumulator) ==
  LET notional    == quantity * price
      charged     == TradeFee(quantity, price, fee)
      total       == Total(side, notional, charged)
      rounding    == Rounding(side, total, fee.quantum)
      accumulated == accumulator + rounding
      rebate      == Rebate(accumulated, charged + rounding, fee.quantum)
  IN  IF \/ quantity = 0
         \/ notional > MaxCash \/ charged > MaxCash
         \/ side = "buy" /\ total + rounding > MaxCash
         \/ side = "sell" /\ charged > notional
         \/ accumulated > 2 * MaxCash + 1
      THEN NoFill
      ELSE [ok          |-> TRUE,
            notional    |-> notional,
            fee         |-> charged,
            accumulator |-> accumulated - rebate,
            change      |-> IF side = "buy" THEN total + rounding - rebate
                                            ELSE total - rounding + rebate]

-----------------------------------------------------------------------------
(* buy_reservation, for a quantity on the grid. *)

PeakFee(quantity, fee) == TradeFee(quantity, PriceScale \div 2, fee)

\* Mutant of Reservation: rounding is allowed for once per order.
ReservationOneFill(quantity, limit, fee) ==
  quantity * limit + PeakFee(quantity, fee) + fee.quantum

Reservation(quantity, limit, fee) ==
  quantity * limit + PeakFee(quantity, fee) + (quantity \div Step) * (fee.quantum + 1)

\* It is refused when the fill at one half is.
CanReserve(quantity, fee) ==
  /\ quantity <= MaxQuantity /\ (quantity % Step) = 0
  /\ quantity = 0 \/ FillAmounts("buy", quantity, PriceScale \div 2, fee, 0).ok
==============================================================================
