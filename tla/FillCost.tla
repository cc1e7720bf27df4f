------------------------------- MODULE FillCost -------------------------------
(***************************************************************************)
(* charge_buy_fill and credit_sell_fill (src/core/execution_cost.cpp) over *)
(* the life of an order: filled piece by piece by whoever meets it, with   *)
(* one FeeAccumulator.  Quantities and prices of the fills are the venue's *)
(* choice, within the order.  The second part is ceil_product of the same  *)
(* file: a * b / Denominator rounded up, in machine words that the product *)
(* does not fit.  The code has 64 bits, a denominator of 10^10 and the     *)
(* largest int64 as the largest result.                                    *)
(***************************************************************************)
EXTENDS ExecutionCost

VARIABLES
  side, fee, limit,       \* the order: buys at most, sells at least at its limit
  filled, fills,          \* quantity and number of its fills so far
  notional, fees,         \* sums over its fills
  change,                 \* cash paid or received
  accumulator             \* FeeAccumulator

order == <<side, fee, limit>>
fillVars == <<side, fee, limit, filled, fills, notional, fees, change, accumulator>>

FillInit ==
  /\ side \in {"buy", "sell"} /\ fee \in Fees /\ limit \in Price
  /\ filled = 0 /\ fills = 0 /\ notional = 0 /\ fees = 0
  /\ change = 0 /\ accumulator = 0

Within(price) == IF side = "buy" THEN price <= limit ELSE price >= limit

\* charge_buy_fill and credit_sell_fill.  The accumulator changes on success.
Fill(quantity, price) ==
  LET fill == FillAmounts(side, quantity, price, fee, accumulator)
  IN  /\ (quantity % Step) = 0 /\ filled + quantity <= MaxQuantity
      /\ Within(price)
      /\ fill.ok
      /\ filled' = filled + quantity
      /\ fills' = fills + 1
      /\ notional' = notional + fill.notional
      /\ fees' = fees + fill.fee
      /\ change' = change + fill.change
      /\ accumulator' = fill.accumulator
      /\ UNCHANGED order

FillNext == \E quantity \in 1..MaxQuantity, price \in Price : Fill(quantity, price)

FillSpec == FillInit /\ [][FillNext]_fillVars

-----------------------------------------------------------------------------
(* Properties of orders. *)

\* Roundings and rebates of any number of fills telescope: what the order paid
\* is its notional, its trade fees and the rounding still accumulated, nothing
\* lost and nothing counted twice, in whole quanta.
OrderAddsUp ==
  /\ change = IF side = "buy" THEN notional + fees + accumulator
                              ELSE notional - fees - accumulator
  /\ (change % fee.quantum) = 0
  /\ accumulator >= 0

\* However an order is split, its fills cost no more than what was reserved for
\* their quantity at the limit.
ReservationCovers ==
  side = "buy" /\ CanReserve(filled, fee) => change <= Reservation(filled, limit, fee)

\* The cash of an order is accounted for exactly, and reserved beforehand.
OrderSound == OrderAddsUp /\ ReservationCovers

\* A rebate gives back at most the fees of its fill: a fill costs at least its
\* notional, and a sale receives between nothing and its notional.
NeverPaidToTrade ==
  [][ IF side = "buy" THEN change' - change >= notional' - notional
                      ELSE change' - change \in 0..(notional' - notional) ]_fillVars

-----------------------------------------------------------------------------
(* ceil_product. *)

CONSTANTS
  Width,        \* bits of a word
  Weight,       \* the powers of two: Weight[n] is 2^n
  Denominator

Word == Weight[Width]
Maximum == (Word \div 2) - 1

ASSUME Powers ==
  /\ Width \in Nat \ {0}
  /\ Weight \in [0..Width -> Nat \ {0}] /\ Weight[0] = 1
  /\ \A n \in 0..(Width - 1) : Weight[n + 1] = 2 * Weight[n]

ASSUME SmallDenominator == Denominator \in Nat /\ Denominator >= 2 /\ 3 * Denominator <= Word

Refused == -1

VARIABLES
  a, b,                  \* the factors
  left,                  \* bits of b still to be taken, from the highest
  quotient, remainder,
  returned, result       \* Refused for nullopt

ceilVars == <<a, b, left, quotient, remainder, returned, result>>

Wrap(n) == n % Word
Shifted(n) == b \div Weight[n]
IsSet(n) == (Shifted(n) % 2) = 1

CeilInit ==
  /\ a \in 0..(Word - 1) /\ b \in 0..(Word - 1)
  /\ left = Width /\ quotient = 0 /\ remainder = 0
  /\ returned = FALSE /\ result = 0

Return(value) ==
  /\ returned' = TRUE /\ result' = value
  /\ UNCHANGED <<a, b, left, quotient, remainder>>

OneWord == IF b = 0 THEN TRUE ELSE a <= (Word - 1) \div b

Ceiling(n) == (n \div Denominator) + (IF (n % Denominator) # 0 THEN 1 ELSE 0)

\* The product fits a word.
Direct ==
  /\ ~returned /\ left = Width /\ OneWord
  /\ LET value == IF b = 0 THEN 0 ELSE Ceiling(Wrap(a * b))
     IN  Return(IF value <= Maximum THEN value ELSE Refused)

\* The doubled quotient and remainder, with a added for a bit that is set.
Add(n) == IF IsSet(n) THEN a \div Denominator ELSE 0
Rest(n) == Wrap(Wrap(2 * remainder) + (IF IsSet(n) THEN a % Denominator ELSE 0))
Carry(n) == Rest(n) \div Denominator

TooLarge(n) ==
  \/ quotient > Maximum \div 2
  \/ IsSet(n) /\ Wrap(2 * quotient) > Maximum - Add(n)
  \/ Wrap(Wrap(2 * quotient) + Add(n)) > Maximum - Carry(n)

\* One round of the loop.
TakeBit ==
  /\ ~returned /\ ~OneWord /\ left > 0
  /\ IF TooLarge(left - 1) THEN Return(Refused)
     ELSE /\ quotient' = Wrap(Wrap(2 * quotient) + Add(left - 1) + Carry(left - 1))
          /\ remainder' = Rest(left - 1) % Denominator
          /\ left' = left - 1
          /\ UNCHANGED <<a, b, returned, result>>

\* Mutant of Rounded: the last step up is not checked.
RoundedUnchecked == IF remainder = 0 THEN quotient ELSE quotient + 1

Rounded ==
  IF remainder = 0 THEN quotient
  ELSE IF quotient = Maximum THEN Refused ELSE quotient + 1

RoundUp ==
  /\ ~returned /\ ~OneWord /\ left = 0
  /\ Return(Rounded)

CeilNext == Direct \/ TakeBit \/ RoundUp

CeilSpec == CeilInit /\ [][CeilNext]_ceilVars

-----------------------------------------------------------------------------
(* Properties of products. *)

\* Whatever wraps around on the way, the result is the exact quotient rounded up,
\* and it is refused when and only when that quotient is more than the largest.
ExactOrRefused ==
  returned =>
    result = IF Ceiling(a * b) <= Maximum THEN Ceiling(a * b) ELSE Refused
==============================================================================
