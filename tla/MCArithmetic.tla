----------------------------- MODULE MCArithmetic -----------------------------
(* Amounts, products, sums and texts: a behaviour makes calls of one kind,  *)
(* whose component moves; the others stay as they were made.                *)
EXTENDS FillCost, CapitalTime

VARIABLES call, text

mcVars == <<call, text, fillVars, ceilVars, sumVars>>

\* No fee, a coefficient below and at its largest value, and a fine and a
\* coarse quantum.
MCFees == {[coefficient |-> 0, quantum |-> 3], [coefficient |-> 2, quantum |-> 3],
           [coefficient |-> 5, quantum |-> 3], [coefficient |-> 2, quantum |-> 11]}

MCWeight == [n \in 0..Width |-> 2^n]
MCWords == 0..15

\* Enough for the largest quantity (12.7), the one above it, the largest price
\* (1.00), the one above it, and everything that is not a number.
Text == INSTANCE FixedPoint
          WITH Maximum <- 127, PriceDigits <- 2, QuantityDigits <- 1, MaxLength <- 5,
               Character <- {"0", "1", "2", "7", "8", ".", "-"}

NoOrder == side = "buy" /\ limit = 0 /\ fee = [coefficient |-> 0, quantum |-> 3]
NoProduct == a = 0 /\ b = 0

MCInit ==
  /\ \/ call = "fill" /\ NoProduct
     \/ call = "product" /\ NoOrder
     \/ call \in {"sum", "text"} /\ NoOrder /\ NoProduct
  /\ FillInit /\ CeilInit /\ SumInit /\ Text!Init

MCNext ==
  /\ \/ call = "fill" /\ FillNext /\ UNCHANGED <<ceilVars, sumVars, text>>
     \/ call = "product" /\ CeilNext /\ UNCHANGED <<fillVars, sumVars, text>>
     \/ call = "sum" /\ SumNext /\ UNCHANGED <<fillVars, ceilVars, text>>
     \/ call = "text" /\ Text!Next /\ UNCHANGED <<fillVars, ceilVars, sumVars>>
  /\ UNCHANGED call

MCSpec == MCInit /\ [][MCNext]_mcVars

\* What parse reads (src/include/eme/core/fixed_point.hpp) is the number that the
\* text denotes or nothing, and deltas can take back every level.
TextsAreExact == Text!ParsesExactly /\ Text!DeltasUndoLevels
==============================================================================
