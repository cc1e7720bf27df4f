------------------------------ MODULE CapitalTime ------------------------------
(***************************************************************************)
(* Cash times the time it was tied up, summed over lots (CapitalTime in    *)
(* src/session/study_positions.hpp): in unsigned words, as whole           *)
(* microdollar-seconds and a fraction in base Scale, the nanoseconds of a  *)
(* second.                                                                 *)
(***************************************************************************)
EXTENDS Integers

CONSTANTS
  W,      \* values of a word
  Scale,  \* nanoseconds of a second
  Cash,   \* amounts
  Time    \* durations; what is negative is refused before anything is computed

ASSUME WordConstants ==
  /\ Scale \in Nat /\ Scale >= 2 /\ W \in Nat /\ Scale * Scale <= W
  /\ Cash \subseteq Nat /\ Time \subseteq Nat
  /\ \A x \in Cash \cup Time : 2 * x < W   \* signed words

VARIABLES
  seconds, fraction,  \* micro_usd_seconds, fractional_micro_usd_nanoseconds
  refused,
  total               \* history: the exact sum

sumVars == <<seconds, fraction, refused, total>>

LargestWord == W - 1

SumInit == seconds = 0 /\ fraction = 0 /\ refused = FALSE /\ total = 0

Whole(cash, time) == (cash * (time \div Scale)) % W
Fractional(cash, time) == ((cash % Scale) * (time % Scale) + fraction) % W

\* Mutant of Extra: the fractions never carry.
ExtraNoCarry(cash, time) == ((cash \div Scale) * (time % Scale)) % W

Extra(cash, time) == ((cash \div Scale) * (time % Scale) + (Fractional(cash, time) \div Scale)) % W

TooLong(cash, time) == (time \div Scale) # 0 /\ cash > LargestWord \div (time \div Scale)

TooMuch(cash, time) ==
  \/ Whole(cash, time) > LargestWord - Extra(cash, time)
  \/ seconds > LargestWord - (Whole(cash, time) + Extra(cash, time))

AddLot(cash, time) ==
  /\ ~refused
  /\ IF TooLong(cash, time) \/ TooMuch(cash, time)
     THEN refused' = TRUE /\ UNCHANGED <<seconds, fraction>>
     ELSE /\ seconds' = (seconds + Whole(cash, time) + Extra(cash, time)) % W
          /\ fraction' = Fractional(cash, time) % Scale
          /\ UNCHANGED refused
  /\ total' = total + cash * time

SumNext == \E cash \in Cash, time \in Time : AddLot(cash, time)

SumSpec == SumInit /\ [][SumNext]_sumVars

\* The two words hold the exact sum, with a fraction below one second; a lot is
\* refused only when the sum has no room in them any more.
SumIsExact ==
  IF refused THEN total >= W * Scale
  ELSE fraction \in 0..Scale - 1 /\ seconds \in 0..LargestWord /\ seconds * Scale + fraction = total
==============================================================================
