------------------------------ MODULE FixedPoint ------------------------------
(***************************************************************************)
(* Decimal texts of the venue (src/include/eme/core/fixed_point.hpp) and   *)
(* how the normaliser (src/gateway/kalshi/orderbook_normalizer.cpp) takes  *)
(* levels and deltas from them.  A text is a sequence of characters that   *)
(* grows by one character at a time; the code has 64-bit integers, four    *)
(* digits for prices and two for quantities.                               *)
(***************************************************************************)
EXTENDS Integers, SequencesExt

CONSTANTS
  Maximum,          \* largest integer of the machine
  PriceDigits,      \* digits after the point of a price
  QuantityDigits,   \* and of a quantity
  Character,        \* characters that texts are made of
  MaxLength         \* bound on the length of a text

Digit == {"0", "1", "2", "3", "4", "5", "6", "7", "8", "9"}
DigitValue ==
  [c \in Digit |-> CASE c = "0" -> 0 [] c = "1" -> 1 [] c = "2" -> 2 [] c = "3" -> 3 [] c = "4" -> 4
                     [] c = "5" -> 5 [] c = "6" -> 6 [] c = "7" -> 7 [] c = "8" -> 8 [] c = "9" -> 9]

Refused == [refused |-> TRUE]

VARIABLE text

Init == text = <<>>
Next == Len(text) < MaxLength /\ \E c \in Character : text' = Append(text, c)
Spec == Init /\ [][Next]_text

-----------------------------------------------------------------------------
(* parse_scaled_nonnegative. *)

Points(t) == {i \in 1..Len(t) : t[i] = "."}

\* There is room for one more digit.
Fits(value, digit) == value <= (Maximum - digit) \div 10

\* Digits of the whole part, checked one by one.
Whole(t) ==
  FoldLeft(LAMBDA value, c :
             IF value = Refused \/ c \notin Digit THEN Refused
             ELSE IF Fits(value.is, DigitValue[c]) THEN [is |-> value.is * 10 + DigitValue[c]]
             ELSE Refused,
           [is |-> 0], t)

\* Digits of the fraction, of which there are few enough, padded with zeros.
Fraction(t, digits) ==
  FoldLeft(LAMBDA value, i :
             IF value = Refused THEN Refused
             ELSE IF i > Len(t) THEN [is |-> value.is * 10]
             ELSE IF t[i] \in Digit THEN [is |-> value.is * 10 + DigitValue[t[i]]]
             ELSE Refused,
           [is |-> 0], [i \in 1..digits |-> i])

\* Mutant of Overflows: only the whole part is checked.
OverflowsWhole(scaled, fraction) == scaled > Maximum

\* The sum of whole part and fraction does.
Overflows(scaled, fraction) == scaled > Maximum - fraction

Wrap(n) == IF n > Maximum THEN n - 2 * (Maximum + 1) ELSE n

Parse(t, digits) ==
  LET scale == 10^digits
      point == IF Points(t) = {} THEN Len(t) + 1 ELSE CHOOSE i \in Points(t) : TRUE
      whole == Whole(SubSeq(t, 1, point - 1))
      rest  == SubSeq(t, point + 1, Len(t))
      fraction == IF Points(t) = {} THEN [is |-> 0] ELSE Fraction(rest, digits)
  IN  IF \/ t = <<>> \/ Cardinality(Points(t)) > 1
         \/ point = 1 \/ whole = Refused
      THEN Refused
      ELSE IF \/ whole.is > Maximum \div scale
              \/ Points(t) # {} /\ (rest = <<>> \/ Len(rest) > digits)
              \/ fraction = Refused
      THEN Refused
      ELSE IF Overflows(whole.is * scale, fraction.is) THEN Refused
      ELSE [is |-> Wrap(whole.is * scale + fraction.is)]

-----------------------------------------------------------------------------
(* Price::parse, Quantity::parse and QuantityDelta::parse. *)

ParsePrice(t) ==
  LET raw == Parse(t, PriceDigits)
  IN  IF raw = Refused THEN Refused
      ELSE IF raw.is > 10^PriceDigits THEN Refused ELSE raw

ParseQuantity(t) == Parse(t, QuantityDigits)

ParseDelta(t) ==
  IF t = <<>> THEN Refused
  ELSE LET negative  == t[1] = "-"
           magnitude == ParseQuantity(IF negative THEN Tail(t) ELSE t)
       IN  IF magnitude = Refused THEN Refused
           ELSE IF negative THEN [is |-> -magnitude.is] ELSE magnitude

(* append_levels and normalize_orderbook_delta: the price, then the quantity, *)
(* then whether it is zero.                                                   *)

Normalized(price, quantity, zero) ==
  IF price = Refused THEN "invalid_price"
  ELSE IF quantity = Refused THEN "invalid_quantity"
  ELSE IF quantity.is = 0 THEN zero ELSE "ok"

NormalizedLevel(price, quantity) ==
  Normalized(ParsePrice(price), ParseQuantity(quantity), "zero_quantity")
NormalizedDelta(price, delta) ==
  Normalized(ParsePrice(price), ParseDelta(delta), "zero_delta")

-----------------------------------------------------------------------------
(* What a text denotes. *)

\* A number: digits, and possibly a point with one to so many digits after it.
IsNumber(t, digits) ==
  \E n \in 1..Len(t) :
    /\ \A i \in 1..n : t[i] \in Digit
    /\ \/ n = Len(t)
       \/ /\ n + 1 < Len(t) /\ Len(t) - (n + 1) <= digits /\ t[n + 1] = "."
          /\ \A i \in (n + 2)..Len(t) : t[i] \in Digit

\* Its value in units of the last digit: every digit by its place.
Denoted(t, digits) ==
  LET point == IF Points(t) = {} THEN Len(t) + 1 ELSE CHOOSE i \in Points(t) : TRUE
      place(i) == IF i < point THEN point - 1 - i + digits ELSE point - i + digits
  IN  FoldLeft(LAMBDA sum, i : sum + (IF i = point THEN 0 ELSE DigitValue[t[i]] * 10^place(i)),
               0, [i \in 1..Len(t) |-> i])

Exactly(t, digits, largest) ==
  IF IsNumber(t, digits) /\ Denoted(t, digits) <= largest THEN [is |-> Denoted(t, digits)] ELSE Refused

-----------------------------------------------------------------------------
(* Properties. *)

\* A text is taken when it is a number the machine can hold in the given digits, and
\* then at its exact value: no overflow wraps, and nothing is rounded.
ParsesExactly ==
  /\ ParsePrice(text) = Exactly(text, PriceDigits, 10^PriceDigits)
  /\ ParseQuantity(text) = Exactly(text, QuantityDigits, Maximum)

\* Every level that a snapshot may show can be taken away again by a delta, and
\* neither a level nor a delta of nothing, nor one of two signs, gets through.
DeltasUndoLevels ==
  LET one == <<"1">>
      minus == <<"-">> \o text
  IN  /\ NormalizedLevel(one, text) = "ok" =>
           /\ NormalizedDelta(one, text) = "ok" /\ NormalizedDelta(one, minus) = "ok"
           /\ ParseDelta(minus).is = -ParseQuantity(text).is
      /\ NormalizedDelta(one, minus) = "ok" => NormalizedLevel(one, text) = "ok"
==============================================================================
