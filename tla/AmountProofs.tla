----------------------------- MODULE AmountProofs ------------------------------
(***************************************************************************)
(* What amounts come to.  The arithmetic of money: fills add up and an     *)
(* order never costs more than what was reserved for it, for any scales,   *)
(* fee policies, limits, grids and splits; ceil_product is exact in words  *)
(* of any width; the two words of CapitalTime hold the exact sum.  And     *)
(* what relationships between markets pay: the registry of constraints     *)
(* stays consistent and every portfolio it leads to has its floor, for any *)
(* ids, keys, markets and histories; two legs of every accepted basket     *)
(* pay, for any rows and any value of the underlying.  And what a resting  *)
(* order is worth: the conservative queue estimate never promises more     *)
(* than the venue fills, however late its two channels report, and the     *)
(* favorable one counts what was removed once, whichever reports first.    *)
(* And what a screen may say of its rows: for any books, times and budgets *)
(* they are searched on synchronous books only, and share one budget.      *)
(* And what a study of immediate orders may spend: for any books, fees,    *)
(* policies and interleavings its cash adds up, no order pays more than    *)
(* was reserved for it, and no two take the same contracts.                *)
(***************************************************************************)
EXTENDS FillCost, CapitalTime, Constraints, BasketPolicy, PassiveQueue, Screen

-----------------------------------------------------------------------------
(* Arithmetic. *)

\* A quotient and its rest.
LEMMA DivMod ==
  ASSUME NEW y \in Nat, NEW d \in Nat \ {0}
  PROVE  /\ y \div d \in Nat /\ y % d \in 0..(d - 1)
         /\ y = d * (y \div d) + (y % d)
  BY Z3

\* Neither exceeds what is divided.
LEMMA DivBelow ==
  ASSUME NEW y \in Nat, NEW d \in Nat \ {0}
  PROVE  y \div d \in Nat /\ (y \div d) * d <= y /\ y % d <= y
<1> DEFINE k == y \div d
           r == y % d
<1>1. k \in Nat /\ r \in 0..(d - 1) /\ y = d * k + r
  BY DivMod
<1> HIDE DEF k, r
<1>2. d * k \in Nat /\ k * d = d * k
  BY <1>1
<1>3. k \in Nat /\ k * d <= y /\ r <= y
  BY <1>1, <1>2
<1> QED  BY <1>3 DEF k, r

\* CeilDiv covers its argument, by less than one more.
LEMMA CeilDivBounds ==
  ASSUME NEW y \in Nat, NEW d \in Nat \ {0}
  PROVE  /\ CeilDiv(y, d) \in Nat
         /\ y <= d * CeilDiv(y, d) /\ d * CeilDiv(y, d) <= y + d - 1
<1> DEFINE k == y \div d
           r == y % d
<1>1. k \in Nat /\ r \in 0..(d - 1) /\ y = d * k + r
  BY DivMod
<1>2. CeilDiv(y, d) = k + (IF r # 0 THEN 1 ELSE 0)
  BY DEF CeilDiv
<1> HIDE DEF k, r
<1>3. CASE r = 0
  BY <1>1, <1>2, <1>3
<1>4. CASE r # 0
  <2>1. CeilDiv(y, d) = k + 1
    BY <1>2, <1>4
  <2>2. d * (k + 1) = d * k + d
    BY <1>1
  <2> QED  BY <1>1, <1>4, <2>1, <2>2
<1> QED  BY <1>3, <1>4

\* A quotient is at least what fits below it.
LEMMA DivAtLeast ==
  ASSUME NEW y \in Nat, NEW d \in Nat \ {0}, NEW k \in Nat, k * d <= y
  PROVE  k <= y \div d
<1> DEFINE q == y \div d
           r == y % d
<1>1. q \in Nat /\ r \in 0..(d - 1) /\ y = d * q + r
  BY DivMod
<1> HIDE DEF q, r
<1>2. SUFFICES ASSUME k >= q + 1 PROVE FALSE
  BY <1>1 DEF q
<1>3. k * d >= (q + 1) * d
  BY <1>1, <1>2
<1>4. (q + 1) * d = d * q + d
  BY <1>1
<1> QED  BY <1>1, <1>3, <1>4

\* Multiples of d are the integers that d divides without a remainder.
LEMMA MultipleMod ==
  ASSUME NEW d \in Nat \ {0}, NEW k \in Int
  PROVE  (k * d) % d = 0
  BY Z3

\* A multiple of d and another add up to a multiple.
LEMMA MultiplesAdd ==
  ASSUME NEW d \in Nat \ {0}, NEW y \in Int, NEW k \in Int, (y % d) = 0
  PROVE  (y + k * d) % d = 0
<1>1. PICK i \in Int : y = i * d
  <2>1. y = d * (y \div d) + (y % d) /\ y \div d \in Int
    BY Z3
  <2>2. d * (y \div d) \in Int /\ d * (y \div d) = (y \div d) * d
    BY <2>1
  <2>3. y = (y \div d) * d
    BY <2>1, <2>2
  <2> QED  BY <2>1, <2>3
<1>2. y + k * d = (i + k) * d
  BY <1>1
<1> QED  BY <1>2, MultipleMod

-----------------------------------------------------------------------------
(* One fill. *)

\* Fees are divided by a positive number.
LEMMA FeeDenominatorPositive == FeeDenominator \in Nat \ {0}
  BY FillConstants DEF FeeDenominator

\* The fee is largest at one half.
LEMMA FactorPeaks ==
  ASSUME NEW price \in Price, NEW f \in FeePolicy
  PROVE  /\ FeeFactor(price, f) \in Nat
         /\ FeeFactor(PriceScale \div 2, f) \in Nat
         /\ FeeFactor(price, f) <= FeeFactor(PriceScale \div 2, f)
         /\ PriceScale \div 2 \in Price
<1> DEFINE h == PriceScale \div 2
<1>1. PriceScale \in Nat \ {0} /\ (PriceScale % 2) = 0
  BY FillConstants
<1>2. h \in Nat /\ PriceScale = 2 * h
  BY <1>1, DivMod
<1>3. price \in Nat /\ price <= 2 * h /\ f.coefficient \in Nat
  BY <1>2 DEF Price, FeePolicy
<1> HIDE DEF h
<1>4. price * (2 * h - price) \in Nat
  BY <1>2, <1>3
<1>5. price * (2 * h - price) = h * h - (h - price) * (h - price)
  BY <1>2, <1>3
<1>6. (h - price) * (h - price) >= 0
  BY <1>2, <1>3
<1>7. price * (2 * h - price) <= h * h
  BY <1>2, <1>3, <1>5, <1>6
<1> DEFINE x == price * (2 * h - price)
           c == f.coefficient
<1>8. FeeFactor(price, f) = c * x
  BY <1>2, <1>3 DEF FeeFactor
<1>9. FeeFactor(h, f) = c * (h * h)
  BY <1>2, <1>3 DEF FeeFactor
<1>10. c * x \in Nat /\ h * h \in Nat /\ c * (h * h) \in Nat
  BY <1>2, <1>3, <1>4
<1>11. c * x <= c * (h * h)
  <2>1. x \in Nat /\ c \in Nat /\ x <= h * h /\ h * h \in Nat
    BY <1>3, <1>4, <1>7, <1>10
  <2> HIDE DEF x, c
  <2> QED  BY <2>1
<1>12. h \in Price
  BY <1>2 DEF Price
<1> QED  BY <1>8, <1>9, <1>10, <1>11, <1>12 DEF h

\* The fee of a fill, against its rate at the price and at one half.
LEMMA TradeFeeBounds ==
  ASSUME NEW quantity \in Nat, NEW price \in Price, NEW f \in FeePolicy
  PROVE  /\ TradeFee(quantity, price, f) \in Nat
         /\ FeeDenominator * TradeFee(quantity, price, f)
              <= quantity * FeeFactor(PriceScale \div 2, f) + FeeDenominator - 1
         /\ quantity * FeeFactor(price, f) <= FeeDenominator * TradeFee(quantity, price, f)
<1> DEFINE F == FeeFactor(price, f)
           G == FeeFactor(PriceScale \div 2, f)
           D == FeeDenominator
<1>1. F \in Nat /\ G \in Nat /\ F <= G /\ D \in Nat \ {0}
  BY FactorPeaks, FeeDenominatorPositive
<1>2. TradeFee(quantity, price, f) = CeilDiv(quantity * F, D)
  BY DEF TradeFee
<1> HIDE DEF F, G, D
<1>3. quantity * F \in Nat /\ quantity * G \in Nat /\ quantity * F <= quantity * G
  BY <1>1
<1>4. /\ CeilDiv(quantity * F, D) \in Nat
      /\ quantity * F <= D * CeilDiv(quantity * F, D)
      /\ D * CeilDiv(quantity * F, D) <= quantity * F + D - 1
  BY <1>1, <1>3, CeilDivBounds
<1>5. D * CeilDiv(quantity * F, D) \in Nat
  BY <1>1, <1>4
<1>6. D * CeilDiv(quantity * F, D) <= quantity * G + D - 1
  BY <1>1, <1>3, <1>4, <1>5
<1> QED  BY <1>2, <1>4, <1>6 DEF F, G, D

\* What one fill adds, in the terms the sums need.  The rounding is less than
\* a quantum and against the trader; the rebate is at most the cost of the fill.
LEMMA FillEffect ==
  ASSUME NEW s \in {"buy", "sell"}, NEW quantity \in Nat, NEW price \in Price,
         NEW f \in FeePolicy, NEW before \in Nat,
         FillAmounts(s, quantity, price, f, before).ok
  PROVE  LET fill == FillAmounts(s, quantity, price, f, before)
             q    == f.quantum
         IN  /\ fill.notional = quantity * price /\ fill.notional \in Nat
             /\ fill.fee = TradeFee(quantity, price, f) /\ fill.fee \in Nat
             /\ fill.accumulator \in Nat /\ fill.accumulator <= before + q - 1
             /\ \E k \in Int : fill.change = k * q
             /\ s = "buy" =>
                  /\ fill.change = fill.notional + fill.fee + fill.accumulator - before
                  /\ fill.change >= fill.notional
             /\ s = "sell" =>
                  /\ fill.change = fill.notional - fill.fee - (fill.accumulator - before)
                  /\ fill.change \in 0..fill.notional
<1> DEFINE fill == FillAmounts(s, quantity, price, f, before)
           q == f.quantum
           n == quantity * price
           c == TradeFee(quantity, price, f)
           gross == Total(s, n, c)
           r == Rounding(s, gross, q)
           back == Rebate(before + r, c + r, q)
<1>1. q \in Nat \ {0} /\ n \in Nat /\ c \in Nat
  <2>1. price \in Nat
    BY DEF Price
  <2> QED  BY <2>1, TradeFeeBounds DEF FeePolicy
<1>2. /\ fill = [ok |-> TRUE, notional |-> n, fee |-> c, accumulator |-> (before + r) - back,
                 change |-> IF s = "buy" THEN gross + r - back ELSE gross - r + back]
      /\ s = "sell" => c <= n
  <2> DEFINE done == [ok |-> TRUE, notional |-> n, fee |-> c, accumulator |-> (before + r) - back,
                      change |-> IF s = "buy" THEN gross + r - back ELSE gross - r + back]
             exceeds == \/ quantity = 0
                        \/ n > MaxCash \/ c > MaxCash
                        \/ s = "buy" /\ gross + r > MaxCash
                        \/ s = "sell" /\ c > n
                        \/ before + r > 2 * MaxCash + 1
  <2>1. fill = IF exceeds THEN NoFill ELSE done
    BY DEF FillAmounts
  <2> HIDE DEF fill, gross, r, back, c, n, q
  <2>2. fill.ok
    BY DEF fill
  <2>3. ~NoFill.ok
    BY DEF NoFill
  <2>4. ~exceeds
    BY <2>1, <2>2, <2>3
  <2>5. fill = done
    BY <2>1, <2>4
  <2>6. s = "sell" => c <= n
    BY <1>1, <2>4
  <2> QED  BY <2>5, <2>6
<1> HIDE DEF fill, q, n, c
<1>3. gross \in Nat
  BY <1>1, <1>2 DEF Total
<1>4. /\ r \in 0..(q - 1)
      /\ s = "buy" => \E k \in Int : gross + r = k * q
      /\ s = "sell" => \E k \in Int : gross - r = k * q
  <2> DEFINE m == gross % q
             d == gross \div q
  <2>1. m \in 0..(q - 1) /\ d \in Nat /\ gross = q * d + m
    BY <1>1, <1>3, DivMod
  <2> HIDE DEF gross, m, d
  <2>2. CASE s = "sell"
    <3>1. r = m
      BY <2>2 DEF Rounding, m
    <3>2. gross - r = d * q
      BY <1>1, <2>1, <3>1
    <3> QED  BY <2>1, <2>2, <3>1, <3>2
  <2>3. CASE s = "buy" /\ m = 0
    <3>1. r = q % q
      BY <1>1, <2>1, <2>3 DEF Rounding, m
    <3>2. r = 0
      BY <1>1, <3>1, MultipleMod
    <3>3. gross + r = d * q
      BY <1>1, <2>1, <2>3, <3>2
    <3> QED  BY <1>1, <2>1, <2>3, <3>2, <3>3
  <2>4. CASE s = "buy" /\ m # 0
    <3>1. r = (q - m) % q
      BY <2>4 DEF Rounding, m
    <3>2. (q - m) % q = q - m
      <4> DEFINE x == q - m
      <4>1. x \in Nat /\ x < q
        BY <1>1, <2>1, <2>4
      <4> HIDE DEF x
      <4>2. x \div q \in Nat /\ x % q \in 0..(q - 1) /\ x = q * (x \div q) + (x % q)
        BY <1>1, <4>1, DivMod
      <4>3. x \div q = 0
        BY <1>1, <4>1, <4>2
      <4> QED  BY <1>1, <4>2, <4>3 DEF x
    <3>3. gross + r = (d + 1) * q
      BY <1>1, <2>1, <3>1, <3>2
    <3>4. r \in 0..(q - 1)
      BY <1>1, <2>1, <2>4, <3>1, <3>2
    <3>5. d + 1 \in Int
      BY <2>1
    <3> QED  BY <2>4, <3>3, <3>4, <3>5
  <2> QED  BY <2>2, <2>3, <2>4
<1> HIDE DEF gross, r
<1>5. \E k \in Nat : back = k * q /\ k * q <= before + r /\ k * q <= c + r
  <2> DEFINE i == (before + r) \div q
             j == (c + r) \div q
  <2>1. i \in Nat /\ i * q <= before + r
    <3>1. before + r \in Nat
      BY <1>4
    <3> QED  BY <1>1, <3>1, DivBelow
  <2>2. j \in Nat /\ j * q <= c + r
    <3>1. c + r \in Nat
      BY <1>1, <1>4
    <3> QED  BY <1>1, <3>1, DivBelow
  <2>3. back = Min2(i, j) * q
    BY DEF Rebate
  <2> HIDE DEF i, j
  <2>4. CASE i <= j
    <3>1. back = i * q /\ i * q <= j * q
      BY <1>1, <2>1, <2>2, <2>3, <2>4 DEF Min2
    <3> QED  BY <1>1, <1>4, <2>1, <2>2, <3>1
  <2>5. CASE ~(i <= j)
    <3>1. back = j * q /\ j * q <= i * q
      BY <1>1, <2>1, <2>2, <2>3, <2>5 DEF Min2
    <3> QED  BY <1>1, <1>4, <2>1, <2>2, <3>1
  <2> QED  BY <2>4, <2>5
<1> HIDE DEF back
<1>6. PICK k \in Nat : back = k * q /\ k * q <= before + r /\ k * q <= c + r
  BY <1>5
<1>7. back \in Nat /\ back <= before + r /\ back <= c + r
  BY <1>1, <1>6
<1>8. /\ fill.notional = n /\ fill.fee = c /\ fill.accumulator = (before + r) - back
      /\ fill.change = IF s = "buy" THEN gross + r - back ELSE gross - r + back
  BY <1>2
<1>9. CASE s = "buy"
  <2>1. gross = n + c
    BY <1>9 DEF gross, Total
  <2>2. PICK t \in Int : gross + r = t * q
    BY <1>4, <1>9
  <2>3. fill.change = (t - k) * q
    <3>1. fill.change = t * q - k * q
      BY <1>1, <1>3, <1>4, <1>6, <1>7, <1>8, <1>9, <2>2
    <3>2. t * q - k * q = (t - k) * q
      BY <1>1, <1>6, <2>2
    <3> QED  BY <3>1, <3>2
  <2> QED  BY <1>1, <1>3, <1>4, <1>7, <1>8, <1>9, <2>1, <2>3 DEF fill, q, n, c
<1>10. CASE s = "sell"
  <2>1. gross = n - c
    BY <1>10 DEF gross, Total
  <2>2. PICK t \in Int : gross - r = t * q
    BY <1>4, <1>10
  <2>3. fill.change = (t + k) * q
    <3>1. fill.change = t * q + k * q
      BY <1>1, <1>3, <1>4, <1>6, <1>7, <1>8, <1>10, <2>2
    <3>2. t * q + k * q = (t + k) * q
      BY <1>1, <1>6, <2>2
    <3> QED  BY <3>1, <3>2
  <2>4. r <= gross
    <3>1. r = gross % q
      BY <1>10 DEF r, Rounding
    <3> QED  BY <1>1, <1>3, <3>1, DivBelow
  <2> QED  BY <1>1, <1>2, <1>3, <1>4, <1>7, <1>8, <1>10, <2>1, <2>3, <2>4 DEF fill, q, n, c
<1> QED  BY <1>9, <1>10

-----------------------------------------------------------------------------
(* Orders. *)

TypeOK ==
  /\ side \in {"buy", "sell"} /\ fee \in FeePolicy /\ limit \in Price
  /\ filled \in Nat /\ fills \in Nat /\ notional \in Nat /\ fees \in Nat
  /\ change \in Int /\ accumulator \in Nat

PeakFactor == FeeFactor(PriceScale \div 2, fee)

\* Why the reservation is enough: prices are within the limit, each fill has a
\* grid step of its own, and rounds up by less than one unit of fee and less
\* than one quantum.
SumsBounded ==
  side = "buy" =>
    /\ fills * Step <= filled
    /\ notional <= filled * limit
    /\ FeeDenominator * fees <= filled * PeakFactor + fills * FeeDenominator
    /\ accumulator <= fills * fee.quantum

OrderInv == TypeOK /\ OrderAddsUp /\ SumsBounded

\* A new order is consistent.
LEMMA OrderInvInit == FillInit => OrderInv
<1> SUFFICES ASSUME FillInit PROVE OrderInv
  OBVIOUS
<1>1. TypeOK
  BY FillConstants DEF FillInit, TypeOK
<1>2. OrderAddsUp
  <2>1. fee.quantum \in Nat \ {0}
    BY <1>1 DEF TypeOK, FeePolicy
  <2>2. (0 * fee.quantum) % fee.quantum = 0
    BY <2>1, MultipleMod
  <2>3. 0 * fee.quantum = 0
    BY <2>1
  <2> QED  BY <2>2, <2>3 DEF FillInit, OrderAddsUp
<1>3. SumsBounded
  <2>1. /\ PeakFactor \in Nat /\ FeeDenominator \in Nat /\ limit \in Nat
        /\ fee.quantum \in Nat /\ Step \in Nat
    BY <1>1, FactorPeaks, FeeDenominatorPositive, FillConstants DEF TypeOK, PeakFactor, Price, FeePolicy
  <2> QED  BY <2>1 DEF FillInit, SumsBounded
<1> QED  BY <1>1, <1>2, <1>3 DEF OrderInv

\* A fill keeps the sums bounded.
LEMMA FillKeepsInv ==
  ASSUME OrderInv, NEW quantity \in Nat \ {0}, NEW price \in Price, Fill(quantity, price)
  PROVE  OrderInv'
<1> DEFINE fill == FillAmounts(side, quantity, price, fee, accumulator)
           q == fee.quantum
           D == FeeDenominator
           G == PeakFactor
<1>1. /\ TypeOK /\ OrderAddsUp /\ SumsBounded
      /\ q \in Nat \ {0} /\ D \in Nat \ {0} /\ G \in Nat
      /\ Step \in Nat \ {0} /\ price \in Nat /\ limit \in Nat
  BY FactorPeaks, FeeDenominatorPositive, FillConstants
  DEF OrderInv, TypeOK, PeakFactor, Price, FeePolicy
<1>2. /\ fill.notional = quantity * price /\ fill.notional \in Nat
      /\ fill.fee = TradeFee(quantity, price, fee) /\ fill.fee \in Nat
      /\ fill.accumulator \in Nat /\ fill.accumulator <= accumulator + q - 1
      /\ \E k \in Int : fill.change = k * q
      /\ side = "buy" =>
           fill.change = fill.notional + fill.fee + fill.accumulator - accumulator
      /\ side = "sell" =>
           /\ fill.change = fill.notional - fill.fee - (fill.accumulator - accumulator)
           /\ fill.change \in 0..fill.notional
  <2>1. /\ side \in {"buy", "sell"} /\ fee \in FeePolicy /\ accumulator \in Nat
        /\ quantity \in Nat /\ fill.ok
    BY DEF Fill, OrderInv, TypeOK
  <2> QED  BY <2>1, FillEffect
<1>3. /\ (quantity % Step) = 0 /\ Within(price)
      /\ filled' = filled + quantity /\ fills' = fills + 1
      /\ notional' = notional + fill.notional /\ fees' = fees + fill.fee
      /\ change' = change + fill.change /\ accumulator' = fill.accumulator
      /\ side' = side /\ fee' = fee /\ limit' = limit
  BY DEF Fill, order
<1>4. D * fill.fee <= quantity * G + D - 1
  BY <1>1, <1>2, TradeFeeBounds DEF TypeOK, PeakFactor
<1> HIDE DEF fill, q, D, G
<1>5. fill.change \in Int
  BY <1>1, <1>2 DEF TypeOK
<1>6. TypeOK'
  BY <1>1, <1>2, <1>3, <1>5 DEF TypeOK
<1>7. OrderAddsUp'
  <2>1. PICK k \in Int : fill.change = k * q
    BY <1>2
  <2>2. (change % q) = 0
    BY <1>1 DEF OrderAddsUp, q
  <2>3. CASE side = "buy"
    <3>1. change' = notional' + fees' + accumulator'
      BY <1>1, <1>2, <1>3, <2>3 DEF OrderAddsUp, TypeOK
    <3>2. (change' % q) = 0
      BY <1>1, <1>3, <2>1, <2>2, MultiplesAdd DEF TypeOK
    <3> QED  BY <1>1, <1>2, <1>3, <2>3, <3>1, <3>2 DEF OrderAddsUp, q
  <2>4. CASE side = "sell"
    <3>1. change' = notional' - fees' - accumulator'
      <4>1. change = notional - fees - accumulator
        BY <1>1, <2>4 DEF OrderAddsUp
      <4>2. fill.change = fill.notional - fill.fee - (fill.accumulator - accumulator)
        BY <1>2, <2>4
      <4>3. /\ notional \in Nat /\ fees \in Nat /\ accumulator \in Nat
            /\ fill.notional \in Nat /\ fill.fee \in Nat /\ fill.accumulator \in Nat
        BY <1>1, <1>2 DEF TypeOK
      <4> QED  BY <1>3, <4>1, <4>2, <4>3
    <3>2. (change' % q) = 0
      BY <1>1, <1>3, <2>1, <2>2, MultiplesAdd DEF TypeOK
    <3> QED  BY <1>1, <1>2, <1>3, <2>4, <3>1, <3>2 DEF OrderAddsUp, q
  <2> QED  BY <1>1, <2>3, <2>4 DEF TypeOK
<1>8. SumsBounded'
  <2> SUFFICES ASSUME side = "buy"
               PROVE  /\ fills' * Step <= filled'
                      /\ notional' <= filled' * limit
                      /\ D * fees' <= filled' * G + fills' * D
                      /\ accumulator' <= fills' * q
    BY <1>3 DEF SumsBounded, D, G, q, PeakFactor, FeeFactor
  <2>1. /\ filled \in Nat /\ fills \in Nat /\ notional \in Nat /\ fees \in Nat
        /\ accumulator \in Nat
        /\ fills * Step <= filled /\ notional <= filled * limit
        /\ D * fees <= filled * G + fills * D
        /\ accumulator <= fills * q
    BY <1>1 DEF TypeOK, SumsBounded, D, G, q
  <2>2. fills' * Step <= filled'
    <3>1. quantity >= Step
      <4>1. quantity = Step * (quantity \div Step) /\ quantity \div Step \in Nat
        <5>1. quantity = Step * (quantity \div Step) + 0 /\ quantity \div Step \in Nat
          BY <1>1, <1>3, DivMod
        <5> DEFINE j == quantity \div Step
        <5>2. Step * j \in Nat
          BY <1>1, <5>1
        <5> QED  BY <5>1, <5>2
      <4>2. quantity \div Step >= 1
        BY <1>1, <4>1
      <4> DEFINE k == quantity \div Step
      <4>3. k \in Nat /\ k >= 1 /\ quantity = Step * k
        BY <4>1, <4>2
      <4> HIDE DEF k
      <4> QED  BY <1>1, <4>3
    <3>2. (fills + 1) * Step = fills * Step + Step
      BY <1>1, <2>1
    <3> QED  BY <1>1, <1>3, <2>1, <3>1, <3>2
  <2>3. notional' <= filled' * limit
    <3>1. price <= limit
      BY <1>3 DEF Within
    <3>2. quantity * price <= quantity * limit
      BY <1>1, <3>1
    <3>3. (filled + quantity) * limit = filled * limit + quantity * limit
      BY <1>1, <2>1
    <3> QED  BY <1>1, <1>2, <1>3, <2>1, <3>2, <3>3
  <2>4. D * fees' <= filled' * G + fills' * D
    <3>1. D * (fees + fill.fee) = D * fees + D * fill.fee
      BY <1>1, <1>2, <2>1
    <3>2. /\ (filled + quantity) * G = filled * G + quantity * G
          /\ (fills + 1) * D = fills * D + D
      BY <1>1, <2>1
    <3>3. /\ D * fees \in Nat /\ D * fill.fee \in Nat /\ filled * G \in Nat
          /\ quantity * G \in Nat /\ fills * D \in Nat
      BY <1>1, <1>2, <2>1
    <3> QED  BY <1>1, <1>3, <1>4, <2>1, <3>1, <3>2, <3>3
  <2>5. accumulator' <= fills' * q
    <3>1. (fills + 1) * q = fills * q + q
      BY <1>1, <2>1
    <3> QED  BY <1>1, <1>2, <1>3, <2>1, <3>1
  <2> QED  BY <2>2, <2>3, <2>4, <2>5
<1> QED  BY <1>6, <1>7, <1>8 DEF OrderInv

\* The bounds of the sums make the reservation enough.
LEMMA BoundsCover == OrderInv => ReservationCovers
<1> SUFFICES ASSUME OrderInv, side = "buy"
             PROVE  change <= Reservation(filled, limit, fee)
  BY DEF ReservationCovers
<1> DEFINE q == fee.quantum
           D == FeeDenominator
           G == PeakFactor
           peak == PeakFee(filled, fee)
           steps == filled \div Step
<1>1. /\ q \in Nat \ {0} /\ D \in Nat \ {0} /\ G \in Nat /\ limit \in Nat
      /\ filled \in Nat /\ fills \in Nat /\ notional \in Nat /\ fees \in Nat
      /\ accumulator \in Nat /\ change = notional + fees + accumulator
      /\ notional <= filled * limit
      /\ D * fees <= filled * G + fills * D
      /\ accumulator <= fills * q
  BY FactorPeaks, FeeDenominatorPositive
  DEF OrderInv, TypeOK, SumsBounded, OrderAddsUp, PeakFactor, Price, FeePolicy
<1>2. peak \in Nat /\ filled * G <= D * peak
  <2>1. PriceScale \div 2 \in Price /\ fee \in FeePolicy
    BY FactorPeaks DEF OrderInv, TypeOK
  <2> QED  BY <1>1, <2>1, TradeFeeBounds DEF PeakFee, PeakFactor
<1>3. steps \in Nat /\ fills <= steps
  BY FillConstants, <1>1, DivMod, DivAtLeast DEF OrderInv, SumsBounded
<1>4. Reservation(filled, limit, fee) = filled * limit + peak + steps * (q + 1)
  BY DEF Reservation
<1> HIDE DEF q, D, G, peak, steps
<1>5. fees <= peak + fills
  <2>1. D * fees <= D * peak + fills * D
    BY <1>1, <1>2
  <2>2. D * peak + fills * D = D * (peak + fills)
    BY <1>1, <1>2
  <2>3. ASSUME fees >= peak + fills + 1 PROVE FALSE
    <3>1. D * fees >= D * (peak + fills + 1)
      BY <1>1, <1>2, <2>3
    <3>2. D * (peak + fills + 1) = D * (peak + fills) + D
      BY <1>1, <1>2
    <3> QED  BY <1>1, <1>2, <2>1, <2>2, <3>1, <3>2
  <2> QED  BY <1>1, <1>2, <2>3
<1>6. fills * q + fills <= steps * (q + 1)
  <2>1. fills * q + fills = fills * (q + 1)
    BY <1>1
  <2>2. fills * (q + 1) <= steps * (q + 1)
    BY <1>1, <1>3
  <2> QED  BY <2>1, <2>2
<1>7. filled * limit \in Nat /\ fills * q \in Nat /\ steps * (q + 1) \in Nat
  BY <1>1, <1>3
<1> QED  BY <1>1, <1>2, <1>4, <1>5, <1>6, <1>7

\* So does every step.
LEMMA OrderInvStep == OrderInv /\ [FillNext]_fillVars => OrderInv'
<1> SUFFICES ASSUME OrderInv, [FillNext]_fillVars PROVE OrderInv'
  OBVIOUS
<1>1. CASE UNCHANGED fillVars
  BY <1>1 DEF fillVars, OrderInv, TypeOK, OrderAddsUp, SumsBounded, PeakFactor
<1>2. ASSUME NEW quantity \in 1..MaxQuantity, NEW price \in Price, Fill(quantity, price)
      PROVE  OrderInv'
  <2>1. quantity \in Nat \ {0}
    BY FillConstants
  <2> QED  BY <1>2, <2>1, FillKeepsInv
<1> QED  BY <1>1, <1>2 DEF FillNext

\* An order is whole after any fills: what was paid is notional, fees and the
\* rounding that is still accumulated; and buy_reservation is enough for every
\* split of it into fills on the grid at prices within the limit.
THEOREM OrdersAreSound == FillSpec => []OrderSound
<1>1. OrderInv => OrderSound
  BY BoundsCover DEF OrderInv, OrderSound
<1> QED  BY <1>1, OrderInvInit, OrderInvStep, PTL DEF FillSpec

\* No fill earns money by itself, whatever rounding was accumulated before it.
THEOREM RebatesAreCapped == FillSpec => NeverPaidToTrade
<1>1. ASSUME OrderInv, [FillNext]_fillVars
      PROVE  [IF side = "buy" THEN change' - change >= notional' - notional
                              ELSE change' - change \in 0..(notional' - notional)]_fillVars
  <2> SUFFICES ASSUME NEW quantity \in 1..MaxQuantity, NEW price \in Price,
                      Fill(quantity, price)
               PROVE  IF side = "buy" THEN change' - change >= notional' - notional
                                      ELSE change' - change \in 0..(notional' - notional)
    BY <1>1 DEF FillNext
  <2> DEFINE fill == FillAmounts(side, quantity, price, fee, accumulator)
  <2>1. quantity \in Nat /\ TypeOK
    BY <1>1, FillConstants DEF OrderInv
  <2>2. /\ fill.notional \in Nat
        /\ side = "buy" =>
             /\ fill.change = fill.notional + fill.fee + fill.accumulator - accumulator
             /\ fill.change >= fill.notional
        /\ side = "sell" => fill.change \in 0..fill.notional
        /\ \E k \in Int : fill.change = k * fee.quantum
    BY <2>1, FillEffect DEF Fill, TypeOK
  <2>3. fill.change \in Int
    BY <2>1, <2>2 DEF TypeOK, FeePolicy
  <2>4. /\ change' = change + fill.change /\ notional' = notional + fill.notional
        /\ change \in Int /\ notional \in Nat /\ side \in {"buy", "sell"}
    BY <2>1 DEF Fill, TypeOK
  <2> HIDE DEF fill
  <2> QED  BY <2>2, <2>3, <2>4
<1> QED  BY <1>1, OrderInvInit, OrderInvStep, PTL DEF FillSpec, NeverPaidToTrade

-----------------------------------------------------------------------------
(* ceil_product. *)

\* What the loop has computed of the product so far.
LoopInv ==
  /\ a \in 0..(Word - 1) /\ b \in 0..(Word - 1)
  /\ left \in 0..Width
  /\ quotient \in 0..Maximum /\ remainder \in 0..(Denominator - 1)
  /\ returned \in BOOLEAN
  /\ quotient * Denominator + remainder = a * Shifted(left)
  /\ ExactOrRefused

-----------------------------------------------------------------------------
(* Arithmetic. *)

\* The quotient and the rest are the only ones.
LEMMA DivUnique ==
  ASSUME NEW d \in Nat \ {0}, NEW q \in Nat, NEW r \in 0..(d - 1)
  PROVE  /\ (q * d + r) \div d = q /\ (q * d + r) % d = r
  BY Z3

\* The bits above a bit, and the bit.
LEMMA ShiftByOne ==
  ASSUME NEW n \in Nat, NEW w \in Nat \ {0}
  PROVE  n \div w = 2 * (n \div (2 * w)) + ((n \div w) % 2)
<1> DEFINE k == n \div w
           r == n % w
           m == k \div 2
           t == k % 2
<1>1. k \in Nat /\ r \in 0..(w - 1) /\ n = w * k + r
  BY DivMod
<1>2. m \in Nat /\ t \in 0..1 /\ k = 2 * m + t
  BY <1>1, DivMod
<1> HIDE DEF k, r, m, t
<1> DEFINE v == 2 * w
           u == w * t + r
<1>3. v \in Nat \ {0} /\ u \in 0..(v - 1)
  <2>1. CASE t = 0  BY <2>1, <1>1
  <2>2. CASE t = 1  BY <2>2, <1>1
  <2> QED  BY <2>1, <2>2, <1>2
<1>4. n = m * v + u
  <2>1. w * k = w * (2 * m + t)
    BY <1>2
  <2>2. w * (2 * m + t) = m * (2 * w) + w * t
    BY <1>2
  <2> QED  BY <2>1, <2>2, <1>1, <1>2
<1> HIDE DEF v, u
<1>5. n \div v = m
  BY <1>2, <1>3, <1>4, DivUnique
<1> QED  BY <1>2, <1>5 DEF k, m, t, v

\* A word is even, and larger than three denominators.
LEMMA Words ==
  /\ Word \in Nat /\ Maximum \in Nat /\ Word = 2 * Maximum + 2
  /\ Denominator \in Nat \ {0} /\ 3 * Denominator <= Word
<1>1. Width - 1 \in 0..(Width - 1) /\ (Width - 1) + 1 = Width /\ Width - 1 \in 0..Width
  BY Powers
<1>2. Weight[Width - 1] \in Nat \ {0} /\ Weight[Width] = 2 * Weight[Width - 1]
  BY <1>1, Powers
<1> QED  BY <1>2, SmallDenominator DEF Word, Maximum

\* What fits a word is not wrapped.
LEMMA Small ==
  ASSUME NEW n \in 0..(Word - 1)
  PROVE  Wrap(n) = n
<1>1. Word \in Nat \ {0} /\ n \in Nat /\ n = 0 * Word + n
  BY Words
<1> QED  BY <1>1, DivUnique DEF Wrap

\* An exact quotient, or one more when there is a rest.
LEMMA CeilExact ==
  ASSUME NEW q \in Nat, NEW r \in 0..(Denominator - 1)
  PROVE  Ceiling(q * Denominator + r) = q + (IF r # 0 THEN 1 ELSE 0)
  BY DivUnique, Words DEF Ceiling

\* Rounding up is at least any quotient that fits below.
LEMMA CeilLarge ==
  ASSUME NEW q \in Nat, NEW n \in Nat, q * Denominator <= n
  PROVE  Ceiling(n) >= q
<1> DEFINE k == n \div Denominator
           r == n % Denominator
           D == Denominator
<1>1. k \in Nat /\ r \in 0..(D - 1) /\ n = D * k + r /\ D \in Nat \ {0}
  BY DivMod, Words
<1> HIDE DEF k, r, D
<1>2. q <= k
  <2>1. SUFFICES ASSUME k + 1 <= q PROVE FALSE
    BY <1>1
  <2>2. D * (k + 1) <= D * q
    BY <2>1, <1>1
  <2>3. D * (k + 1) = D * k + D
    BY <1>1
  <2>4. D * q <= n
    BY <1>1 DEF D
  <2> QED  BY <2>2, <2>3, <2>4, <1>1
<1> QED  BY <1>1, <1>2 DEF Ceiling, k, r, D

-----------------------------------------------------------------------------
(* One round: no word overflows, and the exact quotient and remainder of    *)
(* the product with one more bit.                                           *)

\* The bits of b from a position on are twice those from the next, and its bit.
LEMMA BitsAbove ==
  ASSUME NEW n \in 0..(Width - 1), b \in 0..(Word - 1)
  PROVE  /\ Shifted(n) \in Nat /\ Shifted(n + 1) \in Nat
         /\ Shifted(n) = 2 * Shifted(n + 1) + (IF IsSet(n) THEN 1 ELSE 0)
         /\ Shifted(n) <= b
<1>1. n \in 0..Width /\ n + 1 \in 0..Width /\ b \in Nat
  BY Powers, Words
<1> DEFINE w == Weight[n]
<1>2. w \in Nat \ {0} /\ Weight[n + 1] = 2 * w /\ Weight[n + 1] \in Nat \ {0}
  BY <1>1, Powers
<1> HIDE DEF w
<1>3. Shifted(n) \in Nat /\ Shifted(n + 1) \in Nat
  BY <1>1, <1>2, DivMod DEF Shifted, w
<1>4. Shifted(n) = 2 * Shifted(n + 1) + (Shifted(n) % 2)
  BY <1>1, <1>2, ShiftByOne DEF Shifted, w
<1>5. Shifted(n) % 2 \in 0..1
  BY <1>3
<1>6. Shifted(n) <= b
  <2> DEFINE k == b \div w
           r == b % w
  <2>1. k \in Nat /\ b = w * k + r /\ r \in 0..(w - 1)
    BY <1>1, <1>2, DivMod
  <2>2. k = Shifted(n)
    BY DEF Shifted, w
  <2> HIDE DEF k, r
  <2>3. w * k >= k
    BY <2>1, <1>2
  <2> QED  BY <2>1, <2>2, <2>3, <1>1, <1>2
<1> QED  BY <1>3, <1>4, <1>5, <1>6 DEF IsSet

\* One turn of the loop, exact or out of range.
LEMMA Round ==
  ASSUME LoopInv, NEW n \in 0..(Width - 1), left = n + 1
  PROVE  LET q == 2 * quotient + Add(n) + Carry(n)
             r == Rest(n) % Denominator
         IN  /\ Add(n) \in Nat /\ Carry(n) \in Nat
             /\ q \in Nat /\ r \in 0..(Denominator - 1)
             /\ q * Denominator + r = a * Shifted(n)
             /\ a * Shifted(n) <= a * b
             /\ TooLarge(n) <=> q > Maximum
<1> DEFINE D == Denominator
           N == quotient
           R == remainder
           h == a \div D
           l == a % D
           t == IF IsSet(n) THEN 1 ELSE 0
           s == Shifted(n + 1)
<1>1. /\ D \in Nat \ {0} /\ 3 * D <= Word /\ Word \in Nat /\ Maximum \in Nat
      /\ Word = 2 * Maximum + 2
  BY Words
<1>2. N \in 0..Maximum /\ R \in 0..(D - 1) /\ a \in Nat /\ b \in Nat /\ N * D + R = a * s
  BY <1>1 DEF LoopInv
<1>3. h \in Nat /\ l \in 0..(D - 1) /\ a = D * h + l
  BY <1>1, <1>2, DivMod
<1>4. t \in 0..1 /\ s \in Nat /\ Shifted(n) = 2 * s + t /\ Shifted(n) <= b /\ Shifted(n) \in Nat
  BY BitsAbove DEF LoopInv
<1>5. Add(n) = t * h /\ (IF IsSet(n) THEN a % Denominator ELSE 0) = t * l
  BY <1>3 DEF Add
<1>6. t * h \in Nat /\ t * l \in 0..(D - 1)
  <2>1. CASE t = 0  BY <2>1, <1>1, <1>3
  <2>2. CASE t = 1  BY <2>2, <1>1, <1>3
  <2> QED  BY <2>1, <2>2, <1>4
<1> HIDE DEF D, N, R, h, l, t, s
<1> DEFINE z == 2 * R + t * l
<1>7. z \in Nat /\ z < Word /\ 2 * R \in 0..(Word - 1)
  BY <1>1, <1>2, <1>6
<1>8. Rest(n) = z
  <2>1. Wrap(2 * R) = 2 * R
    BY <1>7, Small
  <2>2. Wrap(z) = z
    BY <1>7, <1>1, Small
  <2> QED  BY <2>1, <2>2, <1>5 DEF Rest, R
<1> HIDE DEF z
<1> DEFINE c == z \div D
           r == z % D
<1>9. c \in Nat /\ r \in 0..(D - 1) /\ z = D * c + r
  BY <1>1, <1>7, DivMod
<1>10. Carry(n) = c /\ Rest(n) % Denominator = r
  BY <1>8 DEF Carry, D
<1> HIDE DEF c, r
<1> DEFINE q == 2 * N + t * h + c
<1>11. q \in Nat
  BY <1>2, <1>6, <1>9
<1>12. q * D + r = a * Shifted(n)
  <2>1. q * D = 2 * (N * D) + t * (D * h) + D * c
    BY <1>2, <1>3, <1>4, <1>9, <1>1, <1>6
  <2>2. D * c + r = 2 * R + t * l
    BY <1>9 DEF z
  <2>3. t * (D * h) + t * l = t * a
    <3>1. CASE t = 0  BY <3>1, <1>1, <1>3
    <3>2. CASE t = 1  BY <3>2, <1>1, <1>3
    <3> QED  BY <3>1, <3>2, <1>4
  <2>4. a * (2 * s + t) = 2 * (a * s) + t * a
    BY <1>2, <1>4
  <2> DEFINE x == N * D
             y == t * (D * h)
             u == t * l
             v == t * a
             e == D * c
             f == a * s
             g == q * D
  <2>5. x \in Nat /\ y \in Nat /\ u \in Nat /\ v \in Nat /\ e \in Nat /\ f \in Nat /\ g \in Nat
    <3>1. D * h \in Nat /\ N \in Nat /\ t \in Nat
      BY <1>1, <1>2, <1>3, <1>4
    <3> QED  BY <3>1, <1>1, <1>2, <1>3, <1>4, <1>6, <1>9, <1>11
  <2>6. g = 2 * x + y + e /\ e + r = 2 * R + u /\ y + u = v /\ x + R = f
    BY <2>1, <2>2, <2>3, <1>2
  <2>7. a * Shifted(n) = 2 * f + v
    BY <2>4, <1>4
  <2> HIDE DEF x, y, u, v, e, f, g, q
  <2>8. g + r = 2 * f + v
    BY <2>5, <2>6, <1>2, <1>9, <1>1
  <2> QED  BY <2>7, <2>8 DEF g
<1>13. a * Shifted(n) <= a * b
  BY <1>2, <1>4
<1>14. TooLarge(n) <=> q > Maximum
  <2>1. 2 * N \in 0..(Word - 1)
    BY <1>1, <1>2
  <2>2. Wrap(2 * N) = 2 * N
    BY <2>1, Small
  <2>3. Maximum \div 2 \in Nat /\ 2 * (Maximum \div 2) <= Maximum
        /\ Maximum <= 2 * (Maximum \div 2) + 1
    BY <1>1
  <2> DEFINE A == t * h
  <2>4. A \in Nat /\ Add(n) = A
    BY <1>6, <1>5
  <2>5. ~IsSet(n) => A = 0
    BY <1>3 DEF t
  <2>6. TooLarge(n) <=> \/ N > Maximum \div 2
                        \/ IsSet(n) /\ 2 * N > Maximum - A
                        \/ Wrap(2 * N + A) > Maximum - c
    BY <2>2, <2>4, <1>10 DEF TooLarge, N
  <2> HIDE DEF A
  <2>7. CASE 2 * N + A > Maximum
    <3>1. q > Maximum
      BY <2>7, <2>4, <1>9, <1>2, <1>1 DEF A
    <3>2. N > Maximum \div 2 \/ (IsSet(n) /\ 2 * N > Maximum - A)
      BY <2>7, <2>3, <2>4, <2>5, <1>2, <1>1
    <3> QED  BY <3>1, <3>2, <2>6
  <2>8. CASE 2 * N + A <= Maximum
    <3>1. Wrap(2 * N + A) = 2 * N + A
      <4>1. 2 * N + A \in 0..(Word - 1)
        BY <2>8, <2>4, <1>1, <1>2
      <4> QED  BY <4>1, Small
    <3>2. ~(N > Maximum \div 2) /\ ~(2 * N > Maximum - A)
      BY <2>8, <2>3, <2>4, <1>1, <1>2
    <3>3. (2 * N + A > Maximum - c) <=> q > Maximum
      BY <2>4, <1>1, <1>2, <1>9 DEF A
    <3> QED  BY <3>1, <3>2, <3>3, <2>6
  <2> QED  BY <2>7, <2>8, <2>4, <1>1, <1>2
<1> QED  BY <1>5, <1>6, <1>9, <1>10, <1>11, <1>12, <1>13, <1>14 DEF D, N

-----------------------------------------------------------------------------
(* The theorem. *)

\* The loop starts exact.
LEMMA LoopStarts == CeilInit => LoopInv
<1> SUFFICES ASSUME CeilInit PROVE LoopInv
  OBVIOUS
<1>1. Shifted(Width) = 0
  <2>1. Word \in Nat \ {0} /\ b \in 0..(Word - 1) /\ b = 0 * Word + b
    BY Words DEF CeilInit
  <2> QED  BY <2>1, DivUnique DEF Shifted, Word
<1>2. a \in Nat
  BY Words DEF CeilInit
<1>3. a * 0 = 0 /\ 0 * Denominator + 0 = 0
  BY <1>2, Words
<1>4. quotient * Denominator + remainder = a * Shifted(left)
  <2>1. quotient = 0 /\ remainder = 0 /\ left = Width
    BY DEF CeilInit
  <2> QED  BY <2>1, <1>1, <1>3
<1>5. 0 \in 0..Maximum /\ 0 \in 0..(Denominator - 1) /\ Width \in 0..Width
  BY Words, Powers
<1> QED  BY <1>4, <1>5 DEF CeilInit, LoopInv, ExactOrRefused

\* Every turn keeps it exact.
LEMMA LoopStep == LoopInv /\ [CeilNext]_ceilVars => LoopInv'
<1> SUFFICES ASSUME LoopInv, [CeilNext]_ceilVars PROVE LoopInv'
  OBVIOUS
<1>1. CASE Direct
  <2> DEFINE value == IF b = 0 THEN 0 ELSE Ceiling(Wrap(a * b))
  <2>1. a \in Nat /\ b \in Nat /\ Word \in Nat
    BY Words DEF LoopInv
  <2>2. value = Ceiling(a * b)
    <3>1. CASE b = 0
      <4>1. a * b = 0 * Denominator + 0
        BY <3>1, <2>1, Words
      <4> QED  BY <4>1, <3>1, CeilExact, Words
    <3>2. CASE b # 0
      <4> DEFINE k == (Word - 1) \div b
      <4>1. Word - 1 \in Nat
        BY Words
      <4>2. k \in Nat /\ b * k <= Word - 1
        <5> DEFINE w == Word - 1
                   r == w % b
        <5>1. w \in Nat /\ b \in Nat \ {0}
          BY <4>1, <3>2, <2>1
        <5> HIDE DEF w
        <5>2. w \div b \in Nat /\ r \in 0..(b - 1) /\ w = b * (w \div b) + r
          BY <5>1, DivMod
        <5>3. k = w \div b
          BY DEF w
        <5> HIDE DEF r, k
        <5>4. b * k \in Nat /\ w = b * k + r /\ r \in Nat
          BY <5>1, <5>2, <5>3
        <5> QED  BY <5>1, <5>2, <5>3, <5>4 DEF w
      <4>3. a <= k
        BY <1>1, <3>2 DEF Direct, OneWord
      <4> HIDE DEF k
      <4>4. a * b <= b * k /\ a * b \in Nat
        BY <4>2, <4>3, <2>1
      <4>5. a * b \in 0..(Word - 1)
        BY <4>2, <4>4, <2>1
      <4> QED  BY <4>5, <3>2, Small
    <3> QED  BY <3>1, <3>2
  <2>3. /\ returned' = TRUE /\ result' = (IF value <= Maximum THEN value ELSE Refused)
        /\ UNCHANGED <<a, b, left, quotient, remainder>>
    BY <1>1 DEF Direct, Return
  <2> QED  BY <2>2, <2>3 DEF LoopInv, ExactOrRefused, Shifted, Ceiling
<1>2. CASE TakeBit
  <2> DEFINE n == left - 1
             q == 2 * quotient + Add(n) + Carry(n)
             r == Rest(n) % Denominator
  <2>1. n \in 0..(Width - 1) /\ left = n + 1
    BY <1>2, Powers DEF TakeBit, LoopInv
  <2> HIDE DEF n
  <2>2. /\ Add(n) \in Nat /\ Carry(n) \in Nat /\ q \in Nat /\ r \in 0..(Denominator - 1)
        /\ q * Denominator + r = a * Shifted(n)
        /\ a * Shifted(n) <= a * b
        /\ TooLarge(n) <=> q > Maximum
    BY <2>1, Round
  <2>3. CASE TooLarge(n)
    <3>1. /\ returned' = TRUE /\ result' = Refused
          /\ UNCHANGED <<a, b, left, quotient, remainder>>
      BY <1>2, <2>3 DEF TakeBit, Return, n
    <3>2. Ceiling(a * b) > Maximum
      <4>1. a \in Nat /\ b \in Nat /\ a * b \in Nat
        BY Words DEF LoopInv
      <4> HIDE DEF q, r
      <4>2. q * Denominator \in Nat
        BY <2>2, Words
      <4>3. q * Denominator <= q * Denominator + r
        BY <4>2, <2>2, Words
      <4>4. q * Denominator <= a * b
        <5> DEFINE x == q * Denominator
                   y == a * b
                   z == a * Shifted(n)
        <5>1. x \in Nat /\ y \in Nat /\ x + r = z /\ z <= y
          BY <4>1, <4>2, <2>2
        <5> HIDE DEF x, y, z
        <5>2. r \in Nat
          BY <2>2, Words
        <5>3. x <= y
          BY <5>1, <5>2
        <5> QED  BY <5>3 DEF x, y
      <4>5. Ceiling(a * b) >= q
        BY <4>1, <4>4, <2>2, CeilLarge
      <4>6. Ceiling(a * b) \in Nat
        BY <4>1, Words, DivMod DEF Ceiling
      <4> QED  BY <4>5, <4>6, <2>2, <2>3, Words
    <3>3. ~(Ceiling(a * b) <= Maximum)
      <4>1. Ceiling(a * b) \in Nat
        <5>1. a \in Nat /\ b \in Nat /\ a * b \in Nat
          BY Words DEF LoopInv
        <5> QED  BY <5>1, Words, DivMod DEF Ceiling
      <4> QED  BY <4>1, <3>2, Words
    <3> QED  BY <3>1, <3>3 DEF LoopInv, ExactOrRefused, Shifted, Ceiling
  <2>4. CASE ~TooLarge(n)
    <3>1. /\ quotient' = Wrap(Wrap(2 * quotient) + Add(n) + Carry(n))
          /\ remainder' = r /\ left' = n
          /\ UNCHANGED <<a, b, returned, result>>
      BY <1>2, <2>4 DEF TakeBit, n
    <3>2. q \in 0..Maximum
      BY <2>2, <2>4, Words
    <3>3. quotient' = q
      <4>1. quotient \in Nat /\ 2 * quotient \in 0..(Word - 1) /\ q \in 0..(Word - 1)
        BY <3>2, Words DEF LoopInv
      <4>2. Wrap(2 * quotient) = 2 * quotient /\ Wrap(q) = q
        BY <4>1, Small
      <4> QED  BY <3>1, <4>2
    <3>4. returned' = FALSE
      BY <1>2, <3>1 DEF TakeBit
    <3>5. n \in 0..Width
      BY <2>1, Powers
    <3>6. quotient' * Denominator + remainder' = a' * Shifted(left)'
      <4>1. Shifted(left)' = b' \div Weight[left']
        BY DEF Shifted
      <4>2. b' \div Weight[left'] = Shifted(n)
        BY <3>1 DEF Shifted
      <4> QED  BY <4>1, <4>2, <3>1, <3>3, <2>2
    <3> QED  BY <3>1, <3>2, <3>3, <3>4, <3>5, <3>6, <2>2 DEF LoopInv, ExactOrRefused
  <2> QED  BY <2>3, <2>4
<1>3. CASE RoundUp
  <2>1. /\ left = 0 /\ returned' = TRUE /\ result' = Rounded
        /\ UNCHANGED <<a, b, left, quotient, remainder>>
    BY <1>3 DEF RoundUp, Return
  <2>2. Shifted(0) = b
    <3>1. b \in Nat /\ b = b * 1 + 0 /\ Weight[0] = 1
      BY Words, Powers DEF LoopInv
    <3> QED  BY <3>1, DivUnique DEF Shifted
  <2>3. quotient \in 0..Maximum /\ remainder \in 0..(Denominator - 1)
        /\ quotient * Denominator + remainder = a * b
    BY <2>1, <2>2 DEF LoopInv
  <2>4. Ceiling(a * b) = quotient + (IF remainder # 0 THEN 1 ELSE 0)
    <3>1. quotient \in Nat
      BY <2>3, Words
    <3>2. Ceiling(quotient * Denominator + remainder) = quotient + (IF remainder # 0 THEN 1 ELSE 0)
      BY <3>1, <2>3, CeilExact
    <3>3. Ceiling(quotient * Denominator + remainder) = Ceiling(a * b)
      BY <2>3
    <3> QED  BY <3>2, <3>3
  <2>5. result' = IF Ceiling(a * b) <= Maximum THEN Ceiling(a * b) ELSE Refused
    BY <2>1, <2>3, <2>4, Words DEF Rounded
  <2> QED  BY <2>1, <2>5 DEF LoopInv, ExactOrRefused, Shifted, Ceiling
<1>4. CASE UNCHANGED ceilVars
  BY <1>4 DEF ceilVars, LoopInv, ExactOrRefused, Shifted, Ceiling
<1> QED  BY <1>1, <1>2, <1>3, <1>4 DEF CeilNext

\* ceil_product returns the exact quotient rounded up, or refuses one that is too
\* large, whatever the width of the words and the denominator.
THEOREM ProductsAreExact == CeilSpec => []ExactOrRefused
<1>1. LoopInv => ExactOrRefused
  BY DEF LoopInv
<1> QED  BY LoopStarts, LoopStep, <1>1, PTL DEF CeilSpec

-----------------------------------------------------------------------------
(* CapitalTime. *)

\* The sum, its history and the type of what is refused.
SumInv ==
  /\ refused \in BOOLEAN /\ total \in Nat
  /\ fraction \in 0..Scale - 1 /\ seconds \in 0..LargestWord
  /\ ~refused => seconds * Scale + fraction = total
  /\ refused => total >= W * Scale

\* A quotient and its rest.
LEMMA Division ==
  ASSUME NEW x \in Nat, NEW s \in Nat \ {0}
  PROVE  /\ x \div s \in Nat /\ x % s \in 0..s - 1
         /\ x = (x \div s) * s + (x % s)
  OBVIOUS

\* No smaller product than that of smaller factors.
LEMMA Products ==
  ASSUME NEW y \in Nat, NEW z \in Nat, NEW c \in Nat, NEW d \in Nat, y <= c, z <= d
  PROVE  y * z <= c * d
<1>1. y * z <= c * z
  <2>1. (c - y) * z >= 0
    OBVIOUS
  <2> QED  BY <2>1
<1>2. c * z <= c * d
  <2>1. c * (d - z) >= 0
    OBVIOUS
  <2> QED  BY <2>1
<1> QED  BY <1>1, <1>2

\* Writing both factors in base Scale, exactly.
LEMMA InBase ==
  ASSUME NEW A \in Nat, NEW y \in Nat, NEW T \in Nat, NEW t \in Nat, NEW s \in Nat
  PROVE  (A * s + y) * (T * s + t) = ((A * s + y) * T + A * t) * s + y * t
<1>1. (A * s + y) * (T * s + t) = (A * s + y) * (T * s) + (A * s + y) * t
  OBVIOUS
<1>2. (A * s + y) * (T * s) = ((A * s + y) * T) * s
  OBVIOUS
<1>3. (A * s + y) * t = (A * t) * s + y * t
  OBVIOUS
<1> QED  BY <1>1, <1>2, <1>3

\* What is added in base Scale, before any word is cut.
LEMMA Adding ==
  ASSUME SumInv, NEW cash \in Cash, NEW time \in Time
  PROVE  LET whole == cash * (time \div Scale)
             frac  == (cash % Scale) * (time % Scale) + fraction
             extra == (cash \div Scale) * (time % Scale) + frac \div Scale
         IN  /\ whole \in Nat /\ frac \in Nat /\ extra \in Nat
             /\ Fractional(cash, time) = frac /\ Extra(cash, time) = extra
             /\ extra < W
             /\ frac % Scale \in 0..Scale - 1
             /\ cash * time + fraction = (whole + extra) * Scale + (frac % Scale)
<1> DEFINE T == time \div Scale
           t == time % Scale
           A == cash \div Scale
           y == cash % Scale
           whole == cash * T
           frac  == y * t + fraction
           extra == A * t + frac \div Scale
<1>1. /\ cash \in Nat /\ time \in Nat /\ Scale \in Nat \ {0} /\ W \in Nat /\ fraction \in 0..Scale - 1
      /\ Scale >= 2 /\ Scale * Scale <= W /\ 2 * cash < W
  BY WordConstants DEF SumInv
<1>2. T \in Nat /\ t \in 0..Scale - 1 /\ time = T * Scale + t
  BY <1>1, Division
<1>3. A \in Nat /\ y \in 0..Scale - 1 /\ cash = A * Scale + y
  BY <1>1, Division
<1>4. whole \in Nat /\ y * t \in Nat /\ A * t \in Nat
  BY <1>1, <1>2, <1>3
<1>5. y * t <= (Scale - 1) * (Scale - 1)
  BY <1>1, <1>2, <1>3, Products
<1>6. (Scale - 1) * (Scale - 1) + (Scale - 1) = Scale * Scale - Scale
  BY <1>1
<1>7. frac \in Nat /\ frac <= Scale * Scale - Scale
  BY <1>1, <1>4, <1>5, <1>6
<1>8. frac \div Scale \in Nat /\ frac % Scale \in 0..Scale - 1 /\ frac = (frac \div Scale) * Scale + (frac % Scale)
  BY <1>1, <1>7, Division
<1>9. frac \div Scale <= Scale - 1
  <2>1. SUFFICES ASSUME frac \div Scale >= Scale PROVE FALSE
    BY <1>1, <1>8
  <2>2. Scale * Scale <= (frac \div Scale) * Scale
    BY <1>1, <1>8, <2>1, Products
  <2> QED  BY <1>1, <1>7, <1>8, <2>2
<1>10. A * t <= A * Scale - A
  <2>1. A * t <= A * (Scale - 1)
    BY <1>1, <1>2, <1>3, Products
  <2>2. A * (Scale - 1) = A * Scale - A
    BY <1>1, <1>3
  <2> QED  BY <2>1, <2>2
<1>11. 2 * Scale <= W
  <2>1. 2 * Scale <= Scale * Scale
    BY <1>1, Products
  <2> QED  BY <1>1, <2>1
<1>12. extra \in Nat /\ extra < W
  <2>1. A * Scale \in Nat /\ A * Scale <= cash
    BY <1>1, <1>3
  <2>2. A * t <= cash
    BY <1>1, <1>3, <1>4, <1>10, <2>1
  <2> QED  BY <1>1, <1>4, <1>8, <1>9, <1>11, <2>2
<1>13. frac < W
  BY <1>1, <1>7
<1>14. Fractional(cash, time) = frac /\ Extra(cash, time) = extra
  <2>1. frac % W = frac /\ extra % W = extra
    BY <1>1, <1>7, <1>12, <1>13
  <2> QED  BY <2>1 DEF Fractional, Extra
<1>15. cash * time + fraction = (whole + extra) * Scale + (frac % Scale)
  <2>1. cash * time = (whole + A * t) * Scale + y * t
    BY <1>1, <1>2, <1>3, InBase
  <2>2. cash * time + fraction = (whole + A * t) * Scale + frac
    BY <1>1, <1>4, <2>1
  <2>3. (whole + A * t) * Scale + (frac \div Scale) * Scale = (whole + extra) * Scale
    BY <1>1, <1>4, <1>8
  <2> QED  BY <1>1, <1>4, <1>8, <1>12, <2>2, <2>3
<1> QED  BY <1>4, <1>7, <1>8, <1>12, <1>14, <1>15

\* An empty sum is exact.
LEMMA SumStarts == SumInit => SumInv
<1>1. W >= 1
  <2>1. Scale \in Nat /\ 2 <= Scale /\ W \in Nat /\ Scale * Scale <= W
    BY WordConstants
  <2>2. 2 * 2 <= Scale * Scale
    BY <2>1, Products
  <2> QED  BY <2>1, <2>2
<1>2. Scale \in Nat /\ Scale >= 2 /\ W \in Nat
  BY WordConstants
<1>3. 0 * Scale + 0 = 0
  BY <1>2
<1>4. 0 \in 0..Scale - 1 /\ 0 \in 0..W - 1
  BY <1>1, <1>2
<1> SUFFICES ASSUME SumInit PROVE SumInv
  OBVIOUS
<1>5. refused \in BOOLEAN /\ ~refused
  BY DEF SumInit
<1>6. total \in Nat /\ fraction \in 0..Scale - 1 /\ seconds \in 0..LargestWord
  BY <1>4 DEF SumInit, LargestWord
<1>7. seconds * Scale + fraction = total
  BY <1>3 DEF SumInit
<1> QED  BY <1>5, <1>6, <1>7 DEF SumInv

\* Adding keeps the sum exact, or refuses it.
LEMMA SumStep == SumInv /\ [SumNext]_sumVars => SumInv'
<1> SUFFICES ASSUME SumInv, [SumNext]_sumVars PROVE SumInv'
  OBVIOUS
<1>1. CASE UNCHANGED sumVars
  BY <1>1 DEF SumInv, sumVars
<1>2. ASSUME NEW cash \in Cash, NEW time \in Time, AddLot(cash, time) PROVE SumInv'
  <2> DEFINE T == time \div Scale
             whole == cash * T
             frac  == (cash % Scale) * (time % Scale) + fraction
             extra == (cash \div Scale) * (time % Scale) + frac \div Scale
             rest  == frac % Scale
  <2>1. /\ whole \in Nat /\ frac \in Nat /\ extra \in Nat
        /\ Fractional(cash, time) = frac /\ Extra(cash, time) = extra
        /\ extra < W /\ rest \in 0..Scale - 1
        /\ cash * time + fraction = (whole + extra) * Scale + rest
    BY Adding DEF Fractional, Extra
  <2>2. /\ cash \in Nat /\ time \in Nat /\ Scale \in Nat \ {0} /\ W \in Nat /\ cash * time \in Nat
        /\ fraction \in 0..Scale - 1 /\ seconds \in 0..W - 1 /\ total \in Nat
        /\ ~refused /\ seconds * Scale + fraction = total /\ LargestWord = W - 1
    BY <1>2, WordConstants DEF SumInv, AddLot, LargestWord
  <2>3. total' = total + cash * time /\ total' \in Nat
    BY <1>2, <2>2 DEF AddLot
  <2>4. total' = (seconds + whole + extra) * Scale + rest
    <3>1. (seconds + whole + extra) * Scale = seconds * Scale + (whole + extra) * Scale
      BY <2>1, <2>2
    <3> QED  BY <2>1, <2>2, <2>3, <3>1
  <2>5. seconds + whole + extra >= W => total' >= W * Scale
    <3>1. seconds + whole + extra >= W => (seconds + whole + extra) * Scale >= W * Scale
      BY <2>1, <2>2, Products
    <3> QED  BY <2>1, <2>2, <2>4, <3>1
  <2>6. T \in Nat
    BY <2>2, Division
  <2>7. TooLong(cash, time) => whole >= W
    <3>1. SUFFICES ASSUME T # 0, cash > (W - 1) \div T PROVE whole >= W
      BY <2>2 DEF TooLong
    <3>2. W - 1 \in Nat /\ T \in Nat \ {0}
      BY <2>2, <2>6, <3>1
    <3>3. (W - 1) \div T \in Nat /\ (W - 1) % T \in 0..T - 1 /\ W - 1 = ((W - 1) \div T) * T + ((W - 1) % T)
      BY <3>2, Division
    <3>4. ((W - 1) \div T + 1) * T <= cash * T
      BY <3>1, <3>2, <3>3, <2>2, Products
    <3>5. ((W - 1) \div T + 1) * T = ((W - 1) \div T) * T + T
      BY <3>2, <3>3
    <3> QED  BY <3>2, <3>3, <3>4, <3>5, <2>1, <2>2
  <2>8. ~TooLong(cash, time) => whole < W
    <3>1. SUFFICES ASSUME T # 0 => cash <= (W - 1) \div T PROVE whole < W
      BY <2>2, <2>6 DEF TooLong
    <3>2. CASE T = 0
      BY <3>2, <2>2
    <3>3. CASE T # 0
      <4>1. W - 1 \in Nat /\ T \in Nat \ {0}
        BY <2>2, <2>6, <3>3
      <4>2. (W - 1) \div T \in Nat /\ (W - 1) % T \in 0..T - 1 /\ W - 1 = ((W - 1) \div T) * T + ((W - 1) % T)
        BY <4>1, Division
      <4>3. cash * T <= ((W - 1) \div T) * T
        BY <3>1, <3>3, <4>1, <4>2, <2>2, Products
      <4> QED  BY <4>1, <4>2, <4>3, <2>1, <2>2
    <3> QED  BY <3>2, <3>3
  <2>9. whole < W => Whole(cash, time) = whole
    BY <2>1, <2>2 DEF Whole
  <2>10. CASE TooLong(cash, time)
    <3>1. total' >= W * Scale
      BY <2>1, <2>2, <2>5, <2>7, <2>10
    <3>2. refused' /\ seconds' = seconds /\ fraction' = fraction
      BY <1>2, <2>10 DEF AddLot
    <3> QED  BY <2>2, <2>3, <3>1, <3>2 DEF SumInv, LargestWord
  <2>11. CASE ~TooLong(cash, time) /\ TooMuch(cash, time)
    <3>1. whole > W - 1 - extra \/ seconds > W - 1 - (whole + extra)
      BY <2>1, <2>2, <2>8, <2>9, <2>11 DEF TooMuch
    <3>2. total' >= W * Scale
      BY <2>1, <2>2, <2>5, <3>1
    <3>3. refused' /\ seconds' = seconds /\ fraction' = fraction
      BY <1>2, <2>11 DEF AddLot
    <3> QED  BY <2>2, <2>3, <3>2, <3>3 DEF SumInv, LargestWord
  <2>12. CASE ~TooLong(cash, time) /\ ~TooMuch(cash, time)
    <3>1. seconds + whole + extra <= W - 1
      BY <2>1, <2>2, <2>8, <2>9, <2>12 DEF TooMuch
    <3>2. seconds' = (seconds + whole + extra) % W /\ fraction' = rest /\ refused' = refused
      BY <1>2, <2>1, <2>8, <2>9, <2>12 DEF AddLot
    <3>3. seconds' = seconds + whole + extra
      BY <2>1, <2>2, <3>1, <3>2
    <3> QED  BY <2>1, <2>2, <2>3, <2>4, <3>1, <3>2, <3>3 DEF SumInv, LargestWord
  <2> QED  BY <2>10, <2>11, <2>12
<1> QED  BY <1>1, <1>2 DEF SumNext

\* The time that capital was tied up is summed exactly, or refused when it does not
\* fit, for words of any width.
THEOREM CapitalTimeIsExact == SumSpec => []SumIsExact
<1>1. SumInv => SumIsExact
  BY DEF SumInv, SumIsExact
<1> QED  BY SumStarts, SumStep, <1>1, PTL DEF SumSpec

-----------------------------------------------------------------------------
(* The registry of constraints. *)

RegistryTypeOK ==
  /\ constraints = [i \in DOMAIN constraints |-> constraints[i]]
  /\ keys = [k \in DOMAIN keys |-> keys[k]]
  /\ DOMAIN constraints \subseteq ConstraintId
  /\ dependencies \in [Market -> Seq(ConstraintId)]

RegistryInv == RegistryTypeOK /\ RegistryConsistent

-----------------------------------------------------------------------------
\* Of two distinct markets bound by the relationship one leg always wins, the
\* legs being those compile_constraint chooses.
THEOREM CompiledLegsPay ==
  ASSUME NEW d \in Definition, Compiles(d),
         NEW resolution \in [Market -> BOOLEAN], Holds(d, resolution)
  PROVE  \E i \in DOMAIN Legs(d) : Pays(Legs(d)[i].outcome, resolution[Legs(d)[i].market])
<1>1. d.first \in Market /\ d.second \in Market
  BY DEF Definition
<1>2. resolution[d.first] \in BOOLEAN /\ resolution[d.second] \in BOOLEAN
  BY <1>1
<1>3. 1 \in DOMAIN Legs(d) /\ 2 \in DOMAIN Legs(d)
  BY DEF Legs
<1>4. CASE d.kind = "implication"
  <2>1. resolution[d.second] \/ ~resolution[d.first]
    BY <1>2, <1>4 DEF Holds
  <2>2. /\ Legs(d)[1].outcome = "yes" /\ Legs(d)[1].market = d.second
        /\ Legs(d)[2].outcome = "no" /\ Legs(d)[2].market = d.first
    BY <1>4 DEF Legs
  <2>3. Pays(Legs(d)[1].outcome, resolution[Legs(d)[1].market]) = resolution[d.second]
    BY <1>2, <2>2 DEF Pays
  <2>4. Pays(Legs(d)[2].outcome, resolution[Legs(d)[2].market]) = ~resolution[d.first]
    BY <1>2, <2>2 DEF Pays
  <2> QED  BY <1>3, <2>1, <2>3, <2>4
<1>5. CASE d.kind # "implication"
  <2>1. resolution[d.first] \/ resolution[d.second]
    BY <1>2, <1>5 DEF Holds
  <2>2. /\ Legs(d)[1].outcome = "yes" /\ Legs(d)[1].market = d.first
        /\ Legs(d)[2].outcome = "yes" /\ Legs(d)[2].market = d.second
    BY <1>5 DEF Legs
  <2>3. Pays(Legs(d)[1].outcome, resolution[Legs(d)[1].market]) = resolution[d.first]
    BY <1>2, <2>2 DEF Pays
  <2>4. Pays(Legs(d)[2].outcome, resolution[Legs(d)[2].market]) = resolution[d.second]
    BY <1>2, <2>2 DEF Pays
  <2> QED  BY <1>3, <2>1, <2>3, <2>4
<1> QED  BY <1>4, <1>5

-----------------------------------------------------------------------------
\* Appending an id that a sequence does not hold keeps each of its ids once.
LEMMA AppendOnce ==
  ASSUME NEW S, NEW s \in Seq(S), NEW x \in S, IsInjective(s), x \notin Range(s)
  PROVE  /\ IsInjective(Append(s, x))
         /\ Range(Append(s, x)) = Range(s) \cup {x}
         /\ Append(s, x) \in Seq(S)
<1>1. /\ Len(s) \in Nat /\ DOMAIN s = 1..Len(s)
      /\ DOMAIN Append(s, x) = 1..(Len(s) + 1)
      /\ Append(s, x)[Len(s) + 1] = x
      /\ \A i \in 1..Len(s) : Append(s, x)[i] = s[i]
      /\ Append(s, x) \in Seq(S)
  BY AppendProperties, LenProperties
<1>2. \A i \in 1..Len(s) : s[i] \in Range(s) /\ s[i] # x
  BY <1>1 DEF Range
<1>3. IsInjective(Append(s, x))
  <2> SUFFICES ASSUME NEW i \in 1..(Len(s) + 1), NEW j \in 1..(Len(s) + 1),
                      Append(s, x)[i] = Append(s, x)[j]
               PROVE  i = j
    BY <1>1 DEF IsInjective
  <2>1. CASE i \in 1..Len(s) /\ j \in 1..Len(s)
    BY <1>1, <2>1 DEF IsInjective
  <2>2. CASE i = Len(s) + 1 \/ j = Len(s) + 1
    BY <1>1, <1>2, <2>2
  <2> QED  BY <1>1, <2>1, <2>2
<1>4. Range(Append(s, x)) \subseteq Range(s) \cup {x}
  <2> SUFFICES ASSUME NEW i \in 1..(Len(s) + 1)
               PROVE  Append(s, x)[i] \in Range(s) \cup {x}
    BY <1>1 DEF Range
  <2> QED  BY <1>1, <1>2
<1>5. Range(s) \cup {x} \subseteq Range(Append(s, x))
  <2>1. x \in Range(Append(s, x))
    BY <1>1 DEF Range
  <2>2. ASSUME NEW i \in 1..Len(s) PROVE s[i] \in Range(Append(s, x))
    BY <1>1 DEF Range
  <2> QED  BY <1>1, <2>1, <2>2 DEF Range
<1> QED  BY <1>1, <1>3, <1>4, <1>5

-----------------------------------------------------------------------------
LEMMA RegistryInvInit == RegistryInit => RegistryInv
<1> SUFFICES ASSUME RegistryInit PROVE RegistryInv
  OBVIOUS
<1>1. DOMAIN constraints = {} /\ DOMAIN keys = {}
  BY DEF RegistryInit
<1>2. RegistryTypeOK
  BY <1>1 DEF RegistryInit, RegistryTypeOK
<1>3. \A m \in Market : Range(dependencies[m]) = {} /\ IsInjective(dependencies[m])
  BY DEF RegistryInit, Range, IsInjective
<1> QED
  BY <1>1, <1>2, <1>3 DEF RegistryInv, RegistryConsistent

\* What a registration makes of the three maps.
LEMMA RegisterEffect ==
  ASSUME RegistryTypeOK, NEW d \in Definition, Register(d)
  PROVE  /\ Compiles(d)
         /\ d.id \notin DOMAIN constraints /\ d.key \notin DOMAIN keys
         /\ DOMAIN constraints' = DOMAIN constraints \cup {d.id}
         /\ constraints' = [i \in DOMAIN constraints' |-> constraints'[i]]
         /\ constraints'[d.id] = d
         /\ \A i \in DOMAIN constraints : constraints'[i] = constraints[i]
         /\ DOMAIN keys' = DOMAIN keys \cup {d.key}
         /\ keys' = [k \in DOMAIN keys' |-> keys'[k]]
         /\ keys'[d.key] = d.id
         /\ \A k \in DOMAIN keys : keys'[k] = keys[k]
<1>1. Compiles(d) /\ d.id \notin DOMAIN constraints /\ d.key \notin DOMAIN keys
  BY DEF Register, AddResult
<1>2. /\ constraints' = With(constraints, d.id, d)
      /\ keys' = With(keys, d.key, d.id)
  BY DEF Register
<1>3. /\ DOMAIN constraints' = DOMAIN constraints \cup {d.id}
      /\ constraints' = [i \in DOMAIN constraints' |-> constraints'[i]]
      /\ constraints'[d.id] = d
      /\ \A i \in DOMAIN constraints : constraints'[i] = constraints[i]
  BY <1>1, <1>2 DEF With
<1>4. /\ DOMAIN keys' = DOMAIN keys \cup {d.key}
      /\ keys' = [k \in DOMAIN keys' |-> keys'[k]]
      /\ keys'[d.key] = d.id
      /\ \A k \in DOMAIN keys : keys'[k] = keys[k]
  BY <1>1, <1>2 DEF With
<1> QED
  BY <1>1, <1>3, <1>4

LEMMA RegisterKeepsInv ==
  ASSUME RegistryInv, NEW d \in Definition, Register(d)
  PROVE  RegistryInv'
<1> USE DEF RegistryInv
<1>1. /\ Compiles(d)
      /\ d.id \notin DOMAIN constraints /\ d.key \notin DOMAIN keys
      /\ DOMAIN constraints' = DOMAIN constraints \cup {d.id}
      /\ constraints' = [i \in DOMAIN constraints' |-> constraints'[i]]
      /\ constraints'[d.id] = d
      /\ \A i \in DOMAIN constraints : constraints'[i] = constraints[i]
      /\ DOMAIN keys' = DOMAIN keys \cup {d.key}
      /\ keys' = [k \in DOMAIN keys' |-> keys'[k]]
      /\ keys'[d.key] = d.id
      /\ \A k \in DOMAIN keys : keys'[k] = keys[k]
  BY RegisterEffect
<1>2. d.id \in ConstraintId
  BY DEF Definition
<1>3. ASSUME NEW m \in Market
      PROVE  /\ dependencies'[m] \in Seq(ConstraintId)
             /\ Range(dependencies'[m]) =
                  {i \in DOMAIN constraints' : m \in Range(Dependents(constraints'[i]))}
             /\ IsInjective(dependencies'[m])
  <2> DEFINE Named == {i \in DOMAIN constraints : m \in Range(Dependents(constraints[i]))}
  <2>1. /\ dependencies[m] \in Seq(ConstraintId)
        /\ Range(dependencies[m]) = Named
        /\ IsInjective(dependencies[m])
    BY DEF RegistryTypeOK, RegistryConsistent
  <2>2. dependencies'[m] = IF m \in Range(Dependents(d))
                           THEN Append(dependencies[m], d.id) ELSE dependencies[m]
    BY DEF Register
  <2>3. {i \in DOMAIN constraints' : m \in Range(Dependents(constraints'[i]))} =
          Named \cup (IF m \in Range(Dependents(d)) THEN {d.id} ELSE {})
    BY <1>1
  <2>4. d.id \notin Range(dependencies[m])
    BY <1>1, <2>1
  <2>5. CASE m \in Range(Dependents(d))
    BY <1>2, <2>1, <2>2, <2>3, <2>4, <2>5, AppendOnce
  <2>6. CASE m \notin Range(Dependents(d))
    BY <2>1, <2>2, <2>3, <2>6
  <2> QED  BY <2>5, <2>6
<1>4. RegistryTypeOK'
  <2>1. dependencies' = [m \in Market |-> dependencies'[m]]
    BY DEF Register
  <2> HIDE DEF RegistryInv
  <2>2. dependencies' \in [Market -> Seq(ConstraintId)]
    BY <1>3, <2>1
  <2>3. DOMAIN constraints' \subseteq ConstraintId
    BY <1>1, <1>2 DEF RegistryInv, RegistryTypeOK
  <2> QED  BY <1>1, <2>2, <2>3 DEF RegistryTypeOK
<1>5. ASSUME NEW i \in DOMAIN constraints'
      PROVE  /\ constraints'[i] \in Definition /\ Compiles(constraints'[i])
             /\ constraints'[i].id = i
             /\ constraints'[i].key \in DOMAIN keys' /\ keys'[constraints'[i].key] = i
  <2>1. CASE i = d.id
    BY <1>1, <2>1
  <2>2. CASE i \in DOMAIN constraints
    BY <1>1, <2>2 DEF RegistryConsistent
  <2> QED  BY <1>1, <2>1, <2>2
<1>6. ASSUME NEW k \in DOMAIN keys'
      PROVE  keys'[k] \in DOMAIN constraints' /\ constraints'[keys'[k]].key = k
  <2>1. CASE k = d.key
    BY <1>1, <2>1
  <2>2. CASE k \in DOMAIN keys
    BY <1>1, <2>2 DEF RegistryConsistent
  <2> QED  BY <1>1, <2>1, <2>2
<1>7. RegistryConsistent'
  BY <1>3, <1>5, <1>6 DEF RegistryConsistent
<1> QED  BY <1>4, <1>7

\* The maps of the registry agree after any sequence of additions, refused ones
\* included: each id has one key, each key one id, and a market lists exactly
\* the constraints that depend on it.
THEOREM RegistryAgrees == RegistrySpec => []RegistryConsistent
<1>1. RegistryInv /\ [RegistryNext]_registry => RegistryInv'
  <2> SUFFICES ASSUME RegistryInv, [RegistryNext]_registry PROVE RegistryInv'
    OBVIOUS
  <2>1. CASE UNCHANGED registry
    BY <2>1 DEF registry, RegistryInv, RegistryTypeOK, RegistryConsistent
  <2>2. ASSUME NEW d \in Definition, Register(d) PROVE RegistryInv'
    BY <2>2, RegisterKeepsInv
  <2>3. ASSUME NEW d \in Definition, Refuse(d) PROVE RegistryInv'
    BY <2>1, <2>3 DEF Refuse
  <2> QED  BY <2>1, <2>2, <2>3 DEF RegistryNext
<1>2. RegistryInv => RegistryConsistent
  BY DEF RegistryInv
<1> QED
  BY <1>1, <1>2, RegistryInvInit, PTL DEF RegistrySpec

\* Whatever is registered, its two legs cover every resolution that its
\* relationship allows: the guaranteed portfolio pays one contract at least.
THEOREM EveryFloorHolds == RegistrySpec => []OneLegPays
<1>1. RegistryConsistent => OneLegPays
  <2> SUFFICES ASSUME RegistryConsistent, NEW i \in DOMAIN constraints,
                      NEW resolution \in [Market -> BOOLEAN],
                      Holds(constraints[i], resolution)
               PROVE  \E n \in DOMAIN Legs(constraints[i]) :
                        Pays(Legs(constraints[i])[n].outcome,
                             resolution[Legs(constraints[i])[n].market])
    BY DEF OneLegPays, Registered
  <2>1. constraints[i] \in Definition /\ Compiles(constraints[i])
    BY DEF RegistryConsistent
  <2> QED  BY <2>1, CompiledLegsPay
<1> QED
  BY <1>1, RegistryAgrees, PTL

-----------------------------------------------------------------------------
(* The policy of baskets. *)

\* Every accepted row is valid by itself and meant what its markets mean; every
\* market that has a meaning has it from an accepted row.
PolicyInv ==
  /\ accepted \subseteq Rows
  /\ \A row \in accepted : row.id > 0 /\ Known(row) /\ Geometry(row) /\ Distinct(row)
  /\ \A r, s \in accepted : r # s => r.id # s.id /\ r.key # s.key /\ r.markets # s.markets
  /\ semantics \in [Listed -> Meaning \cup {NoMeaning}]
  /\ \A row \in accepted : \A i \in 1..3 : semantics[row.markets[i]] = Means(row)[i]
  /\ \A m \in Listed : semantics[m] # NoMeaning =>
       \E row \in accepted, i \in 1..3 : row.markets[i] = m

LEMMA MeansAreMeanings ==
  ASSUME NEW row \in Rows, NEW i \in 1..3
  PROVE  Means(row)[i] \in Meaning /\ Means(row)[i] # NoMeaning
<1>1. row.a \in Nat /\ row.b \in Nat /\ row.lower \in Nat /\ row.upper \in Nat
  BY PolicyConstants DEF Row
<1>2. /\ [range |-> FALSE, from |-> row.a, to |-> row.a] \in Meaning
      /\ [range |-> FALSE, from |-> row.b, to |-> row.b] \in Meaning
      /\ [range |-> TRUE, from |-> row.lower, to |-> row.upper] \in Meaning
  BY <1>1 DEF Meaning
<1>3. Means(row)[1] \in Meaning /\ Means(row)[2] \in Meaning /\ Means(row)[3] \in Meaning
  BY <1>2 DEF Means
<1>4. i = 1 \/ i = 2 \/ i = 3
  OBVIOUS
<1>5. Means(row)[i] \in Meaning
  BY <1>3, <1>4
<1> QED  BY <1>5, PolicyConstants

LEMMA PolicyStarts == PolicyInit => PolicyInv
  BY DEF PolicyInit, PolicyInv

\* What is learned from a valid row.
LEMMA Learns ==
  ASSUME PolicyInv, NEW row \in Rows, Valid(row)
  PROVE  /\ Learned(row) \in [Listed -> Meaning \cup {NoMeaning}]
         /\ \A i \in 1..3 : Learned(row)[row.markets[i]] = Means(row)[i]
         /\ \A m \in Listed : semantics[m] # NoMeaning => Learned(row)[m] = semantics[m]
         /\ \A m \in Listed : Learned(row)[m] # NoMeaning =>
              semantics[m] # NoMeaning \/ \E i \in 1..3 : row.markets[i] = m
<1>1. Known(row) /\ Distinct(row) /\ Agrees(row)
  BY DEF Valid
<1>2. ASSUME NEW m \in Listed, NEW i \in 1..3, row.markets[i] = m
      PROVE  (CHOOSE j \in 1..3 : row.markets[j] = m) = i
  BY <1>1, <1>2 DEF Distinct
<1>3. ASSUME NEW i \in 1..3
      PROVE  Learned(row)[row.markets[i]] = Means(row)[i]
  <2> DEFINE m == row.markets[i]
  <2>1. m \in Listed
    BY <1>1 DEF Known
  <2>2. semantics[m] \in {NoMeaning, Means(row)[i]}
    BY <1>1 DEF Agrees
  <2>3. (CHOOSE j \in 1..3 : row.markets[j] = m) = i
    BY <1>2, <2>1
  <2> QED  BY <2>1, <2>2, <2>3 DEF Learned
<1>4. ASSUME NEW m \in Listed
      PROVE  /\ Learned(row)[m] \in Meaning \cup {NoMeaning}
             /\ semantics[m] # NoMeaning => Learned(row)[m] = semantics[m]
             /\ Learned(row)[m] # NoMeaning =>
                  semantics[m] # NoMeaning \/ \E i \in 1..3 : row.markets[i] = m
  <2>1. CASE \E i \in 1..3 : row.markets[i] = m
    <3>1. PICK i \in 1..3 : row.markets[i] = m
      BY <2>1
    <3>2. Learned(row)[m] = Means(row)[i] /\ Means(row)[i] \in Meaning
      BY <1>3, <3>1, MeansAreMeanings
    <3>3. semantics[m] \in {NoMeaning, Means(row)[i]}
      BY <1>1, <3>1 DEF Agrees
    <3> QED  BY <3>1, <3>2, <3>3
  <2>2. CASE ~\E i \in 1..3 : row.markets[i] = m
    <3>1. Learned(row)[m] = semantics[m]
      BY <2>2 DEF Learned
    <3> QED  BY <3>1 DEF PolicyInv
  <2> QED  BY <2>1, <2>2
<1>5. Learned(row) \in [Listed -> Meaning \cup {NoMeaning}]
  BY <1>4 DEF Learned
<1> QED  BY <1>3, <1>4, <1>5

LEMMA PolicyStep == PolicyInv /\ [PolicyNext]_policyVars => PolicyInv'
<1> SUFFICES ASSUME PolicyInv, [PolicyNext]_policyVars PROVE PolicyInv'
  OBVIOUS
<1>1. CASE UNCHANGED <<accepted, semantics>>
  BY <1>1 DEF PolicyInv, Known, Geometry, Distinct, Means
<1>2. ASSUME NEW row \in Rows, Valid(row), accepted' = accepted \cup {row}, semantics' = Learned(row)
      PROVE  PolicyInv'
  <2>1. row.id > 0 /\ Known(row) /\ Geometry(row) /\ Distinct(row) /\ ~Repeats(row)
    BY <1>2 DEF Valid
  <2>2. /\ Learned(row) \in [Listed -> Meaning \cup {NoMeaning}]
        /\ \A i \in 1..3 : Learned(row)[row.markets[i]] = Means(row)[i]
        /\ \A m \in Listed : semantics[m] # NoMeaning => Learned(row)[m] = semantics[m]
        /\ \A m \in Listed : Learned(row)[m] # NoMeaning =>
             semantics[m] # NoMeaning \/ \E i \in 1..3 : row.markets[i] = m
    BY <1>2, Learns
  <2>3. \A r \in accepted' : r.id > 0 /\ Known(r) /\ Geometry(r) /\ Distinct(r)
    BY <1>2, <2>1 DEF PolicyInv
  <2>4. \A r, s \in accepted' : r # s => r.id # s.id /\ r.key # s.key /\ r.markets # s.markets
    BY <1>2, <2>1 DEF PolicyInv, Repeats
  <2>5. \A r \in accepted' : \A i \in 1..3 : semantics'[r.markets[i]] = Means(r)[i]
    <3> SUFFICES ASSUME NEW r \in accepted', NEW i \in 1..3
                 PROVE  semantics'[r.markets[i]] = Means(r)[i]
      OBVIOUS
    <3>1. CASE r = row
      BY <3>1, <2>2, <1>2
    <3>2. CASE r \in accepted
      <4>1. r.markets[i] \in Listed /\ semantics[r.markets[i]] = Means(r)[i] /\ r \in Rows
        BY <3>2 DEF PolicyInv, Known
      <4>2. semantics[r.markets[i]] # NoMeaning
        BY <4>1, MeansAreMeanings
      <4> QED  BY <4>1, <4>2, <2>2, <1>2
    <3> QED  BY <3>1, <3>2, <1>2
  <2>6. \A m \in Listed : semantics'[m] # NoMeaning =>
          \E r \in accepted', i \in 1..3 : r.markets[i] = m
    <3> SUFFICES ASSUME NEW m \in Listed, Learned(row)[m] # NoMeaning
                 PROVE  \E r \in accepted', i \in 1..3 : r.markets[i] = m
      BY <1>2
    <3>1. semantics[m] # NoMeaning \/ \E i \in 1..3 : row.markets[i] = m
      BY <2>2
    <3>2. row \in accepted' /\ accepted \subseteq accepted'
      BY <1>2
    <3> QED  BY <3>1, <3>2 DEF PolicyInv
  <2>7. accepted' \subseteq Rows /\ semantics' \in [Listed -> Meaning \cup {NoMeaning}]
    BY <1>2, <2>2 DEF PolicyInv
  <2> QED  BY <2>3, <2>4, <2>5, <2>6, <2>7 DEF PolicyInv, Known, Geometry, Distinct, Means
<1>3. ASSUME NEW row \in Rows, TakeRow(row) PROVE PolicyInv'
  BY <1>1, <1>2, <1>3 DEF TakeRow
<1>4. CASE TakeDocument
  BY <1>1, <1>4 DEF TakeDocument
<1> QED  BY <1>1, <1>3, <1>4 DEF PolicyNext, policyVars

-----------------------------------------------------------------------------
(* The floor. *)

LEMMA InvFloor == PolicyInv => TwoLegsPay
<1> SUFFICES ASSUME PolicyInv, NEW row \in accepted, NEW value \in Settlement
             PROVE  \E i, j \in Paying(row, value) : i # j
  BY DEF TwoLegsPay
<1>1. row.a \in Nat /\ row.b \in Nat /\ row.lower \in Nat /\ row.upper \in Nat /\ value \in Int
  BY PolicyConstants DEF PolicyInv, Row
<1>2. row.a < row.lower /\ row.lower <= row.upper /\ row.upper <= row.b
  BY DEF PolicyInv, Geometry
<1>3. \A i \in 1..3 : semantics[row.markets[i]] = Means(row)[i]
  BY DEF PolicyInv
<1>4. /\ 1 \in Paying(row, value) <=> value > row.a
      /\ 2 \in Paying(row, value) <=> ~(value > row.b)
      /\ 3 \in Paying(row, value) <=> ~(row.lower <= value /\ value <= row.upper)
  <2>1. /\ Yes(Means(row)[1], value) <=> value > row.a
        /\ Yes(Means(row)[2], value) <=> value > row.b
        /\ Yes(Means(row)[3], value) <=> (row.lower <= value /\ value <= row.upper)
    BY DEF Yes, Means
  <2> QED  BY <2>1, <1>3 DEF Paying
<1>5. CASE value > row.b
  <2>1. 1 \in Paying(row, value) /\ 3 \in Paying(row, value)
    BY <1>1, <1>2, <1>4, <1>5
  <2> QED  BY <2>1
<1>6. CASE value > row.a /\ ~(value > row.b)
  <2>1. 1 \in Paying(row, value) /\ 2 \in Paying(row, value)
    BY <1>4, <1>6
  <2> QED  BY <2>1
<1>7. CASE ~(value > row.a)
  <2>1. 2 \in Paying(row, value) /\ 3 \in Paying(row, value)
    BY <1>1, <1>2, <1>4, <1>7
  <2> QED  BY <2>1
<1> QED  BY <1>1, <1>5, <1>6, <1>7

-----------------------------------------------------------------------------
(* The order of the rows. *)

LEMMA InvConsistent == PolicyInv => Consistent(accepted)
<1> SUFFICES ASSUME PolicyInv PROVE Consistent(accepted)
  OBVIOUS
<1>1. ASSUME NEW r \in accepted, NEW s \in accepted, NEW i \in 1..3, NEW j \in 1..3,
             r.markets[i] = s.markets[j]
      PROVE  Means(r)[i] = Means(s)[j]
  BY <1>1 DEF PolicyInv
<1> QED  BY <1>1 DEF PolicyInv, Consistent

LEMMA ValidNext ==
  ASSUME PolicyInv, NEW row \in Rows \ accepted
  PROVE  Valid(row) <=> Consistent(accepted \cup {row})
<1>1. Consistent(accepted)
  BY InvConsistent
<1>2. ASSUME Valid(row) PROVE Consistent(accepted \cup {row})
  <2>1. row.id > 0 /\ Known(row) /\ Geometry(row) /\ Distinct(row) /\ ~Repeats(row) /\ Agrees(row)
    BY <1>2 DEF Valid
  <2>2. ASSUME NEW r \in accepted, NEW i \in 1..3, NEW j \in 1..3, r.markets[i] = row.markets[j]
        PROVE  Means(r)[i] = Means(row)[j]
    <3>1. semantics[row.markets[j]] = Means(r)[i] /\ r \in Rows
      BY <2>2 DEF PolicyInv
    <3>2. Means(r)[i] # NoMeaning
      BY <3>1, MeansAreMeanings
    <3> QED  BY <2>1, <3>1, <3>2 DEF Agrees
  <2>3. \A r \in accepted :
          /\ r.id # row.id /\ r.key # row.key /\ r.markets # row.markets
          /\ \A i, j \in 1..3 : r.markets[i] = row.markets[j] => Means(r)[i] = Means(row)[j]
    BY <2>1, <2>2 DEF Repeats
  <2>4. \A r \in accepted :
          \A i, j \in 1..3 : row.markets[i] = r.markets[j] => Means(row)[i] = Means(r)[j]
    BY <2>2
  <2> QED  BY <1>1, <2>1, <2>3, <2>4 DEF Consistent
<1>3. ASSUME Consistent(accepted \cup {row}) PROVE Valid(row)
  <2>1. row \in accepted \cup {row} /\ accepted \subseteq accepted \cup {row}
    OBVIOUS
  <2>2. row.id > 0 /\ Known(row) /\ Geometry(row) /\ Distinct(row)
    BY <1>3, <2>1 DEF Consistent
  <2>3. \A r \in accepted :
          /\ r.id # row.id /\ r.key # row.key /\ r.markets # row.markets
          /\ \A i, j \in 1..3 : r.markets[i] = row.markets[j] => Means(r)[i] = Means(row)[j]
    BY <1>3, <2>1 DEF Consistent
  <2>4. Agrees(row)
    <3> SUFFICES ASSUME NEW i \in 1..3, semantics[row.markets[i]] # NoMeaning
                 PROVE  semantics[row.markets[i]] = Means(row)[i]
      BY DEF Agrees
    <3>1. row.markets[i] \in Listed
      BY <2>2 DEF Known
    <3>2. PICK r \in accepted, j \in 1..3 : r.markets[j] = row.markets[i]
      BY <3>1 DEF PolicyInv
    <3>3. Means(r)[j] = Means(row)[i]
      BY <2>3, <3>2
    <3>4. semantics[r.markets[j]] = Means(r)[j]
      BY <3>2 DEF PolicyInv
    <3> QED  BY <3>2, <3>3, <3>4
  <2> QED  BY <2>2, <2>3, <2>4 DEF Valid, Repeats
<1> QED  BY <1>2, <1>3

\* Two legs of every basket that a policy accepts pay, whatever the underlying
\* settles at: the $2 floor that the sizing of baskets assumes.  And a row is
\* accepted exactly when the rows taken so far and it are consistent as a whole:
\* comparing it with what was learned before misses nothing, in any order.
THEOREM PoliciesAreSound == PolicySpec => []PolicySound
<1>1. PolicyInv => PolicySound
  BY InvFloor, InvConsistent, ValidNext DEF PolicySound, AcceptsConsistent
<1> QED  BY PolicyStarts, PolicyStep, <1>1, PTL DEF PolicySpec

-----------------------------------------------------------------------------
(* The queue estimate.  f[i] is the total of the changes after the i-th. *)

\* f[i] is the total of the changes after the i-th, f[0] that of all of them.
Totals(f, changes) ==
  /\ f \in [0..Len(changes) -> Nat]
  /\ f[Len(changes)] = 0
  /\ \A i \in 1..Len(changes) : f[i - 1] = f[i] + changes[i].quantity

\* A conservative estimate of what is ahead.
IsEstimate(q, ahead) ==
  /\ DOMAIN q = {"ahead", "displayed", "favorable", "reductions", "credits"}
  /\ q.ahead = ahead /\ q.favorable = FALSE

TradeReport == [time : Nat, quantity : Nat, event : Nat]

QueueTypeOK ==
  /\ IsEstimate(queue[FALSE], queue[FALSE].ahead) /\ queue[FALSE].ahead \in Nat
  /\ estimated[FALSE] \in 0..Wanted
  /\ venue.ahead \in Nat /\ venue.behind \in Nat /\ venue.filled \in 0..Wanted
  /\ trades \in Seq(TradeReport)
  /\ venue.events \in Nat /\ now \in Nat

\* What the estimate comes to once it has been told of `late` more contracts
\* traded: it is still no nearer to the front, and has filled no more.
SafeAfter(ahead, est, late, real, done) ==
  /\ Positive(ahead - late) >= real
  /\ Smaller(Wanted, est + Positive(late - ahead)) <= done

\* The conservative estimate knows of no cancellation, so all that separates it
\* from the venue is the trades on their way.
ConservativeInv ==
  /\ QueueTypeOK
  /\ \E f : /\ Totals(f, trades)
            /\ SafeAfter(queue[FALSE].ahead, estimated[FALSE], f[0],
                         venue.ahead, venue.filled)

LEMMA TotalsAreNatural ==
  ASSUME NEW s \in Seq(TradeReport), NEW f, Totals(f, s)
  PROVE  f[0] \in Nat
<1>1. Len(s) \in Nat
  OBVIOUS
<1>2. 0 \in 0..Len(s)
  BY <1>1
<1> QED
  BY <1>2 DEF Totals

\* A report more at the end.
LEMMA TotalsOfAppend ==
  ASSUME NEW s \in Seq(TradeReport), NEW t \in TradeReport, NEW f, Totals(f, s)
  PROVE  \E g : Totals(g, Append(s, t)) /\ g[0] = f[0] + t.quantity
<1> DEFINE g == [i \in 0..(Len(s) + 1) |-> IF i <= Len(s) THEN f[i] + t.quantity ELSE 0]
<1>1. /\ Len(s) \in Nat /\ Len(Append(s, t)) = Len(s) + 1
      /\ \A i \in 1..Len(s) : Append(s, t)[i] = s[i]
      /\ Append(s, t)[Len(s) + 1] = t /\ t.quantity \in Nat
  BY DEF TradeReport
<1>2. \A i \in 0..Len(s) : f[i] \in Nat
  BY <1>1 DEF Totals
<1>3. /\ g \in [0..(Len(s) + 1) -> Nat] /\ g[Len(s) + 1] = 0
      /\ \A i \in 0..Len(s) : g[i] = f[i] + t.quantity
  BY <1>1, <1>2
<1> HIDE DEF g
<1>4. ASSUME NEW i \in 1..(Len(s) + 1)
      PROVE  g[i - 1] = g[i] + Append(s, t)[i].quantity
  <2>1. CASE i \in 1..Len(s)
    <3>1. i - 1 \in 0..Len(s) /\ i \in 0..Len(s)
      BY <1>1, <2>1
    <3>2. f[i - 1] = f[i] + s[i].quantity
      BY <2>1 DEF Totals
    <3>3. s[i] \in TradeReport
      BY <2>1
    <3>4. s[i].quantity \in Nat
      BY <3>3 DEF TradeReport
    <3>5. g[i - 1] = f[i - 1] + t.quantity /\ g[i] = f[i] + t.quantity
      BY <1>3, <3>1
    <3>6. f[i] \in Nat /\ t.quantity \in Nat /\ Append(s, t)[i] = s[i]
      BY <1>1, <1>2, <2>1, <3>1
    <3> HIDE DEF g
    <3> QED
      BY <3>2, <3>4, <3>5, <3>6
  <2>2. CASE i = Len(s) + 1
    <3>1. i - 1 = Len(s) /\ Len(s) \in 0..Len(s) /\ f[Len(s)] = 0
      BY <1>1, <2>2 DEF Totals
    <3>2. g[i - 1] = 0 + t.quantity /\ g[i] = 0
      BY <1>3, <2>2, <3>1
    <3>3. Append(s, t)[i] = t /\ t.quantity \in Nat
      BY <1>1, <2>2
    <3> QED
      BY <3>2, <3>3
  <2> QED
    BY <1>1, <2>1, <2>2
<1>5. Totals(g, Append(s, t))
  BY <1>1, <1>3, <1>4 DEF Totals
<1> QED
  BY <1>1, <1>3, <1>5

\* A report less at the beginning.
LEMMA TotalsOfTail ==
  ASSUME NEW s \in Seq(TradeReport), s # <<>>, NEW f, Totals(f, s)
  PROVE  \E g : Totals(g, Tail(s)) /\ f[0] = g[0] + Head(s).quantity
<1> DEFINE g == [i \in 0..(Len(s) - 1) |-> f[i + 1]]
<1>1. /\ Len(s) \in Nat /\ Len(s) >= 1 /\ Len(Tail(s)) = Len(s) - 1
      /\ \A i \in 1..(Len(s) - 1) : Tail(s)[i] = s[i + 1]
      /\ Head(s) = s[1]
  OBVIOUS
<1>2. /\ \A i \in 0..Len(s) : f[i] \in Nat
      /\ \A i \in 1..Len(s) : f[i - 1] = f[i] + s[i].quantity
      /\ f[Len(s)] = 0
  BY <1>1 DEF Totals
<1>3. /\ g \in [0..(Len(s) - 1) -> Nat] /\ \A i \in 0..(Len(s) - 1) : g[i] = f[i + 1]
  BY <1>1, <1>2
<1> HIDE DEF g
<1>4. \A i \in 1..(Len(s) - 1) : g[i - 1] = g[i] + Tail(s)[i].quantity
  <2> SUFFICES ASSUME NEW i \in 1..(Len(s) - 1)
               PROVE  g[i - 1] = g[i] + Tail(s)[i].quantity
    OBVIOUS
  <2>1. /\ i + 1 \in 1..Len(s) /\ i - 1 \in 0..(Len(s) - 1) /\ i \in 0..(Len(s) - 1)
        /\ (i - 1) + 1 = i /\ (i + 1) - 1 = i
    BY <1>1
  <2> QED
    BY <1>1, <1>2, <1>3, <2>1
<1>5. g[Len(s) - 1] = 0 /\ f[0] = g[0] + Head(s).quantity
  <2>1. 1 \in 1..Len(s) /\ 0 \in 0..(Len(s) - 1) /\ Len(s) - 1 \in 0..(Len(s) - 1)
    BY <1>1
  <2> QED
    BY <1>1, <1>2, <1>3, <2>1
<1> QED
  BY <1>1, <1>3, <1>4, <1>5 DEF Totals

\* At the venue a trade of q takes what is ahead, then the order.
LEMMA TradeIsSafe ==
  ASSUME NEW ahead \in Nat, NEW est \in 0..Wanted, NEW late \in Nat,
         NEW real \in Nat, NEW done \in 0..Wanted, NEW q \in Nat,
         SafeAfter(ahead, est, late, real, done)
  PROVE  SafeAfter(ahead, est, late + q, real - Smaller(real, q),
                   done + Smaller(Wanted - done, q - Smaller(real, q)))
BY QueueConstants DEF SafeAfter, Positive, Smaller

\* The estimate does with a report what the venue did with the trade.
LEMMA ReportIsSafe ==
  ASSUME NEW ahead \in Nat, NEW est \in 0..Wanted, NEW late \in Nat,
         NEW real \in Nat, NEW done \in 0..Wanted, NEW q \in Nat,
         SafeAfter(ahead, est, late + q, real, done)
  PROVE  SafeAfter(ahead - Smaller(ahead, q),
                   est + Smaller(Wanted - est, q - Smaller(ahead, q)),
                   late, real, done)
BY QueueConstants DEF SafeAfter, Positive, Smaller

\* A report that is never taken, or a cancellation ahead, makes the estimate
\* only safer.
LEMMA SafeWithLess ==
  ASSUME NEW ahead \in Nat, NEW est \in 0..Wanted, NEW late \in Nat,
         NEW real \in Nat, NEW done \in 0..Wanted, NEW q \in Nat, NEW r \in 0..real,
         SafeAfter(ahead, est, late + q, real, done)
  PROVE  SafeAfter(ahead, est, late, real - r, done)
BY QueueConstants DEF SafeAfter, Positive, Smaller

\* What is taken off the queue and what is filled stay within what there is.
LEMMA FillsWithinOrder ==
  ASSUME NEW ahead \in Nat, NEW est \in 0..Wanted, NEW q \in Nat
  PROVE  /\ ahead - Smaller(ahead, q) \in Nat
         /\ est + Smaller(Wanted - est, q - Smaller(ahead, q)) \in 0..Wanted
BY QueueConstants DEF Smaller

\* The invariant is more than the property.
LEMMA SafeNow ==
  ASSUME NEW ahead \in Nat, NEW est \in 0..Wanted, NEW late \in Nat,
         NEW real \in Nat, NEW done \in 0..Wanted,
         SafeAfter(ahead, est, late, real, done)
  PROVE  ahead >= real /\ est <= done
BY QueueConstants DEF SafeAfter, Positive, Smaller

\* advance() and depth() move only the favorable estimate.
LEMMA ConservativeAdvance ==
  ASSUME NEW q, NEW ahead, NEW time, NEW displayed, IsEstimate(q, ahead)
  PROVE  IsEstimate(Advance(q, time), ahead) /\ IsEstimate(Depth(q, time, displayed), ahead)
<1> DEFINE moved == Advance(q, time)
<1>1. IsEstimate(moved, ahead)
  BY DEF Advance, IsEstimate
<1> HIDE DEF moved
<1>2. \A c, r, d : IsEstimate([moved EXCEPT !.displayed = d, !.credits = c, !.reductions = r], ahead)
  BY <1>1 DEF IsEstimate
<1>3. IsEstimate(Depth(q, time, displayed), ahead)
  BY <1>1, <1>2 DEF Depth, moved, IsEstimate
<1> QED
  BY <1>1, <1>3 DEF moved

\* trade() takes at most what is ahead.
LEMMA ConservativeTrade ==
  ASSUME NEW q, NEW ahead, NEW time, NEW quantity, IsEstimate(q, ahead)
  PROVE  IsEstimate(Trade(q, time, quantity), ahead - Smaller(ahead, quantity))
<1> DEFINE moved == Advance(q, time)
<1>1. IsEstimate(moved, ahead)
  BY ConservativeAdvance
<1> HIDE DEF moved
<1>2. \A c, r : IsEstimate([moved EXCEPT !.reductions = r, !.credits = c,
                                     !.ahead = @ - Smaller(@, quantity)],
                           ahead - Smaller(ahead, quantity))
  BY <1>1 DEF IsEstimate
<1> QED
  BY <1>1, <1>2 DEF Trade, moved

\* What is filled is what exceeds the queue ahead.
FillsBehind(q, ahead) ==
  \A time, quantity, remaining :
    TradeFills(q, time, quantity, remaining)
      = Smaller(remaining, quantity - Smaller(ahead, quantity))

LEMMA ConservativeFills ==
  ASSUME NEW q, NEW ahead, IsEstimate(q, ahead)
  PROVE  FillsBehind(q, ahead)
<1> SUFFICES ASSUME NEW time, NEW quantity, NEW remaining
             PROVE  TradeFills(q, time, quantity, remaining)
                      = Smaller(remaining, quantity - Smaller(ahead, quantity))
  BY DEF FillsBehind
<1>1. IsEstimate(Advance(q, time), ahead)
  BY ConservativeAdvance
<1> QED
  BY <1>1 DEF TradeFills, IsEstimate

\* Steps at which nothing is traded and nothing told of a trade.
LEMMA NoTradeKeepsInv ==
  ASSUME ConservativeInv, NEW r \in 0..venue.ahead,
         IsEstimate(queue'[FALSE], queue[FALSE].ahead),
         UNCHANGED <<estimated, trades>>, now' \in Nat, venue'.events \in Nat,
         /\ venue'.ahead = venue.ahead - r /\ venue'.behind \in Nat
         /\ venue'.filled = venue.filled
  PROVE  ConservativeInv'
<1>1. QueueTypeOK'
  <2>1. venue'.ahead \in Nat /\ venue'.filled \in 0..Wanted
    BY DEF ConservativeInv, QueueTypeOK
  <2>2. queue'[FALSE].ahead = queue[FALSE].ahead /\ queue'[FALSE].ahead \in Nat
    BY DEF ConservativeInv, QueueTypeOK, IsEstimate
  <2>3. IsEstimate(queue'[FALSE], queue'[FALSE].ahead)
    BY <2>2
  <2> QED
    BY <2>1, <2>2, <2>3 DEF ConservativeInv, QueueTypeOK
<1>2. PICK f : /\ Totals(f, trades)
               /\ SafeAfter(queue[FALSE].ahead, estimated[FALSE], f[0], venue.ahead, venue.filled)
  BY DEF ConservativeInv
<1>3. f[0] \in Nat
  BY <1>2, TotalsAreNatural DEF ConservativeInv, QueueTypeOK
<1>4. SafeAfter(queue[FALSE].ahead, estimated[FALSE], f[0], venue.ahead - r, venue.filled)
  <2>1. f[0] + 0 = f[0]
    BY <1>3
  <2> QED
    BY <1>2, <1>3, <2>1, SafeWithLess DEF ConservativeInv, QueueTypeOK
<1>5. SafeAfter(queue'[FALSE].ahead, estimated'[FALSE], f[0], venue'.ahead, venue'.filled)
  <2>1. queue'[FALSE].ahead = queue[FALSE].ahead
    BY DEF IsEstimate
  <2> QED
    BY <1>4, <2>1
<1>6. Totals(f, trades')
  BY <1>2
<1> QED
  BY <1>1, <1>5, <1>6 DEF ConservativeInv

\* A trade at the venue, and its report on its way.
LEMMA TradesKeepsInv ==
  ASSUME ConservativeInv, NEW q \in Nat, Trades(q)
  PROVE  ConservativeInv'
<1> DEFINE front == Smaller(venue.ahead, q)
           t == [time |-> now, quantity |-> q, event |-> venue.events + 1]
<1>1. /\ q <= venue.ahead + venue.behind
      /\ venue'.ahead = venue.ahead - front
      /\ venue'.behind = venue.behind - (q - front)
      /\ venue'.filled = venue.filled + Smaller(Wanted - venue.filled, q - front)
      /\ trades' = Append(trades, t)
      /\ UNCHANGED <<queue, estimated, now>> /\ venue'.events = venue.events + 1
  BY DEF Trades, VenueChanges
<1>2. /\ venue.ahead \in Nat /\ venue.behind \in Nat /\ venue.filled \in 0..Wanted
      /\ queue[FALSE].ahead \in Nat /\ estimated[FALSE] \in 0..Wanted
      /\ trades \in Seq(TradeReport) /\ t \in TradeReport /\ venue.events + 1 \in Nat
  <2>1. venue.events + 1 \in Nat /\ now \in Nat
    BY DEF ConservativeInv, QueueTypeOK
  <2> QED
    BY <2>1 DEF ConservativeInv, QueueTypeOK, TradeReport
<1>3. /\ venue'.ahead \in Nat /\ venue'.behind \in Nat /\ venue'.filled \in 0..Wanted
  <2>1. q - front \in Nat /\ front \in Nat
    BY <1>2 DEF Smaller
  <2>2. venue.ahead - front \in Nat /\ venue.behind - (q - front) \in Nat
    BY <1>1, <1>2 DEF Smaller
  <2>3. venue.filled + Smaller(Wanted - venue.filled, q - front) \in 0..Wanted
    BY <1>2, FillsWithinOrder
  <2> QED
    BY <1>1, <2>2, <2>3
<1>4. QueueTypeOK'
  <2>1. trades' \in Seq(TradeReport)
    BY <1>1, <1>2
  <2> QED
    BY <1>1, <1>2, <1>3, <2>1 DEF ConservativeInv, QueueTypeOK
<1>5. PICK f : /\ Totals(f, trades)
               /\ SafeAfter(queue[FALSE].ahead, estimated[FALSE], f[0], venue.ahead, venue.filled)
  BY DEF ConservativeInv
<1>6. PICK g : Totals(g, trades') /\ g[0] = f[0] + q
  <2>1. t.quantity = q
    OBVIOUS
  <2> HIDE DEF t
  <2> QED
    BY <1>1, <1>2, <1>5, <2>1, TotalsOfAppend
<1>7. f[0] \in Nat
  BY <1>2, <1>5, TotalsAreNatural
<1>8. SafeAfter(queue[FALSE].ahead, estimated[FALSE], f[0] + q, venue.ahead - front,
                venue.filled + Smaller(Wanted - venue.filled, q - front))
  BY <1>2, <1>5, <1>7, TradeIsSafe
<1> QED
  BY <1>1, <1>4, <1>6, <1>8 DEF ConservativeInv

\* A report of a trade is told to the estimate, or is the last thing seen.
LEMMA TradeFrameKeepsInv ==
  ASSUME ConservativeInv, TradeFrame
  PROVE  ConservativeInv'
<1> DEFINE ahead == queue[FALSE].ahead
<1>1. /\ venue.ahead \in Nat /\ venue.filled \in 0..Wanted
      /\ ahead \in Nat /\ estimated[FALSE] \in 0..Wanted
      /\ trades \in Seq(TradeReport) /\ IsEstimate(queue[FALSE], ahead)
  BY DEF ConservativeInv, QueueTypeOK
<1>2. trades # <<>> /\ trades' = Tail(trades) /\ UNCHANGED <<venue, now>>
  BY DEF TradeFrame
<1>3. trades' \in Seq(TradeReport) /\ Head(trades) \in TradeReport
  BY <1>1, <1>2
<1>4. PICK q \in Nat : q = Head(trades).quantity
  BY <1>3 DEF TradeReport
<1>5. PICK f : /\ Totals(f, trades)
               /\ SafeAfter(ahead, estimated[FALSE], f[0], venue.ahead, venue.filled)
  BY DEF ConservativeInv
<1>6. PICK g : Totals(g, trades') /\ f[0] = g[0] + q
  BY <1>1, <1>2, <1>4, <1>5, TotalsOfTail
<1>7. g[0] \in Nat
  BY <1>3, <1>6, TotalsAreNatural
<1>8. SafeAfter(ahead, estimated[FALSE], g[0] + q, venue.ahead, venue.filled)
  BY <1>5, <1>6
<1> HIDE DEF ahead
<1>9. CASE UNCHANGED <<queue, estimated>>
  <2>1. SafeAfter(ahead, estimated[FALSE], g[0], venue.ahead - 0, venue.filled)
    <3>1. 0 \in 0..venue.ahead
      BY <1>1
    <3> QED
      BY <1>1, <1>7, <1>8, <3>1, SafeWithLess
  <2>2. venue.ahead - 0 = venue.ahead
    BY <1>1
  <2>3. QueueTypeOK'
    BY <1>2, <1>3, <1>9 DEF ConservativeInv, QueueTypeOK
  <2> QED
    BY <1>2, <1>6, <1>9, <2>1, <2>2, <2>3 DEF ConservativeInv, ahead
<1>10. CASE /\ queue'[FALSE] = Trade(queue[FALSE], now, q)
            /\ estimated'[FALSE] = estimated[FALSE] +
                 TradeFills(queue[FALSE], now, q, Wanted - estimated[FALSE])
  <2>1. IsEstimate(queue'[FALSE], ahead - Smaller(ahead, q))
    BY <1>1, <1>10, ConservativeTrade
  <2>2. TradeFills(queue[FALSE], now, q, Wanted - estimated[FALSE])
          = Smaller(Wanted - estimated[FALSE], q - Smaller(ahead, q))
    <3>1. FillsBehind(queue[FALSE], ahead)
      BY <1>1, ConservativeFills
    <3> QED
      BY <3>1, Zenon DEF FillsBehind
  <2>3. /\ queue'[FALSE].ahead = ahead - Smaller(ahead, q)
        /\ estimated'[FALSE] = estimated[FALSE] + Smaller(Wanted - estimated[FALSE], q - Smaller(ahead, q))
    BY <1>10, <2>1, <2>2 DEF IsEstimate
  <2>4. queue'[FALSE].ahead \in Nat /\ estimated'[FALSE] \in 0..Wanted
    <3>1. /\ ahead - Smaller(ahead, q) \in Nat
          /\ estimated[FALSE] + Smaller(Wanted - estimated[FALSE], q - Smaller(ahead, q)) \in 0..Wanted
      BY <1>1, FillsWithinOrder
    <3> QED
      BY <2>3, <3>1
  <2>5. QueueTypeOK'
    <3>1. IsEstimate(queue'[FALSE], queue'[FALSE].ahead)
      BY <2>1, <2>3
    <3> QED
      BY <1>2, <1>3, <2>4, <3>1 DEF ConservativeInv, QueueTypeOK
  <2>6. SafeAfter(ahead - Smaller(ahead, q),
                  estimated[FALSE] + Smaller(Wanted - estimated[FALSE], q - Smaller(ahead, q)),
                  g[0], venue.ahead, venue.filled)
    BY <1>1, <1>7, <1>8, ReportIsSafe
  <2>7. SafeAfter(queue'[FALSE].ahead, estimated'[FALSE], g[0], venue'.ahead, venue'.filled)
    BY <1>2, <2>3, <2>6
  <2> QED
    BY <1>6, <2>5, <2>7 DEF ConservativeInv
<1>11. \/ UNCHANGED <<queue, estimated>>
       \/ /\ queue'[FALSE] = Trade(queue[FALSE], now, q)
          /\ estimated'[FALSE] = estimated[FALSE] +
               TradeFills(queue[FALSE], now, q, Wanted - estimated[FALSE])
  BY <1>4 DEF TradeFrame
<1> QED
  BY <1>9, <1>10, <1>11

LEMMA StepKeepsConservativeInv ==
  ASSUME ConservativeInv, [Next]_vars PROVE ConservativeInv'
<1>1. CASE UNCHANGED vars
  <2>1. 0 \in 0..venue.ahead /\ venue.ahead - 0 = venue.ahead
    BY DEF ConservativeInv, QueueTypeOK
  <2> QED
    BY <1>1, <2>1, NoTradeKeepsInv DEF vars, ConservativeInv, QueueTypeOK
<1>0. venue.events \in Nat /\ venue.events + 1 \in Nat
  BY DEF ConservativeInv, QueueTypeOK
<1>2. CASE Joins
  <2>1. 0 \in 0..venue.ahead /\ venue.ahead - 0 = venue.ahead /\ venue.behind + 1 \in Nat
        /\ venue.filled + 0 = venue.filled
    BY DEF ConservativeInv, QueueTypeOK
  <2> QED
    BY <1>0, <1>2, <2>1, NoTradeKeepsInv DEF Joins, VenueChanges, ConservativeInv, QueueTypeOK
<1>3. ASSUME NEW q \in Nat, CancelsAhead(q) PROVE ConservativeInv'
  <2>1. q \in 0..venue.ahead /\ venue.filled + 0 = venue.filled
    BY <1>3 DEF CancelsAhead, ConservativeInv, QueueTypeOK
  <2> QED
    BY <1>0, <1>3, <2>1, NoTradeKeepsInv DEF CancelsAhead, VenueChanges, ConservativeInv, QueueTypeOK
<1>4. ASSUME NEW q \in Nat, CancelsBehind(q) PROVE ConservativeInv'
  <2>1. 0 \in 0..venue.ahead /\ venue.ahead - 0 = venue.ahead /\ venue.behind - q \in Nat
        /\ venue.filled + 0 = venue.filled
    BY <1>4 DEF CancelsBehind, ConservativeInv, QueueTypeOK
  <2> QED
    BY <1>0, <1>4, <2>1, NoTradeKeepsInv DEF CancelsBehind, VenueChanges, ConservativeInv, QueueTypeOK
<1>5. ASSUME NEW q \in Nat, Trades(q) PROVE ConservativeInv'
  BY <1>5, TradesKeepsInv
<1>6. CASE Tick \/ DepthFrame \/ OtherFrame
  <2>1. UNCHANGED <<estimated, trades, venue>> /\ now' \in Nat
    <3>1. now \in Nat
      BY DEF ConservativeInv, QueueTypeOK
    <3>2. CASE Tick
      BY <3>1, <3>2 DEF Tick
    <3>3. CASE DepthFrame
      BY <3>1, <3>3 DEF DepthFrame
    <3>4. CASE OtherFrame
      BY <3>1, <3>4 DEF OtherFrame
    <3> QED
      BY <1>6, <3>2, <3>3, <3>4
  <2>2. \/ queue'[FALSE] = queue[FALSE]
        \/ \E d : queue'[FALSE] = Depth(queue[FALSE], now, d)
        \/ queue'[FALSE] = Advance(queue[FALSE], now)
    BY <1>6 DEF Tick, DepthFrame, OtherFrame
  <2>3. IsEstimate(queue'[FALSE], queue[FALSE].ahead)
    <3>1. IsEstimate(queue[FALSE], queue[FALSE].ahead)
      BY DEF ConservativeInv, QueueTypeOK
    <3> QED
      BY <2>2, <3>1, ConservativeAdvance
  <2>4. 0 \in 0..venue.ahead /\ venue.ahead - 0 = venue.ahead /\ venue.behind \in Nat
    BY DEF ConservativeInv, QueueTypeOK
  <2> QED
    BY <1>0, <2>1, <2>3, <2>4, NoTradeKeepsInv
<1>7. CASE TradeFrame
  BY <1>7, TradeFrameKeepsInv
<1>8. 1..(Displayed + MaxJoined) \subseteq Nat
  BY QueueConstants
<1> QED
  BY <1>1, <1>2, <1>3, <1>4, <1>5, <1>6, <1>7, <1>8 DEF Next

\* What the estimate is told, and what is on its way.
LEMMA ConservativeInvHolds == Spec => []ConservativeInv
<1>1. Init => ConservativeInv
  <2> SUFFICES ASSUME Init PROVE ConservativeInv
    OBVIOUS
  <2>1. QueueTypeOK
    BY QueueConstants DEF Init, QueueTypeOK, NewQueue, IsEstimate
  <2>2. \E f : Totals(f, trades) /\ f[0] = 0
    <3> WITNESS [i \in 0..0 |-> 0]
    <3> QED
      BY DEF Init, Totals
  <2>3. SafeAfter(Displayed, 0, 0, Displayed, 0)
    BY QueueConstants DEF SafeAfter, Positive, Smaller
  <2> QED
    BY <2>1, <2>2, <2>3 DEF Init, NewQueue, ConservativeInv
<1>2. ConservativeInv /\ [Next]_vars => ConservativeInv'
  BY StepKeepsConservativeInv
<1> QED
  BY <1>1, <1>2, PTL DEF Spec

\* The conservative scenario of PassiveQueue (passive_queue.hpp, advance, depth
\* and trade): it takes only trades off what is ahead, so it is never nearer to
\* the front than the order, and never done more than the venue does.
THEOREM ConservativeNeverOverstates == Spec => []ConservativeIsSafe
<1>1. ConservativeInv => ConservativeIsSafe
  <2> SUFFICES ASSUME ConservativeInv PROVE ConservativeIsSafe
    OBVIOUS
  <2>1. PICK f : /\ Totals(f, trades)
                 /\ SafeAfter(queue[FALSE].ahead, estimated[FALSE], f[0], venue.ahead, venue.filled)
    BY DEF ConservativeInv
  <2>2. f[0] \in Nat
    BY <2>1, TotalsAreNatural DEF ConservativeInv, QueueTypeOK
  <2> QED
    BY <2>1, <2>2, SafeNow DEF ConservativeInv, QueueTypeOK, ConservativeIsSafe
<1> QED
  BY <1>1, ConservativeInvHolds, PTL

-----------------------------------------------------------------------------
(* The favorable estimate: what was removed counts once. *)

Change == [time : Nat, quantity : Nat]

Sorted(changes) ==
  \A i, j \in DOMAIN changes : i <= j => changes[i].time <= changes[j].time

\* Changes after a time, and until it.
After(time) == {x \in Change : x.time > time}
Until(time) == {x \in Change : x.time <= time}

\* The members of one sequence are members of another, with less of a quantity.
TimesOf(new, changes) ==
  \A i \in DOMAIN new : \E j \in DOMAIN changes : new[i].time = changes[j].time

\* The members of a sequence of changes.
LEMMA Members ==
  ASSUME NEW changes \in Seq(Change)
  PROVE  /\ Len(changes) \in Nat /\ DOMAIN changes = 1..Len(changes)
         /\ \A i \in DOMAIN changes :
              changes[i] \in Change /\ changes[i].time \in Nat /\ changes[i].quantity \in Nat
<1>1. /\ Len(changes) \in Nat /\ DOMAIN changes = 1..Len(changes)
      /\ \A i \in DOMAIN changes : changes[i] \in Change
  OBVIOUS
<1>2. \A x \in Change : x.time \in Nat /\ x.quantity \in Nat
  BY DEF Change
<1> QED
  BY <1>1, <1>2

\* A total is what is counted of all changes.
LEMMA TotalIsCounted ==
  ASSUME NEW changes \in Seq(Change)
  PROVE  TotalOf(changes) = Counted(changes, Change) /\ TotalOf(changes) \in Nat
<1>1. Quantified(Change)
  BY DEF Quantified, Change
<1>2. Part(changes, Change) = [i \in DOMAIN changes |-> changes[i].quantity]
  BY DEF Part
<1>3. Counted(changes, Change) \in Nat
  BY <1>1, CountedType
<1> QED
  BY <1>2, <1>3 DEF TotalOf, Counted

\* The loop of advance() ends somewhere.
LEMMA StaleExists ==
  ASSUME NEW changes \in Seq(Change), Sorted(changes), NEW time \in Nat
  PROVE  /\ Stale(changes, time) \in 0..Len(changes)
         /\ \A i \in 1..Stale(changes, time) : changes[i].time < time - Window
         /\ \A i \in (Stale(changes, time) + 1)..Len(changes) : changes[i].time >= time - Window
<1> DEFINE n == Len(changes)
           t(i) == changes[i].time
           ends(k) == /\ \A i \in 1..k : time - t(i) > Window
                      /\ k < n => time - t(k + 1) <= Window
           S == {k \in 0..n : k = n \/ time - t(k + 1) <= Window}
<1>1. /\ n \in Nat /\ DOMAIN changes = 1..n /\ Window \in Nat
      /\ \A i \in 1..n : t(i) \in Nat
      /\ \A i, j \in 1..n : i <= j => t(i) <= t(j)
  <2>1. n \in Nat /\ DOMAIN changes = 1..n /\ \A i \in 1..n : changes[i] \in Change
    OBVIOUS
  <2>2. \A x \in Change : x.time \in Nat
    BY DEF Change
  <2>3. \A i, j \in 1..n : i <= j => t(i) <= t(j)
    BY <2>1 DEF Sorted
  <2> QED
    BY QueueConstants, <2>1, <2>2, <2>3
<1>2. Stale(changes, time) = CHOOSE k \in 0..n : ends(k)
  BY DEF Stale
<1> HIDE DEF n, t
<1>3. \E k \in 0..n : ends(k)
  <2>1. S \subseteq Nat /\ n \in S
    BY <1>1
  <2>2. PICK k \in S : \A j \in S : k <= j
    <3> HIDE DEF S
    <3> QED
      BY <2>1, LeastNatural
  <2>3. k \in 0..n /\ k \in Nat
    BY <1>1
  <2>4. ASSUME NEW i \in 1..k PROVE time - t(i) > Window
    <3>1. i - 1 \in 0..n /\ i - 1 < k /\ (i - 1) + 1 = i /\ i - 1 # n /\ i \in 1..n
      BY <1>1, <2>3
    <3>2. i - 1 \notin S
      <4> HIDE DEF S
      <4> QED
        BY <2>1, <2>2, <2>3, <3>1
    <3>3. ~(time - t(i) <= Window)
      BY <3>1, <3>2
    <3> QED
      BY <1>1, <3>1, <3>3
  <2>5. k < n => time - t(k + 1) <= Window
    BY <1>1, <2>3
  <2> QED
    BY <2>3, <2>4, <2>5
<1>4. Stale(changes, time) \in 0..n /\ ends(Stale(changes, time))
  BY <1>2, <1>3, Zenon
<1> DEFINE m == Stale(changes, time)
<1> HIDE DEF m
<1>5. m \in 0..n /\ ends(m)
  BY <1>4 DEF m
<1>6. ASSUME NEW i \in 1..m PROVE t(i) < time - Window
  <2>1. i \in 1..n /\ time - t(i) > Window
    BY <1>1, <1>5
  <2> QED
    BY <1>1, <2>1
<1>7. ASSUME NEW i \in (m + 1)..n PROVE t(i) >= time - Window
  <2>1. i \in 1..n /\ m + 1 \in 1..n /\ m + 1 <= i /\ m < n
    BY <1>1, <1>5
  <2>2. time - t(m + 1) <= Window /\ t(m + 1) <= t(i)
    BY <1>1, <1>5, <2>1
  <2> QED
    BY <1>1, <2>1, <2>2
<1> QED
  BY <1>4, <1>6, <1>7 DEF m, n, t

\* The changes that are kept, and those that are not.
LEMMA Parted ==
  ASSUME NEW changes \in Seq(Change), NEW k \in 0..Len(changes)
  PROVE  /\ SubSeq(changes, 1, k) \in Seq(Change) /\ Len(SubSeq(changes, 1, k)) = k
         /\ SubSeq(changes, k + 1, Len(changes)) \in Seq(Change)
         /\ Len(SubSeq(changes, k + 1, Len(changes))) = Len(changes) - k
         /\ \A i \in 1..k : SubSeq(changes, 1, k)[i] = changes[i]
         /\ \A i \in 1..(Len(changes) - k) :
              SubSeq(changes, k + 1, Len(changes))[i] = changes[i + k]
         /\ changes = SubSeq(changes, 1, k) \o SubSeq(changes, k + 1, Len(changes))
<1> DEFINE n == Len(changes)
           front == SubSeq(changes, 1, k)
           back == SubSeq(changes, k + 1, n)
<1>1. n \in Nat /\ k \in Nat /\ k <= n /\ 1 \in Int /\ n \in Int /\ k + 1 \in Int
  OBVIOUS
<1>2. front \in Seq(Change) /\ Len(front) = k /\ \A i \in 1..k : front[i] = changes[i]
  BY <1>1
<1>3. back \in Seq(Change) /\ Len(back) = n - k /\ \A i \in 1..(n - k) : back[i] = changes[i + k]
  <2>1. \A i \in (k + 1)..n : changes[i] \in Change
    BY <1>1
  <2>2. /\ back \in Seq(Change) /\ Len(back) = IF k + 1 <= n THEN n - (k + 1) + 1 ELSE 0
        /\ \A i \in 1..(n - (k + 1) + 1) : back[i] = changes[(k + 1) + i - 1]
    <3> HIDE DEF n
    <3> QED
      BY <1>1, <2>1, SubSeqProperties
  <2>3. n - (k + 1) + 1 = n - k /\ \A i \in 1..(n - k) : (k + 1) + i - 1 = i + k
    BY <1>1
  <2> HIDE DEF back, n
  <2> QED
    BY <1>1, <2>2, <2>3
<1>4. changes = front \o back
  <2>1. SubSeq(changes, 1, n) = changes
    BY SubSeqFull
  <2>2. 1 \in 1..(Len(changes) + 1) /\ k \in (1 - 1)..Len(changes) /\ Len(changes) \in k..Len(changes)
    BY <1>1
  <2>3. SubSeq(changes, 1, k) \o SubSeq(changes, k + 1, Len(changes)) = SubSeq(changes, 1, Len(changes))
    BY <2>2, ConcatAdjacentSubSeq
  <2> QED
    BY <2>1, <2>3 DEF front, back
<1> QED
  BY <1>2, <1>3, <1>4 DEF front, back

\* What is kept of sorted changes, and what has expired.
Keeps(new, old, changes, time) ==
  /\ new \in Seq(Change) /\ old \in Seq(Change) /\ changes \in Seq(Change)
  /\ changes = old \o new
  /\ Sorted(new) /\ TimesOf(new, changes)
  /\ \A i \in DOMAIN old : old[i].time < time - Window
  /\ \A i \in DOMAIN new : new[i].time >= time - Window

\* advance() on one of the two lists.
LEMMA CurrentKeeps ==
  ASSUME NEW changes \in Seq(Change), Sorted(changes), NEW time \in Nat
  PROVE  Keeps(Current(changes, time), Expired(changes, time), changes, time)
<1> DEFINE k == Stale(changes, time)
           n == Len(changes)
           old == SubSeq(changes, 1, k)
           new == SubSeq(changes, k + 1, n)
<1>1. /\ k \in 0..n /\ n \in Nat /\ DOMAIN changes = 1..n
      /\ \A i \in 1..k : changes[i].time < time - Window
      /\ \A i \in (k + 1)..n : changes[i].time >= time - Window
  BY StaleExists
<1>2. /\ old \in Seq(Change) /\ Len(old) = k
      /\ new \in Seq(Change) /\ Len(new) = n - k
      /\ \A i \in 1..k : old[i] = changes[i]
      /\ \A i \in 1..(n - k) : new[i] = changes[i + k]
      /\ changes = old \o new
  BY <1>1, Parted
<1>3. Expired(changes, time) = old /\ Current(changes, time) = new
  BY DEF Expired, Current
<1>4. \A i, j \in 1..n : i <= j => changes[i].time <= changes[j].time
  BY <1>1 DEF Sorted
<1> HIDE DEF k, n, old, new
<1>5. DOMAIN old = 1..k /\ DOMAIN new = 1..(n - k) /\ k \in Nat
  BY <1>1, <1>2
<1>6. \A i \in 1..(n - k) : i + k \in (k + 1)..n /\ i + k \in 1..n
  BY <1>1, <1>5
<1>7. Sorted(new)
  <2> SUFFICES ASSUME NEW i \in 1..(n - k), NEW j \in 1..(n - k), i <= j
               PROVE  new[i].time <= new[j].time
    BY <1>5 DEF Sorted
  <2>1. i + k <= j + k
    BY <1>5
  <2> QED
    BY <1>2, <1>4, <1>6, <2>1
<1>8. TimesOf(new, changes)
  BY <1>1, <1>2, <1>5, <1>6 DEF TimesOf
<1>9. \A i \in DOMAIN old : old[i].time < time - Window
  BY <1>1, <1>2, <1>5
<1>10. \A i \in DOMAIN new : new[i].time >= time - Window
  BY <1>1, <1>2, <1>5, <1>6
<1> QED
  BY <1>2, <1>3, <1>7, <1>8, <1>9, <1>10 DEF Keeps

\* A time is the larger of it and the last one that has expired.
Since(time, s) == IF s < time - Window - 1 THEN time - Window - 1 ELSE s

\* What is counted of the changes that are kept.
LEMMA KeptCounts ==
  ASSUME NEW new, NEW old, NEW changes, NEW time \in Nat, Keeps(new, old, changes, time),
         NEW s \in Int
  PROVE  /\ Counted(new, After(s)) = Counted(changes, After(Since(time, s)))
         /\ Counted(new, Until(s)) <= Counted(changes, Until(s))
         /\ Counted(new, Until(s)) \in Nat /\ Counted(changes, Until(s)) \in Nat
<1>1. /\ new \in Seq(Change) /\ old \in Seq(Change) /\ changes = old \o new
      /\ \A i \in DOMAIN old : old[i].time < time - Window
      /\ \A i \in DOMAIN new : new[i].time >= time - Window
  BY DEF Keeps
<1>2. Quantified(Change)
  BY DEF Quantified, Change
<1>3. /\ \A i \in DOMAIN old : old[i] \in Change /\ old[i].time \in Nat
      /\ \A i \in DOMAIN new : new[i] \in Change /\ new[i].time \in Nat
  BY <1>1, Members
<1>4. Window \in Nat
  BY QueueConstants
<1> DEFINE z == Since(time, s)
<1>5. z \in Int /\ (z = s \/ (s < z /\ z = time - Window - 1)) /\ z >= time - Window - 1
  BY <1>4 DEF Since
<1> HIDE DEF z
<1>6. /\ Counted(changes, After(z)) = Counted(old, After(z)) + Counted(new, After(z))
      /\ Counted(new, After(z)) \in Nat
  BY <1>1, <1>2, CountedConcat
<1>7. Counted(old, After(z)) = 0
  <2>1. \A i \in DOMAIN old : ~(old[i].time > z)
    BY <1>1, <1>3, <1>4, <1>5
  <2>2. \A i \in DOMAIN old : old[i] \notin After(z)
    BY <2>1 DEF After
  <2> QED
    BY <2>2, CountedNone
<1>8. Counted(new, After(s)) = Counted(new, After(z))
  <2>1. \A i \in DOMAIN new : new[i].time > s <=> new[i].time > z
    BY <1>1, <1>3, <1>4, <1>5
  <2>2. \A i \in DOMAIN new : new[i] \in After(s) <=> new[i] \in After(z)
    BY <2>1 DEF After
  <2> QED
    BY <2>2, CountedSame
<1>9. /\ Counted(changes, Until(s)) = Counted(old, Until(s)) + Counted(new, Until(s))
      /\ Counted(old, Until(s)) \in Nat /\ Counted(new, Until(s)) \in Nat
  BY <1>1, <1>2, CountedConcat
<1> QED
  BY <1>6, <1>7, <1>8, <1>9 DEF z

\* What has expired.
LEMMA KeptTotal ==
  ASSUME NEW new, NEW old, NEW changes, NEW time \in Nat, Keeps(new, old, changes, time)
  PROVE  /\ TotalOf(changes) = TotalOf(old) + TotalOf(new)
         /\ TotalOf(old) \in Nat /\ TotalOf(new) \in Nat
         /\ TotalOf(old) <= Counted(changes, Until(time - Window - 1))
<1>1. /\ new \in Seq(Change) /\ old \in Seq(Change) /\ changes \in Seq(Change)
      /\ changes = old \o new
      /\ \A i \in DOMAIN old : old[i].time < time - Window
  BY DEF Keeps
<1>2. Quantified(Change)
  BY DEF Quantified, Change
<1>3. /\ TotalOf(changes) = Counted(changes, Change) /\ TotalOf(old) = Counted(old, Change)
      /\ TotalOf(new) = Counted(new, Change)
  BY <1>1, TotalIsCounted
<1>4. /\ Counted(changes, Change) = Counted(old, Change) + Counted(new, Change)
      /\ Counted(old, Change) \in Nat /\ Counted(new, Change) \in Nat
  BY <1>1, <1>2, CountedConcat
<1> DEFINE U == Until(time - Window - 1)
<1>5. Counted(old, Change) = Counted(old, U)
  <2>1. \A i \in DOMAIN old : old[i] \in Change /\ old[i].time \in Nat
    BY <1>1, Members
  <2>2. \A i \in DOMAIN old : old[i].time <= time - Window - 1
    BY <1>1, <2>1, QueueConstants
  <2>3. \A i \in DOMAIN old : old[i] \in Change <=> old[i] \in U
    BY <2>1, <2>2 DEF Until
  <2> HIDE DEF U
  <2> QED
    BY <2>3, CountedSame
<1> HIDE DEF U
<1>6. Counted(changes, U) = Counted(old, U) + Counted(new, U) /\ Counted(new, U) \in Nat
      /\ Counted(old, U) \in Nat
  BY <1>1, <1>2, CountedConcat
<1> QED
  BY <1>3, <1>4, <1>5, <1>6 DEF U

\* The number of changes that match() uses up exists.
LEMMA WholeChangesExist ==
  ASSUME NEW changes \in Seq(Change), NEW q \in Nat
  PROVE  /\ WholeChanges(changes, q) \in 0..Len(changes)
         /\ TotalOf(SubSeq(changes, 1, WholeChanges(changes, q))) <= q
         /\ WholeChanges(changes, q) < Len(changes) =>
              q < TotalOf(SubSeq(changes, 1, WholeChanges(changes, q) + 1))
<1> DEFINE n == Len(changes)
           upto(k) == TotalOf(SubSeq(changes, 1, k))
           enough(k) == /\ upto(k) <= q
                        /\ k < n => q < upto(k + 1)
           S == {k \in 0..n : q < upto(k)}
<1>1. n \in Nat
  OBVIOUS
<1>2. \A k \in 0..n : upto(k) \in Nat
  <2> SUFFICES ASSUME NEW k \in 0..n PROVE upto(k) \in Nat
    OBVIOUS
  <2>1. SubSeq(changes, 1, k) \in Seq(Change)
    BY Parted
  <2> QED
    BY <2>1, TotalIsCounted
<1>3. upto(0) = 0
  <2>1. SubSeq(changes, 1, 0) = <<>> /\ <<>> \in Seq(Change)
    BY SubSeqEmpty
  <2>2. Counted(<<>>, Change) = 0
    BY CountedEmpty
  <2> QED
    BY <2>1, <2>2, TotalIsCounted
<1>4. WholeChanges(changes, q) = CHOOSE k \in 0..n : enough(k)
  BY DEF WholeChanges
<1> HIDE DEF upto, n
<1>5. \E k \in 0..n : enough(k)
  <2>1. CASE S = {}
    <3>1. n \in 0..n /\ upto(n) <= q
      BY <1>1, <1>2, <2>1
    <3> QED
      BY <1>1, <3>1
  <2>2. CASE S # {}
    <3>1. S \subseteq Nat
      BY <1>1
    <3>2. PICK k \in S : \A j \in S : k <= j
      BY <2>2, <3>1, LeastNatural
    <3>3. k # 0 /\ k \in 0..n
      BY <1>3, <3>2
    <3>4. k - 1 \in 0..n /\ k - 1 \notin S /\ (k - 1) + 1 = k
      BY <1>1, <3>2, <3>3
    <3>5. upto(k - 1) <= q /\ q < upto((k - 1) + 1)
      BY <1>2, <3>2, <3>4
    <3> QED
      BY <3>4, <3>5
  <2> QED
    BY <2>1, <2>2
<1>6. WholeChanges(changes, q) \in 0..n /\ enough(WholeChanges(changes, q))
  BY <1>4, <1>5, Zenon
<1> QED
  BY <1>6 DEF upto, n

\* A change of which a part has been matched.
Less(h, part) == [h EXCEPT !.quantity = @ - part]

\* match() uses up some changes and a part of the next.
UsesUp(new, changes, q, front, h, part, rest) ==
  /\ front \in Seq(Change) /\ h \in Change /\ rest \in Seq(Change) /\ part \in Nat
  /\ Less(h, part) \in Change
  /\ Less(h, part).quantity = h.quantity - part /\ Less(h, part).time = h.time
  /\ changes = (front \o <<h>>) \o rest
  /\ new = <<Less(h, part)>> \o rest
  /\ part = q - TotalOf(front) /\ part < h.quantity

\* It uses up all of them, or some.
LEMMA MatchParts ==
  ASSUME NEW changes \in Seq(Change), NEW q \in Nat
  PROVE  \/ Match(changes, q) = <<>> /\ TotalOf(changes) <= q
         \/ \E front, h, part, rest : UsesUp(Match(changes, q), changes, q, front, h, part, rest)
<1> DEFINE n == Len(changes)
           k == WholeChanges(changes, q)
           front == SubSeq(changes, 1, k)
           back == SubSeq(changes, k + 1, n)
           part == q - TotalOf(front)
           h == back[1]
           rest == Tail(back)
<1>1. n \in Nat /\ k \in 0..n /\ TotalOf(front) <= q
  BY WholeChangesExist
<1>2. /\ front \in Seq(Change) /\ back \in Seq(Change) /\ Len(back) = n - k /\ changes = front \o back
  BY <1>1, Parted
<1>3. TotalOf(front) \in Nat
  BY <1>2, TotalIsCounted
<1>4. part \in Nat
  BY <1>1, <1>3
<1>5. CASE back = <<>>
  <2>1. Match(changes, q) = <<>>
    BY <1>5 DEF Match
  <2>2. k = n
    <3> HIDE DEF back, k, n
    <3> QED
      BY <1>1, <1>2, <1>5
  <2>3. front = changes
    <3>1. SubSeq(changes, 1, n) = changes
      BY SubSeqFull
    <3> QED
      BY <2>2, <3>1
  <2> QED
    BY <1>1, <2>1, <2>3
<1>6. CASE back # <<>>
  <2>1. k < n
    BY <1>1, <1>2, <1>6
  <2>2. h \in Change /\ rest \in Seq(Change) /\ back = <<h>> \o rest /\ Head(back) = h
    <3> HIDE DEF back
    <3> QED
      BY <1>2, <1>6
  <2>3. h.time \in Nat /\ h.quantity \in Nat
    BY <2>2 DEF Change
  <2>4. SubSeq(changes, 1, k + 1) = front \o <<h>>
    <3>1. changes[k + 1] = h
      <4>1. \A i \in 1..(n - k) : back[i] = changes[i + k]
        BY <1>1, Parted
      <4>2. 1 \in 1..(n - k) /\ 1 + k = k + 1
        BY <1>1, <2>1
      <4> HIDE DEF back, n, k
      <4> QED
        BY <4>1, <4>2
    <3>2. /\ 1 \in 1..n /\ k + 1 \in 1..n /\ (k + 1) - 1 = k
      BY <1>1, <2>1
    <3>3. SubSeq(changes, 1, k + 1) = SubSeq(changes, 1, (k + 1) - 1) \o <<changes[k + 1]>>
      BY <3>2, SubSeqRecursiveSecond
    <3> HIDE DEF k, h
    <3> QED
      BY <3>1, <3>2, <3>3
  <2>5. q < TotalOf(front \o <<h>>)
    BY <2>1, <2>4, WholeChangesExist
  <2>6. TotalOf(front \o <<h>>) = TotalOf(front) + h.quantity
    <3> HIDE DEF front, h
    <3>1. /\ front \o <<h>> \in Seq(Change) /\ <<h>> \in Seq(Change)
      BY <1>2, <2>2
    <3>2. Quantified(Change)
      BY DEF Quantified, Change
    <3>3. TotalOf(front \o <<h>>) = Counted(front \o <<h>>, Change) /\ TotalOf(front) = Counted(front, Change)
      BY <1>2, <3>1, TotalIsCounted
    <3> DEFINE one == <<h>>
    <3>4. Counted(one, Change) = Share(h, Change) /\ Share(h, Change) = h.quantity
      BY <2>2, <3>2, CountedOne DEF Share
    <3> HIDE DEF one
    <3>5. Counted(front \o one, Change) = Counted(front, Change) + Counted(one, Change)
      BY <1>2, <3>1, <3>2, CountedConcat DEF one
    <3> QED
      BY <3>3, <3>4, <3>5 DEF one
  <2>7. part < h.quantity
    <3> HIDE DEF front, h
    <3> QED
      BY <1>3, <2>3, <2>5, <2>6
  <2>8. Match(changes, q) = <<[Head(back) EXCEPT !.quantity = @ - part]>> \o Tail(back)
    BY <1>6 DEF Match
  <2> HIDE DEF part, h
  <2>9. [h EXCEPT !.quantity = @ - part] = Less(h, part)
    BY DEF Less
  <2>10. /\ Less(h, part) \in Change /\ Less(h, part).quantity = h.quantity - part
         /\ Less(h, part).time = h.time
    <3>1. h.quantity - part \in Nat
      BY <1>4, <2>3, <2>7
    <3>2. h \in [time : Nat, quantity : Nat]
      BY <2>2 DEF Change
    <3>3. [h EXCEPT !.quantity = h.quantity - part] \in [time : Nat, quantity : Nat]
      BY <3>1, <3>2
    <3>4. /\ [h EXCEPT !.quantity = h.quantity - part].quantity = h.quantity - part
          /\ [h EXCEPT !.quantity = h.quantity - part].time = h.time
      BY <3>2
    <3> QED
      BY <3>3, <3>4 DEF Less, Change
  <2>11. changes = (front \o <<h>>) \o rest
    <3> HIDE DEF front, back, rest
    <3> QED
      BY <1>2, <2>2
  <2>12. Match(changes, q) = <<Less(h, part)>> \o rest
    BY <2>2, <2>8, <2>9
  <2>13. part = q - TotalOf(front)
    BY DEF part
  <2> HIDE DEF rest, front, back, k
  <2>14. UsesUp(Match(changes, q), changes, q, front, h, part, rest)
    BY <1>2, <1>4, <2>2, <2>7, <2>10, <2>11, <2>12, <2>13 DEF UsesUp
  <2> QED
    BY <2>14
<1> QED
  BY <1>5, <1>6

\* What is used up comes before what is not.
LEMMA UsesUpInOrder ==
  ASSUME NEW new, NEW changes \in Seq(Change), Sorted(changes), NEW q, NEW front, NEW h, NEW part,
         NEW rest, UsesUp(new, changes, q, front, h, part, rest)
  PROVE  /\ \A i \in DOMAIN front : front[i].time <= h.time
         /\ \A i \in DOMAIN rest : h.time <= rest[i].time
         /\ new \in Seq(Change) /\ Sorted(new) /\ TimesOf(new, changes)
<1> DEFINE m == Len(front)
           n == Len(rest)
           l == Less(h, part)
<1>1. /\ front \in Seq(Change) /\ h \in Change /\ rest \in Seq(Change) /\ l \in Change
      /\ l.time = h.time
      /\ changes = (front \o <<h>>) \o rest /\ new = <<l>> \o rest
  BY DEF UsesUp
<1> HIDE DEF l
<1>2. /\ m \in Nat /\ n \in Nat /\ DOMAIN front = 1..m /\ DOMAIN rest = 1..n
      /\ DOMAIN changes = 1..(m + 1 + n)
      /\ \A i \in 1..m : changes[i] = front[i]
      /\ changes[m + 1] = h
      /\ \A i \in 1..n : changes[i + (m + 1)] = rest[i]
  <2> DEFINE back == front \o <<h>>
  <2>1. /\ m \in Nat /\ n \in Nat /\ DOMAIN front = 1..m /\ DOMAIN rest = 1..n
        /\ back \in Seq(Change) /\ Len(back) = m + 1
        /\ \A i \in 1..m : back[i] = front[i]
        /\ back[m + 1] = h
    BY <1>1
  <2> HIDE DEF back, m, n
  <2>2. /\ DOMAIN (back \o rest) = 1..(m + 1 + n)
        /\ \A i \in 1..(m + 1) : (back \o rest)[i] = back[i]
        /\ \A i \in 1..n : (back \o rest)[i + (m + 1)] = rest[i]
    BY <1>1, <2>1 DEF n
  <2>3. \A i \in 1..m : i \in 1..(m + 1)
    BY <2>1
  <2>4. m + 1 \in 1..(m + 1)
    BY <2>1
  <2> QED
    BY <1>1, <2>1, <2>2, <2>3, <2>4 DEF back
<1>3. /\ new \in Seq(Change) /\ DOMAIN new = 1..(n + 1)
      /\ new[1].time = h.time
      /\ \A i \in 2..(n + 1) : new[i] = rest[i - 1]
  <2>1. <<l>> \o rest \in Seq(Change) /\ Len(<<l>> \o rest) = n + 1
        /\ (<<l>> \o rest)[1] = l
        /\ \A i \in 2..(n + 1) : (<<l>> \o rest)[i] = rest[i - 1]
    BY <1>1
  <2> QED
    BY <1>1, <2>1
<1>4. \A i, j \in 1..(m + 1 + n) : i <= j => changes[i].time <= changes[j].time
  BY <1>2 DEF Sorted
<1> HIDE DEF m, n
<1>5. \A i \in 1..(n + 1) : new[i].time = changes[i + m].time /\ i + m \in 1..(m + 1 + n)
  <2> SUFFICES ASSUME NEW i \in 1..(n + 1)
               PROVE  new[i].time = changes[i + m].time /\ i + m \in 1..(m + 1 + n)
    OBVIOUS
  <2>1. i + m \in 1..(m + 1 + n)
    BY <1>2
  <2>2. CASE i = 1
    BY <1>2, <1>3, <2>1, <2>2
  <2>3. CASE i # 1
    <3>1. i \in 2..(n + 1) /\ i - 1 \in 1..n /\ (i - 1) + (m + 1) = i + m
      <4>1. i \in Nat /\ i >= 2 /\ i <= n + 1 /\ m \in Nat /\ n \in Nat
        BY <1>2, <2>3
      <4> QED
        BY <4>1
    <3> QED
      BY <1>2, <1>3, <2>1, <3>1
  <2> QED
    BY <2>2, <2>3
<1>6. \A i \in DOMAIN front : front[i].time <= h.time
  <2> SUFFICES ASSUME NEW i \in 1..m PROVE front[i].time <= h.time
    BY <1>2
  <2>1. i \in 1..(m + 1 + n) /\ m + 1 \in 1..(m + 1 + n) /\ i <= m + 1
    BY <1>2
  <2> QED
    BY <1>2, <1>4, <2>1
<1>7. \A i \in DOMAIN rest : h.time <= rest[i].time
  <2> SUFFICES ASSUME NEW i \in 1..n PROVE h.time <= rest[i].time
    BY <1>2
  <2>1. i + (m + 1) \in 1..(m + 1 + n) /\ m + 1 \in 1..(m + 1 + n) /\ m + 1 <= i + (m + 1)
    BY <1>2
  <2> QED
    BY <1>2, <1>4, <2>1
<1>8. Sorted(new)
  <2> SUFFICES ASSUME NEW i \in 1..(n + 1), NEW j \in 1..(n + 1), i <= j
               PROVE  new[i].time <= new[j].time
    BY <1>3 DEF Sorted
  <2>1. i + m <= j + m
    BY <1>2
  <2> QED
    BY <1>4, <1>5, <2>1
<1>9. TimesOf(new, changes)
  BY <1>2, <1>3, <1>5 DEF TimesOf
<1> QED
  BY <1>3, <1>6, <1>7, <1>8, <1>9

\* What is left of the changes is less by the quantity matched.
LEMMA MatchTotal ==
  ASSUME NEW changes \in Seq(Change), Sorted(changes), NEW q \in Nat
  PROVE  /\ Match(changes, q) \in Seq(Change) /\ Sorted(Match(changes, q))
         /\ TimesOf(Match(changes, q), changes)
         /\ TotalOf(Match(changes, q)) = Positive(TotalOf(changes) - q)
<1> DEFINE new == Match(changes, q)
<1>0. Quantified(Change) /\ TotalOf(changes) \in Nat /\ TotalOf(changes) = Counted(changes, Change)
  BY TotalIsCounted DEF Quantified, Change
<1>1. CASE new = <<>> /\ TotalOf(changes) <= q
  <2>1. new \in Seq(Change) /\ DOMAIN new = {}
    BY <1>1
  <2>2. TotalOf(new) = 0
    <3>1. Counted(<<>>, Change) = 0
      BY CountedEmpty
    <3> HIDE DEF new
    <3> QED
      BY <1>1, <2>1, <3>1, TotalIsCounted
  <2> HIDE DEF new
  <2>3. Positive(TotalOf(changes) - q) = 0
    BY <1>0, <1>1 DEF Positive
  <2> QED
    BY <2>1, <2>2, <2>3 DEF Sorted, TimesOf, new
<1>2. CASE \E front, h, part, rest : UsesUp(new, changes, q, front, h, part, rest)
  <2> HIDE DEF new
  <2>1. PICK front, h, part, rest : UsesUp(new, changes, q, front, h, part, rest)
    BY <1>2
  <2>2. new \in Seq(Change) /\ Sorted(new) /\ TimesOf(new, changes)
    BY <2>1, UsesUpInOrder
  <2> DEFINE l == Less(h, part)
             one == <<h>>
             low == <<l>>
             back == front \o one
  <2>3. /\ front \in Seq(Change) /\ h \in Change /\ rest \in Seq(Change) /\ l \in Change
        /\ part \in Nat /\ l.quantity = h.quantity - part /\ part = q - TotalOf(front)
        /\ part < h.quantity
        /\ changes = back \o rest /\ new = low \o rest
    BY <2>1 DEF UsesUp
  <2>4. back \in Seq(Change) /\ one \in Seq(Change) /\ low \in Seq(Change)
    BY <2>3
  <2>5. /\ Counted(one, Change) = h.quantity /\ Counted(low, Change) = l.quantity
    <3> HIDE DEF l
    <3> QED
      BY <1>0, <2>3, CountedOne DEF Share
  <2> HIDE DEF l, one, low
  <2>6. Counted(back, Change) = Counted(front, Change) + Counted(one, Change)
    BY <1>0, <2>3, <2>4, CountedConcat DEF back
  <2> HIDE DEF back
  <2>7. Counted(changes, Change) = Counted(back, Change) + Counted(rest, Change)
    BY <1>0, <2>3, <2>4, CountedConcat
  <2>8. Counted(new, Change) = Counted(low, Change) + Counted(rest, Change)
    BY <1>0, <2>3, <2>4, CountedConcat
  <2>9. /\ TotalOf(new) = Counted(new, Change) /\ TotalOf(front) = Counted(front, Change)
        /\ Counted(front, Change) \in Nat
    BY <2>2, <2>3, TotalIsCounted
  <2>10. PICK x, y, z \in Nat : x = Counted(front, Change) /\ y = Counted(rest, Change) /\ z = h.quantity
    <3>1. Counted(rest, Change) \in Nat /\ h.quantity \in Nat
      BY <1>0, <2>3, CountedType DEF Quantified
    <3> QED
      BY <2>9, <3>1
  <2>11. TotalOf(new) = (z - part) + y /\ TotalOf(changes) = (x + z) + y /\ part = q - x /\ part < z
    BY <1>0, <2>3, <2>5, <2>6, <2>7, <2>8, <2>9, <2>10
  <2>12. TotalOf(new) = Positive(TotalOf(changes) - q)
    <3>1. part \in Nat /\ part = q - x /\ part < z
      BY <2>3, <2>11
    <3>2. (z - part) + y = Positive(((x + z) + y) - q)
      BY <3>1 DEF Positive
    <3> QED
      BY <2>11, <3>2, Zenon
  <2> QED
    BY <2>2, <2>12 DEF new
<1>3. \/ new = <<>> /\ TotalOf(changes) <= q
      \/ \E front, h, part, rest : UsesUp(new, changes, q, front, h, part, rest)
  BY MatchParts
<1> QED
  BY <1>1, <1>2, <1>3

\* What is counted of the changes, and of what is left of them.
LEMMA UsesUpCounts ==
  ASSUME NEW new, NEW changes, NEW q, NEW front, NEW h, NEW part,
         NEW rest, UsesUp(new, changes, q, front, h, part, rest), NEW X
  PROVE  /\ Counted(changes, X) = (Counted(front, X) + Share(h, X)) + Counted(rest, X)
         /\ Counted(new, X) = Share(Less(h, part), X) + Counted(rest, X)
         /\ Counted(front, X) \in Nat /\ Counted(rest, X) \in Nat
         /\ Share(h, X) \in Nat /\ Share(Less(h, part), X) \in Nat
<1> DEFINE l == Less(h, part)
           one == <<h>>
           low == <<l>>
           back == front \o one
<1>1. Quantified(Change)
  BY DEF Quantified, Change
<1>2. /\ front \in Seq(Change) /\ h \in Change /\ rest \in Seq(Change) /\ l \in Change
      /\ changes = back \o rest /\ new = low \o rest
  BY DEF UsesUp
<1>3. back \in Seq(Change) /\ one \in Seq(Change) /\ low \in Seq(Change)
  BY <1>2
<1>4. /\ Counted(one, X) = Share(h, X) /\ Counted(low, X) = Share(l, X)
      /\ Share(h, X) \in Nat /\ Share(l, X) \in Nat
  <2> HIDE DEF l
  <2> QED
    BY <1>1, <1>2, CountedOne
<1> HIDE DEF l, one, low
<1>5. Counted(back, X) = Counted(front, X) + Counted(one, X) /\ Counted(front, X) \in Nat
  BY <1>1, <1>2, <1>3, CountedConcat DEF back
<1> HIDE DEF back
<1>6. Counted(changes, X) = Counted(back, X) + Counted(rest, X) /\ Counted(rest, X) \in Nat
  BY <1>1, <1>2, <1>3, CountedConcat
<1>7. Counted(new, X) = Counted(low, X) + Counted(rest, X)
  BY <1>1, <1>2, <1>3, CountedConcat
<1> QED
  BY <1>4, <1>5, <1>6, <1>7 DEF l

\* A match takes the oldest changes: what is left after a time is less only by
\* what the changes until then could not make up for.
LEMMA MatchCounts ==
  ASSUME NEW changes \in Seq(Change), Sorted(changes), NEW q \in Nat, NEW s \in Int
  PROVE  /\ Counted(Match(changes, q), After(s))
              = Smaller(Counted(changes, After(s)), Positive(TotalOf(changes) - q))
         /\ Counted(Match(changes, q), Until(s)) = Positive(Counted(changes, Until(s)) - q)
<1> DEFINE new == Match(changes, q)
           F == After(s)
           P == Until(s)
<1>1. Quantified(Change) /\ TotalOf(changes) \in Nat /\ TotalOf(changes) = Counted(changes, Change)
  BY TotalIsCounted DEF Quantified, Change
<1>2. /\ Counted(changes, F) \in Nat /\ Counted(changes, P) \in Nat
      /\ Counted(changes, P) <= TotalOf(changes)
  <2>1. \A i \in DOMAIN changes : changes[i] \in P => changes[i] \in Change
    BY Members
  <2> HIDE DEF F, P
  <2> QED
    BY <1>1, <2>1, CountedType, CountedMore
<1> HIDE DEF new
<1>3. CASE new = <<>> /\ TotalOf(changes) <= q
  <2>1. Counted(new, F) = 0 /\ Counted(new, P) = 0
    BY <1>3, CountedEmpty
  <2> HIDE DEF F, P
  <2>2. Smaller(Counted(changes, F), Positive(TotalOf(changes) - q)) = 0
    BY <1>1, <1>2, <1>3 DEF Smaller, Positive
  <2>3. Positive(Counted(changes, P) - q) = 0
    BY <1>1, <1>2, <1>3 DEF Positive
  <2> QED
    BY <2>1, <2>2, <2>3 DEF new, F, P
<1>4. CASE \E front, h, part, rest : UsesUp(new, changes, q, front, h, part, rest)
  <2>1. PICK front, h, part, rest : UsesUp(new, changes, q, front, h, part, rest)
    BY <1>4
  <2> DEFINE l == Less(h, part)
  <2>2. /\ front \in Seq(Change) /\ h \in Change /\ rest \in Seq(Change) /\ l \in Change
        /\ part \in Nat /\ l.quantity = h.quantity - part /\ part = q - TotalOf(front)
        /\ l.time = h.time /\ part < h.quantity
    BY <2>1 DEF UsesUp
  <2>3. /\ \A i \in DOMAIN front : front[i].time <= h.time
        /\ \A i \in DOMAIN rest : h.time <= rest[i].time
    BY <2>1, UsesUpInOrder
  <2>4. /\ \A i \in DOMAIN front : front[i] \in Change /\ front[i].time \in Nat
        /\ \A i \in DOMAIN rest : rest[i] \in Change /\ rest[i].time \in Nat
        /\ h.time \in Nat /\ h.quantity \in Nat
    <3>1. h.time \in Nat /\ h.quantity \in Nat
      BY <2>2 DEF Change
    <3> QED
      BY <2>2, <3>1, Members
  <2>5. /\ TotalOf(front) = Counted(front, Change) /\ TotalOf(rest) = Counted(rest, Change)
        /\ TotalOf(front) \in Nat /\ TotalOf(rest) \in Nat
    BY <2>2, TotalIsCounted
  <2>6. TotalOf(changes) = (TotalOf(front) + h.quantity) + TotalOf(rest)
    <3>1. Share(h, Change) = h.quantity
      BY <2>2 DEF Share
    <3>2. Counted(changes, Change) = (Counted(front, Change) + Share(h, Change)) + Counted(rest, Change)
      BY <2>1, UsesUpCounts
    <3> QED
      BY <1>1, <2>5, <3>1, <3>2
  <2> HIDE DEF F, P, l
  <2>7. /\ Counted(changes, F) = (Counted(front, F) + Share(h, F)) + Counted(rest, F)
        /\ Counted(new, F) = Share(l, F) + Counted(rest, F)
        /\ Counted(changes, P) = (Counted(front, P) + Share(h, P)) + Counted(rest, P)
        /\ Counted(new, P) = Share(l, P) + Counted(rest, P)
    BY <2>1, UsesUpCounts DEF l
  <2>8. /\ Counted(front, F) \in Nat /\ Counted(rest, F) \in Nat
        /\ Counted(front, P) \in Nat /\ Counted(rest, P) \in Nat
        /\ Counted(front, F) <= TotalOf(front) /\ Counted(rest, F) <= TotalOf(rest)
        /\ Counted(front, P) <= TotalOf(front) /\ Counted(rest, P) <= TotalOf(rest)
    <3>1. \A X : Counted(front, X) \in Nat /\ Counted(rest, X) \in Nat
      BY <1>1, <2>2, CountedType
    <3>2. \A X : /\ \A i \in DOMAIN front : front[i] \in X => front[i] \in Change
                 /\ \A i \in DOMAIN rest : rest[i] \in X => rest[i] \in Change
      BY <2>4
    <3>3. Counted(front, F) <= Counted(front, Change) /\ Counted(front, P) <= Counted(front, Change)
      BY <1>1, <2>2, <3>2, CountedMore
    <3>4. Counted(rest, F) <= Counted(rest, Change) /\ Counted(rest, P) <= Counted(rest, Change)
      BY <1>1, <2>2, <3>2, CountedMore
    <3> QED
      BY <2>5, <3>1, <3>3, <3>4
  <2>9. PICK x, y, z \in Nat : x = TotalOf(front) /\ y = TotalOf(rest) /\ z = h.quantity
    BY <2>4, <2>5
  <2>10. /\ part \in Nat /\ part = q - x /\ part < z /\ TotalOf(changes) = (x + z) + y
    BY <2>2, <2>6, <2>9
  <2>11. Positive(TotalOf(changes) - q) = (z - part) + y
    <3>1. Positive(((x + z) + y) - q) = (z - part) + y
      BY <2>10 DEF Positive
    <3> QED
      BY <2>10, <3>1, Zenon
  <2>12. CASE h.time > s
    <3>1. Share(h, F) = z /\ Share(l, F) = z - part /\ Share(h, P) = 0 /\ Share(l, P) = 0
      <4>1. h \in F /\ l \in F
        BY <2>2, <2>12 DEF F, After
      <4>2. h \notin P /\ l \notin P
        BY <2>2, <2>4, <2>12 DEF P, Until
      <4> QED
        BY <2>2, <2>9, <4>1, <4>2 DEF Share
    <3>2. Counted(rest, F) = y /\ Counted(rest, P) = 0
      <4>1. \A i \in DOMAIN rest : rest[i].time > s
        BY <2>3, <2>4, <2>12
      <4>2. \A i \in DOMAIN rest : (rest[i] \in F <=> rest[i] \in Change) /\ rest[i] \notin P
        BY <2>4, <4>1 DEF F, P, After, Until
      <4>3. Counted(rest, F) = Counted(rest, Change)
        BY <4>2, CountedSame
      <4>4. Counted(rest, P) = 0
        BY <4>2, CountedNone
      <4> QED
        BY <2>5, <2>9, <4>3, <4>4
    <3>3. PICK u, v \in Nat : u = Counted(front, F) /\ v = Counted(front, P) /\ v <= x
      BY <2>8, <2>9
    <3>4. /\ Counted(new, F) = (z - part) + y /\ Counted(changes, F) = (u + z) + y
          /\ Counted(new, P) = 0 /\ Counted(changes, P) = v
      BY <2>7, <2>10, <3>1, <3>2, <3>3
    <3>5. Smaller((u + z) + y, (z - part) + y) = (z - part) + y
      BY <2>10, <3>3 DEF Smaller
    <3>6. Positive(v - q) = 0
      BY <2>10, <3>3 DEF Positive
    <3> QED
      BY <2>11, <3>4, <3>5, <3>6, Zenon DEF new, F, P
  <2>13. CASE ~(h.time > s)
    <3>1. Share(h, F) = 0 /\ Share(l, F) = 0 /\ Share(h, P) = z /\ Share(l, P) = z - part
      <4>1. h \notin F /\ l \notin F
        BY <2>2, <2>13 DEF F, After
      <4>2. h \in P /\ l \in P
        BY <2>2, <2>4, <2>13 DEF P, Until
      <4> QED
        BY <2>2, <2>9, <4>1, <4>2 DEF Share
    <3>2. Counted(front, F) = 0 /\ Counted(front, P) = x
      <4>1. \A i \in DOMAIN front : front[i].time <= s /\ ~(front[i].time > s)
        BY <2>3, <2>4, <2>13
      <4>2. \A i \in DOMAIN front : (front[i] \in P <=> front[i] \in Change) /\ front[i] \notin F
        BY <2>4, <4>1 DEF F, P, After, Until
      <4>3. Counted(front, P) = Counted(front, Change)
        BY <4>2, CountedSame
      <4>4. Counted(front, F) = 0
        BY <4>2, CountedNone
      <4> QED
        BY <2>5, <2>9, <4>3, <4>4
    <3>3. PICK u, v \in Nat : u = Counted(rest, F) /\ v = Counted(rest, P) /\ u <= y
      BY <2>8, <2>9
    <3>4. /\ Counted(new, F) = u /\ Counted(changes, F) = u
          /\ Counted(new, P) = (z - part) + v /\ Counted(changes, P) = (x + z) + v
      BY <2>7, <2>10, <3>1, <3>2, <3>3
    <3>5. Smaller(u, (z - part) + y) = u
      BY <2>10, <3>3 DEF Smaller
    <3>6. Positive(((x + z) + v) - q) = (z - part) + v
      BY <2>10, <3>3 DEF Positive
    <3> QED
      BY <2>11, <3>4, <3>5, <3>6, Zenon DEF new, F, P
  <2> QED
    BY <2>12, <2>13
<1>5. \/ new = <<>> /\ TotalOf(changes) <= q
      \/ \E front, h, part, rest : UsesUp(new, changes, q, front, h, part, rest)
  BY MatchParts DEF new
<1> QED
  BY <1>3, <1>4, <1>5

BookReport == [time : Nat, displayed : Nat, cancelled : Nat, quantity : Nat, event : Nat]

FavorableQueue ==
  [ahead : Nat, displayed : Nat, favorable : {TRUE},
   reductions : Seq(Change), credits : Seq(Change)]

\* The trades that have not been reported.
Pending(ts) == {ts[i].event : i \in DOMAIN ts}

\* Such trades after a time whose depth change has been reported, and depth
\* changes until a time that have not, although their trade, if any, has.
DepthFirst(last, s) == {t \in TradeReport : t.event <= last /\ t.time > s}
TradeFirst(pending, s) == {d \in BookReport : d.event \notin pending /\ d.time <= s}
TradesFirst(pending) == {d \in BookReport : d.event \notin pending}

\* The reports on their way, if those until `last` have been seen in depth: each
\* channel is in order, and a trade's two reports agree.  A trade that has been
\* reported before its depth came before those that have not been reported.
ReportsInOrder(bs, ts, last, time) ==
  /\ bs \in Seq(BookReport) /\ ts \in Seq(TradeReport) /\ last \in Nat /\ time \in Nat
  /\ \A j \in DOMAIN bs : /\ bs[j].event = last + j
                          /\ bs[j].time <= time /\ time - Window <= bs[j].time
  /\ \A i \in DOMAIN ts : /\ ts[i].event <= last + Len(bs) /\ ts[i].quantity > 0
                          /\ ts[i].time <= time /\ time - Window <= ts[i].time
  /\ \A i, j \in DOMAIN ts : i < j => ts[i].event < ts[j].event
  /\ \A i \in DOMAIN ts, j \in DOMAIN bs :
       ts[i].event = bs[j].event => ts[i].time = bs[j].time /\ ts[i].quantity = bs[j].quantity
  /\ \A i \in DOMAIN ts, j \in DOMAIN bs :
       bs[j].quantity > 0 /\ bs[j].event \notin Pending(ts) => bs[j].event < ts[i].event

\* Each depth change is what was cancelled and traded.
DepthsAddUp(bs, from, to) ==
  /\ \A j \in DOMAIN bs :
       Positive((IF j = 1 THEN from ELSE bs[j - 1].displayed) - bs[j].displayed)
         = bs[j].cancelled + bs[j].quantity
  /\ to = IF bs = <<>> THEN from ELSE bs[Len(bs)].displayed

\* The lists of an estimate are sorted.
ListsInOrder(rs, cs, time) ==
  /\ rs \in Seq(Change) /\ cs \in Seq(Change) /\ Sorted(rs) /\ Sorted(cs)
  /\ \A i \in DOMAIN rs : rs[i].time <= time
  /\ \A i \in DOMAIN cs : cs[i].time <= time

\* Every trade whose depth came first can still be matched by a reduction as
\* late as itself, and every credit matches a depth change as early.
ReductionsWait(rs, ts, last) ==
  \A s \in Int : Counted(ts, DepthFirst(last, s)) <= Counted(rs, After(s))
CreditsWait(cs, bs, ts) ==
  \A s \in Int : Counted(cs, Until(s)) <= Counted(bs, TradeFirst(Pending(ts), s))

\* What advanced the estimate has been told, is told when the trades have come,
\* or is still a credit; what is still a reduction, or will use up a credit, has not.
Balanced(ahead, rs, cs, bs, ts, last, told) ==
  (Displayed - ahead) + (TotalOf(rs) + Counted(bs, TradesFirst(Pending(ts))))
    <= told + (TotalOf(cs) + Counted(ts, DepthFirst(last, -1)))

FavorableFits(q, bs, ts, last, time, told) ==
  /\ q \in FavorableQueue /\ told \in Nat
  /\ ReportsInOrder(bs, ts, last, time)
  /\ ListsInOrder(q.reductions, q.credits, time)
  /\ ReductionsWait(q.reductions, ts, last)
  /\ CreditsWait(q.credits, bs, ts)
  /\ Balanced(q.ahead, q.reductions, q.credits, bs, ts, last, told)

\* The members of the two lists of reports.
LEMMA Reports ==
  ASSUME NEW bs, NEW ts, NEW last, NEW time, ReportsInOrder(bs, ts, last, time)
  PROVE  /\ Quantified(BookReport) /\ Quantified(TradeReport)
         /\ Len(bs) \in Nat /\ DOMAIN bs = 1..Len(bs)
         /\ Len(ts) \in Nat /\ DOMAIN ts = 1..Len(ts)
         /\ \A j \in DOMAIN bs : /\ bs[j] \in BookReport /\ bs[j].time \in Nat
                                 /\ bs[j].event \in Nat /\ bs[j].quantity \in Nat
                                 /\ bs[j].displayed \in Nat /\ bs[j].cancelled \in Nat
         /\ \A i \in DOMAIN ts : /\ ts[i] \in TradeReport /\ ts[i].time \in Nat
                                 /\ ts[i].event \in Nat /\ ts[i].quantity \in Nat
<1>1. bs \in Seq(BookReport) /\ ts \in Seq(TradeReport)
  BY DEF ReportsInOrder
<1>2. /\ Len(bs) \in Nat /\ DOMAIN bs = 1..Len(bs) /\ \A j \in DOMAIN bs : bs[j] \in BookReport
      /\ Len(ts) \in Nat /\ DOMAIN ts = 1..Len(ts) /\ \A i \in DOMAIN ts : ts[i] \in TradeReport
  BY <1>1
<1>3. \A d \in BookReport : /\ d.time \in Nat /\ d.event \in Nat /\ d.quantity \in Nat
                            /\ d.displayed \in Nat /\ d.cancelled \in Nat
  BY DEF BookReport
<1>4. \A t \in TradeReport : t.time \in Nat /\ t.event \in Nat /\ t.quantity \in Nat
  BY DEF TradeReport
<1> QED
  BY <1>2, <1>3, <1>4 DEF Quantified

\* Nothing on its way is older than the window.
LEMMA NothingIsLate ==
  ASSUME NEW bs, NEW ts, NEW last, NEW time, ReportsInOrder(bs, ts, last, time), NEW s \in Int
  PROVE  /\ Counted(ts, DepthFirst(last, s)) = Counted(ts, DepthFirst(last, Since(time, s)))
         /\ Counted(bs, TradeFirst(Pending(ts), time - Window - 1)) = 0
<1>1. /\ \A j \in DOMAIN bs : bs[j].time \in Nat /\ time - Window <= bs[j].time
      /\ \A i \in DOMAIN ts : ts[i].time \in Nat /\ time - Window <= ts[i].time
      /\ time \in Nat /\ Window \in Nat
  BY Reports, QueueConstants DEF ReportsInOrder
<1> DEFINE z == Since(time, s)
<1>2. z \in Int /\ (z = s \/ (s < z /\ z = time - Window - 1))
  BY <1>1 DEF Since
<1> HIDE DEF z
<1>3. \A i \in DOMAIN ts : ts[i].time > s <=> ts[i].time > z
  BY <1>1, <1>2
<1>4. \A i \in DOMAIN ts : ts[i] \in DepthFirst(last, s) <=> ts[i] \in DepthFirst(last, z)
  BY <1>3 DEF DepthFirst
<1>5. \A j \in DOMAIN bs : ~(bs[j].time <= time - Window - 1)
  BY <1>1
<1>6. \A j \in DOMAIN bs : bs[j] \notin TradeFirst(Pending(ts), time - Window - 1)
  BY <1>5 DEF TradeFirst
<1>7. Counted(ts, DepthFirst(last, s)) = Counted(ts, DepthFirst(last, z))
  BY <1>4, CountedSame
<1>8. Counted(bs, TradeFirst(Pending(ts), time - Window - 1)) = 0
  BY <1>6, CountedNone
<1> QED
  BY <1>7, <1>8 DEF z

\* The fields of an estimate.
LEMMA FavorableFields ==
  ASSUME NEW q \in FavorableQueue
  PROVE  /\ q.ahead \in Nat /\ q.displayed \in Nat /\ q.favorable = TRUE
         /\ q.reductions \in Seq(Change) /\ q.credits \in Seq(Change)
  BY DEF FavorableQueue

\* advance() keeps what has not expired.
LEMMA FavorableAdvance ==
  ASSUME NEW q \in FavorableQueue, NEW time \in Nat,
         Sorted(q.reductions), Sorted(q.credits)
  PROVE  /\ Advance(q, time) \in FavorableQueue
         /\ Advance(q, time).displayed = q.displayed
         /\ Advance(q, time).reductions = Current(q.reductions, time)
         /\ Advance(q, time).credits = Current(q.credits, time)
         /\ Advance(q, time).ahead = Positive(q.ahead - TotalOf(Expired(q.reductions, time)))
<1> DEFINE rs == q.reductions
           cs == q.credits
           gone == TotalOf(Expired(rs, time))
<1>1. /\ q.ahead \in Nat /\ q.displayed \in Nat /\ q.favorable = TRUE
      /\ rs \in Seq(Change) /\ cs \in Seq(Change)
  BY FavorableFields
<1>2. /\ Keeps(Current(rs, time), Expired(rs, time), rs, time)
      /\ Keeps(Current(cs, time), Expired(cs, time), cs, time)
  <2> HIDE DEF rs, cs
  <2> QED
    BY <1>1, CurrentKeeps DEF rs, cs
<1>3. gone \in Nat /\ Current(rs, time) \in Seq(Change) /\ Current(cs, time) \in Seq(Change)
  <2>1. Current(rs, time) \in Seq(Change) /\ Current(cs, time) \in Seq(Change)
    BY <1>2 DEF Keeps
  <2>2. TotalOf(Expired(rs, time)) \in Nat
    BY <1>2, KeptTotal
  <2> QED
    BY <2>1, <2>2
<1>4. PICK x, y, z : x = gone /\ y = Current(rs, time) /\ z = Current(cs, time)
  OBVIOUS
<1>5. Advance(q, time) = [q EXCEPT !.ahead = IF q.favorable THEN Positive(@ - x) ELSE @,
                                   !.reductions = y, !.credits = z]
  BY <1>4 DEF Advance
<1>6. Positive(q.ahead - x) \in Nat
  BY <1>1, <1>3, <1>4 DEF Positive
<1>7. y \in Seq(Change) /\ z \in Seq(Change)
  BY <1>3, <1>4
<1> HIDE DEF rs, cs, gone
<1> DEFINE r == [q EXCEPT !.ahead = IF q.favorable THEN Positive(@ - x) ELSE @,
                          !.reductions = y, !.credits = z]
<1>8. /\ r \in FavorableQueue /\ r.displayed = q.displayed /\ r.reductions = y /\ r.credits = z
      /\ r.ahead = Positive(q.ahead - x)
  BY <1>1, <1>6, <1>7 DEF FavorableQueue
<1> HIDE DEF r
<1> QED
  BY <1>4, <1>5, <1>8 DEF r, rs, cs, gone

\* advance(): what expires was told of, because reports are not that late.
LEMMA AdvanceFits ==
  ASSUME NEW q, NEW bs, NEW ts, NEW last, NEW time, NEW told,
         FavorableFits(q, bs, ts, last, time, told)
  PROVE  FavorableFits(Advance(q, time), bs, ts, last, time, told)
<1> DEFINE r == Advance(q, time)
           rs == q.reductions
           cs == q.credits
           oldR == Expired(rs, time)
           oldC == Expired(cs, time)
           newR == Current(rs, time)
           newC == Current(cs, time)
<1>1. /\ q \in FavorableQueue /\ told \in Nat
      /\ ReportsInOrder(bs, ts, last, time)
      /\ ListsInOrder(rs, cs, time)
      /\ ReductionsWait(rs, ts, last) /\ CreditsWait(cs, bs, ts)
      /\ Balanced(q.ahead, rs, cs, bs, ts, last, told)
  BY DEF FavorableFits
<1>2. /\ time \in Nat /\ rs \in Seq(Change) /\ cs \in Seq(Change) /\ Sorted(rs) /\ Sorted(cs)
      /\ \A i \in DOMAIN rs : rs[i].time <= time
      /\ \A i \in DOMAIN cs : cs[i].time <= time
  BY <1>1 DEF ListsInOrder, ReportsInOrder
<1>3. /\ r \in FavorableQueue /\ r.reductions = newR /\ r.credits = newC
      /\ r.ahead = Positive(q.ahead - TotalOf(oldR)) /\ q.ahead \in Nat
  BY <1>1, <1>2, FavorableAdvance, FavorableFields
<1> HIDE DEF r, rs, cs
<1>4. Keeps(newR, oldR, rs, time) /\ Keeps(newC, oldC, cs, time)
  BY <1>2, CurrentKeeps
<1> HIDE DEF newR, newC, oldR, oldC
<1>5. ListsInOrder(newR, newC, time)
  BY <1>2, <1>4 DEF Keeps, TimesOf, ListsInOrder
<1>6. ReductionsWait(newR, ts, last)
  <2> SUFFICES ASSUME NEW s \in Int
               PROVE  Counted(ts, DepthFirst(last, s)) <= Counted(newR, After(s))
    BY DEF ReductionsWait
  <2>1. Since(time, s) \in Int
    BY <1>2, QueueConstants DEF Since
  <2>2. Counted(newR, After(s)) = Counted(rs, After(Since(time, s)))
    BY <1>2, <1>4, KeptCounts
  <2>3. Counted(ts, DepthFirst(last, s)) = Counted(ts, DepthFirst(last, Since(time, s)))
    BY <1>1, NothingIsLate
  <2> QED
    BY <1>1, <2>1, <2>2, <2>3 DEF ReductionsWait
<1>7. CreditsWait(newC, bs, ts)
  <2> SUFFICES ASSUME NEW s \in Int
               PROVE  Counted(newC, Until(s)) <= Counted(bs, TradeFirst(Pending(ts), s))
    BY DEF CreditsWait
  <2>1. PICK x, y, z \in Nat : /\ x = Counted(newC, Until(s)) /\ y = Counted(cs, Until(s))
                               /\ z = Counted(bs, TradeFirst(Pending(ts), s)) /\ x <= y
    <3>1. Counted(bs, TradeFirst(Pending(ts), s)) \in Nat
      BY <1>1, Reports, CountedType DEF ReportsInOrder
    <3>2. /\ Counted(newC, Until(s)) <= Counted(cs, Until(s))
          /\ Counted(newC, Until(s)) \in Nat /\ Counted(cs, Until(s)) \in Nat
      BY <1>2, <1>4, KeptCounts
    <3> QED
      BY <3>1, <3>2
  <2>2. y <= z
    BY <1>1, <2>1 DEF CreditsWait
  <2> QED
    BY <2>1, <2>2
<1>8. Balanced(Positive(q.ahead - TotalOf(oldR)), newR, newC, bs, ts, last, told)
  <2>1. /\ TotalOf(rs) = TotalOf(oldR) + TotalOf(newR)
        /\ TotalOf(oldR) \in Nat /\ TotalOf(newR) \in Nat
        /\ TotalOf(cs) = TotalOf(oldC) + TotalOf(newC)
        /\ TotalOf(oldC) \in Nat /\ TotalOf(newC) \in Nat
        /\ TotalOf(oldC) <= Counted(cs, Until(time - Window - 1))
    BY <1>2, <1>4, KeptTotal
  <2>2. TotalOf(oldC) = 0
    <3>1. time - Window - 1 \in Int
      BY <1>2, QueueConstants
    <3>2. Counted(bs, TradeFirst(Pending(ts), time - Window - 1)) = 0
      BY <1>1, <3>1, NothingIsLate
    <3>3. Counted(cs, Until(time - Window - 1)) <= 0
      BY <1>1, <3>1, <3>2 DEF CreditsWait
    <3>4. Counted(cs, Until(time - Window - 1)) \in Nat
      BY <1>2, <3>1, CountedType DEF Quantified, Change
    <3> QED
      BY <2>1, <3>3, <3>4
  <2>3. PICK u, v \in Nat : /\ u = Counted(bs, TradesFirst(Pending(ts)))
                            /\ v = Counted(ts, DepthFirst(last, -1))
    <3>1. /\ Counted(bs, TradesFirst(Pending(ts))) \in Nat
          /\ Counted(ts, DepthFirst(last, -1)) \in Nat
      BY <1>1, Reports, CountedType DEF ReportsInOrder
    <3> QED
      BY <3>1
  <2>4. PICK e, x, y, front \in Nat : /\ e = TotalOf(oldR) /\ x = TotalOf(newR) /\ y = TotalOf(newC)
                                      /\ front = q.ahead
    BY <1>3, <2>1
  <2>5. TotalOf(rs) = e + x /\ TotalOf(cs) = y
    BY <2>1, <2>2, <2>4
  <2>6. (Displayed - front) + ((e + x) + u) <= told + (y + v)
    BY <1>1, <2>3, <2>4, <2>5 DEF Balanced
  <2>7. (Displayed - Positive(front - e)) + (x + u) <= told + (y + v)
    <3>1. Displayed \in Nat /\ told \in Nat
      BY <1>1, QueueConstants
    <3> QED
      BY <2>6, <3>1 DEF Positive
  <2> QED
    BY <2>3, <2>4, <2>7, Zenon DEF Balanced
<1> QED
  BY <1>1, <1>3, <1>5, <1>6, <1>7, <1>8 DEF FavorableFits, r

\* append() adds a quantity, if there is one, with the time of the frame.
LEMMA AddedCounts ==
  ASSUME NEW changes \in Seq(Change), Sorted(changes), NEW time \in Nat, NEW n \in Nat,
         \A i \in DOMAIN changes : changes[i].time <= time
  PROVE  /\ Added(changes, time, n) \in Seq(Change) /\ Sorted(Added(changes, time, n))
         /\ \A i \in DOMAIN Added(changes, time, n) : Added(changes, time, n)[i].time <= time
         /\ TotalOf(Added(changes, time, n)) = TotalOf(changes) + n
         /\ \A s \in Int :
              /\ Counted(Added(changes, time, n), After(s))
                   = Counted(changes, After(s)) + (IF time > s THEN n ELSE 0)
              /\ Counted(Added(changes, time, n), Until(s))
                   = Counted(changes, Until(s)) + (IF time > s THEN 0 ELSE n)
<1> DEFINE new == Added(changes, time, n)
           x == [time |-> time, quantity |-> n]
<1>0. /\ Quantified(Change) /\ Len(changes) \in Nat /\ DOMAIN changes = 1..Len(changes)
      /\ TotalOf(changes) = Counted(changes, Change) /\ TotalOf(changes) \in Nat
      /\ \A X : Counted(changes, X) \in Nat
  <2>1. Quantified(Change)
    BY DEF Quantified, Change
  <2> QED
    BY <2>1, TotalIsCounted, CountedType
<1>1. CASE n = 0
  <2>1. new = changes
    BY <1>1 DEF Added
  <2>2. \A s \in Int : (IF time > s THEN n ELSE 0) = 0 /\ (IF time > s THEN 0 ELSE n) = 0
    BY <1>1
  <2>3. TotalOf(changes) = TotalOf(changes) + n
    BY <1>0, <1>1
  <2>4. \A s \in Int :
          /\ Counted(changes, After(s)) = Counted(changes, After(s)) + (IF time > s THEN n ELSE 0)
          /\ Counted(changes, Until(s)) = Counted(changes, Until(s)) + (IF time > s THEN 0 ELSE n)
    <3> SUFFICES ASSUME NEW s \in Int
                 PROVE  /\ Counted(changes, After(s))
                             = Counted(changes, After(s)) + (IF time > s THEN n ELSE 0)
                        /\ Counted(changes, Until(s))
                             = Counted(changes, Until(s)) + (IF time > s THEN 0 ELSE n)
      OBVIOUS
    <3>1. PICK u, v \in Nat : u = Counted(changes, After(s)) /\ v = Counted(changes, Until(s))
      BY <1>0
    <3> QED
      BY <2>2, <3>1
  <2> HIDE DEF new
  <2> QED
    BY <2>1, <2>3, <2>4, Zenon DEF new
<1>2. CASE n # 0
  <2>1. new = Append(changes, x) /\ x \in Change
    BY <1>2 DEF Added, Change
  <2>2. x.time = time /\ x.quantity = n
    OBVIOUS
  <2> HIDE DEF new, x
  <2>3. /\ new \in Seq(Change) /\ DOMAIN new = 1..(Len(changes) + 1)
        /\ \A i \in 1..Len(changes) : new[i] = changes[i]
        /\ new[Len(changes) + 1] = x
    BY <2>1
  <2>4. \A i \in DOMAIN new : i \in DOMAIN changes \/ i = Len(changes) + 1
    BY <1>0, <2>3
  <2>5. \A i \in DOMAIN new : new[i].time <= time
    BY <1>0, <2>2, <2>3, <2>4
  <2>6. Sorted(new)
    <3> SUFFICES ASSUME NEW i \in DOMAIN new, NEW j \in DOMAIN new, i <= j
                 PROVE  new[i].time <= new[j].time
      BY DEF Sorted
    <3>1. CASE j = Len(changes) + 1
      BY <2>2, <2>3, <2>5, <3>1
    <3>2. CASE j \in DOMAIN changes
      <4>1. i \in DOMAIN changes
        BY <1>0, <2>3, <3>2
      <4> QED
        BY <1>0, <2>3, <3>2, <4>1 DEF Sorted
    <3> QED
      BY <2>4, <3>1, <3>2
  <2>7. TotalOf(new) = TotalOf(changes) + n
    <3>1. Counted(new, Change) = Counted(changes, Change) + Share(x, Change)
      BY <1>0, <2>1, CountedAppend
    <3>2. Share(x, Change) = n
      BY <2>1, <2>2 DEF Share
    <3>3. TotalOf(new) = Counted(new, Change)
      BY <2>3, TotalIsCounted
    <3> QED
      BY <1>0, <3>1, <3>2, <3>3
  <2>8. ASSUME NEW s \in Int
        PROVE  /\ Counted(new, After(s)) = Counted(changes, After(s)) + (IF time > s THEN n ELSE 0)
               /\ Counted(new, Until(s)) = Counted(changes, Until(s)) + (IF time > s THEN 0 ELSE n)
    <3>1. /\ Counted(new, After(s)) = Counted(changes, After(s)) + Share(x, After(s))
          /\ Counted(new, Until(s)) = Counted(changes, Until(s)) + Share(x, Until(s))
      BY <1>0, <2>1, CountedAppend
    <3>2. /\ x \in After(s) <=> time > s
          /\ x \in Until(s) <=> ~(time > s)
      BY <2>1, <2>2 DEF After, Until
    <3>3. /\ Share(x, After(s)) = IF time > s THEN n ELSE 0
          /\ Share(x, Until(s)) = IF time > s THEN 0 ELSE n
      BY <2>2, <3>2 DEF Share
    <3> QED
      BY <3>1, <3>3
  <2> QED
    BY <2>3, <2>5, <2>6, <2>7, <2>8 DEF new
<1> QED
  BY <1>1, <1>2

\* The rest of the trades' reports.
LEMMA TailInOrder ==
  ASSUME NEW bs, NEW ts, NEW last, NEW time, ReportsInOrder(bs, ts, last, time), ts # <<>>
  PROVE  /\ ReportsInOrder(bs, Tail(ts), last, time)
         /\ Head(ts) \in TradeReport /\ Head(ts).event \in Pending(ts)
         /\ Head(ts).quantity \in Nat /\ Head(ts).time \in Nat /\ Head(ts).event \in Nat
         /\ Head(ts).time <= time /\ Head(ts).quantity > 0 /\ Head(ts).event <= last + Len(bs)
         /\ Pending(Tail(ts)) = Pending(ts) \ {Head(ts).event}
         /\ \A i \in DOMAIN ts : Head(ts).event <= ts[i].event
<1> DEFINE h == Head(ts)
           us == Tail(ts)
           n == Len(ts)
<1>1. /\ bs \in Seq(BookReport) /\ ts \in Seq(TradeReport) /\ last \in Nat /\ time \in Nat
      /\ \A j \in DOMAIN bs : /\ bs[j].event = last + j
                              /\ bs[j].time <= time /\ time - Window <= bs[j].time
      /\ \A i \in DOMAIN ts : /\ ts[i].event <= last + Len(bs) /\ ts[i].quantity > 0
                              /\ ts[i].time <= time /\ time - Window <= ts[i].time
      /\ \A i, j \in DOMAIN ts : i < j => ts[i].event < ts[j].event
      /\ \A i \in DOMAIN ts, j \in DOMAIN bs :
           ts[i].event = bs[j].event => ts[i].time = bs[j].time /\ ts[i].quantity = bs[j].quantity
      /\ \A i \in DOMAIN ts, j \in DOMAIN bs :
           bs[j].quantity > 0 /\ bs[j].event \notin Pending(ts) => bs[j].event < ts[i].event
  BY DEF ReportsInOrder
<1>2. /\ n \in Nat /\ n >= 1 /\ DOMAIN ts = 1..n /\ us \in Seq(TradeReport) /\ DOMAIN us = 1..(n - 1)
      /\ \A i \in 1..(n - 1) : us[i] = ts[i + 1]
      /\ h = ts[1]
  BY <1>1
<1>3. \A i \in 1..n : ts[i] \in TradeReport /\ ts[i].event \in Nat /\ ts[i].time \in Nat /\ ts[i].quantity \in Nat
  BY <1>2, Reports
<1> HIDE DEF h, us, n
<1>4. 1 \in 1..n /\ \A i \in 1..(n - 1) : i + 1 \in 1..n /\ 1 < i + 1
  BY <1>2
<1>5. \A i \in 1..(n - 1) : us[i] = ts[i + 1] /\ h.event < us[i].event
  BY <1>1, <1>2, <1>4
<1>6. \A i \in 1..n : i = 1 \/ (i - 1 \in 1..(n - 1) /\ us[i - 1] = ts[i])
  <2> SUFFICES ASSUME NEW i \in 1..n, i # 1 PROVE i - 1 \in 1..(n - 1) /\ us[i - 1] = ts[i]
    OBVIOUS
  <2>1. i - 1 \in 1..(n - 1) /\ (i - 1) + 1 = i
    BY <1>2
  <2> QED
    BY <1>2, <2>1
<1>7. h.event \in Nat /\ \A i \in 1..(n - 1) : us[i].event \in Nat
  BY <1>2, <1>3, <1>4
<1>8. Pending(us) = Pending(ts) \ {h.event} /\ h.event \in Pending(ts)
  <2>1. \A e \in Pending(us) : e \in Pending(ts) /\ e # h.event
    <3> SUFFICES ASSUME NEW i \in 1..(n - 1)
                 PROVE  us[i].event \in Pending(ts) /\ us[i].event # h.event
      BY <1>2 DEF Pending
    <3>1. i + 1 \in DOMAIN ts /\ us[i].event = ts[i + 1].event
      BY <1>2, <1>4
    <3>2. us[i].event \in Pending(ts)
      BY <3>1, Zenon DEF Pending
    <3>3. us[i].event # h.event
      <4>1. h.event < us[i].event /\ h.event \in Nat
        BY <1>5, <1>7
      <4> QED
        BY <4>1
    <3> QED
      BY <3>2, <3>3
  <2>2. \A e \in Pending(ts) : e = h.event \/ e \in Pending(us)
    <3> SUFFICES ASSUME NEW i \in 1..n
                 PROVE  ts[i].event = h.event \/ ts[i].event \in Pending(us)
      BY <1>2 DEF Pending
    <3>1. CASE i = 1
      BY <1>2, <3>1
    <3>2. CASE i - 1 \in 1..(n - 1) /\ us[i - 1] = ts[i]
      <4>1. i - 1 \in DOMAIN us /\ us[i - 1].event = ts[i].event
        BY <1>2, <3>2
      <4> QED
        BY <4>1, Zenon DEF Pending
    <3> QED
      BY <1>6, <3>1, <3>2
  <2>3. h.event \in Pending(ts)
    BY <1>2, <1>4 DEF Pending
  <2> QED
    BY <2>1, <2>2, <2>3
<1>9. \A i \in DOMAIN ts : h.event <= ts[i].event
  <2> SUFFICES ASSUME NEW i \in 1..n PROVE h.event <= ts[i].event
    BY <1>2
  <2>1. CASE i = 1
    BY <1>2, <1>7, <2>1
  <2>2. CASE i - 1 \in 1..(n - 1) /\ us[i - 1] = ts[i]
    <3>1. h.event < us[i - 1].event /\ us[i - 1].event \in Nat /\ us[i - 1].event = ts[i].event
      BY <1>5, <1>7, <2>2
    <3> QED
      BY <1>7, <3>1
  <2> QED
    BY <1>6, <2>1, <2>2
<1>10. ReportsInOrder(bs, us, last, time)
  <2>1. \A i \in DOMAIN us : /\ us[i].event <= last + Len(bs) /\ us[i].quantity > 0
                             /\ us[i].time <= time /\ time - Window <= us[i].time
    <3> SUFFICES ASSUME NEW i \in 1..(n - 1)
                 PROVE  /\ us[i].event <= last + Len(bs) /\ us[i].quantity > 0
                        /\ us[i].time <= time /\ time - Window <= us[i].time
      BY <1>2
    <3>1. i + 1 \in DOMAIN ts /\ us[i] = ts[i + 1]
      BY <1>2, <1>4, <1>5
    <3> QED
      BY <1>1, <3>1
  <2>2. \A i, j \in DOMAIN us : i < j => us[i].event < us[j].event
    <3> SUFFICES ASSUME NEW i \in 1..(n - 1), NEW j \in 1..(n - 1), i < j
                 PROVE  us[i].event < us[j].event
      BY <1>2
    <3>1. i + 1 < j + 1 /\ i + 1 \in DOMAIN ts /\ j + 1 \in DOMAIN ts
      BY <1>2, <1>4
    <3>2. ts[i + 1].event < ts[j + 1].event
      BY <1>1, <3>1
    <3> QED
      BY <1>2, <3>2
  <2>3. \A i \in DOMAIN us, j \in DOMAIN bs :
           us[i].event = bs[j].event => us[i].time = bs[j].time /\ us[i].quantity = bs[j].quantity
    <3> SUFFICES ASSUME NEW i \in 1..(n - 1), NEW j \in DOMAIN bs, us[i].event = bs[j].event
                 PROVE  us[i].time = bs[j].time /\ us[i].quantity = bs[j].quantity
      BY <1>2
    <3>1. i + 1 \in DOMAIN ts /\ us[i] = ts[i + 1]
      BY <1>2, <1>4
    <3> QED
      BY <1>1, <3>1
  <2>4. \A i \in DOMAIN us, j \in DOMAIN bs :
           bs[j].quantity > 0 /\ bs[j].event \notin Pending(us) => bs[j].event < us[i].event
    <3> SUFFICES ASSUME NEW i \in 1..(n - 1), NEW j \in DOMAIN bs,
                        bs[j].quantity > 0, bs[j].event \notin Pending(us)
                 PROVE  bs[j].event < us[i].event
      BY <1>2
    <3>1. CASE bs[j].event = h.event
      BY <1>5, <3>1
    <3>2. CASE bs[j].event # h.event
      <4>1. bs[j].event \notin Pending(ts)
        BY <1>8, <3>2
      <4> QED
        BY <1>1, <1>2, <1>4, <4>1
    <3> QED
      BY <3>1, <3>2
  <2> QED
    BY <1>1, <1>2, <2>1, <2>2, <2>3, <2>4 DEF ReportsInOrder
<1>11. /\ h \in TradeReport /\ h.quantity \in Nat /\ h.time \in Nat /\ h.event \in Nat
       /\ h.time <= time /\ h.quantity > 0 /\ h.event <= last + Len(bs)
  BY <1>1, <1>2, <1>3, <1>4
<1> QED
  BY <1>8, <1>9, <1>10, <1>11 DEF h, us

\* A trade whose depth change has been reported.
LEMMA DepthCameFirst ==
  ASSUME NEW bs, NEW ts, NEW last, NEW time, ReportsInOrder(bs, ts, last, time), ts # <<>>,
         Head(ts).event <= last, NEW s \in Int
  PROVE  /\ Counted(ts, DepthFirst(last, s)) =
              (IF Head(ts).time > s THEN Head(ts).quantity ELSE 0)
                + Counted(Tail(ts), DepthFirst(last, s))
         /\ Counted(bs, TradeFirst(Pending(Tail(ts)), s)) = Counted(bs, TradeFirst(Pending(ts), s))
         /\ Counted(bs, TradesFirst(Pending(Tail(ts)))) = Counted(bs, TradesFirst(Pending(ts)))
<1> DEFINE h == Head(ts)
<1>1. /\ ts \in Seq(TradeReport) /\ Quantified(TradeReport) /\ last \in Nat
      /\ Len(bs) \in Nat /\ DOMAIN bs = 1..Len(bs)
      /\ \A j \in DOMAIN bs : bs[j].event = last + j
  BY Reports DEF ReportsInOrder
<1>2. h \in TradeReport /\ Pending(Tail(ts)) = Pending(ts) \ {h.event} /\ h.event \in Nat
  BY TailInOrder
<1>3. Counted(ts, DepthFirst(last, s))
        = Share(h, DepthFirst(last, s)) + Counted(Tail(ts), DepthFirst(last, s))
  BY <1>1, CountedHead
<1> HIDE DEF h
<1>4. Share(h, DepthFirst(last, s)) = IF h.time > s THEN h.quantity ELSE 0
  BY <1>2 DEF Share, DepthFirst, h
<1>5. \A j \in DOMAIN bs : bs[j].event # h.event
  <2> SUFFICES ASSUME NEW j \in 1..Len(bs) PROVE bs[j].event # h.event
    BY <1>1
  <2>1. bs[j].event = last + j /\ last + j > last
    BY <1>1
  <2>2. h.event <= last
    BY DEF h
  <2> QED
    BY <1>1, <1>2, <2>1, <2>2
<1>6. \A j \in DOMAIN bs : bs[j].event \in Pending(Tail(ts)) <=> bs[j].event \in Pending(ts)
  BY <1>2, <1>5
<1>7. \A j \in DOMAIN bs :
        /\ bs[j] \in TradeFirst(Pending(Tail(ts)), s) <=> bs[j] \in TradeFirst(Pending(ts), s)
        /\ bs[j] \in TradesFirst(Pending(Tail(ts))) <=> bs[j] \in TradesFirst(Pending(ts))
  BY <1>6 DEF TradeFirst, TradesFirst
<1>8. Counted(bs, TradeFirst(Pending(Tail(ts)), s)) = Counted(bs, TradeFirst(Pending(ts), s))
  BY <1>7, CountedSame
<1>9. Counted(bs, TradesFirst(Pending(Tail(ts)))) = Counted(bs, TradesFirst(Pending(ts)))
  BY <1>7, CountedSame
<1> QED
  BY <1>3, <1>4, <1>8, <1>9 DEF h

\* A trade whose depth change is on its way.
LEMMA TradeCameFirst ==
  ASSUME NEW bs, NEW ts, NEW last, NEW time, ReportsInOrder(bs, ts, last, time), ts # <<>>,
         Head(ts).event > last, NEW s \in Int
  PROVE  /\ Counted(ts, DepthFirst(last, s)) = 0
         /\ Counted(Tail(ts), DepthFirst(last, s)) = 0
         /\ Counted(bs, TradeFirst(Pending(Tail(ts)), s)) =
              Counted(bs, TradeFirst(Pending(ts), s))
                + (IF Head(ts).time > s THEN 0 ELSE Head(ts).quantity)
         /\ Counted(bs, TradesFirst(Pending(Tail(ts)))) =
              Counted(bs, TradesFirst(Pending(ts))) + Head(ts).quantity
<1> DEFINE h == Head(ts)
           p == Pending(ts)
           o == Pending(Tail(ts))
           k == h.event - last
<1>1. /\ ts \in Seq(TradeReport) /\ bs \in Seq(BookReport) /\ last \in Nat
      /\ Quantified(TradeReport) /\ Quantified(BookReport)
      /\ Len(bs) \in Nat /\ DOMAIN bs = 1..Len(bs)
      /\ \A j \in DOMAIN bs : bs[j].event = last + j /\ bs[j] \in BookReport
      /\ \A i \in DOMAIN ts, j \in DOMAIN bs :
           ts[i].event = bs[j].event => ts[i].time = bs[j].time /\ ts[i].quantity = bs[j].quantity
  BY Reports DEF ReportsInOrder
<1>2. /\ h \in TradeReport /\ o = p \ {h.event} /\ h.event \in p /\ h.event \in Nat
      /\ h.event <= last + Len(bs) /\ h.event > last /\ h.quantity \in Nat /\ h.time \in Nat
      /\ \A i \in DOMAIN ts : h.event <= ts[i].event
  BY TailInOrder
<1>3. /\ 1 \in DOMAIN ts /\ h = ts[1]
      /\ \A i \in DOMAIN Tail(ts) : i + 1 \in DOMAIN ts /\ Tail(ts)[i] = ts[i + 1]
  BY <1>1
<1>4. \A i \in DOMAIN ts : ts[i].event \in Nat
  BY Reports
<1> HIDE DEF h, p, o
<1>5. k \in 1..Len(bs) /\ last + k = h.event
  BY <1>1, <1>2
<1> HIDE DEF k
<1>6. bs[k] \in BookReport /\ bs[k].event = h.event /\ bs[k].time = h.time /\ bs[k].quantity = h.quantity
  BY <1>1, <1>3, <1>5
<1>7. \A j \in 1..Len(bs) : j # k => bs[j].event # h.event
  <2> SUFFICES ASSUME NEW j \in 1..Len(bs), j # k PROVE bs[j].event # h.event
    OBVIOUS
  <2>1. bs[j].event = last + j
    BY <1>1
  <2> QED
    BY <1>1, <1>5, <2>1
<1>8. \A i \in DOMAIN ts : ~(ts[i].event <= last)
  BY <1>1, <1>2, <1>4
<1>9. Counted(ts, DepthFirst(last, s)) = 0
  <2>1. \A i \in DOMAIN ts : ts[i] \notin DepthFirst(last, s)
    BY <1>8 DEF DepthFirst
  <2> QED
    BY <2>1, CountedNone
<1>10. Counted(Tail(ts), DepthFirst(last, s)) = 0
  <2>1. \A i \in DOMAIN Tail(ts) : Tail(ts)[i] \notin DepthFirst(last, s)
    BY <1>3, <1>8 DEF DepthFirst
  <2> QED
    BY <2>1, CountedNone
<1>11. \A j \in 1..Len(bs) : j # k => (bs[j].event \in o <=> bs[j].event \in p)
  BY <1>2, <1>7
<1>12. bs[k].event \in p /\ bs[k].event \notin o
  BY <1>2, <1>6
<1>13. Counted(bs, TradesFirst(o)) = Counted(bs, TradesFirst(p)) + h.quantity
  <2>1. /\ bs[k] \notin TradesFirst(p) /\ bs[k] \in TradesFirst(o)
        /\ \A j \in 1..Len(bs) : j # k => (bs[j] \in TradesFirst(p) <=> bs[j] \in TradesFirst(o))
    BY <1>6, <1>11, <1>12 DEF TradesFirst
  <2>2. Counted(bs, TradesFirst(o)) = Counted(bs, TradesFirst(p)) + bs[k].quantity
    BY <1>1, <1>5, <2>1, CountedWithOneMore
  <2> QED
    BY <1>6, <2>2
<1>14. Counted(bs, TradeFirst(o, s))
         = Counted(bs, TradeFirst(p, s)) + (IF h.time > s THEN 0 ELSE h.quantity)
  <2>1. \A j \in 1..Len(bs) : j # k => (bs[j] \in TradeFirst(p, s) <=> bs[j] \in TradeFirst(o, s))
    BY <1>11 DEF TradeFirst
  <2>2. CASE h.time > s
    <3>1. bs[k] \notin TradeFirst(p, s) /\ bs[k] \notin TradeFirst(o, s)
      BY <1>2, <1>6, <2>2 DEF TradeFirst
    <3>2. \A j \in DOMAIN bs : bs[j] \in TradeFirst(p, s) <=> bs[j] \in TradeFirst(o, s)
      BY <1>1, <2>1, <3>1
    <3>3. Counted(bs, TradeFirst(p, s)) = Counted(bs, TradeFirst(o, s))
      BY <3>2, CountedSame
    <3>4. Counted(bs, TradeFirst(p, s)) \in Nat
      BY <1>1, CountedType
    <3> QED
      BY <2>2, <3>3, <3>4
  <2>3. CASE ~(h.time > s)
    <3>1. bs[k] \notin TradeFirst(p, s) /\ bs[k] \in TradeFirst(o, s)
      BY <1>2, <1>6, <1>12, <2>3 DEF TradeFirst
    <3>2. Counted(bs, TradeFirst(o, s)) = Counted(bs, TradeFirst(p, s)) + bs[k].quantity
      BY <1>1, <1>5, <2>1, <3>1, CountedWithOneMore
    <3> QED
      BY <1>6, <2>3, <3>2
  <2> QED
    BY <2>2, <2>3
<1> QED
  BY <1>9, <1>10, <1>13, <1>14 DEF h, p, o

\* What is counted of the lists and of the reports.
LEMMA CountsAreNatural ==
  ASSUME NEW bs, NEW ts, NEW last, NEW time, ReportsInOrder(bs, ts, last, time),
         NEW rs, NEW cs, ListsInOrder(rs, cs, time)
  PROVE  /\ \A X : /\ Counted(rs, X) \in Nat /\ Counted(cs, X) \in Nat
                   /\ Counted(bs, X) \in Nat /\ Counted(ts, X) \in Nat
         /\ TotalOf(rs) \in Nat /\ TotalOf(cs) \in Nat
         /\ Counted(rs, After(-1)) = TotalOf(rs) /\ Counted(cs, Until(time)) = TotalOf(cs)
<1>1. rs \in Seq(Change) /\ cs \in Seq(Change) /\ \A i \in DOMAIN cs : cs[i].time <= time
  BY DEF ListsInOrder
<1>2. Quantified(Change) /\ Quantified(BookReport) /\ Quantified(TradeReport)
  BY Reports DEF Quantified, Change
<1>3. bs \in Seq(BookReport) /\ ts \in Seq(TradeReport)
  BY DEF ReportsInOrder
<1>4. \A X : /\ Counted(rs, X) \in Nat /\ Counted(cs, X) \in Nat
             /\ Counted(bs, X) \in Nat /\ Counted(ts, X) \in Nat
  BY <1>1, <1>2, <1>3, CountedType
<1>5. /\ TotalOf(rs) = Counted(rs, Change) /\ TotalOf(cs) = Counted(cs, Change)
      /\ TotalOf(rs) \in Nat /\ TotalOf(cs) \in Nat
  BY <1>1, TotalIsCounted
<1>6. Counted(rs, After(-1)) = Counted(rs, Change)
  <2>1. \A i \in DOMAIN rs : rs[i] \in Change /\ rs[i].time > -1
    BY <1>1, Members
  <2>2. \A i \in DOMAIN rs : rs[i] \in After(-1) <=> rs[i] \in Change
    BY <2>1 DEF After
  <2> QED
    BY <2>2, CountedSame
<1>7. Counted(cs, Until(time)) = Counted(cs, Change)
  <2>1. \A i \in DOMAIN cs : cs[i] \in Change
    BY <1>1, Members
  <2>2. \A i \in DOMAIN cs : cs[i] \in Until(time) <=> cs[i] \in Change
    BY <1>1, <2>1 DEF Until
  <2> QED
    BY <2>2, CountedSame
<1> QED
  BY <1>4, <1>5, <1>6, <1>7

\* Fewer trades are late than there are.
LEMMA DepthFirstIsMonotone ==
  ASSUME NEW bs, NEW ts, NEW last, NEW time, ReportsInOrder(bs, ts, last, time), NEW s \in Int
  PROVE  Counted(ts, DepthFirst(last, s)) <= Counted(ts, DepthFirst(last, -1))
<1>1. /\ ts \in Seq(TradeReport) /\ Quantified(TradeReport)
      /\ \A i \in DOMAIN ts : ts[i].time > -1
  <2>1. \A i \in DOMAIN ts : ts[i].time \in Nat
    BY Reports
  <2>2. \A x \in Nat : x > -1
    OBVIOUS
  <2> QED
    BY <2>1, <2>2, Reports DEF ReportsInOrder
<1>2. \A i \in DOMAIN ts : ts[i] \in DepthFirst(last, s) => ts[i] \in DepthFirst(last, -1)
  BY <1>1 DEF DepthFirst
<1> QED
  BY <1>1, <1>2, CountedMore

\* What is not matched, and the quantity of the next trade.
Leaves(changes, n, u) == u = Unmatched(changes, n)
NextTrade(ts, n) == ts # <<>> /\ n = Head(ts).quantity

\* Matching with one list, and adding what it does not explain to the other.
LEMMA ListsAfterMatch ==
  ASSUME NEW from, NEW to, NEW time \in Nat, NEW n \in Nat, ListsInOrder(from, to, time),
         NEW u, Leaves(from, n, u)
  PROVE  /\ ListsInOrder(Match(from, n), Added(to, time, u), time)
         /\ ListsInOrder(Added(to, time, u), Match(from, n), time)
         /\ u \in Nat /\ u = Positive(n - TotalOf(from))
         /\ TotalOf(Match(from, n)) = Positive(TotalOf(from) - n)
         /\ TotalOf(Added(to, time, u)) = TotalOf(to) + u
<1> DEFINE new == Match(from, n)
           added == Added(to, time, u)
<1>0. /\ from \in Seq(Change) /\ Sorted(from) /\ to \in Seq(Change) /\ Sorted(to)
      /\ \A i \in DOMAIN from : from[i].time <= time
      /\ \A i \in DOMAIN to : to[i].time <= time
  BY DEF ListsInOrder
<1>1. /\ new \in Seq(Change) /\ Sorted(new) /\ TimesOf(new, from)
      /\ TotalOf(new) = Positive(TotalOf(from) - n)
  BY <1>0, MatchTotal
<1>2. u \in Nat /\ u = Positive(n - TotalOf(from))
  <2>1. TotalOf(from) \in Nat
    BY <1>0, TotalIsCounted
  <2> QED
    BY <2>1 DEF Unmatched, Positive, Leaves
<1> HIDE DEF new
<1>3. /\ added \in Seq(Change) /\ Sorted(added)
      /\ \A i \in DOMAIN added : added[i].time <= time
      /\ TotalOf(added) = TotalOf(to) + u
  BY <1>0, <1>2, AddedCounts
<1> HIDE DEF added
<1>4. \A i \in DOMAIN new : new[i].time <= time
  BY <1>0, <1>1 DEF TimesOf
<1> QED
  BY <1>1, <1>2, <1>3, <1>4 DEF ListsInOrder, new, added

\* What is counted then.
LEMMA CountsAfterMatch ==
  ASSUME NEW from, NEW to, NEW time \in Nat, NEW n \in Nat, ListsInOrder(from, to, time),
         NEW u, Leaves(from, n, u), NEW s \in Int
  PROVE  /\ Counted(Match(from, n), After(s))
              = Smaller(Counted(from, After(s)), Positive(TotalOf(from) - n))
         /\ Counted(Match(from, n), Until(s)) = Positive(Counted(from, Until(s)) - n)
         /\ Counted(Added(to, time, u), After(s))
              = Counted(to, After(s)) + (IF time > s THEN u ELSE 0)
         /\ Counted(Added(to, time, u), Until(s))
              = Counted(to, Until(s)) + (IF time > s THEN 0 ELSE u)
<1>0. /\ from \in Seq(Change) /\ Sorted(from) /\ to \in Seq(Change) /\ Sorted(to)
      /\ \A i \in DOMAIN to : to[i].time <= time
  BY DEF ListsInOrder
<1>1. u \in Nat
  BY ListsAfterMatch
<1>2. /\ Counted(Match(from, n), After(s))
           = Smaller(Counted(from, After(s)), Positive(TotalOf(from) - n))
      /\ Counted(Match(from, n), Until(s)) = Positive(Counted(from, Until(s)) - n)
  BY <1>0, MatchCounts
<1>3. /\ Counted(Added(to, time, u), After(s))
           = Counted(to, After(s)) + (IF time > s THEN u ELSE 0)
      /\ Counted(Added(to, time, u), Until(s))
           = Counted(to, Until(s)) + (IF time > s THEN 0 ELSE u)
  <2>1. \A z \in Int :
          /\ Counted(Added(to, time, u), After(z))
               = Counted(to, After(z)) + (IF time > z THEN u ELSE 0)
          /\ Counted(Added(to, time, u), Until(z))
               = Counted(to, Until(z)) + (IF time > z THEN 0 ELSE u)
    BY ZenonT(60), <1>0, <1>1, AddedCounts
  <2> QED
    BY <2>1, Zenon
<1> QED
  BY <1>2, <1>3, Zenon

\* The books balance when what moves between the lists and what the estimate
\* advances is told.
LEMMA StillBalanced ==
  ASSUME NEW d \in Nat, NEW at \in Nat, NEW m \in Nat, NEW told \in Nat, NEW k \in Nat,
         NEW r \in Nat, NEW v \in Nat, NEW c \in Nat, NEW t \in Nat,
         NEW r2 \in Nat, NEW v2 \in Nat, NEW c2 \in Nat, NEW t2 \in Nat,
         (d - at) + (r + v) <= told + (c + t),
         ((r2 + v2) + (c + t)) + m <= ((r + v) + (c2 + t2)) + k
  PROVE  (d - (at - m)) + (r2 + v2) <= (told + k) + (c2 + t2)
OBVIOUS

\* trade(): the reductions it explains are used up; what is left of it is a credit,
\* and its depth change has not come.
LEMMA TradeFits ==
  ASSUME NEW ahead \in Nat, NEW rs, NEW cs, NEW bs, NEW ts, NEW last, NEW time, NEW told \in Nat,
         NEW n \in Nat, NextTrade(ts, n),
         NEW u, Leaves(rs, n, u), ReportsInOrder(bs, ts, last, time), ListsInOrder(rs, cs, time),
         ReductionsWait(rs, ts, last), CreditsWait(cs, bs, ts),
         Balanced(ahead, rs, cs, bs, ts, last, told)
  PROVE  /\ ReportsInOrder(bs, Tail(ts), last, time)
         /\ ListsInOrder(Match(rs, n), Added(cs, time, u), time)
         /\ ReductionsWait(Match(rs, n), Tail(ts), last)
         /\ CreditsWait(Added(cs, time, u), bs, Tail(ts))
         /\ Balanced(ahead - Smaller(ahead, n), Match(rs, n), Added(cs, time, u),
                     bs, Tail(ts), last, told + n)
<1> DEFINE h == Head(ts)
           us == Tail(ts)
           new == Match(rs, n)
           added == Added(cs, time, u)
<1>1. /\ ReportsInOrder(bs, us, last, time)
      /\ n \in Nat /\ h.time \in Nat /\ h.event \in Nat /\ h.time <= time
      /\ last \in Nat /\ time \in Nat
  <2>1. last \in Nat /\ time \in Nat
    BY DEF ReportsInOrder
  <2>3. ts # <<>> /\ n = h.quantity
    BY DEF NextTrade
  <2>2. /\ ReportsInOrder(bs, us, last, time)
        /\ n \in Nat /\ h.time \in Nat /\ h.event \in Nat /\ h.time <= time
    BY <2>3, TailInOrder
  <2> QED
    BY <2>1, <2>2
<1>2. /\ rs \in Seq(Change) /\ cs \in Seq(Change) /\ Sorted(rs) /\ Sorted(cs)
      /\ \A i \in DOMAIN rs : rs[i].time <= time
      /\ \A i \in DOMAIN cs : cs[i].time <= time
  BY DEF ListsInOrder
<1>3. /\ ListsInOrder(new, added, time)
      /\ u \in Nat /\ u = Positive(n - TotalOf(rs))
      /\ TotalOf(new) = Positive(TotalOf(rs) - n)
      /\ TotalOf(added) = TotalOf(cs) + u
  BY <1>1, ListsAfterMatch
<1>4. /\ \A X : /\ Counted(rs, X) \in Nat /\ Counted(cs, X) \in Nat
                /\ Counted(bs, X) \in Nat /\ Counted(ts, X) \in Nat
      /\ TotalOf(rs) \in Nat /\ TotalOf(cs) \in Nat
      /\ Counted(rs, After(-1)) = TotalOf(rs)
  BY CountsAreNatural
<1>5. \A X : /\ Counted(new, X) \in Nat /\ Counted(added, X) \in Nat /\ Counted(us, X) \in Nat
  BY <1>1, <1>3, CountsAreNatural
<1>6. \A s \in Int : Counted(new, After(s)) = Smaller(Counted(rs, After(s)), Positive(TotalOf(rs) - n))
  BY <1>1, <1>2, MatchCounts
<1>7. \A s \in Int : Counted(added, Until(s)) = Counted(cs, Until(s)) + (IF time > s THEN 0 ELSE u)
  BY <1>1, CountsAfterMatch
<1>8. PICK at, R, C \in Nat : at = ahead /\ R = TotalOf(rs) /\ C = TotalOf(cs)
  BY <1>4
<1>9. at \in Nat /\ R \in Nat /\ C \in Nat /\ Displayed \in Nat /\ told \in Nat /\ n \in Nat /\ u \in Nat
  BY <1>1, <1>3, <1>4, <1>8, QueueConstants
<1>10. PICK V, A \in Nat : V = Counted(bs, TradesFirst(Pending(ts))) /\ A = Counted(ts, DepthFirst(last, -1))
  BY <1>4
<1>11. (Displayed - at) + (R + V) <= told + (C + A)
  BY <1>8, <1>10 DEF Balanced
<1> HIDE DEF h, us, new, added
<1>12. CASE h.event <= last
  <2>1. \A s \in Int :
          /\ Counted(ts, DepthFirst(last, s)) =
               (IF h.time > s THEN n ELSE 0) + Counted(us, DepthFirst(last, s))
          /\ Counted(bs, TradeFirst(Pending(us), s)) = Counted(bs, TradeFirst(Pending(ts), s))
          /\ Counted(bs, TradesFirst(Pending(us))) = Counted(bs, TradesFirst(Pending(ts)))
    BY <1>12, DepthCameFirst DEF h, us, NextTrade
  <2>2. PICK B \in Nat : B = Counted(us, DepthFirst(last, -1)) /\ A = n + B
    <3>1. h.time > -1 /\ -1 \in Int
      BY <1>1
    <3> QED
      BY <1>5, <1>10, <2>1, <3>1
  <2>3. A <= R
    <3>1. -1 \in Int
      OBVIOUS
    <3> QED
      BY <1>4, <1>8, <1>10, <3>1 DEF ReductionsWait
  <2>4. n + B <= R
    BY <2>2, <2>3
  <2>5. u = 0
    <3>1. Positive(n - R) = 0
      BY <1>9, <2>2, <2>4 DEF Positive
    <3> QED
      BY <1>3, <1>8, <3>1
  <2>6. Positive(R - n) = R - n /\ R - n \in Nat /\ B <= R - n
    BY <1>9, <2>2, <2>4 DEF Positive
  <2>7. ReductionsWait(new, us, last)
    <3> SUFFICES ASSUME NEW s \in Int
                 PROVE  Counted(us, DepthFirst(last, s)) <= Counted(new, After(s))
      BY DEF ReductionsWait
    <3>1. PICK x, y \in Nat : x = Counted(us, DepthFirst(last, s)) /\ y = Counted(rs, After(s))
      BY <1>4, <1>5
    <3>2. x <= y
      <4>1. Counted(ts, DepthFirst(last, s)) = (IF h.time > s THEN n ELSE 0) + x
        BY <2>1, <3>1
      <4>2. Counted(ts, DepthFirst(last, s)) <= y
        BY <3>1 DEF ReductionsWait
      <4>3. (IF h.time > s THEN n ELSE 0) \in Nat
        BY <1>9
      <4> QED
        BY <3>1, <4>1, <4>2, <4>3
    <3>3. x <= B
      BY <1>1, <2>2, <3>1, DepthFirstIsMonotone
    <3>4. Counted(new, After(s)) = Smaller(y, R - n)
      BY <1>6, <1>8, <2>6, <3>1
    <3>5. x <= Smaller(y, R - n)
      BY <1>9, <2>2, <2>6, <3>1, <3>2, <3>3 DEF Smaller
    <3> QED
      BY <3>1, <3>4, <3>5
  <2>8. CreditsWait(added, bs, us)
    <3> SUFFICES ASSUME NEW s \in Int
                 PROVE  Counted(added, Until(s)) <= Counted(bs, TradeFirst(Pending(us), s))
      BY DEF CreditsWait
    <3>1. Counted(added, Until(s)) = Counted(cs, Until(s))
      <4>1. PICK x \in Nat : x = Counted(cs, Until(s))
        BY <1>4
      <4>2. Counted(added, Until(s)) = x + (IF time > s THEN 0 ELSE u)
        BY <1>7, <4>1
      <4> QED
        BY <2>5, <4>1, <4>2
    <3> QED
      BY <2>1, <3>1 DEF CreditsWait
  <2>9. Balanced(at - Smaller(at, n), new, added, bs, us, last, told + n)
    <3>1. TotalOf(new) = R - n /\ TotalOf(added) = C
      BY <1>3, <1>8, <1>9, <2>5, <2>6
    <3>2. Counted(bs, TradesFirst(Pending(us))) = V
      <4>1. 0 \in Int
        OBVIOUS
      <4> QED
        BY <1>10, <2>1, <4>1
    <3>3. (Displayed - (at - Smaller(at, n))) + ((R - n) + V) <= (told + n) + (C + B)
      <4>1. PICK m \in Nat : m = Smaller(at, n) /\ m <= n
        BY <1>9 DEF Smaller
      <4>2. (((R - n) + V) + (C + A)) + m <= ((R + V) + (C + B)) + n
        BY <2>2, <4>1
      <4>3. (Displayed - (at - m)) + ((R - n) + V) <= (told + n) + (C + B)
        BY <1>9, <1>11, <2>6, <4>2, StillBalanced
      <4> QED
        BY <4>1, <4>3
    <3> QED
      BY <2>2, <3>1, <3>2, <3>3, Zenon DEF Balanced
  <2> QED
    BY <1>1, <1>3, <1>8, <2>7, <2>8, <2>9 DEF us, new, added
<1>13. CASE h.event > last
  <2>1. \A s \in Int :
          /\ Counted(ts, DepthFirst(last, s)) = 0 /\ Counted(us, DepthFirst(last, s)) = 0
          /\ Counted(bs, TradeFirst(Pending(us), s)) =
               Counted(bs, TradeFirst(Pending(ts), s)) + (IF h.time > s THEN 0 ELSE n)
          /\ Counted(bs, TradesFirst(Pending(us))) = Counted(bs, TradesFirst(Pending(ts))) + n
    BY <1>13, TradeCameFirst DEF h, us, NextTrade
  <2>2. u <= n /\ (Positive(R - n) + n) = R + u /\ Positive(R - n) \in Nat
    <3>1. Positive(n - R) <= n /\ (Positive(R - n) + n) = R + Positive(n - R) /\ Positive(R - n) \in Nat
      BY <1>9 DEF Positive
    <3> QED
      BY <1>3, <1>8, <3>1
  <2>3. ReductionsWait(new, us, last)
    <3> SUFFICES ASSUME NEW s \in Int
                 PROVE  Counted(us, DepthFirst(last, s)) <= Counted(new, After(s))
      BY DEF ReductionsWait
    <3>1. PICK x \in Nat : x = Counted(new, After(s))
      BY <1>5
    <3> QED
      BY <2>1, <3>1
  <2>4. CreditsWait(added, bs, us)
    <3> SUFFICES ASSUME NEW s \in Int
                 PROVE  Counted(added, Until(s)) <= Counted(bs, TradeFirst(Pending(us), s))
      BY DEF CreditsWait
    <3>1. PICK x, y \in Nat : x = Counted(cs, Until(s)) /\ y = Counted(bs, TradeFirst(Pending(ts), s))
      BY <1>4
    <3>2. x <= y
      BY <3>1 DEF CreditsWait
    <3>3. x + (IF time > s THEN 0 ELSE u) <= y + (IF h.time > s THEN 0 ELSE n)
      <4>1. ~(time > s) => ~(h.time > s)
        BY <1>1
      <4>2. x + u <= y + n /\ x + 0 <= y + 0 /\ x + 0 <= y + n
        BY <1>9, <2>2, <3>1, <3>2
      <4> QED
        BY <4>1, <4>2
    <3> QED
      BY <1>7, <2>1, <3>1, <3>3
  <2>5. Balanced(at - Smaller(at, n), new, added, bs, us, last, told + n)
    <3>1. A = 0 /\ Counted(us, DepthFirst(last, -1)) = 0 /\ Counted(bs, TradesFirst(Pending(us))) = V + n
      <4>1. -1 \in Int
        OBVIOUS
      <4> QED
        BY <1>10, <2>1, <4>1
    <3>2. PICK N \in Nat : N = TotalOf(new) /\ N + n = R + u
      BY <1>3, <1>8, <2>2
    <3>3. TotalOf(added) = C + u
      BY <1>3, <1>8
    <3>4. PICK m \in Nat : m = Smaller(at, n) /\ m <= n
      BY <1>9 DEF Smaller
    <3>5. (Displayed - (at - m)) + (N + (V + n)) <= (told + n) + ((C + u) + 0)
      <4>1. ((N + (V + n)) + (C + A)) + m <= ((R + V) + ((C + u) + 0)) + n
        BY <1>9, <3>1, <3>2, <3>4
      <4>2. V + n \in Nat /\ C + u \in Nat /\ 0 \in Nat
        BY <1>9
      <4> QED
        BY <1>9, <1>11, <4>1, <4>2, StillBalanced
    <3> QED
      BY <3>1, <3>2, <3>3, <3>4, <3>5, Zenon DEF Balanced
  <2> QED
    BY <1>1, <1>3, <1>8, <2>3, <2>4, <2>5 DEF us, new, added
<1> QED
  BY <1>1, <1>12, <1>13

\* The rest of the depth changes.
LEMMA RestInOrder ==
  ASSUME NEW bs, NEW ts, NEW last, NEW time, ReportsInOrder(bs, ts, last, time), bs # <<>>
  PROVE  /\ ReportsInOrder(Tail(bs), ts, last + 1, time)
         /\ Head(bs) \in BookReport /\ Head(bs) = bs[1] /\ Tail(bs) \in Seq(BookReport)
         /\ Head(bs).event = last + 1 /\ Head(bs).time <= time
         /\ Head(bs).time \in Nat /\ Head(bs).quantity \in Nat /\ Head(bs).cancelled \in Nat
         /\ Head(bs).displayed \in Nat
<1> DEFINE book == Head(bs)
           ds == Tail(bs)
           n == Len(bs)
<1>1. /\ bs \in Seq(BookReport) /\ ts \in Seq(TradeReport) /\ last \in Nat /\ time \in Nat
      /\ \A j \in DOMAIN bs : /\ bs[j].event = last + j
                              /\ bs[j].time <= time /\ time - Window <= bs[j].time
      /\ \A i \in DOMAIN ts : /\ ts[i].event <= last + Len(bs) /\ ts[i].quantity > 0
                              /\ ts[i].time <= time /\ time - Window <= ts[i].time
      /\ \A i, j \in DOMAIN ts : i < j => ts[i].event < ts[j].event
      /\ \A i \in DOMAIN ts, j \in DOMAIN bs :
           ts[i].event = bs[j].event => ts[i].time = bs[j].time /\ ts[i].quantity = bs[j].quantity
      /\ \A i \in DOMAIN ts, j \in DOMAIN bs :
           bs[j].quantity > 0 /\ bs[j].event \notin Pending(ts) => bs[j].event < ts[i].event
  BY DEF ReportsInOrder
<1>2. /\ n \in Nat /\ n >= 1 /\ DOMAIN bs = 1..n /\ ds \in Seq(BookReport)
      /\ DOMAIN ds = 1..(n - 1) /\ Len(ds) = n - 1
      /\ \A i \in 1..(n - 1) : ds[i] = bs[i + 1]
      /\ book = bs[1]
  BY <1>1
<1>3. \A j \in 1..n : /\ bs[j] \in BookReport /\ bs[j].time \in Nat /\ bs[j].quantity \in Nat
                      /\ bs[j].cancelled \in Nat /\ bs[j].displayed \in Nat
  BY <1>2, Reports
<1> HIDE DEF book, ds, n
<1>4. 1 \in 1..n /\ \A i \in 1..(n - 1) : i + 1 \in 1..n
  BY <1>2
<1>5. \A j \in DOMAIN ds : j + 1 \in DOMAIN bs /\ ds[j] = bs[j + 1]
  BY <1>2, <1>4
<1>6. \A j \in DOMAIN ds : /\ ds[j].event = (last + 1) + j
                           /\ ds[j].time <= time /\ time - Window <= ds[j].time
  <2> SUFFICES ASSUME NEW j \in 1..(n - 1)
               PROVE  /\ ds[j].event = (last + 1) + j
                      /\ ds[j].time <= time /\ time - Window <= ds[j].time
    BY <1>2
  <2>1. ds[j] = bs[j + 1] /\ bs[j + 1].event = last + (j + 1)
    BY <1>1, <1>2, <1>4
  <2>2. last + (j + 1) = (last + 1) + j
    BY <1>1, <1>2
  <2> QED
    BY <1>1, <1>2, <1>4, <2>1, <2>2
<1>7. (last + 1) + Len(ds) = last + Len(bs)
  BY <1>1, <1>2 DEF n
<1>8. ReportsInOrder(ds, ts, last + 1, time)
  <2>1. last + 1 \in Nat
    BY <1>1
  <2>2. \A i \in DOMAIN ts : /\ ts[i].event <= (last + 1) + Len(ds) /\ ts[i].quantity > 0
                             /\ ts[i].time <= time /\ time - Window <= ts[i].time
    BY <1>1, <1>7
  <2>3. \A i \in DOMAIN ts, j \in DOMAIN ds :
           ts[i].event = ds[j].event => ts[i].time = ds[j].time /\ ts[i].quantity = ds[j].quantity
    <3> SUFFICES ASSUME NEW i \in DOMAIN ts, NEW j \in DOMAIN ds, ts[i].event = ds[j].event
                 PROVE  ts[i].time = ds[j].time /\ ts[i].quantity = ds[j].quantity
      OBVIOUS
    <3>1. j + 1 \in DOMAIN bs /\ ds[j] = bs[j + 1]
      BY <1>5
    <3> QED
      BY <1>1, <3>1
  <2>4. \A i \in DOMAIN ts, j \in DOMAIN ds :
           ds[j].quantity > 0 /\ ds[j].event \notin Pending(ts) => ds[j].event < ts[i].event
    BY <1>1, <1>5, Zenon
  <2>5. /\ ds \in Seq(BookReport) /\ ts \in Seq(TradeReport) /\ time \in Nat
        /\ \A i, j \in DOMAIN ts : i < j => ts[i].event < ts[j].event
    BY <1>1, <1>2
  <2> QED
    BY <1>6, <2>1, <2>2, <2>3, <2>4, <2>5, Zenon DEF ReportsInOrder
<1>9. book.event = last + 1 /\ book.time <= time
  BY <1>1, <1>2, <1>4
<1> QED
  BY <1>2, <1>3, <1>4, <1>8, <1>9 DEF book, ds

\* What the rest of the depth changes adds up to.
LEMMA RestAddsUp ==
  ASSUME NEW bs \in Seq(BookReport), bs # <<>>, NEW from, NEW to, DepthsAddUp(bs, from, to)
  PROVE  /\ DepthsAddUp(Tail(bs), Head(bs).displayed, to)
         /\ Positive(from - Head(bs).displayed) = Head(bs).cancelled + Head(bs).quantity
<1> DEFINE ds == Tail(bs)
           n == Len(bs)
<1>1. /\ n \in Nat /\ n >= 1 /\ DOMAIN bs = 1..n /\ Head(bs) = bs[1]
      /\ DOMAIN ds = 1..(n - 1) /\ Len(ds) = n - 1
      /\ \A i \in 1..(n - 1) : ds[i] = bs[i + 1]
      /\ (ds = <<>> <=> n = 1)
  <2>1. /\ n \in Nat /\ n >= 1 /\ DOMAIN bs = 1..n /\ Head(bs) = bs[1]
        /\ ds \in Seq(BookReport) /\ DOMAIN ds = 1..(n - 1) /\ Len(ds) = n - 1
        /\ \A i \in 1..(n - 1) : ds[i] = bs[i + 1]
    OBVIOUS
  <2> HIDE DEF ds, n
  <2>2. ds = <<>> <=> Len(ds) = 0
    BY <2>1
  <2> QED
    BY <2>1, <2>2
<1>2. /\ \A j \in 1..n : Positive((IF j = 1 THEN from ELSE bs[j - 1].displayed) - bs[j].displayed)
                           = bs[j].cancelled + bs[j].quantity
      /\ to = bs[n].displayed
  BY <1>1 DEF DepthsAddUp
<1> HIDE DEF ds, n
<1>3. 1 \in 1..n
  BY <1>1
<1>4. Positive(from - bs[1].displayed) = bs[1].cancelled + bs[1].quantity
  BY <1>2, <1>3
<1>5. ASSUME NEW j \in 1..(n - 1)
      PROVE  Positive((IF j = 1 THEN bs[1].displayed ELSE ds[j - 1].displayed) - ds[j].displayed)
               = ds[j].cancelled + ds[j].quantity
  <2>1. j \in Nat /\ j + 1 \in 1..n /\ j + 1 # 1 /\ (j + 1) - 1 = j /\ ds[j] = bs[j + 1]
    BY <1>1
  <2>2. Positive(bs[j].displayed - ds[j].displayed) = ds[j].cancelled + ds[j].quantity
    <3>1. Positive((IF j + 1 = 1 THEN from ELSE bs[(j + 1) - 1].displayed) - bs[j + 1].displayed)
            = bs[j + 1].cancelled + bs[j + 1].quantity
      BY <1>2, <2>1
    <3> QED
      BY <2>1, <3>1, Zenon
  <2>3. CASE j = 1
    BY <2>2, <2>3
  <2>4. CASE j # 1
    <3>1. j - 1 \in 1..(n - 1) /\ (j - 1) + 1 = j
      BY <1>1, <2>4
    <3>2. ds[j - 1] = bs[j]
      BY <1>1, <3>1
    <3> QED
      BY <2>2, <2>4, <3>2
  <2> QED
    BY <2>3, <2>4
<1>6. to = IF ds = <<>> THEN bs[1].displayed ELSE ds[Len(ds)].displayed
  <2>1. CASE n = 1
    BY <1>1, <1>2, <2>1
  <2>2. CASE n # 1
    <3>1. n - 1 \in 1..(n - 1) /\ (n - 1) + 1 = n
      BY <1>1, <2>2
    <3> QED
      BY <1>1, <1>2, <2>2, <3>1
  <2> QED
    BY <2>1, <2>2
<1> QED
  BY <1>1, <1>4, <1>5, <1>6 DEF DepthsAddUp, ds

\* The next depth change: its time, and what it consists of.
NextDepth(bs, t, c, x) ==
  bs # <<>> /\ t = Head(bs).time /\ c = Head(bs).cancelled /\ x = Head(bs).quantity

\* What is counted of the rest of the depth changes.
LEMMA RestCounts ==
  ASSUME NEW bs, NEW ts, NEW last, NEW time, ReportsInOrder(bs, ts, last, time),
         NEW t, NEW c, NEW x, NextDepth(bs, t, c, x), NEW s \in Int
  PROVE  /\ last + 1 \in Pending(ts) =>
              /\ Counted(Tail(bs), TradeFirst(Pending(ts), s)) = Counted(bs, TradeFirst(Pending(ts), s))
              /\ Counted(Tail(bs), TradesFirst(Pending(ts))) = Counted(bs, TradesFirst(Pending(ts)))
         /\ last + 1 \notin Pending(ts) =>
              /\ Counted(bs, TradeFirst(Pending(ts), s))
                   = (IF t > s THEN 0 ELSE x) + Counted(Tail(bs), TradeFirst(Pending(ts), s))
              /\ Counted(bs, TradesFirst(Pending(ts)))
                   = x + Counted(Tail(bs), TradesFirst(Pending(ts)))
<1> DEFINE book == Head(bs)
           p == Pending(ts)
<1>1. /\ bs # <<>> /\ bs \in Seq(BookReport) /\ Quantified(BookReport)
      /\ book \in BookReport /\ book.event = last + 1 /\ book.time = t /\ book.quantity = x
      /\ t \in Nat /\ x \in Nat
  <2>1. bs # <<>> /\ t = book.time /\ x = book.quantity
    BY DEF NextDepth
  <2>2. bs \in Seq(BookReport) /\ Quantified(BookReport)
    BY Reports DEF ReportsInOrder
  <2>3. book \in BookReport /\ book.event = last + 1 /\ book.time \in Nat /\ book.quantity \in Nat
    BY <2>1, RestInOrder
  <2> QED
    BY <2>1, <2>2, <2>3
<1>2. \A X : /\ Counted(bs, X) = Share(book, X) + Counted(Tail(bs), X)
             /\ Counted(Tail(bs), X) \in Nat /\ Share(book, X) \in Nat
  BY <1>1, CountedHead
<1> HIDE DEF book, p
<1>3. ASSUME last + 1 \in p
      PROVE  /\ Counted(Tail(bs), TradeFirst(p, s)) = Counted(bs, TradeFirst(p, s))
             /\ Counted(Tail(bs), TradesFirst(p)) = Counted(bs, TradesFirst(p))
  <2>1. Share(book, TradeFirst(p, s)) = 0 /\ Share(book, TradesFirst(p)) = 0
    BY <1>1, <1>3 DEF Share, TradeFirst, TradesFirst
  <2> QED
    BY <1>2, <2>1
<1>4. ASSUME last + 1 \notin p
      PROVE  /\ Counted(bs, TradeFirst(p, s))
                  = (IF t > s THEN 0 ELSE x) + Counted(Tail(bs), TradeFirst(p, s))
             /\ Counted(bs, TradesFirst(p)) = x + Counted(Tail(bs), TradesFirst(p))
  <2>1. Share(book, TradeFirst(p, s)) = (IF t > s THEN 0 ELSE x)
    <3>1. book \in TradeFirst(p, s) <=> ~(t > s)
      BY <1>1, <1>4 DEF TradeFirst
    <3> QED
      BY <1>1, <3>1 DEF Share
  <2>2. Share(book, TradesFirst(p)) = x
    BY <1>1, <1>4 DEF Share, TradesFirst
  <2> QED
    BY <1>2, <2>1, <2>2
<1> QED
  BY <1>3, <1>4 DEF p

\* What is counted of the trades when a depth change comes.
LEMMA DepthCounts ==
  ASSUME NEW bs, NEW ts, NEW last, NEW time, ReportsInOrder(bs, ts, last, time),
         NEW t, NEW c, NEW x, NextDepth(bs, t, c, x), NEW s \in Int
  PROVE  /\ last + 1 \in Pending(ts) =>
              /\ Counted(ts, DepthFirst(last + 1, s))
                   = Counted(ts, DepthFirst(last, s)) + (IF t > s THEN x ELSE 0)
              /\ Counted(bs, TradeFirst(Pending(ts), s)) = 0
         /\ last + 1 \notin Pending(ts) =>
              Counted(ts, DepthFirst(last + 1, s)) = Counted(ts, DepthFirst(last, s))
<1>1. /\ bs # <<>> /\ bs \in Seq(BookReport) /\ ts \in Seq(TradeReport) /\ Quantified(TradeReport)
      /\ last \in Nat /\ bs[1].event = last + 1 /\ bs[1].time = t /\ bs[1].quantity = x
      /\ t \in Nat /\ x \in Nat /\ Len(bs) \in Nat /\ DOMAIN bs = 1..Len(bs) /\ 1 \in DOMAIN bs
  <2>1. bs # <<>> /\ t = Head(bs).time /\ x = Head(bs).quantity
    BY DEF NextDepth
  <2>2. bs \in Seq(BookReport) /\ ts \in Seq(TradeReport) /\ last \in Nat
    BY DEF ReportsInOrder
  <2>3. Head(bs) = bs[1] /\ bs[1].event = last + 1 /\ bs[1].time \in Nat /\ bs[1].quantity \in Nat
    BY <2>1, RestInOrder
  <2>4. Len(bs) \in Nat /\ DOMAIN bs = 1..Len(bs) /\ 1 \in DOMAIN bs
    BY <2>1, <2>2
  <2>5. Quantified(TradeReport)
    BY Reports
  <2> QED
    BY <2>1, <2>2, <2>3, <2>4, <2>5
<1>2. /\ Len(ts) \in Nat /\ DOMAIN ts = 1..Len(ts)
      /\ \A i \in DOMAIN ts : ts[i] \in TradeReport /\ ts[i].event \in Nat
      /\ \A j \in DOMAIN bs : bs[j] \in BookReport /\ bs[j].event \in Nat /\ bs[j].quantity \in Nat
  BY Reports
<1>3. /\ \A j \in DOMAIN bs : bs[j].event = last + j
      /\ \A i, j \in DOMAIN ts : i < j => ts[i].event < ts[j].event
      /\ \A i \in DOMAIN ts, j \in DOMAIN bs :
           ts[i].event = bs[j].event => ts[i].time = bs[j].time /\ ts[i].quantity = bs[j].quantity
      /\ \A i \in DOMAIN ts, j \in DOMAIN bs :
           bs[j].quantity > 0 /\ bs[j].event \notin Pending(ts) => bs[j].event < ts[i].event
  BY DEF ReportsInOrder
<1>4. \A i \in DOMAIN ts : ts[i].event <= last + 1 <=> (ts[i].event <= last \/ ts[i].event = last + 1)
  <2> SUFFICES ASSUME NEW e \in Nat PROVE e <= last + 1 <=> (e <= last \/ e = last + 1)
    BY <1>2
  <2> QED
    BY <1>1
<1>5. ASSUME last + 1 \in Pending(ts)
      PROVE  /\ Counted(ts, DepthFirst(last + 1, s))
                  = Counted(ts, DepthFirst(last, s)) + (IF t > s THEN x ELSE 0)
             /\ Counted(bs, TradeFirst(Pending(ts), s)) = 0
  <2>1. PICK k \in DOMAIN ts : ts[k].event = last + 1
    BY <1>5 DEF Pending
  <2>2. ts[k].time = t /\ ts[k].quantity = x /\ ~(ts[k].event <= last)
    <3>1. ts[k].time = t /\ ts[k].quantity = x
      BY <1>1, <1>3, <2>1
    <3>2. ~(last + 1 <= last)
      BY <1>1
    <3> QED
      BY <2>1, <3>1, <3>2
  <2>3. \A i \in DOMAIN ts : i # k => ts[i].event # last + 1
    <3> SUFFICES ASSUME NEW i \in 1..Len(ts), i # k PROVE ts[i].event # ts[k].event
      BY <1>2, <2>1
    <3>1. i < k \/ k < i
      BY <1>2, <2>1
    <3>2. ts[i].event < ts[k].event \/ ts[k].event < ts[i].event
      BY <1>2, <1>3, <2>1, <3>1
    <3>3. ts[i].event \in Nat /\ ts[k].event \in Nat
      BY <1>2, <2>1
    <3> QED
      BY <3>2, <3>3
  <2>4. \A i \in DOMAIN ts :
          i # k => (ts[i] \in DepthFirst(last, s) <=> ts[i] \in DepthFirst(last + 1, s))
    BY <1>4, <2>3 DEF DepthFirst
  <2>5. ts[k] \notin DepthFirst(last, s) /\ (ts[k] \in DepthFirst(last + 1, s) <=> t > s)
    BY <1>2, <1>4, <2>1, <2>2 DEF DepthFirst
  <2>6. Counted(ts, DepthFirst(last + 1, s))
          = Counted(ts, DepthFirst(last, s)) + (IF t > s THEN x ELSE 0)
    <3>1. CASE t > s
      <4>1. Counted(ts, DepthFirst(last + 1, s)) = Counted(ts, DepthFirst(last, s)) + ts[k].quantity
        BY <1>1, <1>2, <2>4, <2>5, <3>1, CountedWithOneMore
      <4> QED
        BY <2>2, <3>1, <4>1
    <3>2. CASE ~(t > s)
      <4>1. \A i \in DOMAIN ts : ts[i] \in DepthFirst(last + 1, s) <=> ts[i] \in DepthFirst(last, s)
        BY <2>4, <2>5, <3>2
      <4>2. Counted(ts, DepthFirst(last + 1, s)) = Counted(ts, DepthFirst(last, s))
        BY <4>1, CountedSame
      <4>3. Counted(ts, DepthFirst(last, s)) \in Nat
        BY <1>1, CountedType
      <4> QED
        BY <3>2, <4>2, <4>3
    <3> QED
      BY <3>1, <3>2
  <2>7. \A j \in DOMAIN bs : bs[j].event \notin Pending(ts) => bs[j].quantity = 0
    <3> SUFFICES ASSUME NEW j \in 1..Len(bs), bs[j].event \notin Pending(ts), bs[j].quantity > 0
                 PROVE  FALSE
      BY <1>1, <1>2
    <3>1. bs[j].event < last + 1
      BY <1>1, <1>3, <2>1
    <3>2. bs[j].event = last + j /\ j >= 1 /\ j \in Nat
      BY <1>1, <1>3
    <3> QED
      BY <1>1, <3>1, <3>2
  <2>8. Counted(bs, TradeFirst(Pending(ts), s)) = 0
    <3> DEFINE X == TradeFirst(Pending(ts), s)
    <3>1. \A j \in DOMAIN bs : bs[j] \in X => bs[j].quantity = 0
      BY <2>7 DEF TradeFirst
    <3> HIDE DEF X
    <3>2. \A j \in DOMAIN Part(bs, X) : Part(bs, X)[j] = 0
      BY <3>1 DEF Part
    <3> QED
      BY <3>2, SumOfZeros DEF Counted, X
  <2> QED
    BY <2>6, <2>8
<1>6. ASSUME last + 1 \notin Pending(ts)
      PROVE  Counted(ts, DepthFirst(last + 1, s)) = Counted(ts, DepthFirst(last, s))
  <2>1. \A i \in DOMAIN ts : ts[i].event # last + 1
    BY <1>6 DEF Pending
  <2>2. \A i \in DOMAIN ts : ts[i] \in DepthFirst(last + 1, s) <=> ts[i] \in DepthFirst(last, s)
    BY <1>4, <2>1 DEF DepthFirst
  <2> QED
    BY <2>2, CountedSame
<1> QED
  BY <1>5, <1>6

\* depth(): the credits it explains are used up; what is left of it is a reduction.
LEMMA DepthFits ==
  ASSUME NEW ahead \in Nat, NEW rs, NEW cs, NEW bs, NEW ts, NEW last, NEW time, NEW told \in Nat,
         NEW t, NEW c, NEW x, NextDepth(bs, t, c, x), NEW n \in Nat, n = c + x,
         NEW u, Leaves(cs, n, u), ReportsInOrder(bs, ts, last, time), ListsInOrder(rs, cs, time),
         ReductionsWait(rs, ts, last), CreditsWait(cs, bs, ts),
         Balanced(ahead, rs, cs, bs, ts, last, told)
  PROVE  /\ ReportsInOrder(Tail(bs), ts, last + 1, time)
         /\ ListsInOrder(Added(rs, time, u), Match(cs, n), time)
         /\ ReductionsWait(Added(rs, time, u), ts, last + 1)
         /\ CreditsWait(Match(cs, n), Tail(bs), ts)
         /\ Balanced(ahead, Added(rs, time, u), Match(cs, n), Tail(bs), ts, last + 1, told + c)
<1> DEFINE ds == Tail(bs)
           new == Match(cs, n)
           added == Added(rs, time, u)
           p == Pending(ts)
<1>1. /\ ReportsInOrder(ds, ts, last + 1, time)
      /\ c \in Nat /\ x \in Nat /\ t \in Nat /\ t <= time /\ last \in Nat /\ time \in Nat
  <2>1. last \in Nat /\ time \in Nat
    BY DEF ReportsInOrder
  <2>2. bs # <<>> /\ t = Head(bs).time /\ c = Head(bs).cancelled /\ x = Head(bs).quantity
    BY DEF NextDepth
  <2>3. /\ ReportsInOrder(ds, ts, last + 1, time)
        /\ Head(bs).time <= time /\ Head(bs).time \in Nat
        /\ Head(bs).quantity \in Nat /\ Head(bs).cancelled \in Nat
    BY <2>2, RestInOrder
  <2> QED
    BY <2>1, <2>2, <2>3
<1>2. ListsInOrder(cs, rs, time)
  BY DEF ListsInOrder
<1>3. /\ ListsInOrder(added, new, time)
      /\ u \in Nat /\ u = Positive(n - TotalOf(cs))
      /\ TotalOf(new) = Positive(TotalOf(cs) - n)
      /\ TotalOf(added) = TotalOf(rs) + u
  BY <1>1, <1>2, ListsAfterMatch
<1>4. /\ \A X : /\ Counted(rs, X) \in Nat /\ Counted(cs, X) \in Nat
                /\ Counted(bs, X) \in Nat /\ Counted(ts, X) \in Nat
      /\ TotalOf(rs) \in Nat /\ TotalOf(cs) \in Nat
      /\ Counted(cs, Until(time)) = TotalOf(cs)
  BY CountsAreNatural
<1>5. \A X : /\ Counted(ds, X) \in Nat
             /\ Counted(new, X) \in Nat /\ Counted(added, X) \in Nat
  BY <1>1, <1>3, CountsAreNatural
<1>6. \A s \in Int :
        /\ Counted(new, Until(s)) = Positive(Counted(cs, Until(s)) - n)
        /\ Counted(added, After(s)) = Counted(rs, After(s)) + (IF time > s THEN u ELSE 0)
  BY <1>1, <1>2, CountsAfterMatch
<1>7. PICK R, C \in Nat : R = TotalOf(rs) /\ C = TotalOf(cs)
  BY <1>4
<1>8. PICK V, A \in Nat : V = Counted(bs, TradesFirst(p)) /\ A = Counted(ts, DepthFirst(last, -1))
  BY <1>4
<1>9. PICK V2, A2 \in Nat : /\ V2 = Counted(ds, TradesFirst(p))
                            /\ A2 = Counted(ts, DepthFirst(last + 1, -1))
  BY <1>4, <1>5
<1>10. PICK R2, C2, w \in Nat : /\ R2 = TotalOf(added) /\ C2 = TotalOf(new) /\ w = u
                                /\ R2 = R + w /\ w = Positive((c + x) - C) /\ C2 = Positive(C - (c + x))
  <2>1. TotalOf(added) \in Nat /\ TotalOf(new) \in Nat
    BY <1>1, <1>3, CountsAreNatural
  <2> QED
    BY <1>3, <1>7, <2>1
<1>11. (Displayed - ahead) + (R + V) <= told + (C + A)
  BY <1>7, <1>8 DEF Balanced
<1>12. Displayed \in Nat
  BY QueueConstants
<1>13. \A s \in Int :
         /\ Counted(ts, DepthFirst(last, s)) <= Counted(rs, After(s))
         /\ Counted(cs, Until(s)) <= Counted(bs, TradeFirst(p, s))
  BY DEF ReductionsWait, CreditsWait
<1>14. \A s \in Int :
         /\ last + 1 \in p =>
              /\ Counted(ds, TradeFirst(p, s)) = Counted(bs, TradeFirst(p, s))
              /\ Counted(ds, TradesFirst(p)) = Counted(bs, TradesFirst(p))
              /\ Counted(ts, DepthFirst(last + 1, s))
                   = Counted(ts, DepthFirst(last, s)) + (IF t > s THEN x ELSE 0)
              /\ Counted(bs, TradeFirst(p, s)) = 0
         /\ last + 1 \notin p =>
              /\ Counted(bs, TradeFirst(p, s))
                   = (IF t > s THEN 0 ELSE x) + Counted(ds, TradeFirst(p, s))
              /\ Counted(bs, TradesFirst(p)) = x + Counted(ds, TradesFirst(p))
              /\ Counted(ts, DepthFirst(last + 1, s)) = Counted(ts, DepthFirst(last, s))
  <2> SUFFICES ASSUME NEW s \in Int
               PROVE  /\ last + 1 \in p =>
                         /\ Counted(ds, TradeFirst(p, s)) = Counted(bs, TradeFirst(p, s))
                         /\ Counted(ds, TradesFirst(p)) = Counted(bs, TradesFirst(p))
                         /\ Counted(ts, DepthFirst(last + 1, s))
                              = Counted(ts, DepthFirst(last, s)) + (IF t > s THEN x ELSE 0)
                         /\ Counted(bs, TradeFirst(p, s)) = 0
                      /\ last + 1 \notin p =>
                         /\ Counted(bs, TradeFirst(p, s))
                              = (IF t > s THEN 0 ELSE x) + Counted(ds, TradeFirst(p, s))
                         /\ Counted(bs, TradesFirst(p)) = x + Counted(ds, TradesFirst(p))
                         /\ Counted(ts, DepthFirst(last + 1, s)) = Counted(ts, DepthFirst(last, s))
    OBVIOUS
  <2> QED
    BY RestCounts, DepthCounts
<1> HIDE DEF ds, new, added, p
<1>15. CASE last + 1 \in p
  <2>1. C = 0
    <3>1. Counted(cs, Until(time)) <= 0
      BY <1>1, <1>13, <1>14, <1>15
    <3> QED
      BY <1>4, <1>7, <3>1
  <2>2. C2 = 0 /\ w = c + x
    BY <1>1, <1>10, <2>1 DEF Positive
  <2>3. ReductionsWait(added, ts, last + 1)
    <3> SUFFICES ASSUME NEW s \in Int
                 PROVE  Counted(ts, DepthFirst(last + 1, s)) <= Counted(added, After(s))
      BY DEF ReductionsWait
    <3>1. PICK y, z \in Nat : y = Counted(ts, DepthFirst(last, s)) /\ z = Counted(rs, After(s))
      BY <1>4
    <3>2. y + (IF t > s THEN x ELSE 0) <= z + (IF time > s THEN w ELSE 0)
      <4>1. y <= z
        BY <1>13, <3>1
      <4>2. t > s => time > s
        BY <1>1
      <4>3. y + x <= z + w /\ y + 0 <= z + 0 /\ y + 0 <= z + w
        BY <1>1, <2>2, <3>1, <4>1
      <4> QED
        BY <4>2, <4>3
    <3> QED
      BY <1>6, <1>10, <1>14, <1>15, <3>1, <3>2
  <2>4. CreditsWait(new, ds, ts)
    <3> SUFFICES ASSUME NEW s \in Int
                 PROVE  Counted(new, Until(s)) <= Counted(ds, TradeFirst(p, s))
      BY DEF CreditsWait, p
    <3>1. PICK y \in Nat : y = Counted(cs, Until(s))
      BY <1>4
    <3>2. y <= 0 /\ Counted(ds, TradeFirst(p, s)) = 0
      BY <1>13, <1>14, <1>15, <3>1
    <3>3. Positive(y - n) = 0
      BY <3>1, <3>2 DEF Positive
    <3> QED
      BY <1>6, <3>1, <3>2, <3>3
  <2>5. Balanced(ahead, added, new, ds, ts, last + 1, told + c)
    <3>1. A2 = A + x /\ V2 = V
      <4>1. -1 \in Int /\ t > -1
        BY <1>1
      <4> QED
        BY <1>8, <1>9, <1>14, <1>15, <4>1
    <3>2. ((R2 + V2) + (C + A)) + 0 <= ((R + V) + (C2 + A2)) + c
      BY <1>1, <1>10, <2>1, <2>2, <3>1
    <3>3. (Displayed - (ahead - 0)) + (R2 + V2) <= (told + c) + (C2 + A2)
      BY <1>1, <1>11, <1>12, <3>2, StillBalanced
    <3>4. ahead - 0 = ahead
      OBVIOUS
    <3> QED
      BY <1>9, <1>10, <3>3, <3>4, Zenon DEF Balanced, p
  <2> QED
    BY <1>1, <1>3, <2>3, <2>4, <2>5 DEF ds, new, added
<1>16. CASE last + 1 \notin p
  <2>1. ReductionsWait(added, ts, last + 1)
    <3> SUFFICES ASSUME NEW s \in Int
                 PROVE  Counted(ts, DepthFirst(last + 1, s)) <= Counted(added, After(s))
      BY DEF ReductionsWait
    <3>1. PICK y, z \in Nat : y = Counted(ts, DepthFirst(last, s)) /\ z = Counted(rs, After(s))
      BY <1>4
    <3>2. y <= z /\ (IF time > s THEN w ELSE 0) \in Nat
      BY <1>13, <3>1
    <3> QED
      BY <1>6, <1>10, <1>14, <1>16, <3>1, <3>2
  <2>2. CreditsWait(new, ds, ts)
    <3> SUFFICES ASSUME NEW s \in Int
                 PROVE  Counted(new, Until(s)) <= Counted(ds, TradeFirst(p, s))
      BY DEF CreditsWait, p
    <3>1. PICK y, z \in Nat : y = Counted(cs, Until(s)) /\ z = Counted(ds, TradeFirst(p, s))
      BY <1>4, <1>5
    <3>2. y <= (IF t > s THEN 0 ELSE x) + z
      BY <1>13, <1>14, <1>16, <3>1
    <3>3. Positive(y - (c + x)) <= z
      <4>1. y <= x + z
        BY <1>1, <3>1, <3>2
      <4> QED
        BY <1>1, <3>1, <4>1 DEF Positive
    <3> QED
      BY <1>6, <3>1, <3>3
  <2>3. Balanced(ahead, added, new, ds, ts, last + 1, told + c)
    <3>1. A2 = A /\ V = x + V2
      <4>1. -1 \in Int
        OBVIOUS
      <4> QED
        BY <1>8, <1>9, <1>14, <1>16, <4>1
    <3>2. w + C = C2 + (c + x)
      BY <1>1, <1>10 DEF Positive
    <3>3. ((R2 + V2) + (C + A)) + 0 <= ((R + V) + (C2 + A2)) + c
      BY <1>1, <1>10, <3>1, <3>2
    <3>4. (Displayed - (ahead - 0)) + (R2 + V2) <= (told + c) + (C2 + A2)
      BY <1>1, <1>11, <1>12, <3>3, StillBalanced
    <3>5. ahead - 0 = ahead
      OBVIOUS
    <3> QED
      BY <1>9, <1>10, <3>4, <3>5, Zenon DEF Balanced, p
  <2> QED
    BY <1>1, <1>3, <2>1, <2>2, <2>3 DEF ds, new, added
<1> QED
  BY <1>15, <1>16

\* trade() on an estimate.
LEMMA TradeStep ==
  ASSUME NEW q, NEW bs, NEW ts, NEW last, NEW time, NEW told,
         FavorableFits(q, bs, ts, last, time, told), ts # <<>>
  PROVE  /\ FavorableFits(Trade(q, time, Head(ts).quantity), bs, Tail(ts), last, time,
                          told + Head(ts).quantity)
         /\ Trade(q, time, Head(ts).quantity).displayed = q.displayed
<1> DEFINE adv == Advance(q, time)
<1>1. FavorableFits(adv, bs, ts, last, time, told)
  BY AdvanceFits
<1>2. /\ adv \in FavorableQueue /\ told \in Nat /\ ReportsInOrder(bs, ts, last, time)
      /\ ListsInOrder(adv.reductions, adv.credits, time)
      /\ ReductionsWait(adv.reductions, ts, last) /\ CreditsWait(adv.credits, bs, ts)
      /\ Balanced(adv.ahead, adv.reductions, adv.credits, bs, ts, last, told)
  BY <1>1 DEF FavorableFits
<1>3. adv.displayed = q.displayed
  <2>1. /\ q \in FavorableQueue /\ time \in Nat /\ Sorted(q.reductions) /\ Sorted(q.credits)
    BY DEF FavorableFits, ReportsInOrder, ListsInOrder
  <2> QED
    BY <2>1, FavorableAdvance
<1>4. Trade(q, time, Head(ts).quantity)
        = [adv EXCEPT !.reductions = Match(@, Head(ts).quantity),
                    !.credits = Added(@, time, Unmatched(adv.reductions, Head(ts).quantity)),
                    !.ahead = @ - Smaller(@, Head(ts).quantity)]
  BY DEF Trade
<1>5. Head(ts).quantity \in Nat /\ time \in Nat
  <2>1. Head(ts).quantity \in Nat
    BY <1>2, TailInOrder
  <2>2. time \in Nat
    BY <1>2 DEF ReportsInOrder
  <2> QED
    BY <2>1, <2>2
<1> HIDE DEF adv
<1>6. PICK n, u : n = Head(ts).quantity /\ u = Unmatched(adv.reductions, n)
  OBVIOUS
<1>7. n \in Nat /\ NextTrade(ts, n) /\ Leaves(adv.reductions, n, u)
  BY <1>5, <1>6 DEF NextTrade, Leaves
<1>8. adv.ahead \in Nat
  BY <1>2, FavorableFields
<1>9. /\ ReportsInOrder(bs, Tail(ts), last, time)
      /\ ListsInOrder(Match(adv.reductions, n), Added(adv.credits, time, u), time)
      /\ ReductionsWait(Match(adv.reductions, n), Tail(ts), last)
      /\ CreditsWait(Added(adv.credits, time, u), bs, Tail(ts))
      /\ Balanced(adv.ahead - Smaller(adv.ahead, n), Match(adv.reductions, n), Added(adv.credits, time, u),
                  bs, Tail(ts), last, told + n)
  BY <1>2, <1>7, <1>8, TradeFits
<1>10. PICK rs, cs, h : /\ rs = Match(adv.reductions, n) /\ cs = Added(adv.credits, time, u)
                        /\ h = adv.ahead - Smaller(adv.ahead, n)
  OBVIOUS
<1>11. rs \in Seq(Change) /\ cs \in Seq(Change) /\ h \in Nat /\ told + n \in Nat
  <2>1. rs \in Seq(Change) /\ cs \in Seq(Change)
    BY <1>9, <1>10 DEF ListsInOrder
  <2>2. adv.ahead - Smaller(adv.ahead, n) \in Nat
    BY <1>7, <1>8 DEF Smaller
  <2> QED
    BY <1>2, <1>7, <1>10, <2>1, <2>2
<1> DEFINE r == [adv EXCEPT !.reductions = rs, !.credits = cs, !.ahead = h]
<1>12. Trade(q, time, n) = r
  BY <1>4, <1>6, <1>10
<1>13. /\ r \in FavorableQueue /\ r.displayed = adv.displayed
       /\ r.reductions = rs /\ r.credits = cs /\ r.ahead = h
  BY <1>2, <1>11 DEF FavorableQueue
<1> HIDE DEF r
<1>14. FavorableFits(r, bs, Tail(ts), last, time, told + n)
  BY <1>9, <1>10, <1>11, <1>13, Zenon DEF FavorableFits
<1> QED
  BY <1>3, <1>6, <1>12, <1>13, <1>14

\* depth() on an estimate.
LEMMA DepthStep ==
  ASSUME NEW q, NEW bs, NEW ts, NEW last, NEW time, NEW told, NEW to,
         FavorableFits(q, bs, ts, last, time, told), bs # <<>>, DepthsAddUp(bs, q.displayed, to)
  PROVE  /\ FavorableFits(Depth(q, time, Head(bs).displayed), Tail(bs), ts, last + 1, time,
                          told + Head(bs).cancelled)
         /\ DepthsAddUp(Tail(bs), Depth(q, time, Head(bs).displayed).displayed, to)
<1> DEFINE adv == Advance(q, time)
<1>1. FavorableFits(adv, bs, ts, last, time, told)
  BY AdvanceFits
<1>2. /\ adv \in FavorableQueue /\ told \in Nat /\ ReportsInOrder(bs, ts, last, time)
      /\ ListsInOrder(adv.reductions, adv.credits, time)
      /\ ReductionsWait(adv.reductions, ts, last) /\ CreditsWait(adv.credits, bs, ts)
      /\ Balanced(adv.ahead, adv.reductions, adv.credits, bs, ts, last, told)
  BY <1>1 DEF FavorableFits
<1>3. adv.displayed = q.displayed
  <2>1. /\ q \in FavorableQueue /\ time \in Nat /\ Sorted(q.reductions) /\ Sorted(q.credits)
    BY DEF FavorableFits, ReportsInOrder, ListsInOrder
  <2> QED
    BY <2>1, FavorableAdvance
<1>4. Depth(q, time, Head(bs).displayed)
        = [adv EXCEPT !.displayed = Head(bs).displayed,
                    !.credits = Match(@, Reduction(adv, Head(bs).displayed)),
                    !.reductions = Added(@, time, Unmatched(adv.credits, Reduction(adv, Head(bs).displayed)))]
  BY DEF Depth
<1>5. /\ Head(bs).time \in Nat /\ Head(bs).quantity \in Nat /\ Head(bs).cancelled \in Nat
      /\ Head(bs).displayed \in Nat /\ bs \in Seq(BookReport)
  <2>1. bs \in Seq(BookReport)
    BY <1>2 DEF ReportsInOrder
  <2> QED
    BY <1>2, <2>1, RestInOrder
<1>6. /\ DepthsAddUp(Tail(bs), Head(bs).displayed, to)
      /\ Reduction(adv, Head(bs).displayed) = Head(bs).cancelled + Head(bs).quantity
  BY <1>3, <1>5, RestAddsUp DEF Reduction
<1> HIDE DEF adv
<1>7. PICK t, c, x, d : /\ t = Head(bs).time /\ c = Head(bs).cancelled /\ x = Head(bs).quantity
                        /\ d = Head(bs).displayed
  OBVIOUS
<1>8. PICK n, u : n = Reduction(adv, d) /\ u = Unmatched(adv.credits, n)
  OBVIOUS
<1>9. /\ NextDepth(bs, t, c, x) /\ n \in Nat /\ n = c + x /\ Leaves(adv.credits, n, u) /\ d \in Nat
      /\ c \in Nat
  BY <1>5, <1>6, <1>7, <1>8 DEF NextDepth, Leaves
<1>10. adv.ahead \in Nat
  BY <1>2, FavorableFields
<1>11. /\ ReportsInOrder(Tail(bs), ts, last + 1, time)
       /\ ListsInOrder(Added(adv.reductions, time, u), Match(adv.credits, n), time)
       /\ ReductionsWait(Added(adv.reductions, time, u), ts, last + 1)
       /\ CreditsWait(Match(adv.credits, n), Tail(bs), ts)
       /\ Balanced(adv.ahead, Added(adv.reductions, time, u), Match(adv.credits, n), Tail(bs), ts,
                   last + 1, told + c)
  BY <1>2, <1>9, <1>10, DepthFits
<1>12. PICK rs, cs : /\ rs = Added(adv.reductions, time, u) /\ cs = Match(adv.credits, n)
  OBVIOUS
<1>13. rs \in Seq(Change) /\ cs \in Seq(Change) /\ told + c \in Nat
  <2>1. rs \in Seq(Change) /\ cs \in Seq(Change)
    BY <1>11, <1>12 DEF ListsInOrder
  <2> QED
    BY <1>2, <1>9, <2>1
<1> DEFINE r == [adv EXCEPT !.displayed = d, !.credits = cs, !.reductions = rs]
<1>14. Depth(q, time, d) = r
  BY <1>4, <1>7, <1>8, <1>12
<1>15. /\ r \in FavorableQueue /\ r.displayed = d
       /\ r.reductions = rs /\ r.credits = cs /\ r.ahead = adv.ahead
  BY <1>2, <1>9, <1>13 DEF FavorableQueue
<1> HIDE DEF r
<1>16. FavorableFits(r, Tail(bs), ts, last + 1, time, told + c)
  BY <1>11, <1>12, <1>13, <1>15, Zenon DEF FavorableFits
<1> QED
  BY <1>6, <1>7, <1>14, <1>15, <1>16

\* Another change at the venue, of which the estimate knows nothing.
SameCounts(bs2, ts2, bs, ts, last) ==
  /\ \A s \in Int :
       /\ Counted(ts2, DepthFirst(last, s)) = Counted(ts, DepthFirst(last, s))
       /\ Counted(bs2, TradeFirst(Pending(ts2), s)) = Counted(bs, TradeFirst(Pending(ts), s))
  /\ Counted(bs2, TradesFirst(Pending(ts2))) = Counted(bs, TradesFirst(Pending(ts)))

LEMMA StillFits ==
  ASSUME NEW q, NEW bs, NEW ts, NEW last, NEW time, NEW told, NEW bs2, NEW ts2,
         FavorableFits(q, bs, ts, last, time, told), ReportsInOrder(bs2, ts2, last, time),
         SameCounts(bs2, ts2, bs, ts, last)
  PROVE  FavorableFits(q, bs2, ts2, last, time, told)
<1>1. /\ q \in FavorableQueue /\ told \in Nat
      /\ ListsInOrder(q.reductions, q.credits, time)
      /\ ReductionsWait(q.reductions, ts, last) /\ CreditsWait(q.credits, bs, ts)
      /\ Balanced(q.ahead, q.reductions, q.credits, bs, ts, last, told)
  BY DEF FavorableFits
<1>2. ReductionsWait(q.reductions, ts2, last)
  BY <1>1 DEF ReductionsWait, SameCounts
<1>3. CreditsWait(q.credits, bs2, ts2)
  BY <1>1 DEF CreditsWait, SameCounts
<1>4. Balanced(q.ahead, q.reductions, q.credits, bs2, ts2, last, told)
  <2>1. /\ Counted(bs2, TradesFirst(Pending(ts2))) = Counted(bs, TradesFirst(Pending(ts)))
        /\ Counted(ts2, DepthFirst(last, -1)) = Counted(ts, DepthFirst(last, -1))
    <3>1. -1 \in Int
      OBVIOUS
    <3> QED
      BY <3>1 DEF SameCounts
  <2> QED
    BY <1>1, <2>1, Zenon DEF Balanced
<1> QED
  BY <1>1, <1>2, <1>3, <1>4 DEF FavorableFits

\* A report of a depth change that is not a trade.
LEMMA DepthAdded ==
  ASSUME NEW bs, NEW ts, NEW last, NEW time, ReportsInOrder(bs, ts, last, time),
         NEW book \in BookReport, book.event = last + (Len(bs) + 1), book.time = time, book.quantity = 0
  PROVE  /\ ReportsInOrder(Append(bs, book), ts, last, time)
         /\ SameCounts(Append(bs, book), ts, bs, ts, last)
<1> DEFINE n == Len(bs)
           bs2 == Append(bs, book)
<1>1. /\ bs \in Seq(BookReport) /\ ts \in Seq(TradeReport) /\ last \in Nat /\ time \in Nat
      /\ \A j \in DOMAIN bs : /\ bs[j].event = last + j
                              /\ bs[j].time <= time /\ time - Window <= bs[j].time
      /\ \A i \in DOMAIN ts : /\ ts[i].event <= last + Len(bs) /\ ts[i].quantity > 0
                              /\ ts[i].time <= time /\ time - Window <= ts[i].time
      /\ \A i, j \in DOMAIN ts : i < j => ts[i].event < ts[j].event
      /\ \A i \in DOMAIN ts, j \in DOMAIN bs :
           ts[i].event = bs[j].event => ts[i].time = bs[j].time /\ ts[i].quantity = bs[j].quantity
      /\ \A i \in DOMAIN ts, j \in DOMAIN bs :
           bs[j].quantity > 0 /\ bs[j].event \notin Pending(ts) => bs[j].event < ts[i].event
  BY DEF ReportsInOrder
<1>2. /\ n \in Nat /\ DOMAIN bs = 1..n /\ bs2 \in Seq(BookReport) /\ DOMAIN bs2 = 1..(n + 1)
      /\ Len(bs2) = n + 1 /\ \A j \in 1..n : bs2[j] = bs[j]
      /\ bs2[n + 1] = book
  BY <1>1
<1>3. \A i \in DOMAIN ts : ts[i].event \in Nat
  BY Reports
<1> HIDE DEF n, bs2
<1>4. book.event = last + (n + 1)
  BY DEF n
<1>5. \A j \in DOMAIN bs2 : (j \in DOMAIN bs /\ bs2[j] = bs[j]) \/ (j = n + 1 /\ bs2[j] = book)
  BY <1>2
<1>6. \A j \in DOMAIN bs2 : /\ bs2[j].event = last + j
                            /\ bs2[j].time <= time /\ time - Window <= bs2[j].time
  BY <1>1, <1>4, <1>5, QueueConstants
<1>7. \A i \in DOMAIN ts : /\ ts[i].event <= last + Len(bs2) /\ ts[i].event < book.event
  <2> SUFFICES ASSUME NEW i \in DOMAIN ts
               PROVE  ts[i].event <= last + Len(bs2) /\ ts[i].event < book.event
    OBVIOUS
  <2>1. ts[i].event \in Nat /\ ts[i].event <= last + n
    BY <1>1, <1>3 DEF n
  <2> QED
    BY <1>1, <1>2, <1>4, <2>1
<1>8. \A i \in DOMAIN ts, j \in DOMAIN bs2 :
        ts[i].event = bs2[j].event => ts[i].time = bs2[j].time /\ ts[i].quantity = bs2[j].quantity
  <2> SUFFICES ASSUME NEW i \in DOMAIN ts, NEW j \in DOMAIN bs2, ts[i].event = bs2[j].event
               PROVE  ts[i].time = bs2[j].time /\ ts[i].quantity = bs2[j].quantity
    OBVIOUS
  <2>1. CASE j \in DOMAIN bs /\ bs2[j] = bs[j]
    BY <1>1, <2>1
  <2>2. CASE bs2[j] = book
    <3>1. ts[i].event < book.event /\ ts[i].event \in Nat /\ book.event = ts[i].event
      BY <1>3, <1>7, <2>2
    <3> QED
      BY <3>1
  <2> QED
    BY <1>5, <2>1, <2>2
<1>9. \A i \in DOMAIN ts, j \in DOMAIN bs2 :
        bs2[j].quantity > 0 /\ bs2[j].event \notin Pending(ts) => bs2[j].event < ts[i].event
  <2> SUFFICES ASSUME NEW i \in DOMAIN ts, NEW j \in DOMAIN bs2,
                      bs2[j].quantity > 0, bs2[j].event \notin Pending(ts)
               PROVE  bs2[j].event < ts[i].event
    OBVIOUS
  <2>1. CASE j \in DOMAIN bs /\ bs2[j] = bs[j]
    BY <1>1, <2>1
  <2>2. CASE bs2[j] = book
    BY <2>2
  <2> QED
    BY <1>5, <2>1, <2>2
<1>10. ReportsInOrder(bs2, ts, last, time)
  BY <1>1, <1>2, <1>6, <1>7, <1>8, <1>9 DEF ReportsInOrder
<1>11. \A X : Counted(bs2, X) = Counted(bs, X)
  <2> TAKE X
  <2>1. Quantified(BookReport)
    BY Reports
  <2>2. Counted(bs2, X) = Counted(bs, X) + Share(book, X) /\ Counted(bs, X) \in Nat
    BY <1>1, <2>1, CountedAppend DEF bs2
  <2>3. Share(book, X) = 0
    BY DEF Share
  <2> QED
    BY <2>2, <2>3
<1> QED
  BY <1>10, <1>11 DEF SameCounts, bs2

\* A trade, and its two reports.
LEMMA TradeAdded ==
  ASSUME NEW bs, NEW ts, NEW last, NEW time, ReportsInOrder(bs, ts, last, time),
         NEW book \in BookReport, book.event = last + (Len(bs) + 1), book.time = time, book.quantity > 0,
         NEW t \in TradeReport, t.event = book.event, t.time = time, t.quantity = book.quantity
  PROVE  /\ ReportsInOrder(Append(bs, book), Append(ts, t), last, time)
         /\ SameCounts(Append(bs, book), Append(ts, t), bs, ts, last)
<1> DEFINE n == Len(bs)
           k == Len(ts)
           bs2 == Append(bs, book)
           ts2 == Append(ts, t)
<1>1. /\ bs \in Seq(BookReport) /\ ts \in Seq(TradeReport) /\ last \in Nat /\ time \in Nat
      /\ \A j \in DOMAIN bs : /\ bs[j].event = last + j
                              /\ bs[j].time <= time /\ time - Window <= bs[j].time
      /\ \A i \in DOMAIN ts : /\ ts[i].event <= last + Len(bs) /\ ts[i].quantity > 0
                              /\ ts[i].time <= time /\ time - Window <= ts[i].time
      /\ \A i, j \in DOMAIN ts : i < j => ts[i].event < ts[j].event
      /\ \A i \in DOMAIN ts, j \in DOMAIN bs :
           ts[i].event = bs[j].event => ts[i].time = bs[j].time /\ ts[i].quantity = bs[j].quantity
      /\ \A i \in DOMAIN ts, j \in DOMAIN bs :
           bs[j].quantity > 0 /\ bs[j].event \notin Pending(ts) => bs[j].event < ts[i].event
  BY DEF ReportsInOrder
<1>2. /\ n \in Nat /\ DOMAIN bs = 1..n /\ bs2 \in Seq(BookReport) /\ DOMAIN bs2 = 1..(n + 1)
      /\ Len(bs2) = n + 1 /\ \A j \in 1..n : bs2[j] = bs[j]
      /\ bs2[n + 1] = book
  BY <1>1
<1>3. /\ k \in Nat /\ DOMAIN ts = 1..k /\ ts2 \in Seq(TradeReport) /\ DOMAIN ts2 = 1..(k + 1)
      /\ \A i \in 1..k : ts2[i] = ts[i]
      /\ ts2[k + 1] = t
  BY <1>1
<1>4. /\ \A i \in DOMAIN ts : ts[i].event \in Nat
      /\ \A j \in DOMAIN bs : bs[j].event \in Nat
      /\ Quantified(BookReport) /\ Quantified(TradeReport)
  BY Reports
<1> HIDE DEF n, k, bs2, ts2
<1>5. book.event = last + (n + 1) /\ book.event \in Nat /\ t.event = last + (n + 1) /\ t.event > last
  <2>1. book.event = last + (n + 1)
    BY DEF n
  <2> QED
    BY <1>1, <1>2, <2>1
<1>6. \A j \in DOMAIN bs2 : (j \in DOMAIN bs /\ bs2[j] = bs[j]) \/ (j = n + 1 /\ bs2[j] = book)
  BY <1>2
<1>7. \A i \in DOMAIN ts2 : (i \in DOMAIN ts /\ ts2[i] = ts[i]) \/ (i = k + 1 /\ ts2[i] = t)
  BY <1>3
<1>8. \A i \in DOMAIN ts : ts[i].event < book.event /\ ts[i].event <= last + Len(bs2)
  <2> SUFFICES ASSUME NEW i \in DOMAIN ts
               PROVE  ts[i].event <= last + Len(bs2) /\ ts[i].event < book.event
    OBVIOUS
  <2>1. ts[i].event \in Nat /\ ts[i].event <= last + n
    BY <1>1, <1>4 DEF n
  <2> QED
    BY <1>1, <1>2, <1>5, <2>1
<1>9. \A j \in DOMAIN bs : bs[j].event < t.event
  <2> SUFFICES ASSUME NEW j \in 1..n PROVE bs[j].event < t.event
    BY <1>2
  <2>1. bs[j].event = last + j
    BY <1>1, <1>2
  <2> QED
    BY <1>1, <1>2, <1>5, <2>1
<1>10. Pending(ts2) = Pending(ts) \cup {book.event}
  <2>1. \A e \in Pending(ts2) : e \in Pending(ts) \/ e = book.event
    BY <1>7 DEF Pending
  <2>2. \A e \in Pending(ts) : e \in Pending(ts2)
    <3> SUFFICES ASSUME NEW i \in 1..k PROVE ts[i].event \in Pending(ts2)
      BY <1>3 DEF Pending
    <3>1. i \in DOMAIN ts2 /\ ts2[i] = ts[i]
      BY <1>3
    <3> QED
      BY <3>1, Zenon DEF Pending
  <2>3. book.event \in Pending(ts2)
    <3>1. k + 1 \in DOMAIN ts2 /\ ts2[k + 1].event = book.event
      BY <1>3
    <3> QED
      BY <3>1, Zenon DEF Pending
  <2> QED
    BY <2>1, <2>2, <2>3
<1>11. \A j \in DOMAIN bs2 : /\ bs2[j].event = last + j
                             /\ bs2[j].time <= time /\ time - Window <= bs2[j].time
  BY <1>1, <1>5, <1>6, QueueConstants
<1>12. \A i \in DOMAIN ts2 : /\ ts2[i].event <= last + Len(bs2) /\ ts2[i].quantity > 0
                             /\ ts2[i].time <= time /\ time - Window <= ts2[i].time
  BY <1>1, <1>2, <1>5, <1>7, <1>8, QueueConstants
<1>13. \A i, j \in DOMAIN ts2 : i < j => ts2[i].event < ts2[j].event
  <2> SUFFICES ASSUME NEW i \in DOMAIN ts2, NEW j \in DOMAIN ts2, i < j
               PROVE  ts2[i].event < ts2[j].event
    OBVIOUS
  <2>1. i \in DOMAIN ts /\ ts2[i] = ts[i]
    BY <1>3
  <2>2. CASE j \in DOMAIN ts /\ ts2[j] = ts[j]
    BY <1>1, <2>1, <2>2
  <2>3. CASE ts2[j] = t
    BY <1>8, <2>1, <2>3
  <2> QED
    BY <1>7, <2>2, <2>3
<1>14. \A i \in DOMAIN ts2, j \in DOMAIN bs2 :
         ts2[i].event = bs2[j].event => ts2[i].time = bs2[j].time /\ ts2[i].quantity = bs2[j].quantity
  <2> SUFFICES ASSUME NEW i \in DOMAIN ts2, NEW j \in DOMAIN bs2, ts2[i].event = bs2[j].event
               PROVE  ts2[i].time = bs2[j].time /\ ts2[i].quantity = bs2[j].quantity
    OBVIOUS
  <2>1. CASE i \in DOMAIN ts /\ ts2[i] = ts[i] /\ j \in DOMAIN bs /\ bs2[j] = bs[j]
    BY <1>1, <2>1
  <2>2. CASE i \in DOMAIN ts /\ ts2[i] = ts[i] /\ bs2[j] = book
    <3>1. ts[i].event < book.event /\ ts[i].event \in Nat /\ ts[i].event = book.event
      BY <1>4, <1>8, <2>2
    <3> QED
      BY <3>1
  <2>3. CASE ts2[i] = t /\ j \in DOMAIN bs /\ bs2[j] = bs[j]
    <3>1. bs[j].event < t.event /\ bs[j].event \in Nat /\ t.event = bs[j].event
      BY <1>4, <1>9, <2>3
    <3> QED
      BY <3>1
  <2>4. CASE ts2[i] = t /\ bs2[j] = book
    BY <2>4
  <2> QED
    BY <1>6, <1>7, <2>1, <2>2, <2>3, <2>4
<1>15. \A i \in DOMAIN ts2, j \in DOMAIN bs2 :
         bs2[j].quantity > 0 /\ bs2[j].event \notin Pending(ts2) => bs2[j].event < ts2[i].event
  <2> SUFFICES ASSUME NEW i \in DOMAIN ts2, NEW j \in DOMAIN bs2,
                      bs2[j].quantity > 0, bs2[j].event \notin Pending(ts2)
               PROVE  bs2[j].event < ts2[i].event
    OBVIOUS
  <2>1. j \in DOMAIN bs /\ bs2[j] = bs[j] /\ bs[j].event \notin Pending(ts)
    BY <1>6, <1>10
  <2>2. CASE i \in DOMAIN ts /\ ts2[i] = ts[i]
    BY <1>1, <2>1, <2>2
  <2>3. CASE ts2[i] = t
    BY <1>9, <2>1, <2>3
  <2> QED
    BY <1>7, <2>2, <2>3
<1>16. ReportsInOrder(bs2, ts2, last, time)
  BY <1>1, <1>2, <1>3, <1>11, <1>12, <1>13, <1>14, <1>15 DEF ReportsInOrder
<1>17. \A s \in Int : Counted(ts2, DepthFirst(last, s)) = Counted(ts, DepthFirst(last, s))
  <2> SUFFICES ASSUME NEW s \in Int
               PROVE  Counted(ts2, DepthFirst(last, s)) = Counted(ts, DepthFirst(last, s))
    OBVIOUS
  <2>1. /\ Counted(ts2, DepthFirst(last, s))
             = Counted(ts, DepthFirst(last, s)) + Share(t, DepthFirst(last, s))
        /\ Counted(ts, DepthFirst(last, s)) \in Nat
    BY <1>1, <1>4, CountedAppend DEF ts2
  <2>2. ~(t.event <= last)
    BY <1>1, <1>5
  <2>3. Share(t, DepthFirst(last, s)) = 0
    BY <2>2 DEF Share, DepthFirst
  <2> QED
    BY <2>1, <2>3
<1>18. \A s \in Int : /\ Counted(bs2, TradeFirst(Pending(ts2), s)) = Counted(bs, TradeFirst(Pending(ts), s))
                      /\ Counted(bs2, TradesFirst(Pending(ts2))) = Counted(bs, TradesFirst(Pending(ts)))
  <2> SUFFICES ASSUME NEW s \in Int
               PROVE  /\ Counted(bs2, TradeFirst(Pending(ts2), s)) = Counted(bs, TradeFirst(Pending(ts), s))
                      /\ Counted(bs2, TradesFirst(Pending(ts2))) = Counted(bs, TradesFirst(Pending(ts)))
    OBVIOUS
  <2>1. \A X : Counted(bs2, X) = Counted(bs, X) + Share(book, X) /\ Counted(bs, X) \in Nat
    BY <1>1, <1>4, CountedAppend DEF bs2
  <2>2. Share(book, TradeFirst(Pending(ts2), s)) = 0 /\ Share(book, TradesFirst(Pending(ts2))) = 0
    BY <1>10 DEF Share, TradeFirst, TradesFirst
  <2>3. \A j \in DOMAIN bs : bs[j].event \in Pending(ts2) <=> bs[j].event \in Pending(ts)
    <3> SUFFICES ASSUME NEW j \in DOMAIN bs PROVE bs[j].event # book.event
      BY <1>10
    <3>1. bs[j].event < t.event /\ bs[j].event \in Nat /\ t.event = book.event
      BY <1>4, <1>9
    <3> QED
      BY <1>5, <3>1
  <2>4. \A j \in DOMAIN bs :
          /\ bs[j] \in TradeFirst(Pending(ts2), s) <=> bs[j] \in TradeFirst(Pending(ts), s)
          /\ bs[j] \in TradesFirst(Pending(ts2)) <=> bs[j] \in TradesFirst(Pending(ts))
    BY <2>3 DEF TradeFirst, TradesFirst
  <2>5. /\ Counted(bs, TradeFirst(Pending(ts2), s)) = Counted(bs, TradeFirst(Pending(ts), s))
        /\ Counted(bs, TradesFirst(Pending(ts2))) = Counted(bs, TradesFirst(Pending(ts)))
    BY <2>4, CountedSame
  <2> QED
    BY <2>1, <2>2, <2>5
<1> QED
  <2>1. 0 \in Int
    OBVIOUS
  <2> QED
    BY <1>16, <1>17, <1>18, <2>1 DEF SameCounts, bs2, ts2

\* Depth after a change adds up too.
LEMMA AddedAddsUp ==
  ASSUME NEW bs \in Seq(BookReport), NEW from, NEW to, DepthsAddUp(bs, from, to),
         NEW book \in BookReport, Positive(to - book.displayed) = book.cancelled + book.quantity
  PROVE  DepthsAddUp(Append(bs, book), from, book.displayed)
<1> DEFINE n == Len(bs)
           bs2 == Append(bs, book)
<1>1. /\ n \in Nat /\ DOMAIN bs = 1..n /\ bs2 \in Seq(BookReport) /\ DOMAIN bs2 = 1..(n + 1)
      /\ Len(bs2) = n + 1 /\ bs2 # <<>>
      /\ \A j \in 1..n : bs2[j] = bs[j]
      /\ bs2[n + 1] = book /\ (bs = <<>> <=> n = 0)
  OBVIOUS
<1> HIDE DEF n, bs2
<1>2. \A j \in 1..n : Positive((IF j = 1 THEN from ELSE bs[j - 1].displayed) - bs[j].displayed)
                        = bs[j].cancelled + bs[j].quantity
  BY <1>1 DEF DepthsAddUp
<1>3. to = IF n = 0 THEN from ELSE bs[n].displayed
  BY <1>1 DEF DepthsAddUp, n
<1>4. ASSUME NEW j \in 1..(n + 1)
      PROVE  Positive((IF j = 1 THEN from ELSE bs2[j - 1].displayed) - bs2[j].displayed)
               = bs2[j].cancelled + bs2[j].quantity
  <2>1. CASE j = n + 1
    <3>1. (IF j = 1 THEN from ELSE bs2[j - 1].displayed) = to
      <4>1. CASE n = 0
        BY <1>1, <1>3, <2>1, <4>1
      <4>2. CASE n # 0
        <5>1. j # 1 /\ j - 1 = n /\ n \in 1..n
          BY <1>1, <2>1, <4>2
        <5> QED
          BY <1>1, <1>3, <4>2, <5>1
      <4> QED
        BY <4>1, <4>2
    <3>2. bs2[j] = book
      BY <1>1, <2>1
    <3> QED
      BY <3>1, <3>2
  <2>2. CASE j \in 1..n
    <3>1. j # 1 => j - 1 \in 1..n
      BY <1>1, <2>2
    <3>2. (IF j = 1 THEN from ELSE bs2[j - 1].displayed) = (IF j = 1 THEN from ELSE bs[j - 1].displayed)
      BY <1>1, <3>1
    <3> QED
      BY <1>1, <1>2, <2>2, <3>2
  <2> QED
    BY <1>1, <2>1, <2>2
<1> QED
  BY <1>1, <1>4 DEF DepthsAddUp, bs2

\* The clock moves on.
LEMMA LaterFits ==
  ASSUME NEW q, NEW bs, NEW ts, NEW last, NEW time, NEW told,
         FavorableFits(q, bs, ts, last, time, told),
         \A i \in DOMAIN bs : time < bs[i].time + Window,
         \A i \in DOMAIN ts : time < ts[i].time + Window
  PROVE  FavorableFits(q, bs, ts, last, time + 1, told)
<1>1. /\ q \in FavorableQueue /\ told \in Nat /\ ReportsInOrder(bs, ts, last, time)
      /\ ListsInOrder(q.reductions, q.credits, time)
      /\ ReductionsWait(q.reductions, ts, last) /\ CreditsWait(q.credits, bs, ts)
      /\ Balanced(q.ahead, q.reductions, q.credits, bs, ts, last, told)
  BY DEF FavorableFits
<1>2. time \in Nat /\ Window \in Nat
  BY <1>1, QueueConstants DEF ReportsInOrder
<1>3. /\ \A j \in DOMAIN bs : bs[j].time \in Nat /\ bs[j].time <= time /\ time - Window <= bs[j].time
      /\ \A i \in DOMAIN ts : ts[i].time \in Nat /\ ts[i].time <= time /\ time - Window <= ts[i].time
  BY <1>1, Reports DEF ReportsInOrder
<1>4. \A j \in DOMAIN bs : bs[j].time <= time + 1 /\ (time + 1) - Window <= bs[j].time
  BY <1>2, <1>3
<1>5. \A i \in DOMAIN ts : ts[i].time <= time + 1 /\ (time + 1) - Window <= ts[i].time
  BY <1>2, <1>3
<1>6. ReportsInOrder(bs, ts, last, time + 1)
  <2> DEFINE later == time + 1
  <2>1. /\ bs \in Seq(BookReport) /\ ts \in Seq(TradeReport) /\ last \in Nat
        /\ \A j \in DOMAIN bs : bs[j].event = last + j
        /\ \A i \in DOMAIN ts : ts[i].event <= last + Len(bs) /\ ts[i].quantity > 0
        /\ \A i, j \in DOMAIN ts : i < j => ts[i].event < ts[j].event
        /\ \A i \in DOMAIN ts, j \in DOMAIN bs :
             ts[i].event = bs[j].event => ts[i].time = bs[j].time /\ ts[i].quantity = bs[j].quantity
        /\ \A i \in DOMAIN ts, j \in DOMAIN bs :
             bs[j].quantity > 0 /\ bs[j].event \notin Pending(ts) => bs[j].event < ts[i].event
    BY <1>1 DEF ReportsInOrder
  <2>2. later \in Nat
    BY <1>2
  <2>3. \A j \in DOMAIN bs : bs[j].time <= later /\ later - Window <= bs[j].time
    BY <1>4
  <2>4. \A i \in DOMAIN ts : ts[i].time <= later /\ later - Window <= ts[i].time
    BY <1>5
  <2> HIDE DEF later
  <2>5. ReportsInOrder(bs, ts, last, later)
    BY <2>1, <2>2, <2>3, <2>4, Zenon DEF ReportsInOrder
  <2> QED
    BY <2>5 DEF later
<1>7. ListsInOrder(q.reductions, q.credits, time + 1)
  <2> DEFINE rs == q.reductions
             cs == q.credits
  <2>1. /\ rs \in Seq(Change) /\ cs \in Seq(Change) /\ Sorted(rs) /\ Sorted(cs)
        /\ \A i \in DOMAIN rs : rs[i].time <= time
        /\ \A i \in DOMAIN cs : cs[i].time <= time
    BY <1>1 DEF ListsInOrder
  <2> HIDE DEF rs, cs
  <2>2. /\ \A i \in DOMAIN rs : rs[i].time \in Nat
        /\ \A i \in DOMAIN cs : cs[i].time \in Nat
    BY <2>1, Members
  <2>3. /\ \A i \in DOMAIN rs : rs[i].time <= time + 1
        /\ \A i \in DOMAIN cs : cs[i].time <= time + 1
    BY <1>2, <2>1, <2>2
  <2> QED
    BY <2>1, <2>3 DEF ListsInOrder, rs, cs
<1> QED
  BY <1>1, <1>6, <1>7 DEF FavorableFits

\* What fits overstates nothing.
LEMMA FitsCountsOnce ==
  ASSUME NEW q, NEW bs, NEW ts, NEW last, NEW time, NEW told,
         FavorableFits(q, bs, ts, last, time, told)
  PROVE  q.ahead \in Nat /\ told \in Nat /\ q.ahead >= Displayed - told
<1>1. /\ q \in FavorableQueue /\ told \in Nat /\ ReportsInOrder(bs, ts, last, time)
      /\ ListsInOrder(q.reductions, q.credits, time)
      /\ ReductionsWait(q.reductions, ts, last) /\ CreditsWait(q.credits, bs, ts)
      /\ Balanced(q.ahead, q.reductions, q.credits, bs, ts, last, told)
  BY DEF FavorableFits
<1> DEFINE rs == q.reductions
           cs == q.credits
<1>2. /\ \A X : /\ Counted(rs, X) \in Nat /\ Counted(cs, X) \in Nat
                /\ Counted(bs, X) \in Nat /\ Counted(ts, X) \in Nat
      /\ TotalOf(rs) \in Nat /\ TotalOf(cs) \in Nat
      /\ Counted(rs, After(-1)) = TotalOf(rs) /\ Counted(cs, Until(time)) = TotalOf(cs)
  <2> HIDE DEF rs, cs
  <2> QED
    BY <1>1, CountsAreNatural DEF rs, cs
<1>3. PICK at \in Nat : at = q.ahead
  BY <1>1, FavorableFields
<1> HIDE DEF rs, cs
<1>4. PICK R, C, V, A \in Nat : /\ R = TotalOf(rs) /\ C = TotalOf(cs)
                                /\ V = Counted(bs, TradesFirst(Pending(ts)))
                                /\ A = Counted(ts, DepthFirst(last, -1))
  BY <1>2
<1>5. (Displayed - at) + (R + V) <= told + (C + A)
  BY <1>1, <1>3, <1>4 DEF Balanced, rs, cs
<1>6. A <= R
  <2>1. -1 \in Int
    OBVIOUS
  <2> QED
    BY <1>1, <1>2, <1>4, <2>1 DEF ReductionsWait, rs
<1>7. C <= V
  <2>1. PICK early \in Nat : early = Counted(bs, TradeFirst(Pending(ts), time))
    BY <1>2
  <2>2. C <= early
    <3>1. time \in Int
      BY <1>1 DEF ReportsInOrder
    <3> QED
      BY <1>1, <1>2, <1>4, <2>1, <3>1 DEF CreditsWait, cs
  <2>3. early <= V
    <3>1. bs \in Seq(BookReport) /\ Quantified(BookReport)
      BY <1>1, Reports DEF ReportsInOrder
    <3>2. \A i \in DOMAIN bs : bs[i] \in TradeFirst(Pending(ts), time) => bs[i] \in TradesFirst(Pending(ts))
      BY DEF TradeFirst, TradesFirst
    <3> QED
      BY <1>4, <2>1, <3>1, <3>2, CountedMore
  <2> QED
    BY <1>4, <2>1, <2>2, <2>3
<1>8. at >= Displayed - told
  BY <1>1, <1>4, <1>5, <1>6, <1>7, QueueConstants
<1> QED
  BY <1>1, <1>3, <1>8

VenueTypeOK ==
  venue.ahead \in Nat /\ venue.behind \in Nat /\ venue.events \in Nat

Told == seen.trades + seen.cancelled

\* While the analysis lasts, the favorable estimate fits what it has been told.
Fits ==
  /\ FavorableFits(queue[TRUE], books, trades, venue.events - Len(books), now, Told)
  /\ DepthsAddUp(books, queue[TRUE].displayed, venue.ahead + venue.behind)

FavorableInv ==
  /\ seen \in [trades : Nat, cancelled : Nat]
  /\ queue[TRUE].ahead \in Nat
  /\ RemovalsCountOnce
  /\ failed \/ Fits

\* While it fits, the property holds.
LEMMA FitsSuffices ==
  ASSUME NEW q, NEW bs, NEW ts, NEW last, NEW time, NEW told, NEW x \in Nat, NEW y \in Nat,
         told = x + y, FavorableFits(q, bs, ts, last, time, told)
  PROVE  q.ahead \in Nat /\ q.ahead >= Displayed - x - y
<1>1. q.ahead \in Nat /\ q.ahead >= Displayed - told
  BY FitsCountsOnce
<1>2. PICK at \in Nat : at = q.ahead
  BY <1>1
<1>3. at >= Displayed - (x + y)
  BY <1>1, <1>2
<1>4. at >= Displayed - x - y
  BY <1>3, QueueConstants
<1> QED
  BY <1>1, <1>2, <1>4

\* It is enough that the estimate still fits.
LEMMA FitsNext ==
  ASSUME seen' \in [trades : Nat, cancelled : Nat], Fits'
  PROVE  FavorableInv'
<1>1. PICK x, y \in Nat : x = seen'.trades /\ y = seen'.cancelled
  OBVIOUS
<1>2. Told' = x + y
  BY <1>1 DEF Told
<1>3. FavorableFits(queue'[TRUE], books', trades', venue'.events - Len(books'), now', Told')
  BY DEF Fits
<1>4. queue'[TRUE].ahead \in Nat /\ queue'[TRUE].ahead >= Displayed - x - y
  BY <1>2, <1>3, FitsSuffices
<1> QED
  BY <1>1, <1>4 DEF FavorableInv, RemovalsCountOnce

\* A change at the venue, without a trade or with one.
LEMMA VenueKeepsFits ==
  ASSUME FavorableInv, ~failed, VenueTypeOK,
         NEW ahead \in Nat, NEW behind \in Nat, NEW cancels \in Nat, NEW traded \in Nat,
         NEW done, NEW joins,
         VenueChanges(ahead, behind, done, joins, cancels, traded),
         Positive((venue.ahead + venue.behind) - (ahead + behind)) = cancels + traded,
         \/ traded = 0 /\ UNCHANGED trades
         \/ traded > 0 /\ trades' = Append(trades, [time |-> now, quantity |-> traded,
                                                     event |-> venue.events + 1])
  PROVE  FavorableInv'
<1> DEFINE book == [time |-> now, displayed |-> ahead + behind, cancelled |-> cancels,
                 quantity |-> traded, event |-> venue.events + 1]
           t == [time |-> now, quantity |-> traded, event |-> venue.events + 1]
           last == venue.events - Len(books)
<1>1. /\ venue' = [ahead |-> ahead, behind |-> behind, filled |-> venue.filled + done,
                   joined |-> venue.joined + joins, events |-> venue.events + 1]
      /\ books' = Append(books, book)
      /\ UNCHANGED <<queue, failed, seen, now>>
  BY DEF VenueChanges
<1>2. /\ FavorableFits(queue[TRUE], books, trades, last, now, Told)
      /\ DepthsAddUp(books, queue[TRUE].displayed, venue.ahead + venue.behind)
      /\ seen \in [trades : Nat, cancelled : Nat]
  BY DEF FavorableInv, Fits
<1>3. ReportsInOrder(books, trades, last, now)
  BY <1>2 DEF FavorableFits
<1>4. books \in Seq(BookReport) /\ last \in Nat /\ now \in Nat /\ Len(books) \in Nat
  BY <1>3 DEF ReportsInOrder
<1>5. /\ book \in BookReport /\ book.time = now /\ book.quantity = traded /\ book.displayed = ahead + behind
      /\ book.cancelled = cancels /\ book.event = venue.events + 1
  <2>1. ahead + behind \in Nat /\ venue.events + 1 \in Nat
    BY DEF VenueTypeOK
  <2> QED
    BY <1>4, <2>1 DEF BookReport
<1>6. t \in TradeReport /\ t.time = now /\ t.quantity = traded /\ t.event = venue.events + 1
  <2>1. venue.events + 1 \in Nat
    BY DEF VenueTypeOK
  <2> QED
    BY <1>4, <2>1 DEF TradeReport
<1>7. /\ venue.events + 1 = last + (Len(books) + 1)
      /\ venue'.events - Len(books') = last
  <2>1. Len(books') = Len(books) + 1 /\ venue'.events = venue.events + 1
    BY <1>1, <1>4
  <2>2. venue.events \in Nat
    BY DEF VenueTypeOK
  <2> QED
    BY <1>4, <2>1, <2>2
<1> HIDE DEF book, t, last
<1>10. DepthsAddUp(books', queue'[TRUE].displayed, venue'.ahead + venue'.behind)
  <2>1. DepthsAddUp(Append(books, book), queue[TRUE].displayed, book.displayed)
    BY <1>2, <1>4, <1>5, AddedAddsUp
  <2>2. venue'.ahead + venue'.behind = book.displayed /\ queue' = queue /\ books' = Append(books, book)
    BY <1>1, <1>5
  <2> QED
    BY <2>1, <2>2
<1>11. FavorableFits(queue[TRUE], books', trades', last, now, Told) => FavorableInv'
  <2> SUFFICES ASSUME FavorableFits(queue[TRUE], books', trades', last, now, Told)
               PROVE  FavorableInv'
    OBVIOUS
  <2>1. Told' = Told /\ queue' = queue /\ now' = now
    BY <1>1 DEF Told
  <2>2. Fits'
    BY <1>7, <1>10, <2>1 DEF Fits
  <2> QED
    BY <1>1, <1>2, <2>2, FitsNext
<1>8. CASE traded = 0 /\ UNCHANGED trades
  <2>1. book.event = last + (Len(books) + 1) /\ book.quantity = 0
    BY <1>5, <1>7, <1>8
  <2>2. /\ ReportsInOrder(Append(books, book), trades, last, now)
        /\ SameCounts(Append(books, book), trades, books, trades, last)
    BY <1>3, <1>5, <2>1, DepthAdded
  <2>3. FavorableFits(queue[TRUE], Append(books, book), trades, last, now, Told)
    BY <1>2, <2>2, StillFits
  <2> QED
    BY <1>1, <1>8, <1>11, <2>3
<1>9. CASE traded > 0 /\ trades' = Append(trades, t)
  <2>1. book.event = last + (Len(books) + 1) /\ book.quantity > 0 /\ t.event = book.event
        /\ t.quantity = book.quantity
    BY <1>5, <1>6, <1>7, <1>9
  <2>2. /\ ReportsInOrder(Append(books, book), Append(trades, t), last, now)
        /\ SameCounts(Append(books, book), Append(trades, t), books, trades, last)
    BY <1>3, <1>5, <1>6, <2>1, TradeAdded
  <2>3. FavorableFits(queue[TRUE], Append(books, book), Append(trades, t), last, now, Told)
    BY <1>2, <2>2, StillFits
  <2> QED
    BY <1>1, <1>9, <1>11, <2>3
<1> QED
  BY <1>8, <1>9 DEF t

\* The frames.
LEMMA FramesKeepFavorable ==
  ASSUME FavorableInv, VenueTypeOK, DepthFrame \/ TradeFrame \/ OtherFrame
  PROVE  FavorableInv'
<1> DEFINE q == queue[TRUE]
           last == venue.events - Len(books)
<1>1. /\ seen \in [trades : Nat, cancelled : Nat] /\ ~failed
      /\ FavorableFits(q, books, trades, last, now, Told)
      /\ DepthsAddUp(books, q.displayed, venue.ahead + venue.behind)
      /\ q.ahead \in Nat /\ RemovalsCountOnce
  BY DEF FavorableInv, Fits, DepthFrame, TradeFrame, OtherFrame
<1>2. PICK x, y \in Nat : x = seen.trades /\ y = seen.cancelled
  BY <1>1
<1>3. Told = x + y
  BY <1>2 DEF Told
<1>4. /\ ReportsInOrder(books, trades, last, now) /\ books \in Seq(BookReport)
      /\ last \in Nat /\ Len(books) \in Nat
  BY <1>1 DEF FavorableFits, ReportsInOrder
<1> HIDE DEF q
<1>5. ASSUME NEW u \in Nat, NEW v \in Nat, queue' = queue, failed' = TRUE,
             seen' = [trades |-> x + u, cancelled |-> y + v]
      PROVE  FavorableInv'
  <2>1. q.ahead \in Nat /\ q.ahead >= Displayed - x - y
    BY <1>1, <1>2 DEF RemovalsCountOnce, q
  <2>2. q.ahead >= Displayed - (x + u) - (y + v)
    <3>1. PICK at \in Nat : at = q.ahead
      BY <2>1
    <3>2. at >= Displayed - x - y
      BY <2>1, <3>1
    <3>3. at >= Displayed - (x + u) - (y + v)
      BY <3>2, QueueConstants
    <3> QED
      BY <3>1, <3>3
  <2>3. x + u \in Nat /\ y + v \in Nat
    OBVIOUS
  <2>4. seen' \in [trades : Nat, cancelled : Nat] /\ seen'.trades = x + u /\ seen'.cancelled = y + v
    BY <1>5, <2>3
  <2> QED
    BY <1>5, <2>1, <2>2, <2>4 DEF FavorableInv, RemovalsCountOnce, q
<1>6. CASE DepthFrame
  <2> DEFINE book == Head(books)
  <2>1. /\ books # <<>> /\ books' = Tail(books)
        /\ seen' = [seen EXCEPT !.cancelled = @ + book.cancelled]
        /\ UNCHANGED <<venue, trades, now>>
    BY <1>6 DEF DepthFrame
  <2>2. book.cancelled \in Nat
    BY <1>4, <2>1, RestInOrder
  <2> HIDE DEF book
  <2>3. PICK v \in Nat : v = book.cancelled
    BY <2>2
  <2>4. seen' = [trades |-> x + 0, cancelled |-> y + v]
    BY <1>1, <1>2, <2>1, <2>3
  <2>5. CASE queue' = queue /\ failed' = TRUE
    BY <1>5, <2>4, <2>5
  <2>6. CASE queue' = [f \in BOOLEAN |-> Depth(queue[f], now, book.displayed)]
    <3>1. queue'[TRUE] = Depth(q, now, book.displayed)
      BY <2>6 DEF q
    <3>2. /\ FavorableFits(Depth(q, now, book.displayed), Tail(books), trades, last + 1, now, Told + book.cancelled)
          /\ DepthsAddUp(Tail(books), Depth(q, now, book.displayed).displayed, venue.ahead + venue.behind)
      BY <1>1, <2>1, DepthStep DEF book
    <3>3. venue'.events - Len(books') = last + 1
      <4>1. Len(Tail(books)) = Len(books) - 1
        BY <1>4, <2>1
      <4> QED
        BY <1>4, <2>1, <4>1 DEF VenueTypeOK
    <3>4. Told' = Told + book.cancelled /\ seen' \in [trades : Nat, cancelled : Nat]
      BY <1>3, <2>3, <2>4 DEF Told
    <3>5. Fits'
      BY <2>1, <3>1, <3>2, <3>3, <3>4 DEF Fits
    <3> QED
      BY <3>4, <3>5, FitsNext
  <2> QED
    BY <1>6, <2>5, <2>6 DEF DepthFrame, book
<1>7. CASE TradeFrame
  <2> DEFINE t == Head(trades)
  <2>1. /\ trades # <<>> /\ trades' = Tail(trades)
        /\ seen' = [seen EXCEPT !.trades = @ + t.quantity]
        /\ UNCHANGED <<venue, books, now>>
    BY <1>7 DEF TradeFrame
  <2>2. t.quantity \in Nat
    BY <1>4, <2>1, TailInOrder
  <2> HIDE DEF t
  <2>3. PICK u \in Nat : u = t.quantity
    BY <2>2
  <2>4. seen' = [trades |-> x + u, cancelled |-> y + 0]
    BY <1>1, <1>2, <2>1, <2>3
  <2>5. CASE queue' = queue /\ failed' = TRUE
    BY <1>5, <2>4, <2>5
  <2>6. CASE queue' = [f \in BOOLEAN |-> Trade(queue[f], now, t.quantity)]
    <3>1. queue'[TRUE] = Trade(q, now, t.quantity)
      BY <2>6 DEF q
    <3>2. /\ FavorableFits(Trade(q, now, t.quantity), books, Tail(trades), last, now, Told + t.quantity)
          /\ Trade(q, now, t.quantity).displayed = q.displayed
      BY <1>1, <2>1, TradeStep DEF t
    <3>3. Told' = Told + t.quantity /\ seen' \in [trades : Nat, cancelled : Nat]
      BY <1>3, <2>3, <2>4 DEF Told
    <3>4. Fits'
      BY <1>1, <2>1, <3>1, <3>2, <3>3 DEF Fits
    <3> QED
      BY <3>3, <3>4, FitsNext
  <2> QED
    BY <1>7, <2>5, <2>6 DEF TradeFrame, t
<1>8. CASE OtherFrame
  <2>1. /\ queue' = [f \in BOOLEAN |-> Advance(queue[f], now)]
        /\ UNCHANGED <<failed, venue, books, trades, seen, now>>
    BY <1>8 DEF OtherFrame
  <2>2. queue'[TRUE] = Advance(q, now)
    BY <2>1 DEF q
  <2>3. FavorableFits(Advance(q, now), books, trades, last, now, Told)
    BY <1>1, AdvanceFits
  <2>4. Advance(q, now).displayed = q.displayed
    <3>1. /\ q \in FavorableQueue /\ now \in Nat /\ Sorted(q.reductions) /\ Sorted(q.credits)
      BY <1>1 DEF FavorableFits, ReportsInOrder, ListsInOrder
    <3> QED
      BY <3>1, FavorableAdvance
  <2>5. Fits'
    BY <1>1, <2>1, <2>2, <2>3, <2>4 DEF Fits, Told
  <2> QED
    BY <1>1, <2>1, <2>5, FitsNext
<1> QED
  BY <1>6, <1>7, <1>8

LEMMA StepKeepsFavorableInv ==
  ASSUME FavorableInv, VenueTypeOK, [Next]_vars PROVE FavorableInv'
<1>1. CASE UNCHANGED vars
  BY <1>1 DEF vars, FavorableInv, Fits, Told, RemovalsCountOnce
<1>0. PICK d, e \in Nat : d = venue.ahead /\ e = venue.behind
  BY DEF VenueTypeOK
<1>2. CASE Joins
  <2>1. VenueChanges(d, e + 1, 0, 1, 0, 0) /\ UNCHANGED trades /\ ~failed
    BY <1>0, <1>2 DEF Joins, VenueChanges
  <2>2. Positive((d + e) - (d + (e + 1))) = 0 + 0
    BY DEF Positive
  <2>3. e + 1 \in Nat /\ 0 \in Nat
    OBVIOUS
  <2> QED
    BY <1>0, <2>1, <2>2, <2>3, VenueKeepsFits
<1>3. ASSUME NEW q \in Nat, CancelsAhead(q) PROVE FavorableInv'
  <2>1. q <= d /\ VenueChanges(d - q, e, 0, 0, q, 0) /\ UNCHANGED trades /\ ~failed
    BY <1>0, <1>3 DEF CancelsAhead, VenueChanges
  <2>2. d - q \in Nat /\ Positive((d + e) - ((d - q) + e)) = q + 0
    BY <2>1 DEF Positive
  <2> QED
    BY <1>0, <2>1, <2>2, VenueKeepsFits
<1>4. ASSUME NEW q \in Nat, CancelsBehind(q) PROVE FavorableInv'
  <2>1. q <= e /\ VenueChanges(d, e - q, 0, 0, q, 0) /\ UNCHANGED trades /\ ~failed
    BY <1>0, <1>4 DEF CancelsBehind, VenueChanges
  <2>2. e - q \in Nat /\ Positive((d + e) - (d + (e - q))) = q + 0
    BY <2>1 DEF Positive
  <2> QED
    BY <1>0, <2>1, <2>2, VenueKeepsFits
<1>5. ASSUME NEW q \in Nat, q > 0, Trades(q) PROVE FavorableInv'
  <2>1. PICK m \in Nat : m = Smaller(d, q) /\ m <= d /\ m <= q
    BY DEF Smaller
  <2>2. /\ q <= d + e /\ ~failed
        /\ VenueChanges(d - m, e - (q - m), Smaller(Wanted - venue.filled, q - m), 0, 0, q)
        /\ trades' = Append(trades, [time |-> now, quantity |-> q, event |-> venue.events + 1])
    BY <1>0, <1>5, <2>1 DEF Trades, VenueChanges
  <2>3. d - m \in Nat /\ e - (q - m) \in Nat
    BY <2>1, <2>2 DEF Smaller
  <2>4. Positive((d + e) - ((d - m) + (e - (q - m)))) = 0 + q
    <3>1. (d + e) - ((d - m) + (e - (q - m))) = q
      OBVIOUS
    <3>2. Positive(q) = 0 + q
      BY <1>5 DEF Positive
    <3> QED
      BY <3>1, <3>2
  <2> QED
    BY <1>0, <1>5, <2>2, <2>3, <2>4, VenueKeepsFits
<1>6. CASE Tick
  <2>1. /\ ~failed /\ now' = now + 1
        /\ \A i \in DOMAIN books : now < books[i].time + Window
        /\ \A i \in DOMAIN trades : now < trades[i].time + Window
        /\ UNCHANGED <<queue, failed, venue, books, trades, seen>>
    BY <1>6 DEF Tick
  <2>2. /\ FavorableFits(queue[TRUE], books, trades, venue.events - Len(books), now, Told)
        /\ DepthsAddUp(books, queue[TRUE].displayed, venue.ahead + venue.behind)
        /\ seen \in [trades : Nat, cancelled : Nat]
    BY <2>1 DEF FavorableInv, Fits
  <2>3. FavorableFits(queue[TRUE], books, trades, venue.events - Len(books), now + 1, Told)
    BY <2>1, <2>2, LaterFits
  <2>4. Fits'
    BY <2>1, <2>2, <2>3 DEF Fits, Told
  <2> QED
    BY <2>1, <2>2, <2>4, FitsNext
<1>7. CASE DepthFrame \/ TradeFrame \/ OtherFrame
  BY <1>7, FramesKeepFavorable
<1>8. \A q \in 1..(Displayed + MaxJoined) : q \in Nat /\ q > 0
  BY QueueConstants
<1> QED
  BY <1>1, <1>2, <1>3, <1>4, <1>5, <1>6, <1>7, <1>8 DEF Next

\* The favorable scenario of PassiveQueue (passive_queue.hpp, match, advance, depth
\* and trade): whichever of a trade's two reports comes first, within the window,
\* the quantity advances the estimate once; what is cancelled advances it once.
THEOREM RemovalsAreCountedOnce == Spec => []RemovalsCountOnce
<1>1. Init => FavorableInv
  <2> SUFFICES ASSUME Init PROVE FavorableInv
    OBVIOUS
  <2>1. /\ queue[TRUE] = NewQueue(Displayed, TRUE) /\ books = <<>> /\ trades = <<>>
        /\ venue.events = 0 /\ venue.ahead = Displayed /\ venue.behind = 0
        /\ seen = [trades |-> 0, cancelled |-> 0] /\ now = 0
    BY DEF Init
  <2>2. /\ queue[TRUE] \in FavorableQueue /\ queue[TRUE].ahead = Displayed
        /\ queue[TRUE].displayed = Displayed
        /\ queue[TRUE].reductions = <<>> /\ queue[TRUE].credits = <<>>
    BY <2>1, QueueConstants DEF NewQueue, FavorableQueue
  <2>3. \A X : Counted(<<>>, X) = 0
    BY CountedEmpty
  <2>4. ReportsInOrder(<<>>, <<>>, 0, 0)
    BY DEF ReportsInOrder
  <2>5. ListsInOrder(<<>>, <<>>, 0)
    BY DEF ListsInOrder, Sorted
  <2>6. ReductionsWait(<<>>, <<>>, 0) /\ CreditsWait(<<>>, <<>>, <<>>)
    BY <2>3 DEF ReductionsWait, CreditsWait
  <2>7. Balanced(Displayed, <<>>, <<>>, <<>>, <<>>, 0, 0)
    <3>1. TotalOf(<<>>) = 0
      <4>1. <<>> \in Seq(Change)
        OBVIOUS
      <4> QED
        BY <2>3, <4>1, TotalIsCounted
    <3>2. (Displayed - Displayed) + (0 + 0) <= 0 + (0 + 0)
      BY QueueConstants
    <3> QED
      BY <2>3, <3>1, <3>2, Zenon DEF Balanced
  <2>8. FavorableFits(queue[TRUE], <<>>, <<>>, 0, 0, 0)
    BY <2>2, <2>4, <2>5, <2>6, <2>7, Zenon DEF FavorableFits
  <2>9. DepthsAddUp(<<>>, Displayed, Displayed)
    BY DEF DepthsAddUp
  <2>10. Fits
    <3>1. venue.events - Len(books) = 0 /\ Told = 0 /\ venue.ahead + venue.behind = Displayed
      <4>1. seen.trades = 0 /\ seen.cancelled = 0 /\ Len(books) = 0
        BY <2>1
      <4>2. Displayed + 0 = Displayed /\ 0 - 0 = 0 /\ 0 + 0 = 0
        BY QueueConstants
      <4> QED
        BY <2>1, <4>1, <4>2, Zenon DEF Told
    <3> QED
      BY <2>1, <2>2, <2>8, <2>9, <3>1 DEF Fits
  <2>11. seen \in [trades : Nat, cancelled : Nat] /\ RemovalsCountOnce /\ queue[TRUE].ahead \in Nat
    <3>1. seen \in [trades : Nat, cancelled : Nat] /\ seen.trades = 0 /\ seen.cancelled = 0
      BY <2>1
    <3>2. Displayed \in Nat /\ Displayed >= Displayed - 0 - 0
      BY QueueConstants
    <3> QED
      BY <2>2, <3>1, <3>2, Zenon DEF RemovalsCountOnce
  <2> QED
    BY <2>10, <2>11 DEF FavorableInv
<1>2. FavorableInv /\ VenueTypeOK /\ [Next]_vars => FavorableInv'
  BY StepKeepsFavorableInv
<1>3. FavorableInv => RemovalsCountOnce
  BY DEF FavorableInv
<1>4. ConservativeInv => VenueTypeOK
  BY DEF ConservativeInv, QueueTypeOK, VenueTypeOK
<1> QED
  BY <1>1, <1>2, <1>3, <1>4, ConservativeInvHolds, PTL DEF Spec

-----------------------------------------------------------------------------
(* Screens: the times of books. *)

\* The least of natural numbers.
LEMMA MinIsLeast ==
  ASSUME NEW S \in SUBSET Nat, S # {}
  PROVE  Min(S) \in S /\ \A y \in S : Min(S) <= y
<1>1. \E x \in S : \A y \in S : x <= y
  BY LeastNatural
<1> QED
  BY <1>1 DEF Min

\* The greatest of bounded natural numbers.
LEMMA MaxIsGreatest ==
  ASSUME NEW n \in Nat, NEW S \in SUBSET (0..n), S # {}
  PROVE  Max(S) \in S /\ \A y \in S : y <= Max(S)
<1> DEFINE T == {n - x : x \in S}
<1>1. T \in SUBSET Nat /\ T # {}
  <2>1. \A x \in S : n - x \in Nat
    OBVIOUS
  <2> QED
    BY <2>1
<1>2. PICK z \in T : \A y \in T : z <= y
  <2> HIDE DEF T
  <2> QED
    BY <1>1, LeastNatural
<1>3. PICK x \in S : z = n - x
  BY <1>2
<1>4. \A y \in S : n - x <= n - y
  BY <1>2, <1>3
<1>5. \A y \in S : y \in Int /\ x \in Int /\ x >= y
  BY <1>4
<1>6. \E m \in S : \A y \in S : m >= y
  BY <1>3, <1>5
<1>7. Max(S) \in S /\ \A y \in S : Max(S) >= y
  BY <1>6, Zenon DEF Max
<1> QED
  BY <1>7

\* The books of a row that has one for each leg, in a document that was accepted.
LEMMA BooksAreTimely ==
  ASSUME ScreenConstants, input \in Inputs, ValidInput,
         NEW row \in input.rows, HasBook(row)
  PROVE  /\ BooksOf(row) # {}
         /\ \A book \in BooksOf(row) :
              /\ book.requested \in Nat /\ book.received \in Nat
              /\ book.requested <= book.received /\ book.received <= input.as_of
<1>1. 1 \in DOMAIN row.legs
  <2>1. row \in SnapshotRow /\ Len(row.legs) = IF input.basket THEN 3 ELSE 2
    BY DEF ScreenConstants
  <2>2. row.legs \in Seq([market : Nat, outcome : {"yes", "no"}]) /\ Len(row.legs) \in {2, 3}
    BY <2>1 DEF SnapshotRow
  <2> QED
    BY <2>2
<1>2. BooksOf(row) # {}
  BY <1>1 DEF HasBook
<1>3. ASSUME NEW book \in BooksOf(row)
      PROVE  /\ book.requested \in Nat /\ book.received \in Nat
             /\ book.requested <= book.received /\ book.received <= input.as_of
  <2>1. PICK i \in DOMAIN input.books : book = input.books[i]
    BY DEF BooksOf
  <2>2. input.books \in Seq(Book)
    BY DEF ScreenConstants
  <2>3. book \in Book
    <3>1. input.books \in [1..Len(input.books) -> Book]
      BY <2>2
    <3> QED
      BY <2>1, <3>1
  <2>4. Timely(book)
    BY <2>1 DEF ValidInput, ValidBook
  <2>5. Modulus \in Nat
    BY DEF ScreenConstants
  <2> QED
    BY <2>3, <2>4, <2>5 DEF Book, Timely
<1> QED
  BY <1>2, <1>3

\* The differences of times that are compared (src/src/cli/market_screen.cpp) are those
\* between the oldest request, the newest receipt and the present, and do not wrap.
Spans(row) ==
  /\ Oldest(row) \in Nat /\ Newest(row) \in Nat /\ input.as_of \in Nat
  /\ Oldest(row) <= Newest(row) /\ Newest(row) <= input.as_of
  /\ Minus(input.as_of, Oldest(row)) = input.as_of - Oldest(row)
  /\ Minus(Newest(row), Oldest(row)) = Newest(row) - Oldest(row)
  /\ \E book \in BooksOf(row) : Oldest(row) = book.requested
  /\ \A book \in BooksOf(row) : Oldest(row) <= book.requested
  /\ \E book \in BooksOf(row) : Newest(row) = book.received
  /\ \A book \in BooksOf(row) : book.received <= Newest(row)

LEMMA DifferencesAreExact ==
  ASSUME ScreenConstants, input \in Inputs, ValidInput,
         NEW row \in input.rows, HasBook(row)
  PROVE  Spans(row)
<1> DEFINE bs == BooksOf(row)
           present == input.as_of
           old == Oldest(row)
           new == Newest(row)
<1>1. /\ bs # {}
      /\ \A book \in bs : /\ book.requested \in Nat /\ book.received \in Nat
                          /\ book.requested <= book.received /\ book.received <= present
  BY BooksAreTimely
<1>2. present \in Nat /\ present < Modulus /\ Modulus \in Nat
  BY DEF ScreenConstants
<1>3. /\ \E book \in bs : old = book.requested
      /\ \A book \in bs : old <= book.requested
  <2> DEFINE S == {book.requested : book \in bs}
  <2>1. S \in SUBSET Nat /\ S # {}
    BY <1>1
  <2>2. old = Min(S)
    BY DEF Oldest
  <2>3. Min(S) \in S /\ \A y \in S : Min(S) <= y
    <3> HIDE DEF S
    <3> QED
      BY <2>1, MinIsLeast
  <2> QED
    BY <2>2, <2>3
<1>4. /\ \E book \in bs : new = book.received
      /\ \A book \in bs : book.received <= new
  <2> DEFINE S == {book.received : book \in bs}
  <2>1. S \in SUBSET (0..present) /\ S # {}
    BY <1>1, <1>2
  <2>2. new = Max(S)
    BY DEF Newest
  <2>3. Max(S) \in S /\ \A y \in S : y <= Max(S)
    <3> HIDE DEF S
    <3> QED
      BY <1>2, <2>1, MaxIsGreatest
  <2> QED
    BY <2>2, <2>3
<1>5. old \in Nat /\ new \in Nat /\ old <= new /\ new <= present
  <2>1. PICK first \in bs : old = first.requested
    BY <1>3
  <2>2. PICK last \in bs : new = last.received
    BY <1>4
  <2>3. first.received <= new
    BY <1>4
  <2> QED
    BY <1>1, <1>2, <2>1, <2>2, <2>3
<1>6. Minus(present, old) = present - old /\ Minus(new, old) = new - old
  <2>1. \A x \in 0..(Modulus - 1) : x % Modulus = x
    BY <1>2, Z3
  <2>2. present - old \in 0..(Modulus - 1) /\ new - old \in 0..(Modulus - 1)
    BY <1>2, <1>5
  <2> QED
    BY <2>1, <2>2 DEF Minus
<1> QED
  BY <1>2, <1>3, <1>4, <1>5, <1>6 DEF Spans

\* The checks of the times of a row (src/src/cli/market_screen.cpp) pass if and only if
\* its books are synchronous whenever they were taken; no difference wraps.
LEMMA ChecksOfTimes ==
  ASSUME ScreenConstants, input \in Inputs, ValidInput,
         NEW row \in input.rows, HasBook(row)
  PROVE  Synchronous(row) <=> /\ Minus(input.as_of, Oldest(row)) <= input.max_age
                              /\ Minus(Newest(row), Oldest(row)) <= input.max_skew
<1> DEFINE bs == BooksOf(row)
           present == input.as_of
           old == Oldest(row)
           new == Newest(row)
           age == input.max_age
           skew == input.max_skew
<1>1. \A book \in bs : /\ book.requested \in Nat /\ book.received \in Nat
                       /\ book.requested <= book.received /\ book.received <= present
  BY BooksAreTimely
<1>2. present \in Nat /\ age \in Nat /\ skew \in Nat
  BY DEF ScreenConstants
<1>3. \E book \in bs : old = book.requested
  BY DifferencesAreExact DEF Spans
<1>4. \A book \in bs : old <= book.requested /\ book.received <= new
  BY DifferencesAreExact DEF Spans
<1>5. old \in Nat /\ new \in Nat /\ old <= new /\ new <= present
  BY DifferencesAreExact DEF Spans
<1>6. Minus(present, old) = present - old /\ Minus(new, old) = new - old
  BY DifferencesAreExact DEF Spans
<1>7. Synchronous(row) <=>
        \A book, other \in bs : \A s \in Instants(book), t \in Instants(other) :
          s <= present /\ present - s <= age /\ s - t <= skew
  BY DEF Synchronous
<1> HIDE DEF bs, present, old, new, age, skew
<1>8. ASSUME Synchronous(row) PROVE present - old <= age /\ new - old <= skew
  <2>1. PICK first \in bs : old = first.requested
    BY <1>3
  <2>2. PICK last \in bs : new = last.received
    BY DifferencesAreExact DEF Spans, bs, new
  <2>3. old \in Instants(first) /\ new \in Instants(last)
    BY <1>1, <2>1, <2>2 DEF Instants
  <2> QED
    BY <1>7, <1>8, <2>3
<1>9. ASSUME present - old <= age, new - old <= skew PROVE Synchronous(row)
  <2>1. SUFFICES ASSUME NEW book \in bs, NEW other \in bs,
                        NEW s \in Instants(book), NEW t \in Instants(other)
                 PROVE  s <= present /\ present - s <= age /\ s - t <= skew
    BY <1>7
  <2>2. /\ s \in Int /\ t \in Int /\ book.requested <= s /\ s <= book.received
        /\ other.requested <= t
    BY <1>1 DEF Instants
  <2>3. old <= s /\ s <= new /\ old <= t
    <3>1. old <= book.requested /\ old <= other.requested /\ book.received <= new
      BY <1>3, <1>4
    <3> QED
      BY <1>1, <1>5, <2>2, <3>1
  <2> QED
    BY <1>2, <1>5, <1>9, <2>2, <2>3
<1> QED
  BY <1>6, <1>8, <1>9 DEF present, old, new, age, skew

-----------------------------------------------------------------------------
(* Screens: what is reported of each row. *)

\* What a report says of a row, by its status.
Untimely == {"missing_book", "stale_book", "nonsynchronous_books"}

ReportFits(row, entry) ==
  \/ entry.status \in Untimely /\ ~Synchronous(row) /\ entry.evaluated = 0
  \/ /\ entry.status = "missing_fee" /\ entry.evaluated = 0
     /\ Synchronous(row) /\ ~HasFee(row)
  \/ /\ entry.status = "no_depth" /\ entry.evaluated = 0
     /\ Synchronous(row) /\ ~HasDepth(row)
  \/ /\ entry.status = "screening_budget_exceeded" /\ entry.evaluated = 0
     /\ Synchronous(row) /\ HasFee(row) /\ (input.basket => HasDepth(row))
     /\ ~complete /\ evaluated = input.total_budget
  \/ /\ entry.status = "search_budget_exceeded" /\ entry.evaluated < row.needs
     /\ Searchable(row) /\ ~complete
     /\ entry.evaluated = input.row_budget \/ evaluated = input.total_budget
  \/ entry = [status |-> row.verdict, evaluated |-> row.needs] /\ Searchable(row)

ScreenHolds ==
  /\ input \in Inputs /\ stage \in {"reading", "rows", "done", "rejected"}
  /\ DOMAIN report \subseteq input.rows
  /\ \A row \in DOMAIN report : report[row].evaluated \in Nat
  /\ evaluated \in Nat /\ evaluated = Evaluations(DOMAIN report)
  /\ IF stage \in {"reading", "rejected"}
     THEN DOMAIN report = {} /\ evaluated = 0 /\ complete
     ELSE /\ ValidInput /\ evaluated <= input.total_budget
          /\ \A row \in DOMAIN report : ReportFits(row, report[row])
          /\ complete \in BOOLEAN
          /\ ~complete => \E row \in DOMAIN report : CutShort(report[row].status)
  /\ stage = "done" => DOMAIN report = input.rows

\* What the outcome of a row is, and what it leaves of the budget.
LEMMA OutcomeFits ==
  ASSUME ScreenConstants, input \in Inputs, ValidInput, evaluated \in Nat,
         evaluated <= input.total_budget, NEW row \in input.rows
  PROVE  /\ Outcome(row).evaluated \in Nat
         /\ evaluated + Outcome(row).evaluated <= input.total_budget
         /\ \/ /\ Outcome(row).status \in Untimely /\ ~Synchronous(row)
               /\ Outcome(row).evaluated = 0
            \/ /\ Outcome(row).status = "missing_fee" /\ Outcome(row).evaluated = 0
               /\ Synchronous(row) /\ ~HasFee(row)
            \/ /\ Outcome(row).status = "no_depth" /\ Outcome(row).evaluated = 0
               /\ Synchronous(row) /\ ~HasDepth(row)
            \/ /\ Outcome(row).status = "screening_budget_exceeded" /\ Outcome(row).evaluated = 0
               /\ Synchronous(row) /\ HasFee(row) /\ (input.basket => HasDepth(row))
               /\ evaluated = input.total_budget
            \/ /\ Outcome(row).status = "search_budget_exceeded" /\ Searchable(row)
               /\ Outcome(row).evaluated < row.needs
               /\ \/ Outcome(row).evaluated = input.row_budget
                  \/ evaluated + Outcome(row).evaluated = input.total_budget
            \/ /\ Outcome(row) = [status |-> row.verdict, evaluated |-> row.needs]
               /\ Searchable(row)
<1>1. /\ input.total_budget \in Nat /\ input.row_budget \in Nat /\ row.needs \in Nat
      /\ input.max_age \in Nat /\ input.max_skew \in Nat
  <2>1. row \in SnapshotRow
    BY DEF ScreenConstants
  <2> QED
    BY <2>1 DEF ScreenConstants, SnapshotRow
<1>2. CASE ~HasBook(row)
  <2>1. Outcome(row) = [status |-> "missing_book", evaluated |-> 0]
    BY <1>2 DEF Outcome, Skipped
  <2>2. ~Synchronous(row)
    BY <1>2 DEF Synchronous
  <2> QED
    BY <1>1, <2>1, <2>2 DEF Untimely
<1>3. CASE HasBook(row) /\ ~Synchronous(row)
  <2>1. \/ Minus(input.as_of, Oldest(row)) > input.max_age
        \/ Minus(Newest(row), Oldest(row)) > input.max_skew
    <3>1. Minus(input.as_of, Oldest(row)) \in Int /\ Minus(Newest(row), Oldest(row)) \in Int
      BY <1>3, DifferencesAreExact DEF Spans
    <3> QED
      BY <1>1, <1>3, <3>1, ChecksOfTimes
  <2>2. \/ Outcome(row) = [status |-> "stale_book", evaluated |-> 0]
        \/ Outcome(row) = [status |-> "nonsynchronous_books", evaluated |-> 0]
    BY <1>3, <2>1 DEF Outcome, Skipped
  <2> QED
    BY <1>1, <1>3, <2>2 DEF Untimely
<1>4. CASE Synchronous(row)
  <2>1. /\ HasBook(row) /\ ~(Minus(input.as_of, Oldest(row)) > input.max_age)
        /\ ~(Minus(Newest(row), Oldest(row)) > input.max_skew)
    <3>1. HasBook(row)
      BY <1>4 DEF Synchronous
    <3>2. Minus(input.as_of, Oldest(row)) \in Int /\ Minus(Newest(row), Oldest(row)) \in Int
      BY <3>1, DifferencesAreExact DEF Spans
    <3> QED
      BY <1>1, <1>4, <3>1, <3>2, ChecksOfTimes
  <2>2. Skipped(row) = IF ~HasFee(row) THEN "missing_fee"
                       ELSE IF input.basket /\ ~HasDepth(row) THEN "no_depth"
                       ELSE IF Exhausted THEN "screening_budget_exceeded" ELSE "none"
    BY <2>1 DEF Skipped
  <2>3. CASE ~HasFee(row)
    <3>1. Outcome(row) = [status |-> "missing_fee", evaluated |-> 0]
      BY <2>2, <2>3 DEF Outcome
    <3> QED
      BY <1>1, <1>4, <2>3, <3>1
  <2>4. CASE HasFee(row) /\ ~HasDepth(row) /\ (input.basket \/ ~Exhausted)
    <3>1. Outcome(row) = [status |-> "no_depth", evaluated |-> 0]
      BY <2>2, <2>4 DEF Outcome, Search
    <3> QED
      BY <1>1, <1>4, <2>4, <3>1
  <2>5. CASE HasFee(row) /\ (input.basket => HasDepth(row)) /\ Exhausted
    <3>1. Outcome(row) = [status |-> "screening_budget_exceeded", evaluated |-> 0]
      BY <2>2, <2>5 DEF Outcome
    <3> QED
      BY <1>1, <1>4, <2>5, <3>1 DEF Exhausted
  <2>6. CASE HasFee(row) /\ HasDepth(row) /\ ~Exhausted
    <3>1. Outcome(row) = IF row.needs > Bound
                         THEN [status |-> "search_budget_exceeded", evaluated |-> Bound]
                         ELSE [status |-> row.verdict, evaluated |-> row.needs]
      BY <2>2, <2>6 DEF Outcome, Search
    <3>2. /\ Bound \in Nat /\ evaluated + Bound <= input.total_budget
          /\ Bound = input.row_budget \/ evaluated + Bound = input.total_budget
      <4> DEFINE S == {input.row_budget, input.total_budget - evaluated}
      <4>1. S \in SUBSET Nat /\ S # {}
        BY <1>1
      <4>2. Min(S) \in S /\ \A y \in S : Min(S) <= y
        <5> HIDE DEF S
        <5> QED
          BY <4>1, MinIsLeast
      <4> QED
        BY <1>1, <4>2 DEF Bound
    <3>3. Searchable(row)
      BY <1>4, <2>6 DEF Searchable
    <3> HIDE DEF Bound
    <3>4. CASE row.needs > Bound
      BY <1>1, <3>1, <3>2, <3>3, <3>4
    <3>5. CASE ~(row.needs > Bound)
      BY <1>1, <3>1, <3>2, <3>3, <3>5
    <3> QED
      BY <3>4, <3>5
  <2> QED
    BY <2>3, <2>4, <2>5, <2>6
<1> QED
  BY <1>2, <1>3, <1>4

LEMMA ScreenBegins ==
  ScreenConstants /\ ScreenInit => ScreenHolds
<1> SUFFICES ASSUME ScreenInit PROVE ScreenHolds
  OBVIOUS
<1>1. DOMAIN report = {} /\ evaluated = 0
  BY DEF ScreenInit
<1>2. Evaluations(DOMAIN report) = 0
  <2> DEFINE f == [row \in DOMAIN report |-> report[row].evaluated]
  <2>1. \A x \in DOMAIN f : f[x] = 0
    BY <1>1
  <2> HIDE DEF f
  <2>2. SumOf(f) = 0
    BY <2>1, SumOfZeros
  <2> QED
    BY <2>2 DEF f, Evaluations
<1> QED
  BY <1>1, <1>2 DEF ScreenInit, ScreenHolds

\* What the input decides, a step leaves alone.
SameInput ==
  /\ ValidInput' <=> ValidInput
  /\ \A row : /\ Synchronous(row)' <=> Synchronous(row)
              /\ HasFee(row)' <=> HasFee(row)
              /\ HasDepth(row)' <=> HasDepth(row)
              /\ Searchable(row)' <=> Searchable(row)

LEMMA InputStays ==
  ASSUME input' = input PROVE SameInput
<1>1. \A row : BooksOf(row)' = BooksOf(row)
  BY DEF BooksOf
<1>2. \A row : HasBook(row)' <=> HasBook(row)
  BY <1>1 DEF HasBook
<1>3. \A row : Synchronous(row)' <=> Synchronous(row)
  BY <1>1, <1>2 DEF Synchronous
<1>4. \A row : HasFee(row)' <=> HasFee(row)
  BY DEF HasFee
<1>5. \A row : HasDepth(row)' <=> HasDepth(row)
  BY <1>1 DEF HasDepth
<1>6. \A row : Searchable(row)' <=> Searchable(row)
  BY <1>3, <1>4, <1>5 DEF Searchable
<1>7. ValidInput' <=> ValidInput
  BY DEF ValidInput, ValidFee, ValidBook, Timely
<1> QED
  BY <1>3, <1>4, <1>5, <1>6, <1>7 DEF SameInput

LEMMA ReadHolds ==
  ASSUME ScreenConstants, ScreenHolds, Read PROVE ScreenHolds'
<1>1. /\ input' = input /\ report' = report /\ evaluated' = evaluated /\ complete' = complete
      /\ stage = "reading" /\ stage' = IF ValidInput THEN "rows" ELSE "rejected"
  BY DEF Read
<1>2. SameInput
  BY <1>1, InputStays
<1>3. Evaluations(DOMAIN report)' = Evaluations(DOMAIN report)
  BY <1>1 DEF Evaluations
<1>4. input.total_budget \in Nat
  BY DEF ScreenHolds, ScreenConstants
<1> QED
  BY <1>1, <1>2, <1>3, <1>4 DEF ScreenHolds, SameInput

LEMMA RowHolds ==
  ASSUME ScreenConstants, ScreenHolds, ScreenRow PROVE ScreenHolds'
<1>1. PICK row \in Waiting :
        /\ report' = [r \in DOMAIN report \cup {row} |-> IF r = row THEN Outcome(row) ELSE report[r]]
        /\ evaluated' = evaluated + Outcome(row).evaluated
        /\ complete' = (complete /\ ~CutShort(Outcome(row).status))
  BY DEF ScreenRow
<1>2. stage = "rows" /\ stage' = stage /\ input' = input
  BY DEF ScreenRow
<1>3. /\ row \in input.rows /\ row \notin DOMAIN report
      /\ input \in Inputs /\ ValidInput /\ evaluated \in Nat /\ evaluated <= input.total_budget
      /\ DOMAIN report \subseteq input.rows /\ complete \in BOOLEAN
      /\ input.total_budget \in Nat /\ IsFiniteSet(input.rows)
      /\ input.rows \subseteq SnapshotRow
  BY <1>1, <1>2 DEF ScreenHolds, Waiting, ScreenConstants
<1> DEFINE e == Outcome(row)
<1>4. /\ e.evaluated \in Nat
      /\ evaluated + e.evaluated <= input.total_budget
      /\ \/ e.status \in Untimely /\ ~Synchronous(row) /\ e.evaluated = 0
         \/ /\ e.status = "missing_fee" /\ e.evaluated = 0
            /\ Synchronous(row) /\ ~HasFee(row)
         \/ /\ e.status = "no_depth" /\ e.evaluated = 0
            /\ Synchronous(row) /\ ~HasDepth(row)
         \/ /\ e.status = "screening_budget_exceeded" /\ e.evaluated = 0
            /\ Synchronous(row) /\ HasFee(row) /\ (input.basket => HasDepth(row))
            /\ evaluated = input.total_budget
         \/ /\ e.status = "search_budget_exceeded" /\ Searchable(row)
            /\ e.evaluated < row.needs
            /\ \/ e.evaluated = input.row_budget
               \/ evaluated + e.evaluated = input.total_budget
         \/ e = [status |-> row.verdict, evaluated |-> row.needs] /\ Searchable(row)
  BY <1>3, OutcomeFits
<1>5. SameInput
  BY <1>2, InputStays
<1> HIDE DEF e
<1>6. /\ DOMAIN report' = DOMAIN report \cup {row}
      /\ report'[row] = e
      /\ \A r \in DOMAIN report : report'[r] = report[r]
      /\ evaluated' = evaluated + e.evaluated
      /\ complete' = (complete /\ ~CutShort(e.status))
  BY <1>1, <1>3 DEF e
<1>7. evaluated' \in Nat /\ evaluated' <= input.total_budget /\ evaluated <= evaluated'
  BY <1>3, <1>4, <1>6
<1>8. ReportFits(row, report[row])'
  <2>1. CutShort(e.status) => ~complete'
    BY <1>6
  <2>2. /\ e.evaluated = 0 => evaluated' = evaluated
        /\ e.status = "screening_budget_exceeded" => CutShort(e.status)
        /\ e.status = "search_budget_exceeded" => CutShort(e.status)
    BY <1>3, <1>6 DEF CutShort
  <2> QED
    BY <1>2, <1>4, <1>5, <1>6, <2>1, <2>2 DEF ReportFits, SameInput
<1>9. ASSUME NEW r \in DOMAIN report PROVE ReportFits(r, report[r])'
  <2>1. ReportFits(r, report[r]) /\ report'[r] = report[r]
    BY <1>2, <1>6 DEF ScreenHolds
  <2>2. /\ ~complete => ~complete'
        /\ evaluated = input.total_budget => evaluated' = input.total_budget
    BY <1>3, <1>6, <1>7
  <2> QED
    BY <1>2, <1>5, <2>1, <2>2 DEF ReportFits, SameInput
<1>10. Evaluations(DOMAIN report)' = evaluated'
  <2> DEFINE S == DOMAIN report
             f == [r \in S |-> report[r].evaluated]
             g == [r \in S \cup {row} |-> report'[r].evaluated]
  <2>1. IsFiniteSet(S) /\ row \notin S
    BY <1>3, FS_Subset
  <2>2. f \in [S -> Nat]
    BY DEF ScreenHolds
  <2>3. /\ g \in [S \cup {row} -> Nat] /\ \A y \in S : g[y] = f[y]
        /\ g[row] = e.evaluated
    BY <1>4, <1>6, <2>2
  <2>4. SumOf(f) = evaluated
    BY DEF ScreenHolds, Evaluations
  <2>5. Evaluations(DOMAIN report)' = SumOf(g)
    BY <1>6 DEF Evaluations
  <2>6. SumOf(g) = SumOf(f) + e.evaluated
    <3> HIDE DEF S, f, g
    <3> QED
      BY <1>4, <2>1, <2>2, <2>3, SumWithOneMore
  <2> QED
    BY <1>6, <2>4, <2>5, <2>6
<1>11. ~complete' => \E r \in DOMAIN report' : CutShort(report'[r].status)
  <2>1. CASE CutShort(e.status)
    BY <1>6, <2>1
  <2>2. CASE ~CutShort(e.status) /\ ~complete
    <3>1. PICK r \in DOMAIN report : CutShort(report[r].status)
      BY <1>2, <2>2 DEF ScreenHolds
    <3> QED
      BY <1>6, <3>1
  <2> QED
    BY <1>3, <1>6, <2>1, <2>2
<1>12. \A r \in DOMAIN report' : report'[r].evaluated \in Nat /\ ReportFits(r, report[r])'
  <2>1. \A r \in DOMAIN report : report[r].evaluated \in Nat
    BY DEF ScreenHolds
  <2> QED
    BY <1>4, <1>6, <1>8, <1>9, <2>1
<1>13. /\ input' \in Inputs /\ stage' = "rows" /\ ValidInput' /\ complete' \in BOOLEAN
       /\ DOMAIN report' \subseteq input'.rows
  BY <1>2, <1>3, <1>5, <1>6 DEF SameInput
<1>14. evaluated' <= input'.total_budget
  BY <1>2, <1>7
<1> QED
  BY <1>7, <1>10, <1>11, <1>12, <1>13, <1>14 DEF ScreenHolds, CutShort

LEMMA ScreenEnds ==
  ASSUME ScreenConstants, ScreenHolds, Finish PROVE ScreenHolds'
<1>1. /\ input' = input /\ report' = report /\ evaluated' = evaluated /\ complete' = complete
      /\ stage = "rows" /\ stage' = "done" /\ Waiting = {}
  BY DEF Finish
<1>2. SameInput
  BY <1>1, InputStays
<1>3. Evaluations(DOMAIN report)' = Evaluations(DOMAIN report)
  BY <1>1 DEF Evaluations
<1>4. DOMAIN report = input.rows
  BY <1>1 DEF Waiting, ScreenHolds
<1>5. \A row \in DOMAIN report : ReportFits(row, report[row])'
  BY <1>1, <1>2 DEF ScreenHolds, SameInput, ReportFits
<1> QED
  BY <1>1, <1>2, <1>3, <1>4, <1>5 DEF ScreenHolds, SameInput, CutShort

LEMMA ScreenSteps ==
  ASSUME ScreenConstants, ScreenHolds, [ScreenNext]_screenVars PROVE ScreenHolds'
<1>1. CASE ScreenNext
  BY <1>1, ReadHolds, RowHolds, ScreenEnds DEF ScreenNext
<1>2. CASE UNCHANGED screenVars
  <2>1. /\ input' = input /\ report' = report /\ evaluated' = evaluated /\ complete' = complete
        /\ stage' = stage
    BY <1>2 DEF screenVars
  <2>2. SameInput
    BY <2>1, InputStays
  <2>3. Evaluations(DOMAIN report)' = Evaluations(DOMAIN report)
    BY <2>1 DEF Evaluations
  <2>4. \A row : ReportFits(row, report[row])' <=> ReportFits(row, report[row])
    BY <2>1, <2>2 DEF SameInput, ReportFits
  <2> QED
    BY <2>1, <2>2, <2>3, <2>4 DEF ScreenHolds, SameInput, CutShort
<1> QED
  BY <1>1, <1>2

\* The invariant of a screen (src/src/cli/market_screen.cpp, src/src/cli/basket_screen.cpp):
\* each row's report says what the row is, and is cut short only by a budget that is used up.
LEMMA ScreenKeeps ==
  ScreenConstants => (ScreenSpec => []ScreenHolds)
<1> SUFFICES ASSUME ScreenConstants PROVE ScreenSpec => []ScreenHolds
  OBVIOUS
<1>1. ScreenInit => ScreenHolds
  BY ScreenBegins
<1>2. ScreenHolds /\ [ScreenNext]_screenVars => ScreenHolds'
  BY ScreenSteps
<1> QED
  BY <1>1, <1>2, PTL DEF ScreenSpec

\* A row gets past the checks of its times (src/src/cli/market_screen.cpp) if and only if its
\* books are synchronous at whatever instants between request and receipt they were taken.
THEOREM OnlySynchronousRowsAreSearched == ScreenConstants => (ScreenSpec => []OnlySynchronous)
<1> SUFFICES ASSUME ScreenConstants PROVE ScreenSpec => []OnlySynchronous
  OBVIOUS
<1>1. ASSUME ScreenHolds PROVE OnlySynchronous
  <2> SUFFICES ASSUME NEW row \in DOMAIN report
               PROVE  report[row].status \notin Untimely <=> Synchronous(row)
    BY DEF OnlySynchronous, Untimely
  <2>1. ReportFits(row, report[row])
    BY <1>1 DEF ScreenHolds
  <2>2. row.verdict \in {"optimal", "no_positive_margin", "insufficient_cash"}
    <3>1. row \in SnapshotRow
      BY <1>1 DEF ScreenHolds, ScreenConstants
    <3> QED
      BY <3>1 DEF SnapshotRow
  <2> QED
    BY <2>1, <2>2 DEF ReportFits, Searchable, Untimely
<1>2. ScreenSpec => []ScreenHolds
  BY ScreenKeeps
<1> QED
  BY <1>1, <1>2, PTL

\* In a complete screen (src/src/cli/basket_screen.cpp) each row is reported as by a search
\* of its own without any budget: no row shows that others were searched before it.
THEOREM CompleteScreensStandAlone == ScreenConstants => (ScreenSpec => []CompleteIsStandalone)
<1> SUFFICES ASSUME ScreenConstants PROVE ScreenSpec => []CompleteIsStandalone
  OBVIOUS
<1>1. ASSUME ScreenHolds PROVE CompleteIsStandalone
  <2> SUFFICES ASSUME stage = "done", complete, NEW row \in input.rows
               PROVE  IF Searchable(row)
                      THEN report[row] = [status |-> row.verdict, evaluated |-> row.needs]
                      ELSE report[row].evaluated = 0 /\ ~CutShort(report[row].status)
    BY DEF CompleteIsStandalone
  <2>1. ReportFits(row, report[row])
    BY <1>1 DEF ScreenHolds
  <2> QED
    BY <2>1 DEF ReportFits, Searchable, Untimely, CutShort
<1>2. ScreenSpec => []ScreenHolds
  BY ScreenKeeps
<1> QED
  BY <1>1, <1>2, PTL

\* All rows together stay within the one budget, and the reported total is theirs
\* (src/src/cli/market_screen.cpp).
THEOREM ScreenBudgetIsShared == ScreenConstants => (ScreenSpec => []BudgetShared)
<1> SUFFICES ASSUME ScreenConstants PROVE ScreenSpec => []BudgetShared
  OBVIOUS
<1>1. ASSUME ScreenHolds PROVE BudgetShared
  <2>1. input.total_budget \in Nat
    BY <1>1 DEF ScreenHolds, ScreenConstants
  <2> QED
    BY <1>1, <2>1 DEF ScreenHolds, BudgetShared
<1>2. ScreenSpec => []ScreenHolds
  BY ScreenKeeps
<1> QED
  BY <1>1, <1>2, PTL

\* A sum grows with one of its summands when no other gets smaller.
LEMMA SumExceeds ==
  ASSUME NEW S, IsFiniteSet(S), NEW f \in [S -> Nat], NEW g \in [S -> Nat],
         \A y \in S : f[y] <= g[y], NEW x \in S, f[x] < g[x]
  PROVE  SumOf(f) < SumOf(g)
<1> DEFINE mid == [f EXCEPT ![x] = g[x]]
<1>1. /\ mid \in [S -> Nat] /\ mid[x] = g[x]
      /\ \A y \in S : y # x => mid[y] = f[y]
      /\ \A y \in S : mid[y] <= g[y]
  OBVIOUS
<1> HIDE DEF mid
<1>2. /\ SumOf(f) \in Nat /\ SumOf(mid) \in Nat
      /\ SumOf(mid) = SumOf(f) - f[x] + mid[x]
  BY <1>1, SumWithOneChanged
<1>3. SumOf(mid) <= SumOf(g) /\ SumOf(g) \in Nat
  BY <1>1, SumIsMonotone, SumIsNatural
<1>4. f[x] \in Nat /\ g[x] \in Nat
  OBVIOUS
<1> QED
  BY <1>1, <1>2, <1>3, <1>4

\* A screen is called incomplete only when the budgets are too small, or for pairs used up
\* exactly (src/src/cli/market_screen.cpp).
THEOREM IncompleteScreensAreShort == ScreenConstants => (ScreenSpec => []IncompleteOnlyIfShort)
<1> SUFFICES ASSUME ScreenConstants PROVE ScreenSpec => []IncompleteOnlyIfShort
  OBVIOUS
<1>1. ASSUME ScreenHolds PROVE IncompleteOnlyIfShort
  <2> SUFFICES ASSUME stage = "done", ~complete,
                      \A row \in input.rows : Searchable(row) => ~(row.needs > input.row_budget)
               PROVE  \/ Needs > input.total_budget
                      \/ ~input.basket /\ Needs = input.total_budget
    BY DEF IncompleteOnlyIfShort
  <2> DEFINE S == input.rows
             f == [row \in S |-> report[row].evaluated]
             g == [row \in S |-> IF Searchable(row) THEN row.needs ELSE 0]
             h == [row \in {r \in S : Searchable(r)} |-> row.needs]
  <2>1. /\ IsFiniteSet(S) /\ input.total_budget \in Nat /\ input.row_budget \in Nat
        /\ \A row \in S : row.needs \in Nat
        /\ input.basket => \A row \in S : row.needs > 0
    <3>1. S \subseteq SnapshotRow
      BY <1>1 DEF ScreenHolds, ScreenConstants
    <3>2. \A row \in S : row.needs \in Nat
      BY <3>1 DEF SnapshotRow
    <3> QED
      BY <1>1, <3>2 DEF ScreenHolds, ScreenConstants
  <2>2. DOMAIN report = S
    BY <1>1 DEF ScreenHolds
  <2>3. \A row \in S : ReportFits(row, report[row]) /\ report[row].evaluated \in Nat
    BY <1>1, <2>2 DEF ScreenHolds
  <2>4. f \in [S -> Nat] /\ g \in [S -> Nat]
    BY <2>1, <2>3
  <2>5. \A row \in S : f[row] <= g[row]
    <3> SUFFICES ASSUME NEW row \in S PROVE f[row] <= g[row]
      OBVIOUS
    <3>1. f[row] = report[row].evaluated /\ g[row] = IF Searchable(row) THEN row.needs ELSE 0
      OBVIOUS
    <3>2. ReportFits(row, report[row]) /\ report[row].evaluated \in Nat /\ row.needs \in Nat
      BY <2>1, <2>3
    <3>3. \/ report[row].evaluated = 0
          \/ Searchable(row) /\ report[row].evaluated <= row.needs
      BY <3>2 DEF ReportFits
    <3> HIDE DEF f, g
    <3> QED
      BY <3>1, <3>2, <3>3
  <2>6. SumOf(f) = evaluated
    BY <1>1, <2>2 DEF ScreenHolds, Evaluations
  <2>7. SumOf(g) = SumOf(h)
    <3>1. /\ DOMAIN h \subseteq DOMAIN g /\ \A x \in DOMAIN h : g[x] = h[x]
          /\ \A x \in DOMAIN g \ DOMAIN h : g[x] = 0
      OBVIOUS
    <3> HIDE DEF g, h
    <3> QED
      BY <3>1, SumWithZeros
  <2>8. Needs = SumOf(g)
    BY <2>7 DEF Needs
  <2>9. PICK row \in S : CutShort(report[row].status)
    BY <1>1, <2>2 DEF ScreenHolds
  <2>10. row.verdict \in {"optimal", "no_positive_margin", "insufficient_cash"}
    <3>1. row \in SnapshotRow
      BY <1>1 DEF ScreenHolds, ScreenConstants
    <3> QED
      BY <3>1 DEF SnapshotRow
  <2>11. /\ evaluated = input.total_budget
         /\ \/ Searchable(row) /\ report[row].evaluated < row.needs
            \/ ~input.basket
    <3> DEFINE entry == report[row]
    <3>0. ReportFits(row, entry) /\ entry.evaluated \in Nat
      BY <2>3
    <3> HIDE DEF entry
    <3>1. CASE entry.status = "screening_budget_exceeded"
      <4>1. /\ evaluated = input.total_budget /\ entry.evaluated = 0
            /\ input.basket => Searchable(row)
        BY <2>10, <3>0, <3>1 DEF ReportFits, Untimely, Searchable
      <4> QED
        BY <2>1, <4>1 DEF entry
    <3>2. CASE entry.status = "search_budget_exceeded"
      <4>1. /\ Searchable(row) /\ entry.evaluated < row.needs
            /\ entry.evaluated = input.row_budget \/ evaluated = input.total_budget
        BY <2>10, <3>0, <3>2 DEF ReportFits, Untimely
      <4>2. ~(row.needs > input.row_budget)
        BY <4>1
      <4> QED
        BY <2>1, <3>0, <4>1, <4>2 DEF entry
    <3> QED
      BY <2>9, <3>1, <3>2 DEF CutShort, entry
  <2>12. f[row] = report[row].evaluated /\ (Searchable(row) => g[row] = row.needs)
    OBVIOUS
  <2> HIDE DEF S, f, g, h
  <2>13. SumOf(f) <= SumOf(g) /\ SumOf(f) \in Nat /\ SumOf(g) \in Nat
    BY <2>1, <2>4, <2>5, SumIsMonotone, SumIsNatural
  <2>14. CASE Searchable(row) /\ report[row].evaluated < row.needs
    <3>1. SumOf(f) < SumOf(g)
      BY <2>1, <2>4, <2>5, <2>12, <2>14, SumExceeds
    <3> QED
      BY <2>6, <2>8, <2>11, <2>13, <3>1
  <2>15. CASE ~input.basket
    BY <2>6, <2>8, <2>11, <2>13, <2>15
  <2> QED
    BY <2>11, <2>14, <2>15
<1>2. ScreenSpec => []ScreenHolds
  BY ScreenKeeps
<1> QED
  BY <1>1, <1>2, PTL

-----------------------------------------------------------------------------
(* Orders of a study.  What fills of an order to buy add up to, as in        *)
(* SumsBounded: x contracts in n fills within a limit.                       *)

\* The largest fee factor of a policy, at even odds.
Peak(f) == FeeFactor(PriceScale \div 2, f)

\* Bounds on x contracts in n fills: what they are worth, what they are charged and what
\* has yet to be rounded.
Spending(x, n, within, f, worth, charges, rest) ==
  /\ x \in Nat /\ n \in Nat /\ worth \in Nat /\ charges \in Nat /\ rest \in Nat
  /\ n * Step <= x /\ worth <= x * within
  /\ FeeDenominator * charges <= x * Peak(f) + n * FeeDenominator
  /\ rest <= n * f.quantum

\* One more fill within the limit keeps the bounds on what all of them come to.
LEMMA SpendingGrows ==
  ASSUME NEW x, NEW n, NEW within \in Price, NEW f \in FeePolicy, NEW worth, NEW charges, NEW rest,
         Spending(x, n, within, f, worth, charges, rest),
         NEW y \in Nat, y >= Step, NEW p \in Price, p <= within,
         FillAmounts("buy", y, p, f, rest).ok
  PROVE  LET fill == FillAmounts("buy", y, p, f, rest)
         IN  /\ Spending(x + y, n + 1, within, f, worth + fill.notional, charges + fill.fee,
                         fill.accumulator)
             /\ fill.change \in Nat
             /\ fill.change = fill.notional + fill.fee + fill.accumulator - rest
<1> DEFINE fill == FillAmounts("buy", y, p, f, rest)
           q == f.quantum
           D == FeeDenominator
           G == Peak(f)
           no == fill.notional
           fe == fill.fee
           ac == fill.accumulator
<1>1. /\ x \in Nat /\ n \in Nat /\ worth \in Nat /\ charges \in Nat /\ rest \in Nat
      /\ n * Step <= x /\ worth <= x * within
      /\ D * charges <= x * G + n * D
      /\ rest <= n * q
  BY DEF Spending
<1>2. /\ q \in Nat \ {0} /\ D \in Nat \ {0} /\ G \in Nat
      /\ Step \in Nat \ {0} /\ p \in Nat /\ within \in Nat
  BY FactorPeaks, FeeDenominatorPositive, FillConstants DEF Peak, Price, FeePolicy
<1>3. /\ no = y * p /\ no \in Nat
      /\ fe = TradeFee(y, p, f) /\ fe \in Nat
      /\ ac \in Nat /\ ac <= rest + q - 1
      /\ fill.change = no + fe + ac - rest
      /\ fill.change >= no
      /\ \E k \in Int : fill.change = k * q
  BY <1>1, FillEffect
<1>4. D * fe <= y * G + D - 1
  BY <1>3, TradeFeeBounds DEF Peak
<1> DEFINE ch == fill.change
<1>5. ch \in Nat /\ ch = no + fe + ac - rest
  <2>1. PICK k \in Int : ch = k * q
    BY <1>3
  <2>2. ch \in Int
    BY <1>2, <2>1
  <2>3. ch >= no /\ no \in Nat /\ ch = no + fe + ac - rest
    BY <1>3
  <2> HIDE DEF ch, no, fe, ac
  <2> QED
    BY <2>2, <2>3
<1> HIDE DEF fill, q, D, G, no, fe, ac, ch
<1>6. (n + 1) * Step <= x + y
  <2>1. (n + 1) * Step = n * Step + Step
    BY <1>1, <1>2
  <2> QED
    BY <1>1, <1>2, <2>1
<1>7. worth + no <= (x + y) * within
  <2>1. y * p <= y * within
    BY <1>2
  <2>2. (x + y) * within = x * within + y * within
    BY <1>1, <1>2
  <2> QED
    BY <1>1, <1>2, <1>3, <2>1, <2>2
<1>8. D * (charges + fe) <= (x + y) * G + (n + 1) * D
  <2>1. D * (charges + fe) = D * charges + D * fe
    BY <1>1, <1>2, <1>3
  <2>2. (x + y) * G = x * G + y * G /\ (n + 1) * D = n * D + D
    BY <1>1, <1>2
  <2>3. /\ D * charges \in Nat /\ D * fe \in Nat /\ x * G \in Nat /\ y * G \in Nat /\ n * D \in Nat
    BY <1>1, <1>2, <1>3
  <2> QED
    BY <1>1, <1>2, <1>4, <2>1, <2>2, <2>3
<1>9. ac <= (n + 1) * q
  <2>1. (n + 1) * q = n * q + q
    BY <1>1, <1>2
  <2> QED
    BY <1>1, <1>2, <1>3, <2>1
<1>10. Spending(x + y, n + 1, within, f, worth + no, charges + fe, ac)
  BY <1>1, <1>3, <1>6, <1>7, <1>8, <1>9 DEF Spending, D, G, q
<1> QED
  BY <1>5, <1>10 DEF no, fe, ac, ch, fill

\* A product decides between its factors.
LEMMA FactorBelow ==
  ASSUME NEW d \in Nat \ {0}, NEW x \in Int, NEW y \in Int, d * x <= d * y + d - 1
  PROVE  x <= y
<1> SUFFICES ASSUME x >= y + 1 PROVE FALSE
  OBVIOUS
<1>1. d * x >= d * (y + 1)
  BY Z3
<1>2. d * (y + 1) = d * y + d
  OBVIOUS
<1>3. d * x \in Int /\ d * y \in Int
  OBVIOUS
<1> QED
  BY <1>1, <1>2, <1>3

\* What is reserved is a natural number that grows with the quantity and the limit.
LEMMA ReservationParts ==
  ASSUME NEW x \in Nat, NEW within \in Price, NEW f \in FeePolicy
  PROVE  /\ PeakFee(x, f) \in Nat
         /\ x * Peak(f) <= FeeDenominator * PeakFee(x, f)
         /\ FeeDenominator * PeakFee(x, f) <= x * Peak(f) + FeeDenominator - 1
         /\ x \div Step \in Nat
         /\ x * within \in Nat /\ (x \div Step) * (f.quantum + 1) \in Nat
         /\ Reservation(x, within, f) =
              x * within + PeakFee(x, f) + (x \div Step) * (f.quantum + 1)
         /\ Reservation(x, within, f) \in Nat
<1>1. PriceScale \div 2 \in Price /\ within \in Nat /\ f.quantum \in Nat /\ Step \in Nat \ {0}
  BY FactorPeaks, FillConstants DEF Price, FeePolicy
<1>2. /\ PeakFee(x, f) \in Nat
      /\ x * Peak(f) <= FeeDenominator * PeakFee(x, f)
      /\ FeeDenominator * PeakFee(x, f) <= x * Peak(f) + FeeDenominator - 1
  BY <1>1, TradeFeeBounds DEF PeakFee, Peak
<1>3. x \div Step \in Nat
  BY <1>1, DivMod
<1> DEFINE k == x \div Step
<1>4. k \in Nat
  BY <1>3
<1> HIDE DEF k
<1>5. x * within \in Nat /\ k * (f.quantum + 1) \in Nat
  BY <1>1, <1>4
<1>6. Reservation(x, within, f) = x * within + PeakFee(x, f) + k * (f.quantum + 1)
  BY DEF Reservation, k
<1> QED
  BY <1>2, <1>3, <1>5, <1>6 DEF k

\* What fills within a limit come to is at most the reservation for their contracts.
LEMMA SpendingIsReserved ==
  ASSUME NEW x, NEW n, NEW within \in Price, NEW f \in FeePolicy, NEW worth, NEW charges, NEW rest,
         Spending(x, n, within, f, worth, charges, rest)
  PROVE  worth + charges + rest <= Reservation(x, within, f)
<1> DEFINE q == f.quantum
           D == FeeDenominator
           G == Peak(f)
           peak == PeakFee(x, f)
           steps == x \div Step
<1>1. /\ x \in Nat /\ n \in Nat /\ worth \in Nat /\ charges \in Nat /\ rest \in Nat
      /\ n * Step <= x /\ worth <= x * within
      /\ D * charges <= x * G + n * D
      /\ rest <= n * q
  BY DEF Spending
<1>2. q \in Nat \ {0} /\ D \in Nat \ {0} /\ G \in Nat /\ within \in Nat /\ Step \in Nat \ {0}
  BY FactorPeaks, FeeDenominatorPositive, FillConstants DEF Peak, Price, FeePolicy
<1>3. /\ peak \in Nat /\ x * G <= D * peak
      /\ Reservation(x, within, f) = x * within + peak + steps * (q + 1)
      /\ x * within \in Nat /\ steps * (q + 1) \in Nat
  BY <1>1, ReservationParts
<1>4. steps \in Nat /\ n <= steps
  BY <1>1, <1>2, DivMod, DivAtLeast
<1> HIDE DEF q, D, G, peak, steps
<1>5. charges <= peak + n
  <2>1. D * (peak + n) = D * peak + n * D
    BY <1>1, <1>2, <1>3
  <2>2. D * charges <= D * (peak + n) + D - 1
    <3>1. D * charges \in Nat /\ D * peak \in Nat /\ n * D \in Nat /\ x * G \in Nat
      BY <1>1, <1>2, <1>3
    <3> QED
      BY <1>1, <1>2, <1>3, <2>1, <3>1
  <2> QED
    BY <1>1, <1>2, <1>3, <2>2, FactorBelow
<1>6. n * q + n <= steps * (q + 1)
  <2>1. n * q + n = n * (q + 1)
    BY <1>1, <1>2
  <2>2. n * (q + 1) <= steps * (q + 1)
    BY <1>1, <1>2, <1>4
  <2> QED
    BY <2>1, <2>2
<1>7. n * q \in Nat
  BY <1>1, <1>2
<1> QED
  BY <1>1, <1>3, <1>5, <1>6, <1>7

\* A larger quantity or a higher limit is never reserved less for.
LEMMA ReservationGrows ==
  ASSUME NEW x \in Nat, NEW y \in Nat, x <= y, NEW low \in Price, NEW high \in Price, low <= high,
         NEW f \in FeePolicy
  PROVE  /\ PeakFee(x, f) <= PeakFee(y, f)
         /\ x \div Step <= y \div Step
         /\ Reservation(x, low, f) <= Reservation(y, high, f)
<1> DEFINE D == FeeDenominator
           G == Peak(f)
           q1 == f.quantum + 1
           k == x \div Step
           j == y \div Step
           u == PeakFee(x, f)
           v == PeakFee(y, f)
<1>1. q1 \in Nat /\ D \in Nat \ {0} /\ G \in Nat /\ low \in Nat /\ high \in Nat /\ Step \in Nat \ {0}
  BY FactorPeaks, FeeDenominatorPositive, FillConstants DEF Peak, Price, FeePolicy
<1>2. /\ u \in Nat /\ D * u <= x * G + D - 1
      /\ Reservation(x, low, f) = x * low + u + k * q1 /\ k \in Nat
      /\ v \in Nat /\ y * G <= D * v
      /\ Reservation(y, high, f) = y * high + v + j * q1 /\ j \in Nat
  BY ReservationParts
<1>3. k <= j
  <2>1. k * Step <= x
    BY <1>1, DivBelow
  <2>2. k * Step <= y
    <3>1. k * Step \in Nat
      BY <1>1, <1>2
    <3> QED
      BY <2>1, <3>1
  <2> QED
    BY <1>1, <1>2, <2>2, DivAtLeast
<1> HIDE DEF D, G, q1, k, j, u, v
<1>4. u <= v
  <2>1. x * G <= y * G /\ x * G \in Nat /\ y * G \in Nat
    BY <1>1
  <2>2. D * u <= D * v + D - 1
    <3>1. D * u \in Nat /\ D * v \in Nat
      BY <1>1, <1>2
    <3> QED
      BY <1>1, <1>2, <2>1, <3>1
  <2> QED
    BY <1>1, <1>2, <2>2, FactorBelow
<1>5. x * low <= y * high
  <2>1. x * low <= y * low /\ y * low <= y * high
    BY <1>1
  <2>2. x * low \in Nat /\ y * low \in Nat /\ y * high \in Nat
    BY <1>1
  <2> QED
    BY <2>1, <2>2
<1>6. k * q1 <= j * q1 /\ k * q1 \in Nat /\ j * q1 \in Nat
  BY <1>1, <1>2, <1>3
<1>7. x * low \in Nat /\ y * high \in Nat
  BY <1>1
<1> QED
  BY <1>2, <1>3, <1>4, <1>5, <1>6, <1>7 DEF u, v, k, j

\* A fill of an order that was reserved for is never refused.
LEMMA FillIsOk ==
  ASSUME NEW x, NEW n, NEW within \in Price, NEW f \in FeePolicy, NEW worth, NEW charges, NEW rest,
         Spending(x, n, within, f, worth, charges, rest),
         NEW y \in Nat, y >= Step, NEW p \in Price, p <= within, NEW whole \in Nat, x + y <= whole,
         Reservation(whole, within, f) <= MaxCash
  PROVE  FillAmounts("buy", y, p, f, rest).ok
<1> DEFINE q == f.quantum
           D == FeeDenominator
           G == Peak(f)
           steps == whole \div Step
           peak == PeakFee(whole, f)
           no == y * p
           c == TradeFee(y, p, f)
           gross == Total("buy", no, c)
           r == Rounding("buy", gross, q)
<1>1. /\ x \in Nat /\ n \in Nat /\ rest \in Nat /\ n * Step <= x /\ rest <= n * q
  BY DEF Spending
<1>2. /\ q \in Nat \ {0} /\ D \in Nat \ {0} /\ G \in Nat /\ p \in Nat /\ within \in Nat
      /\ Step \in Nat \ {0} /\ MaxCash \in Nat
  BY FactorPeaks, FeeDenominatorPositive, FillConstants DEF Peak, Price, FeePolicy
<1>3. /\ peak \in Nat /\ whole * G <= D * peak /\ steps \in Nat
      /\ Reservation(whole, within, f) = whole * within + peak + steps * (q + 1)
      /\ whole * within \in Nat /\ steps * (q + 1) \in Nat
  BY <1>2, ReservationParts
<1>4. c \in Nat /\ D * c <= y * G + D - 1
  BY TradeFeeBounds DEF Peak
<1>5. n + 1 <= steps
  <2>1. (n + 1) * Step = n * Step + Step /\ n * Step \in Nat
    BY <1>1, <1>2
  <2>2. (n + 1) * Step <= whole /\ n + 1 \in Nat
    BY <1>1, <1>2, <2>1
  <2> DEFINE next == n + 1
  <2>3. next * Step <= whole /\ next \in Nat
    BY <2>2
  <2> HIDE DEF next
  <2>4. next <= whole \div Step
    BY <1>2, <2>3, DivAtLeast
  <2> QED
    BY <2>4 DEF next
<1>6. no \in Nat
  BY <1>2
<1>7. gross = no + c
  BY DEF Total
<1>8. r \in 0..(q - 1)
  <2>1. r = (q - (gross % q)) % q
    BY DEF Rounding
  <2> DEFINE z == q - (gross % q)
  <2>2. gross \in Nat
    BY <1>4, <1>6, <1>7
  <2> HIDE DEF gross
  <2>3. gross % q \in 0..(q - 1)
    BY <1>2, <2>2, DivMod
  <2>4. z \in Nat
    BY <1>2, <2>3
  <2> HIDE DEF z
  <2>5. z % q \in 0..(q - 1)
    BY <1>2, <2>4, DivMod
  <2> QED
    BY <2>1, <2>5 DEF z
<1> HIDE DEF q, D, G, steps, peak, c, gross, r
<1>9. c <= peak
  <2>1. y * G <= whole * G /\ y * G \in Nat /\ whole * G \in Nat
    <3>1. y <= whole
      BY <1>1
    <3> QED
      BY <1>2, <3>1
  <2>2. D * c <= D * peak + D - 1
    <3>1. D * c \in Nat /\ D * peak \in Nat
      BY <1>2, <1>3, <1>4
    <3> QED
      BY <1>2, <1>3, <1>4, <2>1, <3>1
  <2> QED
    BY <1>2, <1>3, <1>4, <2>2, FactorBelow
<1>10. no <= whole * within
  <2>1. y * p <= y * within /\ y * within <= whole * within
    <3>1. y <= whole
      BY <1>1
    <3> QED
      BY <1>2, <3>1
  <2>2. y * p \in Nat /\ y * within \in Nat /\ whole * within \in Nat
    BY <1>2
  <2> QED
    BY <2>1, <2>2
<1>11. rest + r <= steps * (q + 1) /\ r <= steps * (q + 1)
  <2>1. (n + 1) * q <= steps * q /\ (n + 1) * q = n * q + q /\ n * q \in Nat /\ steps * q \in Nat
    BY <1>1, <1>2, <1>3, <1>5
  <2>2. steps * (q + 1) = steps * q + steps
    BY <1>2, <1>3
  <2> QED
    BY <1>1, <1>2, <1>3, <1>8, <2>1, <2>2 DEF q
<1> DEFINE m == steps * (q + 1)
           w == whole * within
<1>12. /\ w + peak + m <= MaxCash /\ w \in Nat /\ m \in Nat
       /\ no <= w /\ rest + r <= m /\ r <= m
  BY <1>3, <1>10, <1>11
<1> HIDE DEF m, w, no
<1>13. /\ y # 0 /\ no <= MaxCash /\ c <= MaxCash /\ gross + r <= MaxCash
       /\ rest + r <= 2 * MaxCash + 1
  BY <1>1, <1>2, <1>3, <1>4, <1>6, <1>7, <1>8, <1>9, <1>12
<1> QED
  BY <1>2, <1>4, <1>6, <1>7, <1>8, <1>13, <1>1 DEF FillAmounts, no, c, gross, r, q

-----------------------------------------------------------------------------
(* What a study pays for a quantity.                                         *)

\* A study has the scales and the clock from above, and failed.
CONSTANTS
  Constraint, LegsOf, FeeOf, Books, Policies, MaxFrames

VARIABLES
  policy, frames, phase, book, generation, connected, last_update, deciding, attempts,
  pending, consumed, available, spent

Immediate == INSTANCE ImmediateStudy

\* The study's costs are the costs of fills.
LEMMA SameCosts ==
  /\ Immediate!Price = Price
  /\ \A e, g : Immediate!Min2(e, g) = Min2(e, g)
  /\ \A y, p, f, e : Immediate!FillAmounts("buy", y, p, f, e) = FillAmounts("buy", y, p, f, e)
  /\ \A x, w, f : Immediate!Reservation(x, w, f) = Reservation(x, w, f)
<1>1. Immediate!Price = Price
  BY DEF Immediate!Price, Price
<1>2. \A e, g : Immediate!Min2(e, g) = Min2(e, g)
  BY DEF Immediate!Min2, Min2
<1>3. \A y, p, f : Immediate!TradeFee(y, p, f) = TradeFee(y, p, f)
  BY DEF Immediate!TradeFee, TradeFee, Immediate!CeilDiv, CeilDiv, Immediate!FeeFactor, FeeFactor,
         Immediate!FeeDenominator, FeeDenominator
<1>4. \A x, w, f : Immediate!Reservation(x, w, f) = Reservation(x, w, f)
  BY <1>3 DEF Immediate!Reservation, Reservation, Immediate!PeakFee, PeakFee
<1>5. \A n, c : Immediate!Total("buy", n, c) = Total("buy", n, c)
  BY DEF Immediate!Total, Total
<1>6. \A t, q : Immediate!Rounding("buy", t, q) = Rounding("buy", t, q)
  BY DEF Immediate!Rounding, Rounding
<1>7. \A e, c, q : Immediate!Rebate(e, c, q) = Rebate(e, c, q)
  BY <1>2 DEF Immediate!Rebate, Rebate
<1>8. ASSUME NEW y, NEW p, NEW f, NEW e
      PROVE  Immediate!FillAmounts("buy", y, p, f, e) = FillAmounts("buy", y, p, f, e)
  <2>1. Immediate!TradeFee(y, p, f) = TradeFee(y, p, f)
    BY <1>3
  <2> DEFINE c == TradeFee(y, p, f)
  <2>2. Immediate!Total("buy", y * p, c) = Total("buy", y * p, c)
    BY <1>5
  <2> DEFINE t == Total("buy", y * p, c)
  <2>3. Immediate!Rounding("buy", t, f.quantum) = Rounding("buy", t, f.quantum)
    BY <1>6
  <2> DEFINE r == Rounding("buy", t, f.quantum)
  <2>4. Immediate!Rebate(e + r, c + r, f.quantum) = Rebate(e + r, c + r, f.quantum)
    BY <1>7
  <2> QED
    BY <2>1, <2>2, <2>3, <2>4 DEF Immediate!FillAmounts, FillAmounts, Immediate!NoFill, NoFill
<1> QED
  BY <1>1, <1>2, <1>4, <1>8

\* What holds at first and is kept by every pass of a loop holds after all of them.
LEMMA AfterPasses ==
  ASSUME NEW n \in Nat, NEW S, 0 \in S, \A i \in 1..n : i - 1 \in S => i \in S
  PROVE  \A i \in 0..n : i \in S
<1> DEFINE Bad == {i \in 0..n : i \notin S}
<1> SUFFICES ASSUME Bad # {} PROVE FALSE
  OBVIOUS
<1>1. PICK i \in Bad : \A j \in Bad : i <= j
  <2>1. Bad \in SUBSET Nat
    OBVIOUS
  <2> HIDE DEF Bad
  <2> QED
    BY <2>1, LeastNatural
<1>2. i \in 1..n /\ i \notin S /\ i - 1 \in 0..n /\ ~(i <= i - 1)
  BY <1>1
<1>3. i - 1 \in S
  BY <1>1, <1>2
<1> QED
  BY <1>2, <1>3

\* Multiples of the step.
Gridded(x) == \E k \in Nat : x = k * Step

\* The part of a quantity that lies on the grid.
LEMMA OnTheGrid ==
  ASSUME NEW y \in Nat
  PROVE  /\ Immediate!OnGrid(y, Step) \in Nat /\ Immediate!OnGrid(y, Step) <= y
         /\ Gridded(Immediate!OnGrid(y, Step))
<1>1. Step \in Nat \ {0}
  BY FillConstants
<1> DEFINE k == y \div Step
<1>2. k \in Nat /\ k * Step <= y
  BY <1>1, DivBelow
<1>3. Immediate!OnGrid(y, Step) = k * Step
  BY DEF Immediate!OnGrid
<1> HIDE DEF k
<1>4. k * Step \in Nat
  BY <1>1, <1>2
<1> QED
  BY <1>2, <1>3, <1>4 DEF Gridded

\* The grid is closed under differences, and has nothing between zero and its step.
LEMMA GridStays ==
  ASSUME NEW x, NEW y, Gridded(x), Gridded(y)
  PROVE  /\ x \in Nat /\ y \in Nat
         /\ x <= y => Gridded(y - x)
         /\ x # 0 => x >= Step
<1>1. Step \in Nat \ {0}
  BY FillConstants
<1>2. PICK k \in Nat : x = k * Step
  BY DEF Gridded
<1>3. PICK l \in Nat : y = l * Step
  BY DEF Gridded
<1>4. x \in Nat /\ y \in Nat
  BY <1>1, <1>2, <1>3
<1>5. ASSUME x <= y PROVE Gridded(y - x)
  <2>1. k <= l
    <3> SUFFICES ASSUME k >= l + 1 PROVE FALSE
      OBVIOUS
    <3>1. k * Step >= (l + 1) * Step
      BY <1>1
    <3>2. (l + 1) * Step = l * Step + Step
      BY <1>1
    <3> QED
      BY <1>1, <1>2, <1>3, <1>4, <1>5, <3>1, <3>2
  <2>2. l - k \in Nat /\ y - x = (l - k) * Step
    BY <1>1, <1>2, <1>3, <2>1
  <2> QED
    BY <2>2 DEF Gridded
<1>6. ASSUME x # 0 PROVE x >= Step
  <2>1. k >= 1
    BY <1>1, <1>2, <1>6
  <2> QED
    BY <1>1, <1>2, <2>1
<1> QED
  BY <1>4, <1>5, <1>6

\* What is known of a quantity while it is bought level by level.
InPayment(paid, whole) ==
  /\ paid.missing \in 0..whole /\ Gridded(paid.missing) /\ paid.limit \in Price

\* What was paid is the worth of some fills within the limit with their charges.
Bought(paid, whole, within, f) ==
  \E n, worth, charges :
    /\ Spending(whole - paid.missing, n, within, f, worth, charges, paid.accumulator)
    /\ paid.debit = worth + charges + paid.accumulator

\* What one level is asked for.
Asked(paid, level) == Min2(paid.missing, Immediate!OnGrid(level.quantity, Step))

\* Neither the part that a level is asked for nor the rest leaves the grid.
LEMMA AskedFits ==
  ASSUME NEW whole, Gridded(whole), NEW paid, InPayment(paid, whole), NEW level \in Immediate!Level
  PROVE  /\ Asked(paid, level) \in Nat /\ Asked(paid, level) <= paid.missing
         /\ Gridded(Asked(paid, level)) /\ Gridded(paid.missing - Asked(paid, level))
         /\ Asked(paid, level) <= level.quantity
<1> DEFINE grid == Immediate!OnGrid(level.quantity, Step)
<1>1. level.quantity \in Nat
  BY DEF Immediate!Level
<1>2. grid \in Nat /\ grid <= level.quantity /\ Gridded(grid)
  BY <1>1, OnTheGrid
<1>3. paid.missing \in Nat /\ Gridded(paid.missing) /\ whole \in Nat
  BY GridStays DEF InPayment
<1> HIDE DEF grid
<1>4. Asked(paid, level) = IF paid.missing <= grid THEN paid.missing ELSE grid
  BY DEF Asked, Min2, grid
<1>5. /\ Asked(paid, level) \in Nat /\ Asked(paid, level) <= paid.missing
      /\ Gridded(Asked(paid, level)) /\ Asked(paid, level) <= level.quantity
  BY <1>1, <1>2, <1>3, <1>4
<1>6. Gridded(paid.missing - Asked(paid, level))
  BY <1>3, <1>5, GridStays
<1> QED
  BY <1>5, <1>6

\* A level that is asked for nothing changes nothing; from any other there is a fill.
LEMMA BuyStep ==
  ASSUME NEW paid, NEW level, NEW f
  PROVE  LET bought == Immediate!Buy(paid, level, f, Step)
             fill   == FillAmounts("buy", Asked(paid, level), level.price, f, paid.accumulator)
         IN  /\ Asked(paid, level) = 0 => bought = paid
             /\ Asked(paid, level) # 0 =>
                  bought = [missing |-> paid.missing - Asked(paid, level),
                            debit |-> paid.debit + fill.change,
                            accumulator |-> fill.accumulator, limit |-> level.price]
  BY SameCosts DEF Immediate!Buy, Asked

\* A level gives what it is asked for, and its price is the last one if that is anything.
LEMMA BuyCounts ==
  ASSUME NEW whole, Gridded(whole), NEW paid, InPayment(paid, whole), NEW level \in Immediate!Level,
         NEW f
  PROVE  LET bought == Immediate!Buy(paid, level, f, Step)
         IN  /\ InPayment(bought, whole)
             /\ bought.missing = paid.missing - Asked(paid, level)
             /\ bought = paid \/ bought.limit = level.price
<1> DEFINE bought == Immediate!Buy(paid, level, f, Step)
           y == Asked(paid, level)
<1>1. /\ y \in Nat /\ y <= paid.missing /\ Gridded(paid.missing - y)
      /\ paid.missing \in 0..whole /\ whole \in Nat /\ level.price \in Price /\ paid.limit \in Price
  BY AskedFits, GridStays, SameCosts DEF InPayment, Immediate!Level
<1>2. y = 0 => bought = paid
  BY BuyStep
<1>3. y # 0 => /\ bought.missing = paid.missing - y /\ bought.limit = level.price
  BY BuyStep
<1> HIDE DEF bought, y
<1>4. CASE y = 0
  <2>1. paid.missing - y = paid.missing
    BY <1>1, <1>4
  <2> QED
    BY <1>1, <1>2, <1>4, <2>1 DEF bought, y, InPayment
<1>5. CASE y # 0
  <2>1. paid.missing - y \in 0..whole
    BY <1>1
  <2> QED
    BY <1>1, <1>3, <1>5, <2>1 DEF bought, y, InPayment
<1> QED
  BY <1>4, <1>5

\* The bounds on what was paid hold after another level within the limit.
LEMMA BuyCosts ==
  ASSUME NEW whole, Gridded(whole), NEW within \in Price, NEW f \in FeePolicy,
         Reservation(whole, within, f) <= MaxCash,
         NEW paid, InPayment(paid, whole), Bought(paid, whole, within, f),
         NEW level \in Immediate!Level,
         Asked(paid, level) = 0 \/ level.price <= within
  PROVE  Bought(Immediate!Buy(paid, level, f, Step), whole, within, f)
<1> DEFINE bought == Immediate!Buy(paid, level, f, Step)
           y == Asked(paid, level)
           fill == FillAmounts("buy", y, level.price, f, paid.accumulator)
           x == whole - paid.missing
<1>1. CASE y = 0
  <2>1. bought = paid
    BY <1>1, BuyStep
  <2> QED
    BY <2>1
<1>2. CASE y # 0
  <2>1. /\ y \in Nat /\ y <= paid.missing /\ y >= Step
        /\ paid.missing \in 0..whole /\ whole \in Nat
        /\ level.price \in Price /\ level.price <= within
    BY <1>2, AskedFits, GridStays, SameCosts DEF InPayment, Immediate!Level
  <2>2. bought = [missing |-> paid.missing - y, debit |-> paid.debit + fill.change,
                  accumulator |-> fill.accumulator, limit |-> level.price]
    BY <1>2, BuyStep
  <2>3. PICK n, worth, charges :
          /\ Spending(x, n, within, f, worth, charges, paid.accumulator)
          /\ paid.debit = worth + charges + paid.accumulator
    BY DEF Bought
  <2>4. x \in Nat /\ x + y <= whole /\ whole - (paid.missing - y) = x + y
    BY <2>1
  <2> DEFINE p == level.price
             rest == paid.accumulator
             next == FillAmounts("buy", y, p, f, rest)
  <2>5. /\ y \in Nat /\ y >= Step /\ p \in Price /\ p <= within /\ x + y <= whole /\ whole \in Nat
        /\ Spending(x, n, within, f, worth, charges, rest) /\ fill = next
    BY <2>1, <2>3, <2>4
  <2> HIDE DEF y, x, bought, p, rest, fill
  <2>6. next.ok
    BY <2>5, FillIsOk
  <2>61. LET fi == FillAmounts("buy", y, p, f, rest)
         IN /\ Spending(x + y, n + 1, within, f, worth + fi.notional, charges + fi.fee,
                         fi.accumulator)
            /\ fi.change \in Nat
            /\ fi.change = fi.notional + fi.fee + fi.accumulator - rest
    BY <2>5, <2>6, SpendingGrows
  <2>62. /\ Spending(x + y, n + 1, within, f, worth + next.notional, charges + next.fee,
                    next.accumulator)
        /\ next.change \in Nat
        /\ next.change = next.notional + next.fee + next.accumulator - rest
    BY <2>61
  <2>63. next.notional \in Nat /\ next.fee \in Nat
    <3>1. rest \in Nat
      BY <2>5 DEF Spending
    <3> QED
      BY <2>5, <2>6, <3>1, FillEffect
  <2> HIDE DEF next
  <2>7. /\ worth \in Nat /\ charges \in Nat /\ rest \in Nat /\ next.accumulator \in Nat
    BY <2>5, <2>62 DEF Spending
  <2>8. /\ bought.debit = paid.debit + next.change /\ paid.debit = worth + charges + rest
        /\ whole - bought.missing = x + y /\ bought.accumulator = next.accumulator
    BY <2>2, <2>3, <2>4, <2>5 DEF rest
  <2>9. bought.debit = (worth + next.notional) + (charges + next.fee) + next.accumulator
    BY <2>7, <2>8, <2>62, <2>63
  <2> QED
    BY <2>62, <2>8, <2>9 DEF Bought, bought
<1> QED
  BY <1>1, <1>2

\* The recursion of Paid over the first n levels.
IsPayment(f, n, quantity, depth) ==
  f = [i \in 0..n |-> IF i = 0 THEN Immediate!Unpaid(quantity)
                      ELSE Immediate!Buy(f[i - 1], depth.levels[i], depth.fee, Step)]

\* The payment of the model, a function of the number of levels, exists.
LEMMA PaymentExists ==
  ASSUME NEW quantity, NEW depth
  PROVE  \A n \in Nat : \E f : IsPayment(f, n, quantity, depth)
<1> DEFINE first == Immediate!Unpaid(quantity)
           step(i, x) == Immediate!Buy(x, depth.levels[i], depth.fee, Step)
           Fulfils(f, n) == f = [i \in 0..n |-> IF i = 0 THEN first ELSE step(i, f[i - 1])]
           Bad == {n \in Nat : ~(\E f : Fulfils(f, n))}
<1>1. Bad = {}
  <2> HIDE DEF step, first
  <2> SUFFICES ASSUME Bad # {} PROVE FALSE
    OBVIOUS
  <2>1. PICK m \in Bad : \A n \in Bad : m <= n
    BY LeastNatural
  <2>2. Fulfils([i \in 0..0 |-> first], 0)
    OBVIOUS
  <2>3. m \in Nat /\ m # 0
    BY <2>1, <2>2
  <2>4. m - 1 \in Nat /\ m - 1 \notin Bad
    <3>1. m - 1 \in Nat /\ ~(m <= m - 1)
      BY <2>3
    <3> HIDE DEF Bad
    <3> QED
      BY <2>1, <3>1
  <2>5. PICK f : Fulfils(f, m - 1)
    BY <2>4
  <2> DEFINE g == [i \in 0..m |-> IF i = m THEN step(m, f[m - 1]) ELSE f[i]]
  <2>6. \A i \in 0..m : g[i] = IF i = 0 THEN first ELSE step(i, g[i - 1])
    <3> SUFFICES ASSUME NEW i \in 0..m PROVE g[i] = IF i = 0 THEN first ELSE step(i, g[i - 1])
      OBVIOUS
    <3>1. CASE i = m
      BY <2>3, <3>1
    <3>2. CASE i # m
      <4>1. i \in 0..(m - 1) /\ g[i] = f[i] /\ (i # 0 => g[i - 1] = f[i - 1])
        BY <2>3, <3>2
      <4>2. f[i] = IF i = 0 THEN first ELSE step(i, f[i - 1])
        BY <2>5, <4>1
      <4> QED
        BY <4>1, <4>2
    <3> QED
      BY <3>1, <3>2
  <2>7. Fulfils(g, m)
    <3>1. g = [i \in 0..m |-> g[i]]
      OBVIOUS
    <3> HIDE DEF g
    <3> QED
      BY <2>6, <3>1
  <2> QED
    BY <2>1, <2>7
<1> QED
  BY <1>1 DEF IsPayment

\* A payment level by level.
Passes(f, quantity, depth) ==
  /\ f[0] = Immediate!Unpaid(quantity)
  /\ \A i \in 1..Len(depth.levels) :
       f[i] = Immediate!Buy(f[i - 1], depth.levels[i], depth.fee, Step)
  /\ Immediate!Paid(depth, quantity, Step) = f[Len(depth.levels)]

\* So what the model pays is what the passes over all levels come to.
LEMMA PaymentPasses ==
  ASSUME NEW quantity, NEW depth, Len(depth.levels) \in Nat
  PROVE  \E f : Passes(f, quantity, depth)
<1> DEFINE n == Len(depth.levels)
           Fulfils(f) == IsPayment(f, n, quantity, depth)
           w == CHOOSE f : Fulfils(f)
<1>1. Immediate!Paid(depth, quantity, Step) = w[n]
  BY Zenon DEF Immediate!Paid, IsPayment
<1>2. Fulfils(w)
  <2>1. \E f : Fulfils(f)
    BY PaymentExists
  <2> HIDE DEF Fulfils
  <2> QED
    BY <2>1, Zenon
<1> HIDE DEF w
<1>3. \A i \in 0..n :
        w[i] = IF i = 0 THEN Immediate!Unpaid(quantity)
               ELSE Immediate!Buy(w[i - 1], depth.levels[i], depth.fee, Step)
  BY <1>2, Zenon DEF IsPayment
<1>4. 0 \in 0..n /\ \A i \in 1..n : i \in 0..n /\ i # 0
  OBVIOUS
<1>5. Passes(w, quantity, depth)
  BY <1>1, <1>3, <1>4, Zenon DEF Passes
<1> QED
  BY <1>5

\* Levels to buy from, cheapest first.
Supply(depth) ==
  /\ depth.levels \in Seq(Immediate!Level) /\ depth.fee \in FeePolicy
  /\ \A i \in 2..Len(depth.levels) : depth.levels[i - 1].price < depth.levels[i].price

\* After every level the quantity that is missing is on the grid.
LEMMA PassesCount ==
  ASSUME NEW whole, Gridded(whole), NEW depth, Supply(depth), NEW f, Passes(f, whole, depth)
  PROVE  \A i \in 0..Len(depth.levels) : InPayment(f[i], whole)
<1> DEFINE n == Len(depth.levels)
           S == {i \in 0..n : InPayment(f[i], whole)}
<1>1. n \in Nat /\ \A i \in 1..n : depth.levels[i] \in Immediate!Level
  BY DEF Supply
<1>2. 0 \in S
  <2>1. /\ f[0].missing = whole /\ f[0].limit = 0 /\ whole \in Nat
    <3>1. whole \in Nat
      BY GridStays
    <3>2. f[0] = [missing |-> whole, debit |-> 0, accumulator |-> 0, limit |-> 0]
      BY DEF Passes, Immediate!Unpaid
    <3> QED
      BY <3>1, <3>2
  <2>2. 0 \in Price
    BY FillConstants DEF Price
  <2> QED
    BY <1>1, <2>1, <2>2 DEF InPayment
<1>3. ASSUME NEW i \in 1..n, i - 1 \in S PROVE i \in S
  <2>1. f[i] = Immediate!Buy(f[i - 1], depth.levels[i], depth.fee, Step) /\ InPayment(f[i - 1], whole)
    BY <1>3 DEF Passes
  <2>2. InPayment(f[i], whole)
    BY <1>1, <2>1, BuyCounts
  <2> QED
    BY <2>2
<1> HIDE DEF S
<1>4. \A i \in 0..n : i \in S
  BY <1>1, <1>2, <1>3, AfterPasses
<1> QED
  BY <1>4 DEF S

\* Whatever the passes are, they are paid for as long as they buy within the limit.
LEMMA PassesCost ==
  ASSUME NEW whole, Gridded(whole), NEW depth, Supply(depth), NEW f, Passes(f, whole, depth),
         NEW within \in Price, Reservation(whole, within, depth.fee) <= MaxCash,
         \A i \in 1..Len(depth.levels) :
           Asked(f[i - 1], depth.levels[i]) = 0 \/ depth.levels[i].price <= within
  PROVE  Bought(f[Len(depth.levels)], whole, within, depth.fee)
<1> DEFINE n == Len(depth.levels)
           S == {i \in 0..n : Bought(f[i], whole, within, depth.fee)}
<1>1. n \in Nat /\ depth.fee \in FeePolicy /\ \A i \in 1..n : depth.levels[i] \in Immediate!Level
  BY DEF Supply
<1>2. 0 \in S
  <2>1. whole \in Nat /\ Step \in Nat \ {0} /\ within \in Nat /\ Peak(depth.fee) \in Nat
        /\ FeeDenominator \in Nat /\ depth.fee.quantum \in Nat
    <3>1. whole \in Nat
      BY GridStays
    <3>2. Peak(depth.fee) \in Nat
      BY <1>1, FactorPeaks DEF Peak
    <3>3. within \in Nat /\ depth.fee.quantum \in Nat
      BY <1>1 DEF Price, FeePolicy
    <3> QED
      BY <3>1, <3>2, <3>3, FillConstants, FeeDenominatorPositive
  <2>2. Spending(0, 0, within, depth.fee, 0, 0, 0)
    BY <2>1 DEF Spending
  <2>3. /\ whole - f[0].missing = 0 /\ f[0].accumulator = 0 /\ f[0].debit = 0 + 0 + f[0].accumulator
    BY <2>1 DEF Passes, Immediate!Unpaid
  <2>4. Bought(f[0], whole, within, depth.fee)
    BY <2>2, <2>3 DEF Bought
  <2> QED
    BY <1>1, <2>4
<1>3. ASSUME NEW i \in 1..n, i - 1 \in S PROVE i \in S
  <2>1. /\ f[i] = Immediate!Buy(f[i - 1], depth.levels[i], depth.fee, Step)
        /\ Bought(f[i - 1], whole, within, depth.fee)
        /\ i - 1 \in 0..n
    BY <1>3 DEF Passes
  <2>2. InPayment(f[i - 1], whole)
    BY <2>1, PassesCount
  <2>3. Asked(f[i - 1], depth.levels[i]) = 0 \/ depth.levels[i].price <= within
    OBVIOUS
  <2>4. Bought(f[i], whole, within, depth.fee)
    BY <1>1, <2>1, <2>2, <2>3, BuyCosts
  <2> QED
    BY <2>4
<1> HIDE DEF S
<1>4. \A i \in 0..n : i \in S
  BY <1>1, <1>2, <1>3, AfterPasses
<1> QED
  BY <1>1, <1>4 DEF S

\* What is bought costs no more than is reserved for all of it.
LEMMA BoughtIsReserved ==
  ASSUME NEW whole, Gridded(whole), NEW paid, InPayment(paid, whole), NEW within \in Price,
         NEW f \in FeePolicy, Bought(paid, whole, within, f)
  PROVE  paid.debit \in Nat /\ paid.debit <= Reservation(whole, within, f)
<1> DEFINE x == whole - paid.missing
<1>1. whole \in Nat /\ x \in Nat /\ x <= whole
  BY GridStays DEF InPayment
<1>2. PICK n, worth, charges :
        /\ Spending(x, n, within, f, worth, charges, paid.accumulator)
        /\ paid.debit = worth + charges + paid.accumulator
  BY DEF Bought
<1> HIDE DEF x
<1>3. worth \in Nat /\ charges \in Nat /\ paid.accumulator \in Nat
  BY <1>2 DEF Spending
<1>4. worth + charges + paid.accumulator <= Reservation(x, within, f)
  BY <1>2, SpendingIsReserved
<1>5. Reservation(x, within, f) <= Reservation(whole, within, f)
  <2>1. within <= within
    BY DEF Price
  <2> QED
    BY <1>1, <2>1, ReservationGrows
<1>6. Reservation(x, within, f) \in Nat /\ Reservation(whole, within, f) \in Nat
  BY <1>1, ReservationParts
<1> QED
  BY <1>2, <1>3, <1>4, <1>5, <1>6

\* What remains to be bought, and the price of the last level.
LEMMA PaymentCounts ==
  ASSUME NEW whole, Gridded(whole), NEW depth, Supply(depth)
  PROVE  InPayment(Immediate!Paid(depth, whole, Step), whole)
<1> DEFINE n == Len(depth.levels)
<1>1. n \in Nat
  BY DEF Supply
<1>2. PICK f : Passes(f, whole, depth)
  BY <1>1, PaymentPasses
<1>3. InPayment(f[n], whole)
  BY <1>1, <1>2, PassesCount
<1> QED
  BY <1>2, <1>3 DEF Passes

\* An order pays no more than was reserved for it, whatever levels it finds within its limit.
LEMMA PaymentIsCovered ==
  ASSUME NEW whole, Gridded(whole), NEW depth, Supply(depth), NEW within \in Price,
         Reservation(whole, within, depth.fee) <= MaxCash,
         \A i \in 1..Len(depth.levels) :
           depth.levels[i].quantity = 0 \/ depth.levels[i].price <= within
  PROVE  LET debit == Immediate!Paid(depth, whole, Step).debit
         IN  debit \in Nat /\ debit <= Reservation(whole, within, depth.fee)
<1> DEFINE n == Len(depth.levels)
<1>1. n \in Nat /\ depth.fee \in FeePolicy /\ \A i \in 1..n : depth.levels[i] \in Immediate!Level
  BY DEF Supply
<1>2. PICK f : Passes(f, whole, depth)
  BY <1>1, PaymentPasses
<1>3. ASSUME NEW i \in 1..n
      PROVE  Asked(f[i - 1], depth.levels[i]) = 0 \/ depth.levels[i].price <= within
  <2>1. i - 1 \in 0..n
    BY <1>1
  <2>2. InPayment(f[i - 1], whole)
    BY <1>2, <2>1, PassesCount
  <2>3. Asked(f[i - 1], depth.levels[i]) \in Nat
        /\ Asked(f[i - 1], depth.levels[i]) <= depth.levels[i].quantity
    BY <1>1, <2>2, AskedFits
  <2> QED
    BY <2>3
<1>4. Bought(f[n], whole, within, depth.fee)
  BY <1>2, <1>3, PassesCost
<1>5. InPayment(f[n], whole)
  BY <1>1, <1>2, PassesCount
<1>6. f[n].debit \in Nat /\ f[n].debit <= Reservation(whole, within, depth.fee)
  BY <1>1, <1>4, <1>5, BoughtIsReserved
<1> QED
  BY <1>2, <1>6 DEF Passes

\* No level that a quote uses is dearer than the last one.
LEMMA PassesClimb ==
  ASSUME NEW whole, Gridded(whole), NEW depth, Supply(depth), NEW f, Passes(f, whole, depth)
  PROVE  \A i \in 1..Len(depth.levels) :
           f[i].limit <= depth.levels[i].price /\ f[i - 1].limit <= f[i].limit
<1> DEFINE n == Len(depth.levels)
           S == {i \in 0..n : i # 0 => f[i].limit <= depth.levels[i].price
                                       /\ f[i - 1].limit <= f[i].limit}
<1>1. /\ n \in Nat /\ \A i \in 1..n : depth.levels[i] \in Immediate!Level
      /\ \A i \in 1..n : depth.levels[i].price \in Nat
  <2>1. n \in Nat /\ \A i \in 1..n : depth.levels[i] \in Immediate!Level
    BY DEF Supply
  <2>2. \A l \in Immediate!Level : l.price \in Nat
    BY SameCosts, FillConstants DEF Immediate!Level, Price
  <2> QED
    BY <2>1, <2>2
<1>2. 0 \in S
  BY <1>1
<1>3. ASSUME NEW i \in 1..n, i - 1 \in S PROVE i \in S
  <2> DEFINE l == depth.levels[i]
             p == f[i - 1]
  <2>1. f[i] = Immediate!Buy(p, l, depth.fee, Step) /\ i - 1 \in 0..n /\ l \in Immediate!Level
    BY <1>1 DEF Passes
  <2>2. InPayment(p, whole)
    BY <2>1, PassesCount
  <2>3. f[i] = p \/ f[i].limit = l.price
    BY <2>1, <2>2, BuyCounts
  <2>4. p.limit \in Nat
    BY <2>2, FillConstants DEF InPayment, Price
  <2>5. p.limit <= l.price
    <3>1. CASE i = 1
      <4>1. p.limit = 0
        BY <3>1 DEF Passes, Immediate!Unpaid
      <4> QED
        BY <1>1, <4>1
    <3>2. CASE i # 1
      <4>1. i - 1 # 0 /\ i \in 2..n /\ i - 1 \in 1..n
        BY <3>2
      <4>2. p.limit <= depth.levels[i - 1].price
        BY <1>3, <4>1
      <4>3. depth.levels[i - 1].price < l.price
        BY <4>1 DEF Supply
      <4> QED
        BY <1>1, <2>4, <4>1, <4>2, <4>3
    <3> QED
      BY <3>1, <3>2
  <2>6. f[i].limit <= l.price /\ p.limit <= f[i].limit
    BY <1>1, <2>3, <2>4, <2>5
  <2> QED
    BY <2>6
<1> HIDE DEF S
<1>4. \A i \in 0..n : i \in S
  BY <1>1, <1>2, <1>3, AfterPasses
<1> QED
  BY <1>4 DEF S

\* The price of the last level that was used is the highest.
LEMMA PassesStayBelow ==
  ASSUME NEW whole, Gridded(whole), NEW depth, Supply(depth), NEW f, Passes(f, whole, depth)
  PROVE  \A i \in 0..Len(depth.levels) : f[i].limit <= f[Len(depth.levels)].limit
<1> DEFINE n == Len(depth.levels)
           S == {i \in 0..n : f[n - i].limit <= f[n].limit}
<1>1. n \in Nat
  BY DEF Supply
<1>2. \A i \in 0..n : f[i].limit \in Nat
  <2>1. \A i \in 0..n : f[i].limit \in Price
    BY PassesCount DEF InPayment
  <2> QED
    BY <2>1, FillConstants DEF Price
<1>3. 0 \in S
  <2>1. n - 0 = n /\ n \in 0..n /\ 0 \in 0..n
    BY <1>1
  <2>2. f[n].limit <= f[n].limit
    BY <1>2, <2>1
  <2> QED
    BY <2>1, <2>2
<1>4. ASSUME NEW i \in 1..n, i - 1 \in S PROVE i \in S
  <2> DEFINE j == n - i
  <2>1. j \in 0..n /\ j + 1 \in 1..n /\ n - (i - 1) = j + 1 /\ (j + 1) - 1 = j
    BY <1>1
  <2>2. f[j + 1].limit <= f[n].limit
    BY <1>4, <2>1
  <2>3. f[j].limit <= f[j + 1].limit
    BY <2>1, PassesClimb
  <2>4. f[j].limit <= f[n].limit
    BY <1>1, <1>2, <2>1, <2>2, <2>3
  <2> QED
    BY <2>4
<1> HIDE DEF S
<1>5. \A i \in 0..n : i \in S
  BY <1>1, <1>3, <1>4, AfterPasses
<1>6. ASSUME NEW i \in 0..n PROVE f[i].limit <= f[n].limit
  <2>1. n - i \in 0..n /\ n - (n - i) = i
    BY <1>1
  <2> QED
    BY <1>5, <2>1 DEF S
<1> QED
  BY <1>6

\* A quote costs no more than its reservation.
LEMMA QuoteIsCovered ==
  ASSUME NEW whole, Gridded(whole), NEW depth, Supply(depth),
         Reservation(whole, Immediate!Paid(depth, whole, Step).limit, depth.fee) <= MaxCash
  PROVE  LET debit == Immediate!Paid(depth, whole, Step).debit
         IN  debit \in Nat
<1> DEFINE n == Len(depth.levels)
           within == Immediate!Paid(depth, whole, Step).limit
<1>1. n \in Nat /\ depth.fee \in FeePolicy /\ \A i \in 1..n : depth.levels[i] \in Immediate!Level
  BY DEF Supply
<1>2. PICK f : Passes(f, whole, depth)
  BY <1>1, PaymentPasses
<1>3. f[n].limit = within /\ within \in Price
  <2>1. InPayment(f[n], whole)
    BY <1>1, <1>2, PassesCount
  <2> QED
    BY <1>2, <2>1 DEF Passes, InPayment
<1> HIDE DEF within
<1>4. ASSUME NEW i \in 1..n
      PROVE  Asked(f[i - 1], depth.levels[i]) = 0 \/ depth.levels[i].price <= within
  <2> DEFINE l == depth.levels[i]
             p == f[i - 1]
  <2>1. i - 1 \in 0..n /\ i \in 0..n /\ f[i] = Immediate!Buy(p, l, depth.fee, Step)
    BY <1>1, <1>2 DEF Passes
  <2>2. CASE Asked(p, l) # 0
    <3>1. f[i].limit = l.price
      BY <2>1, <2>2, BuyStep
    <3>2. f[i].limit <= f[n].limit
      BY <1>2, <2>1, PassesStayBelow
    <3> QED
      BY <1>3, <3>1, <3>2
  <2> QED
    BY <2>2
<1>5. Reservation(whole, within, depth.fee) <= MaxCash
  BY DEF within
<1>6. Bought(f[n], whole, within, depth.fee)
  BY <1>2, <1>3, <1>4, <1>5, PassesCost
<1>7. InPayment(f[n], whole)
  BY <1>1, <1>2, PassesCount
<1>8. f[n].debit \in Nat
  BY <1>1, <1>3, <1>6, <1>7, BoughtIsReserved
<1> QED
  BY <1>2, <1>8 DEF Passes

-----------------------------------------------------------------------------
(* Quantities that a study decides for are on the grid and reserved for.     *)

\* A quantity on the grid that the available cash covers.
Funds(depths, quantity) == Gridded(quantity) /\ Immediate!Fits(depths, quantity)

\* A quantity that a decision may return.
Affordable(depths, quantity) == quantity = 0 \/ Funds(depths, quantity)

\* The quantity that a book has is on the grid.
LEMMA FoundOnGrid ==
  ASSUME NEW whole, Gridded(whole), NEW depth, Supply(depth)
  PROVE  Gridded(Immediate!Found(depth, whole))
<1> DEFINE gap == Immediate!Paid(depth, whole, Step).missing
<1>1. gap \in 0..whole /\ Gridded(gap)
  BY PaymentCounts DEF InPayment
<1>2. whole \in Nat
  BY GridStays
<1> HIDE DEF gap
<1>3. gap <= whole /\ Gridded(gap)
  BY <1>1, <1>2
<1>4. Gridded(whole - gap)
  BY <1>3, GridStays, Zenon
<1> QED
  BY <1>4 DEF Immediate!Found, gap

\* The recursion of Bisected over the first n rounds.
IsBisection(f, n, depths, most) ==
  f = [i \in 0..n |-> IF i = 0 THEN [lo |-> 0, hi |-> most] ELSE Immediate!Halve(depths, f[i - 1])]

\* The bisection of the model, a function of the number of rounds, exists.
LEMMA BisectionExists ==
  ASSUME NEW depths, NEW most
  PROVE  \A n \in Nat : \E f : IsBisection(f, n, depths, most)
<1> DEFINE first == [lo |-> 0, hi |-> most]
           step(x) == Immediate!Halve(depths, x)
           Halves(f, n) == f = [i \in 0..n |-> IF i = 0 THEN first ELSE step(f[i - 1])]
           Bad == {n \in Nat : ~(\E f : Halves(f, n))}
<1>1. Bad = {}
  <2> HIDE DEF step, first
  <2> SUFFICES ASSUME Bad # {} PROVE FALSE
    OBVIOUS
  <2>1. PICK m \in Bad : \A n \in Bad : m <= n
    BY LeastNatural
  <2>2. Halves([i \in 0..0 |-> first], 0)
    OBVIOUS
  <2>3. m \in Nat /\ m # 0
    BY <2>1, <2>2
  <2>4. m - 1 \in Nat /\ m - 1 \notin Bad
    <3>1. m - 1 \in Nat /\ ~(m <= m - 1)
      BY <2>3
    <3> HIDE DEF Bad
    <3> QED
      BY <2>1, <3>1
  <2>5. PICK f : Halves(f, m - 1)
    BY <2>4
  <2> DEFINE g == [i \in 0..m |-> IF i = m THEN step(f[m - 1]) ELSE f[i]]
  <2>6. \A i \in 0..m : g[i] = IF i = 0 THEN first ELSE step(g[i - 1])
    <3> SUFFICES ASSUME NEW i \in 0..m PROVE g[i] = IF i = 0 THEN first ELSE step(g[i - 1])
      OBVIOUS
    <3>1. CASE i = m
      BY <2>3, <3>1
    <3>2. CASE i # m
      <4>1. i \in 0..(m - 1) /\ g[i] = f[i] /\ (i # 0 => g[i - 1] = f[i - 1])
        BY <2>3, <3>2
      <4>2. f[i] = IF i = 0 THEN first ELSE step(f[i - 1])
        BY <2>5, <4>1
      <4> QED
        BY <4>1, <4>2
    <3> QED
      BY <3>1, <3>2
  <2>7. Halves(g, m)
    <3>1. g = [i \in 0..m |-> g[i]]
      OBVIOUS
    <3> HIDE DEF g
    <3> QED
      BY <2>6, <3>1
  <2> QED
    BY <2>1, <2>7
<1> QED
  BY <1>1 DEF IsBisection

\* The lower end of a bisection is zero or affordable, in every round.
Between(ends, depths) ==
  /\ ends \in [lo : Nat, hi : Int]
  /\ ends.lo = 0 \/ Immediate!Fits(depths, ends.lo * Step)

\* A round of the bisection moves its lower end only to what the cash covers.
LEMMA HalveKeeps ==
  ASSUME NEW depths, NEW ends, Between(ends, depths)
  PROVE  Between(Immediate!Halve(depths, ends), depths)
<1> DEFINE lo == ends.lo
           hi == ends.hi
           mid == Immediate!Middle(lo, hi)
<1>1. lo \in Nat /\ hi \in Int /\ ends \in [lo : Nat, hi : Int]
  BY DEF Between
<1>2. CASE lo >= hi
  BY <1>2 DEF Immediate!Halve
<1>3. CASE ~(lo >= hi)
  <2>1. hi - lo + 1 \in Nat
    BY <1>1, <1>3
  <2>2. (hi - lo + 1) \div 2 \in Nat
    BY <2>1, DivMod
  <2>3. mid \in Nat
    BY <1>1, <2>2 DEF Immediate!Middle
  <2>4. CASE Immediate!Fits(depths, mid * Step)
    <3>1. Immediate!Halve(depths, ends) = [ends EXCEPT !.lo = mid]
      BY <1>3, <2>4 DEF Immediate!Halve
    <3> HIDE DEF mid
    <3>2. /\ [ends EXCEPT !.lo = mid].lo = mid
          /\ [ends EXCEPT !.lo = mid] \in [lo : Nat, hi : Int]
      BY <1>1, <2>3
    <3> QED
      BY <1>1, <2>3, <2>4, <3>1, <3>2 DEF Between
  <2>5. CASE ~Immediate!Fits(depths, mid * Step)
    <3>1. Immediate!Halve(depths, ends) = [ends EXCEPT !.hi = mid - 1]
      BY <1>3, <2>5 DEF Immediate!Halve
    <3> HIDE DEF mid
    <3>2. /\ [ends EXCEPT !.hi = mid - 1].lo = lo
          /\ [ends EXCEPT !.hi = mid - 1] \in [lo : Nat, hi : Int]
      BY <1>1, <2>3
    <3> QED
      BY <1>1, <2>3, <3>1, <3>2 DEF Between
  <2> QED
    BY <2>4, <2>5
<1> QED
  BY <1>2, <1>3

\* The bisection ends at a quantity that the cash covers.
LEMMA BisectedFits ==
  ASSUME NEW depths, NEW most \in Nat
  PROVE  LET lo == Immediate!Bisected(depths, most)
         IN  lo \in Nat /\ (lo = 0 \/ Immediate!Fits(depths, lo * Step))
<1> DEFINE Halves(f) == IsBisection(f, most, depths, most)
           w == CHOOSE f : Halves(f)
           S == {i \in 0..most : Between(w[i], depths)}
<1>1. Immediate!Bisected(depths, most) = w[most].lo
  BY Zenon DEF Immediate!Bisected, IsBisection
<1>2. Halves(w)
  <2>1. \E f : Halves(f)
    BY BisectionExists
  <2> HIDE DEF Halves
  <2> QED
    BY <2>1, Zenon
<1> HIDE DEF w
<1>3. \A i \in 0..most :
        w[i] = IF i = 0 THEN [lo |-> 0, hi |-> most] ELSE Immediate!Halve(depths, w[i - 1])
  BY <1>2, Zenon DEF IsBisection
<1>4. 0 \in S
  <2>1. w[0] = [lo |-> 0, hi |-> most]
    BY <1>3
  <2>2. Between(w[0], depths)
    BY <2>1 DEF Between
  <2> QED
    BY <2>2
<1>5. ASSUME NEW i \in 1..most, i - 1 \in S PROVE i \in S
  <2>1. w[i] = Immediate!Halve(depths, w[i - 1]) /\ Between(w[i - 1], depths)
    BY <1>3, <1>5
  <2>2. Between(w[i], depths)
    BY <2>1, HalveKeeps
  <2> QED
    BY <2>2
<1> HIDE DEF S
<1>6. \A i \in 0..most : i \in S
  BY <1>4, <1>5, AfterPasses
<1>7. Between(w[most], depths)
  BY <1>6 DEF S
<1> QED
  BY <1>1, <1>7 DEF Between

\* The books of both legs.
Supplies(depths) == Supply(depths[1]) /\ Supply(depths[2])

\* The quantity of legacy_quote is on the grid and covered by the cash.
LEMMA LegacyFits ==
  ASSUME NEW depths, Supplies(depths), policy \in Immediate!Policy
  PROVE  Affordable(depths, Immediate!LegacyQuantity(depths))
<1> DEFINE most == Immediate!OnGrid(policy.cap, Step)
           offered == Immediate!Offer(depths, most)
           funded == Immediate!FundedOf(depths, offered)
<1>1. Gridded(most)
  BY OnTheGrid DEF Immediate!Policy
<1>2. Gridded(offered)
  <2>1. Gridded(Immediate!Found(depths[1], most)) /\ Gridded(Immediate!Found(depths[2], most))
    BY <1>1, FoundOnGrid DEF Supplies
  <2> QED
    BY <2>1 DEF Immediate!Offer, Immediate!Min2
<1> HIDE DEF most, offered
<1>3. Affordable(depths, funded)
  <2>1. CASE offered = 0
    BY <2>1 DEF Immediate!FundedOf, Affordable
  <2>2. CASE offered # 0 /\ Immediate!Fits(depths, offered)
    BY <1>2, <2>2 DEF Immediate!FundedOf, Affordable, Funds
  <2>3. CASE offered # 0 /\ ~Immediate!Fits(depths, offered)
    <3> DEFINE k == offered \div Step
               lo == Immediate!Bisected(depths, k)
    <3>1. funded = lo * Step
      BY <2>3 DEF Immediate!FundedOf
    <3>2. k \in Nat
      BY <1>2, GridStays, FillConstants, DivMod
    <3> HIDE DEF k, funded
    <3>3. lo \in Nat /\ (lo = 0 \/ Immediate!Fits(depths, lo * Step))
      BY <3>2, BisectedFits
    <3> HIDE DEF lo
    <3>4. CASE lo = 0
      BY <3>1, <3>4, FillConstants DEF Affordable
    <3>5. CASE Immediate!Fits(depths, lo * Step)
      BY <3>1, <3>3, <3>5 DEF Affordable, Funds, Gridded
    <3> QED
      BY <3>3, <3>4, <3>5
  <2> QED
    BY <2>1, <2>2, <2>3
<1> HIDE DEF funded
<1>4. Immediate!LegacyQuantity(depths) = Immediate!IfProfitable(depths, funded)
  BY DEF Immediate!LegacyQuantity, Immediate!LargestFunded, funded, offered, most
<1>5. Immediate!IfProfitable(depths, funded) \in {0, funded}
  BY DEF Immediate!IfProfitable
<1> QED
  BY <1>3, <1>4, <1>5 DEF Affordable

\* A sum over two legs.
LEMMA TotalOfTwo ==
  ASSUME NEW t, Len(t) = 2
  PROVE  Immediate!TotalOf(t) = 0 + t[1] + t[2]
<1> DEFINE Sums(f) == f = [i \in 0..Len(t) |-> IF i = 0 THEN 0 ELSE f[i - 1] + t[i]]
           g == [i \in 0..2 |-> IF i = 0 THEN 0 ELSE IF i = 1 THEN 0 + t[1] ELSE 0 + t[1] + t[2]]
           sum == CHOOSE f : Sums(f)
<1>1. Sums(g)
  <2> DEFINE h == [i \in 0..2 |-> IF i = 0 THEN 0 ELSE g[i - 1] + t[i]]
  <2>1. \A i \in 0..2 : g[i] = h[i]
    OBVIOUS
  <2>2. g = h
    <3>1. g = [i \in 0..2 |-> g[i]] /\ h = [i \in 0..2 |-> h[i]]
      OBVIOUS
    <3> HIDE DEF g, h
    <3> QED
      BY <2>1, <3>1
  <2> HIDE DEF g
  <2> QED
    BY <2>2
<1>2. Sums(sum)
  <2> HIDE DEF g, Sums
  <2> QED
    BY <1>1, Zenon
<1>3. Immediate!TotalOf(t) = sum[2]
  BY Zenon DEF Immediate!TotalOf
<1> HIDE DEF sum
<1>4. sum[0] = 0 /\ sum[1] = sum[0] + t[1] /\ sum[2] = sum[1] + t[2]
  BY <1>2
<1> QED
  BY <1>3, <1>4

\* The margin and the reservation of a pair are sums over its legs.
LEMMA PricedOfTwo ==
  ASSUME NEW depths, Len(depths) = 2, NEW quantity
  PROVE  LET v == Immediate!Priced(depths, quantity, Step, PriceScale)
         IN  /\ v.quantity = quantity
             /\ v.reserve = 0 + Immediate!Reserve(depths[1], quantity)
                              + Immediate!Reserve(depths[2], quantity)
             /\ v.margin = quantity * PriceScale -
                             (0 + Immediate!Paid(depths[1], quantity, Step).debit
                                + Immediate!Paid(depths[2], quantity, Step).debit)
<1> DEFINE paid == [i \in 1..2 |-> Immediate!Paid(depths[i], quantity, Step)]
           debits == [i \in 1..2 |-> paid[i].debit]
           reserves == [i \in 1..2 |-> Immediate!Reservation(quantity, paid[i].limit, depths[i].fee)]
<1>1. Immediate!Priced(depths, quantity, Step, PriceScale) =
        [quantity |-> quantity, margin |-> quantity * PriceScale - Immediate!TotalOf(debits),
         reserve |-> Immediate!TotalOf(reserves)]
  BY DEF Immediate!Priced
<1>2. Len(debits) = 2 /\ Len(reserves) = 2
  OBVIOUS
<1>3. /\ debits[1] = Immediate!Paid(depths[1], quantity, Step).debit
      /\ debits[2] = Immediate!Paid(depths[2], quantity, Step).debit
      /\ reserves[1] = Immediate!Reserve(depths[1], quantity)
      /\ reserves[2] = Immediate!Reserve(depths[2], quantity)
  BY DEF Immediate!Reserve
<1> HIDE DEF paid, debits, reserves
<1>4. /\ Immediate!TotalOf(debits) = 0 + debits[1] + debits[2]
      /\ Immediate!TotalOf(reserves) = 0 + reserves[1] + reserves[2]
  BY <1>2, TotalOfTwo
<1> QED
  BY <1>1, <1>3, <1>4

\* Of finitely many margins, one is best.
Comparable(S, most) ==
  /\ \A v \in S : v.margin \in 0..most /\ v.reserve \in Nat /\ v.quantity \in Nat
  /\ \A v, w \in S : v.quantity = w.quantity => v = w

\* One candidate is best.
LEMMA BestExists ==
  ASSUME NEW S, S # {}, NEW most \in Nat, Comparable(S, most)
  PROVE  Immediate!BestOf(S) \in S
<1>1. \A v \in S : v.margin \in 0..most /\ v.reserve \in Nat /\ v.quantity \in Nat
  BY DEF Comparable
<1> DEFINE Short == {most - v.margin : v \in S}
<1>2. PICK e \in S : \A v \in S : v.margin <= e.margin
  <2>1. Short \in SUBSET Nat /\ Short # {}
    BY <1>1
  <2>2. PICK x \in Short : \A y \in Short : x <= y
    <3> HIDE DEF Short
    <3> QED
      BY <2>1, LeastNatural
  <2>3. PICK g \in S : x = most - g.margin
    BY <2>2
  <2>4. ASSUME NEW v \in S PROVE v.margin <= g.margin
    <3>1. most - g.margin <= most - v.margin
      BY <2>2, <2>3
    <3> QED
      BY <1>1, <3>1
  <2> QED
    BY <2>4
<1> DEFINE A == {v \in S : v.margin = e.margin}
           Reserves == {v.reserve : v \in A}
<1>3. PICK g \in A : \A v \in A : g.reserve <= v.reserve
  <2>1. Reserves \in SUBSET Nat /\ Reserves # {}
    BY <1>1, <1>2
  <2>2. PICK x \in Reserves : \A y \in Reserves : x <= y
    <3> HIDE DEF Reserves
    <3> QED
      BY <2>1, LeastNatural
  <2>3. PICK c \in A : x = c.reserve
    BY <2>2
  <2>4. \A v \in A : v.reserve \in Reserves
    OBVIOUS
  <2> HIDE DEF A, Reserves
  <2> QED
    BY <2>2, <2>3, <2>4
<1> DEFINE B == {v \in A : v.reserve = g.reserve}
           Quantities == {v.quantity : v \in B}
<1>4. PICK c \in B : \A v \in B : c.quantity <= v.quantity
  <2>1. Quantities \in SUBSET Nat /\ Quantities # {}
    BY <1>1, <1>3
  <2>2. PICK x \in Quantities : \A y \in Quantities : x <= y
    <3> HIDE DEF Quantities
    <3> QED
      BY <2>1, LeastNatural
  <2>3. PICK d \in B : x = d.quantity
    BY <2>2
  <2>4. \A v \in B : v.quantity \in Quantities
    OBVIOUS
  <2> HIDE DEF B, Quantities
  <2> QED
    BY <2>2, <2>3, <2>4
<1>5. /\ c \in S /\ c.margin = e.margin /\ c.reserve = g.reserve
  OBVIOUS
<1>6. ASSUME NEW w \in S PROVE w = c \/ Immediate!Better(c, w)
  <2>1. /\ w.margin \in 0..most /\ c.margin \in 0..most /\ w.reserve \in Nat /\ c.reserve \in Nat
        /\ w.quantity \in Nat /\ c.quantity \in Nat /\ w.margin <= c.margin
    BY <1>1, <1>2, <1>5
  <2>2. CASE w.margin < c.margin
    BY <2>1, <2>2 DEF Immediate!Better
  <2>3. CASE w.margin = c.margin /\ w.reserve # c.reserve
    <3>1. w \in A
      BY <1>5, <2>3
    <3>2. c.reserve <= w.reserve
      BY <1>3, <1>5, <3>1
    <3> QED
      BY <2>1, <2>3, <3>2 DEF Immediate!Better
  <2>4. CASE w.margin = c.margin /\ w.reserve = c.reserve
    <3>1. w \in B
      BY <1>5, <2>4
    <3>2. c.quantity <= w.quantity
      BY <1>4, <3>1
    <3>3. c.quantity = w.quantity => c = w
      BY <1>5 DEF Comparable
    <3> QED
      BY <2>1, <2>4, <3>2, <3>3 DEF Immediate!Better
  <2> QED
    BY <2>1, <2>2, <2>3, <2>4
<1> DEFINE IsBest(v) == v \in S /\ \A w \in S : w = v \/ Immediate!Better(v, w)
<1>7. IsBest(c)
  BY <1>5, <1>6
<1>8. IsBest(CHOOSE v : IsBest(v))
  <2> HIDE DEF IsBest
  <2> QED
    BY <1>7, Zenon
<1>9. Immediate!BestOf(S) = CHOOSE v : IsBest(v)
  BY Zenon DEF Immediate!BestOf
<1> QED
  BY <1>8, <1>9

\* What a quote reserves is the reservation at the price of the last level it uses.
LEMMA ReserveIsNatural ==
  ASSUME NEW whole, Gridded(whole), NEW depth, Supply(depth)
  PROVE  /\ Immediate!Reserve(depth, whole) \in Nat
         /\ Immediate!Reserve(depth, whole) =
              Reservation(whole, Immediate!Paid(depth, whole, Step).limit, depth.fee)
         /\ Immediate!Paid(depth, whole, Step).limit \in Price
<1> DEFINE highest == Immediate!Paid(depth, whole, Step).limit
<1>1. highest \in Price
  BY PaymentCounts DEF InPayment
<1>2. whole \in Nat /\ depth.fee \in FeePolicy
  BY GridStays DEF Supply
<1>3. Immediate!Reserve(depth, whole) = Reservation(whole, highest, depth.fee)
  BY SameCosts DEF Immediate!Reserve
<1> HIDE DEF highest
<1>4. Reservation(whole, highest, depth.fee) \in Nat
  BY <1>1, <1>2, ReservationParts
<1> QED
  BY <1>1, <1>3, <1>4 DEF highest

\* The quantity of optimal_quote is on the grid and covered by the cash.
LEMMA OptimalFits ==
  ASSUME NEW depths, Supplies(depths), Len(depths) = 2, policy \in Immediate!Policy,
         available \in 0..MaxCash
  PROVE  Affordable(depths, Immediate!OptimalQuantity(depths))
<1> DEFINE limits == [available |-> available, minimum |-> policy.min_margin]
           V(q) == Immediate!Priced(depths, q, Step, PriceScale)
           funded == Immediate!Funded(depths, Immediate!Grid, Step, PriceScale, available)
           found == Immediate!Candidates(depths, Immediate!Grid, Step, PriceScale, limits)
           most == policy.cap * PriceScale
<1>1. /\ policy.cap \in Nat /\ policy.min_margin \in Nat /\ PriceScale \in Nat
      /\ Step \in Nat \ {0} /\ MaxCash \in Nat
  BY FillConstants DEF Immediate!Policy
<1>2. \A v \in found : \E q \in funded : v = V(q) /\ v.margin > policy.min_margin
  BY DEF Immediate!Candidates
<1>3. \A q \in funded : q \in Immediate!Grid /\ V(q).reserve <= available
  BY DEF Immediate!Funded, Immediate!Offered
<1>4. \A q \in Immediate!Grid : q \in 1..policy.cap /\ (q % Step) = 0
  BY DEF Immediate!Grid
<1> HIDE DEF funded, found, limits, V
<1>5. ASSUME NEW q \in funded
      PROVE  /\ Gridded(q) /\ q \in 1..policy.cap
             /\ V(q).quantity = q /\ V(q).reserve \in Nat
             /\ V(q).margin \in Int /\ V(q).margin <= most
             /\ Immediate!Fits(depths, q)
  <2>1. q \in 1..policy.cap /\ (q % Step) = 0 /\ V(q).reserve <= available
    BY <1>3, <1>4
  <2>2. Gridded(q)
    <3> DEFINE k == q \div Step
    <3>1. q \in Nat
      BY <2>1, <1>1
    <3>2. k \in Nat /\ q = Step * k + (q % Step)
      BY <1>1, <3>1, DivMod
    <3> HIDE DEF k
    <3>3. q = k * Step
      BY <1>1, <2>1, <3>1, <3>2
    <3> QED
      BY <3>2, <3>3 DEF Gridded
  <2> DEFINE r1 == Immediate!Reserve(depths[1], q)
             r2 == Immediate!Reserve(depths[2], q)
             d1 == Immediate!Paid(depths[1], q, Step).debit
             d2 == Immediate!Paid(depths[2], q, Step).debit
  <2>3. /\ V(q).quantity = q /\ V(q).reserve = 0 + r1 + r2
        /\ V(q).margin = q * PriceScale - (0 + d1 + d2)
    BY PricedOfTwo DEF V
  <2>4. /\ r1 \in Nat /\ r2 \in Nat
        /\ r1 = Reservation(q, Immediate!Paid(depths[1], q, Step).limit, depths[1].fee)
        /\ r2 = Reservation(q, Immediate!Paid(depths[2], q, Step).limit, depths[2].fee)
    BY <2>2, ReserveIsNatural DEF Supplies
  <2>5. r1 <= MaxCash /\ r2 <= MaxCash
    <3> HIDE DEF r1, r2
    <3> QED
      BY <1>1, <2>1, <2>3, <2>4
  <2>6. d1 \in Nat /\ d2 \in Nat
    BY <2>2, <2>4, <2>5, QuoteIsCovered DEF Supplies
  <2>7. Immediate!Fits(depths, q)
    <3>1. Immediate!Needed(depths, q) = r1 + r2
      BY DEF Immediate!Needed
    <3> HIDE DEF r1, r2
    <3> QED
      BY <2>1, <2>3, <2>4, <3>1 DEF Immediate!Fits
  <2> HIDE DEF r1, r2, d1, d2
  <2>8. q * PriceScale \in Nat /\ q * PriceScale <= most /\ most \in Nat
    BY <1>1, <2>1
  <2> DEFINE worth == q * PriceScale
  <2>9. V(q).margin = worth - (0 + d1 + d2) /\ worth \in Nat /\ worth <= most
    BY <2>3, <2>8
  <2> HIDE DEF most, worth
  <2>10. V(q).margin \in Int /\ V(q).margin <= most
    BY <2>6, <2>8, <2>9
  <2>11. V(q).reserve \in Nat /\ V(q).quantity = q
    BY <2>3, <2>4
  <2> QED
    BY <2>1, <2>2, <2>7, <2>10, <2>11
<1>6. CASE found = {}
  BY <1>6 DEF Immediate!OptimalQuantity, Immediate!QuantityOf, found, limits, Affordable
<1>7. CASE found # {}
  <2>1. most \in Nat
    BY <1>1
  <2> HIDE DEF most
  <2>2. Comparable(found, most)
    <3>1. ASSUME NEW v \in found
          PROVE  v.margin \in 0..most /\ v.reserve \in Nat /\ v.quantity \in Nat
      <4>1. PICK q \in funded : v = V(q) /\ v.margin > policy.min_margin
        BY <1>2
      <4> QED
        BY <1>1, <1>5, <2>1, <4>1
    <3>2. ASSUME NEW v \in found, NEW w \in found, v.quantity = w.quantity PROVE v = w
      <4>1. PICK q \in funded : v = V(q)
        BY <1>2
      <4>2. PICK r \in funded : w = V(r)
        BY <1>2
      <4>3. q = r
        BY <1>5, <3>2, <4>1, <4>2
      <4> QED
        BY <4>1, <4>2, <4>3
    <3> QED
      BY <3>1, <3>2 DEF Comparable
  <2>3. Immediate!BestOf(found) \in found
    BY <1>7, <2>1, <2>2, BestExists
  <2>4. PICK q \in funded : Immediate!BestOf(found) = V(q)
    BY <1>2, <2>3
  <2>5. Immediate!OptimalQuantity(depths) = q
    <3>1. Immediate!OptimalQuantity(depths) = Immediate!QuantityOf(found)
      BY DEF Immediate!OptimalQuantity, found, limits
    <3>2. Immediate!QuantityOf(found) = Immediate!BestOf(found).quantity
      BY <1>7 DEF Immediate!QuantityOf
    <3> QED
      BY <1>5, <2>4, <3>1, <3>2
  <2> QED
    BY <1>5, <2>5 DEF Affordable, Funds
<1> QED
  BY <1>6, <1>7

\* Whichever way it is looked for.
LEMMA QuantityFits ==
  ASSUME NEW depths, Supplies(depths), Len(depths) = 2, policy \in Immediate!Policy,
         available \in 0..MaxCash
  PROVE  Affordable(depths, Immediate!Quantity(depths))
  BY LegacyFits, OptimalFits DEF Immediate!Quantity

-----------------------------------------------------------------------------
(* Orders arrive in their order.                                             *)

\* The study's sums are these sums.
LEMMA SameSets ==
  /\ \A S : Immediate!IsFiniteSet(S) = IsFiniteSet(S)
  /\ \A S : Immediate!Cardinality(S) = Cardinality(S)
  /\ \A f : Immediate!SumOf(f) = SumOf(f)
<1>1. \A S : Immediate!IsFiniteSet(S) = IsFiniteSet(S)
  BY DEF Immediate!IsFiniteSet, IsFiniteSet
<1>2. \A S : Immediate!Cardinality(S) = Cardinality(S)
  BY <1>1, Zenon DEF Immediate!Cardinality, Cardinality
<1>3. \A f : Immediate!SumOf(f) = SumOf(f)
  BY <1>2 DEF Immediate!SumOf, SumOf, Immediate!Units, Units
<1> QED
  BY <1>1, <1>2, <1>3

\* The times of a study: no book was updated later than now, and none after the arrival
\* of an order that is still pending.
StudyTimes ==
  /\ policy \in Policies /\ now \in Nat
  /\ last_update \in [Immediate!Market -> Int]
  /\ \A m \in Immediate!Market : last_update[m] <= now
  /\ deciding \subseteq Constraint
  /\ \A o \in pending :
       /\ o.arrival \in Nat /\ o.attempt \in Nat /\ o.leg \in Immediate!Leg
       /\ \A m \in Immediate!Market : last_update[m] <= o.arrival

\* There is a first order.
LEMMA FirstExists ==
  ASSUME pending # {}, \A o \in pending : o.arrival \in Nat /\ o.attempt \in Nat /\ o.leg \in Nat
  PROVE  Immediate!First \in pending /\ Immediate!IsFirst(Immediate!First)
<1> DEFINE Arrivals == {o.arrival : o \in pending}
<1>1. PICK e \in pending : \A o \in pending : e.arrival <= o.arrival
  <2>1. Arrivals \in SUBSET Nat /\ Arrivals # {}
    OBVIOUS
  <2>2. PICK x \in Arrivals : \A y \in Arrivals : x <= y
    <3> HIDE DEF Arrivals
    <3> QED
      BY <2>1, LeastNatural
  <2>3. PICK g \in pending : x = g.arrival
    BY <2>2
  <2> QED
    BY <2>2, <2>3
<1> DEFINE A == {o \in pending : o.arrival = e.arrival}
           Attempts == {o.attempt : o \in A}
<1>2. PICK g \in A : \A o \in A : g.attempt <= o.attempt
  <2>1. Attempts \in SUBSET Nat /\ Attempts # {}
    BY <1>1
  <2>2. PICK x \in Attempts : \A y \in Attempts : x <= y
    <3> HIDE DEF Attempts
    <3> QED
      BY <2>1, LeastNatural
  <2>3. PICK c \in A : x = c.attempt
    BY <2>2
  <2>4. \A o \in A : o.attempt \in Attempts
    OBVIOUS
  <2> HIDE DEF A, Attempts
  <2> QED
    BY <2>2, <2>3, <2>4
<1> DEFINE B == {o \in A : o.attempt = g.attempt}
           Sides == {o.leg : o \in B}
<1>3. PICK c \in B : \A o \in B : c.leg <= o.leg
  <2>1. Sides \in SUBSET Nat /\ Sides # {}
    BY <1>2
  <2>2. PICK x \in Sides : \A y \in Sides : x <= y
    <3> HIDE DEF Sides
    <3> QED
      BY <2>1, LeastNatural
  <2>3. PICK d \in B : x = d.leg
    BY <2>2
  <2>4. \A o \in B : o.leg \in Sides
    OBVIOUS
  <2> HIDE DEF B, Sides
  <2> QED
    BY <2>2, <2>3, <2>4
<1>4. c \in pending /\ c.arrival = e.arrival /\ c.attempt = g.attempt
  OBVIOUS
<1>5. ASSUME NEW o \in pending PROVE Immediate!Earlier(c, o)
  <2>1. /\ c.arrival \in Nat /\ o.arrival \in Nat /\ c.attempt \in Nat /\ o.attempt \in Nat
        /\ c.arrival <= o.arrival
    BY <1>1, <1>4
  <2>2. o.arrival = c.arrival => c.attempt <= o.attempt
    BY <1>2, <1>4
  <2>3. o.arrival = c.arrival /\ o.attempt = c.attempt => c.leg <= o.leg
    BY <1>3, <1>4
  <2> QED
    BY <2>1, <2>2, <2>3 DEF Immediate!Earlier
<1>6. c \in pending /\ Immediate!IsFirst(c)
  BY <1>4, <1>5 DEF Immediate!IsFirst
<1> DEFINE Firsts(p) == p \in pending /\ Immediate!IsFirst(p)
<1>7. Firsts(CHOOSE p : Firsts(p))
  <2>1. Firsts(c)
    BY <1>6
  <2> HIDE DEF Firsts
  <2> QED
    BY <2>1, Zenon
<1>8. Immediate!First = CHOOSE p : Firsts(p)
  BY Zenon DEF Immediate!First
<1> QED
  BY <1>7, <1>8

\* No order arrives before the first.
LEMMA FirstIsEarliest ==
  ASSUME StudyTimes, NEW p \in pending, Immediate!IsFirst(p)
  PROVE  \A o \in pending : p.arrival <= o.arrival
  BY DEF StudyTimes, Immediate!IsFirst, Immediate!Earlier

\* Orders that are not due arrive now or later.
LEMMA NotDue ==
  ASSUME StudyTimes, ~Immediate!Due, NEW o \in pending
  PROVE  now <= o.arrival
<1>1. Immediate!First \in pending /\ Immediate!IsFirst(Immediate!First)
  <2>1. \A p \in pending : p.arrival \in Nat /\ p.attempt \in Nat /\ p.leg \in Nat
    BY DEF StudyTimes, Immediate!Leg
  <2> QED
    BY <2>1, FirstExists
<1>2. Immediate!First.arrival <= o.arrival /\ ~(Immediate!First.arrival < now)
  BY <1>1, FirstIsEarliest DEF Immediate!Due
<1>3. Immediate!First.arrival \in Nat /\ now \in Nat /\ o.arrival \in Nat
  BY <1>1 DEF StudyTimes
<1> HIDE DEF Immediate!First
<1> QED
  BY <1>2, <1>3

\* The times of a study fit at first.
LEMMA StudyTimesInit == Immediate!StudyConstants /\ Immediate!Init => StudyTimes
<1> SUFFICES ASSUME Immediate!StudyConstants, Immediate!Init PROVE StudyTimes
  OBVIOUS
<1> QED
  BY DEF Immediate!Init, StudyTimes

\* Orders are placed for later.
LEMMA PlacedLater ==
  ASSUME Immediate!StudyConstants, StudyTimes, NEW c \in Constraint, NEW depths, NEW quantity,
         Immediate!Place(c, depths, quantity)
  PROVE  \A o \in pending' :
           /\ o.arrival \in Nat /\ o.attempt \in Nat /\ o.leg \in Immediate!Leg
           /\ \A m \in Immediate!Market : last_update[m] <= o.arrival
<1>1. CASE quantity = 0
  BY <1>1 DEF Immediate!Place, StudyTimes
<1>2. CASE quantity # 0
  <2>1. ASSUME NEW o \in pending' \ pending
        PROVE  /\ o.arrival \in Nat /\ o.attempt \in Nat /\ o.leg \in Immediate!Leg
               /\ \A m \in Immediate!Market : last_update[m] <= o.arrival
    <3> DEFINE number == Cardinality({d \in Constraint : attempts[d] # Immediate!NoAttempt})
    <3>1. PICK leg \in Immediate!Leg :
            o = [arrival |-> now + policy.latency[leg], constraint |-> c, leg |-> leg,
                 attempt |-> number]
      BY <1>2, <2>1, SameSets DEF Immediate!Place
    <3>2. number \in Nat
      <4> DEFINE placed == {d \in Constraint : attempts[d] # Immediate!NoAttempt}
      <4>1. placed \subseteq Constraint /\ IsFiniteSet(Constraint)
        BY SameSets DEF Immediate!StudyConstants
      <4> HIDE DEF placed
      <4>2. IsFiniteSet(placed)
        BY <4>1, FS_Subset
      <4>3. Cardinality(placed) \in Nat
        BY <4>2, FS_CardinalityType
      <4> QED
        BY <4>3 DEF placed
    <3>3. policy.latency[leg] \in Nat
      <4>1. policy.latency \in Nat \X Nat
        BY DEF StudyTimes, Immediate!StudyConstants, Immediate!Policy
      <4> QED
        BY <4>1 DEF Immediate!Leg
    <3> HIDE DEF number
    <3>4. o.arrival = now + policy.latency[leg] /\ o.attempt = number /\ o.leg = leg
      BY <3>1
    <3>5. \A m \in Immediate!Market : last_update[m] \in Int /\ last_update[m] <= now
      BY DEF StudyTimes
    <3> QED
      BY <3>2, <3>3, <3>4, <3>5 DEF StudyTimes
  <2> QED
    BY <2>1 DEF StudyTimes
<1> QED
  BY <1>1, <1>2

\* No step disturbs them: frames move forward, and orders due before one go first.
LEMMA StudyTimesStep ==
  Immediate!StudyConstants /\ StudyTimes /\ [Immediate!Next]_Immediate!vars => StudyTimes'
<1> SUFFICES ASSUME Immediate!StudyConstants, StudyTimes, [Immediate!Next]_Immediate!vars
             PROVE StudyTimes'
  OBVIOUS
<1>1. CASE UNCHANGED <<policy, now, last_update, deciding, pending>>
  BY <1>1 DEF StudyTimes
<1>2. CASE Immediate!Before \/ Immediate!Finish
  <2>1. /\ now' \in now..MaxTime /\ MaxTime \in Nat
        /\ UNCHANGED <<policy, last_update, deciding, pending>>
    BY <1>2 DEF Immediate!Before, Immediate!Finish, Immediate!state, Immediate!ledger,
                Immediate!StudyConstants
  <2>2. now' \in Nat /\ now <= now'
    BY <2>1 DEF StudyTimes
  <2> QED
    BY <2>1, <2>2 DEF StudyTimes
<1>3. CASE Immediate!Apply
  <2>1. PICK m \in Immediate!Market :
          /\ last_update' = [last_update EXCEPT ![m] = now]
          /\ deciding' \subseteq Constraint
          /\ UNCHANGED <<policy, now, pending>> /\ ~Immediate!Due
    BY <1>3 DEF Immediate!Apply, Immediate!Running, Immediate!ledger
  <2>2. \A o \in pending : now <= o.arrival
    BY <2>1, NotDue
  <2> QED
    BY <2>1, <2>2 DEF StudyTimes
<1>4. CASE Immediate!Control
  BY <1>1, <1>4 DEF Immediate!Control, Immediate!ledger
<1>5. CASE Immediate!Decide
  <2>1. PICK c, depths, quantity :
          /\ c \in deciding
          /\ deciding' = deciding \ {c}
          /\ Immediate!Place(c, depths, quantity)
    BY <1>5 DEF Immediate!Decide
  <2>2. UNCHANGED <<policy, now, last_update>>
    BY <1>5 DEF Immediate!Decide, Immediate!state
  <2>3. c \in Constraint /\ deciding' \subseteq Constraint
    BY <2>1 DEF StudyTimes
  <2> QED
    BY <2>1, <2>2, <2>3, PlacedLater DEF StudyTimes
<1>6. CASE Immediate!Arrive \/ Immediate!Release
  <2>1. pending' \subseteq pending /\ UNCHANGED <<policy, now, last_update, deciding>>
    BY <1>6 DEF Immediate!Arrive, Immediate!Release, Immediate!state
  <2> QED
    BY <2>1 DEF StudyTimes
<1>7. CASE UNCHANGED Immediate!vars
  BY <1>1, <1>7 DEF Immediate!vars, Immediate!state, Immediate!ledger
<1> QED
  BY <1>2, <1>3, <1>4, <1>5, <1>6, <1>7 DEF Immediate!Next

\* They fit in every state.
LEMMA StudyTimesHold == Immediate!StudyConstants => (Immediate!Spec => []StudyTimes)
<1> SUFFICES ASSUME Immediate!StudyConstants PROVE Immediate!Spec => []StudyTimes
  OBVIOUS
<1>1. Immediate!Init => StudyTimes
  BY StudyTimesInit
<1>2. StudyTimes /\ [Immediate!Next]_Immediate!vars => StudyTimes'
  BY StudyTimesStep
<1> QED
  BY <1>1, <1>2, PTL DEF Immediate!Spec

\* Whatever the latencies, and however constraints and frames fall on the same
\* moments, an order is executed on the books as of its arrival: after every frame of
\* that time and earlier ones, and before any later one.
ArrivesInTime ==
  \A o \in pending \ pending' :
    phase = "before" =>
      o.arrival < now /\ \A m \in Immediate!Market : last_update[m] <= o.arrival

\* A step that removes an order before a frame finds no update after its arrival.
LEMMA ArrivalStep ==
  ASSUME Immediate!StudyConstants, StudyTimes, [Immediate!Next]_Immediate!vars
  PROVE  ArrivesInTime
<1> SUFFICES ASSUME NEW gone \in pending \ pending', phase = "before"
             PROVE  /\ gone.arrival < now
                    /\ \A m \in Immediate!Market : last_update[m] <= gone.arrival
  BY DEF ArrivesInTime
<1>1. CASE UNCHANGED pending
  BY <1>1
<1>2. CASE Immediate!Arrive
  <2>1. PICK o \in pending : Immediate!IsFirst(o) /\ pending' = pending \ {o} /\ Immediate!Due
    BY <1>2 DEF Immediate!Arrive
  <2>2. gone = o
    BY <2>1
  <2>3. Immediate!First.arrival < now /\ Immediate!First \in pending
    <3>1. \A p \in pending : p.arrival \in Nat /\ p.attempt \in Nat /\ p.leg \in Nat
      BY DEF StudyTimes, Immediate!Leg
    <3>2. Immediate!First \in pending
      BY <2>1, <3>1, FirstExists
    <3>3. Immediate!First.arrival < now
      BY <2>1 DEF Immediate!Due
    <3> QED
      BY <3>2, <3>3
  <2>4. o.arrival <= Immediate!First.arrival
    BY <2>1, <2>3, FirstIsEarliest
  <2>5. o.arrival \in Nat /\ Immediate!First.arrival \in Nat /\ now \in Nat
    BY <2>1, <2>3 DEF StudyTimes
  <2>6. o.arrival < now
    <3> HIDE DEF Immediate!First
    <3> QED
      BY <2>3, <2>4, <2>5
  <2> QED
    BY <2>2, <2>6 DEF StudyTimes
<1>3. CASE Immediate!Release
  BY <1>3 DEF Immediate!Release
<1>4. CASE Immediate!Decide
  <2>1. pending \subseteq pending'
    BY <1>4 DEF Immediate!Decide, Immediate!Place
  <2> QED
    BY <2>1
<1> QED
  BY <1>1, <1>2, <1>3, <1>4
     DEF Immediate!Next, Immediate!Before, Immediate!Apply, Immediate!Control, Immediate!Finish,
         Immediate!ledger, Immediate!vars

\* An order is executed on the books as of its arrival (after and before_gateway
\* in execution_study.cpp).
THEOREM OrdersArriveInTime ==
  Immediate!StudyConstants => (Immediate!Spec => Immediate!ExecutedAtArrival)
<1> SUFFICES ASSUME Immediate!StudyConstants PROVE Immediate!Spec => Immediate!ExecutedAtArrival
  OBVIOUS
<1>1. StudyTimes /\ [Immediate!Next]_Immediate!vars => [ArrivesInTime]_Immediate!vars
  BY ArrivalStep
<1>2. Immediate!Spec => []StudyTimes
  BY StudyTimesHold
<1>3. Immediate!Spec => [][ArrivesInTime]_Immediate!vars
  BY <1>1, <1>2, PTL DEF Immediate!Spec
<1>4. Immediate!ExecutedAtArrival <=> [][ArrivesInTime]_Immediate!vars
  BY DEF Immediate!ExecutedAtArrival, ArrivesInTime
<1> QED
  BY <1>3, <1>4

-----------------------------------------------------------------------------
(* What is left of a book is a supply, and no more than the book shows.      *)

\* Levels from the cheapest, no two at the same price.
Climbing(levels) ==
  /\ levels \in Seq(Immediate!Level)
  /\ \A i \in 2..Len(levels) : levels[i - 1].price < levels[i].price

\* What a market may show.
ShownBook == [yes : Seq(Immediate!Level), no : Seq(Immediate!Level), valid : BOOLEAN]

\* Books climb, and what was taken is counted in natural numbers.
StudyBooks ==
  /\ policy \in Policies
  /\ book \in [Immediate!Market -> ShownBook]
  /\ \A m \in Immediate!Market, o \in {"yes", "no"} : Climbing(book[m][o])
  /\ \A key \in DOMAIN consumed : consumed[key] \in Nat

\* What was taken from a level is a natural number.
LEMMA UsedIsNatural ==
  ASSUME StudyBooks, NEW key
  PROVE  Immediate!Used(key) \in Nat
  BY DEF StudyBooks, Immediate!Used

\* A level has no more left than it shows beyond what was taken.
LEMMA UnusedFits ==
  ASSUME StudyBooks, NEW leg, NEW level \in Immediate!Level
  PROVE  /\ Immediate!Unused(leg, level) \in Nat
         /\ Immediate!Unused(leg, level) # 0 =>
              Immediate!Unused(leg, level) + Immediate!Used(Immediate!Key(leg, level.price))
                = level.quantity
<1> DEFINE used == Immediate!Used(Immediate!Key(leg, level.price))
<1>1. used \in Nat /\ level.quantity \in Nat
  BY UsedIsNatural DEF Immediate!Level
<1>2. Immediate!Unused(leg, level) = IF level.quantity > used THEN level.quantity - used ELSE 0
  BY DEF Immediate!Unused, Immediate!Minus
<1> HIDE DEF used
<1> QED
  BY <1>1, <1>2 DEF used

\* Basis points.
BasisPoints == 0..10000

\* What an order may use of a level is within its limit and no more than is left.
LEMMA LeftAtFits ==
  ASSUME StudyBooks, NEW leg, NEW level \in Immediate!Level, NEW within \in Price,
         NEW bps \in BasisPoints
  PROVE  LET rest == Immediate!LeftAt(leg, level, within, bps)
         IN  /\ rest \in Immediate!Level /\ rest.price = level.price
             /\ rest.quantity = 0 \/ rest.price <= within
             /\ rest.quantity <= Immediate!Unused(leg, level)
<1> DEFINE unused == Immediate!Unused(leg, level)
           part == (unused * bps) \div 10000
           rest == Immediate!LeftAt(leg, level, within, bps)
<1>1. unused \in Nat
  BY UnusedFits
<1> HIDE DEF unused
<1>2. part \in Nat /\ part <= unused
  <2> DEFINE y == unused * bps
  <2>1. y \in Nat /\ y <= unused * 10000
    BY <1>1 DEF BasisPoints
  <2> HIDE DEF y
  <2> DEFINE k == y \div 10000
  <2>2. k \in Nat /\ k * 10000 <= y
    BY <2>1, DivBelow
  <2> HIDE DEF k
  <2>3. k \in Nat /\ k <= unused
    BY <1>1, <2>1, <2>2
  <2> QED
    BY <2>3 DEF k, y
<1>3. rest = [price |-> level.price, quantity |-> IF level.price <= within THEN part ELSE 0]
  BY DEF Immediate!LeftAt, Immediate!Within, unused
<1> HIDE DEF part, rest
<1>4. level.price \in Immediate!Price
  BY DEF Immediate!Level
<1>5. rest.price = level.price /\ rest.quantity = IF level.price <= within THEN part ELSE 0
  BY <1>3
<1>6. rest.quantity \in Nat /\ rest.quantity <= unused /\ (rest.quantity = 0 \/ level.price <= within)
  BY <1>1, <1>2, <1>5
<1>7. rest \in Immediate!Level
  BY <1>3, <1>4, <1>5, <1>6 DEF Immediate!Level
<1> QED
  BY <1>5, <1>6, <1>7 DEF rest, unused

\* The levels of a leg, in the study.
LegFits(leg) == leg.market \in Immediate!Market /\ leg.outcome \in {"yes", "no"}

\* What an order may use of a book is a supply, level by level within what is left.
LEMMA LeftFits ==
  ASSUME Immediate!StudyConstants, StudyBooks, NEW leg, LegFits(leg), NEW within \in Price,
         NEW bps \in BasisPoints
  PROVE  LET rest == Immediate!Left(leg, within, bps)
             levels == book[leg.market][leg.outcome]
         IN  /\ Supply(rest) /\ rest.fee = FeeOf[leg.market]
             /\ Climbing(levels) /\ Len(rest.levels) = Len(levels)
             /\ \A i \in 1..Len(levels) :
                  /\ rest.levels[i] \in Immediate!Level
                  /\ rest.levels[i].price = levels[i].price
                  /\ rest.levels[i].quantity = 0 \/ rest.levels[i].price <= within
                  /\ rest.levels[i].quantity <= Immediate!Unused(leg, levels[i])
<1> DEFINE levels == book[leg.market][leg.outcome]
           n == Len(levels)
           at == [i \in 1..n |-> Immediate!LeftAt(leg, levels[i], within, bps)]
<1>1. Climbing(levels)
  BY DEF StudyBooks, LegFits
<1> HIDE DEF levels
<1>2. n \in Nat /\ DOMAIN levels = 1..n /\ \A i \in 1..n : levels[i] \in Immediate!Level
  BY <1>1 DEF Climbing
<1>3. Immediate!Left(leg, within, bps) = [fee |-> FeeOf[leg.market], levels |-> at]
  BY <1>2 DEF Immediate!Left, levels
<1>4. \A i \in 1..n :
        /\ at[i] \in Immediate!Level /\ at[i].price = levels[i].price
        /\ at[i].quantity = 0 \/ at[i].price <= within
        /\ at[i].quantity <= Immediate!Unused(leg, levels[i])
  <2> TAKE i \in 1..n
  <2> DEFINE l == levels[i]
  <2>1. l \in Immediate!Level
    BY <1>2
  <2> HIDE DEF l
  <2>2. LET rest == Immediate!LeftAt(leg, l, within, bps)
        IN  /\ rest \in Immediate!Level /\ rest.price = l.price
            /\ rest.quantity = 0 \/ rest.price <= within
            /\ rest.quantity <= Immediate!Unused(leg, l)
    BY <2>1, LeftAtFits
  <2>3. at[i] = Immediate!LeftAt(leg, l, within, bps)
    BY DEF l
  <2> HIDE DEF at
  <2> QED
    BY <2>2, <2>3 DEF l
<1>5. at \in Seq(Immediate!Level) /\ Len(at) = n
  <2>1. at \in [1..n -> Immediate!Level]
    BY <1>4
  <2> HIDE DEF at
  <2> QED
    BY <1>2, <2>1
<1>6. FeeOf[leg.market] \in FeePolicy
  BY FillConstants DEF Immediate!StudyConstants, LegFits
<1>7. \A i \in 2..n : at[i - 1].price < at[i].price
  <2> SUFFICES ASSUME NEW i \in 2..n PROVE at[i - 1].price < at[i].price
    OBVIOUS
  <2>1. i \in 1..n /\ i - 1 \in 1..n
    BY <1>2
  <2>2. levels[i - 1].price < levels[i].price
    BY <1>1 DEF Climbing
  <2> HIDE DEF at
  <2>3. at[i - 1].price = levels[i - 1].price /\ at[i].price = levels[i].price
    BY <1>4, <2>1
  <2> QED
    BY <2>2, <2>3
<1> HIDE DEF at
<1> QED
  BY <1>1, <1>3, <1>4, <1>5, <1>6, <1>7 DEF Supply, levels

\* Both legs of a constraint.
LEMMA DepthSupplies ==
  ASSUME Immediate!StudyConstants, StudyBooks, NEW c \in Constraint
  PROVE  /\ Supplies(Immediate!Depth(c)) /\ Len(Immediate!Depth(c)) = 2
         /\ \A leg \in Immediate!Leg : /\ Supply(Immediate!Depth(c)[leg])
                                       /\ Immediate!Depth(c)[leg].fee = FeeOf[LegsOf[c][leg].market]
<1> DEFINE at == [leg \in Immediate!Leg |-> Immediate!Left(LegsOf[c][leg], PriceScale, 10000)]
<1>1. PriceScale \in Price /\ 10000 \in BasisPoints
  BY FillConstants DEF Price, BasisPoints
<1>2. ASSUME NEW leg \in Immediate!Leg
      PROVE  /\ LegFits(LegsOf[c][leg])
             /\ Supply(at[leg]) /\ at[leg].fee = FeeOf[LegsOf[c][leg].market]
  <2>1. LegFits(LegsOf[c][leg])
    BY DEF Immediate!StudyConstants, LegFits, Immediate!Market
  <2> QED
    BY <1>1, <2>1, LeftFits
<1>3. Immediate!Depth(c) = at /\ Immediate!Leg = 1..2
  BY DEF Immediate!Depth, Immediate!Leg
<1>4. Len(at) = 2
  <2> DEFINE R == {at[leg] : leg \in 1..2}
             n == 2
  <2>1. at \in [1..n -> R] /\ n \in Nat
    BY <1>3
  <2> HIDE DEF at, R, n
  <2>2. Len(at) = n
    BY <2>1
  <2> QED
    BY <2>2 DEF n
<1> HIDE DEF at
<1>5. 1 \in Immediate!Leg /\ 2 \in Immediate!Leg
  BY <1>3
<1> QED
  BY <1>2, <1>3, <1>4, <1>5 DEF Supplies

\* The recursion of UpTo over the first n levels.
IsUpTo(f, n, levels, quantity) ==
  f = [i \in 0..n |->
         IF i = 0 THEN 0
         ELSE Immediate!Min2(quantity, f[i - 1] + Immediate!OnGrid(levels[i].quantity, Step))]

\* The sums of UpTo exist.
LEMMA UpToExists ==
  ASSUME NEW levels, NEW quantity
  PROVE  \A n \in Nat : \E f : IsUpTo(f, n, levels, quantity)
<1> DEFINE step(i, x) ==
             Immediate!Min2(quantity, x + Immediate!OnGrid(levels[i].quantity, Step))
           Sums(f, n) == f = [i \in 0..n |-> IF i = 0 THEN 0 ELSE step(i, f[i - 1])]
           Bad == {n \in Nat : ~(\E f : Sums(f, n))}
<1>1. Bad = {}
  <2> HIDE DEF step
  <2> SUFFICES ASSUME Bad # {} PROVE FALSE
    OBVIOUS
  <2>1. PICK m \in Bad : \A n \in Bad : m <= n
    BY LeastNatural
  <2>2. Sums([i \in 0..0 |-> 0], 0)
    OBVIOUS
  <2>3. m \in Nat /\ m # 0
    BY <2>1, <2>2
  <2>4. m - 1 \in Nat /\ m - 1 \notin Bad
    <3>1. m - 1 \in Nat /\ ~(m <= m - 1)
      BY <2>3
    <3> HIDE DEF Bad
    <3> QED
      BY <2>1, <3>1
  <2>5. PICK f : Sums(f, m - 1)
    BY <2>4
  <2> DEFINE g == [i \in 0..m |-> IF i = m THEN step(m, f[m - 1]) ELSE f[i]]
  <2>6. \A i \in 0..m : g[i] = IF i = 0 THEN 0 ELSE step(i, g[i - 1])
    <3> SUFFICES ASSUME NEW i \in 0..m PROVE g[i] = IF i = 0 THEN 0 ELSE step(i, g[i - 1])
      OBVIOUS
    <3>1. CASE i = m
      BY <2>3, <3>1
    <3>2. CASE i # m
      <4>1. i \in 0..(m - 1) /\ g[i] = f[i] /\ (i # 0 => g[i - 1] = f[i - 1])
        BY <2>3, <3>2
      <4>2. f[i] = IF i = 0 THEN 0 ELSE step(i, f[i - 1])
        BY <2>5, <4>1
      <4> QED
        BY <4>1, <4>2
    <3> QED
      BY <3>1, <3>2
  <2>7. Sums(g, m)
    <3>1. g = [i \in 0..m |-> g[i]]
      OBVIOUS
    <3> HIDE DEF g
    <3> QED
      BY <2>6, <3>1
  <2> QED
    BY <2>1, <2>7
<1> QED
  BY <1>1 DEF IsUpTo

\* No level gives more than it has.
Gives(sum, levels) ==
  \A i \in 1..Len(levels) :
    sum[i] \in Nat /\ sum[i - 1] \in Nat /\ sum[i] - sum[i - 1] \in 0..levels[i].quantity

\* Every level gives at most what it has, whatever the quantity.
LEMMA UpToGives ==
  ASSUME NEW levels \in Seq(Immediate!Level), NEW quantity \in Nat
  PROVE  Gives(Immediate!UpTo(levels, quantity), levels)
<1> DEFINE n == Len(levels)
           Sums(f) == IsUpTo(f, n, levels, quantity)
           w == CHOOSE f : Sums(f)
           grid(i) == Immediate!OnGrid(levels[i].quantity, Step)
           S == {i \in 0..n : w[i] \in 0..quantity}
<1>1. n \in Nat /\ \A i \in 1..n : levels[i] \in Immediate!Level
  OBVIOUS
<1>2. Immediate!UpTo(levels, quantity) = w
  BY Zenon DEF Immediate!UpTo, IsUpTo
<1>3. Sums(w)
  <2>1. \E f : Sums(f)
    BY <1>1, UpToExists
  <2> HIDE DEF Sums
  <2> QED
    BY <2>1, Zenon
<1> HIDE DEF w
<1>4. \A i \in 0..n : w[i] = IF i = 0 THEN 0 ELSE Immediate!Min2(quantity, w[i - 1] + grid(i))
  BY <1>3, Zenon DEF IsUpTo
<1>5. \A i \in 1..n : /\ levels[i].quantity \in Nat /\ grid(i) \in Nat
                      /\ grid(i) <= levels[i].quantity
  BY <1>1, OnTheGrid DEF Immediate!Level
<1> HIDE DEF grid
<1>6. 0 \in S
  BY <1>1, <1>4
<1>7. ASSUME NEW i \in 1..n, i - 1 \in S
      PROVE  i \in S /\ w[i] - w[i - 1] \in 0..levels[i].quantity
  <2>1. w[i] = Immediate!Min2(quantity, w[i - 1] + grid(i)) /\ w[i - 1] \in 0..quantity
    BY <1>1, <1>4, <1>7
  <2>2. w[i] = IF quantity <= w[i - 1] + grid(i) THEN quantity ELSE w[i - 1] + grid(i)
    BY <2>1 DEF Immediate!Min2
  <2>3. /\ grid(i) \in Nat /\ levels[i].quantity \in Nat /\ grid(i) <= levels[i].quantity
    BY <1>5
  <2>4. w[i] \in 0..quantity /\ w[i] - w[i - 1] \in 0..levels[i].quantity
    BY <2>1, <2>2, <2>3
  <2> QED
    BY <2>4
<1>8. \A i \in 0..n : i \in S
  <2> HIDE DEF S
  <2> QED
    BY <1>1, <1>6, <1>7, AfterPasses
<1>9. ASSUME NEW i \in 1..n
      PROVE  w[i] \in Nat /\ w[i - 1] \in Nat /\ w[i] - w[i - 1] \in 0..levels[i].quantity
  <2>1. i \in 0..n /\ i - 1 \in 0..n
    BY <1>1
  <2> QED
    BY <1>7, <1>8, <2>1
<1> QED
  BY <1>2, <1>9 DEF Gives

\* A level further down is dearer.
LEMMA DearerBelow ==
  ASSUME NEW levels, Climbing(levels), NEW i \in 1..Len(levels)
  PROVE  \A j \in 1..Len(levels) : i < j => levels[i].price < levels[j].price
<1> DEFINE n == Len(levels)
           S == {j \in 0..n : i < j => levels[i].price < levels[j].price}
<1>1. n \in Nat /\ \A j \in 1..n : levels[j].price \in Nat
  <2>1. n \in Nat /\ \A j \in 1..n : levels[j] \in Immediate!Level
    BY DEF Climbing
  <2>2. \A l \in Immediate!Level : l.price \in Nat
    BY SameCosts, FillConstants DEF Immediate!Level, Price
  <2> QED
    BY <2>1, <2>2
<1>2. 0 \in S
  BY <1>1
<1>3. ASSUME NEW j \in 1..n, j - 1 \in S PROVE j \in S
  <2>1. CASE i < j
    <3>1. j \in 2..n /\ j - 1 \in 1..n
      BY <2>1
    <3>2. levels[j - 1].price < levels[j].price
      BY <3>1 DEF Climbing
    <3>3. CASE i = j - 1
      BY <3>2, <3>3
    <3>4. CASE i < j - 1
      <4>1. levels[i].price < levels[j - 1].price
        BY <1>3, <3>4
      <4>2. /\ levels[i].price \in Nat /\ levels[j - 1].price \in Nat /\ levels[j].price \in Nat
        BY <1>1, <3>1
      <4>3. levels[i].price < levels[j].price
        BY <3>2, <4>1, <4>2
      <4> QED
        BY <4>3
    <3> QED
      BY <2>1, <3>3, <3>4
  <2> QED
    BY <2>1
<1> HIDE DEF S
<1>4. \A j \in 0..n : j \in S
  BY <1>1, <1>2, <1>3, AfterPasses
<1> QED
  BY <1>4 DEF S

\* No two levels of a book have the same price.
LEMMA OnePrice ==
  ASSUME NEW levels, Climbing(levels), NEW i \in 1..Len(levels), NEW j \in 1..Len(levels),
         levels[i].price = levels[j].price
  PROVE  i = j
<1>1. levels[i].price \in Nat
  <2>1. levels[i] \in Immediate!Level
    BY DEF Climbing
  <2> QED
    BY <2>1, SameCosts, FillConstants DEF Immediate!Level, Price
<1>2. ~(i < j)
  BY <1>1, DearerBelow
<1>3. ~(j < i)
  BY <1>1, DearerBelow
<1>4. i \in Int /\ j \in Int
  OBVIOUS
<1> QED
  BY <1>2, <1>3, <1>4

\* What an order takes from a level and what earlier ones took are together no more
\* than the level shows.
LEMMA TakenFits ==
  ASSUME Immediate!StudyConstants, StudyBooks, NEW leg, LegFits(leg), NEW within \in Price,
         NEW bps \in BasisPoints, NEW quantity \in Nat, NEW key
  PROVE  LET levels == Immediate!Left(leg, within, bps).levels
             sum    == Immediate!UpTo(levels, quantity)
             taken  == Immediate!TakenAt(leg, levels, sum, key)
         IN  /\ taken \in Nat
             /\ taken # 0 => Immediate!Used(key) + taken <= Immediate!ShownAt(key)
<1> DEFINE levels == Immediate!Left(leg, within, bps).levels
           sum == Immediate!UpTo(levels, quantity)
           shown == book[leg.market][leg.outcome]
           n == Len(shown)
           part == [i \in 1..n |-> IF Immediate!Key(leg, levels[i].price) = key
                                   THEN sum[i] - sum[i - 1] ELSE 0]
<1>1. /\ Climbing(shown) /\ Supply(Immediate!Left(leg, within, bps)) /\ Len(levels) = n
      /\ \A i \in 1..n :
           /\ levels[i].price = shown[i].price
           /\ levels[i].quantity <= Immediate!Unused(leg, shown[i])
  BY LeftFits
<1>2. levels \in Seq(Immediate!Level)
  BY <1>1 DEF Supply
<1> HIDE DEF levels, shown
<1>3. n \in Nat /\ DOMAIN levels = 1..n /\ DOMAIN shown = 1..n
      /\ \A i \in 1..n : shown[i] \in Immediate!Level /\ levels[i].quantity \in Nat
  <2>1. \A l \in Immediate!Level : l.quantity \in Nat
    BY DEF Immediate!Level
  <2>2. shown \in Seq(Immediate!Level)
    BY <1>1 DEF Climbing
  <2> QED
    BY <1>1, <1>2, <2>1, <2>2
<1>4. Gives(sum, levels)
  BY <1>2, UpToGives
<1> HIDE DEF sum
<1>5. \A i \in 1..n : sum[i] - sum[i - 1] \in Nat /\ sum[i] - sum[i - 1] <= levels[i].quantity
  BY <1>1, <1>3, <1>4 DEF Gives
<1> HIDE DEF n
<1>6. part \in [1..n -> Nat]
  BY <1>5
<1>7. Immediate!TakenAt(leg, levels, sum, key) = SumOf(part)
  BY <1>3, SameSets DEF Immediate!TakenAt
<1>8. SumOf(part) \in Nat
  <2>1. IsFiniteSet(1..n)
    BY <1>3, FS_Interval
  <2> HIDE DEF part
  <2> QED
    BY <1>6, <2>1, SumIsNatural
<1>9. ASSUME SumOf(part) # 0
      PROVE  Immediate!Used(key) + SumOf(part) <= Immediate!ShownAt(key)
  <2>1. PICK i \in 1..n : part[i] # 0
    <3> HIDE DEF part
    <3>1. DOMAIN part = 1..n
      BY <1>6
    <3> QED
      BY <1>9, <3>1, SumOfZeros
  <2>2. Immediate!Key(leg, shown[i].price) = key /\ part[i] = sum[i] - sum[i - 1]
    BY <1>1, <2>1 DEF n
  <2>3. key[1] = leg.market /\ key[2] = leg.outcome /\ key[3] = shown[i].price
    BY <2>2 DEF Immediate!Key
  <2>4. \A j \in 1..n : shown[j].price = key[3] => j = i
    BY <1>1, <2>3, OnePrice DEF n
  <2>5. SumOf(part) = part[i]
    <3> DEFINE one == [j \in {i} |-> part[i]]
    <3>1. \A j \in 1..n : j # i => part[j] = 0
      <4> SUFFICES ASSUME NEW j \in 1..n, j # i PROVE part[j] = 0
        OBVIOUS
      <4>1. levels[j].price # key[3]
        BY <1>1, <2>4 DEF n
      <4>2. Immediate!Key(leg, levels[j].price) # key
        BY <4>1 DEF Immediate!Key
      <4> QED
        BY <4>2
    <3>2. part[i] \in Nat
      BY <1>6
    <3> HIDE DEF part
    <3>3. SumOf(one) = part[i]
      BY <3>2, SumOfOne
    <3>4. SumOf(part) = SumOf(one)
      <4>1. DOMAIN one = {i} /\ DOMAIN part = 1..n /\ one[i] = part[i]
        BY <1>6
      <4> HIDE DEF one
      <4> QED
        BY <3>1, <4>1, SumWithZeros
    <3> QED
      BY <3>3, <3>4
  <2>6. Immediate!ShownAt(key) = shown[i].quantity
    <3> DEFINE at == {j \in DOMAIN shown : shown[j].price = key[3]}
    <3>1. at = {i}
      BY <1>3, <2>3, <2>4
    <3>2. Immediate!ShownAt(key) =
            IF at = {} THEN 0 ELSE shown[CHOOSE j \in at : TRUE].quantity
      BY <2>3 DEF Immediate!ShownAt, shown
    <3> HIDE DEF at
    <3>3. (CHOOSE j \in at : TRUE) = i
      BY <3>1
    <3> QED
      BY <3>1, <3>2, <3>3
  <2>7. /\ part[i] \in Nat /\ part[i] <= levels[i].quantity
        /\ levels[i].quantity \in Nat
        /\ levels[i].quantity <= Immediate!Unused(leg, shown[i])
    BY <1>1, <1>3, <1>5, <2>2 DEF n
  <2>8. /\ Immediate!Unused(leg, shown[i]) \in Nat
        /\ Immediate!Unused(leg, shown[i]) # 0 =>
             Immediate!Unused(leg, shown[i]) + Immediate!Used(key) = shown[i].quantity
    BY <1>3, <2>2, UnusedFits
  <2>9. Immediate!Used(key) \in Nat
    BY UsedIsNatural
  <2> HIDE DEF part
  <2>10. Immediate!Used(key) + part[i] <= shown[i].quantity
    BY <2>1, <2>7, <2>8, <2>9
  <2> QED
    BY <2>5, <2>6, <2>10
<1> QED
  BY <1>7, <1>8, <1>9 DEF sum, levels

-----------------------------------------------------------------------------
(* The ledger of a study.                                                    *)

\* Constraints with an attempt.
Placed(c) == attempts[c] # Immediate!NoAttempt

\* What was granted to an attempt covers its orders at their limits.
Granted(c) ==
  /\ Gridded(attempts[c].quantity)
  /\ \A leg \in Immediate!Leg :
       /\ attempts[c].limit[leg] \in Price
       /\ attempts[c].reserve[leg] \in 0..MaxCash
       /\ attempts[c].reserve[leg] =
            Reservation(attempts[c].quantity, attempts[c].limit[leg],
                        FeeOf[LegsOf[c][leg].market])

\* The ledger: every pending order belongs to an attempt that was reserved for, and cash
\* is available, spent or reserved; so the check on the debit never fails.
StudyLedger ==
  /\ policy \in Policies
  /\ DOMAIN attempts = Constraint
  /\ \A c \in Constraint : Placed(c) => Granted(c)
  /\ deciding \subseteq Constraint /\ \A c \in deciding : ~Placed(c)
  /\ IsFiniteSet(pending)
  /\ \A o \in pending : o.constraint \in Constraint /\ o.leg \in Immediate!Leg /\ Placed(o.constraint)
  /\ available \in Nat /\ spent \in Nat
  /\ available + spent + Immediate!Reserved(pending) = policy.capital
  /\ ~failed
  /\ phase = "done" => pending = {}

\* The inductive invariant of books and ledger.
StudyHolds == StudyBooks /\ StudyLedger

\* What is reserved for each of some orders.
ReservesOf(orders) == [o \in orders |-> Immediate!ReserveOf(o)]

\* What is reserved and what is available are natural numbers, within a word.
LEMMA ReservedFits ==
  ASSUME StudyLedger, Immediate!StudyConstants
  PROVE  /\ ReservesOf(pending) \in [pending -> Nat]
         /\ Immediate!Reserved(pending) = SumOf(ReservesOf(pending))
         /\ Immediate!Reserved(pending) \in Nat
         /\ available \in 0..MaxCash
<1>1. ASSUME NEW o \in pending PROVE Immediate!ReserveOf(o) \in Nat
  <2>1. o.constraint \in Constraint /\ o.leg \in Immediate!Leg /\ Granted(o.constraint)
    BY DEF StudyLedger
  <2>2. attempts[o.constraint].reserve[o.leg] \in 0..MaxCash /\ MaxCash \in Nat
    BY <2>1, FillConstants DEF Granted
  <2> QED
    BY <2>2 DEF Immediate!ReserveOf
<1>2. ReservesOf(pending) \in [pending -> Nat]
  BY <1>1 DEF ReservesOf
<1>3. Immediate!Reserved(pending) = SumOf(ReservesOf(pending))
  BY SameSets DEF Immediate!Reserved, ReservesOf
<1>4. SumOf(ReservesOf(pending)) \in Nat
  BY <1>2, SumIsNatural DEF StudyLedger
<1>5. available \in 0..MaxCash
  <2>1. policy.capital \in 0..MaxCash /\ MaxCash \in Nat
    BY FillConstants DEF StudyLedger, Immediate!StudyConstants, Immediate!Policy
  <2>2. /\ available \in Nat /\ spent \in Nat
        /\ available + spent + Immediate!Reserved(pending) = policy.capital
    BY DEF StudyLedger
  <2>3. Immediate!Reserved(pending) \in Nat
    BY <1>3, <1>4
  <2> QED
    BY <2>1, <2>2, <2>3
<1> QED
  BY <1>2, <1>3, <1>4, <1>5

\* An order that arrives pays within its reservation.
LEMMA DebitFits ==
  ASSUME Immediate!StudyConstants, StudyHolds, NEW o \in pending
  PROVE  LET c     == o.constraint
             leg   == LegsOf[c][o.leg]
             limits == attempts[c].limit
             depth == Immediate!Left(leg, limits[o.leg], policy.bps)
         IN  /\ LegFits(leg) /\ limits[o.leg] \in Price /\ policy.bps \in BasisPoints
             /\ attempts[c].quantity \in Nat
             /\ Immediate!ReserveOf(o) \in Nat
             /\ Immediate!Paid(depth, attempts[c].quantity, Step).debit
                  \in 0..Immediate!ReserveOf(o)
<1> DEFINE c == o.constraint
           leg == LegsOf[c][o.leg]
           within == attempts[c].limit[o.leg]
           depth == Immediate!Left(leg, within, policy.bps)
           whole == attempts[c].quantity
<1>1. /\ c \in Constraint /\ o.leg \in Immediate!Leg /\ Granted(c)
      /\ policy \in Immediate!Policy
  BY DEF StudyHolds, StudyLedger, Immediate!StudyConstants
<1>2. LegFits(leg)
  BY <1>1 DEF Immediate!StudyConstants, LegFits, Immediate!Market
<1>3. /\ Gridded(whole) /\ within \in Price
      /\ Immediate!ReserveOf(o) \in 0..MaxCash
      /\ Immediate!ReserveOf(o) = Reservation(whole, within, FeeOf[leg.market])
  BY <1>1 DEF Granted, Immediate!ReserveOf
<1>4. policy.bps \in BasisPoints
  BY <1>1 DEF Immediate!Policy, BasisPoints
<1>5. whole \in Nat /\ MaxCash \in Nat
  BY <1>3, GridStays, FillConstants
<1> HIDE DEF within, whole, leg
<1>6. /\ Supply(depth) /\ depth.fee = FeeOf[leg.market]
      /\ \A i \in 1..Len(depth.levels) :
           depth.levels[i].quantity = 0 \/ depth.levels[i].price <= within
  BY <1>2, <1>3, <1>4, LeftFits DEF StudyHolds
<1> HIDE DEF depth
<1>7. LET debit == Immediate!Paid(depth, whole, Step).debit
      IN  debit \in Nat /\ debit <= Reservation(whole, within, depth.fee)
  <2>1. Reservation(whole, within, depth.fee) <= MaxCash
    BY <1>3, <1>5, <1>6
  <2> QED
    BY <1>3, <1>6, <2>1, PaymentIsCovered
<1>8. Immediate!ReserveOf(o) \in Nat
  BY <1>3, <1>5
<1>9. Immediate!Paid(depth, whole, Step).debit \in 0..Immediate!ReserveOf(o)
  <2> DEFINE debit == Immediate!Paid(depth, whole, Step).debit
  <2>1. debit \in Nat /\ debit <= Immediate!ReserveOf(o)
    BY <1>3, <1>6, <1>7
  <2> HIDE DEF debit
  <2>2. debit \in 0..Immediate!ReserveOf(o)
    BY <1>8, <2>1
  <2> QED
    BY <2>2 DEF debit
<1> QED
  BY <1>2, <1>3, <1>4, <1>5, <1>8, <1>9 DEF depth, within, whole, leg

\* Books and ledger are sound at first.
LEMMA StudyHoldsInit == Immediate!StudyConstants /\ Immediate!Init => StudyHolds
<1> SUFFICES ASSUME Immediate!StudyConstants, Immediate!Init PROVE StudyHolds
  OBVIOUS
<1>1. /\ policy \in Policies /\ policy \in Immediate!Policy
      /\ book = [m \in Immediate!Market |-> Immediate!NoBook]
      /\ phase = "before" /\ deciding = {} /\ pending = {} /\ consumed = <<>>
      /\ attempts = [c \in Constraint |-> Immediate!NoAttempt]
      /\ available = policy.capital /\ spent = 0 /\ ~failed
  BY DEF Immediate!Init, Immediate!StudyConstants
<1>2. StudyBooks
  <2>1. Climbing(<<>>)
    BY DEF Climbing
  <2>2. book \in [Immediate!Market -> ShownBook]
    BY <1>1 DEF ShownBook, Immediate!NoBook
  <2>3. \A m \in Immediate!Market, o \in {"yes", "no"} : Climbing(book[m][o])
    BY <1>1, <2>1 DEF Immediate!NoBook
  <2> QED
    BY <1>1, <2>2, <2>3 DEF StudyBooks
<1>3. StudyLedger
  <2>1. IsFiniteSet(pending)
    BY <1>1, FS_EmptySet
  <2>2. Immediate!Reserved(pending) = 0
    <3> DEFINE none == [o \in pending |-> Immediate!ReserveOf(o)]
    <3>1. Immediate!Reserved(pending) = SumOf(none)
      BY SameSets DEF Immediate!Reserved
    <3>2. \A o \in DOMAIN none : none[o] = 0
      BY <1>1
    <3> HIDE DEF none
    <3> QED
      BY <3>1, <3>2, SumOfZeros
  <2>3. policy.capital \in Nat
    BY <1>1, FillConstants DEF Immediate!Policy
  <2>4. \A c \in Constraint : ~Placed(c)
    BY <1>1 DEF Placed
  <2>5. available + spent + Immediate!Reserved(pending) = policy.capital
    BY <1>1, <2>2, <2>3
  <2> QED
    BY <1>1, <2>1, <2>3, <2>4, <2>5 DEF StudyLedger
<1> QED
  BY <1>2, <1>3 DEF StudyHolds

\* Orders that are placed are covered by cash that was available.
LEMMA PlaceHolds ==
  ASSUME Immediate!StudyConstants, StudyHolds, Immediate!Decide
  PROVE  StudyHolds'
<1>1. PICK c, depths :
        /\ c \in deciding
        /\ depths = Immediate!Depth(c)
        /\ deciding' = deciding \ {c}
        /\ Immediate!Place(c, depths,
             IF Immediate!AllFresh(c) THEN Immediate!Quantity(depths) ELSE 0)
  BY DEF Immediate!Decide
<1> DEFINE q == IF Immediate!AllFresh(c) THEN Immediate!Quantity(depths) ELSE 0
<1>2. UNCHANGED <<policy, phase, book, consumed, spent, failed>>
  BY DEF Immediate!Decide, Immediate!state
<1>3. StudyBooks'
  BY <1>2 DEF StudyHolds, StudyBooks
<1>4. /\ policy \in Policies /\ policy \in Immediate!Policy
      /\ DOMAIN attempts = Constraint
      /\ \A d \in Constraint : Placed(d) => Granted(d)
      /\ deciding \subseteq Constraint /\ (\A d \in deciding : ~Placed(d))
      /\ c \in Constraint /\ ~Placed(c)
      /\ IsFiniteSet(pending)
      /\ \A o \in pending : /\ o.constraint \in Constraint /\ o.leg \in Immediate!Leg
                            /\ Placed(o.constraint)
      /\ available \in Nat /\ spent \in Nat
      /\ available + spent + Immediate!Reserved(pending) = policy.capital
      /\ ~failed /\ (phase = "done" => pending = {})
  BY <1>1 DEF StudyHolds, StudyLedger, Immediate!StudyConstants
<1>5. /\ ReservesOf(pending) \in [pending -> Nat]
      /\ Immediate!Reserved(pending) = SumOf(ReservesOf(pending))
      /\ Immediate!Reserved(pending) \in Nat
      /\ available \in 0..MaxCash
  BY ReservedFits DEF StudyHolds
<1>6. CASE q = 0
  <2>1. UNCHANGED <<attempts, pending, available>>
    BY <1>1, <1>6 DEF Immediate!Place
  <2>2. Immediate!Reserved(pending)' = Immediate!Reserved(pending)
    BY <2>1 DEF Immediate!Reserved, Immediate!ReserveOf
  <2>3. /\ \A d \in Constraint : (Placed(d) <=> Placed(d)') /\ (Granted(d) <=> Granted(d)')
    BY <2>1 DEF Placed, Granted
  <2>4. StudyLedger'
    BY <1>1, <1>2, <1>4, <2>1, <2>2, <2>3 DEF StudyLedger
  <2> QED
    BY <1>3, <2>4 DEF StudyHolds
<1>7. CASE q # 0
  <2> DEFINE r(leg) == Immediate!Reserve(depths[leg], q)
             l(leg) == Immediate!Paid(depths[leg], q, Step).limit
             number == Immediate!Cardinality({d \in Constraint : attempts[d] # Immediate!NoAttempt})
             new(leg) == [arrival |-> now + policy.latency[leg], constraint |-> c, leg |-> leg,
                          attempt |-> number]
             granted == [quantity |-> q, generation |-> generation,
                         limit |-> [leg \in Immediate!Leg |-> l(leg)],
                         reserve |-> [leg \in Immediate!Leg |-> r(leg)]]
  <2>1. /\ Gridded(q) /\ Immediate!Fits(depths, q)
        /\ \A leg \in Immediate!Leg : /\ Supply(depths[leg])
                                      /\ depths[leg].fee = FeeOf[LegsOf[c][leg].market]
    <3>1. /\ Supplies(depths) /\ Len(depths) = 2
          /\ \A leg \in Immediate!Leg : /\ Supply(depths[leg])
                                        /\ depths[leg].fee = FeeOf[LegsOf[c][leg].market]
      BY <1>1, <1>4, DepthSupplies DEF StudyHolds
    <3>2. Affordable(depths, Immediate!Quantity(depths))
      BY <1>4, <1>5, <3>1, QuantityFits
    <3>3. Affordable(depths, q)
      BY <1>7, <3>2
    <3> HIDE DEF q
    <3> QED
      BY <1>7, <3>1, <3>3 DEF Affordable, Funds
  <2>2. /\ attempts' = [attempts EXCEPT ![c] = granted]
        /\ pending' = pending \cup {new(leg) : leg \in Immediate!Leg}
        /\ available' = available - Immediate!Needed(depths, q)
    BY <1>1, <1>7 DEF Immediate!Place
  <2> HIDE DEF q
  <2>3. \A leg \in Immediate!Leg :
          /\ r(leg) \in Nat /\ l(leg) \in Price
          /\ r(leg) = Reservation(q, l(leg), FeeOf[LegsOf[c][leg].market])
    BY <2>1, ReserveIsNatural
  <2>4. 1 \in Immediate!Leg /\ 2 \in Immediate!Leg /\ \A leg \in Immediate!Leg : leg = 1 \/ leg = 2
    BY DEF Immediate!Leg
  <2>5. Immediate!Needed(depths, q) = r(1) + r(2) /\ Immediate!Needed(depths, q) <= available
    BY <2>1 DEF Immediate!Needed, Immediate!Fits
  <2> HIDE DEF r, l, number
  <2>6. \A leg \in Immediate!Leg : r(leg) \in 0..MaxCash
    <3>1. r(1) \in Nat /\ r(2) \in Nat /\ MaxCash \in Nat
      BY <2>3, <2>4, FillConstants
    <3>2. r(1) \in 0..MaxCash /\ r(2) \in 0..MaxCash
      BY <1>5, <2>5, <3>1
    <3> QED
      BY <2>4, <3>2
  <2>7. /\ attempts'[c] = granted /\ DOMAIN attempts' = Constraint
        /\ \A d \in Constraint : d # c => attempts'[d] = attempts[d]
    BY <1>4, <2>2
  <2>8. /\ granted.quantity = q /\ granted # Immediate!NoAttempt
        /\ \A leg \in Immediate!Leg : granted.limit[leg] = l(leg) /\ granted.reserve[leg] = r(leg)
    <3>1. granted.quantity = q
      OBVIOUS
    <3>2. Immediate!NoAttempt.quantity = 0
      BY DEF Immediate!NoAttempt
    <3> QED
      BY <1>7, <3>1, <3>2
  <2> HIDE DEF granted
  <2>9. \A d \in Constraint : Placed(d)' => Granted(d)'
    <3> SUFFICES ASSUME NEW d \in Constraint, Placed(d)' PROVE Granted(d)'
      OBVIOUS
    <3>1. CASE d = c
      <4>1. /\ Gridded(attempts'[c].quantity)
            /\ \A leg \in Immediate!Leg :
                 /\ attempts'[c].limit[leg] \in Price
                 /\ attempts'[c].reserve[leg] \in 0..MaxCash
                 /\ attempts'[c].reserve[leg] =
                      Reservation(attempts'[c].quantity, attempts'[c].limit[leg],
                                  FeeOf[LegsOf[c][leg].market])
        BY <2>1, <2>3, <2>6, <2>7, <2>8
      <4> QED
        BY <3>1, <4>1 DEF Granted
    <3>2. CASE d # c
      <4>1. attempts'[d] = attempts[d] /\ Placed(d)
        BY <2>7, <3>2 DEF Placed
      <4>2. Granted(d)
        BY <1>4, <4>1
      <4> QED
        BY <4>1, <4>2 DEF Granted
    <3> QED
      BY <3>1, <3>2
  <2>10. /\ deciding' \subseteq Constraint /\ (\A d \in deciding' : ~Placed(d)')
    BY <1>1, <1>4, <2>7 DEF Placed
  <2>11. /\ new(1) # new(2) /\ new(1) \notin pending /\ new(2) \notin pending
         /\ \A leg \in Immediate!Leg : new(leg).constraint = c /\ new(leg).leg = leg
         /\ pending' = (pending \cup {new(1)}) \cup {new(2)}
    <3>1. \A leg \in Immediate!Leg : new(leg).constraint = c /\ new(leg).leg = leg
      OBVIOUS
    <3>2. pending' = (pending \cup {new(1)}) \cup {new(2)}
      <4> HIDE DEF new
      <4> QED
        BY <2>2, <2>4
    <3> HIDE DEF new
    <3> QED
      BY <1>4, <2>4, <3>1, <3>2
  <2> HIDE DEF new
  <2>12. \A o \in pending' : /\ o.constraint \in Constraint /\ o.leg \in Immediate!Leg
                             /\ Placed(o.constraint)'
    <3>1. Placed(c)'
      BY <2>7, <2>8 DEF Placed
    <3>2. ASSUME NEW o \in pending PROVE Placed(o.constraint)'
      <4>1. o.constraint \in Constraint /\ Placed(o.constraint) /\ o.constraint # c
        BY <1>4
      <4> QED
        BY <2>7, <4>1 DEF Placed
    <3> QED
      BY <1>4, <2>4, <2>11, <3>1, <3>2
  <2>13. IsFiniteSet(pending')
    BY <1>4, <2>11, FS_AddElement
  <2>14. Immediate!Reserved(pending)' = Immediate!Reserved(pending) + r(1) + r(2)
    <3> DEFINE f == ReservesOf(pending)
               P1 == pending \cup {new(1)}
               g == [o \in P1 |-> IF o = new(1) THEN r(1) ELSE f[o]]
               P2 == P1 \cup {new(2)}
               h == [o \in P2 |-> IF o = new(2) THEN r(2) ELSE g[o]]
    <3>1. \A o \in pending : Immediate!ReserveOf(o)' = f[o]
      <4> SUFFICES ASSUME NEW o \in pending PROVE Immediate!ReserveOf(o)' = f[o]
        OBVIOUS
      <4>1. o.constraint \in Constraint /\ o.constraint # c
        BY <1>4
      <4> QED
        BY <2>7, <4>1 DEF Immediate!ReserveOf, ReservesOf
    <3>2. \A o \in pending' : /\ o = new(1) => Immediate!ReserveOf(o)' = r(1)
                              /\ o = new(2) => Immediate!ReserveOf(o)' = r(2)
      <4> SUFFICES ASSUME NEW leg \in Immediate!Leg, NEW o \in pending', o = new(leg)
                   PROVE Immediate!ReserveOf(o)' = r(leg)
        BY <2>4
      <4>1. o.constraint = c /\ o.leg = leg
        BY <2>11
      <4>2. attempts'[c].reserve[leg] = r(leg)
        BY <2>7, <2>8
      <4> QED
        BY <4>1, <4>2 DEF Immediate!ReserveOf
    <3>3. Immediate!Reserved(pending)' = SumOf([o \in pending' |-> Immediate!ReserveOf(o)'])
      BY SameSets DEF Immediate!Reserved
    <3>4. f \in [pending -> Nat] /\ r(1) \in Nat /\ r(2) \in Nat
      BY <1>5, <2>3, <2>4
    <3>5. [o \in pending' |-> Immediate!ReserveOf(o)'] = h
      <4> HIDE DEF f
      <4>1. \A o \in P2 : Immediate!ReserveOf(o)' = h[o]
        BY <2>11, <3>1, <3>2
      <4> HIDE DEF g
      <4>2. h = [o \in P2 |-> h[o]]
        OBVIOUS
      <4> HIDE DEF h
      <4> QED
        BY <2>11, <4>1, <4>2
    <3>6. SumOf(g) = SumOf(f) + r(1)
      <4>1. g \in [P1 -> Nat] /\ (\A o \in pending : g[o] = f[o]) /\ g[new(1)] = r(1)
        BY <2>11, <3>4
      <4> HIDE DEF f, g
      <4> QED
        BY <1>4, <2>11, <3>4, <4>1, SumWithOneMore
    <3>7. SumOf(h) = SumOf(g) + r(2)
      <4>1. g \in [P1 -> Nat] /\ IsFiniteSet(P1) /\ new(2) \notin P1
        BY <1>4, <2>11, <3>4, FS_AddElement
      <4> HIDE DEF g
      <4>2. h \in [P2 -> Nat] /\ (\A o \in P1 : h[o] = g[o]) /\ h[new(2)] = r(2)
        BY <3>4, <4>1
      <4> HIDE DEF h, P1
      <4> QED
        BY <3>4, <4>1, <4>2, SumWithOneMore
    <3> HIDE DEF f, g, h
    <3> QED
      BY <1>5, <3>3, <3>5, <3>6, <3>7 DEF f
  <2>15. /\ available' \in Nat
         /\ available' + spent + Immediate!Reserved(pending)' = policy.capital
    <3>1. r(1) \in Nat /\ r(2) \in Nat /\ available' = available - (r(1) + r(2))
      BY <2>2, <2>3, <2>4, <2>5
    <3>2. r(1) + r(2) <= available
      BY <2>5
    <3> QED
      BY <1>4, <1>5, <2>14, <3>1, <3>2
  <2>16. phase # "done"
    BY DEF Immediate!Decide
  <2>17. StudyLedger'
    BY <1>2, <1>4, <2>7, <2>9, <2>10, <2>12, <2>13, <2>15, <2>16 DEF StudyLedger
  <2> QED
    BY <1>3, <2>17 DEF StudyHolds
<1> QED
  BY <1>6, <1>7

\* What an arrival does to the liquidity.
TakesWithin ==
  \A key \in DOMAIN consumed' :
    consumed'[key] # Immediate!Used(key) => consumed'[key] <= Immediate!ShownAt(key)

\* An arrival takes from no level more than the book shows there.
LEMMA ArrivalTakes ==
  ASSUME Immediate!StudyConstants, StudyHolds, Immediate!Arrive
  PROVE  TakesWithin /\ \A key \in DOMAIN consumed' : consumed'[key] \in Nat
<1>1. CASE UNCHANGED consumed
  BY <1>1, UsedIsNatural DEF TakesWithin, Immediate!Used, StudyHolds, StudyBooks
<1>2. CASE ~UNCHANGED consumed
  <2>1. PICK o \in pending :
          Immediate!Execute(LegsOf[o.constraint][o.leg],
                            Immediate!Left(LegsOf[o.constraint][o.leg],
                                           attempts[o.constraint].limit[o.leg], policy.bps),
                            attempts[o.constraint].quantity,
                            attempts[o.constraint].reserve[o.leg])
    BY <1>2 DEF Immediate!Arrive
  <2> DEFINE leg == LegsOf[o.constraint][o.leg]
             within == attempts[o.constraint].limit[o.leg]
             quantity == attempts[o.constraint].quantity
             bps == policy.bps
             levels == Immediate!Left(leg, within, bps).levels
             sum == Immediate!UpTo(levels, quantity)
             taken(key) == Immediate!TakenAt(leg, levels, sum, key)
  <2>2. consumed' = [key \in DOMAIN consumed \cup Immediate!KeysTaken(leg, levels, sum) |->
                       Immediate!Used(key) + taken(key)]
    BY <2>1 DEF Immediate!Execute, Immediate!Taken
  <2>3. LegFits(leg) /\ within \in Price /\ bps \in BasisPoints /\ quantity \in Nat
    BY DebitFits
  <2> HIDE DEF leg, within, quantity, bps
  <2>4. ASSUME NEW key
        PROVE  /\ taken(key) \in Nat /\ Immediate!Used(key) \in Nat
               /\ taken(key) # 0 => Immediate!Used(key) + taken(key) <= Immediate!ShownAt(key)
    BY <2>3, TakenFits, UsedIsNatural DEF StudyHolds
  <2> HIDE DEF taken
  <2>5. ASSUME NEW key \in DOMAIN consumed'
        PROVE  /\ consumed'[key] \in Nat
               /\ consumed'[key] # Immediate!Used(key) =>
                    consumed'[key] <= Immediate!ShownAt(key)
    <3>1. consumed'[key] = Immediate!Used(key) + taken(key)
      BY <2>2
    <3>2. /\ taken(key) \in Nat /\ Immediate!Used(key) \in Nat
          /\ taken(key) # 0 => Immediate!Used(key) + taken(key) <= Immediate!ShownAt(key)
      BY <2>4
    <3> QED
      BY <3>1, <3>2
  <2> QED
    BY <2>5 DEF TakesWithin
<1> QED
  BY <1>1, <1>2

\* An arrival moves cash from what is reserved to what is spent or available.
LEMMA ArrivalHolds ==
  ASSUME Immediate!StudyConstants, StudyHolds, Immediate!Arrive
  PROVE  StudyHolds'
<1>1. PICK o, debit :
        /\ o \in pending /\ pending' = pending \ {o}
        /\ Immediate!Pay(Immediate!ReserveOf(o), debit)
        /\ debit \in 0..Immediate!ReserveOf(o) /\ Immediate!ReserveOf(o) \in Nat
  <2>1. PICK o \in pending :
          /\ \/ Immediate!Execute(LegsOf[o.constraint][o.leg],
                                  Immediate!Left(LegsOf[o.constraint][o.leg],
                                                 attempts[o.constraint].limit[o.leg], policy.bps),
                                  attempts[o.constraint].quantity,
                                  attempts[o.constraint].reserve[o.leg])
             \/ Immediate!Pay(attempts[o.constraint].reserve[o.leg], 0)
          /\ pending' = pending \ {o}
    BY DEF Immediate!Arrive
  <2> DEFINE debit == Immediate!Paid(Immediate!Left(LegsOf[o.constraint][o.leg],
                                       attempts[o.constraint].limit[o.leg], policy.bps),
                                     attempts[o.constraint].quantity, Step).debit
  <2>2. debit \in 0..Immediate!ReserveOf(o) /\ Immediate!ReserveOf(o) \in Nat
    BY DebitFits
  <2>3. \/ Immediate!Pay(Immediate!ReserveOf(o), debit)
        \/ Immediate!Pay(Immediate!ReserveOf(o), 0)
    BY <2>1 DEF Immediate!Execute, Immediate!ReserveOf
  <2> HIDE DEF debit
  <2>4. 0 \in 0..Immediate!ReserveOf(o)
    BY <2>2
  <2> QED
    BY <2>1, <2>2, <2>3, <2>4
<1>2. UNCHANGED <<policy, phase, book, deciding, attempts>> /\ phase # "done"
  BY DEF Immediate!Arrive, Immediate!state
<1>3. StudyBooks'
  <2>1. \A key \in DOMAIN consumed' : consumed'[key] \in Nat
    BY ArrivalTakes
  <2> QED
    BY <1>2, <2>1 DEF StudyHolds, StudyBooks
<1>4. /\ policy \in Policies
      /\ DOMAIN attempts = Constraint
      /\ \A d \in Constraint : Placed(d) => Granted(d)
      /\ deciding \subseteq Constraint /\ (\A d \in deciding : ~Placed(d))
      /\ IsFiniteSet(pending)
      /\ \A p \in pending : /\ p.constraint \in Constraint /\ p.leg \in Immediate!Leg
                            /\ Placed(p.constraint)
      /\ available \in Nat /\ spent \in Nat
      /\ available + spent + Immediate!Reserved(pending) = policy.capital
      /\ ~failed /\ (phase = "done" => pending = {})
  BY DEF StudyHolds, StudyLedger
<1>5. /\ ReservesOf(pending) \in [pending -> Nat]
      /\ Immediate!Reserved(pending) = SumOf(ReservesOf(pending))
      /\ Immediate!Reserved(pending) \in Nat
  BY ReservedFits DEF StudyHolds
<1>6. IsFiniteSet(pending') /\ pending' \subseteq pending
  <2>1. pending' \subseteq pending
    BY <1>1
  <2> QED
    BY <1>4, <2>1, FS_Subset
<1>7. Immediate!Reserved(pending) = Immediate!Reserved(pending)' + Immediate!ReserveOf(o)
  <2> DEFINE f == ReservesOf(pending)
             g == [p \in pending' |-> f[p]]
  <2>1. Immediate!Reserved(pending)' = SumOf(g)
    <3>1. Immediate!Reserved(pending)' = SumOf([p \in pending' |-> Immediate!ReserveOf(p)'])
      BY SameSets DEF Immediate!Reserved
    <3>2. \A p \in pending' : Immediate!ReserveOf(p)' = f[p]
      BY <1>2, <1>6 DEF Immediate!ReserveOf, ReservesOf
    <3>3. [p \in pending' |-> Immediate!ReserveOf(p)'] = g
      BY <3>2
    <3> QED
      BY <3>1, <3>3
  <2>2. pending' \cup {o} = pending /\ o \notin pending'
    BY <1>1
  <2>3. g \in [pending' -> Nat] /\ f[o] = Immediate!ReserveOf(o)
    BY <1>1, <1>5, <1>6 DEF ReservesOf
  <2>4. \A p \in pending' : f[p] = g[p]
    OBVIOUS
  <2>5. f \in [pending -> Nat]
    BY <1>5
  <2> HIDE DEF f, g
  <2> DEFINE S == pending'
  <2>6. SumOf(f) = SumOf(g) + f[o]
    <3>1. /\ IsFiniteSet(S) /\ o \notin S /\ f[o] \in Nat
          /\ g \in [S -> Nat] /\ f \in [S \cup {o} -> Nat] /\ \A p \in S : f[p] = g[p]
      BY <1>1, <1>6, <2>2, <2>3, <2>4, <2>5
    <3> HIDE DEF S
    <3> QED
      BY <3>1, SumWithOneMore
  <2> QED
    BY <1>5, <2>1, <2>3, <2>6 DEF f
<1>8. /\ ~failed'
      /\ available' \in Nat /\ spent' \in Nat
      /\ available' + spent' + Immediate!Reserved(pending)' = policy.capital
  <2> DEFINE reserve == Immediate!ReserveOf(o)
             before == Immediate!Reserved(pending)
             after == Immediate!Reserved(pending)'
  <2>1. /\ failed' = (debit > reserve)
        /\ available' = available + (reserve - debit) /\ spent' = spent + debit
    BY <1>1 DEF Immediate!Pay, Immediate!Refund
  <2>2. reserve \in Nat /\ debit \in 0..reserve /\ before \in Nat /\ before = after + reserve
    BY <1>1, <1>5, <1>7
  <2>3. after \in Nat
    <3>1. after = SumOf([p \in pending' |-> ReservesOf(pending)[p]])
      <4>1. \A p \in pending' : Immediate!ReserveOf(p)' = ReservesOf(pending)[p]
        BY <1>2, <1>6 DEF Immediate!ReserveOf, ReservesOf
      <4>2. [p \in pending' |-> Immediate!ReserveOf(p)'] =
              [p \in pending' |-> ReservesOf(pending)[p]]
        BY <4>1
      <4>3. after = SumOf([p \in pending' |-> Immediate!ReserveOf(p)'])
        BY SameSets DEF Immediate!Reserved
      <4> QED
        BY <4>2, <4>3
    <3> DEFINE g == [p \in pending' |-> ReservesOf(pending)[p]]
    <3>2. g \in [pending' -> Nat]
      BY <1>5, <1>6
    <3> HIDE DEF g
    <3>3. SumOf(g) \in Nat
      BY <1>6, <3>2, SumIsNatural
    <3> QED
      BY <3>1, <3>3 DEF g
  <2> HIDE DEF reserve, before, after
  <2>4. debit \in Nat /\ debit <= reserve
    BY <2>2
  <2>5. ~(debit > reserve)
    BY <2>2, <2>4
  <2>6. available + spent + before = policy.capital
    BY <1>4 DEF before
  <2>7. available' \in Nat /\ spent' \in Nat /\ available' + spent' + after = policy.capital
    BY <1>4, <2>1, <2>2, <2>3, <2>4, <2>6
  <2>8. ~failed'
    BY <2>1, <2>5, Zenon
  <2> QED
    BY <2>7, <2>8 DEF after
<1>9. \A d \in Constraint : (Placed(d) <=> Placed(d)') /\ (Granted(d) <=> Granted(d)')
  BY <1>2 DEF Placed, Granted
<1>10. StudyLedger'
  BY <1>2, <1>4, <1>6, <1>8, <1>9 DEF StudyLedger
<1> QED
  BY <1>3, <1>10 DEF StudyHolds

\* Books change, and orders stay as they are.
LEMMA LedgerStays ==
  ASSUME StudyLedger, UNCHANGED <<policy, attempts, pending, available, spent, failed>>,
         deciding' \subseteq Constraint, \A c \in deciding' : ~Placed(c), phase' # "done"
  PROVE  StudyLedger'
<1>1. Immediate!Reserved(pending)' = Immediate!Reserved(pending)
  BY DEF Immediate!Reserved, Immediate!ReserveOf
<1>2. \A c \in Constraint : (Placed(c) <=> Placed(c)') /\ (Granted(c) <=> Granted(c)')
  BY DEF Placed, Granted
<1>3. \A c \in deciding' : ~Placed(c)'
  BY <1>2
<1> QED
  BY <1>1, <1>2, <1>3 DEF StudyLedger

\* A snapshot or a delta leaves books sound.
LEMMA BookHolds ==
  ASSUME Immediate!StudyConstants, StudyBooks, NEW m \in Immediate!Market, NEW bk \in Books[m],
         book' = [book EXCEPT ![m] = [yes |-> bk.yes, no |-> bk.no, valid |-> TRUE]],
         UNCHANGED <<policy, consumed>>
  PROVE  StudyBooks'
<1>1. \A o \in {"yes", "no"} : Climbing(bk[o])
  <2> SUFFICES ASSUME NEW o \in {"yes", "no"} PROVE Climbing(bk[o])
    OBVIOUS
  <2>1. /\ bk[o] \in Seq(Immediate!Level)
        /\ Immediate!IsDepth([levels |-> bk[o], fee |-> FeeOf[m]])
    BY DEF Immediate!StudyConstants
  <2>2. \A i \in 1..Len(bk[o]) : i > 1 => bk[o][i - 1].price < bk[o][i].price
    BY <2>1 DEF Immediate!IsDepth
  <2>3. \A i \in 2..Len(bk[o]) : i \in 1..Len(bk[o]) /\ i > 1
    BY <2>1
  <2> QED
    BY <2>1, <2>2, <2>3 DEF Climbing
<1> DEFINE new == [yes |-> bk.yes, no |-> bk.no, valid |-> TRUE]
<1>2. new \in ShownBook /\ new["yes"] = bk["yes"] /\ new["no"] = bk["no"]
  <2>1. bk.yes \in Seq(Immediate!Level) /\ bk.no \in Seq(Immediate!Level)
    BY <1>1 DEF Climbing
  <2> QED
    BY <2>1 DEF ShownBook
<1> HIDE DEF new
<1>3. \A k \in Immediate!Market : book'[k] = IF k = m THEN new ELSE book[k]
  BY DEF StudyBooks, new
<1>4. book' \in [Immediate!Market -> ShownBook]
  BY <1>2 DEF StudyBooks, new
<1>5. \A k \in Immediate!Market, o \in {"yes", "no"} : Climbing(book'[k][o])
  BY <1>1, <1>2, <1>3 DEF StudyBooks
<1> QED
  BY <1>4, <1>5 DEF StudyBooks

\* So does a frame that applies to no book.
LEMMA ControlHolds ==
  ASSUME StudyBooks, UNCHANGED <<policy, consumed>>,
         \/ UNCHANGED book
         \/ book' = [m \in Immediate!Market |-> Immediate!NoBook]
         \/ \E m \in Immediate!Market : book' = [book EXCEPT ![m].valid = FALSE]
  PROVE  StudyBooks'
<1>1. CASE UNCHANGED book
  BY <1>1 DEF StudyBooks
<1>2. CASE book' = [m \in Immediate!Market |-> Immediate!NoBook]
  <2>1. Climbing(<<>>)
    BY DEF Climbing
  <2>2. book' \in [Immediate!Market -> ShownBook]
    BY <1>2 DEF ShownBook, Immediate!NoBook
  <2>3. \A m \in Immediate!Market, o \in {"yes", "no"} : Climbing(book'[m][o])
    BY <1>2, <2>1 DEF Immediate!NoBook
  <2> QED
    BY <2>2, <2>3 DEF StudyBooks
<1>3. CASE \E m \in Immediate!Market : book' = [book EXCEPT ![m].valid = FALSE]
  <2>1. PICK m \in Immediate!Market : book' = [book EXCEPT ![m].valid = FALSE]
    BY <1>3
  <2>2. book \in [Immediate!Market -> ShownBook]
    BY DEF StudyBooks
  <2> DEFINE new == [book[m] EXCEPT !.valid = FALSE]
  <2>3. book[m] \in ShownBook
    BY <2>2
  <2>4. new \in ShownBook /\ \A o \in {"yes", "no"} : new[o] = book[m][o]
    BY <2>3 DEF ShownBook
  <2>5. book' = [book EXCEPT ![m] = new]
    BY <2>1
  <2> HIDE DEF new
  <2>6. book' \in [Immediate!Market -> ShownBook]
    BY <2>2, <2>4, <2>5
  <2>7. \A k \in Immediate!Market : book'[k] = IF k = m THEN new ELSE book[k]
    BY <2>2, <2>5
  <2>8. \A k \in Immediate!Market, o \in {"yes", "no"} : Climbing(book'[k][o])
    BY <2>4, <2>7 DEF StudyBooks
  <2> QED
    BY <2>6, <2>8 DEF StudyBooks
<1> QED
  BY <1>1, <1>2, <1>3

\* Books and ledger stay sound, whichever step it is.
LEMMA StudyStep ==
  Immediate!StudyConstants /\ StudyHolds /\ [Immediate!Next]_Immediate!vars => StudyHolds'
<1> SUFFICES ASSUME Immediate!StudyConstants, StudyHolds, [Immediate!Next]_Immediate!vars
             PROVE StudyHolds'
  OBVIOUS
<1>0. StudyBooks /\ StudyLedger
  BY DEF StudyHolds
<1>1. CASE Immediate!Before \/ Immediate!Finish \/ Immediate!Control
  <2>1. /\ UNCHANGED <<policy, attempts, pending, available, spent, failed, consumed, deciding>>
        /\ phase' # "done"
    BY <1>1 DEF Immediate!Before, Immediate!Finish, Immediate!Control, Immediate!ledger
  <2>2. \/ UNCHANGED book
        \/ book' = [m \in Immediate!Market |-> Immediate!NoBook]
        \/ \E m \in Immediate!Market : book' = [book EXCEPT ![m].valid = FALSE]
    BY <1>1 DEF Immediate!Before, Immediate!Finish, Immediate!Control, Immediate!state
  <2>3. deciding' \subseteq Constraint /\ \A c \in deciding' : ~Placed(c)
    BY <1>0, <2>1 DEF StudyLedger
  <2> QED
    BY <1>0, <2>1, <2>2, <2>3, LedgerStays, ControlHolds DEF StudyHolds
<1>2. CASE Immediate!Apply
  <2>1. PICK m \in Immediate!Market, bk \in UNION {Books[k] : k \in Immediate!Market} :
          /\ bk \in Books[m]
          /\ book' = [book EXCEPT ![m] = [yes |-> bk.yes, no |-> bk.no, valid |-> TRUE]]
          /\ deciding' \subseteq {c \in Constraint : attempts[c] = Immediate!NoAttempt}
          /\ UNCHANGED <<policy, attempts, pending, available, spent, failed, consumed>>
          /\ phase' # "done"
    BY <1>2 DEF Immediate!Apply, Immediate!ledger
  <2>2. deciding' \subseteq Constraint /\ \A c \in deciding' : ~Placed(c)
    BY <2>1 DEF Placed
  <2>3. StudyLedger'
    BY <1>0, <2>1, <2>2, LedgerStays
  <2>4. StudyBooks'
    BY <1>0, <2>1, BookHolds
  <2> QED
    BY <2>3, <2>4 DEF StudyHolds
<1>3. CASE Immediate!Decide
  BY <1>3, PlaceHolds
<1>4. CASE Immediate!Arrive
  BY <1>4, ArrivalHolds
<1>5. CASE Immediate!Release
  <2>1. /\ UNCHANGED <<policy, book, deciding, attempts, consumed, spent, failed>>
        /\ available' = available + Immediate!Reserved(pending) /\ pending' = {}
    BY <1>5 DEF Immediate!Release, Immediate!state
  <2>2. StudyBooks'
    BY <1>0, <2>1 DEF StudyBooks
  <2>3. Immediate!Reserved(pending)' = 0
    <3> DEFINE none == [o \in pending' |-> Immediate!ReserveOf(o)']
    <3>1. Immediate!Reserved(pending)' = SumOf(none)
      BY SameSets DEF Immediate!Reserved
    <3>2. \A o \in DOMAIN none : none[o] = 0
      BY <2>1
    <3> HIDE DEF none
    <3> QED
      BY <3>1, <3>2, SumOfZeros
  <2>4. Immediate!Reserved(pending) \in Nat
    BY <1>0, ReservedFits
  <2>5. /\ available' \in Nat
        /\ available' + spent + Immediate!Reserved(pending)' = policy.capital
    <3>1. /\ available \in Nat /\ spent \in Nat
          /\ available + spent + Immediate!Reserved(pending) = policy.capital
      BY <1>0 DEF StudyLedger
    <3> QED
      BY <2>1, <2>3, <2>4, <3>1
  <2>6. IsFiniteSet(pending')
    BY <2>1, FS_EmptySet
  <2>7. \A c \in Constraint : (Placed(c) <=> Placed(c)') /\ (Granted(c) <=> Granted(c)')
    BY <2>1 DEF Placed, Granted
  <2>8. StudyLedger'
    BY <1>0, <2>1, <2>5, <2>6, <2>7 DEF StudyLedger
  <2> QED
    BY <2>2, <2>8 DEF StudyHolds
<1>6. CASE UNCHANGED Immediate!vars
  <2>1. UNCHANGED <<policy, book, attempts, pending, available, spent, failed, consumed,
                    deciding, phase>>
    BY <1>6 DEF Immediate!vars, Immediate!state, Immediate!ledger
  <2>2. StudyBooks'
    BY <1>0, <2>1 DEF StudyBooks
  <2>3. Immediate!Reserved(pending)' = Immediate!Reserved(pending)
    BY <2>1 DEF Immediate!Reserved, Immediate!ReserveOf
  <2>4. \A c \in Constraint : (Placed(c) <=> Placed(c)') /\ (Granted(c) <=> Granted(c)')
    BY <2>1 DEF Placed, Granted
  <2>5. StudyLedger'
    BY <1>0, <2>1, <2>3, <2>4 DEF StudyLedger
  <2> QED
    BY <2>2, <2>5 DEF StudyHolds
<1> QED
  BY <1>1, <1>2, <1>3, <1>4, <1>5, <1>6 DEF Immediate!Next

\* They are sound in every state.
LEMMA StudyKeeps == Immediate!StudyConstants => (Immediate!Spec => []StudyHolds)
<1> SUFFICES ASSUME Immediate!StudyConstants PROVE Immediate!Spec => []StudyHolds
  OBVIOUS
<1>1. Immediate!Init => StudyHolds
  BY StudyHoldsInit
<1>2. StudyHolds /\ [Immediate!Next]_Immediate!vars => StudyHolds'
  BY StudyStep
<1> QED
  BY <1>1, <1>2, PTL DEF Immediate!Spec

\* The cash of a study is available, spent or reserved, whatever arrives when and
\* finds which books (reserve, execute and release in execution_study.cpp).
THEOREM StudyCashAddsUp ==
  Immediate!StudyConstants => (Immediate!Spec => []Immediate!CashAddsUp)
<1> SUFFICES ASSUME Immediate!StudyConstants PROVE Immediate!Spec => []Immediate!CashAddsUp
  OBVIOUS
<1>1. StudyHolds => Immediate!CashAddsUp
  <2> SUFFICES ASSUME StudyHolds PROVE Immediate!CashAddsUp
    OBVIOUS
  <2>1. /\ available \in Nat /\ spent \in Nat
        /\ available + spent + Immediate!Reserved(pending) = policy.capital
        /\ phase = "done" => pending = {}
    BY DEF StudyHolds, StudyLedger
  <2>2. pending = {} => Immediate!Reserved(pending) = 0
    <3> DEFINE none == [o \in pending |-> Immediate!ReserveOf(o)]
    <3> SUFFICES ASSUME pending = {} PROVE Immediate!Reserved(pending) = 0
      OBVIOUS
    <3>1. Immediate!Reserved(pending) = SumOf(none)
      BY SameSets DEF Immediate!Reserved
    <3>2. \A o \in DOMAIN none : none[o] = 0
      OBVIOUS
    <3> HIDE DEF none
    <3> QED
      BY <3>1, <3>2, SumOfZeros
  <2>3. available >= 0 /\ (phase = "done" => available + spent = policy.capital)
    BY <2>1, <2>2
  <2> QED
    BY <2>1, <2>3 DEF Immediate!CashAddsUp
<1>2. Immediate!Spec => []StudyHolds
  BY StudyKeeps
<1> QED
  BY <1>1, <1>2, PTL

\* No order ever pays more than was reserved for it, although the book it meets is not
\* the one it was quoted from (the check on the debit in execution_study.cpp).
THEOREM StudyReservationsHold ==
  Immediate!StudyConstants => (Immediate!Spec => []Immediate!ReservationHolds)
<1> SUFFICES ASSUME Immediate!StudyConstants PROVE Immediate!Spec => []Immediate!ReservationHolds
  OBVIOUS
<1>1. StudyHolds => Immediate!ReservationHolds
  BY DEF StudyHolds, StudyLedger, Immediate!ReservationHolds
<1>2. Immediate!Spec => []StudyHolds
  BY StudyKeeps
<1> QED
  BY <1>1, <1>2, PTL

\* Orders that meet on a level share what it shows (consumed_ in execution_study.cpp).
THEOREM StudyLiquidityUsedOnce ==
  Immediate!StudyConstants => (Immediate!Spec => Immediate!LiquidityUsedOnce)
<1> SUFFICES ASSUME Immediate!StudyConstants PROVE Immediate!Spec => Immediate!LiquidityUsedOnce
  OBVIOUS
<1>1. StudyHolds /\ [Immediate!Next]_Immediate!vars => [TakesWithin]_Immediate!vars
  <2> SUFFICES ASSUME StudyHolds, [Immediate!Next]_Immediate!vars PROVE TakesWithin
    OBVIOUS
  <2>1. CASE Immediate!Arrive
    BY <2>1, ArrivalTakes
  <2>2. CASE UNCHANGED consumed
    BY <2>2 DEF TakesWithin, Immediate!Used
  <2> QED
    BY <2>1, <2>2
       DEF Immediate!Next, Immediate!Before, Immediate!Apply, Immediate!Control, Immediate!Decide,
           Immediate!Finish, Immediate!Release, Immediate!ledger, Immediate!vars
<1>2. Immediate!Spec => []StudyHolds
  BY StudyKeeps
<1>3. Immediate!Spec => [][TakesWithin]_Immediate!vars
  BY <1>1, <1>2, PTL DEF Immediate!Spec
<1>4. Immediate!LiquidityUsedOnce <=> [][TakesWithin]_Immediate!vars
  BY DEF Immediate!LiquidityUsedOnce, TakesWithin
<1> QED
  BY <1>3, <1>4
================================================================================
