---------------------------- MODULE BasketProofs ----------------------------
(***************************************************************************)
(* What is proved about the studies of three-leg baskets.  Execution       *)
(* (BasketExecution): however an attempt goes and ends, no money and no    *)
(* contract is made or lost, and no level gives more than it ever showed.  *)
(* Observation (BasketObservation): however frames, gaps, reconnections    *)
(* and clocks follow one another, the reported times are those of the      *)
(* reported episodes, and no episode outlives its books or the window.     *)
(* Probe (PassiveProbe): however an attempt fills and is hedged, each      *)
(* scenario accounts for it and its money, and ends it in time.            *)
(***************************************************************************)
EXTENDS BasketExecution, BasketObservation

-----------------------------------------------------------------------------
(* The two loops.  A loop is the function of its passes; that there is one   *)
(* follows from a least number of passes for which there were none.          *)

IsWalk(f, n, s, levels, l, side, desired, limit) ==
  f = [i \in 0..n |-> IF i = 0 THEN Unfilled(s)
                      ELSE Take(f[i - 1], s, l, side, levels[i], desired, limit)]

LEMMA WalkExists ==
  ASSUME NEW s, NEW levels, NEW l, NEW side, NEW desired, NEW limit
  PROVE  \A n \in Nat : \E f : IsWalk(f, n, s, levels, l, side, desired, limit)
<1> DEFINE step(i, x) == Take(x, s, l, side, levels[i], desired, limit)
           Walked(f, n) == f = [i \in 0..n |-> IF i = 0 THEN Unfilled(s) ELSE step(i, f[i - 1])]
           Bad == {n \in Nat : ~(\E f : Walked(f, n))}
<1>1. Bad = {}
  <2> HIDE DEF step
  <2> SUFFICES ASSUME Bad # {} PROVE FALSE
    OBVIOUS
  <2>1. PICK m \in Bad : \A n \in Bad : m <= n
    BY LeastNatural
  <2>2. Walked([i \in 0..0 |-> Unfilled(s)], 0)
    OBVIOUS
  <2>3. m \in Nat /\ m # 0
    BY <2>1, <2>2
  <2>4. m - 1 \in Nat /\ m - 1 \notin Bad
    <3>1. m - 1 \in Nat /\ ~(m <= m - 1)
      BY <2>3
    <3> HIDE DEF Bad
    <3> QED
      BY <2>1, <3>1
  <2>5. PICK f : Walked(f, m - 1)
    BY <2>4
  <2> DEFINE g == [i \in 0..m |-> IF i = m THEN step(m, f[m - 1]) ELSE f[i]]
  <2>6. \A i \in 0..m : g[i] = IF i = 0 THEN Unfilled(s) ELSE step(i, g[i - 1])
    <3> SUFFICES ASSUME NEW i \in 0..m PROVE g[i] = IF i = 0 THEN Unfilled(s) ELSE step(i, g[i - 1])
      OBVIOUS
    <3>1. CASE i = m
      BY <2>3, <3>1
    <3>2. CASE i # m
      <4>1. i \in 0..(m - 1) /\ g[i] = f[i] /\ (i # 0 => g[i - 1] = f[i - 1])
        BY <2>3, <3>2
      <4>2. f[i] = IF i = 0 THEN Unfilled(s) ELSE step(i, f[i - 1])
        BY <2>5, <4>1
      <4> QED
        BY <4>1, <4>2
    <3> QED
      BY <3>1, <3>2
  <2>7. Walked(g, m)
    <3> HIDE DEF step
    <3>1. g = [i \in 0..m |-> g[i]]
      OBVIOUS
    <3> HIDE DEF g
    <3> QED
      BY <2>6, <3>1
  <2> QED
    BY <2>1, <2>7
<1> QED
  BY <1>1 DEF IsWalk

\* The walk as its passes.
LEMMA WalkPasses ==
  ASSUME NEW s, NEW levels, NEW l, NEW side, NEW desired, NEW limit, Len(levels) \in Nat
  PROVE  \E f : /\ f[0] = Unfilled(s)
                /\ \A i \in 1..Len(levels) :
                     f[i] = Take(f[i - 1], s, l, side, levels[i], desired, limit)
                /\ Walk(s, levels, l, side, desired, limit) = f[Len(levels)]
<1> DEFINE Walks(f) == IsWalk(f, Len(levels), s, levels, l, side, desired, limit)
           w == CHOOSE f : Walks(f)
<1>1. Walk(s, levels, l, side, desired, limit) = w[Len(levels)]
  BY Zenon DEF Walk, IsWalk
<1>2. Walks(w)
  <2>1. \E f : Walks(f)
    BY WalkExists
  <2> HIDE DEF Walks
  <2> QED
    BY <2>1, Zenon
<1> HIDE DEF w
<1>3. \A i \in 0..Len(levels) :
        w[i] = IF i = 0 THEN Unfilled(s) ELSE Take(w[i - 1], s, l, side, levels[i], desired, limit)
  BY <1>2, Zenon DEF IsWalk
<1>4. 0 \in 0..Len(levels) /\ \A i \in 1..Len(levels) : i \in 0..Len(levels) /\ i # 0
  OBVIOUS
<1> QED
  BY <1>1, <1>3, <1>4, Zenon

\* advance() as its passes.
IsAdvance(f, n, work) ==
  f = [i \in 0..n |-> IF i = 0 THEN work ELSE StageIfDue(f[i - 1])]

LEMMA AdvanceExists ==
  ASSUME NEW work
  PROVE  \A n \in Nat : \E f : IsAdvance(f, n, work)
<1> DEFINE Advanced(f, n) == f = [i \in 0..n |-> IF i = 0 THEN work ELSE StageIfDue(f[i - 1])]
           Bad == {n \in Nat : ~(\E f : Advanced(f, n))}
<1>1. Bad = {}
  <2> SUFFICES ASSUME Bad # {} PROVE FALSE
    OBVIOUS
  <2>1. PICK m \in Bad : \A n \in Bad : m <= n
    BY LeastNatural
  <2>2. Advanced([i \in 0..0 |-> work], 0)
    OBVIOUS
  <2>3. m \in Nat /\ m # 0
    BY <2>1, <2>2
  <2>4. m - 1 \in Nat /\ m - 1 \notin Bad
    <3>1. m - 1 \in Nat /\ ~(m <= m - 1)
      BY <2>3
    <3> HIDE DEF Bad
    <3> QED
      BY <2>1, <3>1
  <2>5. PICK f : Advanced(f, m - 1)
    BY <2>4
  <2> DEFINE g == [i \in 0..m |-> IF i = m THEN StageIfDue(f[m - 1]) ELSE f[i]]
  <2>6. \A i \in 0..m : g[i] = IF i = 0 THEN work ELSE StageIfDue(g[i - 1])
    <3> SUFFICES ASSUME NEW i \in 0..m PROVE g[i] = IF i = 0 THEN work ELSE StageIfDue(g[i - 1])
      OBVIOUS
    <3>1. CASE i = m
      BY <2>3, <3>1
    <3>2. CASE i # m
      <4>1. i \in 0..(m - 1) /\ g[i] = f[i] /\ (i # 0 => g[i - 1] = f[i - 1])
        BY <2>3, <3>2
      <4>2. f[i] = IF i = 0 THEN work ELSE StageIfDue(f[i - 1])
        BY <2>5, <4>1
      <4> QED
        BY <4>1, <4>2
    <3> QED
      BY <3>1, <3>2
  <2>7. Advanced(g, m)
    <3>1. g = [i \in 0..m |-> g[i]]
      OBVIOUS
    <3> HIDE DEF g
    <3> QED
      BY <2>6, <3>1
  <2> QED
    BY <2>1, <2>7
<1> QED
  BY <1>1 DEF IsAdvance

LEMMA AdvancePasses ==
  ASSUME NEW work, MaxGap \in Nat
  PROVE  \E f : /\ f[0] = work
                /\ \A i \in 1..(MaxGap + 1) : f[i] = StageIfDue(f[i - 1])
                /\ Advance(work) = f[MaxGap + 1]
<1> DEFINE Advances(f) == IsAdvance(f, MaxGap + 1, work)
           w == CHOOSE f : Advances(f)
<1>1. Advance(work) = w[MaxGap + 1]
  BY Zenon DEF Advance, IsAdvance
<1>2. Advances(w)
  <2>1. MaxGap + 1 \in Nat
    OBVIOUS
  <2>2. \E f : Advances(f)
    BY <2>1, AdvanceExists
  <2> HIDE DEF Advances
  <2> QED
    BY <2>2, Zenon
<1> HIDE DEF w
<1>3. \A i \in 0..(MaxGap + 1) : w[i] = IF i = 0 THEN work ELSE StageIfDue(w[i - 1])
  BY <1>2, Zenon DEF IsAdvance
<1>4. 0 \in 0..(MaxGap + 1) /\ \A i \in 1..(MaxGap + 1) : i \in 0..(MaxGap + 1) /\ i # 0
  OBVIOUS
<1> QED
  BY <1>1, <1>3, <1>4, Zenon

-----------------------------------------------------------------------------
(* fill(). *)

Fills == [quantity : Nat, cash : Nat, limit : Nat, consumed : [Level -> Nat]]

\* A walk that the study may do.
Walkable(s, levels, l, side, desired, limit) ==
  /\ IsFiniteSet(Price) /\ l \in Leg /\ side \in Side /\ desired \in Nat /\ limit \in Nat
  /\ s.consumed \in [Level -> Nat]
  /\ levels \in Seq(BookLevel) /\ Prices(levels) \subseteq Price

\* What holds after n levels.
Filled(d, n, s, levels, l, side, desired, limit) ==
  /\ d \in Fills
  /\ d.quantity <= desired
  /\ side = "buy" => d.cash <= d.quantity * limit
  /\ d.quantity = 0 => d.cash = 0
  /\ BoughtForNothing(s.consumed) => BoughtForNothing(d.consumed)
  /\ side = "buy" /\ d.quantity # 0 /\ d.cash = 0 => BoughtForNothing(d.consumed)
  /\ ConsumedOf(d.consumed, l, side) = ConsumedOf(s.consumed, l, side) + d.quantity
  /\ \A k \in Level : k[1] # l \/ k[2] # side => d.consumed[k] = s.consumed[k]
  /\ \A p \in Price : \/ d.consumed[<<l, side, p>>] = s.consumed[<<l, side, p>>]
                      \/ d.consumed[<<l, side, p>>] <= ShownAt(levels, n, p)

LEMMA ConsumedIsNatural ==
  ASSUME IsFiniteSet(Price), NEW consumed \in [Level -> Nat], NEW l \in Leg, NEW side \in Side
  PROVE  ConsumedOf(consumed, l, side) \in Nat
<1> DEFINE f == [p \in Price |-> consumed[<<l, side, p>>]]
<1>1. f \in [Price -> Nat]
  BY DEF Level
<1> HIDE DEF f
<1>2. SumOf(f) \in Nat
  BY <1>1, SumIsNatural
<1> QED
  BY <1>2 DEF ConsumedOf, f

\* One summand more.
OneMore(g, f, S, x, n) ==
  /\ IsFiniteSet(S) /\ x \notin S /\ n \in Nat /\ f \in [S -> Nat] /\ g \in [S \cup {x} -> Nat]
  /\ (\A y \in S : g[y] = f[y]) /\ g[x] = n

LEMMA OneMoreAdds ==
  ASSUME NEW f, NEW g, NEW S, NEW x, NEW n, OneMore(g, f, S, x, n)
  PROVE  SumOf(g) = SumOf(f) + n
BY SumWithOneMore DEF OneMore

\* One summand larger.
Adds(g, f, S, x, n) ==
  /\ IsFiniteSet(S) /\ x \in S /\ n \in Nat /\ f \in [S -> Nat] /\ g \in [S -> Nat]
  /\ (\A y \in S : y # x => g[y] = f[y]) /\ g[x] = f[x] + n

LEMMA SumAdds ==
  ASSUME NEW f, NEW g, NEW S, NEW x, NEW n, Adds(g, f, S, x, n)
  PROVE  SumOf(g) = SumOf(f) + n
<1>1. SumOf(f) \in Nat /\ SumOf(g) = SumOf(f) - f[x] + g[x]
  BY SumWithOneChanged DEF Adds
<1>2. f[x] \in Nat /\ n \in Nat /\ g[x] = f[x] + n
  BY DEF Adds
<1> QED
  BY <1>1, <1>2

\* Products of what is not negative.
LEMMA ScaledIsNatural ==
  ASSUME NEW q \in Nat, NEW p \in Nat
  PROVE  q * p \in Nat
OBVIOUS

LEMMA Scaled ==
  ASSUME NEW q \in Nat, NEW p \in Nat, NEW m \in Nat, p <= m
  PROVE  q * p <= q * m
<1>1. q * (m - p) >= 0 /\ q * (m - p) = q * m - q * p
  OBVIOUS
<1> QED
  BY <1>1

\* One level more.
LEMMA ShownNext ==
  ASSUME NEW levels \in Seq(BookLevel), NEW n \in 1..Len(levels), NEW p
  PROVE  /\ ShownAt(levels, n - 1, p) \in Nat /\ ShownAt(levels, n, p) \in Nat
         /\ ShownAt(levels, n, p) = ShownAt(levels, n - 1, p)
              + (IF levels[n].price = p THEN levels[n].quantity ELSE 0)
<1> DEFINE Visible(i) == IF levels[i].price = p THEN levels[i].quantity ELSE 0
           f == [i \in 1..(n - 1) |-> Visible(i)]
           g == [i \in 1..n |-> Visible(i)]
<1>1. n \in Nat /\ n - 1 \in Nat /\ \A i \in 1..n : i \in 1..Len(levels)
  OBVIOUS
<1>2. \A i \in 1..n : Visible(i) \in Nat
  <2> SUFFICES ASSUME NEW i \in 1..n PROVE Visible(i) \in Nat
    OBVIOUS
  <2>1. levels[i] \in BookLevel
    BY <1>1
  <2> QED
    BY <2>1 DEF BookLevel
<1> HIDE DEF Visible
<1>3. /\ 1..n = (1..(n - 1)) \cup {n} /\ n \notin 1..(n - 1) /\ n \in 1..n
      /\ \A i \in 1..(n - 1) : i \in 1..n
  OBVIOUS
<1>4. IsFiniteSet(1..(n - 1)) /\ IsFiniteSet(1..n)
  BY <1>1, FS_Interval
<1>5. f \in [1..(n - 1) -> Nat] /\ g \in [1..n -> Nat]
  BY <1>2, <1>3
<1>6. (\A i \in 1..(n - 1) : g[i] = f[i]) /\ g[n] = Visible(n) /\ Visible(n) \in Nat
  BY <1>2, <1>3
<1>7. g \in [(1..(n - 1)) \cup {n} -> Nat]
  BY <1>3, <1>5
<1> HIDE DEF f, g
<1>8. SumOf(g) = SumOf(f) + Visible(n)
  <2>1. OneMore(g, f, 1..(n - 1), n, Visible(n))
    BY <1>3, <1>4, <1>5, <1>6, <1>7 DEF OneMore
  <2> QED
    BY <2>1, OneMoreAdds
<1>9. SumOf(f) \in Nat /\ SumOf(g) \in Nat
  BY <1>4, <1>5, SumIsNatural
<1> QED
  BY <1>8, <1>9 DEF ShownAt, f, g, Visible

LEMMA QuantityIsNatural ==
  ASSUME NEW levels \in Seq(BookLevel), NEW p
  PROVE  QuantityAt(levels, p) \in Nat
<1>1. CASE Len(levels) = 0
  <2> DEFINE f == [i \in 1..0 |-> IF levels[i].price = p THEN levels[i].quantity ELSE 0]
  <2>1. \A i \in DOMAIN f : f[i] = 0
    OBVIOUS
  <2> HIDE DEF f
  <2>2. SumOf(f) = 0
    BY <2>1, SumOfZeros
  <2> QED
    BY <1>1, <2>2 DEF QuantityAt, ShownAt, f
<1>2. CASE Len(levels) # 0
  <2>1. Len(levels) \in 1..Len(levels)
    BY <1>2
  <2> QED
    BY <2>1, ShownNext DEF QuantityAt
<1> QED
  BY <1>1, <1>2

\* Nothing is taken yet.
LEMMA WalkStarts ==
  ASSUME NEW s, NEW levels, NEW l, NEW side, NEW desired, NEW limit,
         Walkable(s, levels, l, side, desired, limit)
  PROVE  Filled(Unfilled(s), 0, s, levels, l, side, desired, limit)
<1> DEFINE d == Unfilled(s)
<1>1. /\ s.consumed \in [Level -> Nat] /\ desired \in Nat /\ limit \in Nat
      /\ ConsumedOf(s.consumed, l, side) \in Nat
  BY ConsumedIsNatural DEF Walkable
<1>2. d \in Fills /\ d.quantity = 0 /\ d.cash = 0 /\ d.consumed = s.consumed
  BY <1>1 DEF Unfilled, Fills
<1> HIDE DEF d
<1>3. 0 * limit = 0
  BY <1>1
<1> QED
  BY <1>1, <1>2, <1>3 DEF Filled, d

Gave(c2, c, l, side, p, q) == c2 = [c EXCEPT ![<<l, side, p>>] = @ + q]

\* What one level gives adds to what the leg has given on this side.
LEMMA ConsumedGrows ==
  ASSUME IsFiniteSet(Price), NEW c \in [Level -> Nat], NEW l \in Leg, NEW side \in Side,
         NEW p \in Price, NEW q \in Nat, NEW c2, Gave(c2, c, l, side, p, q)
  PROVE  /\ c2 \in [Level -> Nat] /\ <<l, side, p>> \in Level
         /\ ConsumedOf(c2, l, side) = ConsumedOf(c, l, side) + q
         /\ c2[<<l, side, p>>] = c[<<l, side, p>>] + q
         /\ \A k \in Level : k # <<l, side, p>> => c2[k] = c[k]
         /\ BoughtForNothing(c) => BoughtForNothing(c2)
         /\ side = "buy" /\ p = 0 /\ q # 0 => BoughtForNothing(c2)
<1> DEFINE f == [x \in Price |-> c[<<l, side, x>>]]
           g == [x \in Price |-> c2[<<l, side, x>>]]
<1>1. \A x \in Price : <<l, side, x>> \in Level /\ (x # p => <<l, side, x>> # <<l, side, p>>)
  BY DEF Level
<1>2. /\ c2 \in [Level -> Nat] /\ <<l, side, p>> \in Level
      /\ c2[<<l, side, p>>] = c[<<l, side, p>>] + q
      /\ \A k \in Level : k # <<l, side, p>> => c2[k] = c[k]
  BY <1>1 DEF Gave
<1>3. f \in [Price -> Nat] /\ g \in [Price -> Nat]
  BY <1>1, <1>2
<1>4. (\A x \in Price : x # p => g[x] = f[x]) /\ g[p] = f[p] + q /\ f[p] \in Nat
  BY <1>1, <1>2
<1>5. ConsumedOf(c, l, side) = SumOf(f) /\ ConsumedOf(c2, l, side) = SumOf(g)
  BY DEF ConsumedOf
<1> HIDE DEF f, g
<1>6. SumOf(g) = SumOf(f) + q
  <2>1. Adds(g, f, Price, p, q)
    BY <1>3, <1>4 DEF Adds
  <2> QED
    BY <2>1, SumAdds
<1>7. BoughtForNothing(c) => BoughtForNothing(c2)
  <2> SUFFICES ASSUME NEW k \in Level, k[2] = "buy", k[3] = 0, c[k] # 0
               PROVE  c2[k] # 0
    BY Zenon DEF BoughtForNothing
  <2>1. CASE k = <<l, side, p>>
    BY <1>2, <2>1
  <2>2. CASE k # <<l, side, p>>
    BY <1>2, <2>2
  <2> QED
    BY <2>1, <2>2
<1>8. side = "buy" /\ p = 0 /\ q # 0 => BoughtForNothing(c2)
  <2> SUFFICES ASSUME side = "buy", p = 0, q # 0 PROVE BoughtForNothing(c2)
    OBVIOUS
  <2> DEFINE k == <<l, side, p>>
  <2>1. k \in Level /\ k[2] = "buy" /\ k[3] = 0
    BY <1>2
  <2>2. c[k] \in Nat /\ c2[k] = c[k] + q
    BY <1>2
  <2> HIDE DEF k
  <2>3. c2[k] # 0
    BY <2>2
  <2> QED
    BY <2>1, <2>3, Zenon DEF BoughtForNothing
<1> QED
  BY <1>2, <1>5, <1>6, <1>7, <1>8

\* One level, whatever it gives.
LEMMA TakeKeeps ==
  ASSUME NEW s, NEW levels, NEW l, NEW side, NEW desired, NEW limit,
         Walkable(s, levels, l, side, desired, limit),
         NEW n \in 1..Len(levels), NEW d, Filled(d, n - 1, s, levels, l, side, desired, limit)
  PROVE  Filled(Take(d, s, l, side, levels[n], desired, limit), n, s, levels, l, side, desired, limit)
<1> DEFINE level == levels[n]
           at == <<l, side, level.price>>
           left == Left(s, l, side, level)
           q == Smaller(desired - d.quantity, left)
           r == Take(d, s, l, side, level, desired, limit)
<1>1. /\ IsFiniteSet(Price) /\ l \in Leg /\ side \in Side /\ desired \in Nat /\ limit \in Nat
      /\ s.consumed \in [Level -> Nat] /\ levels \in Seq(BookLevel)
  BY DEF Walkable
<1>2. level.price \in Price /\ level.price \in Nat /\ level.quantity \in Nat
  <2>1. level \in BookLevel /\ level.price \in Prices(levels)
    BY <1>1 DEF Prices
  <2>2. level.price \in Nat /\ level.quantity \in Nat
    BY <2>1 DEF BookLevel
  <2> QED
    BY <2>1, <2>2 DEF Walkable
<1>3. /\ d \in Fills /\ d.quantity <= desired
      /\ (side = "buy" => d.cash <= d.quantity * limit)
      /\ (d.quantity = 0 => d.cash = 0)
      /\ (BoughtForNothing(s.consumed) => BoughtForNothing(d.consumed))
      /\ (side = "buy" /\ d.quantity # 0 /\ d.cash = 0 => BoughtForNothing(d.consumed))
      /\ ConsumedOf(d.consumed, l, side) = ConsumedOf(s.consumed, l, side) + d.quantity
      /\ \A k \in Level : k[1] # l \/ k[2] # side => d.consumed[k] = s.consumed[k]
      /\ \A p \in Price : \/ d.consumed[<<l, side, p>>] = s.consumed[<<l, side, p>>]
                          \/ d.consumed[<<l, side, p>>] <= ShownAt(levels, n - 1, p)
  BY DEF Filled
<1>4. d.quantity \in Nat /\ d.cash \in Nat /\ d.limit \in Nat /\ d.consumed \in [Level -> Nat]
  BY <1>3 DEF Fills
<1>5. at \in Level /\ s.consumed[at] \in Nat /\ d.consumed[at] \in Nat
  BY <1>1, <1>2, <1>4 DEF Level
<1>6. left = Positive(level.quantity - s.consumed[at]) /\ left \in Nat /\ q \in Nat
      /\ q <= desired - d.quantity /\ q <= left
  <2>1. left = Positive(level.quantity - s.consumed[at])
    BY DEF Left
  <2> HIDE DEF left, at, level
  <2>2. left \in Nat
    BY <1>2, <1>5, <2>1 DEF Positive
  <2>3. desired - d.quantity \in Nat
    BY <1>1, <1>3, <1>4
  <2> QED
    BY <2>1, <2>2, <2>3 DEF Smaller
<1>7. \A p \in Price : /\ ShownAt(levels, n - 1, p) \in Nat /\ ShownAt(levels, n, p) \in Nat
                       /\ ShownAt(levels, n, p) = ShownAt(levels, n - 1, p)
                            + (IF level.price = p THEN level.quantity ELSE 0)
  BY <1>1, ShownNext
<1>8. r = IF ~Reaches(side, limit, level.price) \/ q = 0 THEN d
          ELSE [quantity |-> d.quantity + q, cash |-> d.cash + q * level.price,
                limit |-> level.price, consumed |-> [d.consumed EXCEPT ![at] = @ + q]]
  BY DEF Take
<1>9. ConsumedOf(s.consumed, l, side) \in Nat
  BY <1>1, ConsumedIsNatural
<1> HIDE DEF level, at, left, q, r
<1>10. CASE ~Reaches(side, limit, level.price) \/ q = 0
  <2>1. r = d
    BY <1>8, <1>10
  <2>2. \A p \in Price : \/ d.consumed[<<l, side, p>>] = s.consumed[<<l, side, p>>]
                         \/ d.consumed[<<l, side, p>>] <= ShownAt(levels, n, p)
    <3> SUFFICES ASSUME NEW p \in Price, d.consumed[<<l, side, p>>] <= ShownAt(levels, n - 1, p)
                 PROVE  d.consumed[<<l, side, p>>] <= ShownAt(levels, n, p)
      BY <1>3
    <3>1. d.consumed[<<l, side, p>>] \in Nat
      BY <1>1, <1>4 DEF Level
    <3>2. ShownAt(levels, n - 1, p) <= ShownAt(levels, n, p)
      BY <1>2, <1>7
    <3> QED
      BY <1>7, <3>1, <3>2
  <2> QED
    BY <1>3, <2>1, <2>2 DEF Filled, level, r
<1>11. CASE Reaches(side, limit, level.price) /\ q # 0
  <2> DEFINE c2 == [d.consumed EXCEPT ![at] = @ + q]
  <2>1. /\ c2 \in [Level -> Nat]
        /\ ConsumedOf(c2, l, side) = ConsumedOf(d.consumed, l, side) + q
        /\ c2[at] = d.consumed[at] + q
        /\ \A k \in Level : k # at => c2[k] = d.consumed[k]
        /\ BoughtForNothing(d.consumed) => BoughtForNothing(c2)
        /\ side = "buy" /\ level.price = 0 => BoughtForNothing(c2)
    <3>1. Gave(c2, d.consumed, l, side, level.price, q)
      BY DEF at, Gave
    <3>2. at = <<l, side, level.price>>
      BY DEF at
    <3> HIDE DEF c2
    <3>3. /\ c2 \in [Level -> Nat]
          /\ ConsumedOf(c2, l, side) = ConsumedOf(d.consumed, l, side) + q
          /\ c2[<<l, side, level.price>>] = d.consumed[<<l, side, level.price>>] + q
          /\ \A k \in Level : k # <<l, side, level.price>> => c2[k] = d.consumed[k]
          /\ BoughtForNothing(d.consumed) => BoughtForNothing(c2)
          /\ side = "buy" /\ level.price = 0 => BoughtForNothing(c2)
      <4> DEFINE c == d.consumed
                 p == level.price
      <4>1. /\ IsFiniteSet(Price) /\ c \in [Level -> Nat] /\ l \in Leg /\ side \in Side
            /\ p \in Price /\ q \in Nat /\ q # 0 /\ Gave(c2, c, l, side, p, q)
        BY <1>1, <1>2, <1>4, <1>6, <1>11, <3>1
      <4> HIDE DEF c, p
      <4>2. /\ c2 \in [Level -> Nat]
            /\ ConsumedOf(c2, l, side) = ConsumedOf(c, l, side) + q
            /\ c2[<<l, side, p>>] = c[<<l, side, p>>] + q
            /\ \A k \in Level : k # <<l, side, p>> => c2[k] = c[k]
            /\ BoughtForNothing(c) => BoughtForNothing(c2)
            /\ side = "buy" /\ p = 0 => BoughtForNothing(c2)
        BY <4>1, ConsumedGrows
      <4> QED
        BY <4>2 DEF c, p
    <3> QED
      BY <3>2, <3>3, Zenon
  <2>2. /\ r.quantity = d.quantity + q /\ r.cash = d.cash + q * level.price
        /\ r.limit = level.price /\ r.consumed = c2
        /\ r = [quantity |-> r.quantity, cash |-> r.cash, limit |-> r.limit, consumed |-> r.consumed]
    BY <1>8, <1>11
  <2> HIDE DEF c2
  <2>3. q * level.price \in Nat
    BY <1>2, <1>6
  <2>4. r \in Fills /\ r.quantity # 0 /\ r.quantity <= desired
    <3>1. /\ r.quantity \in Nat /\ r.cash \in Nat /\ r.limit \in Nat /\ r.consumed \in [Level -> Nat]
          /\ r.quantity # 0 /\ r.quantity <= desired
      <4>1. q \in Nat /\ q # 0 /\ q <= desired - d.quantity
        BY <1>6, <1>11
      <4>2. d.quantity + q \in Nat /\ d.quantity + q # 0 /\ d.quantity + q <= desired
        BY <1>1, <1>4, <4>1
      <4>3. d.cash + q * level.price \in Nat
        BY <1>4, <2>3
      <4> QED
        BY <1>2, <2>1, <2>2, <4>2, <4>3
    <3> HIDE DEF r
    <3> QED
      BY <2>2, <3>1 DEF Fills
  <2>5. side = "buy" => r.cash <= r.quantity * limit
    <3> SUFFICES ASSUME side = "buy" PROVE r.cash <= r.quantity * limit
      OBVIOUS
    <3>1. level.price <= limit
      BY <1>11 DEF Reaches
    <3>2. q * level.price <= q * limit
      BY <1>1, <1>2, <1>6, <3>1, Scaled
    <3>3. (d.quantity + q) * limit = d.quantity * limit + q * limit
      BY <1>1, <1>4, <1>6
    <3>4. d.cash <= d.quantity * limit
      BY <1>3
    <3>5. d.quantity \in Nat /\ d.cash \in Nat /\ q \in Nat /\ limit \in Nat
      BY <1>1, <1>4, <1>6
    <3> DEFINE m == d.quantity
               cash == d.cash
               cost == q * level.price
               most == d.quantity * limit
               more == q * limit
    <3>6. most \in Nat /\ more \in Nat
      BY <3>5, ScaledIsNatural
    <3>7. /\ cash \in Nat /\ cost \in Nat /\ cost <= more
          /\ cash <= most /\ (m + q) * limit = most + more
      BY <2>3, <3>2, <3>3, <3>4, <3>5
    <3>8. r.quantity = m + q /\ r.cash = cash + cost
      BY <2>2
    <3> HIDE DEF m, cash, cost, most, more
    <3>9. cash + cost <= most + more
      BY <3>6, <3>7
    <3> QED
      BY <3>7, <3>8, <3>9
  <2>6. ConsumedOf(r.consumed, l, side) = ConsumedOf(s.consumed, l, side) + r.quantity
    BY <1>3, <1>4, <1>6, <1>9, <2>1, <2>2
  <2>7. \A k \in Level : k[1] # l \/ k[2] # side => r.consumed[k] = s.consumed[k]
    <3>1. at[1] = l /\ at[2] = side
      BY DEF at
    <3> QED
      BY <1>3, <2>1, <2>2, <3>1
  <2>8. \A p \in Price : \/ r.consumed[<<l, side, p>>] = s.consumed[<<l, side, p>>]
                         \/ r.consumed[<<l, side, p>>] <= ShownAt(levels, n, p)
    <3> SUFFICES ASSUME NEW p \in Price
                 PROVE  \/ r.consumed[<<l, side, p>>] = s.consumed[<<l, side, p>>]
                        \/ r.consumed[<<l, side, p>>] <= ShownAt(levels, n, p)
      OBVIOUS
    <3>1. CASE p = level.price
      <4>1. /\ ShownAt(levels, n - 1, p) \in Nat
            /\ ShownAt(levels, n, p) = ShownAt(levels, n - 1, p) + level.quantity
        BY <1>7, <3>1
      <4>2. at = <<l, side, p>> /\ r.consumed[at] = d.consumed[at] + q
        BY <2>1, <2>2, <3>1 DEF at
      <4>3. q <= level.quantity - s.consumed[at] /\ q <= level.quantity
        BY <1>2, <1>5, <1>6, <1>11 DEF Positive
      <4>4. d.consumed[at] = s.consumed[at] \/ d.consumed[at] <= ShownAt(levels, n - 1, p)
        BY <1>3, <4>2
      <4>5. /\ d.consumed[at] \in Nat /\ s.consumed[at] \in Nat /\ q \in Nat
            /\ level.quantity \in Nat
        BY <1>2, <1>5, <1>6
      <4> DEFINE shown == ShownAt(levels, n - 1, p)
                 before == s.consumed[at]
                 now == d.consumed[at]
                 here == level.quantity
      <4>6. /\ shown \in Nat /\ before \in Nat /\ now \in Nat /\ here \in Nat
            /\ q <= here - before /\ q <= here /\ (now = before \/ now <= shown)
            /\ ShownAt(levels, n, p) = shown + here /\ r.consumed[at] = now + q
        BY <4>1, <4>2, <4>3, <4>4, <4>5
      <4> HIDE DEF shown, before, now, here
      <4>7. now + q <= shown + here
        BY <4>5, <4>6
      <4> QED
        BY <4>2, <4>6, <4>7
    <3>2. CASE p # level.price
      <4>1. ShownAt(levels, n, p) = ShownAt(levels, n - 1, p)
        BY <1>7, <3>2
      <4>2. <<l, side, p>> \in Level /\ <<l, side, p>> # at
        BY <1>1, <3>2 DEF at, Level
      <4>3. r.consumed[<<l, side, p>>] = d.consumed[<<l, side, p>>]
        BY <2>1, <2>2, <4>2
      <4> QED
        BY <1>3, <4>1, <4>3
    <3> QED
      BY <3>1, <3>2
  <2>9. BoughtForNothing(s.consumed) => BoughtForNothing(r.consumed)
    BY <1>3, <2>1, <2>2
  <2>10. side = "buy" /\ r.cash = 0 => BoughtForNothing(r.consumed)
    <3> SUFFICES ASSUME side = "buy", r.cash = 0 PROVE level.price = 0
      BY <2>1, <2>2
    <3> DEFINE cost == q * level.price
    <3>1. cost \in Nat /\ d.cash \in Nat /\ d.cash + cost = 0
      BY <1>4, <2>2, <2>3
    <3> HIDE DEF cost
    <3>2. cost = 0
      BY <3>1
    <3>3. ASSUME level.price >= 1 PROVE FALSE
      <4>1. q * (level.price - 1) >= 0 /\ q * (level.price - 1) = q * level.price - q
        BY <1>2, <1>6, <3>3
      <4> QED
        BY <1>6, <1>11, <3>2, <4>1 DEF cost
    <3> QED
      BY <1>2, <3>3
  <2>11. Filled(r, n, s, levels, l, side, desired, limit)
    <3> HIDE DEF r
    <3> QED
      BY <2>4, <2>5, <2>6, <2>7, <2>8, <2>9, <2>10 DEF Filled
  <2> QED
    BY <2>11 DEF r, level
<1> QED
  BY <1>10, <1>11

\* The whole walk.
LEMMA WalkFills ==
  ASSUME NEW s, NEW levels, NEW l, NEW side, NEW desired, NEW limit,
         Walkable(s, levels, l, side, desired, limit)
  PROVE  Filled(Walk(s, levels, l, side, desired, limit), Len(levels),
                s, levels, l, side, desired, limit)
<1>1. Len(levels) \in Nat
  BY DEF Walkable
<1>2. PICK f : /\ f[0] = Unfilled(s)
               /\ \A i \in 1..Len(levels) :
                    f[i] = Take(f[i - 1], s, l, side, levels[i], desired, limit)
               /\ Walk(s, levels, l, side, desired, limit) = f[Len(levels)]
  BY <1>1, WalkPasses
<1> DEFINE Fits(n) == Filled(f[n], n, s, levels, l, side, desired, limit)
           Bad == {n \in 0..Len(levels) : ~Fits(n)}
<1>3. Fits(0)
  BY <1>2, WalkStarts
<1>4. ASSUME NEW n \in 1..Len(levels), Fits(n - 1) PROVE Fits(n)
  BY <1>2, <1>4, TakeKeeps
<1> HIDE DEF Fits
<1>5. Bad = {}
  <2> SUFFICES ASSUME Bad # {} PROVE FALSE
    OBVIOUS
  <2>1. Bad \in SUBSET Nat
    BY <1>1
  <2>2. PICK m \in Bad : \A n \in Bad : m <= n
    BY <2>1, LeastNatural
  <2>3. m \in 1..Len(levels)
    BY <1>1, <1>3, <2>2
  <2>4. m - 1 \in 0..Len(levels) /\ ~(m <= m - 1)
    BY <1>1, <2>3
  <2>5. m - 1 \notin Bad
    <3> HIDE DEF Bad
    <3> QED
      BY <2>2, <2>4
  <2>6. Fits(m - 1)
    BY <2>4, <2>5
  <2> QED
    BY <1>4, <2>2, <2>3, <2>6
<1>6. Fits(Len(levels))
  BY <1>1, <1>5
<1> QED
  BY <1>2, <1>6 DEF Fits

\* No level has given more than a book of its leg shows.
NeverReused(consumed) ==
  \A k \in Level : \E book \in Books[k[1]] : consumed[k] <= QuantityAt(book[k[2]], k[3])

\* What the study relies on when it fills an order.
FillSound(f, s, l, side, desired, limit) ==
  /\ f \in Fills
  /\ f.quantity <= desired
  /\ side = "buy" => f.cash <= f.quantity * limit
  /\ f.quantity = 0 => f.cash = 0
  /\ BoughtForNothing(s.consumed) => BoughtForNothing(f.consumed)
  /\ side = "buy" /\ f.quantity # 0 /\ f.cash = 0 => BoughtForNothing(f.consumed)
  /\ ConsumedOf(f.consumed, l, side) = ConsumedOf(s.consumed, l, side) + f.quantity
  /\ \A l2 \in Leg, side2 \in Side :
       l2 # l \/ side2 # side => ConsumedOf(f.consumed, l2, side2) = ConsumedOf(s.consumed, l2, side2)
  /\ NeverReused(s.consumed) => NeverReused(f.consumed)

Cached(books) == \A l \in Leg : books[l] = NoBook \/ books[l] \in Books[l]

LEMMA BookIsWalkable ==
  ASSUME BookConstants, NEW work, Cached(work.books), work.s.consumed \in [Level -> Nat],
         NEW l \in Leg, NEW side \in Side, NEW desired \in Nat, NEW limit \in Nat
  PROVE  Walkable(work.s, work.books[l][side], l, side, desired, limit)
<1>1. IsFiniteSet(Price)
  BY DEF BookConstants
<1>2. CASE work.books[l] = NoBook
  <2>1. work.books[l][side] = <<>>
    BY <1>2 DEF NoBook, Side
  <2>2. Prices(<<>>) = {} /\ <<>> \in Seq(BookLevel)
    BY DEF Prices
  <2> QED
    BY <1>1, <2>1, <2>2 DEF Walkable
<1>3. CASE work.books[l] \in Books[l]
  <2> DEFINE book == work.books[l]
  <2>1. book \in [buy : Seq(BookLevel), sell : Seq(BookLevel)]
    BY <1>3 DEF BookConstants
  <2>2. book.buy \in Seq(BookLevel) /\ book.sell \in Seq(BookLevel)
    BY <2>1
  <2>3. Prices(book.buy) \subseteq Price /\ Prices(book.sell) \subseteq Price
    <3>1. book \in UNION {Books[x] : x \in Leg}
      BY <1>3
    <3> HIDE DEF book
    <3> QED
      BY <3>1 DEF Price
  <2> HIDE DEF book
  <2>4. CASE side = "buy"
    BY <1>1, <2>1, <2>2, <2>3, <2>4 DEF Walkable, book
  <2>5. CASE side = "sell"
    BY <1>1, <2>1, <2>2, <2>3, <2>5 DEF Walkable, book
  <2> QED
    BY <2>4, <2>5 DEF Side
<1> QED
  BY <1>2, <1>3 DEF Cached

LEMMA FillIsSound ==
  ASSUME BookConstants, NEW work, Cached(work.books), work.s.consumed \in [Level -> Nat],
         NEW l \in Leg, NEW side \in Side, NEW desired \in Nat, NEW limit \in Nat
  PROVE  FillSound(Fill(work, l, side, desired, limit), work.s, l, side, desired, limit)
<1> DEFINE levels == work.books[l][side]
           s == work.s
           f == Fill(work, l, side, desired, limit)
<1>1. Walkable(s, levels, l, side, desired, limit)
  BY BookIsWalkable
<1>2. f = Walk(s, levels, l, side, desired, limit)
  BY DEF Fill
<1>3. Filled(f, Len(levels), s, levels, l, side, desired, limit)
  BY <1>1, <1>2, WalkFills
<1>4. s.consumed \in [Level -> Nat] /\ f.consumed \in [Level -> Nat]
  BY <1>3 DEF Filled, Fills
<1>5. ASSUME work.books[l] = NoBook PROVE f.consumed = s.consumed
  <2>1. levels = <<>> /\ Len(levels) = 0 /\ Len(levels) \in Nat
    BY <1>5 DEF NoBook, Side
  <2>2. f = Unfilled(s)
    <3> HIDE DEF levels, s
    <3> QED
      BY <1>2, <2>1, WalkPasses
  <2> QED
    BY <2>2 DEF Unfilled
<1> HIDE DEF f
<1>6. \A l2 \in Leg, side2 \in Side :
        l2 # l \/ side2 # side => ConsumedOf(f.consumed, l2, side2) = ConsumedOf(s.consumed, l2, side2)
  <2> SUFFICES ASSUME NEW l2 \in Leg, NEW side2 \in Side, l2 # l \/ side2 # side
               PROVE  ConsumedOf(f.consumed, l2, side2) = ConsumedOf(s.consumed, l2, side2)
    OBVIOUS
  <2>1. \A p \in Price : f.consumed[<<l2, side2, p>>] = s.consumed[<<l2, side2, p>>]
    <3> SUFFICES ASSUME NEW p \in Price
                 PROVE  f.consumed[<<l2, side2, p>>] = s.consumed[<<l2, side2, p>>]
      OBVIOUS
    <3> DEFINE k == <<l2, side2, p>>
    <3>1. k \in Level /\ (k[1] # l \/ k[2] # side)
      BY DEF Level
    <3> HIDE DEF k
    <3>2. f.consumed[k] = s.consumed[k]
      BY <1>3, <3>1 DEF Filled
    <3> QED
      BY <3>2 DEF k
  <2>2. [p \in Price |-> f.consumed[<<l2, side2, p>>]] = [p \in Price |-> s.consumed[<<l2, side2, p>>]]
    BY <2>1
  <2> QED
    BY <2>2, Zenon DEF ConsumedOf
<1>7. ASSUME NeverReused(s.consumed) PROVE NeverReused(f.consumed)
  <2> SUFFICES ASSUME NEW k \in Level
               PROVE  \E book \in Books[k[1]] : f.consumed[k] <= QuantityAt(book[k[2]], k[3])
    BY DEF NeverReused
  <2>1. \E book \in Books[k[1]] : s.consumed[k] <= QuantityAt(book[k[2]], k[3])
    BY <1>7 DEF NeverReused
  <2>2. CASE f.consumed[k] = s.consumed[k]
    BY <2>1, <2>2
  <2>3. CASE f.consumed[k] # s.consumed[k]
    <3>1. k[1] = l /\ k[2] = side /\ k[3] \in Price /\ k = <<k[1], k[2], k[3]>>
      <4>1. k[1] = l /\ k[2] = side
        BY <1>3, <2>3 DEF Filled
      <4> QED
        BY <4>1 DEF Level
    <3>2. f.consumed[k] <= ShownAt(levels, Len(levels), k[3])
      <4>1. k = <<l, side, k[3]>>
        BY <3>1
      <4>2. \/ f.consumed[<<l, side, k[3]>>] = s.consumed[<<l, side, k[3]>>]
            \/ f.consumed[<<l, side, k[3]>>] <= ShownAt(levels, Len(levels), k[3])
        BY <1>3, <3>1 DEF Filled
      <4> QED
        BY <2>3, <4>1, <4>2
    <3>3. work.books[l] \in Books[l]
      <4>1. CASE work.books[l] = NoBook
        BY <1>5, <2>3, <4>1
      <4> QED
        BY <4>1 DEF Cached
    <3> QED
      BY <3>1, <3>2, <3>3 DEF QuantityAt
  <2> QED
    BY <2>2, <2>3
<1>8. /\ f \in Fills
      /\ f.quantity <= desired
      /\ (side = "buy" => f.cash <= f.quantity * limit)
      /\ (f.quantity = 0 => f.cash = 0)
      /\ (BoughtForNothing(s.consumed) => BoughtForNothing(f.consumed))
      /\ (side = "buy" /\ f.quantity # 0 /\ f.cash = 0 => BoughtForNothing(f.consumed))
      /\ ConsumedOf(f.consumed, l, side) = ConsumedOf(s.consumed, l, side) + f.quantity
  BY <1>3 DEF Filled
<1> QED
  BY <1>6, <1>7, <1>8 DEF FillSound, f

-----------------------------------------------------------------------------
(* What holds of a scenario s and its attempt a between two stages.          *)

Account ==
  [cash : Int, spent : Nat, received : Nat, floor : Nat, complete_cost : Nat, unwind_net : Int,
   reserved : Nat, attempts : Nat, completed : Nat, exited : Nat, empty : Nat, censored : Nat,
   halted : BOOLEAN, consumed : [Level -> Nat]]

Attempt ==
  [quantity : Nat \ {0}, spent : Nat, received : Nat, due : Int, limit : Nat, reserve : Nat,
   leg : 1..4, stage : {"buy_arrival", "buy_response", "sell_arrival", "sell_response"},
   holdings : [Leg -> Nat]]

Work ==
  [s : Account, a : Attempt \cup {NoAttempt}, books : [Leg -> {NoBook} \cup UNION {Books[l] : l \in Leg}]]

Spent(a) == IF a = NoAttempt THEN 0 ELSE a.spent
Received(a) == IF a = NoAttempt THEN 0 ELSE a.received
Held(a, l) == IF a = NoAttempt THEN 0 ELSE a.holdings[l]

\* Cash that the attempts that have ended, as they are counted, and the one
\* that has not do not explain.
Uncounted(s, a) ==
  s.cash - ((((Capital - s.complete_cost) + s.unwind_net) - Spent(a)) + Received(a))

\* Cash is the capital less what was paid plus what was received, over all
\* orders; over the attempts it may only be more, and only after an attempt that
\* was counted as empty and a purchase for nothing.
Money(s, a) ==
  /\ s.cash = (Capital - s.spent) + s.received
  /\ s.reserved <= s.cash
  /\ Uncounted(s, a) >= 0
  /\ Uncounted(s, a) # 0 => s.empty # 0 /\ BoughtForNothing(s.consumed)

\* What was bought of a leg and not sold is in the baskets held or the attempt's.
Contracts(s, a) ==
  \E m \in Nat :
    /\ s.floor = m * Payout
    /\ \A l \in Leg : ConsumedOf(s.consumed, l, "buy")
                        = (ConsumedOf(s.consumed, l, "sell") + m) + Held(a, l)

\* Every attempt has ended once or is open.
Counts(s, a) ==
  /\ s.attempts = (((s.completed + s.exited) + s.empty) + s.censored)
                    + (IF a # NoAttempt /\ s.censored = 0 THEN 1 ELSE 0)
  /\ s.censored # 0 => s.halted
  /\ s.halted => a # NoAttempt

Reservation(s, a) ==
  s.reserved # 0 => a # NoAttempt /\ a.stage \in {"buy_arrival", "buy_response"}

\* Only an attempt that has paid holds or has sold anything, unless it bought
\* for nothing.
Paid(s, a) ==
  a # NoAttempt /\ a.spent = 0 =>
    BoughtForNothing(s.consumed) \/ (a.received = 0 /\ \A l \in Leg : a.holdings[l] = 0)

Base(w) ==
  /\ w \in Work /\ Cached(w.books)
  /\ Money(w.s, w.a) /\ Contracts(w.s, w.a) /\ Counts(w.s, w.a)
  /\ Reservation(w.s, w.a) /\ Paid(w.s, w.a) /\ NeverReused(w.s.consumed)

\* The legs before n are bought, the others are not, and nothing is sold.
BuysFrom(a, n) ==
  /\ n \in Leg /\ a.received = 0
  /\ \A l \in Leg : (l < n => a.holdings[l] = a.quantity) /\ (l >= n => a.holdings[l] = 0)

\* What an order under way relies on.
Order(s, a) ==
  a # NoAttempt /\ ~s.halted =>
    /\ a.leg \in Leg
    /\ a.stage = "buy_arrival" =>
         s.reserved = a.reserve /\ a.reserve = a.quantity * a.limit /\ BuysFrom(a, a.leg)
    /\ a.stage = "buy_response" =>
         /\ a.received = 0
         /\ \A l \in Leg : (l < a.leg => a.holdings[l] = a.quantity) /\ (l > a.leg => a.holdings[l] = 0)

BasketInv(w) == Base(w) /\ Order(w.s, w.a)

\* An attempt under way.
UnderWay(w) == Base(w) /\ w.a # NoAttempt /\ ~w.s.halted

LEMMA AttemptIsOpen ==
  ASSUME NEW a \in Attempt
  PROVE  a # NoAttempt
<1>1. a.quantity # 0
  BY DEF Attempt
<1>2. NoAttempt.quantity = 0
  BY DEF NoAttempt
<1> QED
  BY <1>1, <1>2

LEMMA OpenFields ==
  ASSUME NEW w, UnderWay(w)
  PROVE  /\ w.s \in Account /\ w.a \in Attempt /\ w.a # NoAttempt /\ ~w.s.halted
         /\ Cached(w.books) /\ w = [s |-> w.s, a |-> w.a, books |-> w.books]
         /\ w.books \in [Leg -> {NoBook} \cup UNION {Books[l] : l \in Leg}]
         /\ Money(w.s, w.a) /\ Contracts(w.s, w.a) /\ Counts(w.s, w.a)
         /\ Reservation(w.s, w.a) /\ Paid(w.s, w.a) /\ NeverReused(w.s.consumed)
BY DEF UnderWay, Base, Work

\* send_exit() without a leg to sell.
LEMMA EndExitKeeps ==
  ASSUME BookConstants, Capital \in Nat, NEW w, UnderWay(w), w.s.reserved = 0
  PROVE  BasketInv(EndExit(w))
<1> DEFINE s == w.s
           a == w.a
           r == EndExit(w)
<1>1. /\ s \in Account /\ a \in Attempt /\ a # NoAttempt /\ ~s.halted /\ Cached(w.books)
      /\ w = [s |-> s, a |-> a, books |-> w.books]
      /\ w.books \in [Leg -> {NoBook} \cup UNION {Books[l] : l \in Leg}]
      /\ Money(s, a) /\ Contracts(s, a) /\ Counts(s, a) /\ Reservation(s, a) /\ Paid(s, a)
      /\ NeverReused(s.consumed) /\ s.reserved = 0
  BY OpenFields
<1>2. s.censored = 0
  BY <1>1 DEF Counts
<1>3. /\ a.spent \in Nat /\ a.received \in Nat /\ s.unwind_net \in Int /\ s.exited \in Nat /\ s.empty \in Nat
      /\ s.cash \in Int /\ s.complete_cost \in Nat /\ s.attempts \in Nat /\ s.completed \in Nat
      /\ s.reserved = 0 /\ s.spent \in Nat /\ s.received \in Nat
  BY <1>1 DEF Account, Attempt
<1>4. CASE \E l \in Leg : a.holdings[l] # 0
  <2> DEFINE s2 == [s EXCEPT !.halted = TRUE]
  <2>2. r = [s |-> s2, a |-> a, books |-> w.books]
    BY <1>4 DEF EndExit, With
  <2>3. s2 \in Account
    BY <1>1 DEF Account
  <2>4. /\ s2.cash = s.cash /\ s2.spent = s.spent /\ s2.received = s.received /\ s2.floor = s.floor
        /\ s2.complete_cost = s.complete_cost /\ s2.unwind_net = s.unwind_net
        /\ s2.reserved = s.reserved /\ s2.attempts = s.attempts /\ s2.completed = s.completed
        /\ s2.exited = s.exited /\ s2.empty = s.empty /\ s2.censored = s.censored
        /\ s2.halted /\ s2.consumed = s.consumed
    BY <1>1 DEF Account
  <2> HIDE DEF s2, s, a, r
  <2>5. /\ Money(s2, a) /\ Contracts(s2, a) /\ Counts(s2, a) /\ Reservation(s2, a) /\ Order(s2, a)
        /\ Paid(s2, a)
    BY <1>1, <2>4, Zenon DEF Money, Uncounted, Contracts, Counts, Reservation, Order, Paid
  <2> QED
    BY <1>1, <2>2, <2>3, <2>4, <2>5 DEF BasketInv, Base, Work, r
<1>5. CASE (\A l \in Leg : a.holdings[l] = 0) /\ a.spent # 0
  <2> DEFINE s2 == [s EXCEPT !.exited = @ + 1, !.unwind_net = @ + (a.received - a.spent)]
  <2>1. r = [s |-> s2, a |-> NoAttempt, books |-> w.books]
    BY <1>5 DEF EndExit, With
  <2>2. s2 \in Account
    <3>1. s.exited + 1 \in Nat /\ s.unwind_net + (a.received - a.spent) \in Int
      BY <1>3
    <3> DEFINE u == s.unwind_net + (a.received - a.spent)
               e == s.exited + 1
    <3>2. s2 = [s EXCEPT !.exited = e, !.unwind_net = u]
      OBVIOUS
    <3> HIDE DEF u, e, s2, s, a
    <3> QED
      BY <1>1, <3>1, <3>2 DEF Account, u, e
  <2>3. /\ s2.cash = s.cash /\ s2.spent = s.spent /\ s2.received = s.received /\ s2.floor = s.floor
        /\ s2.complete_cost = s.complete_cost /\ s2.unwind_net = s.unwind_net + (a.received - a.spent)
        /\ s2.reserved = s.reserved /\ s2.attempts = s.attempts /\ s2.completed = s.completed
        /\ s2.exited = s.exited + 1 /\ s2.empty = s.empty /\ s2.censored = s.censored
        /\ s2.halted = s.halted /\ s2.consumed = s.consumed
    BY <1>1 DEF Account
  <2> HIDE DEF s2, s, a, r
  <2>4. Money(s2, NoAttempt)
    BY <1>1, <1>3, <2>3 DEF Money, Uncounted, Spent, Received
  <2>5. Contracts(s2, NoAttempt)
    <3>1. \A l \in Leg : Held(a, l) = Held(NoAttempt, l)
      BY <1>1, <1>5 DEF Held
    <3> QED
      BY <1>1, <2>3, <3>1, Zenon DEF Contracts
  <2>6. Counts(s2, NoAttempt)
    BY <1>1, <1>2, <1>3, <2>3 DEF Counts
  <2>7. Reservation(s2, NoAttempt) /\ Paid(s2, NoAttempt) /\ Order(s2, NoAttempt) /\ NeverReused(s2.consumed)
    BY <1>1, <1>3, <2>3 DEF Reservation, Paid, Order
  <2> QED
    BY <1>1, <2>1, <2>2, <2>4, <2>5, <2>6, <2>7 DEF BasketInv, Base, Work, r
<1>6. CASE (\A l \in Leg : a.holdings[l] = 0) /\ a.spent = 0
  <2> DEFINE s2 == [s EXCEPT !.empty = @ + 1]
  <2>1. r = [s |-> s2, a |-> NoAttempt, books |-> w.books]
    BY <1>6 DEF EndExit, With
  <2>2. s2 \in Account
    BY <1>1, <1>3 DEF Account
  <2>3. /\ s2.cash = s.cash /\ s2.spent = s.spent /\ s2.received = s.received /\ s2.floor = s.floor
        /\ s2.complete_cost = s.complete_cost /\ s2.unwind_net = s.unwind_net
        /\ s2.reserved = s.reserved /\ s2.attempts = s.attempts /\ s2.completed = s.completed
        /\ s2.exited = s.exited /\ s2.empty = s.empty + 1 /\ s2.censored = s.censored
        /\ s2.halted = s.halted /\ s2.consumed = s.consumed
    BY <1>1 DEF Account
  <2> HIDE DEF s2, s, a, r
  <2>4. Money(s2, NoAttempt)
    <3>1. a.received = 0 \/ BoughtForNothing(s.consumed)
      BY <1>1, <1>6 DEF Paid
    <3>2. Uncounted(s2, NoAttempt) = Uncounted(s, a) + a.received /\ Uncounted(s, a) \in Int
      BY <1>1, <1>3, <1>6, <2>3 DEF Uncounted, Spent, Received
    <3>3. /\ s.cash = (Capital - s.spent) + s.received /\ s.reserved <= s.cash
          /\ Uncounted(s, a) >= 0
          /\ Uncounted(s, a) # 0 => s.empty # 0 /\ BoughtForNothing(s.consumed)
      BY <1>1 DEF Money
    <3>4. s2.empty # 0
      BY <1>3, <2>3
    <3> QED
      BY <1>3, <2>3, <3>1, <3>2, <3>3, <3>4 DEF Money
  <2>5. Contracts(s2, NoAttempt)
    <3>1. \A l \in Leg : Held(a, l) = Held(NoAttempt, l)
      BY <1>1, <1>6 DEF Held
    <3> QED
      BY <1>1, <2>3, <3>1, Zenon DEF Contracts
  <2>6. Counts(s2, NoAttempt)
    BY <1>1, <1>2, <1>3, <2>3 DEF Counts
  <2>7. Reservation(s2, NoAttempt) /\ Paid(s2, NoAttempt) /\ Order(s2, NoAttempt) /\ NeverReused(s2.consumed)
    BY <1>1, <1>3, <2>3 DEF Reservation, Paid, Order
  <2> QED
    BY <1>1, <2>1, <2>2, <2>4, <2>5, <2>6, <2>7 DEF BasketInv, Base, Work, r
<1> QED
  BY <1>4, <1>5, <1>6

\* An attempt that has sold or holds what it did may change its order.
LEMMA OrderChanges ==
  ASSUME NEW w, UnderWay(w), NEW s2 \in Account, NEW a2 \in Attempt,
         [s2 EXCEPT !.reserved = 0] = [w.s EXCEPT !.reserved = 0], s2.reserved <= s2.cash,
         a2.spent = w.a.spent, a2.received = w.a.received, a2.holdings = w.a.holdings,
         Reservation(s2, a2)
  PROVE  Base(With(w, s2, a2)) /\ UnderWay(With(w, s2, a2))
<1> DEFINE s == w.s
           a == w.a
           r == With(w, s2, a2)
<1>1. /\ s \in Account /\ a \in Attempt /\ a # NoAttempt /\ ~s.halted /\ Cached(w.books)
      /\ w.books \in [Leg -> {NoBook} \cup UNION {Books[l] : l \in Leg}]
      /\ Money(s, a) /\ Contracts(s, a) /\ Counts(s, a) /\ Paid(s, a)
      /\ NeverReused(s.consumed) /\ a2 # NoAttempt
  BY OpenFields, AttemptIsOpen
<1>2. r.s = s2 /\ r.a = a2 /\ r.books = w.books /\ r = [s |-> s2, a |-> a2, books |-> w.books]
  BY DEF With
<1>3. /\ s2.cash = s.cash /\ s2.spent = s.spent /\ s2.received = s.received /\ s2.floor = s.floor
      /\ s2.complete_cost = s.complete_cost /\ s2.unwind_net = s.unwind_net
      /\ s2.attempts = s.attempts /\ s2.completed = s.completed
      /\ s2.exited = s.exited /\ s2.empty = s.empty /\ s2.censored = s.censored
      /\ s2.halted = s.halted /\ s2.consumed = s.consumed
  BY <1>1 DEF Account
<1> HIDE DEF s, a, r
<1>4. Money(s2, a2)
  BY <1>1, <1>3, a2.spent = a.spent, a2.received = a.received DEF Money, Uncounted, Spent, Received, s, a
<1>5. Contracts(s2, a2)
  <2>1. \A l \in Leg : Held(a2, l) = Held(a, l)
    BY <1>1 DEF Held, a
  <2> QED
    BY <1>1, <1>3, <2>1, Zenon DEF Contracts
<1>6. Counts(s2, a2)
  BY <1>1, <1>3 DEF Counts
<1>7. Paid(s2, a2)
  BY <1>1, <1>3, Zenon DEF Paid, a
<1> QED
  BY <1>1, <1>2, <1>3, <1>4, <1>5, <1>6, <1>7 DEF Base, Work, UnderWay, r

\* send_exit() offers the next leg that is held, or ends.
LEMMA SendExitKeeps ==
  ASSUME BookConstants, Capital \in Nat, Delay \in Nat, NEW w, UnderWay(w), w.s.reserved = 0, NEW at \in Int
  PROVE  BasketInv(SendExit(w, at))
<1> DEFINE a == w.a
           held == {l \in Leg : l >= a.leg /\ a.holdings[l] # 0}
           next == CHOOSE l \in held : \A k \in held : l <= k
           a2 == [a EXCEPT !.leg = next, !.stage = "sell_arrival", !.due = at + Delay]
<1>1. CASE held = {}
  BY <1>1, EndExitKeeps DEF SendExit
<1>2. CASE held # {}
  <2>1. SendExit(w, at) = With(w, w.s, a2)
    BY <1>2 DEF SendExit
  <2>2. next \in Leg
    <3>1. held \in SUBSET Nat /\ held \subseteq Leg
      BY DEF Leg
    <3> HIDE DEF held
    <3>2. \E l \in held : \A k \in held : l <= k
      BY <1>2, <3>1, LeastNatural
    <3> QED
      BY <3>1, <3>2
  <2>3. /\ w.s \in Account /\ a \in Attempt /\ a # NoAttempt /\ ~w.s.halted /\ Money(w.s, a)
    BY OpenFields
  <2> HIDE DEF next
  <2>4. a2 \in Attempt /\ a2.spent = a.spent /\ a2.received = a.received /\ a2.holdings = a.holdings
        /\ a2.leg = next /\ a2.stage = "sell_arrival"
    <3>1. at + Delay \in Int /\ next \in 1..4
      BY <2>2 DEF Leg
    <3> DEFINE due == at + Delay
    <3>2. a2 = [a EXCEPT !.leg = next, !.stage = "sell_arrival", !.due = due]
      OBVIOUS
    <3> HIDE DEF due, a2, a
    <3> QED
      BY <2>3, <3>1, <3>2 DEF Attempt, due
  <2> HIDE DEF a2
  <2>5. Reservation(w.s, a2) /\ w.s.reserved <= w.s.cash
    BY <2>3 DEF Reservation, Money
  <2>6. Base(With(w, w.s, a2))
    BY <2>3, <2>4, <2>5, OrderChanges
  <2>7. Order(w.s, a2)
    BY <2>2, <2>4 DEF Order
  <2>8. With(w, w.s, a2).s = w.s /\ With(w, w.s, a2).a = a2
    BY DEF With
  <2> QED
    BY <2>1, <2>6, <2>7, <2>8 DEF BasketInv
<1> QED
  BY <1>1, <1>2

\* begin_exit() gives the reservation back and starts with the first leg.
LEMMA BeginExitKeeps ==
  ASSUME BookConstants, Capital \in Nat, Delay \in Nat, NEW w, UnderWay(w), NEW at \in Int
  PROVE  BasketInv(BeginExit(w, at))
<1> DEFINE s2 == [w.s EXCEPT !.reserved = 0]
           a2 == [w.a EXCEPT !.leg = 1]
<1>1. w.s \in Account /\ w.a \in Attempt /\ Money(w.s, w.a)
  BY OpenFields
<1>2. s2 \in Account /\ s2.reserved = 0 /\ s2.cash = w.s.cash
      /\ [s2 EXCEPT !.reserved = 0] = [w.s EXCEPT !.reserved = 0]
  BY <1>1 DEF Account
<1>3. a2 \in Attempt /\ a2.spent = w.a.spent /\ a2.received = w.a.received /\ a2.holdings = w.a.holdings
  BY <1>1 DEF Attempt
<1>4. s2.reserved <= s2.cash
  <2>1. w.s.reserved \in Nat /\ w.s.cash \in Int /\ w.s.reserved <= w.s.cash
    BY <1>1 DEF Account, Money
  <2> QED
    BY <1>2, <2>1
<1> HIDE DEF s2, a2
<1>5. Reservation(s2, a2)
  BY <1>2 DEF Reservation
<1>6. UnderWay(With(w, s2, a2))
  BY <1>2, <1>3, <1>4, <1>5, OrderChanges
<1>7. With(w, s2, a2).s.reserved = 0
  BY <1>2 DEF With
<1>8. BeginExit(w, at) = SendExit(With(w, s2, a2), at)
  BY DEF BeginExit, s2, a2
<1> QED
  BY <1>6, <1>7, <1>8, SendExitKeeps

\* send_buy() reserves what the next order may cost, or gives up.
LEMMA SendBuyKeeps ==
  ASSUME BookConstants, Capital \in Nat, Delay \in Nat, NEW w, UnderWay(w), BuysFrom(w.a, w.a.leg),
         NEW at \in Int
  PROVE  BasketInv(SendBuy(w, at))
<1> DEFINE s == w.s
           a == w.a
           current == Fill(w, a.leg, "buy", a.quantity, AnyPrice.buy)
           reserve == a.quantity * current.limit
           s2 == [s EXCEPT !.reserved = reserve]
           a2 == [a EXCEPT !.limit = current.limit, !.reserve = reserve,
                           !.stage = "buy_arrival", !.due = at + Delay]
<1>1. /\ s \in Account /\ a \in Attempt /\ a # NoAttempt /\ ~s.halted /\ Cached(w.books)
  BY OpenFields
<1>2. a.leg \in Leg /\ a.quantity \in Nat /\ s.consumed \in [Level -> Nat]
  BY <1>1 DEF BuysFrom, Attempt, Account
<1>3. current.limit \in Nat
  <2>1. AnyPrice.buy \in Nat /\ "buy" \in Side
    BY DEF AnyPrice, Side
  <2>2. FillSound(current, s, a.leg, "buy", a.quantity, AnyPrice.buy)
    BY <1>1, <1>2, <2>1, FillIsSound
  <2> HIDE DEF current
  <2> QED
    BY <2>2 DEF FillSound, Fills
<1>4. reserve \in Nat
  <2> HIDE DEF current
  <2> QED
    BY <1>2, <1>3
<1>5. SendBuy(w, at) = BeginExit(w, at) \/ (reserve <= s.cash /\ SendBuy(w, at) = With(w, s2, a2))
  BY DEF SendBuy, Funded
<1> HIDE DEF current, reserve
<1>6. CASE reserve <= s.cash /\ SendBuy(w, at) = With(w, s2, a2)
  <2>1. s2 \in Account /\ s2.reserved = reserve /\ s2.cash = s.cash /\ s2.halted = s.halted
        /\ [s2 EXCEPT !.reserved = 0] = [s EXCEPT !.reserved = 0]
    BY <1>1, <1>4 DEF Account
  <2>2. /\ a2 \in Attempt /\ a2.spent = a.spent /\ a2.received = a.received /\ a2.holdings = a.holdings
        /\ a2.quantity = a.quantity /\ a2.leg = a.leg /\ a2.stage = "buy_arrival"
        /\ a2.limit = current.limit /\ a2.reserve = reserve
    <3>1. at + Delay \in Int
      OBVIOUS
    <3> DEFINE due == at + Delay
               limit == current.limit
    <3>2. a2 = [a EXCEPT !.limit = limit, !.reserve = reserve, !.stage = "buy_arrival", !.due = due]
      OBVIOUS
    <3> HIDE DEF due, limit, a2, a
    <3> QED
      BY <1>1, <1>3, <1>4, <3>1, <3>2 DEF Attempt, due, limit
  <2>3. Reservation(s2, a2)
    BY <2>2, AttemptIsOpen DEF Reservation
  <2> HIDE DEF s2, a2
  <2>4. Base(With(w, s2, a2))
    BY <1>6, <2>1, <2>2, <2>3, OrderChanges
  <2>5. Order(s2, a2)
    BY <1>2, <2>1, <2>2 DEF Order, BuysFrom, reserve
  <2>6. With(w, s2, a2).s = s2 /\ With(w, s2, a2).a = a2
    BY DEF With
  <2> QED
    BY <1>6, <2>4, <2>5, <2>6 DEF BasketInv
<1> QED
  BY <1>5, <1>6, BeginExitKeeps

-----------------------------------------------------------------------------
(* The stages of an order.                                                   *)

\* A purchase is paid from its reservation and adds to the leg.
LEMMA BuyArrivalKeeps ==
  ASSUME BookConstants, Capital \in Nat, Delay \in Nat, NEW w, UnderWay(w), Order(w.s, w.a),
         w.a.stage = "buy_arrival"
  PROVE  BasketInv(BuyArrival(w))
<1> DEFINE s == w.s
           a == w.a
           f == Fill(w, a.leg, "buy", a.quantity, a.limit)
           r == BuyArrival(w)
           cash == s.cash - f.cash
           spent == s.spent + f.cash
           reserved == a.reserve - f.cash
           held == [a.holdings EXCEPT ![a.leg] = @ + f.quantity]
           paid == a.spent + f.cash
           due == a.due + Delay
           s2 == [s EXCEPT !.cash = cash, !.spent = spent, !.reserved = reserved, !.consumed = f.consumed]
           a2 == [a EXCEPT !.holdings = held, !.spent = paid, !.stage = "buy_response", !.due = due]
<1>1. /\ s \in Account /\ a \in Attempt /\ a # NoAttempt /\ ~s.halted /\ Cached(w.books)
      /\ w.books \in [Leg -> {NoBook} \cup UNION {Books[l] : l \in Leg}]
      /\ Money(s, a) /\ Contracts(s, a) /\ Counts(s, a) /\ Paid(s, a) /\ NeverReused(s.consumed)
  BY OpenFields
<1>2. /\ a.leg \in Leg /\ s.reserved = a.reserve /\ a.reserve = a.quantity * a.limit /\ a.received = 0
      /\ \A l \in Leg : (l < a.leg => a.holdings[l] = a.quantity) /\ (l >= a.leg => a.holdings[l] = 0)
  BY <1>1 DEF Order, BuysFrom
<1>3. /\ a.quantity \in Nat /\ a.limit \in Nat /\ a.spent \in Nat /\ a.received \in Nat /\ a.due \in Int
      /\ a.holdings \in [Leg -> Nat] /\ a.reserve \in Nat
      /\ s.cash \in Int /\ s.spent \in Nat /\ s.received \in Nat /\ s.reserved \in Nat
      /\ s.complete_cost \in Nat /\ s.unwind_net \in Int /\ s.consumed \in [Level -> Nat]
  BY <1>1 DEF Account, Attempt
<1>4. FillSound(f, s, a.leg, "buy", a.quantity, a.limit)
  <2>1. "buy" \in Side
    BY DEF Side
  <2> QED
    BY <1>1, <1>2, <1>3, <2>1, FillIsSound
<1>5. r = With(w, s2, a2)
  BY DEF BuyArrival
<1> HIDE DEF f
<1>6. /\ f.quantity \in Nat /\ f.cash \in Nat /\ f.consumed \in [Level -> Nat] /\ f.quantity <= a.quantity
      /\ f.cash <= f.quantity * a.limit
      /\ (BoughtForNothing(s.consumed) => BoughtForNothing(f.consumed))
      /\ (f.quantity # 0 /\ f.cash = 0 => BoughtForNothing(f.consumed))
      /\ ConsumedOf(f.consumed, a.leg, "buy") = ConsumedOf(s.consumed, a.leg, "buy") + f.quantity
      /\ \A l \in Leg : l # a.leg => ConsumedOf(f.consumed, l, "buy") = ConsumedOf(s.consumed, l, "buy")
      /\ \A l \in Leg : ConsumedOf(f.consumed, l, "sell") = ConsumedOf(s.consumed, l, "sell")
      /\ NeverReused(f.consumed)
  BY <1>1, <1>4 DEF FillSound, Fills, Side
<1>7. f.cash <= a.reserve
  <2>1. f.quantity * a.limit <= a.quantity * a.limit
    <3>1. a.limit * f.quantity <= a.limit * a.quantity
      BY <1>3, <1>6, Scaled
    <3>2. a.limit * f.quantity = f.quantity * a.limit /\ a.limit * a.quantity = a.quantity * a.limit
      BY <1>3, <1>6
    <3> QED
      BY <3>1, <3>2
  <2> DEFINE x == f.quantity * a.limit
             y == a.quantity * a.limit
  <2>2. x \in Nat /\ y \in Nat
    BY <1>3, <1>6
  <2>3. f.cash <= x /\ x <= y /\ a.reserve = y
    BY <1>2, <1>6, <2>1
  <2> HIDE DEF x, y
  <2> QED
    BY <1>6, <2>2, <2>3
<1>8. cash \in Int /\ spent \in Nat /\ reserved \in Nat /\ paid \in Nat /\ due \in Int /\ held \in [Leg -> Nat]
  BY <1>2, <1>3, <1>6, <1>7
<1>9. /\ s2 \in Account
      /\ s2.cash = cash /\ s2.spent = spent /\ s2.received = s.received /\ s2.floor = s.floor
      /\ s2.complete_cost = s.complete_cost /\ s2.unwind_net = s.unwind_net
      /\ s2.reserved = reserved /\ s2.attempts = s.attempts /\ s2.completed = s.completed
      /\ s2.exited = s.exited /\ s2.empty = s.empty /\ s2.censored = s.censored
      /\ s2.halted = s.halted /\ s2.consumed = f.consumed
  <2> HIDE DEF s, cash, spent, reserved
  <2> QED
    BY <1>1, <1>6, <1>8 DEF Account
<1>10. /\ a2 \in Attempt /\ a2.spent = paid /\ a2.received = a.received /\ a2.holdings = held
       /\ a2.quantity = a.quantity /\ a2.leg = a.leg /\ a2.stage = "buy_response"
  <2> HIDE DEF a, held, paid, due
  <2> QED
    BY <1>1, <1>8 DEF Attempt
<1>11. a2 # NoAttempt
  BY <1>10, AttemptIsOpen
<1>12. held[a.leg] = a.holdings[a.leg] + f.quantity /\ \A l \in Leg : l # a.leg => held[l] = a.holdings[l]
  BY <1>2, <1>3
<1> HIDE DEF s2, a2, r
<1>13. Money(s2, a2)
  <2>1. /\ s.cash = (Capital - s.spent) + s.received /\ s.reserved <= s.cash
        /\ Uncounted(s, a) >= 0
        /\ Uncounted(s, a) # 0 => s.empty # 0 /\ BoughtForNothing(s.consumed)
    BY <1>1 DEF Money
  <2>2. cash = (Capital - spent) + s.received /\ reserved <= cash
    BY <1>2, <1>3, <1>6, <2>1
  <2>3. Uncounted(s2, a2) = Uncounted(s, a)
    BY <1>1, <1>3, <1>6, <1>9, <1>10, <1>11 DEF Uncounted, Spent, Received
  <2> QED
    BY <1>6, <1>9, <2>1, <2>2, <2>3 DEF Money
<1>14. Contracts(s2, a2)
  <2>1. PICK m \in Nat :
          /\ s.floor = m * Payout
          /\ \A l \in Leg : ConsumedOf(s.consumed, l, "buy")
                              = (ConsumedOf(s.consumed, l, "sell") + m) + a.holdings[l]
    BY <1>1 DEF Contracts, Held
  <2>2. ASSUME NEW l \in Leg
        PROVE  ConsumedOf(f.consumed, l, "buy") = (ConsumedOf(f.consumed, l, "sell") + m) + held[l]
    <3>1. ConsumedOf(s.consumed, l, "sell") \in Nat /\ a.holdings[l] \in Nat
      BY <1>3, ConsumedIsNatural DEF BookConstants, Side
    <3>2. /\ ConsumedOf(s.consumed, l, "buy") = (ConsumedOf(s.consumed, l, "sell") + m) + a.holdings[l]
          /\ ConsumedOf(f.consumed, l, "sell") = ConsumedOf(s.consumed, l, "sell")
      BY <1>6, <2>1
    <3>3. CASE l = a.leg
      <4>1. /\ ConsumedOf(f.consumed, l, "buy") = ConsumedOf(s.consumed, l, "buy") + f.quantity
            /\ held[l] = a.holdings[l] + f.quantity
        BY <1>6, <1>12, <3>3
      <4> HIDE DEF held, a, s
      <4> QED
        BY <1>6, <3>1, <3>2, <4>1
    <3>4. CASE l # a.leg
      <4>1. /\ ConsumedOf(f.consumed, l, "buy") = ConsumedOf(s.consumed, l, "buy")
            /\ held[l] = a.holdings[l]
        BY <1>6, <1>12, <3>4
      <4> QED
        BY <3>2, <4>1
    <3> QED
      BY <3>3, <3>4
  <2>3. \A l \in Leg : Held(a2, l) = held[l]
    BY <1>10, <1>11 DEF Held
  <2> QED
    BY <1>9, <2>1, <2>2, <2>3 DEF Contracts
<1>15. Counts(s2, a2)
  BY <1>1, <1>9, <1>11 DEF Counts
<1>16. Paid(s2, a2)
  <2> SUFFICES ASSUME paid = 0, ~BoughtForNothing(f.consumed)
               PROVE  a.received = 0 /\ \A l \in Leg : held[l] = 0
    BY <1>9, <1>10 DEF Paid
  <2>1. a.spent = 0 /\ f.cash = 0
    BY <1>3, <1>6
  <2>2. f.quantity = 0 /\ ~BoughtForNothing(s.consumed)
    BY <1>6, <2>1
  <2>3. a.received = 0 /\ \A l \in Leg : a.holdings[l] = 0
    BY <1>1, <2>1, <2>2 DEF Paid
  <2>4. 0 + f.quantity = 0
    BY <2>2
  <2> QED
    BY <1>2, <1>12, <2>3, <2>4
<1>17. Reservation(s2, a2)
  BY <1>10, <1>11 DEF Reservation
<1>18. Order(s2, a2)
  <2>1. \A l \in Leg : (l < a.leg => held[l] = a.quantity) /\ (l > a.leg => held[l] = 0)
    <3> SUFFICES ASSUME NEW l \in Leg
                 PROVE  (l < a.leg => held[l] = a.quantity) /\ (l > a.leg => held[l] = 0)
      OBVIOUS
    <3>1. l \in Nat /\ a.leg \in Nat
      BY <1>2 DEF Leg
    <3> QED
      BY <1>2, <1>12, <3>1
  <2> QED
    BY <1>2, <1>10, <2>1 DEF Order
<1>19. r.s = s2 /\ r.a = a2 /\ r.books = w.books /\ r = [s |-> s2, a |-> a2, books |-> w.books]
  BY <1>5 DEF With
<1> QED
  BY <1>1, <1>6, <1>9, <1>10, <1>13, <1>14, <1>15, <1>16, <1>17, <1>18, <1>19 DEF BasketInv, Base, Work, r

\* A sale takes from the leg no more than it holds.
LEMMA SellArrivalKeeps ==
  ASSUME BookConstants, Capital \in Nat, Delay \in Nat, NEW w, UnderWay(w), Order(w.s, w.a),
         w.a.stage = "sell_arrival"
  PROVE  BasketInv(SellArrival(w))
<1> DEFINE s == w.s
           a == w.a
           f == Fill(w, a.leg, "sell", a.holdings[a.leg], AnyPrice.sell)
           r == SellArrival(w)
           cash == s.cash + f.cash
           received == s.received + f.cash
           held == [a.holdings EXCEPT ![a.leg] = @ - f.quantity]
           paid == a.received + f.cash
           due == a.due + Delay
           s2 == [s EXCEPT !.cash = cash, !.received = received, !.consumed = f.consumed]
           a2 == [a EXCEPT !.holdings = held, !.received = paid, !.stage = "sell_response", !.due = due]
<1>1. /\ s \in Account /\ a \in Attempt /\ a # NoAttempt /\ ~s.halted /\ Cached(w.books)
      /\ w.books \in [Leg -> {NoBook} \cup UNION {Books[l] : l \in Leg}]
      /\ Money(s, a) /\ Contracts(s, a) /\ Counts(s, a) /\ Paid(s, a) /\ Reservation(s, a)
      /\ NeverReused(s.consumed)
  BY OpenFields
<1>2. a.leg \in Leg
  BY <1>1 DEF Order
<1>3. /\ a.spent \in Nat /\ a.received \in Nat /\ a.due \in Int /\ a.holdings \in [Leg -> Nat]
      /\ a.holdings[a.leg] \in Nat
      /\ s.cash \in Int /\ s.spent \in Nat /\ s.received \in Nat /\ s.reserved \in Nat
      /\ s.complete_cost \in Nat /\ s.unwind_net \in Int /\ s.consumed \in [Level -> Nat]
  BY <1>1, <1>2 DEF Account, Attempt
<1>4. FillSound(f, s, a.leg, "sell", a.holdings[a.leg], AnyPrice.sell)
  <2>1. "sell" \in Side /\ AnyPrice.sell \in Nat
    BY DEF Side, AnyPrice
  <2> QED
    BY <1>1, <1>2, <1>3, <2>1, FillIsSound
<1>5. r = With(w, s2, a2)
  BY DEF SellArrival
<1> HIDE DEF f
<1>6. /\ f.quantity \in Nat /\ f.cash \in Nat /\ f.consumed \in [Level -> Nat]
      /\ f.quantity <= a.holdings[a.leg] /\ (f.quantity = 0 => f.cash = 0)
      /\ (BoughtForNothing(s.consumed) => BoughtForNothing(f.consumed))
      /\ ConsumedOf(f.consumed, a.leg, "sell") = ConsumedOf(s.consumed, a.leg, "sell") + f.quantity
      /\ \A l \in Leg : l # a.leg => ConsumedOf(f.consumed, l, "sell") = ConsumedOf(s.consumed, l, "sell")
      /\ \A l \in Leg : ConsumedOf(f.consumed, l, "buy") = ConsumedOf(s.consumed, l, "buy")
      /\ NeverReused(f.consumed)
  BY <1>1, <1>4 DEF FillSound, Fills, Side
<1>7. s.reserved = 0
  BY <1>1 DEF Reservation
<1>8. cash \in Int /\ received \in Nat /\ paid \in Nat /\ due \in Int /\ held \in [Leg -> Nat]
  BY <1>2, <1>3, <1>6
<1>9. /\ s2 \in Account
      /\ s2.cash = cash /\ s2.spent = s.spent /\ s2.received = received /\ s2.floor = s.floor
      /\ s2.complete_cost = s.complete_cost /\ s2.unwind_net = s.unwind_net
      /\ s2.reserved = s.reserved /\ s2.attempts = s.attempts /\ s2.completed = s.completed
      /\ s2.exited = s.exited /\ s2.empty = s.empty /\ s2.censored = s.censored
      /\ s2.halted = s.halted /\ s2.consumed = f.consumed
  <2> HIDE DEF s, cash, received
  <2> QED
    BY <1>1, <1>6, <1>8 DEF Account
<1>10. /\ a2 \in Attempt /\ a2.spent = a.spent /\ a2.received = paid /\ a2.holdings = held
       /\ a2.leg = a.leg /\ a2.stage = "sell_response"
  <2> HIDE DEF a, held, paid, due
  <2> QED
    BY <1>1, <1>8 DEF Attempt
<1>11. a2 # NoAttempt
  BY <1>10, AttemptIsOpen
<1>12. held[a.leg] = a.holdings[a.leg] - f.quantity /\ \A l \in Leg : l # a.leg => held[l] = a.holdings[l]
  BY <1>2, <1>3
<1> HIDE DEF s2, a2, r
<1>13. Money(s2, a2)
  <2>1. /\ s.cash = (Capital - s.spent) + s.received /\ s.reserved <= s.cash
        /\ Uncounted(s, a) >= 0
        /\ Uncounted(s, a) # 0 => s.empty # 0 /\ BoughtForNothing(s.consumed)
    BY <1>1 DEF Money
  <2>2. cash = (Capital - s.spent) + received /\ s.reserved <= cash
    BY <1>3, <1>6, <2>1
  <2>3. Uncounted(s2, a2) = Uncounted(s, a)
    BY <1>1, <1>3, <1>6, <1>9, <1>10, <1>11 DEF Uncounted, Spent, Received
  <2> QED
    BY <1>6, <1>9, <2>1, <2>2, <2>3 DEF Money
<1>14. Contracts(s2, a2)
  <2>1. PICK m \in Nat :
          /\ s.floor = m * Payout
          /\ \A l \in Leg : ConsumedOf(s.consumed, l, "buy")
                              = (ConsumedOf(s.consumed, l, "sell") + m) + a.holdings[l]
    BY <1>1 DEF Contracts, Held
  <2>2. ASSUME NEW l \in Leg
        PROVE  ConsumedOf(f.consumed, l, "buy") = (ConsumedOf(f.consumed, l, "sell") + m) + held[l]
    <3>1. ConsumedOf(s.consumed, l, "sell") \in Nat /\ a.holdings[l] \in Nat
      BY <1>3, ConsumedIsNatural DEF BookConstants, Side
    <3>2. /\ ConsumedOf(s.consumed, l, "buy") = (ConsumedOf(s.consumed, l, "sell") + m) + a.holdings[l]
          /\ ConsumedOf(f.consumed, l, "buy") = ConsumedOf(s.consumed, l, "buy")
      BY <1>6, <2>1
    <3>3. CASE l = a.leg
      <4>1. /\ ConsumedOf(f.consumed, l, "sell") = ConsumedOf(s.consumed, l, "sell") + f.quantity
            /\ held[l] = a.holdings[l] - f.quantity
        BY <1>6, <1>12, <3>3
      <4> HIDE DEF held, a, s
      <4> QED
        BY <1>6, <3>1, <3>2, <4>1
    <3>4. CASE l # a.leg
      <4>1. /\ ConsumedOf(f.consumed, l, "sell") = ConsumedOf(s.consumed, l, "sell")
            /\ held[l] = a.holdings[l]
        BY <1>6, <1>12, <3>4
      <4> QED
        BY <3>2, <4>1
    <3> QED
      BY <3>3, <3>4
  <2>3. \A l \in Leg : Held(a2, l) = held[l]
    BY <1>10, <1>11 DEF Held
  <2> QED
    BY <1>9, <2>1, <2>2, <2>3 DEF Contracts
<1>15. Counts(s2, a2)
  BY <1>1, <1>9, <1>11 DEF Counts
<1>16. Paid(s2, a2)
  <2> SUFFICES ASSUME a.spent = 0, ~BoughtForNothing(f.consumed)
               PROVE  paid = 0 /\ \A l \in Leg : held[l] = 0
    BY <1>9, <1>10 DEF Paid
  <2>1. a.received = 0 /\ \A l \in Leg : a.holdings[l] = 0
    BY <1>1, <1>6 DEF Paid
  <2>2. f.quantity = 0 /\ f.cash = 0
    <3>1. f.quantity <= 0
      BY <1>2, <1>6, <2>1
    <3> QED
      BY <1>6, <3>1
  <2>3. 0 - f.quantity = 0 /\ 0 + f.cash = 0
    BY <2>2
  <2> QED
    BY <1>2, <1>12, <2>1, <2>3
<1>17. Reservation(s2, a2)
  BY <1>7, <1>9 DEF Reservation
<1>18. Order(s2, a2)
  BY <1>2, <1>10 DEF Order
<1>19. r.s = s2 /\ r.a = a2 /\ r.books = w.books /\ r = [s |-> s2, a |-> a2, books |-> w.books]
  BY <1>5 DEF With
<1> QED
  BY <1>1, <1>6, <1>9, <1>10, <1>13, <1>14, <1>15, <1>16, <1>17, <1>18, <1>19 DEF BasketInv, Base, Work, r

\* A basket of which every leg was bought is held.
LEMMA HoldKeeps ==
  ASSUME BookConstants, Capital \in Nat, Payout \in Nat, NEW w, UnderWay(w), w.s.reserved = 0,
         w.a.received = 0, \A l \in Leg : w.a.holdings[l] = w.a.quantity
  PROVE  BasketInv(Hold(w))
<1> DEFINE s == w.s
           a == w.a
           r == Hold(w)
           floor == s.floor + a.quantity * Payout
           cost == s.complete_cost + a.spent
           completed == s.completed + 1
           s2 == [s EXCEPT !.floor = floor, !.complete_cost = cost, !.completed = completed]
<1>1. /\ s \in Account /\ a \in Attempt /\ a # NoAttempt /\ ~s.halted /\ Cached(w.books)
      /\ w.books \in [Leg -> {NoBook} \cup UNION {Books[l] : l \in Leg}]
      /\ Money(s, a) /\ Contracts(s, a) /\ Counts(s, a) /\ NeverReused(s.consumed)
      /\ a.received = 0 /\ s.reserved = 0
  BY OpenFields
<1>2. /\ a.spent \in Nat /\ a.quantity \in Nat /\ s.floor \in Nat /\ s.cash \in Int
      /\ s.completed \in Nat /\ s.complete_cost \in Nat /\ s.unwind_net \in Int /\ s.attempts \in Nat
      /\ s.exited \in Nat /\ s.empty \in Nat /\ s.spent \in Nat /\ s.received \in Nat
      /\ s.consumed \in [Level -> Nat]
  BY <1>1 DEF Account, Attempt
<1>3. r = [s |-> s2, a |-> NoAttempt, books |-> w.books]
  BY DEF Hold, With
<1>4. floor \in Nat /\ cost \in Nat /\ completed \in Nat
  BY <1>2
<1>5. /\ s2 \in Account
      /\ s2.cash = s.cash /\ s2.spent = s.spent /\ s2.received = s.received /\ s2.floor = floor
      /\ s2.complete_cost = cost /\ s2.unwind_net = s.unwind_net
      /\ s2.reserved = s.reserved /\ s2.attempts = s.attempts /\ s2.completed = completed
      /\ s2.exited = s.exited /\ s2.empty = s.empty /\ s2.censored = s.censored
      /\ s2.halted = s.halted /\ s2.consumed = s.consumed
  <2> HIDE DEF s, floor, cost, completed
  <2> QED
    BY <1>1, <1>4 DEF Account
<1> HIDE DEF s2, r
<1>6. Money(s2, NoAttempt)
  <2>1. /\ s.cash = (Capital - s.spent) + s.received /\ s.reserved <= s.cash
        /\ Uncounted(s, a) >= 0
        /\ Uncounted(s, a) # 0 => s.empty # 0 /\ BoughtForNothing(s.consumed)
    BY <1>1 DEF Money
  <2>2. Uncounted(s2, NoAttempt) = Uncounted(s, a)
    BY <1>1, <1>2, <1>5 DEF Uncounted, Spent, Received
  <2> QED
    BY <1>5, <2>1, <2>2 DEF Money
<1>7. Contracts(s2, NoAttempt)
  <2>1. PICK m \in Nat :
          /\ s.floor = m * Payout
          /\ \A l \in Leg : ConsumedOf(s.consumed, l, "buy")
                              = (ConsumedOf(s.consumed, l, "sell") + m) + a.holdings[l]
    BY <1>1 DEF Contracts, Held
  <2>2. m + a.quantity \in Nat /\ floor = (m + a.quantity) * Payout
    BY <1>2, <2>1
  <2>3. ASSUME NEW l \in Leg
        PROVE  ConsumedOf(s.consumed, l, "buy")
                 = (ConsumedOf(s.consumed, l, "sell") + (m + a.quantity)) + Held(NoAttempt, l)
    <3>1. ConsumedOf(s.consumed, l, "sell") \in Nat /\ a.holdings[l] = a.quantity
      BY <1>2, ConsumedIsNatural DEF BookConstants, Side
    <3>2. Held(NoAttempt, l) = 0
      BY DEF Held
    <3>3. ConsumedOf(s.consumed, l, "buy") = (ConsumedOf(s.consumed, l, "sell") + m) + a.quantity
      BY <2>1, <3>1
    <3> HIDE DEF s, a
    <3> QED
      BY <1>2, <3>1, <3>2, <3>3
  <2> DEFINE k == m + a.quantity
  <2>4. k \in Nat /\ s2.floor = k * Payout
    BY <1>5, <2>2
  <2>5. \A l \in Leg : ConsumedOf(s2.consumed, l, "buy")
                         = (ConsumedOf(s2.consumed, l, "sell") + k) + Held(NoAttempt, l)
    BY <1>5, <2>3
  <2> HIDE DEF k
  <2> QED
    BY <2>4, <2>5 DEF Contracts
<1>8. Counts(s2, NoAttempt)
  <2>1. s.censored = 0
    BY <1>1 DEF Counts
  <2>2. s.attempts = (((s.completed + s.exited) + s.empty) + 0) + 1
    BY <1>1, <2>1 DEF Counts
  <2> QED
    BY <1>1, <1>2, <1>5, <2>1, <2>2 DEF Counts
<1>9. Reservation(s2, NoAttempt) /\ Paid(s2, NoAttempt) /\ Order(s2, NoAttempt) /\ NeverReused(s2.consumed)
  BY <1>1, <1>5 DEF Reservation, Paid, Order
<1> QED
  BY <1>1, <1>3, <1>5, <1>6, <1>7, <1>8, <1>9 DEF BasketInv, Base, Work, r

\* The response to a purchase: the next leg, the basket, or the way out.
LEMMA BuyResponseKeeps ==
  ASSUME BookConstants, Capital \in Nat, Payout \in Nat, Delay \in Nat, NEW w, UnderWay(w),
         Order(w.s, w.a), w.a.stage = "buy_response"
  PROVE  BasketInv(BuyResponse(w))
<1> DEFINE s == w.s
           a == w.a
           s2 == [s EXCEPT !.reserved = 0]
           a2 == [a EXCEPT !.leg = @ + 1]
           free == With(w, s2, a)
           next == With(w, s2, a2)
<1>1. /\ s \in Account /\ a \in Attempt /\ a # NoAttempt /\ ~s.halted /\ Money(s, a)
      /\ a.due \in Int /\ a.quantity \in Nat
  BY OpenFields DEF Attempt
<1>2. /\ a.leg \in Leg /\ a.received = 0
      /\ \A l \in Leg : (l < a.leg => a.holdings[l] = a.quantity) /\ (l > a.leg => a.holdings[l] = 0)
  BY <1>1 DEF Order
<1>3. s2 \in Account /\ s2.reserved = 0 /\ s2.cash = s.cash
      /\ [s2 EXCEPT !.reserved = 0] = [s EXCEPT !.reserved = 0]
  BY <1>1 DEF Account
<1>4. s2.reserved <= s2.cash
  <2>1. s.reserved \in Nat /\ s.cash \in Int /\ s.reserved <= s.cash
    BY <1>1 DEF Account, Money
  <2> QED
    BY <1>3, <2>1
<1>5. /\ a2 \in Attempt /\ a2.spent = a.spent /\ a2.received = a.received
      /\ a2.holdings = a.holdings /\ a2.leg = a.leg + 1 /\ a2.quantity = a.quantity
  BY <1>1, <1>2 DEF Attempt, Leg
<1>6. free.s = s2 /\ free.a = a /\ next.s = s2 /\ next.a = a2
  BY DEF With
<1>7. BuyResponse(w) = IF ~LegBought(a) THEN BeginExit(free, a.due)
                       ELSE IF a.leg = 3 THEN Hold(free) ELSE SendBuy(next, a.due)
  BY <1>6 DEF BuyResponse
<1> HIDE DEF s2, a2
<1>8. Reservation(s2, a) /\ Reservation(s2, a2)
  BY <1>3 DEF Reservation
<1>9. UnderWay(free) /\ UnderWay(next)
  BY <1>1, <1>3, <1>4, <1>5, <1>8, OrderChanges
<1> HIDE DEF free, next
<1>10. CASE ~LegBought(a)
  <2> HIDE DEF a
  <2> QED
    BY <1>1, <1>7, <1>9, <1>10, BeginExitKeeps
<1>11. CASE LegBought(a) /\ a.leg = 3
  <2>1. \A l \in Leg : a.holdings[l] = a.quantity
    BY <1>2, <1>11 DEF LegBought, Leg
  <2> QED
    <3>1. /\ free.s.reserved = 0 /\ free.a.received = 0
          /\ \A l \in Leg : free.a.holdings[l] = free.a.quantity
      BY <1>2, <1>3, <1>6, <2>1
    <3>2. BuyResponse(w) = Hold(free)
      BY <1>7, <1>11
    <3> HIDE DEF a
    <3> QED
      BY <1>9, <3>1, <3>2, HoldKeeps
<1>12. CASE LegBought(a) /\ a.leg # 3
  <2>1. a2.leg \in Leg /\ \A l \in Leg : (l < a2.leg => a2.holdings[l] = a2.quantity)
                                         /\ (l >= a2.leg => a2.holdings[l] = 0)
    BY <1>2, <1>5, <1>12 DEF LegBought, Leg
  <2>2. BuysFrom(next.a, next.a.leg)
    BY <1>2, <1>5, <1>6, <2>1 DEF BuysFrom
  <2> QED
    BY <1>1, <1>7, <1>9, <1>12, <2>2, SendBuyKeeps
<1> QED
  BY <1>10, <1>11, <1>12

\* The response to a sale: the next leg, or the end.
LEMMA SellResponseKeeps ==
  ASSUME BookConstants, Capital \in Nat, Delay \in Nat, NEW w, UnderWay(w), Order(w.s, w.a),
         w.a.stage = "sell_response"
  PROVE  BasketInv(SellResponse(w))
<1> DEFINE s == w.s
           a == w.a
           a2 == [a EXCEPT !.leg = @ + 1]
           next == With(w, s, a2)
<1>1. /\ s \in Account /\ a \in Attempt /\ a # NoAttempt /\ ~s.halted /\ Money(s, a) /\ Reservation(s, a)
      /\ a.due \in Int
  BY OpenFields DEF Attempt
<1>2. a.leg \in Leg
  BY <1>1 DEF Order
<1>3. s.reserved = 0 /\ s.reserved <= s.cash
  BY <1>1 DEF Reservation, Money
<1>4. /\ a2 \in Attempt /\ a2.spent = a.spent /\ a2.received = a.received /\ a2.holdings = a.holdings
  BY <1>1, <1>2 DEF Attempt, Leg
<1> HIDE DEF a2
<1>5. Reservation(s, a2)
  BY <1>3 DEF Reservation
<1>6. UnderWay(next)
  BY <1>1, <1>3, <1>4, <1>5, OrderChanges
<1>7. next.s.reserved = 0
  BY <1>3 DEF With
<1>8. SellResponse(w) = SendExit(next, a.due)
  BY DEF SellResponse, a2
<1> HIDE DEF next, a
<1> QED
  BY <1>1, <1>6, <1>7, <1>8, SendExitKeeps

LEMMA StageKeeps ==
  ASSUME BookConstants, Capital \in Nat, Payout \in Nat, Delay \in Nat, NEW w, BasketInv(w)
  PROVE  BasketInv(StageIfDue(w))
<1>1. CASE w.a = NoAttempt \/ w.s.halted \/ ~(w.a.due <= 0)
  BY <1>1 DEF StageIfDue
<1>2. CASE ~(w.a = NoAttempt \/ w.s.halted) /\ w.a.due <= 0
  <2>1. StageIfDue(w) = Stage(w)
    BY <1>2 DEF StageIfDue
  <2>2. UnderWay(w) /\ Order(w.s, w.a)
    BY <1>2 DEF BasketInv, UnderWay
  <2>3. w.a.stage \in {"buy_arrival", "buy_response", "sell_arrival", "sell_response"}
    BY <2>2, OpenFields DEF Attempt
  <2>4. CASE w.a.stage = "buy_arrival"
    <3>1. Stage(w) = BuyArrival(w)
      BY <2>4 DEF Stage
    <3> QED
      BY <2>1, <2>2, <2>4, <3>1, BuyArrivalKeeps
  <2>5. CASE w.a.stage = "buy_response"
    <3>1. Stage(w) = BuyResponse(w)
      BY <2>5 DEF Stage
    <3> QED
      BY <2>1, <2>2, <2>5, <3>1, BuyResponseKeeps
  <2>6. CASE w.a.stage = "sell_arrival"
    <3>1. Stage(w) = SellArrival(w)
      BY <2>6 DEF Stage
    <3> QED
      BY <2>1, <2>2, <2>6, <3>1, SellArrivalKeeps
  <2>7. CASE w.a.stage = "sell_response"
    <3>1. Stage(w) = SellResponse(w)
      BY <2>7 DEF Stage
    <3> QED
      BY <2>1, <2>2, <2>7, <3>1, SellResponseKeeps
  <2> QED
    BY <2>3, <2>4, <2>5, <2>6, <2>7
<1> QED
  BY <1>1, <1>2

\* advance().
LEMMA AdvanceKeeps ==
  ASSUME BookConstants, Capital \in Nat, Payout \in Nat, Delay \in Nat, MaxGap \in Nat,
         NEW w, BasketInv(w)
  PROVE  BasketInv(Advance(w))
<1>1. PICK f : /\ f[0] = w
               /\ \A i \in 1..(MaxGap + 1) : f[i] = StageIfDue(f[i - 1])
               /\ Advance(w) = f[MaxGap + 1]
  BY AdvancePasses
<1> DEFINE Bad == {n \in 0..(MaxGap + 1) : ~BasketInv(f[n])}
<1>2. ASSUME NEW n \in 1..(MaxGap + 1), BasketInv(f[n - 1]) PROVE BasketInv(f[n])
  BY <1>1, <1>2, StageKeeps
<1>3. Bad = {}
  <2> SUFFICES ASSUME Bad # {} PROVE FALSE
    OBVIOUS
  <2>1. Bad \in SUBSET Nat
    OBVIOUS
  <2>2. PICK m \in Bad : \A n \in Bad : m <= n
    BY <2>1, LeastNatural
  <2>3. m \in 1..(MaxGap + 1)
    BY <1>1, <2>2
  <2>4. m - 1 \in 0..(MaxGap + 1) /\ ~(m <= m - 1)
    BY <2>3
  <2>5. m - 1 \notin Bad
    <3> HIDE DEF Bad
    <3> QED
      BY <2>2, <2>4
  <2>6. BasketInv(f[m - 1])
    BY <2>4, <2>5
  <2> QED
    BY <1>2, <2>2, <2>3, <2>6
<1>4. MaxGap + 1 \in 0..(MaxGap + 1)
  OBVIOUS
<1> QED
  BY <1>1, <1>3, <1>4

\* censor() stops an attempt where it is.
LEMMA CensorKeeps ==
  ASSUME NEW w, BasketInv(w)
  PROVE  BasketInv(Censor(w))
<1>1. CASE w.a = NoAttempt \/ w.s.halted
  BY <1>1 DEF Censor
<1>2. CASE w.a # NoAttempt /\ ~w.s.halted
  <2> DEFINE s == w.s
             a == w.a
             r == Censor(w)
             censored == s.censored + 1
             s2 == [s EXCEPT !.censored = censored, !.halted = TRUE]
  <2>1. UnderWay(w)
    BY <1>2 DEF BasketInv, UnderWay
  <2>2. /\ s \in Account /\ a \in Attempt /\ a # NoAttempt /\ ~s.halted /\ Cached(w.books)
        /\ w.books \in [Leg -> {NoBook} \cup UNION {Books[l] : l \in Leg}]
        /\ Money(s, a) /\ Contracts(s, a) /\ Counts(s, a) /\ Reservation(s, a) /\ Paid(s, a)
        /\ NeverReused(s.consumed)
    BY <2>1, OpenFields
  <2>3. r = [s |-> s2, a |-> a, books |-> w.books]
    BY <1>2 DEF Censor, With
  <2>4. s.censored = 0 /\ censored = 1
    BY <2>2 DEF Counts
  <2>5. /\ s2 \in Account
        /\ s2.cash = s.cash /\ s2.spent = s.spent /\ s2.received = s.received /\ s2.floor = s.floor
        /\ s2.complete_cost = s.complete_cost /\ s2.unwind_net = s.unwind_net
        /\ s2.reserved = s.reserved /\ s2.attempts = s.attempts /\ s2.completed = s.completed
        /\ s2.exited = s.exited /\ s2.empty = s.empty /\ s2.censored = 1
        /\ s2.halted /\ s2.consumed = s.consumed
    <3> HIDE DEF s, censored
    <3> QED
      BY <2>2, <2>4 DEF Account
  <2> HIDE DEF s2, r
  <2>6. Money(s2, a) /\ Contracts(s2, a) /\ Reservation(s2, a) /\ Order(s2, a) /\ Paid(s2, a)
    BY <2>2, <2>5, Zenon DEF Money, Uncounted, Contracts, Reservation, Order, Paid
  <2>7. Counts(s2, a)
    <3>1. /\ s.completed \in Nat /\ s.exited \in Nat /\ s.empty \in Nat
      BY <2>2 DEF Account
    <3>2. s.attempts = (((s.completed + s.exited) + s.empty) + 0) + 1
      BY <2>2, <2>4 DEF Counts
    <3> QED
      BY <2>2, <2>5, <3>1, <3>2 DEF Counts
  <2> QED
    BY <2>2, <2>3, <2>5, <2>6, <2>7 DEF BasketInv, Base, Work, r
<1> QED
  BY <1>1, <1>2

\* No order is affected by the books that are cached.
LEMMA BooksChange ==
  ASSUME NEW w, BasketInv(w), Cached(w.books),
         NEW books \in [Leg -> {NoBook} \cup UNION {Books[l] : l \in Leg}], Cached(books)
  PROVE  BasketInv([w EXCEPT !.books = books])
<1> DEFINE r == [w EXCEPT !.books = books]
<1>1. r \in Work /\ r.s = w.s /\ r.a = w.a /\ r.books = books
  BY DEF BasketInv, Base, Work
<1> HIDE DEF r
<1>2. BasketInv(r)
  BY <1>1 DEF BasketInv, Base
<1> QED
  BY <1>2 DEF r

\* A new attempt.
LEMMA DecisionsKeep ==
  ASSUME BookConstants, Capital \in Nat, Delay \in Nat, Cap \in Nat, NEW w, BasketInv(w),
         NEW r \in Decisions(w)
  PROVE  BasketInv(r)
<1>1. CASE r = w
  BY <1>1
<1>2. CASE r # w
  <2>1. /\ ~(w.s.halted \/ w.s.attempts >= MaxAttempts \/ w.a # NoAttempt)
        /\ \E q \in Sizes(w) :
             r = SendBuy(With(w, [w.s EXCEPT !.attempts = @ + 1], NewAttempt(q)), 0)
    BY <1>2 DEF Decisions
  <2>2. PICK q \in 1..Cap :
          r = SendBuy(With(w, [w.s EXCEPT !.attempts = @ + 1], NewAttempt(q)), 0)
    BY <2>1 DEF Sizes
  <2> DEFINE s == w.s
             a == NewAttempt(q)
             attempts == s.attempts + 1
             s2 == [s EXCEPT !.attempts = attempts]
             v == With(w, s2, a)
  <2>3. /\ s \in Account /\ Cached(w.books) /\ w.a = NoAttempt /\ ~s.halted
        /\ w.books \in [Leg -> {NoBook} \cup UNION {Books[l] : l \in Leg}]
        /\ Money(s, NoAttempt) /\ Contracts(s, NoAttempt) /\ Counts(s, NoAttempt)
        /\ Reservation(s, NoAttempt) /\ NeverReused(s.consumed)
    BY <2>1 DEF BasketInv, Base, Work
  <2>4. /\ a \in Attempt /\ a.quantity = q /\ a.spent = 0 /\ a.received = 0 /\ a.leg = 1
        /\ \A l \in Leg : a.holdings[l] = 0
    BY DEF NewAttempt, Attempt
  <2>5. a # NoAttempt
    BY <2>4, AttemptIsOpen
  <2>6. s.attempts \in Nat /\ attempts \in Nat
    BY <2>3 DEF Account
  <2>7. /\ s2 \in Account
        /\ s2.cash = s.cash /\ s2.spent = s.spent /\ s2.received = s.received /\ s2.floor = s.floor
        /\ s2.complete_cost = s.complete_cost /\ s2.unwind_net = s.unwind_net
        /\ s2.reserved = s.reserved /\ s2.attempts = attempts /\ s2.completed = s.completed
        /\ s2.exited = s.exited /\ s2.empty = s.empty /\ s2.censored = s.censored
        /\ s2.halted = s.halted /\ s2.consumed = s.consumed
    <3> HIDE DEF s, attempts
    <3> QED
      BY <2>3, <2>6 DEF Account
  <2>8. r = SendBuy(v, 0) /\ v = [s |-> s2, a |-> a, books |-> w.books]
    BY <2>2 DEF With
  <2> HIDE DEF s2, a, v
  <2>9. Money(s2, a)
    BY <2>3, <2>4, <2>5, <2>7 DEF Money, Uncounted, Spent, Received
  <2>10. Contracts(s2, a)
    <3>1. \A l \in Leg : Held(a, l) = Held(NoAttempt, l)
      BY <2>4, <2>5 DEF Held
    <3> QED
      BY <2>3, <2>7, <3>1, Zenon DEF Contracts
  <2>11. Counts(s2, a)
    <3>1. /\ s.completed \in Nat /\ s.exited \in Nat /\ s.empty \in Nat /\ s.censored = 0
      BY <2>3 DEF Account, Counts
    <3>2. s.attempts = (((s.completed + s.exited) + s.empty) + 0) + 0
      BY <2>3, <3>1 DEF Counts
    <3> QED
      BY <2>3, <2>5, <2>6, <2>7, <3>1, <3>2 DEF Counts
  <2>12. Reservation(s2, a) /\ Paid(s2, a) /\ NeverReused(s2.consumed)
    BY <2>3, <2>4, <2>7 DEF Reservation, Paid
  <2>13. UnderWay(v)
    BY <2>3, <2>4, <2>5, <2>7, <2>8, <2>9, <2>10, <2>11, <2>12 DEF UnderWay, Base, Work
  <2>14. BuysFrom(v.a, v.a.leg)
    BY <2>4, <2>8 DEF BuysFrom, Leg
  <2> QED
    BY <2>8, <2>13, <2>14, SendBuyKeeps
<1> QED
  BY <1>1, <1>2

-----------------------------------------------------------------------------
(* Records.                                                                  *)

Now == [s |-> scenario, a |-> attempt, books |-> markets]
StudyInv == BasketInv(Now)

LEMMA ElapsedKeeps ==
  ASSUME StudyInv, NEW dt \in Int
  PROVE  BasketInv(Elapsed(dt))
<1>1. /\ scenario \in Account /\ attempt \in Attempt \cup {NoAttempt} /\ Cached(markets)
      /\ markets \in [Leg -> {NoBook} \cup UNION {Books[l] : l \in Leg}]
      /\ Money(scenario, attempt) /\ Contracts(scenario, attempt) /\ Counts(scenario, attempt)
      /\ Reservation(scenario, attempt) /\ Paid(scenario, attempt) /\ NeverReused(scenario.consumed)
      /\ Order(scenario, attempt)
  BY DEF StudyInv, BasketInv, Base, Work, Now
<1>2. CASE attempt = NoAttempt \/ scenario.halted
  <2>1. Elapsed(dt) = [s |-> scenario, books |-> markets, a |-> attempt]
    BY <1>2 DEF Elapsed
  <2> QED
    BY <1>1, <2>1 DEF BasketInv, Base, Work
<1>3. CASE attempt # NoAttempt /\ ~scenario.halted
  <2> DEFINE due == attempt.due - dt
             a2 == [attempt EXCEPT !.due = due]
  <2>1. Elapsed(dt) = [s |-> scenario, books |-> markets, a |-> a2]
    BY <1>3 DEF Elapsed
  <2>2. attempt \in Attempt
    BY <1>1, <1>3
  <2>3. due \in Int
    BY <2>2 DEF Attempt
  <2>4. /\ a2 \in Attempt /\ a2.spent = attempt.spent /\ a2.received = attempt.received
        /\ a2.holdings = attempt.holdings /\ a2.quantity = attempt.quantity /\ a2.leg = attempt.leg
        /\ a2.stage = attempt.stage /\ a2.limit = attempt.limit /\ a2.reserve = attempt.reserve
    <3> HIDE DEF due
    <3> QED
      BY <2>2, <2>3 DEF Attempt
  <2>5. a2 # NoAttempt
    BY <2>4, AttemptIsOpen
  <2> HIDE DEF a2
  <2>6. Money(scenario, a2) /\ Counts(scenario, a2) /\ Reservation(scenario, a2) /\ Paid(scenario, a2)
    BY <1>1, <1>3, <2>4, <2>5, Zenon DEF Money, Uncounted, Spent, Received, Counts, Reservation, Paid
  <2>7. Contracts(scenario, a2)
    <3>1. \A l \in Leg : Held(a2, l) = Held(attempt, l)
      BY <1>3, <2>4, <2>5 DEF Held
    <3> QED
      BY <1>1, <3>1, Zenon DEF Contracts
  <2>8. Order(scenario, a2)
    BY <1>1, <1>3, <2>4, <2>5, Zenon DEF Order, BuysFrom
  <2> QED
    BY <1>1, <2>1, <2>4, <2>6, <2>7, <2>8 DEF BasketInv, Base, Work
<1> QED
  BY <1>2, <1>3

\* What a record does before its book is cached.
LEMMA ArriveKeeps ==
  ASSUME ExecutionConstants, StudyInv, NEW dt \in Int, NEW wall, NEW conn
  PROVE  BasketInv(Arrive(dt, wall, conn).work)
<1> DEFINE cut == dt > MaxGap \/ wall = "jump" \/ wall = "expired" \/ Lost(conn)
           checked == IF cut THEN Censor(Elapsed(dt)) ELSE Elapsed(dt)
           idle == status.broken \/ status.expired \/ cut
           advanced == IF idle THEN checked ELSE Advance(checked)
           work == IF Lost(conn) THEN [advanced EXCEPT !.books = [l \in Leg |-> NoBook]] ELSE advanced
<1>0. BookConstants /\ Capital \in Nat /\ Payout \in Nat /\ Delay \in Nat /\ MaxGap \in Nat
  BY DEF ExecutionConstants
<1>1. BasketInv(checked)
  BY ElapsedKeeps, CensorKeeps
<1>2. BasketInv(advanced)
  BY <1>0, <1>1, AdvanceKeeps
<1>3. BasketInv(work)
  <2> DEFINE none == [l \in Leg |-> NoBook]
  <2>1. none \in [Leg -> {NoBook} \cup UNION {Books[l] : l \in Leg}] /\ Cached(none)
    BY DEF Cached
  <2>2. Cached(advanced.books)
    BY <1>2 DEF BasketInv, Base
  <2> HIDE DEF none, advanced
  <2>3. BasketInv([advanced EXCEPT !.books = none])
    BY <1>2, <2>1, <2>2, BooksChange
  <2> QED
    BY <1>2, <2>3 DEF none
<1>4. Arrive(dt, wall, conn).work = work
  BY DEF Arrive
<1> QED
  BY <1>3, <1>4

\* One leg shows another book.
Shows(w, leg, book) == [w EXCEPT !.books[leg] = book]

LEMMA BookChanges ==
  ASSUME NEW w, BasketInv(w), NEW l \in Leg, NEW book, book = NoBook \/ book \in Books[l]
  PROVE  BasketInv(Shows(w, l, book))
<1> DEFINE books == [w.books EXCEPT ![l] = book]
<1>1. w \in Work /\ Cached(w.books)
      /\ w.books \in [Leg -> {NoBook} \cup UNION {Books[x] : x \in Leg}]
  BY DEF BasketInv, Base, Work
<1>2. books \in [Leg -> {NoBook} \cup UNION {Books[x] : x \in Leg}] /\ Cached(books)
  <2>1. book \in {NoBook} \cup UNION {Books[x] : x \in Leg}
    OBVIOUS
  <2> QED
    BY <1>1, <2>1 DEF Cached
<1>3. Shows(w, l, book) = [w EXCEPT !.books = books]
  BY DEF Shows
<1> HIDE DEF books
<1> QED
  BY <1>1, <1>2, <1>3, BooksChange

LEMMA StudyInit ==
  ASSUME ExecutionConstants, Init
  PROVE  StudyInv
<1> DEFINE none == [k \in Level |-> 0]
<1>0. BookConstants /\ Capital \in Nat /\ Payout \in Nat
  BY DEF ExecutionConstants
<1>1. /\ markets = [l \in Leg |-> NoBook] /\ attempt = NoAttempt
      /\ scenario = [cash |-> Capital, spent |-> 0, received |-> 0, floor |-> 0, complete_cost |-> 0,
                     unwind_net |-> 0, reserved |-> 0, attempts |-> 0, completed |-> 0, exited |-> 0,
                     empty |-> 0, censored |-> 0, halted |-> FALSE, consumed |-> none]
  BY DEF Init
<1>2. none \in [Level -> Nat]
  OBVIOUS
<1>3. NeverReused(none)
  <2> SUFFICES ASSUME NEW k \in Level
               PROVE  \E book \in Books[k[1]] : none[k] <= QuantityAt(book[k[2]], k[3])
    BY DEF NeverReused
  <2>1. k[1] \in Leg /\ k[2] \in Side
    BY DEF Level
  <2>2. PICK book \in Books[k[1]] : book \in [buy : Seq(BookLevel), sell : Seq(BookLevel)]
    BY <1>0, <2>1 DEF BookConstants
  <2>3. book[k[2]] \in Seq(BookLevel)
    BY <2>1, <2>2 DEF Side
  <2>4. QuantityAt(book[k[2]], k[3]) \in Nat
    BY <2>3, QuantityIsNatural
  <2> QED
    BY <2>4
<1>4. \A l \in Leg, side \in Side : ConsumedOf(none, l, side) = 0
  <2> SUFFICES ASSUME NEW l \in Leg, NEW side \in Side PROVE ConsumedOf(none, l, side) = 0
    OBVIOUS
  <2> DEFINE f == [p \in Price |-> none[<<l, side, p>>]]
  <2>1. DOMAIN f = Price /\ \A p \in Price : f[p] = 0
    BY DEF Level
  <2> HIDE DEF f
  <2>2. SumOf(f) = 0
    BY <2>1, SumOfZeros
  <2> QED
    BY <2>2 DEF ConsumedOf, f
<1> HIDE DEF none
<1>5. scenario \in Account
  BY <1>0, <1>1, <1>2 DEF Account
<1>6. Money(scenario, attempt)
  BY <1>0, <1>1 DEF Money, Uncounted, Spent, Received
<1>7. Contracts(scenario, attempt)
  <2>1. scenario.floor = 0 * Payout
    BY <1>0, <1>1
  <2>2. \A l \in Leg : ConsumedOf(scenario.consumed, l, "buy")
                         = (ConsumedOf(scenario.consumed, l, "sell") + 0) + Held(attempt, l)
    BY <1>1, <1>4 DEF Held, Side
  <2> QED
    BY <2>1, <2>2 DEF Contracts
<1>8. Counts(scenario, attempt) /\ Reservation(scenario, attempt) /\ Paid(scenario, attempt) /\ Order(scenario, attempt)
  BY <1>1 DEF Counts, Reservation, Paid, Order
<1>9. Cached(markets) /\ markets \in [Leg -> {NoBook} \cup UNION {Books[l] : l \in Leg}]
  BY <1>1 DEF Cached
<1>10. NeverReused(scenario.consumed)
  BY <1>1, <1>3
<1> QED
  BY <1>1, <1>5, <1>6, <1>7, <1>8, <1>9, <1>10 DEF StudyInv, BasketInv, Base, Work, Now

LEMMA StudyNext ==
  ASSUME ExecutionConstants, StudyInv, [Next]_vars
  PROVE  StudyInv'
<1>0. /\ BookConstants /\ Capital \in Nat /\ Payout \in Nat /\ Delay \in Nat /\ MaxGap \in Nat
      /\ Cap \in Nat
  BY DEF ExecutionConstants
<1>1. ASSUME NEW w, NEW next, BasketInv(w), Becomes(w, next) PROVE StudyInv'
  <2>1. w = [s |-> w.s, a |-> w.a, books |-> w.books]
    BY <1>1 DEF BasketInv, Base, Work
  <2>2. Now' = [s |-> w.s, a |-> w.a, books |-> w.books]
    BY <1>1 DEF Becomes, Now
  <2>3. Now' = w
    BY <2>1, <2>2, Zenon
  <2> QED
    BY <1>1, <2>3, Zenon DEF StudyInv
<1>2. ASSUME NEW reading \in Clocks, PlainRecord(reading[1], reading[2]) PROVE StudyInv'
  <2>1. reading[1] \in Int
    BY <1>0 DEF Clocks
  <2> QED
    BY <1>1, <1>2, <2>1, ArriveKeeps DEF PlainRecord
<1>3. ASSUME NEW reading \in Clocks, NEW opens, ConnectionRecord(reading[1], reading[2], opens)
      PROVE  StudyInv'
  <2>1. reading[1] \in Int
    BY <1>0 DEF Clocks
  <2> QED
    BY <1>1, <1>3, <2>1, ArriveKeeps DEF ConnectionRecord
<1>4. ASSUME NEW dt \in 0..MaxGap, BookRecord(dt) PROVE StudyInv'
  <2> DEFINE r == Arrive(dt, "ok", [connected |-> connected, fresh |-> FALSE])
  <2>1. BasketInv(r.work)
    BY <1>0, ArriveKeeps
  <2>2. PICK leg \in Leg :
          \E book \in Books[leg] :
             \E work \in Decisions(Shows(r.work, leg, book)) : Becomes(work, r.status)
    BY <1>4 DEF BookRecord, Shows
  <2> HIDE DEF r
  <2>3. PICK book \in Books[leg] :
          \E work \in Decisions(Shows(r.work, leg, book)) : Becomes(work, r.status)
    BY <2>2
  <2>4. BasketInv(Shows(r.work, leg, book))
    BY <2>1, BookChanges
  <2>5. PICK work \in Decisions(Shows(r.work, leg, book)) : Becomes(work, r.status)
    BY <2>3
  <2>6. BasketInv(work)
    BY <1>0, <2>4, <2>5, DecisionsKeep
  <2> QED
    BY <1>1, <2>5, <2>6
<1>5. ASSUME NEW l \in Leg, InvalidBookRecord(l) PROVE StudyInv'
  <2>1. BasketInv(Censor(Elapsed(0)))
    BY ElapsedKeeps, CensorKeeps
  <2>2. BasketInv(Shows(Censor(Elapsed(0)), l, NoBook))
    BY <2>1, BookChanges
  <2> QED
    BY <1>1, <1>5, <2>2 DEF InvalidBookRecord, Shows
<1>6. CASE FinishStudy
  <2>1. BasketInv(Censor(Elapsed(0)))
    BY ElapsedKeeps, CensorKeeps
  <2> QED
    BY <1>1, <1>6, <2>1 DEF FinishStudy
<1>7. CASE UNCHANGED vars
  BY <1>7 DEF vars, StudyInv, Now, BasketInv
<1> QED
  BY <1>2, <1>3, <1>4, <1>5, <1>6, <1>7 DEF Next

LEMMA StudyInvHolds ==
  ASSUME ExecutionConstants
  PROVE  Spec => []StudyInv
<1>1. Init => StudyInv
  BY StudyInit
<1>2. StudyInv /\ [Next]_vars => StudyInv'
  BY StudyNext
<1> QED
  BY <1>1, <1>2, PTL DEF Spec

\* So many payouts are that many baskets.
LEMMA PayoutsDivide ==
  ASSUME NEW m \in Nat, NEW d \in Nat \ {0}
  PROVE  (m * d) \div d = m
<1> DEFINE x == m * d
           q == x \div d
           r == x % d
<1>1. x \in Nat /\ x = m * d
  OBVIOUS
<1>2. q \in Nat /\ r \in 0..(d - 1) /\ x = d * q + r
  BY <1>1, Z3
<1>3. SUFFICES q = m
  OBVIOUS
<1> HIDE DEF x, q, r
<1> DEFINE k == m - q
<1>4. k \in Int /\ m = q + k
  BY <1>2
<1>5. d * m = d * q + d * k
  BY <1>2, <1>4
<1>6. d * k = r
  BY <1>1, <1>2, <1>5
<1> HIDE DEF k
<1>7. ~(k >= 1)
  <2> SUFFICES ASSUME k >= 1 PROVE FALSE
    OBVIOUS
  <2>1. d * (k - 1) >= 0 /\ d * (k - 1) = d * k - d
    BY <1>4
  <2> QED
    BY <1>2, <1>6, <2>1
<1>8. ~(k <= -1)
  <2> SUFFICES ASSUME k <= -1 PROVE FALSE
    OBVIOUS
  <2> DEFINE j == (0 - k) - 1
  <2>1. j \in Nat /\ k = (0 - j) - 1
    BY <1>4
  <2> HIDE DEF j
  <2> DEFINE e == d * j
  <2>2. e \in Nat
    BY <2>1
  <2>3. d * k = (0 - e) - d
    BY <2>1
  <2> HIDE DEF e
  <2>4. r = (0 - e) - d
    BY <1>6, <2>3
  <2> QED
    BY <1>2, <2>2, <2>4
<1> QED
  BY <1>2, <1>4, <1>7, <1>8

LEMMA ConsumedDomain ==
  ASSUME StudyInv
  PROVE  /\ DOMAIN scenario.consumed = Level /\ scenario \in Account
         /\ attempt \in Attempt \cup {NoAttempt}
         /\ \A l \in Leg, side \in Side :
              Consumed(l, side) = ConsumedOf(scenario.consumed, l, side)
  BY DEF StudyInv, BasketInv, Base, Work, Now, Account, Consumed

-----------------------------------------------------------------------------
(* What the study reports.                                                   *)

\* The ledger of basket_execution.cpp is sound after every record, for every
\* capital, payout, margin, delay and set of books: the cash is the capital less
\* what was spent plus what was received and is never negative, and what is
\* reserved is covered by it and belongs to a buy on its way or unanswered.
THEOREM BasketLedgerIsSound == ExecutionConstants => (Spec => []LedgerSound)
<1> SUFFICES ASSUME ExecutionConstants PROVE Spec => []LedgerSound
  OBVIOUS
<1>1. StudyInv => LedgerSound
  <2> SUFFICES ASSUME StudyInv PROVE LedgerSound
    OBVIOUS
  <2>1. Money(scenario, attempt) /\ Reservation(scenario, attempt) /\ scenario \in Account
    BY DEF StudyInv, BasketInv, Base, Work, Now
  <2>2. scenario.cash \in Int /\ scenario.reserved \in Nat
    BY <2>1 DEF Account
  <2> QED
    BY <2>1, <2>2 DEF LedgerSound, Money, Reservation
<1>2. Spec => []StudyInv
  BY StudyInvHolds
<1> QED
  BY <1>1, <1>2, PTL

\* Nothing is lost between the attempts, the contracts and the money of a study,
\* through failed legs, partial fills, sales of what was bought and a cut
\* observation: every attempt has ended exactly once or is open, every contract
\* bought and not sold is in a basket held or in the attempt's holdings, and
\* with no attempt open the cash is the capital less the cost of the baskets
\* held plus the result of the unwound attempts.  Prices of zero included: an
\* attempt that bought for nothing and sold counts as empty, and its proceeds are
\* the only cash these figures leave out; they never show more than there is.
THEOREM BasketAccountsAlwaysAddUp == ExecutionConstants => (Spec => []AccountsAddUp)
<1> SUFFICES ASSUME ExecutionConstants PROVE Spec => []AccountsAddUp
  OBVIOUS
<1>1. StudyInv => AccountsAddUp
  <2> SUFFICES ASSUME StudyInv PROVE AccountsAddUp
    OBVIOUS
  <2> DEFINE open == IF attempt # NoAttempt /\ scenario.censored = 0 THEN 1 ELSE 0
             held(l) == IF attempt = NoAttempt THEN 0 ELSE attempt.holdings[l]
  <2>1. /\ Money(scenario, attempt) /\ Contracts(scenario, attempt) /\ Counts(scenario, attempt)
        /\ scenario \in Account /\ attempt \in Attempt \cup {NoAttempt}
    BY DEF StudyInv, BasketInv, Base, Work, Now
  <2>2. scenario.attempts = scenario.completed + scenario.exited + scenario.empty + scenario.censored + open
    BY <2>1 DEF Counts
  <2>3. \A l \in Leg : Consumed(l, "buy") - Consumed(l, "sell") = (scenario.floor \div Payout) + held(l)
    <3>1. PICK m \in Nat :
            /\ scenario.floor = m * Payout
            /\ \A l \in Leg : ConsumedOf(scenario.consumed, l, "buy")
                                = (ConsumedOf(scenario.consumed, l, "sell") + m) + Held(attempt, l)
      BY <2>1 DEF Contracts
    <3>2. Payout \in Nat /\ Payout > 0
      BY DEF ExecutionConstants
    <3>3. scenario.floor \div Payout = m
      BY <3>1, <3>2, PayoutsDivide
    <3> SUFFICES ASSUME NEW l \in Leg
                 PROVE  Consumed(l, "buy") - Consumed(l, "sell") = m + held(l)
      BY <3>3
    <3> DEFINE bought == ConsumedOf(scenario.consumed, l, "buy")
               sold == ConsumedOf(scenario.consumed, l, "sell")
    <3>4. bought = (sold + m) + held(l)
      BY <3>1 DEF Held
    <3>5. sold \in Nat /\ held(l) \in Nat
      <4>1. IsFiniteSet(Price) /\ scenario.consumed \in [Level -> Nat] /\ "sell" \in Side
        BY <2>1 DEF ExecutionConstants, BookConstants, Account, Side
      <4>2. sold \in Nat
        BY <4>1, ConsumedIsNatural
      <4>3. held(l) \in Nat
        BY <2>1 DEF Attempt
      <4> QED
        BY <4>2, <4>3
    <3>6. Consumed(l, "buy") = bought /\ Consumed(l, "sell") = sold
      BY DEF Consumed
    <3> HIDE DEF bought, sold, held
    <3> QED
      BY <3>1, <3>4, <3>5, <3>6
  <2>4. attempt = NoAttempt =>
          /\ Unexplained(scenario) >= 0
          /\ Unexplained(scenario) # 0 => scenario.empty # 0 /\ BoughtForNothing(scenario.consumed)
    <3> SUFFICES ASSUME attempt = NoAttempt PROVE Unexplained(scenario) = Uncounted(scenario, attempt)
      BY <2>1 DEF Money
    <3>1. /\ scenario.complete_cost \in Int /\ scenario.unwind_net \in Int /\ scenario.cash \in Int
          /\ Capital \in Int
      BY <2>1 DEF Account, ExecutionConstants
    <3> QED
      BY <3>1 DEF Unexplained, Uncounted, Spent, Received
  <2> QED
    BY <2>2, <2>3, <2>4 DEF AccountsAddUp
<1>2. Spec => []StudyInv
  BY StudyInvHolds
<1> QED
  BY <1>1, <1>2, PTL

\* "No replenishment credit": whatever the record refreshes and however many
\* attempts buy and sell, fill() never takes more from a price level, over the
\* whole study, than the most that any book of its leg displays there.
THEOREM BasketLiquidityIsNeverReused == ExecutionConstants => (Spec => []LiquidityNeverReused)
<1> SUFFICES ASSUME ExecutionConstants PROVE Spec => []LiquidityNeverReused
  OBVIOUS
<1>1. StudyInv => LiquidityNeverReused
  BY ConsumedDomain DEF StudyInv, BasketInv, Base, Now, NeverReused, LiquidityNeverReused
<1>2. Spec => []StudyInv
  BY StudyInvHolds
<1> QED
  BY <1>1, <1>2, PTL

-----------------------------------------------------------------------------
(* What the observer keeps. *)

Tracked ==
  [status : Status, since : Nat, active : BOOLEAN, opened_at : Nat, left : BOOLEAN,
   eligible_before : BOOLEAN, episodes : Nat, durations : [Status -> Nat]]

Episode == [basket : Basket, episode : Nat, opened : Nat, closed : Nat, right : BOOLEAN]

Moment == Nat \cup {NoTime}

Observer ==
  [first : Moment, last : Moment, deadline : Moment, generation : Nat, expired : BOOLEAN,
   finished : BOOLEAN, failed : BOOLEAN, cache : [Markets -> Int], events : Nat, active : Nat,
   peak : Nat, union : Nat, union_since : Nat, baskets : [Basket -> Tracked],
   closed : SUBSET Episode]

ActiveIn(s) == {b \in Basket : s.baskets[b].active}

\* The time with an open episode is that of the episodes, up to the last change.
UnionFits(s) ==
  /\ s.union = Cardinality(Covered(s, Basket, s.union_since))
  /\ \A e \in s.closed : e.closed <= s.union_since
  /\ \A b \in Basket : s.baskets[b].active => s.baskets[b].opened_at <= s.union_since
  /\ s.active = Cardinality(ActiveIn(s))

\* So is a basket's own; and its time since the first frame is in one status each.
TimeFits(s, b) ==
  /\ s.baskets[b].durations["positive"] = Cardinality(Covered(s, {b}, s.baskets[b].since))
  /\ SumOf(s.baskets[b].durations) = s.baskets[b].since - s.first
  /\ \A e \in s.closed : e.basket = b => e.closed <= s.baskets[b].since
  /\ s.baskets[b].active => s.baskets[b].opened_at <= s.baskets[b].since

StatusFits(s, b) == s.baskets[b].active <=> s.baskets[b].status = "positive"

\* Nothing happens before the first frame.
Untouched(s) ==
  /\ s.closed = {} /\ s.union = 0 /\ s.deadline = NoTime /\ s.active = 0
  /\ \A b \in Basket : /\ ~s.baskets[b].active /\ s.baskets[b].status = "unavailable"
                       /\ s.baskets[b].durations = [v \in Status |-> 0]

\* A study that has begun and not failed, its times in order.
Accounted(s) ==
  /\ s \in Observer /\ ~s.failed /\ s.first # NoTime
  /\ UnionFits(s) /\ \A b \in Basket : TimeFits(s, b)

-----------------------------------------------------------------------------
(* Covered time. *)

LEMMA CoveredMember ==
  ASSUME NEW s, NEW bs, NEW t, NEW x
  PROVE  x \in Covered(s, bs, t) <=>
           \/ \E e \in s.closed : e.basket \in bs /\ x \in e.opened..(e.closed - 1)
           \/ \E b \in bs : s.baskets[b].active /\ x \in s.baskets[b].opened_at..(t - 1)
BY DEF Covered

\* What the episodes of some baskets cover ends by then.
EndsBy(s, bs, t) ==
  /\ \A e \in s.closed : e.basket \in bs => e.closed <= t
  /\ \A b \in bs : s.baskets[b].active => s.baskets[b].opened_at <= t

LEMMA CoveredIsFinite ==
  ASSUME NEW s \in Observer, NEW bs \in SUBSET Basket, NEW t \in Nat, EndsBy(s, bs, t)
  PROVE  /\ Covered(s, bs, t) \subseteq 0..(t - 1)
         /\ IsFiniteSet(Covered(s, bs, t)) /\ Cardinality(Covered(s, bs, t)) \in Nat
<1>1. Covered(s, bs, t) \subseteq 0..(t - 1)
  <2> SUFFICES ASSUME NEW x \in Covered(s, bs, t) PROVE x \in 0..(t - 1)
    OBVIOUS
  <2>1. CASE \E e \in s.closed : e.basket \in bs /\ x \in e.opened..(e.closed - 1)
    <3>1. PICK e \in s.closed : e.basket \in bs /\ x \in e.opened..(e.closed - 1)
      BY <2>1
    <3>2. e.opened \in Nat /\ e.closed \in Nat /\ e.closed <= t
      BY <3>1 DEF EndsBy, Observer, Episode
    <3> QED
      BY <3>1, <3>2
  <2>2. CASE \E b \in bs : s.baskets[b].active /\ x \in s.baskets[b].opened_at..(t - 1)
    <3>1. PICK b \in bs : s.baskets[b].active /\ x \in s.baskets[b].opened_at..(t - 1)
      BY <2>2
    <3>2. s.baskets[b].opened_at \in Nat
      BY <3>1 DEF Observer, Tracked
    <3> QED
      BY <3>1, <3>2
  <2> QED
    BY <2>1, <2>2, CoveredMember
<1>2. IsFiniteSet(0..(t - 1))
  BY FS_Interval
<1> QED
  BY <1>1, <1>2, FS_Subset, FS_CardinalityType

\* With an episode open time is covered as it passes, without one it is not.
LEMMA TimePasses ==
  ASSUME NEW s \in Observer, NEW bs \in SUBSET Basket, NEW from \in Nat, NEW to \in Nat,
         from <= to, EndsBy(s, bs, from)
  PROVE  /\ IsFiniteSet(Covered(s, bs, to))
         /\ Cardinality(Covered(s, bs, to)) =
              Cardinality(Covered(s, bs, from))
                + (IF \E b \in bs : s.baskets[b].active THEN to - from ELSE 0)
<1> DEFINE old == Covered(s, bs, from)
           new == Covered(s, bs, to)
<1>0. EndsBy(s, bs, to)
  <2>1. \A e \in s.closed : e.closed \in Nat
    BY DEF Observer, Episode
  <2>2. \A b \in bs : s.baskets[b].opened_at \in Nat
    BY DEF Observer, Tracked
  <2> QED
    BY <2>1, <2>2 DEF EndsBy
<1>1. /\ old \subseteq 0..(from - 1) /\ IsFiniteSet(old) /\ Cardinality(old) \in Nat
      /\ IsFiniteSet(new)
  BY <1>0, CoveredIsFinite
<1>2. CASE \E b \in bs : s.baskets[b].active
  <2>1. new = old \cup from..(to - 1)
    <3>1. ASSUME NEW x \in new PROVE x \in old \cup from..(to - 1)
      <4>1. CASE \E e \in s.closed : e.basket \in bs /\ x \in e.opened..(e.closed - 1)
        BY <4>1, CoveredMember
      <4>2. CASE \E b \in bs : s.baskets[b].active /\ x \in s.baskets[b].opened_at..(to - 1)
        <5>1. PICK b \in bs : s.baskets[b].active /\ x \in s.baskets[b].opened_at..(to - 1)
          BY <4>2
        <5>2. s.baskets[b].opened_at \in Nat
          BY <5>1 DEF Observer, Tracked
        <5>3. x \in s.baskets[b].opened_at..(from - 1) \/ x \in from..(to - 1)
          BY <5>1, <5>2
        <5> QED
          BY <5>1, <5>3, CoveredMember
      <4> QED
        BY <3>1, <4>1, <4>2, CoveredMember
    <3>2. ASSUME NEW x \in old PROVE x \in new
      <4>1. CASE \E e \in s.closed : e.basket \in bs /\ x \in e.opened..(e.closed - 1)
        BY <4>1, CoveredMember
      <4>2. CASE \E b \in bs : s.baskets[b].active /\ x \in s.baskets[b].opened_at..(from - 1)
        <5>1. PICK b \in bs : s.baskets[b].active /\ x \in s.baskets[b].opened_at..(from - 1)
          BY <4>2
        <5>2. s.baskets[b].opened_at \in Nat
          BY <5>1 DEF Observer, Tracked
        <5>3. x \in s.baskets[b].opened_at..(to - 1)
          BY <5>1, <5>2
        <5> QED
          BY <5>1, <5>3, CoveredMember
      <4> QED
        BY <3>2, <4>1, <4>2, CoveredMember
    <3>3. ASSUME NEW x \in from..(to - 1) PROVE x \in new
      <4>1. PICK b \in bs : s.baskets[b].active
        BY <1>2
      <4>2. s.baskets[b].opened_at \in Nat /\ s.baskets[b].opened_at <= from
        BY <4>1 DEF Observer, Tracked, EndsBy
      <4>3. x \in s.baskets[b].opened_at..(to - 1)
        BY <4>2
      <4> QED
        BY <4>1, <4>3, CoveredMember
    <3> HIDE DEF old, new
    <3> QED
      BY <3>1, <3>2, <3>3
  <2>2. IsFiniteSet(from..(to - 1)) /\ Cardinality(from..(to - 1)) = to - from
    <3>1. IsFiniteSet(from..(to - 1)) /\ Cardinality(from..(to - 1)) =
            IF from > to - 1 THEN 0 ELSE ((to - 1) - from) + 1
      BY FS_Interval
    <3> QED
      BY <3>1
  <2>3. old \cap from..(to - 1) = {}
    BY <1>1
  <2> HIDE DEF old, new
  <2>4. Cardinality(new) = Cardinality(old) + (to - from) - Cardinality(old \cap from..(to - 1))
    BY <1>1, <2>1, <2>2, FS_Union
  <2>5. Cardinality(old \cap from..(to - 1)) = 0
    BY <2>3, FS_EmptySet
  <2> QED
    BY <1>1, <1>2, <2>4, <2>5 DEF old, new
<1>3. CASE ~(\E b \in bs : s.baskets[b].active)
  <2>1. \A x : x \in new <=> x \in old
    BY <1>3, CoveredMember
  <2>2. new = old
    BY <2>1
  <2> HIDE DEF old, new
  <2> QED
    BY <1>1, <1>3, <2>2 DEF old, new
<1> QED
  BY <1>2, <1>3
-----------------------------------------------------------------------------
(* One basket turns.                                                         *)

Follows(r, s) == r \in Observer /\ r.peak = s.peak

Kept(r, s) ==
  /\ r.first = s.first /\ r.last = s.last /\ r.deadline = s.deadline
  /\ r.generation = s.generation /\ r.expired = s.expired /\ r.finished = s.finished
  /\ r.cache = s.cache /\ r.peak = s.peak

\* An episode of basket b opens or closes at t.
Flips(r, s, b, t) ==
  /\ r \in Observer /\ ~r.failed /\ Kept(r, s)
  /\ s.union_since <= t /\ r.union_since = t
  /\ r.union = s.union + (IF s.active > 0 THEN t - s.union_since ELSE 0)
  /\ \A k \in Basket : k # b => r.baskets[k] = s.baskets[k]
  /\ r.baskets[b].status = s.baskets[b].status /\ r.baskets[b].since = s.baskets[b].since
  /\ r.baskets[b].durations = s.baskets[b].durations
  /\ \/ /\ s.baskets[b].active /\ ~r.baskets[b].active /\ r.active = s.active - 1
        /\ \E e \in Episode : /\ e.basket = b /\ e.opened = s.baskets[b].opened_at /\ e.closed = t
                              /\ r.closed = s.closed \cup {e}
     \/ /\ ~s.baskets[b].active /\ r.baskets[b].active /\ r.active = s.active + 1
        /\ r.baskets[b].opened_at = t /\ r.closed = s.closed

\* Basket b has turned and its time is still to be counted.
Turning(r, s, b, t) ==
  /\ r \in Observer /\ ~r.failed /\ Kept(r, s) /\ UnionFits(r)
  /\ \A k \in Basket : k # b => r.baskets[k] = s.baskets[k] /\ TimeFits(r, k)
  /\ r.baskets[b].status = s.baskets[b].status /\ r.baskets[b].since = s.baskets[b].since
  /\ r.baskets[b].durations = s.baskets[b].durations
  /\ s.baskets[b].since <= t =>
       /\ EndsBy(r, {b}, t)
       /\ Cardinality(Covered(r, {b}, t)) =
            s.baskets[b].durations["positive"]
              + (IF s.baskets[b].status = "positive" THEN t - s.baskets[b].since ELSE 0)
  /\ \A e \in r.closed : e \in s.closed \/ (e.closed = t /\ e.basket = b /\ s.baskets[b].active)

\* Nothing but the basket's time is counted by a flip.
LEMMA FlipCovers ==
  ASSUME NEW s \in Observer, NEW r \in Observer, NEW b \in Basket, NEW t \in Nat, Flips(r, s, b, t),
         NEW bs \in SUBSET Basket, NEW x \in Nat, b \notin bs \/ x = t
  PROVE  Covered(r, bs, x) = Covered(s, bs, x)
<1>1. \A k \in bs : k # b => r.baskets[k] = s.baskets[k]
  BY DEF Flips
<1>2. CASE b \notin bs
  <2>1. \A e \in Episode : e.basket \in bs => (e \in r.closed <=> e \in s.closed)
    BY <1>2 DEF Flips
  <2>2. r.closed \subseteq Episode /\ s.closed \subseteq Episode
    BY DEF Observer
  <2>3. \A k \in bs : r.baskets[k] = s.baskets[k]
    BY <1>1, <1>2
  <2>4. \A y : y \in Covered(r, bs, x) <=> y \in Covered(s, bs, x)
    BY <2>1, <2>2, <2>3, CoveredMember
  <2> QED
    BY <2>4
<1>3. CASE b \in bs /\ x = t
  <2>1. CASE s.baskets[b].active
    <3>1. ~r.baskets[b].active
      BY <2>1 DEF Flips
    <3>2. PICK e \in Episode : /\ e.basket = b /\ e.opened = s.baskets[b].opened_at /\ e.closed = t
                               /\ r.closed = s.closed \cup {e}
      BY <2>1 DEF Flips
    <3>3. \A y : y \in Covered(r, bs, x) <=> y \in Covered(s, bs, x)
      BY <1>1, <1>3, <2>1, <3>1, <3>2, CoveredMember
    <3> QED
      BY <3>3
  <2>2. CASE ~s.baskets[b].active
    <3>1. r.baskets[b].active /\ r.baskets[b].opened_at = t /\ r.closed = s.closed
      BY <2>2 DEF Flips
    <3>2. \A y : y \notin t..(t - 1)
      OBVIOUS
    <3>3. \A y : y \in Covered(r, bs, x) <=> y \in Covered(s, bs, x)
      BY <1>1, <1>3, <2>2, <3>1, <3>2, CoveredMember
    <3> QED
      BY <3>3
  <2> QED
    BY <2>1, <2>2
<1> QED
  BY <1>2, <1>3

LEMMA ActiveIsFinite ==
  ASSUME NEW s
  PROVE  IsFiniteSet(ActiveIn(s)) /\ Cardinality(ActiveIn(s)) \in Nat
<1>1. Len(Legs) \in Nat
  BY ObservationConstants
<1>2. IsFiniteSet(Basket)
  BY <1>1, FS_Interval DEF Basket
<1>3. ActiveIn(s) \subseteq Basket
  BY DEF ActiveIn
<1> QED
  BY <1>2, <1>3, FS_Subset, FS_CardinalityType

LEMMA ActiveCounts ==
  ASSUME NEW s \in Observer, UnionFits(s)
  PROVE  s.active > 0 <=> \E b \in Basket : s.baskets[b].active
<1>1. s.active = Cardinality(ActiveIn(s)) /\ IsFiniteSet(ActiveIn(s)) /\ s.active \in Nat
  BY ActiveIsFinite DEF UnionFits, Observer
<1>2. Cardinality(ActiveIn(s)) = 0 <=> ActiveIn(s) = {}
  BY <1>1, FS_EmptySet
<1> QED
  BY <1>1, <1>2 DEF ActiveIn

LEMMA FlipTurns ==
  ASSUME NEW s, Accounted(s), NEW r, NEW b \in Basket, NEW t \in Nat, StatusFits(s, b),
         Flips(r, s, b, t)
  PROVE  Turning(r, s, b, t)
<1>1. /\ s \in Observer /\ r \in Observer /\ UnionFits(s)
      /\ \A k \in Basket : TimeFits(s, k)
  BY DEF Accounted, Flips
<1>2. /\ s.union_since \in Nat /\ s.union_since <= t /\ r.union_since = t
      /\ s.union \in Nat /\ s.active \in Nat
  BY <1>1 DEF Flips, Observer
<1>3. \A e \in s.closed : e \in Episode /\ e.closed \in Nat
  BY <1>1 DEF Observer, Episode
<1>4. \A k \in Basket : s.baskets[k] \in Tracked /\ s.baskets[k].opened_at \in Nat
  BY <1>1 DEF Observer, Tracked
<1>5. \A e \in r.closed : e \in s.closed \/ (e.closed = t /\ e.basket = b /\ s.baskets[b].active)
  BY DEF Flips
<1>6. UnionFits(r)
  <2>1. Cardinality(Covered(s, Basket, t)) =
          s.union + (IF \E k \in Basket : s.baskets[k].active THEN t - s.union_since ELSE 0)
    <3>1. EndsBy(s, Basket, s.union_since)
      BY <1>1 DEF EndsBy, UnionFits
    <3>2. s.union = Cardinality(Covered(s, Basket, s.union_since))
      BY <1>1 DEF UnionFits
    <3>3. Basket \in SUBSET Basket
      OBVIOUS
    <3>4. Cardinality(Covered(s, Basket, t)) =
            Cardinality(Covered(s, Basket, s.union_since))
              + (IF \E k \in Basket : s.baskets[k].active THEN t - s.union_since ELSE 0)
      <4>1. s \in Observer /\ Basket \in SUBSET Basket /\ s.union_since \in Nat /\ t \in Nat
            /\ s.union_since <= t /\ EndsBy(s, Basket, s.union_since)
        BY <1>1, <1>2, <3>1
      <4> QED
        BY <4>1, TimePasses
    <3> QED
      BY <3>2, <3>4
  <2>2. r.union = Cardinality(Covered(s, Basket, t))
    BY <1>1, <2>1, ActiveCounts DEF Flips
  <2>3. r.union = Cardinality(Covered(r, Basket, r.union_since))
    <3>1. Covered(r, Basket, t) = Covered(s, Basket, t)
      BY <1>1, FlipCovers
    <3> QED
      BY <1>2, <2>2, <3>1
  <2>4. \A e \in r.closed : e.closed <= r.union_since
    BY <1>1, <1>2, <1>3, <1>5 DEF UnionFits
  <2>5. \A k \in Basket : r.baskets[k].active => r.baskets[k].opened_at <= r.union_since
    <3> SUFFICES ASSUME NEW k \in Basket, r.baskets[k].active
                 PROVE  r.baskets[k].opened_at <= t
      BY <1>2
    <3>1. CASE k # b
      <4>1. r.baskets[k] = s.baskets[k]
        BY <3>1 DEF Flips
      <4>2. s.baskets[k].opened_at <= s.union_since
        BY <1>1, <4>1 DEF UnionFits
      <4> QED
        BY <1>2, <1>4, <4>1, <4>2
    <3>2. CASE k = b
      BY <3>2 DEF Flips
    <3> QED
      BY <3>1, <3>2
  <2>6. r.active = Cardinality(ActiveIn(r))
    <3>1. s.active = Cardinality(ActiveIn(s)) /\ IsFiniteSet(ActiveIn(s))
      BY <1>1, ActiveIsFinite DEF UnionFits
    <3>2. CASE s.baskets[b].active
      <4>1. ~r.baskets[b].active /\ r.active = s.active - 1
        BY <3>2 DEF Flips
      <4>2. ActiveIn(r) = ActiveIn(s) \ {b} /\ b \in ActiveIn(s)
        BY <3>2, <4>1 DEF ActiveIn, Flips
      <4>3. Cardinality(ActiveIn(s) \ {b}) = Cardinality(ActiveIn(s)) - 1
        BY <3>1, <4>2, FS_RemoveElement
      <4> QED
        BY <3>1, <4>1, <4>2, <4>3
    <3>3. CASE ~s.baskets[b].active
      <4>1. r.baskets[b].active /\ r.active = s.active + 1
        BY <3>3 DEF Flips
      <4>2. ActiveIn(r) = ActiveIn(s) \cup {b} /\ b \notin ActiveIn(s)
        BY <3>3, <4>1 DEF ActiveIn, Flips
      <4>3. Cardinality(ActiveIn(s) \cup {b}) = Cardinality(ActiveIn(s)) + 1
        BY <3>1, <4>2, FS_AddElement
      <4> QED
        BY <3>1, <4>1, <4>2, <4>3
    <3> QED
      BY <3>2, <3>3
  <2> QED
    BY <2>3, <2>4, <2>5, <2>6 DEF UnionFits
<1>7. ASSUME NEW k \in Basket, k # b PROVE r.baskets[k] = s.baskets[k] /\ TimeFits(r, k)
  <2>1. r.baskets[k] = s.baskets[k] /\ r.first = s.first
    BY <1>7 DEF Flips, Kept
  <2>2. s.baskets[k].since \in Nat
    BY <1>4 DEF Tracked
  <2>3. Covered(r, {k}, s.baskets[k].since) = Covered(s, {k}, s.baskets[k].since)
    BY <1>1, <1>7, <2>2, FlipCovers
  <2>4. \A e \in r.closed : e.basket = k => e \in s.closed
    BY <1>5, <1>7
  <2> QED
    BY <1>1, <2>1, <2>3, <2>4 DEF TimeFits
<1>8. ASSUME s.baskets[b].since <= t
      PROVE  /\ EndsBy(r, {b}, t)
             /\ Cardinality(Covered(r, {b}, t)) =
                  s.baskets[b].durations["positive"]
                    + (IF s.baskets[b].status = "positive" THEN t - s.baskets[b].since ELSE 0)
  <2>1. s.baskets[b].since \in Nat
    BY <1>4 DEF Tracked
  <2>2. EndsBy(s, {b}, s.baskets[b].since)
    BY <1>1 DEF EndsBy, TimeFits
  <2>3. Cardinality(Covered(s, {b}, t)) =
          s.baskets[b].durations["positive"]
            + (IF s.baskets[b].active THEN t - s.baskets[b].since ELSE 0)
    <3>1. Cardinality(Covered(s, {b}, t)) =
            Cardinality(Covered(s, {b}, s.baskets[b].since))
              + (IF \E k \in {b} : s.baskets[k].active THEN t - s.baskets[b].since ELSE 0)
      BY <1>1, <1>8, <2>1, <2>2, TimePasses
    <3> QED
      BY <1>1, <3>1 DEF TimeFits
  <2>4. Covered(r, {b}, t) = Covered(s, {b}, t)
    BY <1>1, FlipCovers
  <2>5. EndsBy(r, {b}, t)
    <3>1. ASSUME NEW e \in r.closed, e.basket = b PROVE e.closed <= t
      <4>1. t <= t
        OBVIOUS
      <4>2. CASE e \in s.closed
        <5>1. e.closed \in Nat /\ e.closed <= s.baskets[b].since
          BY <1>1, <1>3, <3>1, <4>2 DEF TimeFits
        <5> QED
          BY <1>8, <2>1, <5>1
      <4> QED
        BY <1>5, <4>1, <4>2
    <3>2. r.baskets[b].active => r.baskets[b].opened_at <= t
      BY DEF Flips
    <3> QED
      BY <3>1, <3>2 DEF EndsBy
  <2> QED
    BY <1>1, <2>3, <2>4, <2>5 DEF StatusFits
<1> QED
  BY <1>5, <1>6, <1>7, <1>8 DEF Turning, Flips

\* A basket that keeps what it is turns as well.
LEMMA StaysTurning ==
  ASSUME NEW s, Accounted(s), NEW b \in Basket, NEW t \in Nat, StatusFits(s, b)
  PROVE  Turning(s, s, b, t)
<1>1. /\ s \in Observer /\ ~s.failed /\ UnionFits(s)
      /\ \A k \in Basket : TimeFits(s, k)
  BY DEF Accounted
<1>2. ASSUME s.baskets[b].since <= t
      PROVE  /\ EndsBy(s, {b}, t)
             /\ Cardinality(Covered(s, {b}, t)) =
                  s.baskets[b].durations["positive"]
                    + (IF s.baskets[b].status = "positive" THEN t - s.baskets[b].since ELSE 0)
  <2>1. s.baskets[b].since \in Nat /\ s.baskets[b].opened_at \in Nat
    BY <1>1 DEF Observer, Tracked
  <2>2. EndsBy(s, {b}, s.baskets[b].since)
    BY <1>1 DEF EndsBy, TimeFits
  <2>3. Cardinality(Covered(s, {b}, t)) =
          Cardinality(Covered(s, {b}, s.baskets[b].since))
            + (IF \E k \in {b} : s.baskets[k].active THEN t - s.baskets[b].since ELSE 0)
    BY <1>1, <1>2, <2>1, <2>2, TimePasses
  <2>4. \A e \in s.closed : e.closed \in Nat
    BY <1>1 DEF Observer, Episode
  <2>5. EndsBy(s, {b}, t)
    BY <1>2, <2>1, <2>2, <2>4 DEF EndsBy
  <2> QED
    BY <1>1, <2>3, <2>5 DEF TimeFits, StatusFits
<1> QED
  BY <1>1, <1>2 DEF Turning, Kept
-----------------------------------------------------------------------------
(* The operators of the observer.                                            *)

LEMMA FollowsOn ==
  ASSUME NEW r, NEW q, NEW s, Follows(r, q), Follows(q, s)
  PROVE  Follows(r, s)
BY DEF Follows

LEMMA FailsFails ==
  ASSUME NEW s \in Observer
  PROVE  Follows(Fails(s), s) /\ Fails(s).failed
BY DEF Fails, Observer, Follows

LEMMA EventCounts ==
  ASSUME NEW s \in Observer
  PROVE  /\ Follows(Event(s), s)
         /\ ~Event(s).failed =>
              /\ ~s.failed /\ Kept(Event(s), s) /\ Event(s).baskets = s.baskets
              /\ Event(s).union = s.union /\ Event(s).union_since = s.union_since
              /\ Event(s).active = s.active /\ Event(s).closed = s.closed
<1>1. CASE s.events = MaxEvents
  BY <1>1, FailsFails DEF Event
<1>2. CASE s.events # MaxEvents
  <2> DEFINE events == s.events + 1
  <2>1. Event(s) = [s EXCEPT !.events = events]
    BY <1>2 DEF Event
  <2>2. events \in Nat
    BY DEF Observer
  <2> HIDE DEF events
  <2> QED
    BY <2>1, <2>2 DEF Observer, Kept, Follows
<1> QED
  BY <1>1, <1>2

LEMMA UnionCounts ==
  ASSUME NEW s \in Observer, ~s.failed, s.first # NoTime, NEW t \in Nat
  PROVE  /\ Follows(AccountUnion(s, t), s)
         /\ ~AccountUnion(s, t).failed =>
              /\ Kept(AccountUnion(s, t), s) /\ AccountUnion(s, t).baskets = s.baskets
              /\ s.union_since <= t /\ AccountUnion(s, t).union_since = t
              /\ AccountUnion(s, t).union = s.union + (IF s.active > 0 THEN t - s.union_since ELSE 0)
              /\ AccountUnion(s, t).active = s.active /\ AccountUnion(s, t).closed = s.closed
<1>1. s.union_since \in Nat /\ s.union \in Nat
  BY DEF Observer
<1>2. CASE t < s.union_since
  BY <1>2, FailsFails DEF AccountUnion
<1>3. CASE ~(t < s.union_since)
  <2> DEFINE union == IF s.active > 0 THEN s.union + (t - s.union_since) ELSE s.union
  <2>1. AccountUnion(s, t) = [s EXCEPT !.union = union, !.union_since = t]
    BY <1>3 DEF AccountUnion
  <2>2. /\ union \in Nat /\ s.union_since <= t
        /\ union = s.union + (IF s.active > 0 THEN t - s.union_since ELSE 0)
    BY <1>1, <1>3
  <2> HIDE DEF union
  <2> QED
    BY <2>1, <2>2 DEF Observer, Kept, Follows
<1> QED
  BY <1>2, <1>3

LEMMA CloseFlips ==
  ASSUME NEW s, Accounted(s), NEW b \in Basket, NEW t \in Nat, NEW censored \in BOOLEAN
  PROVE  /\ Follows(Close(s, b, t, censored), s)
         /\ ~Close(s, b, t, censored).failed =>
              /\ ~Close(s, b, t, censored).baskets[b].active
              /\ Close(s, b, t, censored) = s \/ Flips(Close(s, b, t, censored), s, b, t)
<1> DEFINE r == Close(s, b, t, censored)
<1>1. s \in Observer /\ ~s.failed /\ s.first # NoTime /\ UnionFits(s)
  BY DEF Accounted
<1>2. CASE ~s.baskets[b].active
  BY <1>1, <1>2 DEF Close, Follows
<1>3. CASE s.baskets[b].active
  <2> DEFINE n == Event(s)
             u == AccountUnion(n, t)
             e == [basket |-> b, episode |-> s.baskets[b].episodes,
                   opened |-> s.baskets[b].opened_at, closed |-> t, right |-> censored]
             basket == [s.baskets[b] EXCEPT !.active = FALSE]
             active == s.active - 1
  <2>1. r = IF u.failed THEN u
            ELSE [u EXCEPT !.active = @ - 1, !.baskets[b] = [@ EXCEPT !.active = FALSE],
                           !.closed = @ \cup {e}]
    BY <1>1, <1>3 DEF Close
  <2>2. s.baskets[b] \in Tracked
    BY <1>1 DEF Observer
  <2>3. /\ basket \in Tracked /\ ~basket.active /\ basket.status = s.baskets[b].status
        /\ basket.since = s.baskets[b].since /\ basket.durations = s.baskets[b].durations
    BY <2>2 DEF Tracked
  <2>4. e \in Episode /\ e.basket = b /\ e.opened = s.baskets[b].opened_at /\ e.closed = t
    BY <2>2 DEF Tracked, Episode
  <2>5. active \in Nat
    <3>1. s.active \in Nat /\ s.active > 0
      BY <1>1, <1>3, ActiveCounts DEF Observer
    <3> QED
      BY <3>1
  <2>6. /\ n \in Observer /\ n.peak = s.peak
        /\ ~n.failed => /\ Kept(n, s) /\ n.baskets = s.baskets
                        /\ n.union = s.union /\ n.union_since = s.union_since
                        /\ n.active = s.active /\ n.closed = s.closed
    BY <1>1, EventCounts DEF Follows
  <2>7. CASE n.failed
    <3>1. u = n
      BY <2>7 DEF AccountUnion
    <3> HIDE DEF n, u
    <3> QED
      BY <2>1, <2>6, <2>7, <3>1 DEF Follows
  <2>8. CASE ~n.failed
    <3>1. n.first # NoTime
      BY <1>1, <2>6, <2>8 DEF Kept
    <3>2. /\ u \in Observer /\ u.peak = n.peak
          /\ ~u.failed =>
               /\ Kept(u, n) /\ u.baskets = n.baskets /\ n.union_since <= t /\ u.union_since = t
               /\ u.union = n.union + (IF n.active > 0 THEN t - n.union_since ELSE 0)
               /\ u.active = n.active /\ u.closed = n.closed
      <4> HIDE DEF n
      <4> QED
        BY <2>6, <2>8, <3>1, UnionCounts DEF Follows
    <3>3. CASE u.failed
      <4> HIDE DEF n, u
      <4> QED
        BY <2>1, <2>6, <3>2, <3>3 DEF Follows
    <3>4. CASE ~u.failed
      <4> HIDE DEF n, u, e
      <4>1. /\ Kept(u, s) /\ u.baskets = s.baskets /\ s.union_since <= t /\ u.union_since = t
            /\ u.union = s.union + (IF s.active > 0 THEN t - s.union_since ELSE 0)
            /\ u.active = s.active /\ u.closed = s.closed
        BY <2>6, <2>8, <3>2, <3>4 DEF Kept
      <4> DEFINE baskets == [s.baskets EXCEPT ![b] = basket]
                 closed == s.closed \cup {e}
      <4>2. r = [u EXCEPT !.active = active, !.baskets = baskets, !.closed = closed]
        BY <2>1, <3>2, <3>4, <4>1 DEF Observer
      <4>3. /\ baskets \in [Basket -> Tracked] /\ baskets[b] = basket
            /\ \A k \in Basket : k # b => baskets[k] = s.baskets[k]
        BY <1>1, <2>3 DEF Observer
      <4>4. closed \subseteq Episode
        BY <1>1, <2>4 DEF Observer
      <4>5. closed = s.closed \cup {e} /\ active = s.active - 1
        OBVIOUS
      <4> HIDE DEF r, baskets, closed, active, basket
      <4>6. /\ r \in Observer /\ ~r.failed /\ Kept(r, u) /\ r.union = u.union
            /\ r.union_since = u.union_since
            /\ r.active = active /\ r.baskets = baskets /\ r.closed = closed
        BY <2>5, <3>2, <3>4, <4>2, <4>3, <4>4 DEF Observer, Kept
      <4>7. Kept(r, s)
        BY <4>1, <4>6 DEF Kept
      <4>8. Flips(r, s, b, t)
        BY <1>3, <2>3, <2>4, <4>1, <4>3, <4>5, <4>6, <4>7 DEF Flips
      <4>9. ~r.baskets[b].active
        BY <2>3, <4>3, <4>6
      <4> QED
        BY <2>6, <3>2, <4>6, <4>8, <4>9 DEF r, Follows, Kept
    <3> QED
      BY <3>3, <3>4
  <2> QED
    BY <2>7, <2>8
<1> QED
  BY <1>2, <1>3

LEMMA OpenFlips ==
  ASSUME NEW s, Accounted(s), NEW b \in Basket, NEW t \in Nat
  PROVE  /\ Follows(Open(s, b, t), s)
         /\ ~Open(s, b, t).failed =>
              /\ Open(s, b, t).baskets[b].active
              /\ Open(s, b, t) = s \/ Flips(Open(s, b, t), s, b, t)
<1> DEFINE r == Open(s, b, t)
<1>1. s \in Observer /\ ~s.failed /\ s.first # NoTime /\ UnionFits(s)
  BY DEF Accounted
<1>2. CASE s.baskets[b].active
  BY <1>1, <1>2 DEF Open, Follows
<1>3. CASE ~s.baskets[b].active
  <2> DEFINE u == AccountUnion(s, t)
             basket == Opened(u.baskets[b], t)
             active == u.active + 1
             baskets == [u.baskets EXCEPT ![b] = basket]
             v == [u EXCEPT !.active = active, !.baskets = baskets]
  <2>1. /\ u \in Observer /\ u.peak = s.peak
        /\ ~u.failed =>
             /\ Kept(u, s) /\ u.baskets = s.baskets /\ s.union_since <= t /\ u.union_since = t
             /\ u.union = s.union + (IF s.active > 0 THEN t - s.union_since ELSE 0)
             /\ u.active = s.active /\ u.closed = s.closed
    BY <1>1, UnionCounts DEF Follows
  <2>2. r = Event(v)
    BY <1>1, <1>3 DEF Open
  <2> HIDE DEF u
  <2>3. u.baskets[b] \in Tracked /\ u.active \in Nat
    BY <2>1 DEF Observer
  <2>5. /\ basket \in Tracked /\ basket.active /\ basket.opened_at = t
        /\ basket.status = u.baskets[b].status /\ basket.since = u.baskets[b].since
        /\ basket.durations = u.baskets[b].durations
    <3> DEFINE x == u.baskets[b]
               left == ~x.eligible_before
               episodes == x.episodes + 1
    <3>1. episodes \in Nat
      BY <2>3 DEF Tracked
    <3>2. left \in BOOLEAN
      OBVIOUS
    <3>3. basket = [x EXCEPT !.active = TRUE, !.episodes = episodes, !.opened_at = t, !.left = left]
      BY DEF Opened
    <3>4. x \in Tracked
      BY <2>3
    <3> HIDE DEF episodes, basket, x, left
    <3>5. basket \in Tracked
      BY <3>1, <3>2, <3>3, <3>4 DEF Tracked
    <3>6. /\ basket.active /\ basket.opened_at = t /\ basket.status = x.status
          /\ basket.since = x.since /\ basket.durations = x.durations
      BY <3>3, <3>4 DEF Tracked
    <3> QED
      BY <3>5, <3>6 DEF x
  <2>6. /\ baskets \in [Basket -> Tracked] /\ baskets[b] = basket
        /\ \A k \in Basket : k # b => baskets[k] = u.baskets[k]
    <3>1. u.baskets \in [Basket -> Tracked]
      BY <2>1 DEF Observer
    <3> HIDE DEF basket
    <3> QED
      BY <2>5, <3>1
  <2>7. active \in Nat /\ active = u.active + 1
    BY <2>3
  <2> HIDE DEF basket, baskets, active
  <2>8. /\ v \in Observer /\ v.failed = u.failed /\ Kept(v, u) /\ v.union = u.union
        /\ v.union_since = u.union_since
        /\ v.active = active /\ v.baskets = baskets /\ v.closed = u.closed
    BY <2>1, <2>6, <2>7 DEF Observer, Kept
  <2> HIDE DEF v
  <2>9. /\ r \in Observer /\ r.peak = v.peak
        /\ ~r.failed => /\ ~v.failed /\ Kept(r, v) /\ r.baskets = v.baskets
                        /\ r.union = v.union /\ r.union_since = v.union_since
                        /\ r.active = v.active /\ r.closed = v.closed
    BY <2>2, <2>8, EventCounts DEF Follows
  <2> HIDE DEF r
  <2>10. ASSUME ~r.failed PROVE r.baskets[b].active /\ Flips(r, s, b, t)
    <3>1. ~u.failed
      BY <2>8, <2>9, <2>10
    <3>2. Kept(r, s)
      BY <2>1, <2>8, <2>9, <2>10, <3>1 DEF Kept
    <3>3. r.baskets[b].active
      BY <2>5, <2>6, <2>8, <2>9, <2>10
    <3>4. /\ r.union_since = t /\ s.union_since <= t /\ r.active = s.active + 1 /\ r.closed = s.closed
          /\ r.union = s.union + (IF s.active > 0 THEN t - s.union_since ELSE 0)
          /\ r.baskets[b].opened_at = t /\ r.baskets[b].status = s.baskets[b].status
          /\ r.baskets[b].since = s.baskets[b].since
          /\ r.baskets[b].durations = s.baskets[b].durations
          /\ \A k \in Basket : k # b => r.baskets[k] = s.baskets[k]
      BY <2>1, <2>5, <2>6, <2>7, <2>8, <2>9, <2>10, <3>1
    <3> QED
      BY <1>3, <2>9, <2>10, <3>2, <3>3, <3>4 DEF Flips
  <2> QED
    BY <2>1, <2>8, <2>9, <2>10 DEF r, Follows, Kept
<1> QED
  BY <1>2, <1>3

LEMMA StatusIsFinite == IsFiniteSet(Status)
<1>1. Status = ({"unavailable"} \cup {"crossed"}) \cup ({"expired"} \cup ({"no_depth"}
                 \cup ({"unfunded"} \cup ({"nonpositive"} \cup {"positive"}))))
  BY DEF Status, NoData, Eligible
<1>2. \A x : IsFiniteSet({x})
  BY FS_Singleton
<1> QED
  BY <1>1, <1>2, FS_Union

\* What the accounts are made of.
SameAccounts(q, s) ==
  /\ q.first = s.first /\ q.closed = s.closed
  /\ q.union = s.union /\ q.union_since = s.union_since /\ q.active = s.active
  /\ \A k \in Basket : /\ q.baskets[k].active = s.baskets[k].active
                       /\ q.baskets[k].opened_at = s.baskets[k].opened_at
                       /\ q.baskets[k].since = s.baskets[k].since
                       /\ q.baskets[k].durations = s.baskets[k].durations

LEMMA AccountsStay ==
  ASSUME NEW s, Accounted(s), NEW q \in Observer, ~q.failed, SameAccounts(q, s)
  PROVE  Accounted(q)
<1>1. \A bs \in SUBSET Basket : \A z : Covered(q, bs, z) = Covered(s, bs, z)
  BY DEF Covered, SameAccounts
<1>2. ActiveIn(q) = ActiveIn(s)
  BY DEF ActiveIn, SameAccounts
<1>3. UnionFits(q)
  <2>1. UnionFits(s) /\ Basket \in SUBSET Basket
    BY DEF Accounted
  <2> QED
    BY <1>1, <1>2, <2>1 DEF UnionFits, SameAccounts
<1>4. ASSUME NEW k \in Basket PROVE TimeFits(q, k)
  <2>1. TimeFits(s, k) /\ {k} \in SUBSET Basket
    BY DEF Accounted
  <2> QED
    BY <1>1, <2>1 DEF TimeFits, SameAccounts
<1> QED
  BY <1>3, <1>4 DEF Accounted, SameAccounts

\* What treating the baskets bs at t does.
Turned(q, s, bs, t) ==
  /\ Accounted(q) /\ Kept(q, s)
  /\ \A k \in Basket : k \notin bs => q.baskets[k] = s.baskets[k]
  /\ \A e \in q.closed : e \in s.closed
                           \/ (e.closed = t /\ e.basket \in bs /\ s.baskets[e.basket].active)

\* The time of a basket that turns is counted to the status it had.
LEMMA TimeTurns ==
  ASSUME NEW s, Accounted(s), NEW r, NEW b \in Basket, NEW t \in Nat, Turning(r, s, b, t)
  PROVE  /\ Follows(AccountTime(r, b, t), r)
         /\ ~AccountTime(r, b, t).failed =>
              /\ Turned(AccountTime(r, b, t), s, {b}, t)
              /\ AccountTime(r, b, t).baskets[b].active = r.baskets[b].active
<1> DEFINE q == AccountTime(r, b, t)
           x == r.baskets[b]
           y == Timed(x, t)
<1>1. /\ s \in Observer /\ s.first # NoTime /\ TimeFits(s, b)
      /\ r \in Observer /\ ~r.failed /\ Kept(r, s) /\ UnionFits(r)
      /\ x.status = s.baskets[b].status /\ x.since = s.baskets[b].since
      /\ x.durations = s.baskets[b].durations
  BY DEF Accounted, Turning
<1>2. r.first # NoTime /\ r.first = s.first /\ s.first \in Nat
  BY <1>1 DEF Kept, Observer, Moment
<1>3. /\ x \in Tracked /\ x.since \in Nat /\ x.status \in Status /\ x.durations \in [Status -> Nat]
      /\ r.baskets \in [Basket -> Tracked] /\ "positive" \in Status
  BY <1>1 DEF Observer, Tracked, Status, Eligible
<1>4. CASE t < x.since
  BY <1>1, <1>2, <1>4, FailsFails DEF AccountTime
<1>5. CASE ~(t < x.since)
  <2> DEFINE d == x.durations
             passed == t - x.since
             d2 == [d EXCEPT ![x.status] = @ + passed]
             baskets == [r.baskets EXCEPT ![b] = y]
  <2>1. q = [r EXCEPT !.baskets[b] = y]
    BY <1>1, <1>2, <1>3, <1>5 DEF AccountTime
  <2>2. q = [r EXCEPT !.baskets = baskets]
    BY <2>1
  <2>3. passed \in Nat /\ x.since <= t
    BY <1>3, <1>5
  <2>4. y = [x EXCEPT !.durations = d2, !.since = t]
    BY <1>3 DEF Timed, Tracked
  <2>5. /\ d2 \in [Status -> Nat] /\ d2[x.status] = d[x.status] + passed
        /\ \A v \in Status : v # x.status => d2[v] = d[v]
    <3> HIDE DEF passed
    <3> QED
      BY <1>3, <2>3
  <2>6. SumOf(d2) = SumOf(d) + passed
    <3>1. d \in [Status -> Nat] /\ d[x.status] \in Nat
      BY <1>3
    <3> DEFINE old == d[x.status]
               new == d2[x.status]
    <3>2. SumOf(d2) = SumOf(d) - old + new /\ SumOf(d) \in Nat
      <4> HIDE DEF d, d2
      <4> QED
        BY <1>3, <2>5, <3>1, StatusIsFinite, SumWithOneChanged
    <3>3. old \in Nat /\ new = old + passed
      BY <2>5, <3>1
    <3> HIDE DEF d, d2, passed, old, new
    <3> QED
      BY <2>3, <3>2, <3>3
  <2> HIDE DEF d2
  <2>7. /\ y \in Tracked /\ y.active = x.active /\ y.opened_at = x.opened_at /\ y.since = t
        /\ y.durations = d2
    BY <1>3, <2>4, <2>5 DEF Tracked
  <2> HIDE DEF y
  <2>8. /\ baskets \in [Basket -> Tracked] /\ baskets[b] = y
        /\ \A k \in Basket : k # b => baskets[k] = r.baskets[k]
    BY <1>3, <2>7
  <2> HIDE DEF baskets
  <2>9. /\ q \in Observer /\ q.failed = r.failed /\ Kept(q, r) /\ q.baskets = baskets
        /\ q.closed = r.closed /\ q.union = r.union /\ q.union_since = r.union_since
        /\ q.active = r.active
    BY <1>1, <2>2, <2>8 DEF Observer, Kept
  <2> HIDE DEF q
  <2>10. \A k \in Basket : /\ q.baskets[k].active = r.baskets[k].active
                           /\ q.baskets[k].opened_at = r.baskets[k].opened_at
    BY <2>7, <2>8, <2>9
  <2>11. \A bs \in SUBSET Basket : \A z : Covered(q, bs, z) = Covered(r, bs, z)
    BY <2>9, <2>10 DEF Covered
  <2>12. Kept(q, s)
    BY <1>1, <2>9 DEF Kept
  <2>13. UnionFits(q)
    <3>1. ActiveIn(q) = ActiveIn(r)
      BY <2>10 DEF ActiveIn
    <3> QED
      BY <1>1, <2>9, <2>10, <2>11, <3>1 DEF UnionFits
  <2>14. ASSUME NEW k \in Basket, k # b PROVE q.baskets[k] = s.baskets[k] /\ TimeFits(q, k)
    <3>1. q.baskets[k] = r.baskets[k] /\ r.baskets[k] = s.baskets[k] /\ TimeFits(r, k)
      BY <2>8, <2>9, <2>14 DEF Turning
    <3>2. q.first = r.first
      BY <2>9 DEF Kept
    <3> QED
      BY <2>9, <2>11, <3>1, <3>2 DEF TimeFits
  <2>15. TimeFits(q, b)
    <3>1. /\ EndsBy(r, {b}, t)
          /\ Cardinality(Covered(r, {b}, t)) =
               d["positive"] + (IF x.status = "positive" THEN passed ELSE 0)
      BY <1>1, <2>3 DEF Turning
    <3>2. q.baskets[b].since = t /\ q.baskets[b].durations = d2
      BY <2>7, <2>8, <2>9
    <3>3. d2["positive"] = Cardinality(Covered(q, {b}, t))
      BY <1>3, <2>5, <2>11, <3>1
    <3>4. SumOf(d2) = t - q.first
      <4>1. SumOf(d) = x.since - r.first
        BY <1>1, <1>2 DEF TimeFits
      <4>2. q.first = r.first
        BY <2>9 DEF Kept
      <4> QED
        BY <1>2, <1>3, <2>6, <4>1, <4>2
    <3>5. \A e \in q.closed : e.basket = b => e.closed <= t
      BY <2>9, <3>1 DEF EndsBy
    <3>6. q.baskets[b].active => q.baskets[b].opened_at <= t
      BY <2>10, <3>1 DEF EndsBy
    <3> QED
      BY <3>2, <3>3, <3>4, <3>5, <3>6 DEF TimeFits
  <2>16. Accounted(q)
    BY <1>1, <1>2, <2>9, <2>13, <2>14, <2>15 DEF Accounted, Kept
  <2>17. \A e \in r.closed : e \in s.closed \/ (e.closed = t /\ e.basket = b /\ s.baskets[b].active)
    BY DEF Turning
  <2>18. Turned(q, s, {b}, t)
    BY <2>9, <2>12, <2>14, <2>16, <2>17 DEF Turned
  <2>19. Follows(q, r)
    BY <2>9 DEF Follows, Kept
  <2> QED
    BY <2>10, <2>18, <2>19 DEF q
<1> QED
  BY <1>4, <1>5
LEMMA StatusTurns ==
  ASSUME NEW s, Accounted(s), NEW r, NEW b \in Basket, NEW t \in Nat, Turning(r, s, b, t),
         NEW v \in Status, r.baskets[b].active <=> v = "positive"
  PROVE  /\ Follows(SetStatus(r, b, v, t), r)
         /\ ~SetStatus(r, b, v, t).failed =>
              /\ Turned(SetStatus(r, b, v, t), s, {b}, t) /\ StatusFits(SetStatus(r, b, v, t), b)
              /\ SetStatus(r, b, v, t).baskets[b].active = r.baskets[b].active
<1> DEFINE a == AccountTime(r, b, t)
           q == SetStatus(r, b, v, t)
           eligible == v \in Eligible
           basket == [a.baskets[b] EXCEPT !.status = v, !.eligible_before = eligible]
           baskets == [a.baskets EXCEPT ![b] = basket]
<1>1. /\ Follows(a, r)
      /\ ~a.failed => Turned(a, s, {b}, t) /\ a.baskets[b].active = r.baskets[b].active
  BY TimeTurns
<1>2. q = IF a.failed THEN a ELSE [a EXCEPT !.baskets = baskets]
  BY DEF SetStatus
<1>3. eligible \in BOOLEAN
  OBVIOUS
<1>4. a.baskets \in [Basket -> Tracked] /\ a \in Observer
  BY <1>1 DEF Follows, Observer
<1> HIDE DEF a, eligible
<1>5. /\ basket \in Tracked /\ basket.status = v /\ basket.active = a.baskets[b].active
      /\ basket.opened_at = a.baskets[b].opened_at /\ basket.since = a.baskets[b].since
      /\ basket.durations = a.baskets[b].durations
  <2> DEFINE x == a.baskets[b]
  <2>1. x \in Tracked
    BY <1>4
  <2>2. basket = [x EXCEPT !.status = v, !.eligible_before = eligible]
    OBVIOUS
  <2> HIDE DEF x, basket
  <2>3. basket \in Tracked
    BY <1>3, <2>1, <2>2 DEF Tracked
  <2>4. /\ basket.status = v /\ basket.active = x.active /\ basket.opened_at = x.opened_at
        /\ basket.since = x.since /\ basket.durations = x.durations
    BY <2>1, <2>2 DEF Tracked
  <2> QED
    BY <2>3, <2>4 DEF x
<1> HIDE DEF basket
<1>6. /\ baskets \in [Basket -> Tracked] /\ baskets[b] = basket
      /\ \A k \in Basket : k # b => baskets[k] = a.baskets[k]
  BY <1>4, <1>5
<1>7. CASE a.failed
  BY <1>1, <1>2, <1>7
<1>8. CASE ~a.failed
  <2> HIDE DEF baskets, q
  <2>1. /\ q \in Observer /\ ~q.failed /\ Kept(q, a) /\ q.closed = a.closed /\ q.union = a.union
        /\ q.union_since = a.union_since /\ q.active = a.active /\ q.baskets = baskets
    BY <1>2, <1>4, <1>6, <1>8 DEF Observer, Kept
  <2>2. SameAccounts(q, a)
    BY <1>5, <1>6, <2>1 DEF SameAccounts, Kept
  <2>3. Accounted(q)
    BY <1>1, <1>8, <2>1, <2>2, AccountsStay DEF Turned
  <2>4. Kept(q, s)
    BY <1>1, <1>8, <2>1 DEF Turned, Kept
  <2>5. Turned(q, s, {b}, t)
    BY <1>1, <1>6, <1>8, <2>1, <2>3, <2>4 DEF Turned
  <2>6. Follows(q, r)
    BY <1>1, <2>1 DEF Follows, Kept
  <2> QED
    BY <1>1, <1>5, <1>6, <1>8, <2>1, <2>5, <2>6 DEF StatusFits, q
<1> QED
  BY <1>7, <1>8

LEMMA Classifies ==
  ASSUME NEW books, NEW b \in Basket
  PROVE  Classify(books, b) \in Status
BY DEF Classify, Quote, Status, NoData, Eligible

\* Closing leaves the basket turning, or failed.
LEMMA CloseTurns ==
  ASSUME NEW s, Accounted(s), NEW b \in Basket, NEW t \in Nat, StatusFits(s, b),
         NEW censored \in BOOLEAN
  PROVE  /\ Follows(Close(s, b, t, censored), s)
         /\ ~Close(s, b, t, censored).failed =>
              /\ Turning(Close(s, b, t, censored), s, b, t)
              /\ ~Close(s, b, t, censored).baskets[b].active
<1> DEFINE r == Close(s, b, t, censored)
<1>1. /\ Follows(r, s)
      /\ ~r.failed => ~r.baskets[b].active /\ (r = s \/ Flips(r, s, b, t))
  BY CloseFlips
<1> HIDE DEF r
<1>2. ASSUME ~r.failed PROVE Turning(r, s, b, t)
  BY <1>1, <1>2, FlipTurns, StaysTurning
<1> QED
  BY <1>1, <1>2 DEF r

\* A failed study is left alone.
LEMMA FailedStays ==
  ASSUME NEW s, s.failed, NEW b, NEW t, NEW v
  PROVE  AccountTime(s, b, t) = s /\ SetStatus(s, b, v, t) = s
BY DEF AccountTime, SetStatus

LEMMA UnavailableTurns ==
  ASSUME NEW s, Accounted(s), NEW b \in Basket, NEW t \in Nat, StatusFits(s, b),
         NEW reason \in NoData
  PROVE  /\ Follows(Unavailable(s, b, reason, t), s)
         /\ ~Unavailable(s, b, reason, t).failed =>
              /\ Turned(Unavailable(s, b, reason, t), s, {b}, t)
              /\ StatusFits(Unavailable(s, b, reason, t), b)
              /\ ~Unavailable(s, b, reason, t).baskets[b].active
<1> DEFINE r == Close(s, b, t, TRUE)
<1>1. Follows(r, s) /\ (~r.failed => Turning(r, s, b, t) /\ ~r.baskets[b].active)
  BY CloseTurns
<1>2. reason \in Status /\ reason # "positive"
  BY DEF Status, NoData
<1> HIDE DEF r
<1>3. Unavailable(s, b, reason, t) = SetStatus(r, b, reason, t)
  BY DEF Unavailable, r
<1>4. CASE r.failed
  <2>1. SetStatus(r, b, reason, t) = r
    BY <1>4, FailedStays
  <2> QED
    BY <1>1, <1>3, <1>4, <2>1
<1>5. CASE ~r.failed
  <2>1. r.baskets[b].active <=> reason = "positive"
    BY <1>1, <1>2, <1>5
  <2>2. Turning(r, s, b, t) /\ Follows(r, s)
    BY <1>1, <1>5
  <2>3. Follows(SetStatus(r, b, reason, t), r)
    BY <1>2, <2>1, <2>2, StatusTurns
  <2>4. ASSUME ~SetStatus(r, b, reason, t).failed
        PROVE  /\ Turned(SetStatus(r, b, reason, t), s, {b}, t)
               /\ StatusFits(SetStatus(r, b, reason, t), b)
               /\ SetStatus(r, b, reason, t).baskets[b].active = r.baskets[b].active
    BY <1>2, <2>1, <2>2, <2>4, StatusTurns
  <2>5. Follows(SetStatus(r, b, reason, t), s)
    BY <2>2, <2>3, FollowsOn
  <2> QED
    BY <1>1, <1>3, <1>5, <2>4, <2>5
<1> QED
  BY <1>4, <1>5

LEMMA EvaluateTurns ==
  ASSUME NEW s, Accounted(s), NEW b \in Basket, NEW t \in Nat, StatusFits(s, b), NEW unsized
  PROVE  /\ Follows(Evaluate(s, b, unsized, t), s)
         /\ ~Evaluate(s, b, unsized, t).failed =>
              /\ Turned(Evaluate(s, b, unsized, t), s, {b}, t)
              /\ StatusFits(Evaluate(s, b, unsized, t), b)
              /\ Evaluate(s, b, unsized, t).baskets[b].active
                   <=> Classify(s.cache, b) = "positive"
<1> DEFINE v == Classify(s.cache, b)
           r == IF v = "positive" THEN Open(s, b, t) ELSE Close(s, b, t, FALSE)
<1>1. v \in Status
  BY Classifies
<1>2. CASE v \in NoData
  <2>1. v # "positive"
    BY <1>2 DEF NoData
  <2>2. Evaluate(s, b, unsized, t) = Unavailable(s, b, v, t)
    BY <1>2 DEF Evaluate
  <2> HIDE DEF v
  <2>3. /\ Follows(Unavailable(s, b, v, t), s)
        /\ ~Unavailable(s, b, v, t).failed =>
             /\ Turned(Unavailable(s, b, v, t), s, {b}, t)
             /\ StatusFits(Unavailable(s, b, v, t), b)
             /\ ~Unavailable(s, b, v, t).baskets[b].active
    BY <1>2, UnavailableTurns
  <2> QED
    BY <2>1, <2>2, <2>3 DEF v
<1>3. CASE v \notin NoData /\ b = unsized
  <2>1. Evaluate(s, b, unsized, t) = Fails(s) /\ s \in Observer
    BY <1>3 DEF Evaluate, Accounted
  <2> QED
    BY <2>1, FailsFails
<1>4. CASE v \notin NoData /\ b # unsized
  <2>1. Evaluate(s, b, unsized, t) = SetStatus(r, b, v, t)
    BY <1>4 DEF Evaluate
  <2>2. /\ Follows(r, s)
        /\ ~r.failed => Turning(r, s, b, t) /\ (r.baskets[b].active <=> v = "positive")
    <3>1. CASE v = "positive"
      <4> DEFINE o == Open(s, b, t)
      <4>1. Follows(o, s) /\ (~o.failed => o.baskets[b].active /\ (o = s \/ Flips(o, s, b, t)))
        BY OpenFlips
      <4> HIDE DEF o
      <4>2. ASSUME ~o.failed PROVE Turning(o, s, b, t)
        BY <4>1, <4>2, FlipTurns, StaysTurning
      <4>3. r = o
        BY <3>1 DEF o
      <4> HIDE DEF r, v
      <4> QED
        BY <3>1, <4>1, <4>2, <4>3
    <3>2. CASE v # "positive"
      <4>1. r = Close(s, b, t, FALSE) /\ FALSE \in BOOLEAN
        BY <3>2
      <4> HIDE DEF r, v
      <4> QED
        BY <3>2, <4>1, CloseTurns
    <3> QED
      BY <3>1, <3>2
  <2> HIDE DEF r, v
  <2>3. CASE r.failed
    BY <2>1, <2>2, <2>3, FailedStays
  <2>4. CASE ~r.failed
    BY <1>1, <2>1, <2>2, <2>4, StatusTurns DEF Follows, v
  <2> QED
    BY <2>3, <2>4
<1> QED
  BY <1>2, <1>3, <1>4

\* The end of a basket: its status stays as it was.
LEMMA FinishTurns ==
  ASSUME NEW s, Accounted(s), NEW b \in Basket, NEW t \in Nat, StatusFits(s, b)
  PROVE  /\ Follows(FinishBasket(s, b, t), s)
         /\ ~FinishBasket(s, b, t).failed =>
              /\ Turned(FinishBasket(s, b, t), s, {b}, t)
              /\ ~FinishBasket(s, b, t).baskets[b].active
<1> DEFINE r == Close(s, b, t, TRUE)
<1>1. Follows(r, s) /\ (~r.failed => Turning(r, s, b, t) /\ ~r.baskets[b].active)
  BY CloseTurns
<1> HIDE DEF r
<1>2. FinishBasket(s, b, t) = AccountTime(r, b, t)
  BY DEF FinishBasket, r
<1>3. CASE r.failed
  <2>1. AccountTime(r, b, t) = r
    BY <1>3, FailedStays
  <2> QED
    BY <1>1, <1>2, <1>3, <2>1
<1>4. CASE ~r.failed
  <2>1. Turning(r, s, b, t) /\ Follows(r, s)
    BY <1>1, <1>4
  <2>2. Follows(AccountTime(r, b, t), r)
    BY <2>1, TimeTurns
  <2>3. ASSUME ~AccountTime(r, b, t).failed
        PROVE  /\ Turned(AccountTime(r, b, t), s, {b}, t)
               /\ AccountTime(r, b, t).baskets[b].active = r.baskets[b].active
    BY <2>1, <2>3, TimeTurns
  <2>4. Follows(AccountTime(r, b, t), s)
    BY <2>1, <2>2, FollowsOn
  <2> QED
    BY <1>1, <1>2, <1>4, <2>3, <2>4
<1> QED
  BY <1>3, <1>4

-----------------------------------------------------------------------------
(* The loops over baskets.  Each is the function of its passes.              *)

Pass(kind, x, b, bs, arg, t) ==
  IF kind = "finish" THEN FinishBasket(x, b, t)
  ELSE IF b \notin bs THEN x
  ELSE IF kind = "unavailable" THEN Unavailable(x, b, arg, t)
  ELSE IF x.failed THEN x ELSE Evaluate(x, b, arg, t)

\* What a pass makes of its basket.
Outcome(kind, q, b) ==
  IF kind = "finish" THEN ~q.baskets[b].active
  ELSE /\ StatusFits(q, b)
       /\ IF kind = "unavailable" THEN ~q.baskets[b].active
          ELSE q.baskets[b].active <=> Classify(q.cache, b) = "positive"

\* The loops there are.
IsLoopOf(kind, bs, arg) ==
  \/ kind = "finish" /\ bs = Basket
  \/ kind = "unavailable" /\ bs \subseteq Basket /\ arg \in NoData
  \/ kind = "evaluate" /\ bs \subseteq Basket

IsLoop(f, n, kind, s, bs, arg, t) ==
  f = [b \in 0..n |-> IF b = 0 THEN s ELSE Pass(kind, f[b - 1], b, bs, arg, t)]

\* A loop that leaves q.
Passes(f, q, kind, s, bs, arg, t) ==
  /\ f[0] = s
  /\ \A n \in Basket : f[n] = Pass(kind, f[n - 1], n, bs, arg, t)
  /\ q = f[Len(Legs)]

LEMMA LoopExists ==
  ASSUME NEW kind, NEW s, NEW bs, NEW arg, NEW t
  PROVE  \A n \in Nat : \E f : IsLoop(f, n, kind, s, bs, arg, t)
<1> DEFINE step(b, x) == Pass(kind, x, b, bs, arg, t)
           Looped(f, n) == f = [b \in 0..n |-> IF b = 0 THEN s ELSE step(b, f[b - 1])]
           Bad == {n \in Nat : ~(\E f : Looped(f, n))}
<1>1. Bad = {}
  <2> HIDE DEF step
  <2> SUFFICES ASSUME Bad # {} PROVE FALSE
    OBVIOUS
  <2>1. PICK m \in Bad : \A n \in Bad : m <= n
    BY LeastNatural
  <2>2. Looped([b \in 0..0 |-> s], 0)
    OBVIOUS
  <2>3. m \in Nat /\ m # 0
    BY <2>1, <2>2
  <2>4. m - 1 \in Nat /\ m - 1 \notin Bad
    <3>1. m - 1 \in Nat /\ ~(m <= m - 1)
      BY <2>3
    <3> HIDE DEF Bad
    <3> QED
      BY <2>1, <3>1
  <2>5. PICK f : Looped(f, m - 1)
    BY <2>4
  <2> DEFINE g == [b \in 0..m |-> IF b = m THEN step(m, f[m - 1]) ELSE f[b]]
  <2>6. \A b \in 0..m : g[b] = IF b = 0 THEN s ELSE step(b, g[b - 1])
    <3> SUFFICES ASSUME NEW b \in 0..m PROVE g[b] = IF b = 0 THEN s ELSE step(b, g[b - 1])
      OBVIOUS
    <3>1. CASE b = m
      BY <2>3, <3>1
    <3>2. CASE b # m
      <4>1. b \in 0..(m - 1) /\ g[b] = f[b] /\ (b # 0 => g[b - 1] = f[b - 1])
        BY <2>3, <3>2
      <4>2. f[b] = IF b = 0 THEN s ELSE step(b, f[b - 1])
        BY <2>5, <4>1
      <4> QED
        BY <4>1, <4>2
    <3> QED
      BY <3>1, <3>2
  <2>7. Looped(g, m)
    <3> HIDE DEF step
    <3>1. g = [b \in 0..m |-> g[b]]
      OBVIOUS
    <3> HIDE DEF g
    <3> QED
      BY <2>6, <3>1
  <2> QED
    BY <2>1, <2>7
<1> QED
  BY <1>1 DEF IsLoop

LEMMA BasketsCounted == Len(Legs) \in Nat /\ Basket = 1..Len(Legs)
BY ObservationConstants DEF Basket

LEMMA TurnedOn ==
  ASSUME NEW s, NEW x, NEW q, NEW bs \in SUBSET Basket, NEW b \in Basket, NEW t,
         NEW cs, cs = bs \cup {b}, b \notin bs, Turned(x, s, bs, t), Turned(q, x, {b}, t)
  PROVE  Turned(q, s, cs, t)
<1>1. Accounted(q) /\ Kept(q, s)
  BY DEF Turned, Kept
<1>2. \A k \in Basket : k \notin cs => q.baskets[k] = s.baskets[k]
  BY DEF Turned
<1>3. x.baskets[b] = s.baskets[b]
  BY DEF Turned
<1>4. ASSUME NEW e \in q.closed
      PROVE  e \in s.closed \/ (e.closed = t /\ e.basket \in cs /\ s.baskets[e.basket].active)
  BY <1>3 DEF Turned
<1> QED
  BY <1>1, <1>2, <1>4 DEF Turned

LEMMA PassTurns ==
  ASSUME NEW x, Accounted(x), NEW b \in Basket, NEW t \in Nat, StatusFits(x, b),
         NEW kind, NEW bs, NEW arg, IsLoopOf(kind, bs, arg), b \in bs
  PROVE  /\ Follows(Pass(kind, x, b, bs, arg, t), x)
         /\ ~Pass(kind, x, b, bs, arg, t).failed =>
              /\ Turned(Pass(kind, x, b, bs, arg, t), x, {b}, t)
              /\ Outcome(kind, Pass(kind, x, b, bs, arg, t), b)
<1>1. CASE kind = "finish"
  <2>1. Pass(kind, x, b, bs, arg, t) = FinishBasket(x, b, t)
    BY <1>1 DEF Pass
  <2> QED
    BY <1>1, <2>1, FinishTurns DEF Outcome
<1>2. CASE kind = "unavailable"
  <2>1. Pass(kind, x, b, bs, arg, t) = Unavailable(x, b, arg, t) /\ arg \in NoData
    BY <1>2 DEF Pass, IsLoopOf
  <2> QED
    BY <1>2, <2>1, UnavailableTurns DEF Outcome
<1>3. CASE kind = "evaluate"
  <2> DEFINE q == Evaluate(x, b, arg, t)
  <2>1. Pass(kind, x, b, bs, arg, t) = q
    BY <1>3 DEF Pass, Accounted
  <2>2. /\ Follows(q, x)
        /\ ~q.failed => /\ Turned(q, x, {b}, t) /\ StatusFits(q, b)
                        /\ q.baskets[b].active <=> Classify(x.cache, b) = "positive"
    BY EvaluateTurns
  <2> HIDE DEF q
  <2>3. Turned(q, x, {b}, t) => q.cache = x.cache
    BY DEF Turned, Kept
  <2> QED
    BY <1>3, <2>1, <2>2, <2>3 DEF Outcome
<1> QED
  BY <1>1, <1>2, <1>3 DEF IsLoopOf

LEMMA FailedPass ==
  ASSUME NEW x, x.failed, NEW b, NEW t, NEW kind, NEW bs, NEW arg
  PROVE  Pass(kind, x, b, bs, arg, t) = x
BY DEF Pass, FinishBasket, Unavailable, Close, SetStatus, AccountTime

\* A loop that has come to basket n.
Treated(q, s, kind, bs, n, t) ==
  /\ Follows(q, s)
  /\ ~q.failed =>
       /\ Turned(q, s, {k \in bs : k <= n}, t)
       /\ \A k \in Basket : IF k \in bs /\ k <= n THEN Outcome(kind, q, k) ELSE StatusFits(q, k)

LEMMA PassTreats ==
  ASSUME NEW s, NEW x, NEW n \in Basket, NEW t \in Nat, NEW kind, NEW bs, NEW arg,
         IsLoopOf(kind, bs, arg), Treated(x, s, kind, bs, n - 1, t)
  PROVE  Treated(Pass(kind, x, n, bs, arg, t), s, kind, bs, n, t)
<1> DEFINE q == Pass(kind, x, n, bs, arg, t)
           before == {k \in bs : k <= n - 1}
           after == {k \in bs : k <= n}
<1>1. /\ bs \subseteq Basket /\ n \in Nat
      /\ \A k \in Basket : k \in Nat /\ (k <= n <=> k = n \/ k <= n - 1)
  BY BasketsCounted DEF IsLoopOf
<1>2. CASE x.failed
  <2>1. q = x
    BY <1>2, FailedPass
  <2> HIDE DEF q
  <2> QED
    BY <1>2, <2>1 DEF Treated, q
<1>3. CASE ~x.failed /\ n \notin bs
  <2>1. q = x
    BY <1>3 DEF Pass, IsLoopOf
  <2>2. before = after
    <3>1. \A k \in bs : k <= n <=> k <= n - 1
      BY <1>1, <1>3
    <3> QED
      BY <3>1
  <2>3. \A k \in Basket : k \in bs /\ k <= n <=> k \in bs /\ k <= n - 1
    BY <1>1, <1>3
  <2>4. /\ Follows(x, s) /\ Turned(x, s, before, t)
        /\ \A k \in Basket : IF k \in bs /\ k <= n - 1 THEN Outcome(kind, x, k) ELSE StatusFits(x, k)
    BY <1>3 DEF Treated
  <2> HIDE DEF q, before
  <2> QED
    BY <2>1, <2>2, <2>3, <2>4 DEF Treated, q
<1>4. CASE ~x.failed /\ n \in bs
  <2>1. /\ Follows(x, s) /\ Turned(x, s, before, t) /\ Accounted(x)
        /\ \A k \in Basket : IF k \in bs /\ k <= n - 1 THEN Outcome(kind, x, k) ELSE StatusFits(x, k)
    BY <1>4 DEF Treated, Turned
  <2>2. ~(n <= n - 1) /\ n \notin before /\ before \in SUBSET Basket /\ after = before \cup {n}
    <3>1. \A k \in bs : k <= n <=> k = n \/ k <= n - 1
      BY <1>1
    <3>2. ~(n <= n - 1)
      BY <1>1
    <3> QED
      BY <1>1, <1>4, <3>1, <3>2
  <2>3. StatusFits(x, n)
    BY <2>1, <2>2
  <2>4. Follows(q, x) /\ (~q.failed => Turned(q, x, {n}, t) /\ Outcome(kind, q, n))
    BY <1>4, <2>1, <2>3, PassTurns
  <2> HIDE DEF q, before, after
  <2>5. Follows(q, s)
    BY <2>1, <2>4, FollowsOn
  <2>6. ASSUME ~q.failed PROVE Turned(q, s, after, t)
    BY <2>1, <2>2, <2>4, <2>6, TurnedOn
  <2>7. ASSUME ~q.failed, NEW k \in Basket
        PROVE  IF k \in bs /\ k <= n THEN Outcome(kind, q, k) ELSE StatusFits(q, k)
    <3>1. CASE k = n
      BY <1>1, <1>4, <2>4, <2>7, <3>1
    <3>2. CASE k # n
      <4>1. q.baskets[k] = x.baskets[k] /\ q.cache = x.cache
        BY <2>4, <2>7, <3>2 DEF Turned, Kept
      <4>2. k <= n <=> k <= n - 1
        BY <1>1, <3>2
      <4>3. IF k \in bs /\ k <= n THEN Outcome(kind, x, k) ELSE StatusFits(x, k)
        BY <2>1, <4>2
      <4> QED
        BY <4>1, <4>3 DEF Outcome, StatusFits
    <3> QED
      BY <3>1, <3>2
  <2> QED
    BY <2>5, <2>6, <2>7 DEF Treated, q, after
<1> QED
  BY <1>2, <1>3, <1>4

\* A study ready for its loops.
Ready(s) == Accounted(s) /\ \A k \in Basket : StatusFits(s, k)

LEMMA LoopTreats ==
  ASSUME NEW s, Ready(s), NEW t \in Nat, NEW kind, NEW bs, NEW arg, IsLoopOf(kind, bs, arg),
         NEW f, f[0] = s, \A n \in Basket : f[n] = Pass(kind, f[n - 1], n, bs, arg, t)
  PROVE  Treated(f[Len(Legs)], s, kind, bs, Len(Legs), t)
<1> DEFINE Bad == {n \in Nat : n <= Len(Legs) /\ ~Treated(f[n], s, kind, bs, n, t)}
<1>1. bs \subseteq Basket /\ Len(Legs) \in Nat /\ Basket = 1..Len(Legs)
  BY BasketsCounted DEF IsLoopOf
<1>2. Treated(f[0], s, kind, bs, 0, t)
  <2>1. {k \in bs : k <= 0} = {} /\ \A k \in Basket : ~(k <= 0)
    <3>1. \A k \in Basket : ~(k <= 0)
      BY <1>1
    <3> QED
      BY <1>1, <3>1
  <2>2. Turned(s, s, {}, t)
    BY DEF Turned, Kept, Ready
  <2>3. Follows(s, s)
    BY DEF Follows, Ready, Accounted
  <2> QED
    BY <2>1, <2>2, <2>3 DEF Treated, Ready
<1>3. Bad = {}
  <2> SUFFICES ASSUME Bad # {} PROVE FALSE
    OBVIOUS
  <2>1. PICK n \in Bad : \A m \in Bad : n <= m
    BY LeastNatural
  <2>2. n \in Basket /\ n - 1 \in Nat /\ n - 1 <= Len(Legs) /\ ~(n <= n - 1)
    BY <1>1, <1>2, <2>1
  <2>3. Treated(f[n - 1], s, kind, bs, n - 1, t)
    <3>1. n - 1 \notin Bad
      <4> HIDE DEF Bad
      <4> QED
        BY <2>1, <2>2
    <3> QED
      BY <2>2, <3>1
  <2>4. Treated(f[n], s, kind, bs, n, t)
    BY <2>2, <2>3, PassTreats
  <2> QED
    BY <2>1, <2>4
<1> QED
  BY <1>1, <1>3

LEMMA UnavailablePasses ==
  ASSUME NEW s, NEW bs \in SUBSET Basket, NEW reason, NEW t
  PROVE  \E f : Passes(f, AllUnavailable(s, bs, reason, t), "unavailable", s, bs, reason, t)
<1> DEFINE Loops(f) ==
             f = [b \in 0..Len(Legs) |->
                    IF b = 0 THEN s
                    ELSE IF b \in bs THEN Unavailable(f[b - 1], b, reason, t) ELSE f[b - 1]]
           w == CHOOSE f : Loops(f)
<1>1. AllUnavailable(s, bs, reason, t) = w[Len(Legs)]
  BY Zenon DEF AllUnavailable
<1>2. Len(Legs) \in Nat /\ \A n \in Basket : n \in 0..Len(Legs) /\ n # 0 /\ 0 \in 0..Len(Legs)
  BY BasketsCounted
<1>3. Loops(w)
  <2>1. PICK f : IsLoop(f, Len(Legs), "unavailable", s, bs, reason, t)
    BY <1>2, LoopExists
  <2>2. \A b \in 0..Len(Legs) :
          (IF b = 0 THEN s ELSE Pass("unavailable", f[b - 1], b, bs, reason, t))
            = IF b = 0 THEN s
              ELSE IF b \in bs THEN Unavailable(f[b - 1], b, reason, t) ELSE f[b - 1]
    BY DEF Pass
  <2>3. Loops(f)
    BY <2>1, <2>2 DEF IsLoop
  <2> HIDE DEF Loops
  <2> QED
    BY <2>3, Zenon
<1> HIDE DEF w
<1>4. \A b \in 0..Len(Legs) :
        w[b] = IF b = 0 THEN s
               ELSE IF b \in bs THEN Unavailable(w[b - 1], b, reason, t) ELSE w[b - 1]
  BY <1>3, Zenon
<1>5. \A n \in Basket : w[n] = Pass("unavailable", w[n - 1], n, bs, reason, t)
  BY <1>2, <1>4 DEF Pass
<1>6. w[0] = s
  <2>1. 0 \in 0..Len(Legs)
    BY <1>2
  <2> QED
    BY <1>4, <2>1
<1> QED
  BY <1>1, <1>5, <1>6 DEF Passes

LEMMA EvaluatePasses ==
  ASSUME NEW s, NEW bs \in SUBSET Basket, NEW unsized, NEW t
  PROVE  \E f : Passes(f, EvaluateAll(s, bs, unsized, t), "evaluate", s, bs, unsized, t)
<1> DEFINE Loops(f) ==
             f = [b \in 0..Len(Legs) |->
                    IF b = 0 THEN s
                    ELSE IF b \in bs /\ ~f[b - 1].failed THEN Evaluate(f[b - 1], b, unsized, t)
                    ELSE f[b - 1]]
           w == CHOOSE f : Loops(f)
<1>1. EvaluateAll(s, bs, unsized, t) = w[Len(Legs)]
  BY Zenon DEF EvaluateAll
<1>2. Len(Legs) \in Nat /\ \A n \in Basket : n \in 0..Len(Legs) /\ n # 0
  BY BasketsCounted
<1>3. Loops(w)
  <2>1. PICK f : IsLoop(f, Len(Legs), "evaluate", s, bs, unsized, t)
    BY <1>2, LoopExists
  <2>2. \A b \in 0..Len(Legs) :
          (IF b = 0 THEN s ELSE Pass("evaluate", f[b - 1], b, bs, unsized, t))
            = IF b = 0 THEN s
              ELSE IF b \in bs /\ ~f[b - 1].failed THEN Evaluate(f[b - 1], b, unsized, t)
              ELSE f[b - 1]
    BY DEF Pass
  <2>3. Loops(f)
    BY <2>1, <2>2 DEF IsLoop
  <2> HIDE DEF Loops
  <2> QED
    BY <2>3, Zenon
<1> HIDE DEF w
<1>4. \A b \in 0..Len(Legs) :
        w[b] = IF b = 0 THEN s
               ELSE IF b \in bs /\ ~w[b - 1].failed THEN Evaluate(w[b - 1], b, unsized, t)
               ELSE w[b - 1]
  BY <1>3, Zenon
<1>5. \A n \in Basket : w[n] = Pass("evaluate", w[n - 1], n, bs, unsized, t)
  BY <1>2, <1>4 DEF Pass
<1>6. w[0] = s
  <2>1. 0 \in 0..Len(Legs)
    BY <1>2
  <2> QED
    BY <1>4, <2>1
<1> QED
  BY <1>1, <1>5, <1>6 DEF Passes

LEMMA FinishPasses ==
  ASSUME NEW s, NEW t
  PROVE  \E f : Passes(f, FinishAll(s, t), "finish", s, Basket, "", t)
<1> DEFINE Loops(f) ==
             f = [b \in 0..Len(Legs) |-> IF b = 0 THEN s ELSE FinishBasket(f[b - 1], b, t)]
           w == CHOOSE f : Loops(f)
<1>1. FinishAll(s, t) = w[Len(Legs)]
  BY Zenon DEF FinishAll
<1>2. Len(Legs) \in Nat /\ \A n \in Basket : n \in 0..Len(Legs) /\ n # 0
  BY BasketsCounted
<1>3. Loops(w)
  <2>1. PICK f : IsLoop(f, Len(Legs), "finish", s, Basket, "", t)
    BY <1>2, LoopExists
  <2>2. Loops(f)
    BY <2>1 DEF Pass, IsLoop
  <2> HIDE DEF Loops
  <2> QED
    BY <2>2, Zenon
<1> HIDE DEF w
<1>4. \A b \in 0..Len(Legs) : w[b] = IF b = 0 THEN s ELSE FinishBasket(w[b - 1], b, t)
  BY <1>3, Zenon
<1>5. \A n \in Basket : w[n] = Pass("finish", w[n - 1], n, Basket, "", t)
  BY <1>2, <1>4 DEF Pass
<1>6. w[0] = s
  <2>1. 0 \in 0..Len(Legs)
    BY <1>2
  <2> QED
    BY <1>4, <2>1
<1> QED
  BY <1>1, <1>5, <1>6 DEF Passes

\* All of a loop's baskets are treated when it ends.
LEMMA TreatedAll ==
  ASSUME NEW q, NEW s, NEW kind, NEW bs \in SUBSET Basket, NEW t,
         Treated(q, s, kind, bs, Len(Legs), t)
  PROVE  /\ Follows(q, s)
         /\ ~q.failed =>
              /\ Turned(q, s, bs, t)
              /\ \A k \in Basket : IF k \in bs THEN Outcome(kind, q, k) ELSE StatusFits(q, k)
<1>1. \A k \in Basket : k <= Len(Legs)
  BY BasketsCounted
<1>2. {k \in bs : k <= Len(Legs)} = bs
  BY <1>1
<1> QED
  BY <1>1, <1>2 DEF Treated

LEMMA AllUnavailableTurns ==
  ASSUME NEW s, Ready(s), NEW bs \in SUBSET Basket, NEW reason \in NoData, NEW t \in Nat
  PROVE  /\ Follows(AllUnavailable(s, bs, reason, t), s)
         /\ ~AllUnavailable(s, bs, reason, t).failed =>
              /\ Ready(AllUnavailable(s, bs, reason, t))
              /\ Turned(AllUnavailable(s, bs, reason, t), s, bs, t)
              /\ \A k \in bs : ~AllUnavailable(s, bs, reason, t).baskets[k].active
<1>1. PICK f : Passes(f, AllUnavailable(s, bs, reason, t), "unavailable", s, bs, reason, t)
  BY UnavailablePasses
<1>2. IsLoopOf("unavailable", bs, reason)
  BY DEF IsLoopOf
<1>3. Treated(f[Len(Legs)], s, "unavailable", bs, Len(Legs), t)
  BY <1>1, <1>2, LoopTreats DEF Passes
<1> DEFINE q == f[Len(Legs)]
<1> HIDE DEF q
<1>4. /\ Follows(q, s)
      /\ ~q.failed => /\ Turned(q, s, bs, t)
                      /\ \A k \in Basket : IF k \in bs THEN Outcome("unavailable", q, k)
                                           ELSE StatusFits(q, k)
  BY <1>3, TreatedAll DEF q
<1> QED
  BY <1>1, <1>4 DEF Outcome, Ready, Turned, q, Passes

LEMMA EvaluateAllTurns ==
  ASSUME NEW s, Ready(s), NEW bs \in SUBSET Basket, NEW unsized, NEW t \in Nat
  PROVE  /\ Follows(EvaluateAll(s, bs, unsized, t), s)
         /\ ~EvaluateAll(s, bs, unsized, t).failed =>
              /\ Ready(EvaluateAll(s, bs, unsized, t))
              /\ Turned(EvaluateAll(s, bs, unsized, t), s, bs, t)
              /\ \A k \in bs : EvaluateAll(s, bs, unsized, t).baskets[k].active
                                 <=> Classify(s.cache, k) = "positive"
<1>1. PICK f : Passes(f, EvaluateAll(s, bs, unsized, t), "evaluate", s, bs, unsized, t)
  BY EvaluatePasses
<1>2. IsLoopOf("evaluate", bs, unsized)
  BY DEF IsLoopOf
<1>3. Treated(f[Len(Legs)], s, "evaluate", bs, Len(Legs), t)
  BY <1>1, <1>2, LoopTreats DEF Passes
<1> DEFINE q == f[Len(Legs)]
<1> HIDE DEF q
<1>4. /\ Follows(q, s)
      /\ ~q.failed => /\ Turned(q, s, bs, t)
                      /\ \A k \in Basket : IF k \in bs THEN Outcome("evaluate", q, k)
                                           ELSE StatusFits(q, k)
  BY <1>3, TreatedAll DEF q
<1>5. Turned(q, s, bs, t) => q.cache = s.cache /\ Accounted(q)
  BY DEF Turned, Kept
<1> QED
  BY <1>1, <1>4, <1>5 DEF Outcome, Ready, q, Passes

LEMMA FinishAllTurns ==
  ASSUME NEW s, Ready(s), NEW t \in Nat
  PROVE  /\ Follows(FinishAll(s, t), s)
         /\ ~FinishAll(s, t).failed =>
              /\ Turned(FinishAll(s, t), s, Basket, t)
              /\ \A k \in Basket : ~FinishAll(s, t).baskets[k].active
<1>1. PICK f : Passes(f, FinishAll(s, t), "finish", s, Basket, "", t)
  BY FinishPasses
<1>2. IsLoopOf("finish", Basket, "")
  BY DEF IsLoopOf
<1>3. Treated(f[Len(Legs)], s, "finish", Basket, Len(Legs), t)
  BY <1>1, <1>2, LoopTreats DEF Passes
<1> DEFINE q == f[Len(Legs)]
<1> HIDE DEF q
<1>4. Basket \in SUBSET Basket
  OBVIOUS
<1>5. /\ Follows(q, s)
      /\ ~q.failed => Turned(q, s, Basket, t) /\ \A k \in Basket : Outcome("finish", q, k)
  BY <1>3, <1>4, TreatedAll DEF q
<1> QED
  BY <1>1, <1>5 DEF Outcome, q, Passes

-----------------------------------------------------------------------------
(* The invariant.                                                            *)

\* Episodes are open only before the end of the window, on books that earn.
Live(s) ==
  \A k \in Basket : s.baskets[k].active => ~s.expired /\ Classify(s.cache, k) = "positive"

\* The cache is that of the stream's books.
Views(s, now) ==
  ~s.expired => /\ s.generation = now.generation /\ s.cache = now.books
                /\ \A k \in Basket : s.baskets[k].active => now.connected

\* The deadline is the earliest end the wall clock was mapped to.
DeadlineFits(s, h) ==
  IF s.deadline = NoTime THEN h = MaxTime + ValidUntil + 1 ELSE s.deadline = h

Begun(s) == IF s.first = NoTime THEN Untouched(s) ELSE Ready(s)

Streams == [connected : BOOLEAN, generation : Nat, books : [Markets -> Int]]

ObservationHolds ==
  /\ stream \in Streams /\ (stream.connected \/ stream.books = NoBooks)
  /\ clock \in Nat /\ horizon \in Nat /\ seen \in Observer
  /\ ~seen.failed =>
       /\ IF seen.first = NoTime THEN Untouched(seen) ELSE Accounted(seen)
       /\ \A e \in seen.closed : e.closed <= horizon /\ e.closed <= clock
       /\ IF seen.finished THEN \A k \in Basket : ~seen.baskets[k].active
          ELSE /\ Begun(seen) /\ Live(seen) /\ Views(seen, stream)
               /\ ~seen.expired => DeadlineFits(seen, horizon)
               /\ \A k \in Basket : seen.baskets[k].active => seen.last < horizon

\* A call at t has the study begun, or not, and within its window.
InTime(s, t, h) ==
  /\ ~s.failed /\ ~s.finished /\ Begun(s) /\ Live(s)
  /\ \A e \in s.closed : e.closed <= h /\ e.closed <= t
  /\ ~s.expired => DeadlineFits(s, h) /\ t < h

LEMMA ReadyStays ==
  ASSUME NEW s, Ready(s), NEW q \in Observer, ~q.failed, SameAccounts(q, s), q.baskets = s.baskets
  PROVE  Ready(q)
BY AccountsStay DEF Ready, StatusFits

\* Nothing of the accounts changes.
LEMMA SameIsSame ==
  ASSUME NEW s, NEW q, q.first = s.first, q.closed = s.closed, q.union = s.union,
         q.union_since = s.union_since, q.active = s.active, q.baskets = s.baskets
  PROVE  SameAccounts(q, s)
BY DEF SameAccounts

\* The study expires at t.
ExpiredAt(q, s, t) ==
  /\ Ready(q) /\ q.expired /\ q.finished = s.finished /\ q.last = s.last
  /\ \A k \in Basket : ~q.baskets[k].active
  /\ \A e \in q.closed : e \in s.closed \/ e.closed = t

LEMMA ExpireTurns ==
  ASSUME NEW s, Ready(s), NEW t \in Nat
  PROVE  /\ Follows(Expire(s, t), s)
         /\ ~Expire(s, t).failed => ExpiredAt(Expire(s, t), s, t)
<1> DEFINE x == [s EXCEPT !.expired = TRUE, !.deadline = NoTime]
           q == AllUnavailable(x, Basket, "expired", t)
<1>1. s \in Observer /\ ~s.failed
  BY DEF Ready, Accounted
<1>2. Expire(s, t) = q
  BY DEF Expire
<1>3. NoTime \in Moment
  BY DEF Moment
<1>4. /\ x \in Observer /\ ~x.failed /\ x.first = s.first /\ x.closed = s.closed
      /\ x.union = s.union /\ x.union_since = s.union_since /\ x.active = s.active
      /\ x.baskets = s.baskets /\ x.expired /\ x.finished = s.finished /\ x.last = s.last
      /\ x.peak = s.peak
  BY <1>1, <1>3 DEF Observer
<1> HIDE DEF x
<1>5. Ready(x)
  BY <1>4, SameIsSame, ReadyStays
<1>6. Basket \in SUBSET Basket /\ "expired" \in NoData
  BY DEF NoData
<1>7. /\ Follows(q, x)
      /\ ~q.failed => Ready(q) /\ Turned(q, x, Basket, t) /\ \A k \in Basket : ~q.baskets[k].active
  BY <1>5, <1>6, AllUnavailableTurns
<1> HIDE DEF q
<1>8. Follows(q, s)
  BY <1>4, <1>7 DEF Follows
<1>9. ASSUME ~q.failed PROVE ExpiredAt(q, s, t)
  BY <1>4, <1>7, <1>9 DEF ExpiredAt, Turned, Kept
<1> QED
  BY <1>2, <1>8, <1>9

\* What Before leaves of a study at work.
LEMMA BeforeInTime ==
  ASSUME ObservationHolds, Running, NEW t \in Times
  PROVE  /\ Follows(Before(seen, t), seen)
         /\ ~Before(seen, t).failed =>
              /\ InTime(Before(seen, t), t, horizon) /\ Views(Before(seen, t), stream)
              /\ Before(seen, t).last = seen.last
              /\ Before(seen, t).expired => \A k \in Basket : ~Before(seen, t).baskets[k].active
              /\ t \in Nat /\ t >= clock
<1> DEFINE s == seen
           q == Before(seen, t)
<1>1. /\ s \in Observer /\ ~s.failed /\ ~s.finished /\ Begun(s) /\ Live(s) /\ Views(s, stream)
      /\ ~s.expired => DeadlineFits(s, horizon)
      /\ \A e \in s.closed : e.closed <= horizon /\ e.closed <= clock
      /\ clock \in Nat /\ horizon \in Nat
  BY DEF ObservationHolds, Running
<1>2. t \in Nat /\ t <= MaxTime /\ (t >= clock \/ t = s.last - 1) /\ MaxTime \in Nat /\ ValidUntil \in Nat
  BY ObservationConstants DEF Times
<1>3. CASE s.last # NoTime /\ t < s.last
  BY <1>1, <1>3, FailsFails DEF Before
<1>4. CASE ~(s.last # NoTime /\ t < s.last)
  <2>1. t >= clock
    <3>1. CASE s.last = NoTime
      BY <1>2, <3>1 DEF NoTime
    <3>2. CASE s.last # NoTime
      <4>1. s.last \in Nat
        BY <1>1, <3>2 DEF Observer, Moment
      <4> QED
        BY <1>2, <1>4, <3>2, <4>1
    <3> QED
      BY <3>1, <3>2
  <2>2. \A e \in s.closed : e.closed \in Nat
    BY <1>1 DEF Observer, Episode
  <2>3. \A e \in s.closed : e.closed <= horizon /\ e.closed <= t
    BY <1>1, <1>2, <2>1, <2>2
  <2>4. s.expired => \A k \in Basket : ~s.baskets[k].active
    BY <1>1 DEF Live
  <2>5. CASE s.deadline # NoTime /\ t >= s.deadline /\ ~s.expired
    <3> DEFINE d == s.deadline
    <3>1. q = Expire(s, d)
      BY <1>4, <2>5 DEF Before
    <3>2. d \in Nat /\ d = horizon /\ d <= t
      BY <1>1, <1>2, <2>5 DEF Observer, Moment, DeadlineFits
    <3>3. s.first # NoTime
      BY <1>1, <2>5 DEF Begun, Untouched
    <3>4. Ready(s)
      BY <1>1, <3>3 DEF Begun
    <3> HIDE DEF q, d, s
    <3>5. Follows(q, s) /\ (~q.failed => ExpiredAt(q, s, d))
      BY <3>1, <3>2, <3>4, ExpireTurns
    <3>6. ASSUME ~q.failed
          PROVE  /\ InTime(q, t, horizon) /\ Views(q, stream) /\ q.last = s.last
                 /\ \A k \in Basket : ~q.baskets[k].active
      <4>1. /\ Ready(q) /\ q.expired /\ q.finished = s.finished /\ q.last = s.last
            /\ \A k \in Basket : ~q.baskets[k].active
            /\ \A e \in q.closed : e \in s.closed \/ e.closed = d
        BY <3>5, <3>6 DEF ExpiredAt
      <4>2. \A e \in q.closed : e.closed <= horizon /\ e.closed <= t
        BY <2>3, <3>2, <4>1
      <4>3. Begun(q)
        BY <4>1 DEF Begun, Ready, Accounted
      <4> QED
        BY <1>1, <3>6, <4>1, <4>2, <4>3 DEF InTime, Views, Live
    <3> QED
      BY <1>2, <2>1, <3>5, <3>6 DEF q, s
  <2>6. CASE ~(s.deadline # NoTime /\ t >= s.deadline /\ ~s.expired)
    <3>1. q = s
      BY <1>4, <2>6 DEF Before
    <3>2. ASSUME ~s.expired PROVE t < horizon
      <4>1. CASE s.deadline = NoTime
        BY <1>1, <1>2, <3>2, <4>1 DEF DeadlineFits
      <4>2. CASE s.deadline # NoTime
        <5>1. s.deadline = horizon
          BY <1>1, <3>2, <4>2 DEF DeadlineFits
        <5> QED
          BY <1>1, <1>2, <2>6, <3>2, <4>2, <5>1
      <4> QED
        BY <4>1, <4>2
    <3>3. InTime(s, t, horizon)
      BY <1>1, <2>3, <3>2 DEF InTime
    <3>4. Follows(s, s)
      BY <1>1 DEF Follows
    <3> QED
      BY <1>1, <1>2, <2>1, <2>4, <3>1, <3>3, <3>4
  <2> QED
    BY <2>5, <2>6
<1> QED
  BY <1>3, <1>4

LEMMA ZeroSums == SumOf([v \in Status |-> 0]) = 0
<1> DEFINE zero == [v \in Status |-> 0]
<1>1. Units(zero) = {}
  <2>1. \A v \in Status : {v} \X (1..zero[v]) = {}
    <3>1. 1..0 = {}
      OBVIOUS
    <3> QED
      BY <3>1
  <2> QED
    BY <2>1 DEF Units
<1> QED
  BY <1>1, FS_EmptySet DEF SumOf

\* The first frame starts every basket's time.
LEMMA BeginInTime ==
  ASSUME NEW s \in Observer, NEW t \in Nat, NEW h, InTime(s, t, h)
  PROVE  LET q == Begin(s, t) IN
         /\ Follows(q, s) /\ InTime(q, t, h) /\ Ready(q) /\ q.last = t /\ q.expired = s.expired
         /\ q.generation = s.generation /\ q.cache = s.cache
         /\ \A k \in Basket : q.baskets[k].active = s.baskets[k].active
<1> DEFINE q == Begin(s, t)
<1>0. t \in Moment
  BY DEF Moment
<1>1. CASE s.first # NoTime
  <2>1. q = [s EXCEPT !.last = t]
    BY <1>1 DEF Begin
  <2>2. Ready(s)
    BY <1>1 DEF InTime, Begun
  <2> HIDE DEF q
  <2>3. /\ q \in Observer /\ q.failed = s.failed /\ q.first = s.first /\ q.closed = s.closed
        /\ q.union = s.union /\ q.union_since = s.union_since /\ q.active = s.active
        /\ q.baskets = s.baskets /\ q.expired = s.expired /\ q.finished = s.finished
        /\ q.last = t /\ q.generation = s.generation /\ q.cache = s.cache
        /\ q.deadline = s.deadline /\ q.peak = s.peak
    BY <1>0, <2>1 DEF Observer
  <2>4. Ready(q)
    BY <2>2, <2>3, SameIsSame, ReadyStays DEF Ready, Accounted
  <2>5. InTime(q, t, h)
    BY <1>1, <2>3, <2>4 DEF InTime, Begun, Live, DeadlineFits
  <2> QED
    BY <2>3, <2>4, <2>5 DEF Follows, q
<1>2. CASE s.first = NoTime
  <2> DEFINE baskets == [b \in Basket |-> [s.baskets[b] EXCEPT !.since = t]]
             zero == [v \in Status |-> 0]
  <2>1. q = [s EXCEPT !.first = t, !.last = t, !.union_since = t, !.baskets = baskets]
    BY <1>2 DEF Begin
  <2>2. Untouched(s) /\ ~s.failed /\ ~s.finished
    BY <1>2 DEF InTime, Begun
  <2>3. ASSUME NEW k \in Basket
        PROVE  /\ baskets[k] \in Tracked /\ baskets[k].since = t /\ ~baskets[k].active
               /\ ~s.baskets[k].active /\ baskets[k].active = s.baskets[k].active
               /\ baskets[k].status = "unavailable" /\ baskets[k].durations = zero
    <3> DEFINE x == s.baskets[k]
    <3>1. x \in Tracked /\ ~x.active /\ x.status = "unavailable" /\ x.durations = zero
      BY <2>2 DEF Observer, Untouched
    <3>2. baskets[k] = [x EXCEPT !.since = t]
      OBVIOUS
    <3> HIDE DEF x, baskets
    <3> QED
      BY <3>1, <3>2 DEF Tracked, x
  <2>4. baskets \in [Basket -> Tracked]
    BY <2>3
  <2> HIDE DEF q, baskets
  <2>5. /\ q \in Observer /\ q.failed = s.failed /\ q.first = t /\ q.closed = s.closed
        /\ q.union = s.union /\ q.union_since = t /\ q.active = s.active
        /\ q.baskets = baskets /\ q.expired = s.expired /\ q.finished = s.finished
        /\ q.last = t /\ q.generation = s.generation /\ q.cache = s.cache
        /\ q.deadline = s.deadline /\ q.peak = s.peak
    BY <1>0, <2>1, <2>4 DEF Observer
  <2>6. q.closed = {} /\ q.union = 0 /\ q.active = 0 /\ \A k \in Basket : ~q.baskets[k].active
    BY <2>2, <2>3, <2>5 DEF Untouched
  <2>7. \A bs \in SUBSET Basket : \A z : Covered(q, bs, z) = {}
    BY <2>6 DEF Covered
  <2>8. UnionFits(q)
    <3>1. ActiveIn(q) = {} /\ Covered(q, Basket, t) = {}
      BY <2>6, <2>7 DEF ActiveIn
    <3> QED
      BY <2>5, <2>6, <3>1, FS_EmptySet DEF UnionFits
  <2>9. ASSUME NEW k \in Basket PROVE TimeFits(q, k) /\ StatusFits(q, k)
    <3>1. /\ q.baskets[k].durations = zero /\ q.baskets[k].since = t
          /\ q.baskets[k].status = "unavailable" /\ ~q.baskets[k].active
      BY <2>3, <2>5
    <3>2. Covered(q, {k}, t) = {} /\ zero["positive"] = 0 /\ SumOf(zero) = 0
      BY <2>7, ZeroSums DEF Status, Eligible
    <3>3. zero["positive"] = Cardinality(Covered(q, {k}, t))
      BY <3>2, FS_EmptySet
    <3>4. SumOf(zero) = t - q.first
      BY <2>5, <3>2
    <3> HIDE DEF zero
    <3> QED
      BY <2>6, <3>1, <3>3, <3>4 DEF TimeFits, StatusFits
  <2>10. t # NoTime
    BY DEF NoTime
  <2>11. Ready(q)
    BY <2>2, <2>5, <2>8, <2>9, <2>10 DEF Ready, Accounted
  <2>12. InTime(q, t, h)
    BY <2>2, <2>5, <2>6, <2>10, <2>11 DEF InTime, Begun, Live, DeadlineFits
  <2> QED
    BY <2>3, <2>5, <2>11, <2>12 DEF Follows, q
<1> QED
  BY <1>1, <1>2

\* The window of the policy, and the earliest end of it so far.
LEMMA WindowInTime ==
  ASSUME NEW s, Ready(s), NEW t \in Nat, t <= MaxTime, NEW h \in Nat, InTime(s, t, h),
         NEW wall \in Wall
  PROVE  LET q == Window(s, wall, t)
             end == IF Mapped(wall, t) >= h THEN h ELSE Mapped(wall, t)
         IN  /\ Follows(q, s) /\ end \in Nat
             /\ ~q.failed =>
                  /\ InTime(q, t, end) /\ Ready(q) /\ q.last = s.last
                  /\ ~q.expired => /\ ~s.expired /\ q.generation = s.generation /\ q.cache = s.cache
                                   /\ q.baskets = s.baskets
<1> DEFINE q == Window(s, wall, t)
           mapped == Mapped(wall, t)
           end == IF mapped >= h THEN h ELSE mapped
<1>1. /\ wall \in Nat /\ wall <= ValidUntil /\ ValidUntil \in Nat /\ MaxTime \in Nat
  BY ObservationConstants
<1>2. /\ mapped \in Nat /\ t <= mapped /\ mapped <= MaxTime + ValidUntil
      /\ wall < ValidUntil => t < mapped
      /\ wall >= ValidUntil => mapped = t
  BY <1>1 DEF Mapped
<1> HIDE DEF mapped
<1>3. end \in Nat /\ (end = h \/ end = mapped) /\ end <= h /\ end <= mapped
  BY <1>2
<1>4. /\ s \in Observer /\ ~s.failed /\ ~s.finished /\ s.first # NoTime
      /\ \A e \in s.closed : e.closed \in Nat /\ e.closed <= h /\ e.closed <= t
      /\ ~s.expired => DeadlineFits(s, h) /\ t < h
  BY DEF Ready, Accounted, InTime, Observer, Episode
<1>5. \A e \in s.closed : e.closed <= end
  BY <1>2, <1>3, <1>4
<1> HIDE DEF end
<1>6. CASE s.expired
  <2>1. q = s
    BY <1>6 DEF Window
  <2>2. InTime(s, t, end)
    BY <1>4, <1>5, <1>6 DEF InTime
  <2> HIDE DEF q
  <2> QED
    BY <1>3, <1>4, <1>6, <2>1, <2>2 DEF Follows, q, end, mapped
<1>7. CASE ~s.expired /\ wall >= ValidUntil
  <2>1. q = Expire(s, t)
    BY <1>4, <1>7 DEF Window
  <2>2. t <= end
    BY <1>2, <1>3, <1>4, <1>7
  <2> HIDE DEF q
  <2>3. Follows(q, s) /\ (~q.failed => ExpiredAt(q, s, t))
    BY <2>1, ExpireTurns
  <2>4. ASSUME ~q.failed PROVE InTime(q, t, end) /\ Ready(q) /\ q.last = s.last /\ q.expired
    <3>1. /\ Ready(q) /\ q.expired /\ q.finished = s.finished /\ q.last = s.last
          /\ \A k \in Basket : ~q.baskets[k].active
          /\ \A e \in q.closed : e \in s.closed \/ e.closed = t
      BY <2>3, <2>4 DEF ExpiredAt
    <3>2. \A e \in q.closed : e.closed <= end /\ e.closed <= t
      BY <1>4, <1>5, <2>2, <3>1
    <3>3. Begun(q)
      BY <3>1 DEF Begun, Ready, Accounted
    <3> QED
      BY <1>4, <2>4, <3>1, <3>2, <3>3 DEF InTime, Live
  <2> QED
    BY <1>3, <2>3, <2>4 DEF q, end, mapped
<1>8. CASE ~s.expired /\ ~(wall >= ValidUntil)
  <2> DEFINE d == Earlier(s, mapped)
  <2>1. q = [s EXCEPT !.deadline = d]
    BY <1>4, <1>8 DEF Window, mapped
  <2>2. t < mapped /\ t < end
    BY <1>1, <1>2, <1>3, <1>4, <1>8
  <2>3. d = end
    <3>1. CASE s.deadline = NoTime
      <4>1. d = mapped
        BY <3>1 DEF Earlier
      <4>2. h = MaxTime + ValidUntil + 1
        BY <1>4, <1>8, <3>1 DEF DeadlineFits
      <4>3. ~(mapped >= h)
        BY <1>1, <1>2, <4>2
      <4> QED
        BY <4>1, <4>3 DEF end
    <3>2. CASE s.deadline # NoTime
      <4>1. s.deadline = h
        BY <1>4, <1>8, <3>2 DEF DeadlineFits
      <4> QED
        BY <1>2, <3>2, <4>1 DEF Earlier, end
    <3> QED
      BY <3>1, <3>2
  <2>4. d \in Moment /\ d # NoTime
    BY <1>3, <2>3 DEF Moment, NoTime
  <2> HIDE DEF q, d
  <2>5. /\ q \in Observer /\ q.failed = s.failed /\ q.first = s.first /\ q.closed = s.closed
        /\ q.union = s.union /\ q.union_since = s.union_since /\ q.active = s.active
        /\ q.baskets = s.baskets /\ q.expired = s.expired /\ q.finished = s.finished
        /\ q.last = s.last /\ q.generation = s.generation /\ q.cache = s.cache
        /\ q.deadline = d /\ q.peak = s.peak
    BY <1>4, <2>1, <2>4 DEF Observer
  <2>6. Ready(q)
    BY <1>4, <2>5, SameIsSame, ReadyStays
  <2>7. InTime(q, t, end)
    BY <1>4, <1>5, <2>2, <2>3, <2>4, <2>5, <2>6 DEF InTime, Begun, Live, DeadlineFits
  <2> QED
    BY <1>3, <1>8, <2>5, <2>6, <2>7 DEF Follows, q, end, mapped
<1> QED
  BY <1>6, <1>7, <1>8

\* The baskets treated at t leave a study in time, if the rest of them does.
LEMMA TreatedInTime ==
  ASSUME NEW s, NEW t \in Nat, NEW h \in Nat, InTime(s, t, h), Ready(s), ~s.expired,
         NEW x, Ready(x), x.closed = s.closed, x.last = s.last, x.deadline = s.deadline,
         ~x.expired, ~x.finished,
         NEW bs \in SUBSET Basket, NEW q, Ready(q), Turned(q, x, bs, t), Live(q)
  PROVE  InTime(q, t, h) /\ q.last = s.last /\ ~q.expired
<1>1. /\ q.first # NoTime /\ ~q.failed /\ q.last = x.last /\ q.deadline = x.deadline
      /\ q.expired = x.expired /\ q.finished = x.finished
      /\ \A e \in q.closed : e \in x.closed \/ e.closed = t
  BY DEF Turned, Kept, Ready, Accounted
<1>2. /\ \A e \in s.closed : e.closed <= h /\ e.closed <= t
      /\ DeadlineFits(s, h) /\ t < h /\ t <= h /\ t <= t
  BY DEF InTime
<1>3. \A e \in q.closed : e.closed <= h /\ e.closed <= t
  BY <1>1, <1>2
<1>4. DeadlineFits(q, h)
  BY <1>1, <1>2 DEF DeadlineFits
<1> QED
  BY <1>1, <1>2, <1>3, <1>4 DEF InTime, Begun

\* The stream as the observer sees it after the check of its connection.
Joined(s, now) ==
  ~s.expired =>
    /\ s.generation = now.generation
    /\ \/ /\ now.connected /\ now.generation = stream.generation /\ s.cache = stream.books
       \/ /\ s.cache = NoBooks /\ \A k \in Basket : ~s.baskets[k].active
          /\ ~now.connected \/ now.generation # stream.generation

LEMMA ConnectionInTime ==
  ASSUME NEW s, Ready(s), NEW t \in Nat, NEW h \in Nat, InTime(s, t, h), NEW now \in Streams,
         ~s.expired => s.generation = stream.generation /\ s.cache = stream.books
  PROVE  LET q == Connection(s, now, t) IN
         /\ Follows(q, s)
         /\ ~q.failed => InTime(q, t, h) /\ Ready(q) /\ q.last = s.last /\ Joined(q, now)
<1> DEFINE q == Connection(s, now, t)
<1>1. s \in Observer /\ ~s.failed /\ ~s.finished /\ s.first # NoTime
  BY DEF Ready, Accounted, InTime
<1>2. CASE s.expired \/ (now.connected /\ now.generation = s.generation)
  <2>1. q = s
    BY <1>2 DEF Connection
  <2>2. Joined(s, now)
    BY <1>2 DEF Joined
  <2> QED
    BY <1>1, <2>1, <2>2 DEF Follows
<1>3. CASE ~(s.expired \/ (now.connected /\ now.generation = s.generation))
  <2> DEFINE x == [s EXCEPT !.generation = now.generation, !.cache = [m \in Markets |-> Invalid]]
  <2>1. q = AllUnavailable(x, Basket, "unavailable", t)
    BY <1>1, <1>3 DEF Connection
  <2>2. now.generation \in Nat /\ NoBooks \in [Markets -> Int]
    BY DEF Streams, NoBooks, Invalid
  <2>3. x = [s EXCEPT !.generation = now.generation, !.cache = NoBooks]
    BY DEF NoBooks
  <2> HIDE DEF x
  <2>4. /\ x \in Observer /\ x.failed = s.failed /\ x.first = s.first /\ x.closed = s.closed
        /\ x.union = s.union /\ x.union_since = s.union_since /\ x.active = s.active
        /\ x.baskets = s.baskets /\ x.expired = s.expired /\ x.finished = s.finished
        /\ x.last = s.last /\ x.generation = now.generation /\ x.cache = NoBooks
        /\ x.deadline = s.deadline /\ x.peak = s.peak
    BY <1>1, <2>2, <2>3 DEF Observer
  <2>5. Ready(x)
    BY <1>1, <2>4, SameIsSame, ReadyStays
  <2>6. Basket \in SUBSET Basket /\ "unavailable" \in NoData
    BY DEF NoData
  <2> HIDE DEF q
  <2>7. /\ Follows(q, x)
        /\ ~q.failed => Ready(q) /\ Turned(q, x, Basket, t) /\ \A k \in Basket : ~q.baskets[k].active
    BY <2>1, <2>5, <2>6, AllUnavailableTurns
  <2>8. Follows(q, s)
    BY <2>4, <2>7 DEF Follows
  <2>9. ASSUME ~q.failed PROVE InTime(q, t, h) /\ Ready(q) /\ q.last = s.last /\ Joined(q, now)
    <3>1. Live(q)
      BY <2>7, <2>9 DEF Live
    <3>2. InTime(q, t, h) /\ q.last = s.last
      BY <1>1, <1>3, <2>4, <2>5, <2>6, <2>7, <2>9, <3>1, TreatedInTime
    <3>3. q.generation = now.generation /\ q.cache = NoBooks
      BY <2>4, <2>7, <2>9 DEF Turned, Kept
    <3> QED
      BY <1>3, <2>7, <2>9, <3>2, <3>3 DEF Joined
  <2> QED
    BY <2>8, <2>9 DEF q
<1> QED
  BY <1>2, <1>3

\* A basket's status is that of its own books.
LEMMA ClassifiesOwn ==
  ASSUME NEW b \in Basket, NEW m, b \notin Dependencies(m), NEW books, NEW others,
         \A k \in Markets : k # m => books[k] = others[k]
  PROVE  Classify(books, b) = Classify(others, b)
<1>1. Legs[b] \in [1..3 -> Markets]
  BY ObservationConstants DEF Basket
<1>2. \A i \in 1..3 : Legs[b][i] # m /\ Legs[b][i] \in Markets
  BY <1>1 DEF Dependencies
<1>3. \A i \in 1..3 : books[Legs[b][i]] = others[Legs[b][i]]
  BY <1>2
<1>4. Cost(books, b) = Cost(others, b)
  BY <1>3 DEF Cost, LegCost
<1>5. Quote(books, b) = Quote(others, b)
  BY <1>3, <1>4 DEF Quote
<1> DEFINE bad(x) == {i \in 1..3 : x[Legs[b][i]] \in {Invalid, Crossed}}
           first(x) == CHOOSE i \in bad(x) : \A j \in bad(x) : i <= j
<1>6. bad(books) = bad(others)
  BY <1>3
<1>7. first(books) = first(others)
  BY <1>6
<1>8. bad(books) # {} => first(books) \in 1..3
  <2> SUFFICES ASSUME bad(books) # {} PROVE first(books) \in 1..3
    OBVIOUS
  <2> DEFINE B == bad(books)
  <2>1. B \subseteq Nat /\ B # {} /\ B \subseteq 1..3
    OBVIOUS
  <2> HIDE DEF B
  <2>2. \E i \in B : \A j \in B : i <= j
    BY <2>1, LeastNatural
  <2> QED
    BY <2>1, <2>2 DEF B
<1>9. \A x : Classify(x, b) = IF bad(x) = {} THEN Quote(x, b)
                              ELSE IF x[Legs[b][first(x)]] = Invalid THEN "unavailable" ELSE "crossed"
  BY Zenon DEF Classify
<1> HIDE DEF bad, first
<1> QED
  BY <1>3, <1>5, <1>6, <1>7, <1>8, <1>9

LEMMA PreambleInTime ==
  ASSUME ObservationHolds, Running, NEW t \in Times, NEW wall \in Wall, NEW now \in Streams
  PROVE  LET p == Preamble(now, wall, t)
             end == IF Mapped(wall, t) >= horizon THEN horizon ELSE Mapped(wall, t)
         IN  /\ Follows(p, seen)
             /\ ~p.failed => /\ InTime(p, t, end) /\ Ready(p) /\ p.last = t /\ Joined(p, now)
                             /\ t \in Nat /\ t >= clock /\ end \in Nat
<1> DEFINE p == Preamble(now, wall, t)
           end == IF Mapped(wall, t) >= horizon THEN horizon ELSE Mapped(wall, t)
           s == Before(seen, t)
           r == Begin(s, t)
           w == Window(r, wall, t)
<1>1. /\ Follows(s, seen)
      /\ ~s.failed => InTime(s, t, horizon) /\ Views(s, stream) /\ t \in Nat /\ t >= clock
  BY BeforeInTime
<1>2. horizon \in Nat /\ t <= MaxTime
  BY ObservationConstants DEF ObservationHolds, Times
<1>3. p = IF s.failed \/ wall < ValidFrom THEN Fails(s) ELSE Connection(w, now, t)
  BY DEF Preamble
<1>4. CASE s.failed \/ wall < ValidFrom
  <2>1. Follows(Fails(s), s) /\ Fails(s).failed
    BY <1>1, FailsFails DEF Follows
  <2> HIDE DEF p, s
  <2>2. Follows(p, seen) /\ p.failed
    BY <1>1, <1>3, <1>4, <2>1, FollowsOn
  <2> QED
    BY <2>2 DEF p
<1>5. CASE ~(s.failed \/ wall < ValidFrom)
  <2>1. s \in Observer /\ InTime(s, t, horizon) /\ Views(s, stream) /\ t \in Nat /\ t >= clock
    BY <1>1, <1>5 DEF Follows
  <2> HIDE DEF s
  <2>2. /\ Follows(r, s) /\ InTime(r, t, horizon) /\ Ready(r) /\ r.last = t
        /\ r.expired = s.expired /\ r.generation = s.generation /\ r.cache = s.cache
    BY <2>1, BeginInTime
  <2> HIDE DEF r
  <2>3. /\ Follows(w, r) /\ end \in Nat
        /\ ~w.failed =>
             /\ InTime(w, t, end) /\ Ready(w) /\ w.last = r.last
             /\ ~w.expired => ~r.expired /\ w.generation = r.generation /\ w.cache = r.cache
    BY <1>2, <2>1, <2>2, WindowInTime
  <2> HIDE DEF w, end
  <2>4. Follows(w, seen)
    BY <1>1, <2>2, <2>3, FollowsOn
  <2>5. CASE w.failed
    <3>1. p = w
      BY <1>3, <1>5, <2>5 DEF Connection
    <3> HIDE DEF p
    <3> QED
      BY <2>4, <2>5, <3>1 DEF p
  <2>6. CASE ~w.failed
    <3>1. p = Connection(w, now, t)
      BY <1>3, <1>5
    <3>2. InTime(w, t, end) /\ Ready(w) /\ w.last = t
      BY <2>2, <2>3, <2>6
    <3>3. ~w.expired => w.generation = stream.generation /\ w.cache = stream.books
      BY <2>1, <2>2, <2>3, <2>6 DEF Views
    <3> HIDE DEF p
    <3>4. /\ Follows(p, w)
          /\ ~p.failed => InTime(p, t, end) /\ Ready(p) /\ p.last = w.last /\ Joined(p, now)
      BY <2>1, <2>3, <3>1, <3>2, <3>3, ConnectionInTime
    <3>5. Follows(p, seen)
      BY <2>4, <3>4, FollowsOn
    <3> QED
      BY <2>1, <2>3, <3>2, <3>4, <3>5 DEF p, end
  <2> QED
    BY <2>5, <2>6
<1> QED
  BY <1>4, <1>5

\* One market's book changes on a connection that stays.
Rebooks(now, m) ==
  /\ stream \in Streams /\ now \in Streams /\ m \in Markets
  /\ now.connected /\ now.generation = stream.generation
  /\ \A k \in Markets : k # m => now.books[k] = stream.books[k]

\* The cache has the book; treating the baskets of its market leaves a study in time.
Rebooked(c, s, now, m, t, h) ==
  /\ Ready(c) /\ Follows(c, s) /\ c.cache = now.books
  /\ \A q : /\ Ready(q) /\ Turned(q, c, Dependencies(m), t)
            /\ \A k \in Dependencies(m) :
                 q.baskets[k].active => Classify(c.cache, k) = "positive"
            => /\ InTime(q, t, h) /\ q.last = s.last /\ Views(q, now)
               /\ q.cache = now.books /\ ~q.expired

LEMMA RebookedInTime ==
  ASSUME NEW s, NEW t \in Nat, NEW h \in Nat, InTime(s, t, h), Ready(s), ~s.expired,
         NEW now, NEW m, Rebooks(now, m), Joined(s, now),
         NEW c, c = [s EXCEPT !.cache[m] = now.books[m]]
  PROVE  Rebooked(c, s, now, m, t, h)
<1>1. s \in Observer /\ ~s.failed /\ ~s.finished /\ s.first # NoTime
  BY DEF Ready, Accounted, InTime
<1>2. s.generation = now.generation /\ s.cache = stream.books
  BY DEF Joined, Rebooks
<1>3. now.books \in [Markets -> Int] /\ stream.books \in [Markets -> Int] /\ m \in Markets
  BY DEF Rebooks, Streams
<1>4. [s.cache EXCEPT ![m] = now.books[m]] = now.books
  BY <1>2, <1>3 DEF Rebooks
<1>5. c = [s EXCEPT !.cache = now.books]
  BY <1>1, <1>4
<1>6. /\ c \in Observer /\ c.failed = s.failed /\ c.first = s.first /\ c.closed = s.closed
      /\ c.union = s.union /\ c.union_since = s.union_since /\ c.active = s.active
      /\ c.baskets = s.baskets /\ c.expired = s.expired /\ c.finished = s.finished
      /\ c.last = s.last /\ c.generation = s.generation /\ c.cache = now.books
      /\ c.deadline = s.deadline /\ c.peak = s.peak
  BY <1>1, <1>3, <1>5 DEF Observer
<1>7. Ready(c)
  BY <1>1, <1>6, SameIsSame, ReadyStays
<1>8. ASSUME NEW q, Ready(q), Turned(q, c, Dependencies(m), t),
             \A k \in Dependencies(m) : q.baskets[k].active => Classify(c.cache, k) = "positive"
      PROVE  /\ InTime(q, t, h) /\ q.last = s.last /\ Views(q, now)
             /\ q.cache = now.books /\ ~q.expired
  <2>1. q.cache = now.books /\ q.expired = s.expired /\ q.generation = s.generation
    BY <1>6, <1>8 DEF Turned, Kept
  <2>2. ASSUME NEW k \in Basket, q.baskets[k].active PROVE Classify(q.cache, k) = "positive"
    <3>1. CASE k \in Dependencies(m)
      BY <1>6, <1>8, <2>1, <2>2, <3>1
    <3>2. CASE k \notin Dependencies(m)
      <4>1. s.baskets[k].active
        BY <1>6, <1>8, <2>2, <3>2 DEF Turned
      <4>2. Classify(s.cache, k) = "positive"
        BY <4>1 DEF InTime, Live
      <4>3. \A j \in Markets : j # m => now.books[j] = s.cache[j]
        BY <1>2 DEF Rebooks
      <4> QED
        BY <2>1, <3>2, <4>2, <4>3, ClassifiesOwn
    <3> QED
      BY <3>1, <3>2
  <2>3. Live(q)
    BY <2>1, <2>2 DEF Live
  <2>4. Dependencies(m) \in SUBSET Basket
    BY DEF Dependencies
  <2>5. InTime(q, t, h) /\ q.last = s.last /\ ~q.expired
    BY <1>1, <1>6, <1>7, <1>8, <2>3, <2>4, TreatedInTime
  <2>6. Views(q, now)
    BY <1>2, <2>1 DEF Views, Rebooks
  <2> QED
    BY <2>1, <2>5, <2>6
<1> QED
  BY <1>6, <1>7, <1>8 DEF Follows, Rebooked

Earning(books) == {b \in Basket : Classify(books, b) = "positive"}

LEMMA ActivePositive ==
  ASSUME NEW s, Ready(s), Live(s)
  PROVE  s.active <= Cardinality(Earning(s.cache)) /\ s.active \in Nat
<1>1. ActiveIn(s) \subseteq Earning(s.cache) /\ Earning(s.cache) \subseteq Basket
  BY DEF Live, ActiveIn, Earning
<1>2. IsFiniteSet(Basket)
  <2>1. Len(Legs) \in Nat
    BY BasketsCounted
  <2> QED
    BY <2>1, FS_Interval DEF Basket
<1>3. IsFiniteSet(Earning(s.cache))
  BY <1>1, <1>2, FS_Subset
<1>4. Cardinality(ActiveIn(s)) <= Cardinality(Earning(s.cache))
  BY <1>1, <1>3, FS_Subset
<1> QED
  BY <1>4 DEF Ready, Accounted, UnionFits, Observer

LEMMA PeakStays ==
  ASSUME NEW s, Ready(s)
  PROVE  LET q == Peak(s) IN
         /\ Ready(q) /\ q.baskets = s.baskets /\ q.closed = s.closed /\ q.first = s.first
         /\ q.expired = s.expired /\ q.finished = s.finished /\ q.failed = s.failed
         /\ q.last = s.last /\ q.generation = s.generation /\ q.cache = s.cache
         /\ q.deadline = s.deadline /\ (q.peak = s.peak \/ q.peak = s.active)
<1> DEFINE q == Peak(s)
           peak == IF s.active > s.peak THEN s.active ELSE s.peak
<1>1. s \in Observer /\ ~s.failed /\ s.active \in Nat /\ s.peak \in Nat
  BY DEF Ready, Accounted, Observer
<1>2. q = [s EXCEPT !.peak = peak]
  BY DEF Peak
<1>3. peak \in Nat /\ (peak = s.peak \/ peak = s.active)
  BY <1>1
<1> HIDE DEF q, peak
<1>4. /\ q \in Observer /\ q.failed = s.failed /\ q.first = s.first /\ q.closed = s.closed
      /\ q.union = s.union /\ q.union_since = s.union_since /\ q.active = s.active
      /\ q.baskets = s.baskets /\ q.expired = s.expired /\ q.finished = s.finished
      /\ q.last = s.last /\ q.generation = s.generation /\ q.cache = s.cache
      /\ q.deadline = s.deadline /\ q.peak = peak
  BY <1>1, <1>2, <1>3 DEF Observer
<1>5. Ready(q)
  BY <1>1, <1>4, SameIsSame, ReadyStays
<1> QED
  BY <1>3, <1>4, <1>5 DEF q

\* What an update of a book leaves.
Updated(q, s, now, t, h) ==
  /\ q \in Observer
  /\ q.peak = s.peak \/ q.peak <= Cardinality(Earning(now.books))
  /\ ~q.failed => InTime(q, t, h) /\ Ready(q) /\ q.last = s.last /\ Views(q, now)

LEMMA ExpiredUpdate ==
  ASSUME NEW s, NEW t \in Nat, NEW h \in Nat, InTime(s, t, h), Ready(s), s.expired,
         NEW now, NEW m, NEW applied, NEW unsized
  PROVE  Updated(BookUpdate(s, now, m, applied, unsized, t), s, now, t, h)
<1>1. BookUpdate(s, now, m, applied, unsized, t) = s
  BY DEF BookUpdate
<1>2. s \in Observer /\ Views(s, now)
  BY DEF Ready, Accounted, Views
<1> QED
  BY <1>1, <1>2 DEF Updated

LEMMA AppliedUpdate ==
  ASSUME NEW s, NEW t \in Nat, NEW h \in Nat, InTime(s, t, h), Ready(s),
         NEW now, NEW m, Rebooks(now, m), Joined(s, now), NEW unsized
  PROVE  Updated(BookUpdate(s, now, m, TRUE, unsized, t), s, now, t, h)
<1> DEFINE c == [s EXCEPT !.cache[m] = now.books[m]]
           e == EvaluateAll(c, Dependencies(m), unsized, t)
           q == BookUpdate(s, now, m, TRUE, unsized, t)
<1>1. CASE s.expired
  BY <1>1, ExpiredUpdate
<1>2. CASE ~s.expired
  <2>1. q = IF e.failed THEN e ELSE Peak(e)
    BY <1>2 DEF BookUpdate, Rebooks, Ready, Accounted
  <2>2. Dependencies(m) \in SUBSET Basket
    BY DEF Dependencies
  <2>3. c = [s EXCEPT !.cache[m] = now.books[m]]
    OBVIOUS
  <2> HIDE DEF c
  <2>4. /\ Ready(c) /\ Follows(c, s) /\ c.cache = now.books
        /\ \A x : /\ Ready(x) /\ Turned(x, c, Dependencies(m), t)
                  /\ \A k \in Dependencies(m) :
                       x.baskets[k].active => Classify(c.cache, k) = "positive"
                  => /\ InTime(x, t, h) /\ x.last = s.last /\ Views(x, now)
                     /\ x.cache = now.books /\ ~x.expired
    <3>1. Rebooked(c, s, now, m, t, h)
      BY <1>2, <2>3, RebookedInTime
    <3> QED
      BY <3>1 DEF Rebooked
  <2>5. /\ Follows(e, c)
        /\ ~e.failed => /\ Ready(e) /\ Turned(e, c, Dependencies(m), t)
                        /\ \A k \in Dependencies(m) :
                             e.baskets[k].active <=> Classify(c.cache, k) = "positive"
    BY <2>2, <2>4, EvaluateAllTurns
  <2> HIDE DEF e, q
  <2>6. Follows(e, s)
    BY <2>4, <2>5, FollowsOn
  <2>7. CASE e.failed
    BY <2>1, <2>6, <2>7 DEF Updated, Follows, q
  <2>8. CASE ~e.failed
    <3>1. /\ InTime(e, t, h) /\ e.last = s.last /\ Views(e, now) /\ e.cache = now.books
          /\ Ready(e)
      BY <2>4, <2>5, <2>8
    <3>2. e.active <= Cardinality(Earning(now.books))
      BY <3>1, ActivePositive DEF InTime
    <3>3. q = Peak(e)
      BY <2>1, <2>8
    <3>4. /\ Ready(q) /\ q.baskets = e.baskets /\ q.closed = e.closed /\ q.first = e.first
          /\ q.expired = e.expired /\ q.finished = e.finished /\ q.failed = e.failed
          /\ q.last = e.last /\ q.generation = e.generation /\ q.cache = e.cache
          /\ q.deadline = e.deadline /\ (q.peak = e.peak \/ q.peak = e.active)
      BY <3>1, <3>3, PeakStays
    <3>5. InTime(q, t, h)
      BY <3>1, <3>4 DEF InTime, Begun, Live, DeadlineFits, Ready, Accounted
    <3>6. Views(q, now)
      BY <3>1, <3>4 DEF Views
    <3>7. q \in Observer
      BY <3>4 DEF Ready, Accounted
    <3> QED
      BY <2>6, <3>1, <3>2, <3>4, <3>5, <3>6, <3>7 DEF Updated, Follows, q
  <2> QED
    BY <2>7, <2>8
<1> QED
  BY <1>1, <1>2

LEMMA RejectedUpdate ==
  ASSUME NEW s, NEW t \in Nat, NEW h \in Nat, InTime(s, t, h), Ready(s),
         NEW now, NEW m, Rebooks(now, m), Joined(s, now), now.books[m] = Invalid
  PROVE  Updated(BookUpdate(s, now, m, FALSE, 0, t), s, now, t, h)
<1> DEFINE c == [s EXCEPT !.cache[m] = now.books[m]]
           q == BookUpdate(s, now, m, FALSE, 0, t)
<1>1. CASE s.expired
  BY <1>1, ExpiredUpdate
<1>2. CASE ~s.expired
  <2>1. q = AllUnavailable(c, Dependencies(m), "unavailable", t)
    BY <1>2 DEF BookUpdate, Rebooks, Ready, Accounted
  <2>2. Dependencies(m) \in SUBSET Basket /\ "unavailable" \in NoData
    BY DEF Dependencies, NoData
  <2>3. c = [s EXCEPT !.cache[m] = now.books[m]]
    OBVIOUS
  <2> HIDE DEF c
  <2>4. /\ Ready(c) /\ Follows(c, s) /\ c.cache = now.books
        /\ \A x : /\ Ready(x) /\ Turned(x, c, Dependencies(m), t)
                  /\ \A k \in Dependencies(m) :
                       x.baskets[k].active => Classify(c.cache, k) = "positive"
                  => /\ InTime(x, t, h) /\ x.last = s.last /\ Views(x, now)
                     /\ x.cache = now.books /\ ~x.expired
    <3>1. Rebooked(c, s, now, m, t, h)
      BY <1>2, <2>3, RebookedInTime
    <3> QED
      BY <3>1 DEF Rebooked
  <2> HIDE DEF q
  <2>5. /\ Follows(q, c)
        /\ ~q.failed => /\ Ready(q) /\ Turned(q, c, Dependencies(m), t)
                        /\ \A k \in Dependencies(m) : ~q.baskets[k].active
    BY <2>1, <2>2, <2>4, AllUnavailableTurns
  <2>6. Follows(q, s)
    BY <2>4, <2>5, FollowsOn
  <2>7. ASSUME ~q.failed PROVE InTime(q, t, h) /\ q.last = s.last /\ Views(q, now) /\ Ready(q)
    BY <2>4, <2>5, <2>7
  <2> QED
    BY <2>6, <2>7 DEF Updated, Follows, q
<1> QED
  BY <1>1, <1>2

-----------------------------------------------------------------------------
(* The steps.                                                                *)

\* What a frame leaves.
Framed(after, now, t, wall) ==
  /\ after \in Observer
  /\ after.peak = seen.peak \/ after.peak <= Cardinality(Earning(now.books))
  /\ ~after.failed =>
       /\ InTime(after, t, IF Mapped(wall, t) >= horizon THEN horizon ELSE Mapped(wall, t))
       /\ Ready(after) /\ after.last = t /\ Views(after, now) /\ t >= clock
       /\ (IF Mapped(wall, t) >= horizon THEN horizon ELSE Mapped(wall, t)) \in Nat

PeakFits == seen'.peak = seen.peak \/ seen'.peak <= Cardinality(Earning(stream'.books))

LEMMA FrameHolds ==
  ASSUME ObservationHolds, NEW t \in Times, NEW wall, NEW now \in Streams,
         now.connected \/ now.books = NoBooks, NEW after, Framed(after, now, t, wall),
         Frame(now, t, wall, after)
  PROVE  ObservationHolds' /\ PeakFits
<1> DEFINE end == IF Mapped(wall, t) >= horizon THEN horizon ELSE Mapped(wall, t)
<1>1. /\ stream' = now /\ seen' = after
      /\ clock' = (IF t > clock THEN t ELSE clock)
      /\ horizon' = IF after.failed \/ Mapped(wall, t) >= horizon THEN horizon ELSE Mapped(wall, t)
  BY DEF Frame
<1>2. t \in Nat /\ clock \in Nat /\ horizon \in Nat
  BY ObservationConstants DEF ObservationHolds, Times
<1>3. clock' \in Nat
  BY <1>1, <1>2
<1>4. PeakFits
  BY <1>1 DEF Framed, PeakFits
<1>5. CASE after.failed
  <2>1. horizon' = horizon
    BY <1>1, <1>5
  <2> QED
    BY <1>1, <1>2, <1>3, <1>4, <1>5, <2>1 DEF ObservationHolds, Framed
<1>6. CASE ~after.failed
  <2>1. horizon' = end
    BY <1>1, <1>6
  <2>2. /\ InTime(after, t, end) /\ Ready(after) /\ after.last = t /\ Views(after, now)
        /\ t >= clock /\ end \in Nat
    BY <1>6 DEF Framed
  <2> HIDE DEF end
  <2>3. clock' = t
    BY <1>1, <1>2, <2>2
  <2>4. /\ Accounted(after) /\ after.first # NoTime /\ ~after.finished /\ Begun(after) /\ Live(after)
        /\ \A e \in after.closed : e.closed <= end /\ e.closed <= t
        /\ ~after.expired => DeadlineFits(after, end) /\ t < end
    BY <2>2 DEF InTime, Ready, Accounted
  <2>5. \A k \in Basket : after.baskets[k].active => after.last < end
    BY <2>2, <2>4 DEF Live
  <2>6. after \in Observer
    BY DEF Framed
  <2> QED
    BY <1>1, <1>3, <1>4, <1>6, <2>1, <2>2, <2>3, <2>4, <2>5, <2>6 DEF ObservationHolds
<1> QED
  BY <1>5, <1>6

LEMMA JoinedViews ==
  ASSUME NEW p, NEW now, Joined(p, now),
         IF now.connected /\ now.generation = stream.generation THEN now.books = stream.books
         ELSE now.books = NoBooks
  PROVE  Views(p, now)
BY DEF Joined, Views

\* A frame that is no update.
LEMMA PreambleFrames ==
  ASSUME ObservationHolds, Running, NEW t \in Times, NEW wall \in Wall, NEW now \in Streams,
         IF now.connected /\ now.generation = stream.generation THEN now.books = stream.books
         ELSE now.books = NoBooks
  PROVE  Framed(Preamble(now, wall, t), now, t, wall)
<1> DEFINE p == Preamble(now, wall, t)
           end == IF Mapped(wall, t) >= horizon THEN horizon ELSE Mapped(wall, t)
<1>1. /\ Follows(p, seen)
      /\ ~p.failed => /\ InTime(p, t, end) /\ Ready(p) /\ p.last = t /\ Joined(p, now)
                      /\ t \in Nat /\ t >= clock /\ end \in Nat
  BY PreambleInTime
<1> HIDE DEF p
<1>2. ~p.failed => Views(p, now)
  BY <1>1, JoinedViews
<1> QED
  BY <1>1, <1>2 DEF Framed, Follows, p

LEMMA UpdateFrames ==
  ASSUME ObservationHolds, Running, NEW t \in Times, NEW wall \in Wall, NEW now, NEW m,
         Rebooks(now, m), NEW applied \in BOOLEAN, NEW unsized,
         applied \/ (now.books[m] = Invalid /\ unsized = 0)
  PROVE  Framed(BookUpdate(Preamble(now, wall, t), now, m, applied, unsized, t), now, t, wall)
<1> DEFINE p == Preamble(now, wall, t)
           end == IF Mapped(wall, t) >= horizon THEN horizon ELSE Mapped(wall, t)
           q == BookUpdate(p, now, m, applied, unsized, t)
<1>0. now \in Streams
  BY DEF Rebooks
<1>1. /\ Follows(p, seen)
      /\ ~p.failed => /\ InTime(p, t, end) /\ Ready(p) /\ p.last = t /\ Joined(p, now)
                      /\ t \in Nat /\ t >= clock /\ end \in Nat
  BY <1>0, PreambleInTime
<1> HIDE DEF p
<1>2. CASE p.failed
  <2>1. q = p
    BY <1>2 DEF BookUpdate
  <2> HIDE DEF q
  <2> QED
    BY <1>1, <1>2, <2>1 DEF Framed, Follows, q, p
<1>3. CASE ~p.failed
  <2>1. Updated(q, p, now, t, end)
    <3> HIDE DEF end
    <3>1. CASE applied
      <4>1. q = BookUpdate(p, now, m, TRUE, unsized, t)
        BY <3>1
      <4> HIDE DEF q
      <4> QED
        BY <1>1, <1>3, <4>1, AppliedUpdate
    <3>2. CASE ~applied
      <4>1. q = BookUpdate(p, now, m, FALSE, 0, t) /\ now.books[m] = Invalid
        BY <3>2
      <4> HIDE DEF q
      <4> QED
        BY <1>1, <1>3, <4>1, RejectedUpdate
    <3> QED
      BY <3>1, <3>2
  <2> HIDE DEF q
  <2> QED
    BY <1>1, <1>3, <2>1 DEF Framed, Updated, Follows, q, p
<1> QED
  BY <1>2, <1>3

\* A study with nothing to finish.
LEMMA FinishIdle ==
  ASSUME NEW s, NEW t, \A b \in Basket : FinishBasket(s, b, t) = s
  PROVE  FinishAll(s, t) = s
<1>1. PICK f : Passes(f, FinishAll(s, t), "finish", s, Basket, "", t)
  BY FinishPasses
<1>2. f[0] = s /\ \A n \in Basket : f[n] = FinishBasket(f[n - 1], n, t)
  BY <1>1 DEF Passes, Pass
<1>3. Len(Legs) \in Nat /\ Basket = 1..Len(Legs)
  BY BasketsCounted
<1> DEFINE Bad == {n \in Nat : n <= Len(Legs) /\ f[n] # s}
<1>4. Bad = {}
  <2> SUFFICES ASSUME Bad # {} PROVE FALSE
    OBVIOUS
  <2>1. PICK n \in Bad : \A m \in Bad : n <= m
    BY LeastNatural
  <2>2. n \in Basket /\ n - 1 \in Nat /\ n - 1 <= Len(Legs) /\ ~(n <= n - 1)
    BY <1>2, <1>3, <2>1
  <2>3. f[n - 1] = s
    <3>1. n - 1 \notin Bad
      <4> HIDE DEF Bad
      <4> QED
        BY <2>1, <2>2
    <3> QED
      BY <2>2, <3>1
  <2> QED
    BY <1>2, <2>1, <2>2, <2>3
<1>5. Len(Legs) \notin Bad /\ Len(Legs) <= Len(Legs)
  BY <1>3, <1>4
<1>6. FinishAll(s, t) = f[Len(Legs)]
  BY <1>1 DEF Passes
<1> QED
  BY <1>3, <1>5, <1>6

LEMMA UnionTurns ==
  ASSUME NEW s, Accounted(s), \A k \in Basket : ~s.baskets[k].active, NEW t \in Nat
  PROVE  LET q == AccountUnion(s, t) IN
         /\ Follows(q, s)
         /\ ~q.failed => Accounted(q) /\ Kept(q, s) /\ q.baskets = s.baskets /\ q.closed = s.closed
<1> DEFINE q == AccountUnion(s, t)
<1>1. /\ s \in Observer /\ ~s.failed /\ s.first # NoTime /\ UnionFits(s)
      /\ \A k \in Basket : TimeFits(s, k)
  BY DEF Accounted
<1>2. /\ Follows(q, s)
      /\ ~q.failed =>
           /\ Kept(q, s) /\ q.baskets = s.baskets /\ s.union_since <= t /\ q.union_since = t
           /\ q.union = s.union + (IF s.active > 0 THEN t - s.union_since ELSE 0)
           /\ q.active = s.active /\ q.closed = s.closed
  BY <1>1, UnionCounts
<1> HIDE DEF q
<1>3. ASSUME ~q.failed PROVE Accounted(q)
  <2>1. ~(s.active > 0)
    BY <1>1, ActiveCounts
  <2>2. s.union \in Nat /\ s.union_since \in Nat
    BY <1>1 DEF Observer
  <2>3. q.union = s.union /\ s.union_since <= t /\ q.union_since = t
    BY <1>2, <1>3, <2>1, <2>2
  <2>4. \A bs \in SUBSET Basket : \A y, z : Covered(q, bs, y) = Covered(s, bs, z)
    <3> SUFFICES ASSUME NEW bs \in SUBSET Basket, NEW y, NEW z
                 PROVE  Covered(q, bs, y) = Covered(s, bs, z)
      OBVIOUS
    <3>1. {c \in bs : q.baskets[c].active} = {} /\ {c \in bs : s.baskets[c].active} = {}
      BY <1>2, <1>3
    <3>2. q.closed = s.closed
      BY <1>2, <1>3
    <3> QED
      BY <3>1, <3>2 DEF Covered
  <2>5. UnionFits(q)
    <3>1. \A e \in s.closed : e.closed \in Nat /\ e.closed <= s.union_since
      BY <1>1 DEF Observer, Episode, UnionFits
    <3>2. \A e \in q.closed : e.closed <= q.union_since
      BY <1>2, <1>3, <2>2, <2>3, <3>1
    <3>3. ActiveIn(q) = ActiveIn(s)
      BY <1>2, <1>3 DEF ActiveIn
    <3>4. Covered(q, Basket, q.union_since) = Covered(s, Basket, s.union_since)
      BY <2>4
    <3> QED
      BY <1>1, <1>2, <1>3, <2>3, <3>2, <3>3, <3>4 DEF UnionFits
  <2>6. ASSUME NEW k \in Basket PROVE TimeFits(q, k)
    <3>1. Covered(q, {k}, q.baskets[k].since) = Covered(s, {k}, s.baskets[k].since)
      BY <2>4
    <3>2. q.baskets = s.baskets /\ q.closed = s.closed /\ q.first = s.first
      BY <1>2, <1>3 DEF Kept
    <3> QED
      BY <1>1, <3>1, <3>2 DEF TimeFits
  <2> QED
    BY <1>1, <1>2, <1>3, <2>5, <2>6 DEF Accounted, Kept, Follows
<1> QED
  BY <1>2, <1>3 DEF q

LEMMA FinishHolds ==
  ASSUME ObservationHolds, Finish
  PROVE  ObservationHolds' /\ PeakFits
<1>1. PICK t \in Times :
        LET s == Before(seen, t)
            e == AccountUnion(FinishAll(s, t), t)
        IN  /\ Running
            /\ seen' = IF e.failed THEN e ELSE [e EXCEPT !.last = t, !.finished = TRUE]
            /\ clock' = IF t > clock THEN t ELSE clock
            /\ UNCHANGED <<stream, horizon>>
  BY Zenon DEF Finish
<1> DEFINE s == Before(seen, t)
           f == FinishAll(s, t)
           e == AccountUnion(f, t)
<1>2. /\ Running /\ stream' = stream /\ horizon' = horizon
      /\ clock' = (IF t > clock THEN t ELSE clock)
      /\ seen' = IF e.failed THEN e ELSE [e EXCEPT !.last = t, !.finished = TRUE]
  BY <1>1
<1>3. /\ Follows(s, seen)
      /\ ~s.failed => InTime(s, t, horizon) /\ t \in Nat /\ t >= clock
  BY <1>2, BeforeInTime
<1>4. /\ t \in Nat /\ clock \in Nat /\ horizon \in Nat /\ clock' \in Nat
      /\ stream \in Streams /\ (stream.connected \/ stream.books = NoBooks)
  BY <1>2, ObservationConstants DEF ObservationHolds, Times
\* A study that fails keeps no promise.
<1>5. ASSUME e \in Observer, e.peak = seen.peak, e.failed PROVE ObservationHolds' /\ PeakFits
  <2> HIDE DEF e
  <2> QED
    BY <1>2, <1>4, <1>5 DEF ObservationHolds, PeakFits
<1>6. ASSUME e \in Observer, e.peak = seen.peak, ~e.failed, t >= clock,
             IF e.first = NoTime THEN Untouched(e) ELSE Accounted(e),
             \A k \in Basket : ~e.baskets[k].active,
             \A x \in e.closed : x.closed <= horizon /\ x.closed <= t
      PROVE  ObservationHolds' /\ PeakFits
  <2> HIDE DEF e
  <2> DEFINE q == [e EXCEPT !.last = t, !.finished = TRUE]
  <2>1. t \in Moment
    BY <1>4 DEF Moment
  <2>2. /\ q \in Observer /\ q.failed = e.failed /\ q.first = e.first /\ q.closed = e.closed
        /\ q.union = e.union /\ q.union_since = e.union_since /\ q.active = e.active
        /\ q.baskets = e.baskets /\ q.finished /\ q.deadline = e.deadline /\ q.peak = e.peak
    BY <1>6, <2>1 DEF Observer
  <2>3. seen' = q
    BY <1>2, <1>6
  <2> HIDE DEF q
  <2>4. IF q.first = NoTime THEN Untouched(q) ELSE Accounted(q)
    <3>1. CASE q.first = NoTime
      BY <1>6, <2>2, <3>1 DEF Untouched
    <3>2. CASE q.first # NoTime
      BY <1>6, <2>2, <3>2, SameIsSame, AccountsStay
    <3> QED
      BY <3>1, <3>2
  <2>5. clock' = t
    BY <1>2, <1>4, <1>6
  <2>6. /\ \A x \in q.closed : x.closed <= horizon /\ x.closed <= t
        /\ \A k \in Basket : ~q.baskets[k].active
    BY <1>6, <2>2
  <2>7. q.finished = TRUE /\ q.peak = seen.peak
    BY <1>6, <2>2 DEF Observer
  <2> QED
    BY <1>2, <1>4, <1>6, <2>2, <2>3, <2>4, <2>5, <2>6, <2>7 DEF ObservationHolds, PeakFits
<1>7. CASE s.failed
  <2>1. \A b \in Basket : FinishBasket(s, b, t) = s
    BY <1>7 DEF FinishBasket, Close, AccountTime
  <2>2. f = s
    BY <2>1, FinishIdle
  <2>3. e = s
    <3> HIDE DEF f, s
    <3> QED
      BY <1>7, <2>2 DEF AccountUnion
  <2> QED
    BY <1>3, <1>5, <1>7, <2>3 DEF Follows
<1>8. CASE ~s.failed /\ s.first = NoTime
  <2>1. Untouched(s)
    BY <1>3, <1>8 DEF InTime, Begun
  <2>2. \A b \in Basket : FinishBasket(s, b, t) = s
    BY <1>8, <2>1 DEF FinishBasket, Close, AccountTime, Untouched
  <2>3. f = s
    BY <2>2, FinishIdle
  <2>4. e = s
    <3> HIDE DEF f, s
    <3> QED
      BY <1>8, <2>3 DEF AccountUnion
  <2>5. /\ \A k \in Basket : ~s.baskets[k].active
        /\ \A x \in s.closed : x.closed <= horizon /\ x.closed <= t
    BY <1>3, <1>8, <2>1 DEF Untouched, InTime
  <2> HIDE DEF e, s
  <2> QED
    BY <1>3, <1>6, <1>8, <2>1, <2>4, <2>5 DEF Follows
<1>9. CASE ~s.failed /\ s.first # NoTime
  <2>1. Ready(s) /\ InTime(s, t, horizon) /\ t >= clock
    BY <1>3, <1>9 DEF InTime, Begun
  <2> HIDE DEF s
  <2>2. /\ Follows(f, s)
        /\ ~f.failed => Turned(f, s, Basket, t) /\ \A k \in Basket : ~f.baskets[k].active
    BY <1>4, <2>1, FinishAllTurns
  <2>3. Follows(f, seen)
    BY <1>3, <2>2, FollowsOn
  <2> HIDE DEF f
  <2>4. CASE f.failed
    <3>1. e = f
      BY <2>4 DEF AccountUnion
    <3> QED
      BY <1>5, <2>3, <2>4, <3>1 DEF Follows
  <2>5. CASE ~f.failed
    <3>1. Accounted(f) /\ \A k \in Basket : ~f.baskets[k].active
      BY <2>2, <2>5 DEF Turned
    <3>2. /\ Follows(e, f)
          /\ ~e.failed => Accounted(e) /\ Kept(e, f) /\ e.baskets = f.baskets /\ e.closed = f.closed
      BY <1>4, <3>1, UnionTurns
    <3> HIDE DEF e
    <3>3. Follows(e, seen)
      BY <2>3, <3>2, FollowsOn
    <3>4. ASSUME NEW x \in f.closed PROVE x.closed <= horizon /\ x.closed <= t
      <4>1. CASE x \in s.closed
        BY <2>1, <4>1 DEF InTime
      <4>2. CASE x \notin s.closed
        <5>1. x.closed = t /\ x.basket \in Basket /\ s.baskets[x.basket].active
          BY <2>2, <2>5, <3>4, <4>2 DEF Turned
        <5>2. t < horizon
          BY <2>1, <5>1 DEF InTime, Live
        <5> QED
          BY <1>4, <5>1, <5>2
      <4> QED
        BY <4>1, <4>2
    <3>5. CASE e.failed
      BY <1>5, <3>3, <3>5 DEF Follows
    <3>6. CASE ~e.failed
      <4>1. Accounted(e) /\ e.first # NoTime
        BY <3>2, <3>6 DEF Accounted
      <4>2. /\ \A k \in Basket : ~e.baskets[k].active
            /\ \A x \in e.closed : x.closed <= horizon /\ x.closed <= t
        BY <3>1, <3>2, <3>4, <3>6
      <4> QED
        BY <1>6, <2>1, <3>3, <3>6, <4>1, <4>2 DEF Follows
    <3> QED
      BY <3>5, <3>6
  <2> QED
    BY <2>4, <2>5
<1> QED
  BY <1>7, <1>8, <1>9

LEMMA TimerHolds ==
  ASSUME ObservationHolds, Timer
  PROVE  ObservationHolds' /\ PeakFits
<1>1. PICK t \in Times : /\ Running /\ seen' = Before(seen, t)
                         /\ clock' = IF t > clock THEN t ELSE clock
                         /\ UNCHANGED <<stream, horizon>>
  BY Zenon DEF Timer
<1> DEFINE s == Before(seen, t)
<1>2. /\ Follows(s, seen)
      /\ ~s.failed =>
           /\ InTime(s, t, horizon) /\ Views(s, stream) /\ s.last = seen.last
           /\ s.expired => \A k \in Basket : ~s.baskets[k].active
           /\ t >= clock
  BY <1>1, BeforeInTime
<1>3. /\ t \in Nat /\ clock \in Nat /\ horizon \in Nat /\ clock' \in Nat
      /\ stream \in Streams /\ (stream.connected \/ stream.books = NoBooks)
  BY <1>1, ObservationConstants DEF ObservationHolds, Times
<1>4. seen' = s /\ stream' = stream /\ horizon' = horizon /\ clock' = (IF t > clock THEN t ELSE clock)
  BY <1>1
<1> HIDE DEF s
<1>5. CASE s.failed
  BY <1>2, <1>3, <1>4, <1>5 DEF ObservationHolds, PeakFits, Follows
<1>6. CASE ~s.failed
  <2>1. clock' = t
    BY <1>2, <1>3, <1>4, <1>6
  <2>2. /\ ~s.finished /\ Begun(s) /\ Live(s) /\ (~s.expired => DeadlineFits(s, horizon))
        /\ \A e \in s.closed : e.closed <= horizon /\ e.closed <= t
        /\ IF s.first = NoTime THEN Untouched(s) ELSE Accounted(s)
    BY <1>2, <1>6 DEF InTime, Begun, Ready
  <2>3. \A k \in Basket : s.baskets[k].active => s.last < horizon
    <3>1. CASE s.expired
      BY <1>2, <1>6, <3>1
    <3>2. CASE ~s.expired
      <4>1. t < horizon /\ ~seen.failed
        BY <1>1, <1>2, <1>6, <3>2 DEF InTime, Running
      <4>2. s.last = seen.last /\ (s.last = NoTime \/ s.last <= t)
        <5>1. seen.last \in Nat \/ seen.last = NoTime
          BY DEF ObservationHolds, Observer, Moment
        <5>2. s.failed \/ seen.last = NoTime \/ ~(t < seen.last)
          <6>1. \A x \in Observer : Fails(x).failed
            BY FailsFails
          <6>2. seen \in Observer
            BY DEF ObservationHolds
          <6> QED
            BY <6>1, <6>2 DEF Before, s
        <5> QED
          BY <1>2, <1>3, <1>6, <5>1, <5>2
      <4>3. s.last \in Nat \/ s.last = NoTime
        BY <1>2 DEF Follows, Observer, Moment
      <4> QED
        BY <1>3, <4>1, <4>2, <4>3 DEF NoTime
    <3> QED
      BY <3>1, <3>2
  <2>4. s \in Observer /\ s.peak = seen.peak
    BY <1>2 DEF Follows
  <2> QED
    BY <1>2, <1>3, <1>4, <1>6, <2>1, <2>2, <2>3, <2>4 DEF ObservationHolds, PeakFits
<1> QED
  BY <1>5, <1>6

LEMMA FramesHold ==
  ASSUME ObservationHolds, NEW t \in Times, NEW wall \in Wall,
         \/ ConnectionFrame(t, wall) \/ QuietFrame(t, wall) \/ AppliedFrame(t, wall)
         \/ RejectedFrame(t, wall) \/ GapFrame(t, wall)
  PROVE  ObservationHolds' /\ PeakFits
<1>1. stream \in Streams /\ (stream.connected \/ stream.books = NoBooks)
  BY DEF ObservationHolds
<1>2. /\ stream.connected \in BOOLEAN /\ stream.generation \in Nat /\ stream.books \in [Markets -> Int]
      /\ NoBooks \in [Markets -> Int] /\ Invalid \in Int
  BY <1>1 DEF Streams, NoBooks, Invalid
<1>3. CASE ConnectionFrame(t, wall)
  <2>1. PICK open \in BOOLEAN :
          LET now == [connected |-> open,
                      generation |-> IF open THEN stream.generation + 1 ELSE stream.generation,
                      books |-> NoBooks]
          IN  Frame(now, t, wall, Preamble(now, wall, t))
    BY <1>3, Zenon DEF ConnectionFrame
  <2> DEFINE generation == IF open THEN stream.generation + 1 ELSE stream.generation
             now == [connected |-> open, generation |-> generation, books |-> NoBooks]
  <2>2. Frame(now, t, wall, Preamble(now, wall, t))
    BY <2>1
  <2>3. generation \in Nat /\ (open => generation # stream.generation)
    BY <1>2
  <2> HIDE DEF generation
  <2>4. now \in Streams /\ now.connected = open /\ now.books = NoBooks /\ now.generation = generation
    BY <1>2, <2>3 DEF Streams
  <2> HIDE DEF now
  <2>5. IF now.connected /\ now.generation = stream.generation THEN now.books = stream.books
        ELSE now.books = NoBooks
    BY <2>3, <2>4
  <2>6. Running
    BY <2>2 DEF Frame
  <2>7. Framed(Preamble(now, wall, t), now, t, wall)
    BY <2>4, <2>5, <2>6, PreambleFrames
  <2> QED
    BY <2>2, <2>4, <2>7, FrameHolds
<1>4. CASE QuietFrame(t, wall)
  <2>1. Frame(stream, t, wall, Preamble(stream, wall, t)) /\ Running
    BY <1>4 DEF QuietFrame, Frame
  <2>2. Framed(Preamble(stream, wall, t), stream, t, wall)
    BY <1>1, <2>1, PreambleFrames
  <2> QED
    BY <1>1, <2>1, <2>2, FrameHolds
<1>5. CASE AppliedFrame(t, wall)
  <2>1. PICK m \in Markets, unsized \in {0} \cup Basket :
          /\ stream.connected
          /\ \E book \in Shown[m] :
               LET now == [stream EXCEPT !.books[m] = book]
               IN  Frame(now, t, wall, BookUpdate(Preamble(now, wall, t), now, m, TRUE, unsized, t))
    BY <1>5, Zenon DEF AppliedFrame
  <2>2. PICK book \in Shown[m] :
          LET now == [stream EXCEPT !.books[m] = book]
          IN  Frame(now, t, wall, BookUpdate(Preamble(now, wall, t), now, m, TRUE, unsized, t))
    BY <2>1, Zenon
  <2> DEFINE now == [stream EXCEPT !.books[m] = book]
  <2>3. Frame(now, t, wall, BookUpdate(Preamble(now, wall, t), now, m, TRUE, unsized, t))
    BY <2>2
  <2>4. book \in Int
    BY ObservationConstants DEF Empty, Crossed
  <2>5. Rebooks(now, m)
    BY <1>1, <1>2, <2>1, <2>4 DEF Rebooks, Streams
  <2> HIDE DEF now
  <2>6. Running
    BY <2>3 DEF Frame
  <2>7. Framed(BookUpdate(Preamble(now, wall, t), now, m, TRUE, unsized, t), now, t, wall)
    BY <2>5, <2>6, UpdateFrames
  <2>8. now \in Streams /\ now.connected
    BY <2>5 DEF Rebooks
  <2> QED
    BY <2>3, <2>7, <2>8, FrameHolds
<1>6. CASE RejectedFrame(t, wall)
  <2>1. PICK m \in Fragile :
          LET now == [stream EXCEPT !.books[m] = Invalid]
          IN  /\ stream.connected
              /\ Frame(now, t, wall, BookUpdate(Preamble(now, wall, t), now, m, FALSE, 0, t))
    BY <1>6, Zenon DEF RejectedFrame
  <2> DEFINE now == [stream EXCEPT !.books[m] = Invalid]
  <2>2. /\ stream.connected
        /\ Frame(now, t, wall, BookUpdate(Preamble(now, wall, t), now, m, FALSE, 0, t))
    BY <2>1
  <2>3. m \in Markets
    BY ObservationConstants
  <2>4. Rebooks(now, m) /\ now.books[m] = Invalid
    BY <1>1, <1>2, <2>2, <2>3 DEF Rebooks, Streams
  <2> HIDE DEF now
  <2>5. Running
    BY <2>2 DEF Frame
  <2>6. Framed(BookUpdate(Preamble(now, wall, t), now, m, FALSE, 0, t), now, t, wall)
    BY <2>4, <2>5, UpdateFrames
  <2>7. now \in Streams /\ now.connected
    BY <2>4 DEF Rebooks
  <2> QED
    BY <2>2, <2>6, <2>7, FrameHolds
<1>7. CASE GapFrame(t, wall)
  <2>1. PICK m \in Fragile :
          LET now == [stream EXCEPT !.connected = FALSE, !.books = NoBooks]
          IN  /\ stream.connected
              /\ Frame(now, t, wall, BookUpdate(Preamble(now, wall, t), now, m, FALSE, 0, t))
    BY <1>7, Zenon DEF GapFrame
  <2> DEFINE now == [stream EXCEPT !.connected = FALSE, !.books = NoBooks]
  <2>2. Frame(now, t, wall, BookUpdate(Preamble(now, wall, t), now, m, FALSE, 0, t))
    BY <2>1
  <2>3. now \in Streams /\ ~now.connected /\ now.books = NoBooks
    BY <1>1, <1>2 DEF Streams
  <2> HIDE DEF now
  <2>4. Running
    BY <2>2 DEF Frame
  <2>5. BookUpdate(Preamble(now, wall, t), now, m, FALSE, 0, t) = Preamble(now, wall, t)
    BY <2>3 DEF BookUpdate
  <2>6. Framed(Preamble(now, wall, t), now, t, wall)
    BY <2>3, <2>4, PreambleFrames
  <2> QED
    BY <2>2, <2>3, <2>5, <2>6, FrameHolds
<1> QED
  BY <1>3, <1>4, <1>5, <1>6, <1>7

LEMMA ObservationBegins ==
  ASSUME ObservationInit
  PROVE  ObservationHolds
<1> DEFINE basket == [status |-> "unavailable", since |-> 0, active |-> FALSE, opened_at |-> 0,
                      left |-> FALSE, eligible_before |-> FALSE, episodes |-> 0,
                      durations |-> [v \in Status |-> 0]]
<1>1. basket \in Tracked
  BY DEF Tracked, Status, NoData
<1>2. seen.baskets = [b \in Basket |-> basket] /\ seen.closed = {} /\ seen.union = 0
      /\ seen.deadline = NoTime /\ seen.active = 0 /\ seen.first = NoTime
      /\ seen.cache = NoBooks /\ seen.generation = 0 /\ ~seen.failed /\ ~seen.finished
  BY DEF ObservationInit, NoBooks
<1>3. NoBooks \in [Markets -> Int] /\ NoTime \in Moment
  BY DEF NoBooks, Invalid, Moment
<1>4. seen \in Observer
  <2> DEFINE baskets == [b \in Basket |-> basket]
  <2>1. baskets \in [Basket -> Tracked]
    BY <1>1
  <2>2. seen = [first |-> NoTime, last |-> NoTime, deadline |-> NoTime, generation |-> 0,
                expired |-> FALSE, finished |-> FALSE, failed |-> FALSE,
                cache |-> NoBooks, events |-> 0,
                active |-> 0, peak |-> 0, union |-> 0, union_since |-> 0,
                baskets |-> baskets, closed |-> {}]
    BY DEF ObservationInit, NoBooks
  <2> HIDE DEF baskets
  <2> QED
    BY <1>3, <2>1, <2>2 DEF Observer
<1>5. /\ stream.connected = FALSE /\ stream.generation = 0 /\ stream.books = NoBooks
      /\ stream \in Streams
  BY <1>3 DEF ObservationInit, Streams, NoBooks
<1>6. clock \in Nat /\ horizon = MaxTime + ValidUntil + 1 /\ horizon \in Nat
  BY ObservationConstants DEF ObservationInit
<1>7. Untouched(seen) /\ \A k \in Basket : ~seen.baskets[k].active
  BY <1>2 DEF Untouched
<1>8. Begun(seen) /\ Live(seen) /\ Views(seen, stream) /\ DeadlineFits(seen, horizon)
  BY <1>2, <1>5, <1>6, <1>7 DEF Begun, Live, Views, DeadlineFits
<1> QED
  BY <1>2, <1>4, <1>5, <1>6, <1>7, <1>8 DEF ObservationHolds

LEMMA ObservationSteps ==
  ASSUME ObservationHolds, [ObservationNext]_observationVars
  PROVE  ObservationHolds' /\ PeakFits
<1>1. CASE ObservationNext
  <2>1. CASE \E t \in Times, wall \in Wall :
               \/ ConnectionFrame(t, wall) \/ QuietFrame(t, wall) \/ AppliedFrame(t, wall)
               \/ RejectedFrame(t, wall) \/ GapFrame(t, wall)
    BY <2>1, FramesHold
  <2>2. CASE Timer
    BY <2>2, TimerHolds
  <2>3. CASE Finish
    BY <2>3, FinishHolds
  <2> QED
    BY <1>1, <2>1, <2>2, <2>3 DEF ObservationNext
<1>2. CASE UNCHANGED observationVars
  <2>1. seen' = seen /\ stream' = stream /\ clock' = clock /\ horizon' = horizon
    BY <1>2 DEF observationVars
  <2> QED
    BY <2>1 DEF ObservationHolds, PeakFits, Views
<1> QED
  BY <1>1, <1>2

\* Hence, of every study (src/src/session/basket_observation.cpp): what is reported is in
\* order, no episode outlives its books or the window, and the peak is one of baskets that
\* earn together.
THEOREM ObservationIsSound == ObservationSpec => []ObservationHolds
<1> QED
  BY ObservationBegins, ObservationSteps, PTL DEF ObservationSpec

\* The reported times of positive quotes (src/src/session/basket_observation.cpp) are those
\* of the reported episodes, each basket's own and their union, and every basket's time
\* since the first frame is in exactly one status.
THEOREM ObservedTimesAreEpisodes == ObservationSpec => []TimesAreEpisodes
<1>1. ObservationHolds => TimesAreEpisodes
  <2> SUFFICES ASSUME ObservationHolds, ~seen.failed
               PROVE  /\ seen.union = Cardinality(Covered(seen, Basket, seen.union_since))
                      /\ \A b \in Basket :
                           /\ seen.baskets[b].durations["positive"]
                                = Cardinality(Covered(seen, {b}, seen.baskets[b].since))
                           /\ seen.first # NoTime =>
                                SumOf(seen.baskets[b].durations) = seen.baskets[b].since - seen.first
    BY DEF TimesAreEpisodes
  <2>1. CASE seen.first = NoTime
    <3>1. Untouched(seen)
      BY <2>1 DEF ObservationHolds
    <3>2. \A bs \in SUBSET Basket : \A z : Covered(seen, bs, z) = {}
      BY <3>1 DEF Covered, Untouched
    <3>3. Cardinality({}) = 0
      BY FS_EmptySet
    <3>4. \A b \in Basket : seen.baskets[b].durations["positive"] = 0
      BY <3>1 DEF Untouched, Status, Eligible
    <3>5. seen.union = 0
      BY <3>1 DEF Untouched
    <3>6. Covered(seen, Basket, seen.union_since) = {}
      BY <3>2
    <3>7. \A b \in Basket : Covered(seen, {b}, seen.baskets[b].since) = {}
      BY <3>2
    <3> QED
      BY <2>1, <3>3, <3>4, <3>5, <3>6, <3>7
  <2>2. CASE seen.first # NoTime
    BY <2>2 DEF ObservationHolds, Accounted, UnionFits, TimeFits
  <2> QED
    BY <2>1, <2>2
<1> QED
  BY <1>1, ObservationIsSound, PTL

\* A wall clock that is set back never extends the window
\* (src/src/session/basket_observation.cpp:115): no episode reaches past its earliest end.
THEOREM ObservationEndsInTime == ObservationSpec => []NothingPastHorizon
<1>1. ObservationHolds => NothingPastHorizon
  BY DEF ObservationHolds, NothingPastHorizon
<1> QED
  BY <1>1, ObservationIsSound, PTL

\* An episode is open only on three books of the current connection that are valid now and
\* quote a positive margin now (src/src/session/basket_observation.cpp).
THEOREM EpisodesAreOnCurrentBooks == ObservationSpec => []ActiveOnCurrentBooks
<1>1. ObservationHolds => ActiveOnCurrentBooks
  BY DEF ObservationHolds, ActiveOnCurrentBooks, Live, Views
<1> QED
  BY <1>1, ObservationIsSound, PTL

\* The peak (src/src/session/basket_observation.cpp:146) is taken after all baskets of an
\* update are evaluated: it counts baskets that are positive on the same books.
THEOREM PeakIsOfOneMoment == ObservationSpec => [][PeakIsOfPositive]_observationVars
<1>1. ASSUME ObservationHolds, [ObservationNext]_observationVars PROVE [PeakIsOfPositive]_observationVars
  <2>1. seen.peak \in Nat
    BY <1>1 DEF ObservationHolds, Observer
  <2>2. PeakFits
    BY <1>1, ObservationSteps
  <2>3. Earning(stream'.books) = {b \in Basket : Classify(stream'.books, b) = "positive"}
    BY DEF Earning
  <2>4. seen'.peak > seen.peak => seen'.peak <= Cardinality(Earning(stream'.books))
    BY <2>1, <2>2 DEF PeakFits
  <2> QED
    BY <2>3, <2>4 DEF PeakIsOfPositive
<1> QED
  BY <1>1, ObservationIsSound, PTL DEF ObservationSpec

-----------------------------------------------------------------------------
(* The passive probe: its accounts, and the time an attempt may last.        *)

\* The probe of PassiveProbe; it has the limits and the cached books of the studies above.
CONSTANTS
  Scenario, HedgeDelay, InitialCash, EntryDelay, RestTime

VARIABLES
  now, connection, generation, entry, scenarios, ended, attempts, halted, expired,
  continuity_failed, finished

Probe == INSTANCE PassiveProbe WITH Delay <- HedgeDelay

\* What a scenario is made of.
ProbeTry ==
  [done : BOOLEAN, closed : BOOLEAN, resting : BOOLEAN, filled : Nat, debit : Nat,
   close_time : Nat, holdings : [Probe!Leg -> Nat], hedged : SUBSET Probe!Leg]

ProbeAccount ==
  [cash : Nat, spent : Nat, floor : Nat, conditional_margin : Int, residual : Nat,
   halted : BOOLEAN, completed : Nat, empty : Nat, censored : Nat]

ProbeScenario == [account : ProbeAccount, try : ProbeTry]

\* An order that rests or is hedged.
ProbeEntry == [leg : Probe!Leg, quantity : Nat \ {0}, activation : Nat, expiry : Nat]

\* What an open attempt holds is what it paid for, and no hedge exceeds its fills.
Inventory(try, e) ==
  /\ try.filled <= e.quantity
  /\ try.holdings[e.leg] = try.filled
  /\ \A l \in Probe!Leg : try.holdings[l] <= try.filled
  /\ try.hedged \subseteq Probe!Leg \ {e.leg}
  /\ \A l \in Probe!Leg \ (try.hedged \cup {e.leg}) : try.holdings[l] = 0
  /\ try.debit = Probe!Held(try)

\* An open attempt at some time, hedged with some delay.
OpenFits(sc, e, time, delay) ==
  /\ ~sc.account.halted
  /\ Inventory(sc.try, e)
  /\ sc.try.closed =>
       sc.try.filled > 0 /\ sc.try.close_time <= e.expiry /\ time < sc.try.close_time + 2 * delay
  /\ ~sc.try.closed =>
       /\ sc.try.hedged = {} /\ time <= e.expiry
       /\ e.quantity - sc.try.filled <= sc.account.cash
  /\ ~sc.try.resting => sc.try.filled = 0

\* The outcomes of all attempts, and where the money of a scenario is.
AccountFits(a, try, open, tried) ==
  /\ a.cash + a.spent = InitialCash
  /\ a.residual # 0 <=> a.halted
  /\ LET outcomes == a.completed + a.empty + a.censored + (IF open THEN 1 ELSE 0)
     IN  outcomes = tried \/ (a.halted /\ outcomes = tried - 1)
  /\ ~a.halted => a.conditional_margin = a.floor - a.spent + (IF open THEN try.debit ELSE 0)

ScenarioFits(sc, e, tried, stopped, time, delay) ==
  LET open == e # Probe!NoEntry /\ ~sc.try.done
  IN  /\ sc \in ProbeScenario
      /\ AccountFits(sc.account, sc.try, open, tried)
      /\ sc.account.halted => stopped
      /\ open => OpenFits(sc, e, time, delay)

\* An order to buy is no state without one.
LEMMA SomeEntry ==
  ASSUME NEW e \in ProbeEntry
  PROVE  e # Probe!NoEntry
  BY DEF ProbeEntry, Probe!NoEntry, Probe!Leg

\* Giving up an open attempt.
LEMMA CensorScenarioFits ==
  ASSUME NEW sc, NEW e \in ProbeEntry, NEW tried \in Nat, NEW stopped \in BOOLEAN,
         NEW before \in BOOLEAN, before => stopped, NEW time \in Nat, NEW delay \in Nat, NEW later \in Nat,
         ScenarioFits(sc, e, tried, before, time, delay),
         ~sc.try.done /\ sc.try.filled # 0 => stopped
  PROVE  ScenarioFits(Probe!CensorScenario(sc), Probe!NoEntry, tried, stopped, later, delay)
<1> DEFINE new == Probe!CensorScenario(sc)
<1>1. sc \in ProbeScenario /\ e # Probe!NoEntry /\ (sc.account.halted => before)
  BY SomeEntry DEF ScenarioFits
<1>2. CASE sc.try.done
  <2>1. new = sc
    BY <1>2 DEF Probe!CensorScenario
  <2>2. AccountFits(sc.account, sc.try, FALSE, tried)
    BY <1>1, <1>2 DEF ScenarioFits, AccountFits
  <2> QED
    BY <1>1, <2>1, <2>2 DEF ScenarioFits
<1>3. CASE ~sc.try.done
  <2>1. /\ AccountFits(sc.account, sc.try, TRUE, tried) /\ OpenFits(sc, e, time, delay)
    BY <1>1, <1>3 DEF ScenarioFits, AccountFits
  <2>2. /\ sc.account \in ProbeAccount /\ sc.try \in ProbeTry /\ Probe!Held(sc.try) \in Nat
        /\ sc.try.filled # 0 => Probe!Held(sc.try) # 0
        /\ sc.try.debit = Probe!Held(sc.try)
        /\ sc.try.filled = 0 => Probe!Held(sc.try) = 0
    <3>1. sc.account \in ProbeAccount /\ sc.try \in ProbeTry
      BY <1>1 DEF ProbeScenario
    <3>2. /\ sc.try.holdings[1] \in Nat /\ sc.try.holdings[2] \in Nat /\ sc.try.holdings[3] \in Nat
          /\ e.leg \in {1, 2, 3} /\ sc.try.filled \in Nat
      BY <3>1 DEF ProbeTry, ProbeEntry, Probe!Leg
    <3>3. /\ sc.try.holdings[e.leg] = sc.try.filled
          /\ sc.try.holdings[1] <= sc.try.filled /\ sc.try.holdings[2] <= sc.try.filled
          /\ sc.try.holdings[3] <= sc.try.filled /\ sc.try.debit = Probe!Held(sc.try)
      BY <2>1 DEF OpenFits, Inventory, Probe!Leg
    <3>4. Probe!Held(sc.try) = sc.try.holdings[1] + sc.try.holdings[2] + sc.try.holdings[3]
      BY DEF Probe!Held
    <3> DEFINE h1 == sc.try.holdings[1]
               h2 == sc.try.holdings[2]
               h3 == sc.try.holdings[3]
               n == sc.try.filled
    <3>5. n = h1 \/ n = h2 \/ n = h3
      BY <3>2, <3>3
    <3>6. h1 \in Nat /\ h2 \in Nat /\ h3 \in Nat /\ n \in Nat /\ h1 <= n /\ h2 <= n /\ h3 <= n
      BY <3>2, <3>3
    <3>7. Probe!Held(sc.try) = h1 + h2 + h3
      BY <3>4
    <3> HIDE DEF h1, h2, h3, n
    <3>8. h1 + h2 + h3 \in Nat /\ (n # 0 => h1 + h2 + h3 # 0) /\ (n = 0 => h1 + h2 + h3 = 0)
      BY <3>5, <3>6
    <3> QED
      BY <3>1, <3>3, <3>7, <3>8 DEF n
  <2> DEFINE held == Probe!Held(sc.try)
             a == sc.account
             more == a.censored + 1
             stops == a.halted \/ sc.try.filled # 0
             kept == IF sc.try.filled # 0 THEN a.residual + held ELSE a.residual
             b == [a EXCEPT !.censored = more, !.halted = stops, !.residual = kept]
  <2>3. new = [account |-> b, try |-> [sc.try EXCEPT !.done = TRUE]]
    BY <1>1, <1>3 DEF Probe!CensorScenario, ProbeScenario
  <2>4. /\ a.cash \in Nat /\ a.spent \in Nat /\ a.floor \in Nat /\ a.conditional_margin \in Int
        /\ a.residual \in Nat /\ a.halted \in BOOLEAN /\ a.completed \in Nat /\ a.empty \in Nat
        /\ a.censored \in Nat /\ sc.try.filled \in Nat
    BY <2>2 DEF ProbeAccount, ProbeTry
  <2>5. b \in ProbeAccount /\ [sc.try EXCEPT !.done = TRUE] \in ProbeTry
    <3>1. held \in Nat
      BY <2>2
    <3> HIDE DEF held
    <3>2. more \in Nat /\ stops \in BOOLEAN /\ kept \in Nat
      BY <2>4, <3>1
    <3> HIDE DEF more, stops, kept
    <3>3. b \in ProbeAccount
      BY <2>2, <2>4, <3>2 DEF ProbeAccount
    <3> QED
      BY <2>2, <3>3 DEF ProbeTry
  <2>6. /\ b.cash = a.cash /\ b.spent = a.spent /\ b.floor = a.floor /\ b.completed = a.completed
        /\ b.conditional_margin = a.conditional_margin /\ b.empty = a.empty
        /\ b.censored = a.censored + 1 /\ b.halted = stops /\ b.residual = kept
    BY <2>2 DEF ProbeAccount
  <2>7. ~a.halted /\ a.residual = 0
    BY <2>1 DEF OpenFits, AccountFits
  <2>0. (sc.try.filled # 0 => stops /\ kept = held) /\ (sc.try.filled = 0 => ~stops /\ kept = 0)
    BY <2>2, <2>4, <2>7
  <2> HIDE DEF b, held, stops, kept
  <2>8. AccountFits(b, [sc.try EXCEPT !.done = TRUE], FALSE, tried)
    <3>1. a.completed + a.empty + a.censored + 1 = tried
      BY <2>1, <2>7 DEF AccountFits
    <3>2. b.completed + b.empty + b.censored + 0 = tried
      BY <2>4, <2>6, <3>1
    <3>3. b.cash + b.spent = InitialCash /\ (b.residual # 0 <=> b.halted)
      <4>1. a.cash + a.spent = InitialCash
        BY <2>1 DEF AccountFits
      <4>2. held \in Nat /\ (sc.try.filled # 0 => held # 0)
        BY <2>2 DEF held
      <4>3. b.residual # 0 <=> b.halted
        BY <2>0, <2>6, <4>2
      <4> QED
        BY <2>6, <4>1, <4>3
    <3>4. ~b.halted => b.conditional_margin = b.floor - b.spent + 0
      BY <2>0, <2>1, <2>2, <2>4, <2>6, <2>7 DEF AccountFits, held
    <3> QED
      BY <3>2, <3>3, <3>4 DEF AccountFits
  <2>9. new \in ProbeScenario /\ new.account = b /\ new.try = [sc.try EXCEPT !.done = TRUE]
    BY <2>3, <2>5 DEF ProbeScenario
  <2>10. b.halted => stopped
    BY <1>1, <1>3, <2>0, <2>6, <2>7
  <2> HIDE DEF new
  <2>11. AccountFits(new.account, new.try, FALSE, tried)
    BY <2>8, <2>9
  <2> QED
    BY <2>9, <2>10, <2>11 DEF ScenarioFits, new
<1> QED
  BY <1>2, <1>3

\* What hedges leave alone.
SameButHedges(new, old) ==
  /\ new.try.done = old.try.done /\ new.try.closed = old.try.closed
  /\ new.try.resting = old.try.resting /\ new.try.filled = old.try.filled
  /\ new.try.close_time = old.try.close_time
  /\ new.account.floor = old.account.floor /\ new.account.residual = old.account.residual
  /\ new.account.conditional_margin = old.account.conditional_margin
  /\ new.account.halted = old.account.halted /\ new.account.completed = old.account.completed
  /\ new.account.empty = old.account.empty /\ new.account.censored = old.account.censored
  /\ new.account.cash + new.account.spent = old.account.cash + old.account.spent
  /\ new.account.spent - new.try.debit = old.account.spent - old.try.debit

ProbeBook == [valid : BOOLEAN, newer : BOOLEAN, depth : Nat]

\* A hedge pays for what it buys, within the cash.
LEMMA HedgeKeeps ==
  ASSUME NEW p, NEW sc \in ProbeScenario, NEW e \in ProbeEntry, Inventory(sc.try, e),
         NEW l \in Probe!Leg, l # e.leg, l \notin sc.try.hedged, p.markets[l] \in ProbeBook
  PROVE  LET new == Probe!Hedge(p, sc, l)
         IN  /\ new \in ProbeScenario /\ Inventory(new.try, e) /\ SameButHedges(new, sc)
             /\ new.try.hedged = sc.try.hedged \cup {l}
<1> DEFINE q == IF p.markets[l].valid THEN Probe!Smaller(sc.try.filled, p.markets[l].depth) ELSE 0
           x == IF q > sc.account.cash THEN 0 ELSE q
           new == Probe!Hedge(p, sc, l)
           a == sc.account
           t == sc.try
<1>1. /\ a \in ProbeAccount /\ t \in ProbeTry
  BY DEF ProbeScenario
<1>2. /\ a.cash \in Nat /\ a.spent \in Nat /\ t.debit \in Nat /\ t.filled \in Nat
      /\ t.holdings \in [Probe!Leg -> Nat] /\ t.hedged \in SUBSET Probe!Leg
  BY <1>1 DEF ProbeAccount, ProbeTry
<1>3. x \in Nat /\ x <= a.cash /\ x <= t.filled
  <2>1. p.markets[l].depth \in Nat
    BY DEF ProbeBook
  <2>2. q \in Nat /\ q <= t.filled
    BY <1>2, <2>1 DEF Probe!Smaller
  <2> HIDE DEF q
  <2> QED
    BY <1>2, <2>2
<1> DEFINE cash == a.cash - x
           spent == a.spent + x
           debit == t.debit + x
           holdings == [t.holdings EXCEPT ![l] = x]
           hedged == t.hedged \cup {l}
<1>4. new = [sc EXCEPT !.try.hedged = @ \cup {l}, !.try.holdings[l] = x, !.try.debit = @ + x,
                       !.account.cash = @ - x, !.account.spent = @ + x]
  BY DEF Probe!Hedge
<1> HIDE DEF x, q, new
<1>5. new = [account |-> [a EXCEPT !.cash = cash, !.spent = spent],
             try |-> [t EXCEPT !.hedged = hedged, !.holdings = holdings, !.debit = debit]]
  BY <1>1, <1>2, <1>4 DEF ProbeScenario, ProbeAccount, ProbeTry
<1>6. /\ cash \in Nat /\ spent \in Nat /\ debit \in Nat /\ holdings \in [Probe!Leg -> Nat]
      /\ hedged \in SUBSET Probe!Leg
  BY <1>2, <1>3
<1>7. cash + spent = a.cash + a.spent /\ spent - debit = a.spent - t.debit
  BY <1>2, <1>3
<1>8. debit = holdings[1] + holdings[2] + holdings[3]
  <2>1. t.debit = t.holdings[1] + t.holdings[2] + t.holdings[3] /\ t.holdings[l] = 0
    BY DEF Inventory, Probe!Held
  <2>2. l \in {1, 2, 3} /\ t.holdings[1] \in Nat /\ t.holdings[2] \in Nat /\ t.holdings[3] \in Nat
    BY <1>2 DEF Probe!Leg
  <2>3. \A k \in {1, 2, 3} : holdings[k] = IF k = l THEN x ELSE t.holdings[k]
    BY <1>2 DEF Probe!Leg
  <2> HIDE DEF holdings
  <2>4. CASE l = 1
    BY <1>3, <2>1, <2>2, <2>3, <2>4
  <2>5. CASE l = 2
    BY <1>3, <2>1, <2>2, <2>3, <2>5
  <2>6. CASE l = 3
    BY <1>3, <2>1, <2>2, <2>3, <2>6
  <2> QED
    BY <2>2, <2>4, <2>5, <2>6
<1>9. /\ holdings[e.leg] = t.holdings[e.leg] /\ holdings[l] = x
      /\ \A k \in Probe!Leg : k # l => holdings[k] = t.holdings[k]
  BY <1>2 DEF ProbeEntry
<1> HIDE DEF cash, spent, debit, holdings, hedged
<1> DEFINE b == [a EXCEPT !.cash = cash, !.spent = spent]
           u == [t EXCEPT !.hedged = hedged, !.holdings = holdings, !.debit = debit]
<1>10. b \in ProbeAccount /\ u \in ProbeTry
  BY <1>1, <1>6 DEF ProbeAccount, ProbeTry
<1>11. /\ b.cash = cash /\ b.spent = spent /\ b.floor = a.floor /\ b.residual = a.residual
       /\ b.conditional_margin = a.conditional_margin /\ b.halted = a.halted
       /\ b.completed = a.completed /\ b.empty = a.empty /\ b.censored = a.censored
  BY <1>1 DEF ProbeAccount
<1>12. /\ u.hedged = hedged /\ u.holdings = holdings /\ u.debit = debit /\ u.done = t.done
       /\ u.closed = t.closed /\ u.resting = t.resting /\ u.filled = t.filled
       /\ u.close_time = t.close_time
  BY <1>1 DEF ProbeTry
<1>13. new \in ProbeScenario /\ new.account = b /\ new.try = u
  BY <1>5, <1>10 DEF ProbeScenario
<1> HIDE DEF b, u
<1>14. SameButHedges(new, sc)
  BY <1>7, <1>11, <1>12, <1>13 DEF SameButHedges
<1>15. Inventory(u, e)
  <2>1. u.filled <= e.quantity /\ u.holdings[e.leg] = u.filled
    BY <1>9, <1>12 DEF Inventory
  <2>2. \A k \in Probe!Leg : u.holdings[k] <= u.filled
    BY <1>3, <1>9, <1>12 DEF Inventory
  <2>3. u.hedged \subseteq Probe!Leg \ {e.leg}
    BY <1>12 DEF Inventory, hedged
  <2>4. \A k \in Probe!Leg \ (u.hedged \cup {e.leg}) : u.holdings[k] = 0
    BY <1>9, <1>12 DEF Inventory, hedged
  <2>5. u.debit = Probe!Held(u)
    BY <1>8, <1>12 DEF Probe!Held
  <2> QED
    BY <2>1, <2>2, <2>3, <2>4, <2>5 DEF Inventory
<1> QED
  BY <1>12, <1>13, <1>14, <1>15 DEF hedged, new

\* All the hedges that are due.
LEMMA HedgesKeep ==
  ASSUME NEW p, NEW sc \in ProbeScenario, NEW e \in ProbeEntry, Inventory(sc.try, e),
         p.markets \in [Probe!Leg -> ProbeBook],
         NEW due, due \subseteq Probe!Leg \ ({e.leg} \cup sc.try.hedged)
  PROVE  LET new == Probe!HedgeAll(p, sc, due)
         IN  /\ new \in ProbeScenario /\ Inventory(new.try, e) /\ SameButHedges(new, sc)
             /\ new.try.hedged = sc.try.hedged \cup due
<1> DEFINE Passed(new, S) == /\ new \in ProbeScenario /\ Inventory(new.try, e)
                             /\ SameButHedges(new, sc)
                             /\ new.try.hedged = sc.try.hedged \cup S
<1>1. ASSUME NEW mid, NEW S, Passed(mid, S), NEW l \in Probe!Leg, l \notin S
      PROVE  Passed(Probe!HedgeIf(p, mid, l, due), S \cup (due \cap {l}))
  <2>1. CASE l \notin due
    <3>1. Probe!HedgeIf(p, mid, l, due) = mid /\ S \cup (due \cap {l}) = S
      BY <2>1 DEF Probe!HedgeIf
    <3> QED
      BY <1>1, <3>1
  <2>2. CASE l \in due
    <3> DEFINE new == Probe!Hedge(p, mid, l)
    <3>1. /\ mid \in ProbeScenario /\ Inventory(mid.try, e) /\ l # e.leg /\ l \notin mid.try.hedged
          /\ p.markets[l] \in ProbeBook
      BY <1>1, <2>2
    <3>2. /\ new \in ProbeScenario /\ Inventory(new.try, e) /\ SameButHedges(new, mid)
          /\ new.try.hedged = mid.try.hedged \cup {l}
      BY <3>1, HedgeKeeps
    <3>3. Probe!HedgeIf(p, mid, l, due) = new /\ due \cap {l} = {l}
      BY <2>2 DEF Probe!HedgeIf
    <3> HIDE DEF new
    <3>4. new.try.hedged = sc.try.hedged \cup (S \cup {l})
      BY <1>1, <3>2
    <3>5. SameButHedges(new, sc)
      BY <1>1, <3>2 DEF SameButHedges
    <3> QED
      BY <3>2, <3>3, <3>4, <3>5
  <2> QED
    BY <2>1, <2>2
<1>2. Passed(sc, {})
  BY DEF SameButHedges
<1> DEFINE first == Probe!HedgeIf(p, sc, 1, due)
           second == Probe!HedgeIf(p, first, 2, due)
           third == Probe!HedgeIf(p, second, 3, due)
<1> HIDE DEF Passed
<1>3. Passed(first, due \cap {1})
  <2>1. Passed(first, {} \cup (due \cap {1}))
    BY <1>1, <1>2 DEF Probe!Leg
  <2>2. {} \cup (due \cap {1}) = due \cap {1}
    OBVIOUS
  <2> QED
    BY <2>1, <2>2
<1> HIDE DEF first
<1>4. Passed(second, (due \cap {1}) \cup (due \cap {2}))
  <2>1. 2 \in Probe!Leg /\ 2 \notin due \cap {1}
    BY DEF Probe!Leg
  <2> QED
    BY <1>1, <1>3, <2>1
<1> HIDE DEF second
<1>5. Passed(third, ((due \cap {1}) \cup (due \cap {2})) \cup (due \cap {3}))
  <2>1. 3 \in Probe!Leg /\ 3 \notin (due \cap {1}) \cup (due \cap {2})
    BY DEF Probe!Leg
  <2> QED
    BY <1>1, <1>4, <2>1
<1>6. ((due \cap {1}) \cup (due \cap {2})) \cup (due \cap {3}) = due
  BY DEF Probe!Leg
<1>7. Probe!HedgeAll(p, sc, due) = third
  BY DEF Probe!HedgeAll, first, second
<1> HIDE DEF third
<1> QED
  BY <1>5, <1>6, <1>7 DEF Passed

\* An attempt that goes on, whatever its times.
GoesOn(sc, e, tried) ==
  /\ sc \in ProbeScenario /\ ~sc.try.done /\ ~sc.account.halted
  /\ Inventory(sc.try, e)
  /\ AccountFits(sc.account, sc.try, TRUE, tried)

\* The fields of a scenario.
LEMMA ProbeFields ==
  ASSUME NEW sc \in ProbeScenario
  PROVE  /\ sc.account \in ProbeAccount /\ sc.try \in ProbeTry
         /\ sc.account.cash \in Nat /\ sc.account.spent \in Nat /\ sc.account.floor \in Nat
         /\ sc.account.conditional_margin \in Int /\ sc.account.residual \in Nat
         /\ sc.account.halted \in BOOLEAN /\ sc.account.completed \in Nat
         /\ sc.account.empty \in Nat /\ sc.account.censored \in Nat
         /\ sc.try.done \in BOOLEAN /\ sc.try.closed \in BOOLEAN /\ sc.try.resting \in BOOLEAN
         /\ sc.try.filled \in Nat /\ sc.try.debit \in Nat /\ sc.try.close_time \in Nat
         /\ sc.try.holdings \in [Probe!Leg -> Nat] /\ sc.try.hedged \in SUBSET Probe!Leg
         /\ sc = [account |-> sc.account, try |-> sc.try]
<1>1. sc.account \in ProbeAccount /\ sc.try \in ProbeTry
      /\ sc = [account |-> sc.account, try |-> sc.try]
  BY DEF ProbeScenario
<1> QED
  BY <1>1 DEF ProbeAccount, ProbeTry

\* An order that ends empty is an outcome; one that ends with fills goes on to its hedges.
LEMMA CloseEntryFits ==
  ASSUME NEW sc, NEW e, NEW tried \in Nat, GoesOn(sc, e, tried), NEW at \in Nat,
         NEW time, NEW delay
  PROVE  LET new == Probe!CloseEntry(sc, at)
         IN  /\ sc.try.filled = 0 => new.try.done /\ ScenarioFits(new, e, tried, FALSE, time, delay)
             /\ sc.try.filled # 0 =>
                  /\ GoesOn(new, e, tried) /\ new.try.closed /\ new.try.close_time = at
                  /\ new.try.hedged = sc.try.hedged /\ new.try.resting = sc.try.resting
                  /\ new.try.filled = sc.try.filled /\ new.account = sc.account
<1> DEFINE new == Probe!CloseEntry(sc, at)
           a == sc.account
           t == sc.try
           over == t.filled = 0
           ends == t.done \/ over
           empties == IF over THEN a.empty + 1 ELSE a.empty
           b == [a EXCEPT !.empty = empties]
           u == [t EXCEPT !.closed = TRUE, !.close_time = at, !.done = ends]
<1>1. sc \in ProbeScenario /\ ~t.done /\ ~a.halted /\ Inventory(t, e) /\ AccountFits(a, t, TRUE, tried)
  BY DEF GoesOn
<1>2. /\ a \in ProbeAccount /\ t \in ProbeTry /\ a.cash \in Nat /\ a.spent \in Nat /\ a.floor \in Nat
      /\ a.conditional_margin \in Int /\ a.residual \in Nat /\ a.completed \in Nat
      /\ a.empty \in Nat /\ a.censored \in Nat /\ t.filled \in Nat /\ t.debit \in Nat
      /\ sc = [account |-> a, try |-> t]
  BY <1>1, ProbeFields
<1>3. new = [account |-> b, try |-> u]
  <2>1. new = [sc EXCEPT !.try.closed = TRUE, !.try.close_time = at, !.try.done = ends,
                         !.account.empty = empties]
    BY DEF Probe!CloseEntry
  <2> HIDE DEF new, ends, empties
  <2> QED
    BY <1>2, <2>1 DEF ProbeAccount, ProbeTry
<1>4. ends \in BOOLEAN /\ (ends <=> over)
  BY <1>1
<1>5. u \in ProbeTry /\ u.done = ends /\ u.closed /\ u.close_time = at /\ u.hedged = t.hedged
      /\ u.resting = t.resting /\ u.filled = t.filled /\ u.holdings = t.holdings /\ u.debit = t.debit
  <2> HIDE DEF ends
  <2> QED
    BY <1>2, <1>4 DEF ProbeTry
<1>6. Inventory(u, e)
  <2>1. Probe!Held(u) = Probe!Held(t)
    BY <1>5 DEF Probe!Held
  <2> HIDE DEF u
  <2> QED
    BY <1>1, <1>5, <2>1 DEF Inventory
<1>7. b \in ProbeAccount
  <2>1. empties \in Nat
    BY <1>2
  <2> HIDE DEF empties
  <2> QED
    BY <1>2, <2>1 DEF ProbeAccount
<1> HIDE DEF u, new
<1>8. new \in ProbeScenario /\ new.account = b /\ new.try = u
  BY <1>3, <1>5, <1>7 DEF ProbeScenario
<1>9. CASE t.filled = 0
  <2>1. /\ b.cash = a.cash /\ b.spent = a.spent /\ b.floor = a.floor /\ b.residual = a.residual
        /\ b.conditional_margin = a.conditional_margin /\ b.halted = a.halted
        /\ b.completed = a.completed /\ b.empty = a.empty + 1 /\ b.censored = a.censored
    BY <1>2, <1>9 DEF ProbeAccount
  <2>2. t.debit = 0
    <3>1. /\ t.debit = t.holdings[1] + t.holdings[2] + t.holdings[3]
          /\ t.holdings[1] <= 0 /\ t.holdings[2] <= 0 /\ t.holdings[3] <= 0
      BY <1>1, <1>9 DEF Inventory, Probe!Held, Probe!Leg
    <3>2. t.holdings[1] \in Nat /\ t.holdings[2] \in Nat /\ t.holdings[3] \in Nat
      BY <1>2 DEF ProbeTry, Probe!Leg
    <3> QED
      BY <3>1, <3>2
  <2>3. a.completed + a.empty + a.censored + 1 = tried
    BY <1>1 DEF AccountFits
  <2>4. b.completed + b.empty + b.censored + 0 = tried
    BY <1>2, <2>1, <2>3
  <2>5. b.cash + b.spent = InitialCash /\ (b.residual # 0 <=> b.halted)
    BY <1>1, <2>1 DEF AccountFits
  <2>6. b.conditional_margin = b.floor - b.spent + 0
    BY <1>1, <1>2, <2>1, <2>2 DEF AccountFits
  <2> HIDE DEF b
  <2>7. AccountFits(b, u, FALSE, tried)
    BY <2>4, <2>5, <2>6 DEF AccountFits
  <2>8. new.try.done /\ ~new.account.halted
    BY <1>1, <1>4, <1>5, <1>8, <1>9, <2>1
  <2>9. AccountFits(new.account, new.try, FALSE, tried)
    BY <1>8, <2>7
  <2>10. ScenarioFits(new, e, tried, FALSE, time, delay)
    BY <1>8, <2>8, <2>9 DEF ScenarioFits
  <2> QED
    BY <1>9, <2>8, <2>10 DEF new
<1>10. CASE t.filled # 0
  <2>1. b = a
    BY <1>2, <1>10 DEF ProbeAccount
  <2> HIDE DEF b
  <2>2. AccountFits(a, u, TRUE, tried)
    BY <1>1, <1>5 DEF AccountFits
  <2>3. new.account = a /\ ~new.try.done
    BY <1>4, <1>5, <1>8, <1>10, <2>1
  <2>4. GoesOn(new, e, tried)
    <3>1. AccountFits(new.account, new.try, TRUE, tried) /\ Inventory(new.try, e)
      BY <1>6, <1>8, <2>2, <2>3
    <3> QED
      BY <1>1, <1>8, <2>3, <3>1 DEF GoesOn
  <2> QED
    BY <1>5, <1>8, <1>10, <2>3, <2>4 DEF new
<1> QED
  BY <1>9, <1>10

\* A hedged order is a basket, worth its floor, or a residual.
LEMMA SettleFits ==
  ASSUME NEW sc, NEW e \in ProbeEntry, NEW tried \in Nat, GoesOn(sc, e, tried), sc.try.filled # 0,
         Payout \in Nat, NEW time, NEW delay
  PROVE  LET new == Probe!Settle(sc)
         IN  new.try.done /\ ScenarioFits(new, e, tried, new.account.halted, time, delay)
<1> DEFINE new == Probe!Settle(sc)
           a == sc.account
           t == sc.try
           u == [t EXCEPT !.done = TRUE]
           held == Probe!Held(t)
           worth == t.filled * Payout
           b == [a EXCEPT !.completed = a.completed + 1, !.floor = a.floor + worth,
                          !.conditional_margin = a.conditional_margin + worth - t.debit]
           c == [a EXCEPT !.halted = TRUE, !.residual = a.residual + held]
<1>1. sc \in ProbeScenario /\ ~t.done /\ ~a.halted /\ Inventory(t, e) /\ AccountFits(a, t, TRUE, tried)
  BY DEF GoesOn
<1>2. /\ a \in ProbeAccount /\ t \in ProbeTry /\ a.cash \in Nat /\ a.spent \in Nat /\ a.floor \in Nat
      /\ a.conditional_margin \in Int /\ a.residual \in Nat /\ a.completed \in Nat
      /\ a.empty \in Nat /\ a.censored \in Nat /\ t.filled \in Nat /\ t.debit \in Nat
      /\ sc = [account |-> a, try |-> t]
  BY <1>1, ProbeFields
<1>3. worth \in Nat
  BY <1>2
<1>4. held \in Nat /\ held # 0 /\ held = t.debit
  <2>1. t.holdings[1] \in Nat /\ t.holdings[2] \in Nat /\ t.holdings[3] \in Nat /\ e.leg \in {1, 2, 3}
    BY <1>2 DEF ProbeTry, Probe!Leg, ProbeEntry
  <2>2. t.holdings[e.leg] = t.filled /\ t.debit = held
    BY <1>1 DEF Inventory
  <2>3. t.holdings[1] # 0 \/ t.holdings[2] # 0 \/ t.holdings[3] # 0
    BY <1>2, <2>1, <2>2
  <2>4. held = t.holdings[1] + t.holdings[2] + t.holdings[3]
    BY DEF Probe!Held
  <2> DEFINE h1 == t.holdings[1]
             h2 == t.holdings[2]
             h3 == t.holdings[3]
  <2>5. h1 \in Nat /\ h2 \in Nat /\ h3 \in Nat /\ (h1 # 0 \/ h2 # 0 \/ h3 # 0)
    BY <2>1, <2>3
  <2>6. held = h1 + h2 + h3
    BY <2>4
  <2> HIDE DEF held, h1, h2, h3
  <2>7. held \in Nat /\ held # 0
    BY <2>5, <2>6
  <2> QED
    BY <2>2, <2>7
<1>5. u \in ProbeTry /\ u.done
  BY <1>2 DEF ProbeTry
<1>6. a.completed + a.empty + a.censored + 1 = tried /\ a.cash + a.spent = InitialCash
      /\ a.conditional_margin = a.floor - a.spent + t.debit /\ a.residual = 0
  BY <1>1 DEF AccountFits
<1> HIDE DEF held, worth, u
<1>7. CASE Probe!Complete(t)
  <2>1. new = [sc EXCEPT !.try.done = TRUE, !.account.completed = @ + 1, !.account.floor = @ + worth,
                         !.account.conditional_margin = @ + worth - t.debit]
    BY <1>7 DEF Probe!Settle, worth
  <2> HIDE DEF new
  <2>2. new = [account |-> b, try |-> u]
    BY <1>2, <2>1 DEF ProbeAccount, ProbeTry, u
  <2>3. /\ a.completed + 1 \in Nat /\ a.floor + worth \in Nat
        /\ a.conditional_margin + worth - t.debit \in Int
    BY <1>2, <1>3
  <2>4. b \in ProbeAccount
    BY <1>2, <2>3 DEF ProbeAccount
  <2>5. /\ b.cash = a.cash /\ b.spent = a.spent /\ b.floor = a.floor + worth /\ b.residual = a.residual
        /\ b.conditional_margin = a.conditional_margin + worth - t.debit /\ b.halted = a.halted
        /\ b.completed = a.completed + 1 /\ b.empty = a.empty /\ b.censored = a.censored
    BY <1>2 DEF ProbeAccount
  <2> HIDE DEF b
  <2>6. b.completed + b.empty + b.censored + 0 = tried
    BY <1>2, <1>6, <2>5
  <2>7. b.conditional_margin = b.floor - b.spent + 0
    BY <1>2, <1>3, <1>6, <2>5
  <2>8. AccountFits(b, u, FALSE, tried)
    BY <1>1, <1>6, <2>5, <2>6, <2>7 DEF AccountFits
  <2>9. new \in ProbeScenario /\ new.account = b /\ new.try = u
    BY <1>5, <2>2, <2>4 DEF ProbeScenario
  <2>10. new.try.done /\ ScenarioFits(new, e, tried, new.account.halted, time, delay)
    <3>1. AccountFits(new.account, new.try, FALSE, tried) /\ new.try.done
      BY <1>5, <2>8, <2>9
    <3> QED
      BY <2>9, <3>1 DEF ScenarioFits
  <2> QED
    BY <2>10 DEF new
<1>8. CASE ~Probe!Complete(t)
  <2>1. new = [sc EXCEPT !.try.done = TRUE, !.account.halted = TRUE, !.account.residual = @ + held]
    BY <1>8 DEF Probe!Settle, held
  <2> HIDE DEF new
  <2>2. new = [account |-> c, try |-> u]
    BY <1>2, <2>1 DEF ProbeAccount, ProbeTry, u
  <2>3. a.residual + held \in Nat
    BY <1>2, <1>4
  <2>4. c \in ProbeAccount
    BY <1>2, <2>3 DEF ProbeAccount
  <2>5. /\ c.cash = a.cash /\ c.spent = a.spent /\ c.residual = a.residual + held /\ c.halted = TRUE
        /\ c.completed = a.completed /\ c.empty = a.empty /\ c.censored = a.censored
    BY <1>2 DEF ProbeAccount
  <2> HIDE DEF c
  <2>6. c.completed + c.empty + c.censored + 0 = tried - 1
    BY <1>2, <1>6, <2>5
  <2>7. c.residual # 0
    BY <1>2, <1>4, <2>5
  <2>8. AccountFits(c, u, FALSE, tried)
    BY <1>6, <2>5, <2>6, <2>7 DEF AccountFits
  <2>9. new \in ProbeScenario /\ new.account = c /\ new.try = u
    BY <1>5, <2>2, <2>4 DEF ProbeScenario
  <2>10. new.try.done /\ ScenarioFits(new, e, tried, new.account.halted, time, delay)
    <3>1. AccountFits(new.account, new.try, FALSE, tried) /\ new.try.done
      BY <1>5, <2>8, <2>9
    <3> QED
      BY <2>9, <3>1 DEF ScenarioFits
  <2> QED
    BY <2>10 DEF new
<1> QED
  BY <1>7, <1>8

\* An open attempt that goes on.
LEMMA OpenRuns ==
  ASSUME NEW sc, NEW e \in ProbeEntry, NEW tried, NEW stopped, NEW time, NEW delay, ~sc.try.done
  PROVE  ScenarioFits(sc, e, tried, stopped, time, delay)
           <=> (GoesOn(sc, e, tried) /\ OpenFits(sc, e, time, delay))
<1>1. e # Probe!NoEntry
  BY SomeEntry
<1> QED
  BY <1>1 DEF ScenarioFits, GoesOn, OpenFits, AccountFits

\* Hedges keep the account of an attempt that goes on.
LEMMA HedgesRun ==
  ASSUME NEW p, NEW sc, NEW e \in ProbeEntry, NEW tried, GoesOn(sc, e, tried), InitialCash \in Nat,
         p.markets \in [Probe!Leg -> ProbeBook],
         NEW due, due \subseteq Probe!Leg \ ({e.leg} \cup sc.try.hedged)
  PROVE  LET new == Probe!HedgeAll(p, sc, due)
         IN  GoesOn(new, e, tried) /\ SameButHedges(new, sc) /\ new.try.hedged = sc.try.hedged \cup due
<1> DEFINE new == Probe!HedgeAll(p, sc, due)
<1>1. sc \in ProbeScenario /\ ~sc.try.done /\ ~sc.account.halted /\ Inventory(sc.try, e)
      /\ AccountFits(sc.account, sc.try, TRUE, tried)
  BY DEF GoesOn
<1>2. /\ new \in ProbeScenario /\ Inventory(new.try, e) /\ SameButHedges(new, sc)
      /\ new.try.hedged = sc.try.hedged \cup due
  BY <1>1, HedgesKeep
<1> HIDE DEF new
<1>3. ~new.try.done /\ ~new.account.halted
  BY <1>1, <1>2 DEF SameButHedges
<1>4. new.account.conditional_margin = new.account.floor - new.account.spent + new.try.debit
  <2>1. sc.account.conditional_margin = sc.account.floor - sc.account.spent + sc.try.debit
    BY <1>1 DEF AccountFits
  <2>2. /\ sc.account.spent \in Nat /\ sc.try.debit \in Nat /\ sc.account.floor \in Nat
        /\ new.account.spent \in Nat /\ new.try.debit \in Nat
    BY <1>1, <1>2, ProbeFields
  <2>3. /\ new.account.conditional_margin = sc.account.conditional_margin
        /\ new.account.floor = sc.account.floor
        /\ new.account.spent - new.try.debit = sc.account.spent - sc.try.debit
    BY <1>2 DEF SameButHedges
  <2> QED
    BY <2>1, <2>2, <2>3
<1>5. AccountFits(new.account, new.try, TRUE, tried)
  BY <1>1, <1>2, <1>3, <1>4 DEF AccountFits, SameButHedges
<1> QED
  BY <1>2, <1>3, <1>5 DEF GoesOn, new

\* A closed order with a hedge still to come is not past its last hedge.
LEMMA HedgeToCome ==
  ASSUME NEW p, NEW e \in ProbeEntry, p.entry = e, NEW s, HedgeDelay[s] \in Nat,
         NEW try \in ProbeTry, NEW time \in Nat, NEW l \in Probe!Leg \ {e.leg},
         l \notin try.hedged, l \notin Probe!DueLegs(p, s, try, time)
  PROVE  time < try.close_time + 2 * HedgeDelay[s]
<1> DEFINE n == Probe!Ordinal(p, l)
           d == HedgeDelay[s]
<1>1. n \in {1, 2}
  BY DEF Probe!Ordinal, Probe!Leg, ProbeEntry
<1>2. ~(time >= try.close_time + n * d)
  BY DEF Probe!DueLegs, Probe!Due
<1>3. try.close_time \in Nat /\ d \in Nat
  BY DEF ProbeTry
<1>4. n * d = d \/ n * d = 2 * d
  BY <1>1, <1>3
<1> DEFINE wait == n * d
<1>5. ~(time >= try.close_time + wait) /\ (wait = d \/ wait = 2 * d)
  BY <1>2, <1>4
<1> HIDE DEF n, d, wait
<1>6. time < try.close_time + 2 * d
  BY <1>3, <1>5
<1> QED
  BY <1>6 DEF d

\* An order that has just begun to rest, and one that has not.
LEMMA RestedRuns ==
  ASSUME NEW sc, NEW e, NEW tried, GoesOn(sc, e, tried), NEW activates \in BOOLEAN
  PROVE  LET new == IF activates THEN [sc EXCEPT !.try.resting = TRUE] ELSE sc
         IN  /\ GoesOn(new, e, tried) /\ new.account = sc.account
             /\ new.try.closed = sc.try.closed /\ new.try.close_time = sc.try.close_time
             /\ new.try.filled = sc.try.filled /\ new.try.hedged = sc.try.hedged
             /\ (activates \/ sc.try.resting => new.try.resting)
<1>1. CASE ~activates
  BY <1>1
<1>2. CASE activates
  <2> DEFINE t == sc.try
             u == [t EXCEPT !.resting = TRUE]
             new == [sc EXCEPT !.try.resting = TRUE]
  <2>1. sc \in ProbeScenario /\ ~t.done /\ ~sc.account.halted /\ Inventory(t, e)
        /\ AccountFits(sc.account, t, TRUE, tried)
    BY DEF GoesOn
  <2>2. new = [account |-> sc.account, try |-> u] /\ t \in ProbeTry /\ sc.account \in ProbeAccount
    <3>1. t \in ProbeTry /\ sc.account \in ProbeAccount /\ sc = [account |-> sc.account, try |-> t]
      BY <2>1, ProbeFields
    <3>2. new = [sc EXCEPT !.try = u]
      OBVIOUS
    <3> HIDE DEF u, new
    <3>3. new = [account |-> sc.account, try |-> u]
      BY <2>1, <3>2 DEF ProbeScenario
    <3> QED
      BY <3>1, <3>3
  <2> HIDE DEF new
  <2>3. /\ u \in ProbeTry /\ u.done = t.done /\ u.closed = t.closed /\ u.close_time = t.close_time
        /\ u.filled = t.filled /\ u.holdings = t.holdings /\ u.debit = t.debit /\ u.hedged = t.hedged
        /\ u.resting
    BY <2>2 DEF ProbeTry
  <2> HIDE DEF u
  <2>4. new \in ProbeScenario /\ new.account = sc.account /\ new.try = u
    BY <2>2, <2>3 DEF ProbeScenario
  <2>5. Inventory(u, e)
    BY <2>1, <2>3 DEF Inventory, Probe!Held
  <2>6. AccountFits(sc.account, u, TRUE, tried)
    BY <2>1, <2>3 DEF AccountFits
  <2>7. GoesOn(new, e, tried)
    <3>1. Inventory(new.try, e) /\ AccountFits(new.account, new.try, TRUE, tried)
      BY <2>4, <2>5, <2>6
    <3> QED
      BY <2>1, <2>3, <2>4, <3>1 DEF GoesOn
  <2> QED
    BY <1>2, <2>3, <2>4, <2>7 DEF new
<1> QED
  BY <1>1, <1>2

\* An order closed with fills.
LEMMA CloseFilledRuns ==
  ASSUME NEW sc, NEW e, NEW tried \in Nat, GoesOn(sc, e, tried), NEW at \in Nat,
         NEW new, new = Probe!CloseEntry(sc, at), sc.try.filled # 0
  PROVE  /\ GoesOn(new, e, tried) /\ new.try.closed /\ new.try.close_time = at
         /\ new.try.hedged = sc.try.hedged /\ new.try.resting = sc.try.resting
         /\ new.try.filled = sc.try.filled /\ new.account = sc.account
  BY CloseEntryFits

\* A closed order with fills, hedged as far as it is due.
LEMMA HedgedFits ==
  ASSUME NEW p, NEW s, NEW e \in ProbeEntry, p.entry = e, NEW tried \in Nat, NEW sc,
         GoesOn(sc, e, tried), sc.try.closed, sc.try.close_time <= e.expiry, sc.try.filled # 0,
         sc.try.resting, NEW time \in Nat, HedgeDelay[s] \in Nat,
         p.markets \in [Probe!Leg -> ProbeBook], Payout \in Nat, InitialCash \in Nat
  PROVE  LET hedged == Probe!HedgeAll(p, sc, Probe!DueLegs(p, s, sc.try, time))
             new == IF hedged.try.hedged = Probe!Leg \ {p.entry.leg} THEN Probe!Settle(hedged)
                    ELSE hedged
         IN  ScenarioFits(new, e, tried, new.account.halted, time, HedgeDelay[s])
<1> DEFINE due == Probe!DueLegs(p, s, sc.try, time)
           hedged == Probe!HedgeAll(p, sc, due)
           new == IF hedged.try.hedged = Probe!Leg \ {p.entry.leg} THEN Probe!Settle(hedged) ELSE hedged
           d == HedgeDelay[s]
<1>1. due \subseteq Probe!Leg \ ({e.leg} \cup sc.try.hedged)
  BY DEF Probe!DueLegs
<1>2. GoesOn(hedged, e, tried) /\ SameButHedges(hedged, sc) /\ hedged.try.hedged = sc.try.hedged \cup due
  <2> HIDE DEF due
  <2> QED
    BY <1>1, HedgesRun
<1> HIDE DEF hedged
<1>3. /\ hedged.try.closed /\ hedged.try.close_time = sc.try.close_time
      /\ hedged.try.filled = sc.try.filled /\ hedged.try.resting
  BY <1>2 DEF SameButHedges
<1>4. CASE hedged.try.hedged = Probe!Leg \ {e.leg}
  <2>1. new = Probe!Settle(hedged)
    BY <1>4
  <2>2. ScenarioFits(Probe!Settle(hedged), e, tried, Probe!Settle(hedged).account.halted, time, d)
    BY <1>2, <1>3, SettleFits
  <2> HIDE DEF new
  <2>3. ScenarioFits(new, e, tried, new.account.halted, time, d)
    BY <2>1, <2>2
  <2> QED
    BY <2>3 DEF new, hedged
<1>5. CASE hedged.try.hedged # Probe!Leg \ {e.leg}
  <2>1. new = hedged
    BY <1>5
  <2>2. Inventory(hedged.try, e) /\ ~hedged.account.halted /\ ~hedged.try.done
        /\ hedged \in ProbeScenario
    BY <1>2 DEF GoesOn
  <2>3. hedged.try.hedged \subseteq Probe!Leg \ {e.leg}
    BY <2>2 DEF Inventory
  <2>4. PICK l \in Probe!Leg \ {e.leg} : l \notin hedged.try.hedged
    BY <1>5, <2>3
  <2>5. l \notin sc.try.hedged /\ l \notin due
    BY <1>2, <2>4
  <2>6. time < sc.try.close_time + 2 * d
    <3>1. sc.try \in ProbeTry
      BY ProbeFields DEF GoesOn
    <3> QED
      BY <2>4, <2>5, <3>1, HedgeToCome
  <2>7. hedged.try.filled > 0
    <3>1. sc.try.filled \in Nat
      BY ProbeFields DEF GoesOn
    <3> QED
      BY <1>3, <3>1
  <2>8. OpenFits(hedged, e, time, d)
    BY <1>3, <2>2, <2>6, <2>7 DEF OpenFits
  <2>9. ScenarioFits(hedged, e, tried, hedged.account.halted, time, d)
    BY <1>2, <2>2, <2>8, OpenRuns
  <2> HIDE DEF new
  <2>10. ScenarioFits(new, e, tried, new.account.halted, time, d)
    BY <2>1, <2>9
  <2> QED
    BY <2>10 DEF new, hedged
<1> QED
  BY <1>4, <1>5

\* One scenario of an attempt, up to a later time.
LEMMA AdvanceScenarioFits ==
  ASSUME NEW p, NEW s, NEW e \in ProbeEntry, p.entry = e, NEW tried \in Nat, NEW stopped \in BOOLEAN,
         NEW time \in Nat, NEW last \in Nat, NEW moved \in BOOLEAN, HedgeDelay[s] \in Nat,
         p.markets \in [Probe!Leg -> ProbeBook], Payout \in Nat, InitialCash \in Nat,
         ScenarioFits(p.scenarios[s], e, tried, stopped, last, HedgeDelay[s])
  PROVE  LET new == Probe!AdvanceScenario(p, s, time, moved)
         IN  ScenarioFits(new, e, tried, stopped \/ new.account.halted, time, HedgeDelay[s])
<1> DEFINE d == HedgeDelay[s]
           start == p.scenarios[s]
           activates == ~start.try.resting /\ time >= p.entry.activation
           lost == activates /\ (~p.markets[p.entry.leg].valid \/ moved)
           rested == IF activates THEN [start EXCEPT !.try.resting = TRUE] ELSE start
           closed == IF ~rested.try.closed /\ time >= p.entry.expiry
                     THEN Probe!CloseEntry(rested, p.entry.expiry) ELSE rested
           due == Probe!DueLegs(p, s, closed.try, time)
           hedged == Probe!HedgeAll(p, closed, due)
           gone == [start EXCEPT !.try.done = TRUE, !.account.censored = @ + 1]
           new == Probe!AdvanceScenario(p, s, time, moved)
           Fits(x) == ScenarioFits(x, e, tried, stopped \/ x.account.halted, time, d)
<1>0. new = IF start.try.done THEN start
            ELSE IF lost THEN gone
            ELSE IF ~closed.try.closed \/ closed.try.done THEN closed
            ELSE IF hedged.try.hedged = Probe!Leg \ {p.entry.leg} THEN Probe!Settle(hedged)
            ELSE hedged
  BY DEF Probe!AdvanceScenario
<1> HIDE DEF new
<1>1. CASE start.try.done
  <2>1. new = start
    BY <1>0, <1>1
  <2>2. Fits(start)
    BY <1>1 DEF ScenarioFits
  <2> QED
    BY <2>1, <2>2 DEF new
<1>2. CASE ~start.try.done /\ lost
  <2>1. new = gone
    BY <1>0, <1>2
  <2>2. GoesOn(start, e, tried) /\ OpenFits(start, e, last, d)
    BY <1>2, OpenRuns
  <2>3. start \in ProbeScenario /\ start.try.filled = 0 /\ ~start.account.halted
    BY <1>2, <2>2 DEF GoesOn, OpenFits
  <2> HIDE DEF lost
  <2>4. Probe!CensorScenario(start) = gone
    <3> DEFINE halts == start.account.halted \/ start.try.filled # 0
               kept == IF start.try.filled # 0 THEN start.account.residual + Probe!Held(start.try)
                       ELSE start.account.residual
    <3>1. halts = start.account.halted /\ kept = start.account.residual
      BY <2>3, ProbeFields
    <3>2. Probe!CensorScenario(start)
            = [start EXCEPT !.try.done = TRUE, !.account.censored = @ + 1, !.account.halted = halts,
                            !.account.residual = kept]
      BY <1>2 DEF Probe!CensorScenario
    <3> HIDE DEF halts, kept, start
    <3> QED
      BY <2>3, <3>1, <3>2 DEF ProbeScenario, ProbeAccount
  <2>5. ScenarioFits(gone, Probe!NoEntry, tried, stopped, time, d)
    <3>1. d \in Nat
      BY DEF d
    <3>2. ScenarioFits(start, e, tried, stopped, last, d)
      BY DEF start, d
    <3> QED
      BY <2>3, <2>4, <3>1, <3>2, CensorScenarioFits
  <2>6. gone.try.done
    BY <2>3 DEF ProbeScenario, ProbeTry
  <2> HIDE DEF gone
  <2>7. Fits(gone)
    BY <2>5, <2>6 DEF ScenarioFits
  <2> QED
    BY <2>1, <2>7 DEF new
<1>3. CASE ~start.try.done /\ ~lost
  <2>1. GoesOn(start, e, tried) /\ OpenFits(start, e, last, d)
    BY <1>3, OpenRuns
  <2>2. activates \in BOOLEAN
    <3>1. start.try.resting \in BOOLEAN
      BY <2>1, ProbeFields DEF GoesOn
    <3> QED
      BY <3>1
  <2> HIDE DEF start, lost
  <2>3. /\ GoesOn(rested, e, tried) /\ rested.account = start.account
        /\ rested.try.closed = start.try.closed /\ rested.try.close_time = start.try.close_time
        /\ rested.try.filled = start.try.filled /\ rested.try.hedged = start.try.hedged
        /\ (activates \/ start.try.resting => rested.try.resting)
    <3> HIDE DEF activates
    <3> QED
      BY <2>1, <2>2, RestedRuns
  <2>4. e.expiry \in Nat /\ e.leg \in Probe!Leg /\ start \in ProbeScenario
    BY <2>1 DEF ProbeEntry, GoesOn
  <2>5. OpenFits(rested, e, last, d)
    <3>1. rested.try.resting \/ rested.try.filled = 0
      <4>1. CASE start.try.resting
        BY <2>3, <4>1
      <4>2. CASE ~start.try.resting
        BY <2>1, <2>3, <4>2 DEF OpenFits
      <4> QED
        BY <4>1, <4>2
    <3> HIDE DEF rested, activates
    <3>2. ~rested.account.halted /\ Inventory(rested.try, e)
      BY <2>3 DEF GoesOn
    <3> QED
      BY <2>1, <2>3, <3>1, <3>2 DEF OpenFits
  <2> HIDE DEF rested
  <2>6. ASSUME GoesOn(closed, e, tried), closed.try.closed, closed.try.close_time <= e.expiry,
               closed.try.filled # 0, closed.try.resting
        PROVE  Fits(new)
    <3> HIDE DEF closed
    <3> DEFINE late == IF hedged.try.hedged = Probe!Leg \ {p.entry.leg} THEN Probe!Settle(hedged)
                       ELSE hedged
    <3>1. ScenarioFits(late, e, tried, late.account.halted, time, d)
      BY <2>6, HedgedFits
    <3>2. ~closed.try.done
      BY <2>6 DEF GoesOn
    <3>3. new = late
      <4> HIDE DEF hedged
      <4> QED
        BY <1>0, <1>3, <2>6, <3>2
    <3> HIDE DEF late
    <3>4. ScenarioFits(late, e, tried, stopped \/ late.account.halted, time, d)
      BY <3>1 DEF ScenarioFits
    <3> QED
      BY <3>3, <3>4
  <2>7. CASE ~rested.try.closed /\ ~(time >= e.expiry)
    <3>1. closed = rested /\ new = rested
      <4>1. closed = rested
        BY <2>7
      <4> QED
        BY <1>0, <1>3, <2>7, <4>1
    <3>2. OpenFits(rested, e, time, d)
      BY <2>4, <2>5, <2>7 DEF OpenFits
    <3>3. ScenarioFits(rested, e, tried, stopped, time, d)
      BY <2>3, <3>2, OpenRuns DEF GoesOn
    <3>4. ScenarioFits(rested, e, tried, stopped \/ rested.account.halted, time, d)
      BY <3>3 DEF ScenarioFits
    <3> QED
      BY <3>1, <3>4 DEF new
  <2>8. CASE ~rested.try.closed /\ time >= e.expiry
    <3>1. closed = Probe!CloseEntry(rested, e.expiry)
      BY <2>8
    <3> HIDE DEF closed
    <3>2. CASE rested.try.filled = 0
      <4>0. LET shut == Probe!CloseEntry(rested, e.expiry)
            IN  shut.try.done /\ ScenarioFits(shut, e, tried, FALSE, time, d)
        BY <2>3, <2>4, <3>2, CloseEntryFits
      <4>1. closed.try.done /\ ScenarioFits(closed, e, tried, FALSE, time, d)
        BY <3>1, <4>0
      <4>2. new = closed
        BY <1>0, <1>3, <4>1
      <4>3. ScenarioFits(closed, e, tried, stopped \/ closed.account.halted, time, d)
        BY <4>1 DEF ScenarioFits
      <4> QED
        BY <4>2, <4>3 DEF new
    <3>3. CASE rested.try.filled # 0
      <4>1. /\ GoesOn(closed, e, tried) /\ closed.try.closed /\ closed.try.close_time = e.expiry
            /\ closed.try.resting = rested.try.resting /\ closed.try.filled = rested.try.filled
        BY <2>3, <2>4, <3>1, <3>3, CloseFilledRuns
      <4>2. rested.try.resting
        BY <2>5, <3>3 DEF OpenFits
      <4>3. closed.try.close_time <= e.expiry
        BY <2>4, <4>1
      <4>4. closed.try.resting /\ closed.try.filled # 0 /\ closed.try.closed /\ GoesOn(closed, e, tried)
        BY <3>3, <4>1, <4>2
      <4>5. Fits(new)
        BY <2>6, <4>3, <4>4
      <4> QED
        BY <4>5 DEF new
    <3> QED
      BY <3>2, <3>3
  <2>9. CASE rested.try.closed
    <3>1. closed = rested
      BY <2>9
    <3>2. rested.try.filled # 0 /\ rested.try.close_time <= e.expiry /\ rested.try.resting
      <4>1. rested.try.filled > 0 /\ rested.try.close_time <= e.expiry
        BY <2>5, <2>9 DEF OpenFits
      <4>2. rested.try.filled # 0
        BY <4>1
      <4> QED
        BY <2>5, <4>1, <4>2 DEF OpenFits
    <3> HIDE DEF closed
    <3>3. Fits(new)
      BY <2>3, <2>9, <2>6, <3>1, <3>2
    <3> QED
      BY <3>3 DEF new
  <2> QED
    BY <2>7, <2>8, <2>9
<1> QED
  BY <1>1, <1>2, <1>3

\* What a trade fills of an order is paid at once, within the cash set aside for the order.
LEMMA BoughtRuns ==
  ASSUME NEW sc, NEW e \in ProbeEntry, NEW tried, NEW time, NEW delay,
         GoesOn(sc, e, tried), OpenFits(sc, e, time, delay), InitialCash \in Nat,
         ~sc.try.closed, sc.try.resting, NEW x \in Nat, x # 0, x <= e.quantity - sc.try.filled
  PROVE  LET new == [sc EXCEPT !.try.filled = @ + x, !.try.holdings[e.leg] = @ + x,
                               !.try.debit = @ + x, !.account.cash = @ - x, !.account.spent = @ + x]
         IN  /\ GoesOn(new, e, tried) /\ OpenFits(new, e, time, delay)
             /\ new.try.filled = sc.try.filled + x /\ ~new.try.closed /\ new.try.resting
<1> DEFINE a == sc.account
           t == sc.try
           n == t.filled + x
           cash == a.cash - x
           spent == a.spent + x
           debit == t.debit + x
           holdings == [t.holdings EXCEPT ![e.leg] = @ + x]
           b == [a EXCEPT !.cash = cash, !.spent = spent]
           u == [t EXCEPT !.filled = n, !.holdings = holdings, !.debit = debit]
           new == [sc EXCEPT !.try.filled = @ + x, !.try.holdings[e.leg] = @ + x,
                             !.try.debit = @ + x, !.account.cash = @ - x, !.account.spent = @ + x]
<1>1. /\ sc \in ProbeScenario /\ ~t.done /\ ~a.halted /\ Inventory(t, e)
      /\ AccountFits(a, t, TRUE, tried)
  BY DEF GoesOn
<1>2. /\ a \in ProbeAccount /\ t \in ProbeTry /\ a.cash \in Nat /\ a.spent \in Nat /\ a.floor \in Nat
      /\ a.conditional_margin \in Int /\ t.filled \in Nat /\ t.debit \in Nat
      /\ t.holdings \in [Probe!Leg -> Nat] /\ sc = [account |-> a, try |-> t]
  BY <1>1, ProbeFields
<1>3. /\ e.quantity \in Nat /\ e.leg \in Probe!Leg /\ e.leg \in {1, 2, 3}
  BY DEF ProbeEntry, Probe!Leg
<1>4. t.hedged = {} /\ time <= e.expiry /\ e.quantity - t.filled <= a.cash
  BY DEF OpenFits
<1>5. n \in Nat /\ cash \in Nat /\ spent \in Nat /\ debit \in Nat /\ n <= e.quantity
      /\ e.quantity - n <= cash /\ cash + spent = a.cash + a.spent /\ spent - debit = a.spent - t.debit
  BY <1>2, <1>3, <1>4
<1>6. holdings \in [Probe!Leg -> Nat] /\ holdings[e.leg] = t.holdings[e.leg] + x
      /\ \A k \in Probe!Leg : k # e.leg => holdings[k] = t.holdings[k]
  <2>1. t.holdings[e.leg] \in Nat
    BY <1>2, <1>3
  <2> QED
    BY <1>2, <1>3, <2>1
<1>7. new = [sc EXCEPT !.account = b, !.try = u]
  BY <1>2 DEF ProbeAccount, ProbeTry
<1> HIDE DEF n, cash, spent, debit, holdings, new
<1>8. /\ b \in ProbeAccount /\ b.cash = cash /\ b.spent = spent /\ b.floor = a.floor
      /\ b.conditional_margin = a.conditional_margin /\ b.halted = a.halted
      /\ b.completed = a.completed /\ b.empty = a.empty /\ b.censored = a.censored
      /\ b.residual = a.residual
  BY <1>2, <1>5 DEF ProbeAccount
<1>9. /\ u \in ProbeTry /\ u.filled = n /\ u.holdings = holdings /\ u.debit = debit
      /\ u.hedged = t.hedged /\ u.done = t.done /\ u.closed = t.closed /\ u.resting = t.resting
  BY <1>2, <1>5, <1>6 DEF ProbeTry
<1> HIDE DEF b, u
<1>10. new \in ProbeScenario /\ new.account = b /\ new.try = u
  BY <1>1, <1>7, <1>8, <1>9 DEF ProbeScenario
<1>11. Inventory(u, e)
  <2>1. t.holdings[e.leg] = t.filled /\ (\A k \in Probe!Leg : k # e.leg => t.holdings[k] = 0)
        /\ t.debit = Probe!Held(t)
    BY <1>4 DEF Inventory, GoesOn
  <2>2. holdings[e.leg] = n /\ (\A k \in Probe!Leg : k # e.leg => holdings[k] = 0)
    BY <1>6, <2>1 DEF n
  <2>3. debit = holdings[1] + holdings[2] + holdings[3]
    <3> DEFINE h1 == holdings[1]
               h2 == holdings[2]
               h3 == holdings[3]
    <3>1. t.debit = t.filled
      <4>1. t.debit = t.holdings[1] + t.holdings[2] + t.holdings[3]
        BY <2>1 DEF Probe!Held
      <4> DEFINE g1 == t.holdings[1]
                 g2 == t.holdings[2]
                 g3 == t.holdings[3]
      <4>2. \/ g1 = t.filled /\ g2 = 0 /\ g3 = 0
            \/ g1 = 0 /\ g2 = t.filled /\ g3 = 0
            \/ g1 = 0 /\ g2 = 0 /\ g3 = t.filled
        BY <1>3, <2>1 DEF Probe!Leg
      <4>3. t.debit = g1 + g2 + g3
        BY <4>1
      <4> HIDE DEF g1, g2, g3
      <4> QED
        BY <1>2, <4>2, <4>3
    <3>2. \/ h1 = n /\ h2 = 0 /\ h3 = 0
          \/ h1 = 0 /\ h2 = n /\ h3 = 0
          \/ h1 = 0 /\ h2 = 0 /\ h3 = n
      BY <1>3, <2>2 DEF Probe!Leg
    <3>3. debit = n
      BY <3>1 DEF debit, n
    <3> HIDE DEF h1, h2, h3
    <3>4. debit = h1 + h2 + h3
      BY <1>5, <3>2, <3>3
    <3> QED
      BY <3>4 DEF h1, h2, h3
  <2>4. u.debit = Probe!Held(u)
    BY <1>9, <2>3 DEF Probe!Held
  <2>5. \A k \in Probe!Leg : u.holdings[k] <= u.filled
    BY <1>5, <1>9, <2>2
  <2> QED
    BY <1>4, <1>5, <1>9, <2>2, <2>4, <2>5 DEF Inventory
<1>12. AccountFits(b, u, TRUE, tried)
  <2>1. a.conditional_margin = a.floor - a.spent + t.debit /\ a.cash + a.spent = InitialCash
    BY <1>1 DEF AccountFits
  <2>2. b.conditional_margin = b.floor - b.spent + u.debit /\ b.cash + b.spent = InitialCash
    <3>1. a.spent \in Nat /\ a.floor \in Nat /\ t.debit \in Nat
      BY <1>2
    <3>2. b.conditional_margin = a.floor - a.spent + t.debit /\ b.floor = a.floor /\ b.spent = spent
          /\ u.debit = debit /\ b.cash = cash
      BY <1>8, <1>9, <2>1
    <3>3. b.conditional_margin = b.floor - b.spent + u.debit
      BY <1>5, <3>1, <3>2
    <3> QED
      BY <1>5, <2>1, <3>2, <3>3
  <2> QED
    BY <1>1, <1>8, <2>2 DEF AccountFits
<1>13. GoesOn(new, e, tried)
  <2>1. Inventory(new.try, e) /\ AccountFits(new.account, new.try, TRUE, tried)
    BY <1>10, <1>11, <1>12
  <2> QED
    BY <1>1, <1>8, <1>9, <1>10, <2>1 DEF GoesOn
<1>14. OpenFits(new, e, time, delay)
  <2>1. Inventory(new.try, e)
    BY <1>10, <1>11
  <2> QED
    BY <1>1, <1>4, <1>5, <1>8, <1>9, <1>10, <2>1 DEF OpenFits
<1> QED
  BY <1>9, <1>10, <1>13, <1>14 DEF n, new

\* A trade on the open orders.
LEMMA FillScenarioFits ==
  ASSUME NEW p, NEW s, NEW e \in ProbeEntry, p.entry = e, NEW tried \in Nat, NEW stopped \in BOOLEAN,
         NEW time \in Nat, HedgeDelay[s] \in Nat \ {0}, InitialCash \in Nat, Cap \in Nat, NEW x \in Nat,
         ScenarioFits(p.scenarios[s], e, tried, stopped, time, HedgeDelay[s]),
         x = 0 \/ Probe!Fillable(p, s), x = 0 \/ x <= Probe!Smaller(e.quantity - p.scenarios[s].try.filled, Cap)
  PROVE  LET new == Probe!FillScenario(p, s, x, time)
         IN  /\ ScenarioFits(new, e, tried, stopped, time, HedgeDelay[s])
             /\ new.try.done = p.scenarios[s].try.done
<1> DEFINE sc == p.scenarios[s]
           d == HedgeDelay[s]
           bought == [sc EXCEPT !.try.filled = @ + x, !.try.holdings[e.leg] = @ + x,
                                !.try.debit = @ + x, !.account.cash = @ - x, !.account.spent = @ + x]
           new == Probe!FillScenario(p, s, x, time)
<1>0. new = IF x = 0 THEN sc
            ELSE IF bought.try.filled = e.quantity THEN Probe!CloseEntry(bought, time) ELSE bought
  BY DEF Probe!FillScenario
<1> HIDE DEF new
<1>1. CASE x = 0
  BY <1>0, <1>1 DEF new
<1>2. CASE x # 0
  <2>1. sc.try.resting /\ ~sc.try.done /\ ~sc.try.closed
    BY <1>2 DEF Probe!Fillable
  <2>2. GoesOn(sc, e, tried) /\ OpenFits(sc, e, time, d) /\ (sc.account.halted => stopped)
    BY <2>1, OpenRuns DEF ScenarioFits
  <2>3. sc \in ProbeScenario /\ sc.try.filled \in Nat
    BY <2>2, ProbeFields DEF GoesOn
  <2>4. x <= e.quantity - sc.try.filled
    <3>1. e.quantity \in Nat
      BY DEF ProbeEntry
    <3>2. x <= Probe!Smaller(e.quantity - sc.try.filled, Cap)
      BY <1>2
    <3> QED
      BY <2>3, <3>1, <3>2 DEF Probe!Smaller
  <2>5. /\ GoesOn(bought, e, tried) /\ OpenFits(bought, e, time, d)
        /\ bought.try.filled = sc.try.filled + x /\ ~bought.try.closed /\ bought.try.resting
    <3> HIDE DEF sc, d
    <3> QED
      BY <1>2, <2>1, <2>2, <2>4, BoughtRuns
  <2> HIDE DEF bought
  <2>6. CASE bought.try.filled = e.quantity
    <3>1. new = Probe!CloseEntry(bought, time)
      BY <1>0, <1>2, <2>6
    <3>2. bought.try.filled # 0
      BY <1>2, <2>3, <2>5
    <3>3. /\ GoesOn(new, e, tried) /\ new.try.closed /\ new.try.close_time = time
          /\ new.try.hedged = bought.try.hedged /\ new.try.resting = bought.try.resting
          /\ new.try.filled = bought.try.filled /\ new.account = bought.account
      <4>1. GoesOn(bought, e, tried)
        BY <2>5
      <4> QED
        BY <3>1, <3>2, <4>1, CloseFilledRuns
    <3>4. OpenFits(new, e, time, d)
      <4>1. time <= e.expiry
        BY <2>5 DEF OpenFits
      <4>2. new.try.filled > 0
        BY <1>2, <2>3, <2>5, <3>3
      <4>3. time < time + 2 * d
        OBVIOUS
      <4>4. Inventory(new.try, e) /\ ~new.account.halted
        BY <3>3 DEF GoesOn
      <4> HIDE DEF d
      <4> QED
        BY <2>5, <3>3, <4>1, <4>2, <4>3, <4>4 DEF OpenFits
    <3>5. ScenarioFits(new, e, tried, stopped, time, d)
      <4>1. ~new.try.done /\ ~new.account.halted
        BY <3>3 DEF GoesOn
      <4> QED
        BY <3>3, <3>4, <4>1, OpenRuns
    <3>6. new.try.done = sc.try.done
      BY <2>1, <2>3, <3>3, ProbeFields DEF GoesOn
    <3> QED
      BY <3>5, <3>6 DEF new
  <2>7. CASE bought.try.filled # e.quantity
    <3>1. new = bought
      BY <1>0, <1>2, <2>7
    <3>2. ScenarioFits(new, e, tried, stopped, time, d)
      <4>1. ~new.try.done
        BY <2>5, <3>1 DEF GoesOn
      <4> QED
        BY <2>5, <3>1, <4>1, OpenRuns
    <3>3. new.try.done = sc.try.done
      BY <2>1, <2>3, <2>5, <3>1, ProbeFields DEF GoesOn
    <3> QED
      BY <3>2, <3>3 DEF new
  <2> QED
    BY <2>6, <2>7
<1> QED
  BY <1>1, <1>2

\* A new attempt that the cash of a scenario can pay.
LEMMA FreshFits ==
  ASSUME NEW sc, NEW tried \in Nat, NEW stopped \in BOOLEAN, ~stopped, NEW last, NEW delay \in Nat,
         InitialCash \in Nat,
         ScenarioFits(sc, Probe!NoEntry, tried, stopped, last, delay),
         NEW e \in ProbeEntry, e.quantity <= sc.account.cash, NEW time \in Nat, time <= e.expiry
  PROVE  LET new == [sc EXCEPT !.try = Probe!FreshAttempt]
         IN  ~new.try.done /\ ScenarioFits(new, e, tried + 1, stopped, time, delay)
<1> DEFINE new == [sc EXCEPT !.try = Probe!FreshAttempt]
           f == Probe!FreshAttempt
           a == sc.account
<1>1. sc \in ProbeScenario /\ ~a.halted /\ AccountFits(a, sc.try, FALSE, tried)
  BY DEF ScenarioFits
<1>2. /\ f \in ProbeTry /\ ~f.done /\ ~f.closed /\ ~f.resting /\ f.filled = 0 /\ f.debit = 0
      /\ f.hedged = {} /\ f.holdings = [l \in Probe!Leg |-> 0]
  BY DEF Probe!FreshAttempt, ProbeTry
<1>3. new \in ProbeScenario /\ new.account = a /\ new.try = f
  <2> HIDE DEF f
  <2>1. new = [sc EXCEPT !.try = f]
    BY DEF f
  <2> QED
    BY <1>1, <1>2, <2>1 DEF ProbeScenario
<1> HIDE DEF f, new
<1>4. e.quantity \in Nat /\ e.leg \in Probe!Leg
  BY DEF ProbeEntry
<1>5. Inventory(f, e)
  <2>1. \A l \in Probe!Leg : f.holdings[l] = 0
    BY <1>2
  <2>2. f.debit = Probe!Held(f)
    BY <1>2, <2>1 DEF Probe!Held, Probe!Leg
  <2> QED
    BY <1>2, <1>4, <2>1, <2>2 DEF Inventory
<1>6. AccountFits(a, f, TRUE, tried + 1)
  <2>1. /\ a.cash \in Nat /\ a.spent \in Nat /\ a.floor \in Nat /\ a.conditional_margin \in Int
        /\ a.completed \in Nat /\ a.empty \in Nat /\ a.censored \in Nat
    BY <1>1, ProbeFields
  <2>2. a.completed + a.empty + a.censored + 0 = tried
    BY <1>1 DEF AccountFits
  <2>3. a.completed + a.empty + a.censored + 1 = tried + 1
    BY <2>1, <2>2
  <2>4. a.conditional_margin = a.floor - a.spent + f.debit
    BY <1>1, <1>2 DEF AccountFits
  <2> QED
    BY <1>1, <2>3, <2>4 DEF AccountFits
<1>7. GoesOn(new, e, tried + 1) /\ ~new.try.done
  <2>1. Inventory(new.try, e) /\ AccountFits(new.account, new.try, TRUE, tried + 1)
    BY <1>3, <1>5, <1>6
  <2> QED
    BY <1>1, <1>2, <1>3, <2>1 DEF GoesOn
<1>8. OpenFits(new, e, time, delay)
  <2>1. Inventory(new.try, e)
    BY <1>3, <1>5
  <2>2. e.quantity - f.filled <= a.cash
    BY <1>2, <1>4
  <2> QED
    BY <1>1, <1>2, <1>3, <2>1, <2>2 DEF OpenFits
<1> QED
  BY <1>7, <1>8, OpenRuns DEF new

\* The state a record is worked through on.
ProbeState ==
  [entry : ProbeEntry \cup {Probe!NoEntry}, scenarios : [Scenario -> ProbeScenario],
   markets : [Probe!Leg -> ProbeBook], attempts : Nat, ended : BOOLEAN, halted : BOOLEAN,
   expired : BOOLEAN, continuity_failed : BOOLEAN, generation : Nat]

ProbeFits(p, time) ==
  /\ p \in ProbeState
  /\ \A s \in Scenario :
       ScenarioFits(p.scenarios[s], p.entry, p.attempts, p.halted, time, HedgeDelay[s])
  /\ p.entry # Probe!NoEntry => \E s \in Scenario : ~p.scenarios[s].try.done
  /\ p.expired \/ p.continuity_failed => p.entry = Probe!NoEntry

\* What every step but select() leaves: the attempts, and that the probe has stopped.
SameCount(new, old) == new.attempts = old.attempts /\ (old.halted => new.halted)
SameEnds(new, old) ==
  new.expired = old.expired /\ new.continuity_failed = old.continuity_failed

\* The fields of the state of a record.
LEMMA ProbeStateFields ==
  ASSUME NEW p \in ProbeState
  PROVE  /\ p.entry \in ProbeEntry \cup {Probe!NoEntry} /\ p.scenarios \in [Scenario -> ProbeScenario]
         /\ p.markets \in [Probe!Leg -> ProbeBook] /\ p.attempts \in Nat /\ p.ended \in BOOLEAN
         /\ p.halted \in BOOLEAN /\ p.expired \in BOOLEAN /\ p.continuity_failed \in BOOLEAN
         /\ p.generation \in Nat
  BY DEF ProbeState

\* Time does nothing to a probe without an order.
LEMMA IdleFits ==
  ASSUME NEW p, NEW time, NEW later, ProbeFits(p, time), p.entry = Probe!NoEntry
  PROVE  ProbeFits(p, later)
  BY DEF ProbeFits, ScenarioFits

\* Books that grow old are books.
LEMMA OlderFits ==
  ASSUME NEW books \in [Probe!Leg -> ProbeBook]
  PROVE  Probe!Older(books) \in [Probe!Leg -> ProbeBook]
<1>1. \A l \in Probe!Leg : [books[l] EXCEPT !.newer = FALSE] \in ProbeBook
  BY DEF ProbeBook
<1> QED
  BY <1>1 DEF Probe!Older

\* censor() ends the attempt in every scenario.
LEMMA CensorFits ==
  ASSUME Probe!ProbeConstants, NEW p, NEW time \in Nat, NEW later \in Nat, ProbeFits(p, time)
  PROVE  LET new == Probe!Censor(p)
         IN  ProbeFits(new, later) /\ new.entry = Probe!NoEntry /\ SameCount(new, p) /\ SameEnds(new, p)
<1>1. CASE p.entry = Probe!NoEntry
  <2>1. Probe!Censor(p) = p
    BY <1>1 DEF Probe!Censor
  <2> QED
    BY <1>1, <2>1, IdleFits DEF SameCount, SameEnds
<1>2. CASE p.entry # Probe!NoEntry
  <2> DEFINE lost == p.halted \/ \E s \in Scenario : ~p.scenarios[s].try.done
                                                    /\ p.scenarios[s].try.filled # 0
             after == [s \in Scenario |-> Probe!CensorScenario(p.scenarios[s])]
             books == Probe!Older(p.markets)
             new == Probe!Censor(p)
  <2>1. p \in ProbeState /\ p.entry \in ProbeEntry
    BY <1>2, ProbeStateFields DEF ProbeFits
  <2>2. \A s \in Scenario : HedgeDelay[s] \in Nat
    BY DEF Probe!ProbeConstants
  <2>3. p.attempts \in Nat /\ p.halted \in BOOLEAN /\ p.scenarios \in [Scenario -> ProbeScenario]
        /\ p.markets \in [Probe!Leg -> ProbeBook]
    BY <2>1, ProbeStateFields
  <2>4. lost \in BOOLEAN /\ (p.halted => lost)
    BY <2>3
  <2>5. \A s \in Scenario :
          ScenarioFits(after[s], Probe!NoEntry, p.attempts, lost, later, HedgeDelay[s])
    <3> SUFFICES ASSUME NEW s \in Scenario
                 PROVE  ScenarioFits(Probe!CensorScenario(p.scenarios[s]), Probe!NoEntry, p.attempts,
                                     lost, later, HedgeDelay[s])
      OBVIOUS
    <3>1. ScenarioFits(p.scenarios[s], p.entry, p.attempts, p.halted, time, HedgeDelay[s])
      BY DEF ProbeFits
    <3>2. ~p.scenarios[s].try.done /\ p.scenarios[s].try.filled # 0 => lost
      OBVIOUS
    <3> HIDE DEF lost
    <3> QED
      BY <2>1, <2>2, <2>3, <2>4, <3>1, <3>2, CensorScenarioFits
  <2>6. new = [p EXCEPT !.scenarios = after, !.halted = lost, !.entry = Probe!NoEntry, !.ended = TRUE,
                        !.markets = books]
    BY <1>2 DEF Probe!Censor
  <2>7. after \in [Scenario -> ProbeScenario] /\ books \in [Probe!Leg -> ProbeBook]
    <3>1. \A s \in Scenario : after[s] \in ProbeScenario
      BY <2>5 DEF ScenarioFits
    <3>2. books \in [Probe!Leg -> ProbeBook]
      BY <2>3, OlderFits
    <3> QED
      BY <3>1, <3>2
  <2> HIDE DEF lost, after, books, new
  <2>8. /\ new \in ProbeState /\ new.entry = Probe!NoEntry /\ new.scenarios = after
        /\ new.halted = lost /\ new.attempts = p.attempts /\ new.expired = p.expired
        /\ new.continuity_failed = p.continuity_failed
    BY <2>1, <2>4, <2>6, <2>7 DEF ProbeState
  <2>9. ProbeFits(new, later)
    BY <2>5, <2>8 DEF ProbeFits
  <2> QED
    BY <2>4, <2>8, <2>9 DEF SameCount, SameEnds, new
<1> QED
  BY <1>1, <1>2

\* Cached books that are dropped are no longer used.
LEMMA ClearFits ==
  ASSUME NEW p, NEW time, ProbeFits(p, time)
  PROVE  LET new == Probe!Clear(p)
         IN  ProbeFits(new, time) /\ new.entry = p.entry /\ SameCount(new, p) /\ SameEnds(new, p)
<1> DEFINE new == Probe!Clear(p)
           books == [l \in Probe!Leg |-> Probe!NoBook]
<1>1. new = [p EXCEPT !.markets = books]
  BY DEF Probe!Clear
<1>2. books \in [Probe!Leg -> ProbeBook]
  BY DEF Probe!NoBook, ProbeBook
<1>3. p \in ProbeState
  BY DEF ProbeFits
<1> HIDE DEF new, books
<1>4. /\ new \in ProbeState /\ new.entry = p.entry /\ new.scenarios = p.scenarios
      /\ new.halted = p.halted /\ new.attempts = p.attempts /\ new.expired = p.expired
      /\ new.continuity_failed = p.continuity_failed
  BY <1>1, <1>2, <1>3 DEF ProbeState
<1>5. ProbeFits(new, time)
  BY <1>4 DEF ProbeFits
<1> QED
  BY <1>4, <1>5 DEF SameCount, SameEnds, new

\* An attempt given up for a reason.
LEMMA CensorIfFits ==
  ASSUME Probe!ProbeConstants, NEW p, NEW time \in Nat, ProbeFits(p, time), NEW reason \in BOOLEAN
  PROVE  LET new == Probe!CensorIf(reason, p)
         IN  /\ ProbeFits(new, time) /\ SameCount(new, p) /\ SameEnds(new, p)
             /\ reason => new.entry = Probe!NoEntry
  BY CensorFits DEF Probe!CensorIf, SameCount, SameEnds

\* An attempt and the books given up for a reason.
LEMMA LoseIfFits ==
  ASSUME Probe!ProbeConstants, NEW p, NEW time \in Nat, ProbeFits(p, time), NEW reason \in BOOLEAN
  PROVE  LET new == Probe!LoseIf(reason, p)
         IN  /\ ProbeFits(new, time) /\ SameCount(new, p) /\ SameEnds(new, p)
             /\ reason => new.entry = Probe!NoEntry
<1>1. CASE ~reason
  BY <1>1 DEF Probe!LoseIf, SameCount, SameEnds
<1>2. CASE reason
  <2> DEFINE mid == Probe!Censor(p)
             new == Probe!Clear(mid)
  <2>1. ProbeFits(mid, time) /\ mid.entry = Probe!NoEntry /\ SameCount(mid, p) /\ SameEnds(mid, p)
    BY CensorFits
  <2> HIDE DEF mid
  <2>2. ProbeFits(new, time) /\ new.entry = mid.entry /\ SameCount(new, mid) /\ SameEnds(new, mid)
    BY <2>1, ClearFits
  <2> HIDE DEF new
  <2>3. Probe!LoseIf(reason, p) = new
    BY <1>2 DEF Probe!LoseIf, new, mid
  <2> QED
    BY <2>1, <2>2, <2>3 DEF SameCount, SameEnds
<1> QED
  BY <1>1, <1>2

\* A break of continuity also stops the probe.
LEMMA BreakIfFits ==
  ASSUME Probe!ProbeConstants, NEW p, NEW time \in Nat, ProbeFits(p, time), NEW reason \in BOOLEAN
  PROVE  LET new == Probe!BreakIf(reason, p)
         IN  ProbeFits(new, time) /\ SameCount(new, p)
<1>1. CASE ~reason
  BY <1>1 DEF Probe!BreakIf, SameCount
<1>2. CASE reason
  <2> DEFINE mid == Probe!Clear(Probe!Censor(p))
             new == Probe!BreakIf(reason, p)
  <2>1. mid = Probe!LoseIf(TRUE, p)
    BY DEF Probe!LoseIf
  <2>2. ProbeFits(mid, time) /\ SameCount(mid, p) /\ mid.entry = Probe!NoEntry
    BY <2>1, LoseIfFits
  <2>3. new = [mid EXCEPT !.continuity_failed = TRUE, !.halted = TRUE]
    BY <1>2 DEF Probe!BreakIf
  <2> HIDE DEF mid, new
  <2>4. mid \in ProbeState
    BY <2>2 DEF ProbeFits
  <2>5. /\ new \in ProbeState /\ new.entry = mid.entry /\ new.scenarios = mid.scenarios
        /\ new.halted = TRUE /\ new.attempts = mid.attempts
    BY <2>3, <2>4 DEF ProbeState
  <2>6. \A s \in Scenario : ScenarioFits(new.scenarios[s], new.entry, new.attempts, TRUE, time, HedgeDelay[s])
    BY <2>2, <2>5 DEF ProbeFits, ScenarioFits
  <2>7. ProbeFits(new, time)
    BY <2>2, <2>5, <2>6 DEF ProbeFits
  <2> QED
    BY <2>2, <2>5, <2>7 DEF SameCount, new
<1> QED
  BY <1>1, <1>2

\* The connection of a record.
ProbeConnection == [connected : BOOLEAN, generation : Nat]

\* What interrupts an attempt keeps the accounts; a probe that is then idle has no order.
LEMMA InterruptedFits ==
  ASSUME Probe!ProbeConstants, NEW p, NEW time \in Nat, NEW conn \in ProbeConnection,
         NEW wall, now \in Nat, connection \in ProbeConnection, ProbeFits(p, now)
  PROVE  LET new == Probe!Interrupted(p, time, conn, wall)
         IN  /\ ProbeFits(new, now) /\ SameCount(new, p)
             /\ Probe!Idle(new, conn) => new.entry = Probe!NoEntry
<1> DEFINE gap == Probe!BreakIf(time - now > MaxGap, p)
           before == Probe!LoseIf(~connection.connected \/ connection.generation # gap.generation, gap)
           jump == Probe!BreakIf(wall = "jump", before)
           censored == Probe!CensorIf(wall = "expired", jump)
           over == [censored EXCEPT !.expired = @ \/ wall = "expired"]
           lost == ~conn.connected \/ conn.generation # over.generation
           final == Probe!LoseIf(lost, over)
           generations == IF lost THEN conn.generation ELSE final.generation
           new == Probe!Interrupted(p, time, conn, wall)
<1>0. new = [final EXCEPT !.generation = IF lost THEN conn.generation ELSE @]
  BY DEF Probe!Interrupted
<1> HIDE DEF new
<1>1. ProbeFits(gap, now) /\ SameCount(gap, p)
  <2>1. (time - now > MaxGap) \in BOOLEAN
    OBVIOUS
  <2> QED
    BY <2>1, BreakIfFits
<1> HIDE DEF gap
<1>2. ProbeFits(before, now) /\ SameCount(before, gap)
  <2>1. (~connection.connected \/ connection.generation # gap.generation) \in BOOLEAN
    BY DEF ProbeConnection
  <2> QED
    BY <1>1, <2>1, LoseIfFits
<1> HIDE DEF before
<1>3. ProbeFits(jump, now) /\ SameCount(jump, before)
  <2>1. (wall = "jump") \in BOOLEAN
    OBVIOUS
  <2> QED
    BY <1>2, <2>1, BreakIfFits
<1> HIDE DEF jump
<1>4. ProbeFits(censored, now) /\ SameCount(censored, jump)
      /\ (wall = "expired" => censored.entry = Probe!NoEntry)
  <2>1. (wall = "expired") \in BOOLEAN
    OBVIOUS
  <2> QED
    BY <1>3, <2>1, CensorIfFits
<1> HIDE DEF censored
<1>5. ProbeFits(over, now) /\ SameCount(over, censored)
  <2> DEFINE ends == censored.expired \/ wall = "expired"
  <2>1. censored \in ProbeState /\ censored.expired \in BOOLEAN
    BY <1>4, ProbeStateFields DEF ProbeFits
  <2>2. ends \in BOOLEAN /\ over = [censored EXCEPT !.expired = ends]
    BY <2>1
  <2>3. ends => censored.entry = Probe!NoEntry
    BY <1>4 DEF ProbeFits
  <2> HIDE DEF ends, over
  <2>4. /\ over \in ProbeState /\ over.entry = censored.entry /\ over.scenarios = censored.scenarios
        /\ over.halted = censored.halted /\ over.attempts = censored.attempts /\ over.expired = ends
        /\ over.continuity_failed = censored.continuity_failed
    BY <2>1, <2>2 DEF ProbeState
  <2>5. ProbeFits(over, now)
    BY <1>4, <2>3, <2>4 DEF ProbeFits
  <2> QED
    BY <2>4, <2>5 DEF SameCount
<1> HIDE DEF over
<1>6. lost \in BOOLEAN
  BY DEF ProbeConnection
<1>7. ProbeFits(final, now) /\ SameCount(final, over) /\ (lost => final.entry = Probe!NoEntry)
  <2> HIDE DEF lost
  <2> QED
    BY <1>5, <1>6, LoseIfFits
<1> HIDE DEF final
<1>8. generations \in Nat
  <2>1. final.generation \in Nat
    BY <1>7, ProbeStateFields DEF ProbeFits
  <2>2. conn.generation \in Nat
    BY DEF ProbeConnection
  <2> QED
    BY <2>1, <2>2
<1>9. new = [final EXCEPT !.generation = generations]
  BY <1>0
<1> HIDE DEF generations
<1>10. /\ new \in ProbeState /\ new.entry = final.entry /\ new.scenarios = final.scenarios
       /\ new.halted = final.halted /\ new.attempts = final.attempts
       /\ new.expired = final.expired /\ new.continuity_failed = final.continuity_failed
  <2>1. final \in ProbeState
    BY <1>7 DEF ProbeFits
  <2> QED
    BY <1>8, <1>9, <2>1 DEF ProbeState
<1>11. ProbeFits(new, now)
  BY <1>7, <1>10 DEF ProbeFits
<1>12. SameCount(new, p)
  BY <1>1, <1>2, <1>3, <1>4, <1>5, <1>7, <1>10 DEF SameCount
<1>13. Probe!Idle(new, conn) => new.entry = Probe!NoEntry
  <2>1. ~conn.connected => new.entry = Probe!NoEntry
    BY <1>7, <1>10
  <2> QED
    BY <1>11, <2>1 DEF Probe!Idle, ProbeFits
<1> QED
  BY <1>11, <1>12, <1>13 DEF new

\* advance() takes every scenario to the time of the record.
LEMMA AdvanceFits ==
  ASSUME Probe!ProbeConstants, NEW p, NEW last \in Nat, NEW time \in Nat, NEW moved \in BOOLEAN,
         ProbeFits(p, last)
  PROVE  LET new == Probe!Advance(p, time, moved)
         IN  ProbeFits(new, time) /\ SameCount(new, p) /\ SameEnds(new, p)
<1>1. CASE p.entry = Probe!NoEntry
  <2>1. Probe!Advance(p, time, moved) = p
    BY <1>1 DEF Probe!Advance
  <2> QED
    BY <1>1, <2>1, IdleFits DEF SameCount, SameEnds
<1>2. CASE p.entry # Probe!NoEntry
  <2> DEFINE after == [s \in Scenario |-> Probe!AdvanceScenario(p, s, time, moved)]
             over == \A s \in Scenario : after[s].try.done
             short == \E s \in Scenario : after[s].account.halted
             halts == p.halted \/ short
             order == IF over THEN Probe!NoEntry ELSE p.entry
             ends == p.ended \/ over
             books == IF over THEN Probe!Older(p.markets) ELSE p.markets
             new == Probe!Advance(p, time, moved)
  <2>1. p \in ProbeState /\ p.entry \in ProbeEntry /\ ~p.expired /\ ~p.continuity_failed
    BY <1>2, ProbeStateFields DEF ProbeFits
  <2>2. p.attempts \in Nat /\ p.halted \in BOOLEAN /\ p.ended \in BOOLEAN
        /\ p.markets \in [Probe!Leg -> ProbeBook] /\ p.scenarios \in [Scenario -> ProbeScenario]
    BY <2>1, ProbeStateFields
  <2>3. InitialCash \in Nat /\ Payout \in Nat /\ \A s \in Scenario : HedgeDelay[s] \in Nat
    BY DEF Probe!ProbeConstants
  <2>4. new = [p EXCEPT !.scenarios = after,
                        !.halted = @ \/ short,
                        !.entry = IF over THEN Probe!NoEntry ELSE @,
                        !.ended = @ \/ over,
                        !.markets = IF over THEN Probe!Older(@) ELSE @]
    <3>1. new = IF p.entry = Probe!NoEntry THEN p
                ELSE [p EXCEPT !.scenarios = after,
                               !.halted = @ \/ short,
                               !.entry = IF over THEN Probe!NoEntry ELSE @,
                               !.ended = @ \/ over,
                               !.markets = IF over THEN Probe!Older(@) ELSE @]
      BY DEF Probe!Advance
    <3> HIDE DEF new, after, over, short
    <3> QED
      BY <1>2, <3>1
  <2>5. \A s \in Scenario :
          ScenarioFits(after[s], p.entry, p.attempts, p.halted \/ after[s].account.halted, time,
                       HedgeDelay[s])
    <3> SUFFICES ASSUME NEW s \in Scenario
                 PROVE  LET x == Probe!AdvanceScenario(p, s, time, moved)
                        IN  ScenarioFits(x, p.entry, p.attempts, p.halted \/ x.account.halted, time,
                                         HedgeDelay[s])
      OBVIOUS
    <3>1. ScenarioFits(p.scenarios[s], p.entry, p.attempts, p.halted, last, HedgeDelay[s])
      BY DEF ProbeFits
    <3> QED
      BY <2>1, <2>2, <2>3, <3>1, AdvanceScenarioFits
  <2>6. after \in [Scenario -> ProbeScenario]
    <3>1. \A s \in Scenario : after[s] \in ProbeScenario
      BY <2>5 DEF ScenarioFits
    <3> QED
      BY <3>1
  <2> HIDE DEF after, new
  <2>7. \A s \in Scenario : after[s].try.done \in BOOLEAN /\ after[s].account.halted \in BOOLEAN
    BY <2>6, ProbeFields
  <2>8. halts \in BOOLEAN /\ ends \in BOOLEAN /\ over \in BOOLEAN
    BY <2>2, <2>7
  <2>9. books \in [Probe!Leg -> ProbeBook]
    BY <2>2, OlderFits
  <2>10. order \in ProbeEntry \cup {Probe!NoEntry}
    BY <2>1
  <2>11. order # Probe!NoEntry => order = p.entry /\ \E s \in Scenario : ~after[s].try.done
    OBVIOUS
  <2>12. order # p.entry => \A s \in Scenario : after[s].try.done
    OBVIOUS
  <2>13. /\ p.halted => halts
         /\ \A s \in Scenario : after[s].account.halted => halts
    OBVIOUS
  <2>14. /\ new \in ProbeState /\ new.entry = order /\ new.scenarios = after
         /\ new.halted = halts /\ new.attempts = p.attempts /\ new.expired = p.expired
         /\ new.continuity_failed = p.continuity_failed
    <3> HIDE DEF over, short
    <3> QED
      BY <2>1, <2>2, <2>4, <2>6, <2>8, <2>9, <2>10 DEF ProbeState
  <2> HIDE DEF halts, over, ends, books, order
  <2>15. \A s \in Scenario : ScenarioFits(after[s], order, p.attempts, halts, time, HedgeDelay[s])
    <3> SUFFICES ASSUME NEW s \in Scenario
                 PROVE  ScenarioFits(after[s], order, p.attempts, halts, time, HedgeDelay[s])
      OBVIOUS
    <3>1. ScenarioFits(after[s], p.entry, p.attempts, halts, time, HedgeDelay[s])
      BY <2>5, <2>13 DEF ScenarioFits
    <3>2. CASE order = p.entry
      BY <3>1, <3>2
    <3>3. CASE order # p.entry
      <4>1. after[s].try.done
        BY <2>12, <3>3
      <4> QED
        BY <3>1, <4>1 DEF ScenarioFits
    <3> QED
      BY <3>2, <3>3
  <2>16. ProbeFits(new, time)
    BY <2>1, <2>11, <2>14, <2>15 DEF ProbeFits
  <2> QED
    BY <2>13, <2>14, <2>16 DEF SameCount, SameEnds, new
<1> QED
  BY <1>1, <1>2

\* The cached books are in no account.
LEMMA BooksFit ==
  ASSUME NEW p, NEW time, ProbeFits(p, time), NEW books \in [Probe!Leg -> ProbeBook]
  PROVE  LET new == [p EXCEPT !.markets = books]
         IN  ProbeFits(new, time) /\ SameCount(new, p) /\ SameEnds(new, p)
<1> DEFINE new == [p EXCEPT !.markets = books]
<1>1. p \in ProbeState
  BY DEF ProbeFits
<1>2. /\ new \in ProbeState /\ new.entry = p.entry /\ new.scenarios = p.scenarios
      /\ new.halted = p.halted /\ new.attempts = p.attempts /\ new.expired = p.expired
      /\ new.continuity_failed = p.continuity_failed
  BY <1>1 DEF ProbeState
<1> HIDE DEF new
<1>3. ProbeFits(new, time)
  BY <1>2 DEF ProbeFits
<1> QED
  BY <1>2, <1>3 DEF SameCount, SameEnds, new

\* A book update changes one cached book.
LEMMA UpdatedFits ==
  ASSUME Probe!ProbeConstants, NEW p, NEW time, ProbeFits(p, time), NEW l \in Probe!Leg,
         NEW depth \in 0..Cap
  PROVE  LET new == Probe!Updated(p, l, depth)
         IN  ProbeFits(new, time) /\ SameCount(new, p) /\ SameEnds(new, p)
<1> DEFINE book == [valid |-> TRUE, newer |-> ~p.ended, depth |-> depth]
           books == [p.markets EXCEPT ![l] = book]
<1>1. p \in ProbeState /\ p.ended \in BOOLEAN /\ p.markets \in [Probe!Leg -> ProbeBook]
  BY ProbeStateFields DEF ProbeFits
<1>2. book \in ProbeBook
  <2>1. depth \in Nat
    BY DEF Probe!ProbeConstants
  <2> QED
    BY <1>1, <2>1 DEF ProbeBook
<1>3. Probe!Updated(p, l, depth) = [p EXCEPT !.markets = books]
  BY <1>1 DEF Probe!Updated, ProbeState
<1> HIDE DEF book
<1>4. books \in [Probe!Leg -> ProbeBook]
  BY <1>1, <1>2
<1> HIDE DEF books
<1> QED
  BY <1>3, <1>4, BooksFit

\* A book that turns out invalid.
LEMMA InvalidBookFits ==
  ASSUME NEW p, NEW time, ProbeFits(p, time), NEW l \in Probe!Leg
  PROVE  LET new == [p EXCEPT !.markets[l] = Probe!NoBook]
         IN  ProbeFits(new, time) /\ SameCount(new, p)
<1> DEFINE books == [p.markets EXCEPT ![l] = Probe!NoBook]
<1>1. p \in ProbeState /\ p.markets \in [Probe!Leg -> ProbeBook]
  BY ProbeStateFields DEF ProbeFits
<1>2. Probe!NoBook \in ProbeBook
  BY DEF Probe!NoBook, ProbeBook
<1>3. [p EXCEPT !.markets[l] = Probe!NoBook] = [p EXCEPT !.markets = books]
  BY <1>1 DEF ProbeState
<1>4. books \in [Probe!Leg -> ProbeBook]
  BY <1>1, <1>2
<1> HIDE DEF books
<1> QED
  BY <1>3, <1>4, BooksFit

\* A trade fills open orders.
LEMMA TradedFits ==
  ASSUME Probe!ProbeConstants, NEW p, NEW time \in Nat, ProbeFits(p, time), NEW fills \in Probe!Fills(p)
  PROVE  LET new == Probe!Traded(p, fills, time)
         IN  ProbeFits(new, time) /\ SameCount(new, p)
<1> DEFINE after == [s \in Scenario |-> Probe!FillScenario(p, s, fills[s], time)]
           new == Probe!Traded(p, fills, time)
<1>1. p \in ProbeState /\ p.attempts \in Nat /\ p.halted \in BOOLEAN
      /\ p.scenarios \in [Scenario -> ProbeScenario]
  BY ProbeStateFields DEF ProbeFits
<1>2. InitialCash \in Nat /\ Cap \in Nat /\ \A s \in Scenario : HedgeDelay[s] \in Nat \ {0}
  BY DEF Probe!ProbeConstants
<1>3. ASSUME NEW s \in Scenario
      PROVE  /\ ScenarioFits(after[s], p.entry, p.attempts, p.halted, time, HedgeDelay[s])
             /\ after[s].try.done = p.scenarios[s].try.done
  <2>1. ScenarioFits(p.scenarios[s], p.entry, p.attempts, p.halted, time, HedgeDelay[s])
    BY DEF ProbeFits
  <2>2. /\ fills[s] \in Nat /\ (fills[s] = 0 \/ Probe!Fillable(p, s))
        /\ fills[s] = 0
             \/ fills[s] <= Probe!Smaller(p.entry.quantity - p.scenarios[s].try.filled, Cap)
    BY <1>2 DEF Probe!Fills
  <2>3. CASE p.entry = Probe!NoEntry
    <3>1. fills[s] = 0
      BY <2>2, <2>3 DEF Probe!Fillable
    <3>2. after[s] = p.scenarios[s]
      BY <3>1 DEF Probe!FillScenario
    <3> HIDE DEF after
    <3> QED
      BY <2>1, <3>2
  <2>4. CASE p.entry # Probe!NoEntry
    <3> DEFINE x == Probe!FillScenario(p, s, fills[s], time)
    <3>1. p.entry \in ProbeEntry
      BY <1>1, <2>4, ProbeStateFields
    <3>2. /\ ScenarioFits(x, p.entry, p.attempts, p.halted, time, HedgeDelay[s])
          /\ x.try.done = p.scenarios[s].try.done
      BY <1>1, <1>2, <2>1, <2>2, <3>1, FillScenarioFits
    <3>3. after[s] = x
      OBVIOUS
    <3> HIDE DEF after, x
    <3> QED
      BY <3>2, <3>3
  <2> QED
    BY <2>3, <2>4
<1>4. new = [p EXCEPT !.scenarios = after]
  BY DEF Probe!Traded
<1>5. after \in [Scenario -> ProbeScenario]
  <2>1. \A s \in Scenario : after[s] \in ProbeScenario
    BY <1>3 DEF ScenarioFits
  <2> QED
    BY <2>1
<1> HIDE DEF after, new
<1>6. /\ new \in ProbeState /\ new.entry = p.entry /\ new.scenarios = after
      /\ new.halted = p.halted /\ new.attempts = p.attempts /\ new.expired = p.expired
      /\ new.continuity_failed = p.continuity_failed
  BY <1>1, <1>4, <1>5 DEF ProbeState
<1>7. ProbeFits(new, time)
  BY <1>3, <1>6 DEF ProbeFits
<1> QED
  BY <1>6, <1>7 DEF SameCount, new

\* An attempt that select() starts.
LEMMA SelectionFits ==
  ASSUME Probe!ProbeConstants, NEW p, NEW time \in Nat, ProbeFits(p, time), ~p.expired,
         ~p.continuity_failed, NEW q \in Probe!Selections(p, time)
  PROVE  ProbeFits(q, time) /\ (p.halted => q.attempts = p.attempts)
<1>1. CASE q = p
  BY <1>1
<1>2. CASE q # p
  <2>1. /\ p.entry = Probe!NoEntry /\ ~p.halted
        /\ \E l \in Probe!Leg, n \in Probe!Affordable(p) : q = Probe!Attempt(p, l, n, time)
    <3>1. Probe!MaySelect(p)
      BY <1>2 DEF Probe!Selections
    <3>2. \E l \in Probe!Leg, n \in Probe!Affordable(p) : q = Probe!Attempt(p, l, n, time)
      BY <1>2 DEF Probe!Selections
    <3> QED
      BY <3>1, <3>2 DEF Probe!MaySelect
  <2>2. PICK l \in Probe!Leg, n \in Probe!Affordable(p) : q = Probe!Attempt(p, l, n, time)
    BY <2>1
  <2> DEFINE e == [leg |-> l, quantity |-> n, activation |-> time + EntryDelay,
                   expiry |-> time + EntryDelay + RestTime]
             tried == p.attempts + 1
             after == [s \in Scenario |-> [p.scenarios[s] EXCEPT !.try = Probe!FreshAttempt]]
  <2>3. q = [p EXCEPT !.entry = e, !.attempts = tried, !.scenarios = after]
    BY <2>2 DEF Probe!Attempt
  <2>4. p \in ProbeState /\ p.attempts \in Nat /\ p.halted \in BOOLEAN
        /\ p.scenarios \in [Scenario -> ProbeScenario]
    BY ProbeStateFields DEF ProbeFits
  <2>5. /\ InitialCash \in Nat /\ Cap \in Nat /\ EntryDelay \in Nat /\ RestTime \in Nat
        /\ Scenario # {} /\ \A s \in Scenario : HedgeDelay[s] \in Nat
    BY DEF Probe!ProbeConstants
  <2>6. n \in Nat \ {0} /\ \A s \in Scenario : n <= p.scenarios[s].account.cash
    BY <2>5 DEF Probe!Affordable
  <2>7. e \in ProbeEntry /\ e.quantity = n /\ time <= e.expiry
    BY <2>5, <2>6 DEF ProbeEntry
  <2> HIDE DEF e
  <2>8. ASSUME NEW s \in Scenario
        PROVE  ~after[s].try.done
               /\ ScenarioFits(after[s], e, tried, p.halted, time, HedgeDelay[s])
    <3> DEFINE x == [p.scenarios[s] EXCEPT !.try = Probe!FreshAttempt]
    <3>1. ScenarioFits(p.scenarios[s], Probe!NoEntry, p.attempts, p.halted, time, HedgeDelay[s])
      BY <2>1 DEF ProbeFits
    <3>2. ~x.try.done /\ ScenarioFits(x, e, tried, p.halted, time, HedgeDelay[s])
      <4>1. e.quantity <= p.scenarios[s].account.cash /\ HedgeDelay[s] \in Nat
        BY <2>5, <2>6, <2>7
      <4>2. ~x.try.done /\ ScenarioFits(x, e, p.attempts + 1, p.halted, time, HedgeDelay[s])
        BY <2>1, <2>4, <2>5, <2>7, <3>1, <4>1, FreshFits
      <4> QED
        BY <4>2
    <3>3. after[s] = x
      OBVIOUS
    <3> HIDE DEF after, x
    <3> QED
      BY <3>2, <3>3
  <2>9. after \in [Scenario -> ProbeScenario] /\ tried \in Nat
    <3>1. \A s \in Scenario : after[s] \in ProbeScenario
      BY <2>8 DEF ScenarioFits
    <3> QED
      BY <2>4, <3>1
  <2> HIDE DEF after, tried
  <2>10. /\ q \in ProbeState /\ q.entry = e /\ q.scenarios = after /\ q.halted = p.halted
         /\ q.attempts = tried /\ q.expired = p.expired
         /\ q.continuity_failed = p.continuity_failed
    BY <2>3, <2>4, <2>7, <2>9 DEF ProbeState
  <2>11. \E s \in Scenario : ~after[s].try.done
    BY <2>5, <2>8
  <2>12. ProbeFits(q, time)
    BY <2>8, <2>10, <2>11 DEF ProbeFits
  <2> QED
    BY <2>1, <2>12
<1> QED
  BY <1>1, <1>2

\* The probe between two records.
Current ==
  [entry |-> entry, scenarios |-> scenarios, markets |-> markets, attempts |-> attempts,
   ended |-> ended, halted |-> halted, expired |-> expired,
   continuity_failed |-> continuity_failed, generation |-> generation]

ProbeInv ==
  /\ now \in Nat /\ connection \in ProbeConnection
  /\ ProbeFits(Current, now)

\* A record is worked through on the probe's state.
LEMMA StateFits ==
  ASSUME ProbeInv, NEW time
  PROVE  /\ ProbeFits(Probe!StateAt(time), now) /\ Probe!StateAt(time).attempts = attempts
         /\ Probe!StateAt(time).halted = halted
<1> DEFINE p == Probe!StateAt(time)
           late == ended /\ time = now
<1>1. Current \in ProbeState
  BY DEF ProbeInv, ProbeFits
<1>2. /\ entry \in ProbeEntry \cup {Probe!NoEntry} /\ scenarios \in [Scenario -> ProbeScenario]
      /\ markets \in [Probe!Leg -> ProbeBook] /\ attempts \in Nat /\ ended \in BOOLEAN
      /\ halted \in BOOLEAN /\ expired \in BOOLEAN /\ continuity_failed \in BOOLEAN
      /\ generation \in Nat
  BY <1>1, ProbeStateFields DEF Current
<1>3. late \in BOOLEAN
  BY <1>2
<1>4. p = [entry |-> entry, scenarios |-> scenarios, markets |-> markets, attempts |-> attempts,
           ended |-> late, halted |-> halted, expired |-> expired,
           continuity_failed |-> continuity_failed, generation |-> generation]
  BY DEF Probe!StateAt
<1> HIDE DEF late, p
<1>5. /\ p \in ProbeState /\ p.entry = entry /\ p.scenarios = scenarios /\ p.attempts = attempts
      /\ p.halted = halted /\ p.expired = expired /\ p.continuity_failed = continuity_failed
  BY <1>2, <1>3, <1>4 DEF ProbeState
<1>6. ProbeFits(p, now)
  BY <1>5 DEF ProbeInv, ProbeFits, Current
<1> QED
  BY <1>5, <1>6 DEF p

\* What a record leaves is the state between records.
LEMMA BecomesFits ==
  ASSUME NEW q, NEW time \in Nat, NEW conn \in ProbeConnection, ProbeFits(q, time),
         Probe!Becomes(q, time, conn)
  PROVE  ProbeInv' /\ attempts' = q.attempts
<1>1. q \in ProbeState
  BY DEF ProbeFits
<1>2. Current' = q
  BY <1>1 DEF Current, Probe!Becomes, ProbeState
<1>3. now' = time /\ connection' = conn /\ attempts' = q.attempts
  BY DEF Probe!Becomes
<1>4. ProbeFits(Current', now')
  BY <1>2, <1>3
<1>5. ProbeFits(Current, now)'
  BY <1>4 DEF ProbeFits, ScenarioFits, OpenFits
<1> QED
  BY <1>3, <1>5 DEF ProbeInv

\* What every record does first, and where it leaves the probe at its time.
LEMMA RecordFits ==
  ASSUME Probe!ProbeConstants, ProbeInv, NEW time \in Nat, NEW conn \in ProbeConnection, NEW wall
  PROVE  LET p == Probe!Interrupted(Probe!StateAt(time), time, conn, wall)
         IN  /\ ProbeFits(p, now) /\ p.attempts = attempts /\ (halted => p.halted)
             /\ Probe!Idle(p, conn) => ProbeFits(p, time)
<1> DEFINE old == Probe!StateAt(time)
           p == Probe!Interrupted(old, time, conn, wall)
<1>1. ProbeFits(old, now) /\ old.attempts = attempts /\ old.halted = halted
  BY StateFits
<1>2. now \in Nat /\ connection \in ProbeConnection
  BY DEF ProbeInv
<1> HIDE DEF old
<1>3. ProbeFits(p, now) /\ SameCount(p, old) /\ (Probe!Idle(p, conn) => p.entry = Probe!NoEntry)
  BY <1>1, <1>2, InterruptedFits
<1> HIDE DEF p
<1>4. Probe!Idle(p, conn) => ProbeFits(p, time)
  BY <1>3, IdleFits
<1> QED
  BY <1>1, <1>3, <1>4 DEF SameCount, p, old

\* A record that says nothing of a market.
LEMMA QuietRecordFits ==
  ASSUME Probe!ProbeConstants, ProbeInv, NEW time \in Nat, NEW conn \in ProbeConnection, NEW wall,
         NEW moved \in BOOLEAN, NEW p,
         p = Probe!Interrupted(Probe!StateAt(time), time, conn, wall),
         Probe!Becomes(IF Probe!Idle(p, conn) THEN p ELSE Probe!Advance(p, time, moved), time, conn)
  PROVE  ProbeInv' /\ attempts' = attempts
<1>1. /\ ProbeFits(p, now) /\ p.attempts = attempts
      /\ Probe!Idle(p, conn) => ProbeFits(p, time)
  BY RecordFits
<1>2. CASE Probe!Idle(p, conn)
  BY <1>1, <1>2, BecomesFits
<1>3. CASE ~Probe!Idle(p, conn)
  <2> DEFINE a == Probe!Advance(p, time, moved)
  <2>1. ProbeFits(a, time) /\ SameCount(a, p)
    BY <1>1, AdvanceFits DEF ProbeInv
  <2>2. Probe!Becomes(a, time, conn)
    BY <1>3
  <2> HIDE DEF a
  <2> QED
    BY <1>1, <2>1, <2>2, BecomesFits DEF SameCount
<1> QED
  BY <1>2, <1>3

\* The records, one by one.
LEMMA ProbeStep ==
  ASSUME Probe!ProbeConstants, ProbeInv, Probe!Next
  PROVE  ProbeInv' /\ (halted => attempts' = attempts)
<1>0. now \in Nat /\ connection \in ProbeConnection /\ MaxGap \in Nat /\ Cap \in Nat
  BY DEF ProbeInv, Probe!ProbeConstants
<1> DEFINE Good == ProbeInv' /\ (halted => attempts' = attempts)
           P(time, conn, wall) == Probe!Interrupted(Probe!StateAt(time), time, conn, wall)
<1>1. ASSUME NEW time \in Nat, NEW wall, Probe!ConnectionRecord(time, wall)
      PROVE  Good
  <2>1. PICK conn \in {[connection EXCEPT !.connected = FALSE]} \cup
                      {[connected |-> TRUE, generation |-> connection.generation + 1]} :
          \E moved \in BOOLEAN :
            Probe!Becomes(IF Probe!Idle(P(time, conn, wall), conn) THEN P(time, conn, wall)
                          ELSE Probe!Advance(P(time, conn, wall), time, moved), time, conn)
    BY <1>1 DEF Probe!ConnectionRecord
  <2>2. PICK moved \in BOOLEAN :
          Probe!Becomes(IF Probe!Idle(P(time, conn, wall), conn) THEN P(time, conn, wall)
                        ELSE Probe!Advance(P(time, conn, wall), time, moved), time, conn)
    BY <2>1
  <2>3. conn \in ProbeConnection
    <3>1. connection.generation + 1 \in Nat /\ connection \in ProbeConnection
      BY <1>0 DEF ProbeConnection
    <3>2. CASE conn = [connection EXCEPT !.connected = FALSE]
      BY <3>1, <3>2 DEF ProbeConnection
    <3>3. CASE conn = [connected |-> TRUE, generation |-> connection.generation + 1]
      <4> DEFINE g == connection.generation + 1
      <4>1. g \in Nat /\ conn = [connected |-> TRUE, generation |-> g]
        BY <3>1, <3>3
      <4> HIDE DEF g
      <4> QED
        BY <4>1 DEF ProbeConnection
    <3> QED
      BY <3>2, <3>3
  <2> QED
    BY <2>2, <2>3, QuietRecordFits
<1>2. ASSUME NEW time \in Nat, NEW wall, Probe!PlainRecord(time, wall)
      PROVE  Good
  <2>1. PICK moved \in BOOLEAN :
          Probe!Becomes(IF Probe!Idle(P(time, connection, wall), connection) THEN P(time, connection, wall)
                        ELSE Probe!Advance(P(time, connection, wall), time, moved), time, connection)
    BY <1>2 DEF Probe!PlainRecord
  <2> QED
    BY <1>0, <2>1, QuietRecordFits
<1>3. ASSUME NEW time \in Nat, NEW l \in Probe!Leg, Probe!InvalidBookRecord(time, l)
      PROVE  Good
  <2> DEFINE p == P(time, connection, "ok")
             cut == [p EXCEPT !.markets[l] = Probe!NoBook]
             new == Probe!Censor(cut)
  <2>1. ProbeFits(p, now) /\ p.attempts = attempts
    BY <1>0, RecordFits
  <2>2. Probe!Becomes(new, time, connection)
    BY <1>3 DEF Probe!InvalidBookRecord
  <2> HIDE DEF p
  <2>3. ProbeFits(cut, now) /\ SameCount(cut, p)
    BY <2>1, InvalidBookFits
  <2> HIDE DEF cut
  <2>4. ProbeFits(new, time) /\ SameCount(new, cut)
    BY <1>0, <2>3, CensorFits
  <2> HIDE DEF new
  <2> QED
    BY <1>0, <2>1, <2>2, <2>3, <2>4, BecomesFits DEF SameCount
<1>4. ASSUME NEW time \in Nat, NEW l \in Probe!Leg, NEW depth \in 0..Cap, Probe!BookRecord(time, l, depth)
      PROVE  Good
  <2> DEFINE p == P(time, connection, "ok")
  <2>1. ProbeFits(p, now) /\ p.attempts = attempts /\ (halted => p.halted)
    BY <1>0, RecordFits
  <2>2. /\ ~Probe!Idle(p, connection)
        /\ \E moved \in BOOLEAN :
             \E q \in Probe!Selections(Probe!Updated(Probe!Advance(p, time, moved), l, depth), time) :
               Probe!Becomes(q, time, connection)
    BY <1>4 DEF Probe!BookRecord, Probe!Attended
  <2> HIDE DEF p
  <2>3. PICK moved \in BOOLEAN :
          \E q \in Probe!Selections(Probe!Updated(Probe!Advance(p, time, moved), l, depth), time) :
            Probe!Becomes(q, time, connection)
    BY <2>2
  <2> DEFINE a == Probe!Advance(p, time, moved)
             u == Probe!Updated(a, l, depth)
  <2>4. ProbeFits(a, time) /\ SameCount(a, p) /\ SameEnds(a, p)
    BY <1>0, <2>1, AdvanceFits
  <2>5. PICK q \in Probe!Selections(u, time) : Probe!Becomes(q, time, connection)
    BY <2>3
  <2> HIDE DEF a
  <2>6. ProbeFits(u, time) /\ SameCount(u, a) /\ SameEnds(u, a)
    BY <2>4, UpdatedFits
  <2> HIDE DEF u
  <2>7. ~u.expired /\ ~u.continuity_failed
    BY <2>2, <2>4, <2>6 DEF Probe!Idle, SameEnds
  <2>8. ProbeFits(q, time) /\ (u.halted => q.attempts = u.attempts)
    BY <2>6, <2>7, SelectionFits
  <2>9. ProbeInv' /\ attempts' = q.attempts
    BY <1>0, <2>5, <2>8, BecomesFits
  <2> QED
    BY <2>1, <2>4, <2>6, <2>8, <2>9 DEF SameCount
<1>5. ASSUME NEW time \in Nat, Probe!TradeRecord(time)
      PROVE  Good
  <2> DEFINE p == P(time, connection, "ok")
  <2>1. ProbeFits(p, now) /\ p.attempts = attempts
    BY <1>0, RecordFits
  <2>2. \E moved \in BOOLEAN :
          \E f \in Probe!Fills(Probe!Advance(p, time, moved)) :
            Probe!Becomes(Probe!Traded(Probe!Advance(p, time, moved), f, time), time, connection)
    BY <1>5 DEF Probe!TradeRecord
  <2> HIDE DEF p
  <2>3. PICK moved \in BOOLEAN :
          \E f \in Probe!Fills(Probe!Advance(p, time, moved)) :
            Probe!Becomes(Probe!Traded(Probe!Advance(p, time, moved), f, time), time, connection)
    BY <2>2
  <2> DEFINE a == Probe!Advance(p, time, moved)
  <2>4. PICK f \in Probe!Fills(a) : Probe!Becomes(Probe!Traded(a, f, time), time, connection)
    BY <2>3
  <2>5. ProbeFits(a, time) /\ SameCount(a, p)
    BY <1>0, <2>1, AdvanceFits
  <2> HIDE DEF a
  <2> DEFINE new == Probe!Traded(a, f, time)
  <2>6. ProbeFits(new, time) /\ SameCount(new, a)
    BY <2>5, TradedFits
  <2>7. Probe!Becomes(new, time, connection)
    BY <2>4
  <2> HIDE DEF new
  <2> QED
    BY <1>0, <2>1, <2>5, <2>6, <2>7, BecomesFits DEF SameCount
<1>6. ASSUME Probe!FinishProbe
      PROVE  Good
  <2> DEFINE p == Probe!StateAt(now)
             q == Probe!Censor(p)
  <2>1. ProbeFits(p, now) /\ p.attempts = attempts
    BY StateFits
  <2>2. p.expired = expired /\ p.continuity_failed = continuity_failed /\ p.generation = generation
    BY DEF Probe!StateAt
  <2>3. /\ entry' = q.entry /\ scenarios' = q.scenarios /\ ended' = q.ended /\ markets' = q.markets
        /\ halted' = q.halted
        /\ UNCHANGED <<now, connection, generation, attempts, expired, continuity_failed>>
    BY <1>6 DEF Probe!FinishProbe
  <2> HIDE DEF p
  <2>4. ProbeFits(q, now) /\ SameCount(q, p) /\ SameEnds(q, p)
    BY <1>0, <2>1, CensorFits
  <2>5. q.generation = p.generation
    <3>1. p \in ProbeState
      BY <2>1 DEF ProbeFits
    <3> QED
      BY <3>1 DEF Probe!Censor, ProbeState
  <2> HIDE DEF q
  <2>6. q \in ProbeState
    BY <2>4 DEF ProbeFits
  <2>7. Current' = q
    BY <2>1, <2>2, <2>3, <2>4, <2>5, <2>6 DEF Current, ProbeState, SameCount, SameEnds
  <2>8. ProbeFits(Current', now')
    BY <2>3, <2>4, <2>7
  <2>9. ProbeFits(Current, now)'
    BY <2>8 DEF ProbeFits, ScenarioFits, OpenFits
  <2> QED
    BY <1>0, <2>3, <2>9 DEF ProbeInv
<1>7. \A time \in now..(now + MaxGap + 1) : time \in Nat
  BY <1>0
<1> QED
  BY <1>1, <1>2, <1>3, <1>4, <1>5, <1>6, <1>7 DEF Probe!Next

\* The accounts hold between records.
LEMMA ProbeInvariant ==
  ASSUME Probe!ProbeConstants
  PROVE  Probe!Spec => []ProbeInv
<1>1. Probe!Init => ProbeInv
  <2> SUFFICES ASSUME Probe!Init
               PROVE  ProbeInv
    OBVIOUS
  <2>1. InitialCash \in Nat
    BY DEF Probe!ProbeConstants
  <2>2. Probe!Account \in ProbeAccount /\ Probe!FreshAttempt \in ProbeTry
    BY <2>1 DEF Probe!Account, ProbeAccount, Probe!FreshAttempt, ProbeTry
  <2>3. /\ entry = Probe!NoEntry /\ attempts = 0 /\ ~halted /\ ~expired /\ ~continuity_failed /\ ~ended
        /\ halted = FALSE /\ expired = FALSE /\ continuity_failed = FALSE /\ ended = FALSE
        /\ generation = 0 /\ now = 0 /\ connection = [connected |-> FALSE, generation |-> 0]
        /\ scenarios = [s \in Scenario |-> [account |-> Probe!Account, try |-> Probe!FreshAttempt]]
        /\ markets = [l \in Probe!Leg |-> Probe!NoBook]
    BY DEF Probe!Init
  <2>4. AccountFits(Probe!Account, Probe!FreshAttempt, FALSE, 0) /\ ~Probe!Account.halted
    BY <2>1 DEF AccountFits, Probe!Account
  <2>5. \A s \in Scenario : ScenarioFits(scenarios[s], Probe!NoEntry, 0, FALSE, 0, HedgeDelay[s])
    <3> SUFFICES ASSUME NEW s \in Scenario
                 PROVE  ScenarioFits(scenarios[s], Probe!NoEntry, 0, FALSE, 0, HedgeDelay[s])
      OBVIOUS
    <3>1. /\ scenarios[s] \in ProbeScenario /\ scenarios[s].account = Probe!Account
          /\ scenarios[s].try = Probe!FreshAttempt
      BY <2>2, <2>3 DEF ProbeScenario
    <3>2. AccountFits(scenarios[s].account, scenarios[s].try, FALSE, 0) /\ ~scenarios[s].account.halted
      BY <2>4, <3>1
    <3> QED
      BY <3>1, <3>2 DEF ScenarioFits
  <2>6. Current \in ProbeState
    <3>1. markets \in [Probe!Leg -> ProbeBook]
      BY <2>3 DEF Probe!NoBook, ProbeBook
    <3>2. scenarios \in [Scenario -> ProbeScenario]
      BY <2>2, <2>3 DEF ProbeScenario
    <3> QED
      BY <2>3, <3>1, <3>2 DEF Current, ProbeState
  <2>7. /\ Current.entry = Probe!NoEntry /\ Current.attempts = 0 /\ Current.halted = FALSE
        /\ Current.scenarios = scenarios
    BY <2>3 DEF Current
  <2>8. ProbeFits(Current, 0)
    BY <2>5, <2>6, <2>7 DEF ProbeFits
  <2> QED
    BY <2>3, <2>8 DEF ProbeInv, ProbeConnection
<1>2. ProbeInv /\ [Probe!Next]_Probe!vars => ProbeInv'
  <2> SUFFICES ASSUME ProbeInv, [Probe!Next]_Probe!vars
               PROVE  ProbeInv'
    OBVIOUS
  <2>1. CASE Probe!Next
    BY <2>1, ProbeStep
  <2>2. CASE UNCHANGED Probe!vars
    BY <2>2 DEF Probe!vars, ProbeInv, Current, ProbeFits, ScenarioFits, OpenFits
  <2> QED
    BY <2>1, <2>2
<1> QED
  BY <1>1, <1>2, PTL DEF Probe!Spec

\* What one scenario's account says.
LEMMA ProbeFitsHere ==
  ASSUME ProbeInv, NEW s \in Scenario
  PROVE  /\ ScenarioFits(scenarios[s], entry, attempts, halted, now, HedgeDelay[s])
         /\ entry \in ProbeEntry \cup {Probe!NoEntry} /\ attempts \in Nat
         /\ entry # Probe!NoEntry => \E r \in Scenario : ~scenarios[r].try.done
<1>1. ProbeFits(Current, now)
  BY DEF ProbeInv
<1>2. Current.entry = entry /\ Current.scenarios = scenarios /\ Current.attempts = attempts
      /\ Current.halted = halted
  BY DEF Current
<1> QED
  BY <1>1, <1>2, ProbeStateFields DEF ProbeFits

\* The accounts of the probe: every attempt has one outcome in every scenario, no money is
\* lost, and the margin is the floor less all spending (src/src/session/passive_probe.cpp).
THEOREM ProbeAccountsAddUp == Probe!ProbeConstants => (Probe!Spec => []Probe!AccountsAddUp)
<1> SUFFICES ASSUME Probe!ProbeConstants PROVE Probe!Spec => []Probe!AccountsAddUp
  OBVIOUS
<1>1. ProbeInv => Probe!AccountsAddUp
  <2> SUFFICES ASSUME ProbeInv, NEW s \in Scenario
               PROVE  LET a == scenarios[s].account
                          outcomes == a.completed + a.empty + a.censored
                                      + (IF Probe!Open(s) THEN 1 ELSE 0)
                      IN  /\ outcomes = attempts \/ (a.halted /\ outcomes = attempts - 1)
                          /\ a.cash >= 0 /\ a.cash + a.spent = InitialCash
                          /\ (a.residual = 0 /\ ~Probe!Open(s)) => a.conditional_margin = a.floor - a.spent
    BY DEF Probe!AccountsAddUp
  <2> DEFINE sc == scenarios[s]
             a == sc.account
             open == entry # Probe!NoEntry /\ ~sc.try.done
             outcomes == a.completed + a.empty + a.censored + (IF open THEN 1 ELSE 0)
  <2>1. ScenarioFits(sc, entry, attempts, halted, now, HedgeDelay[s])
    BY ProbeFitsHere
  <2>2. sc \in ProbeScenario /\ AccountFits(a, sc.try, open, attempts)
    BY <2>1 DEF ScenarioFits
  <2>3. a.cash \in Nat /\ a.spent \in Nat /\ a.floor \in Nat /\ a.conditional_margin \in Int
    BY <2>2, ProbeFields
  <2>4. Probe!Open(s) <=> open
    BY DEF Probe!Open
  <2>5. outcomes = attempts \/ (a.halted /\ outcomes = attempts - 1)
    <3> HIDE DEF open
    <3> QED
      BY <2>2 DEF AccountFits
  <2>6. a.cash >= 0 /\ a.cash + a.spent = InitialCash
    BY <2>2, <2>3 DEF AccountFits
  <2>7. a.residual = 0 /\ ~open => a.conditional_margin = a.floor - a.spent
    <3> SUFFICES ASSUME a.residual = 0, ~open PROVE a.conditional_margin = a.floor - a.spent
      OBVIOUS
    <3> HIDE DEF open
    <3>1. ~a.halted
      BY <2>2 DEF AccountFits
    <3>2. a.conditional_margin = a.floor - a.spent + 0
      BY <2>2, <3>1 DEF AccountFits
    <3> QED
      BY <2>3, <3>2
  <2> HIDE DEF open, a
  <2>8. /\ outcomes = attempts \/ (a.halted /\ outcomes = attempts - 1)
        /\ a.cash >= 0 /\ a.cash + a.spent = InitialCash
        /\ (a.residual = 0 /\ ~Probe!Open(s)) => a.conditional_margin = a.floor - a.spent
    BY <2>4, <2>5, <2>6, <2>7
  <2>9. outcomes = a.completed + a.empty + a.censored + (IF Probe!Open(s) THEN 1 ELSE 0)
    BY <2>4
  <2> QED
    BY <2>8, <2>9 DEF a
<1> QED
  BY <1>1, ProbeInvariant, PTL

\* No attempt outlives its order and its last hedge, and one is open only while a scenario of
\* it is (src/src/session/passive_probe.cpp).
THEOREM ProbeAttemptsEnd == Probe!ProbeConstants => (Probe!Spec => []Probe!AttemptsEndInTime)
<1> SUFFICES ASSUME Probe!ProbeConstants PROVE Probe!Spec => []Probe!AttemptsEndInTime
  OBVIOUS
<1>1. ProbeInv => Probe!AttemptsEndInTime
  <2> SUFFICES ASSUME ProbeInv, entry # Probe!NoEntry
               PROVE  /\ \E s \in Scenario : Probe!Open(s)
                      /\ \A s \in Scenario : Probe!Open(s) => now < entry.expiry + 2 * HedgeDelay[s]
    BY DEF Probe!AttemptsEndInTime
  <2>1. Scenario # {} /\ \A s \in Scenario : HedgeDelay[s] \in Nat \ {0}
    BY DEF Probe!ProbeConstants
  <2>2. \E s \in Scenario : Probe!Open(s)
    BY <2>1, ProbeFitsHere DEF Probe!Open
  <2>3. ASSUME NEW s \in Scenario, Probe!Open(s)
        PROVE  now < entry.expiry + 2 * HedgeDelay[s]
    <3> DEFINE try == scenarios[s].try
               delay == HedgeDelay[s]
    <3>1. /\ scenarios[s] \in ProbeScenario /\ OpenFits(scenarios[s], entry, now, delay)
          /\ entry \in ProbeEntry
      BY <2>3, ProbeFitsHere DEF ScenarioFits, Probe!Open
    <3>2. try.close_time \in Nat /\ entry.expiry \in Nat /\ now \in Nat /\ delay \in Nat \ {0}
      BY <2>1, <3>1, ProbeFields DEF ProbeEntry, ProbeInv
    <3>3. CASE try.closed
      <4>1. try.close_time <= entry.expiry /\ now < try.close_time + 2 * delay
        BY <3>1, <3>3 DEF OpenFits
      <4> HIDE DEF try, delay
      <4>2. now < entry.expiry + 2 * delay
        BY <3>2, <4>1
      <4> QED
        BY <4>2 DEF delay
    <3>4. CASE ~try.closed
      <4>1. now <= entry.expiry
        BY <3>1, <3>4 DEF OpenFits
      <4> HIDE DEF try, delay
      <4>2. now < entry.expiry + 2 * delay
        BY <3>2, <4>1
      <4> QED
        BY <4>2 DEF delay
    <3> QED
      BY <3>3, <3>4
  <2> QED
    BY <2>2, <2>3
<1> QED
  BY <1>1, ProbeInvariant, PTL

\* Inventory that could not be completed stops the probe (src/src/session/passive_probe.cpp).
THEOREM ResidualStopsProbe ==
  Probe!ProbeConstants => (Probe!Spec => [][Probe!StopsAtResidual]_Probe!vars)
<1> SUFFICES ASSUME Probe!ProbeConstants
             PROVE  Probe!Spec => [][Probe!StopsAtResidual]_Probe!vars
  OBVIOUS
<1>1. ProbeInv /\ [Probe!Next]_Probe!vars => [Probe!StopsAtResidual]_Probe!vars
  <2> SUFFICES ASSUME ProbeInv, Probe!Next, \E s \in Scenario : scenarios[s].account.residual # 0
               PROVE  attempts' = attempts
    BY DEF Probe!StopsAtResidual
  <2>1. PICK s \in Scenario : scenarios[s].account.residual # 0
    OBVIOUS
  <2>2. halted
    BY <2>1, ProbeFitsHere DEF ScenarioFits, AccountFits
  <2> QED
    BY <2>2, ProbeStep
<1> QED
  BY <1>1, ProbeInvariant, PTL DEF Probe!Spec

\* The passive probe (src/src/session/passive_probe.cpp) accounts for every attempt and all of
\* its money, settles each in time, and stops at the first inventory it cannot complete.
THEOREM ProbeIsSound == Probe!ProbeConstants => (Probe!Spec => Probe!ProbeSound)
<1> SUFFICES ASSUME Probe!ProbeConstants PROVE Probe!Spec => Probe!ProbeSound
  OBVIOUS
<1>1. /\ Probe!Spec => []Probe!AccountsAddUp
      /\ Probe!Spec => []Probe!AttemptsEndInTime
      /\ Probe!Spec => [][Probe!StopsAtResidual]_Probe!vars
  BY ProbeAccountsAddUp, ProbeAttemptsEnd, ResidualStopsProbe
<1> QED
  BY <1>1, PTL DEF Probe!ProbeSound

=============================================================================
