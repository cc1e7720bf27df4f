-------------------------------- MODULE Sums --------------------------------
(***************************************************************************)
(* Sums of natural numbers.  The models add up money and quantities over   *)
(* sets and sequences; a sum is here the number of units its summands      *)
(* consist of, so that what holds of sums follows from what holds of       *)
(* finite sets.                                                            *)
(***************************************************************************)
EXTENDS Integers, Sequences, FiniteSets, FiniteSetTheorems, SequenceTheorems,
        WellFoundedInduction, TLAPS

\* The sum of f[x] over all x \in DOMAIN f.
Units(f) == UNION {{x} \X (1..f[x]) : x \in DOMAIN f}
SumOf(f) == Cardinality(Units(f))

-----------------------------------------------------------------------------
(* What sums come to. *)

UnitsOf(x, n) == {x} \X (1..n)

\* A summand has as many units as it says.
LEMMA UnitsAreFinite ==
  ASSUME NEW x, NEW n \in Nat
  PROVE  IsFiniteSet(UnitsOf(x, n)) /\ Cardinality(UnitsOf(x, n)) = n
<1>1. IsFiniteSet({x}) /\ Cardinality({x}) = 1
  BY FS_Singleton
<1>2. IsFiniteSet(1..n) /\ Cardinality(1..n) = n
  <2>1. n \in Int /\ 1 \in Int /\ (IF 1 > n THEN 0 ELSE n - 1 + 1) = n
    OBVIOUS
  <2> QED
    BY <2>1, FS_Interval
<1>3. IsFiniteSet({x} \X (1..n)) /\ Cardinality({x} \X (1..n)) = n
  <2> DEFINE S == {x}
             T == 1..n
  <2>1. IsFiniteSet(S) /\ Cardinality(S) = 1 /\ IsFiniteSet(T) /\ Cardinality(T) = n
    BY <1>1, <1>2
  <2> HIDE DEF S, T
  <2>2. IsFiniteSet(S \X T) /\ Cardinality(S \X T) = Cardinality(S) * Cardinality(T)
    BY <2>1, FS_Product
  <2>3. 1 * n = n
    OBVIOUS
  <2>4. IsFiniteSet(S \X T) /\ Cardinality(S \X T) = n
    BY <2>1, <2>2, <2>3, Zenon
  <2> QED
    BY <2>4, Zenon DEF S, T
<1> QED
  BY <1>3 DEF UnitsOf

\* The sum of finitely many natural numbers is one.
LEMMA SumIsNatural ==
  ASSUME NEW S, IsFiniteSet(S), NEW f \in [S -> Nat]
  PROVE  IsFiniteSet(Units(f)) /\ SumOf(f) \in Nat
<1> DEFINE T == {UnitsOf(x, f[x]) : x \in S}
           h == [x \in S |-> UnitsOf(x, f[x])]
<1>1. h \in Surjection(S, T)
  BY DEF Surjection
<1>2. IsFiniteSet(T)
  <2> HIDE DEF h, T
  <2> QED
    BY <1>1, FS_Surjection DEF ExistsSurjection
<1>3. \A U \in T : IsFiniteSet(U)
  BY UnitsAreFinite
<1>4. IsFiniteSet(UNION T)
  <2> HIDE DEF T
  <2> QED
    BY <1>2, <1>3, FS_UNION
<1>5. Units(f) = UNION T
  BY DEF Units, UnitsOf
<1> QED
  BY <1>4, <1>5, FS_CardinalityType DEF SumOf

\* The sum of nothing is zero.
LEMMA SumOfNothing ==
  ASSUME NEW f \in [{} -> Nat]
  PROVE  SumOf(f) = 0
<1>1. Units(f) = {}
  BY DEF Units
<1> QED
  BY <1>1, FS_EmptySet DEF SumOf

\* A sum in two parts.
Amounts(f) == IsFiniteSet(DOMAIN f) /\ f \in [DOMAIN f -> Nat]

Splits(h, f, g) ==
  /\ DOMAIN f \cap DOMAIN g = {}
  /\ h \in [DOMAIN f \cup DOMAIN g -> Nat]
  /\ \A x \in DOMAIN f : h[x] = f[x]
  /\ \A x \in DOMAIN g : h[x] = g[x]

\* Sums over disjoint parts add up.
LEMMA SumJoined ==
  ASSUME NEW f, NEW g, NEW h, Amounts(f), Amounts(g), Splits(h, f, g)
  PROVE  SumOf(h) = SumOf(f) + SumOf(g)
<1>1. /\ IsFiniteSet(Units(f)) /\ IsFiniteSet(Units(g))
      /\ SumOf(f) \in Nat /\ SumOf(g) \in Nat
  BY SumIsNatural DEF Amounts
<1>2. Units(h) = Units(f) \cup Units(g)
  BY DEF Units, Splits
<1>3. Units(f) \cap Units(g) = {}
  BY DEF Units, Splits
<1>4. Cardinality(Units(f) \cap Units(g)) = 0
  BY <1>3, FS_EmptySet
<1>5. Cardinality(Units(f) \cup Units(g)) =
        Cardinality(Units(f)) + Cardinality(Units(g)) - Cardinality(Units(f) \cap Units(g))
  BY <1>1, FS_Union
<1> QED
  BY <1>1, <1>2, <1>4, <1>5 DEF SumOf

\* A single summand.
LEMMA SumOfOne ==
  ASSUME NEW x, NEW f \in [{x} -> Nat]
  PROVE  SumOf(f) = f[x]
<1>1. Units(f) = UnitsOf(x, f[x])
  BY DEF Units, UnitsOf
<1> QED
  BY <1>1, UnitsAreFinite DEF SumOf

\* One more summand.
LEMMA SumWithOneMore ==
  ASSUME NEW S, IsFiniteSet(S), NEW x, x \notin S, NEW n \in Nat,
         NEW f \in [S -> Nat], NEW g \in [S \cup {x} -> Nat],
         \A y \in S : g[y] = f[y], g[x] = n
  PROVE  SumOf(g) = SumOf(f) + n
<1> DEFINE one == [y \in {x} |-> n]
<1>1. SumOf(one) = n
  BY SumOfOne
<1>2. IsFiniteSet({x})
  BY FS_Singleton
<1>3. Amounts(one) /\ Amounts(f)
  BY <1>2 DEF Amounts
<1>4. Splits(g, f, one)
  BY DEF Splits
<1> HIDE DEF one
<1>5. SumOf(g) = SumOf(f) + SumOf(one)
  BY <1>3, <1>4, SumJoined
<1> QED
  BY <1>1, <1>5

\* One summand changed.
LEMMA SumWithOneChanged ==
  ASSUME NEW S, IsFiniteSet(S), NEW x \in S, NEW f \in [S -> Nat], NEW g \in [S -> Nat],
         \A y \in S : y # x => g[y] = f[y]
  PROVE  /\ SumOf(f) \in Nat /\ SumOf(g) \in Nat /\ f[x] <= SumOf(f)
         /\ SumOf(g) = SumOf(f) - f[x] + g[x]
<1> DEFINE R == S \ {x}
           r == [y \in R |-> f[y]]
<1>1. IsFiniteSet(R)
  BY FS_RemoveElement
<1>2. /\ r \in [R -> Nat] /\ x \notin R /\ R \cup {x} = S
      /\ \A y \in R : f[y] = r[y] /\ g[y] = r[y]
      /\ f[x] \in Nat /\ g[x] \in Nat
  OBVIOUS
<1> HIDE DEF R, r
<1>3. SumOf(f) = SumOf(r) + f[x]
  BY <1>1, <1>2, SumWithOneMore
<1>4. SumOf(g) = SumOf(r) + g[x]
  BY <1>1, <1>2, SumWithOneMore
<1>5. SumOf(r) \in Nat
  BY <1>1, <1>2, SumIsNatural
<1> QED
  BY <1>2, <1>3, <1>4, <1>5

\* The same summands under other names.
Renames(g, f, b) ==
  b \in Bijection(DOMAIN f, DOMAIN g) /\ \A x \in DOMAIN f : g[b[x]] = f[x]

\* A sum does not depend on how its summands are named.
LEMMA SumRenamed ==
  ASSUME NEW f, NEW g, NEW b, Amounts(f), Renames(g, f, b)
  PROVE  SumOf(g) = SumOf(f)
<1> DEFINE S == DOMAIN f
           T == DOMAIN g
<1> DEFINE c == [u \in Units(f) |-> <<b[u[1]], u[2]>>]
<1>1. /\ b \in [S -> T] /\ \A y \in T : \E x \in S : b[x] = y
      /\ \A x, y \in S : b[x] = b[y] => x = y
  BY DEF Renames, Bijection, Injection, Surjection, IsInjective
<1>2. \A u : u \in Units(f) <=> \E x \in S : \E n \in 1..f[x] : u = <<x, n>>
  BY DEF Units
<1>3. \A u : u \in Units(g) <=> \E y \in T : \E n \in 1..g[y] : u = <<y, n>>
  BY DEF Units
<1>0. \A x \in S : g[b[x]] = f[x]
  BY DEF Renames
<1>4. \A x \in S : \A n \in 1..f[x] : <<x, n>> \in Units(f) /\ c[<<x, n>>] = <<b[x], n>>
  BY <1>2
<1> HIDE DEF c
<1>5. c \in [Units(f) -> Units(g)]
  <2>1. ASSUME NEW u \in Units(f) PROVE <<b[u[1]], u[2]>> \in Units(g)
    <3>1. PICK x \in S, n \in Nat : n \in 1..f[x] /\ u = <<x, n>>
      BY <1>2
    <3> QED
      BY <1>0, <1>1, <1>3, <3>1
  <2> QED
    BY <2>1 DEF c
<1>6. \A v \in Units(g) : \E u \in Units(f) : c[u] = v
  <2> SUFFICES ASSUME NEW v \in Units(g) PROVE \E u \in Units(f) : c[u] = v
    OBVIOUS
  <2>1. PICK y \in T, n \in Nat : n \in 1..g[y] /\ v = <<y, n>>
    BY <1>3
  <2>2. PICK x \in S : b[x] = y
    BY <1>1
  <2>3. g[y] = f[x] /\ n \in 1..f[x]
    BY <1>0, <2>1, <2>2
  <2> QED
    BY <1>4, <2>1, <2>2, <2>3
<1>7. \A u, v \in Units(f) : c[u] = c[v] => u = v
  <2> SUFFICES ASSUME NEW u \in Units(f), NEW v \in Units(f), c[u] = c[v] PROVE u = v
    OBVIOUS
  <2>1. PICK x \in S, n \in Nat : n \in 1..f[x] /\ u = <<x, n>>
    BY <1>2
  <2>2. PICK y \in S, m \in Nat : m \in 1..f[y] /\ v = <<y, m>>
    BY <1>2
  <2>3. c[u] = <<b[x], n>> /\ c[v] = <<b[y], m>>
    BY <1>4, <2>1, <2>2
  <2>4. <<b[x], n>> = <<b[y], m>>
    BY <2>3
  <2>5. b[x] = b[y] /\ n = m
    BY <2>4
  <2> QED
    BY <1>1, <2>1, <2>2, <2>5
<1>8. c \in Bijection(Units(f), Units(g))
  BY <1>5, <1>6, <1>7 DEF Bijection, Injection, Surjection, IsInjective
<1> QED
  BY <1>8, SumIsNatural, FS_Bijection DEF ExistsBijection, SumOf, Amounts

\* Summands of zero do not count.
LEMMA SumWithZeros ==
  ASSUME NEW f, NEW g, DOMAIN f \subseteq DOMAIN g,
         \A x \in DOMAIN f : g[x] = f[x], \A x \in DOMAIN g \ DOMAIN f : g[x] = 0
  PROVE  SumOf(g) = SumOf(f)
<1>1. \A u : u \in Units(f) <=> \E x \in DOMAIN f : \E n \in 1..f[x] : u = <<x, n>>
  BY DEF Units
<1>2. \A u : u \in Units(g) <=> \E x \in DOMAIN g : \E n \in 1..g[x] : u = <<x, n>>
  BY DEF Units
<1>3. Units(f) = Units(g)
  BY <1>1, <1>2
<1> QED
  BY <1>3 DEF SumOf

\* A sum of zeros.
LEMMA SumOfZeros ==
  ASSUME NEW f, \A x \in DOMAIN f : f[x] = 0
  PROVE  SumOf(f) = 0
<1>1. Units(f) = {}
  BY DEF Units
<1> QED
  BY <1>1, FS_EmptySet DEF SumOf

\* The summands of one sequence after those of another.
Concats(h, f, g, m, n) ==
  /\ m \in Nat /\ n \in Nat
  /\ f \in [1..m -> Nat] /\ g \in [1..n -> Nat] /\ h \in [1..(m + n) -> Nat]
  /\ \A i \in 1..m : h[i] = f[i]
  /\ \A i \in 1..n : h[i + m] = g[i]

\* The sum over a concatenation.
LEMMA SumOfConcat ==
  ASSUME NEW f, NEW g, NEW h, NEW m, NEW n, Concats(h, f, g, m, n)
  PROVE  SumOf(h) = SumOf(f) + SumOf(g) /\ SumOf(f) \in Nat /\ SumOf(g) \in Nat
<1> USE DEF Concats
<1> DEFINE A == 1..m
           B == (m + 1)..(m + n)
           N == 1..n
           k == [i \in B |-> h[i]]
           b == [i \in N |-> i + m]
<1>1. IsFiniteSet(A) /\ IsFiniteSet(B) /\ IsFiniteSet(N)
  BY FS_Interval
<1>2. /\ A \cup B = 1..(m + n) /\ A \cap B = {}
      /\ \A i \in N : i + m \in B
      /\ \A j \in B : j - m \in N /\ (j - m) + m = j
      /\ \A i, j \in N : i + m = j + m => i = j
  OBVIOUS
<1>3. b \in Bijection(N, B)
  <2> HIDE DEF N, B
  <2>1. b \in [N -> B] /\ \A i \in N : b[i] = i + m
    BY <1>2
  <2> HIDE DEF b
  <2>2. \A j \in B : \E i \in N : b[i] = j
    BY <1>2, <2>1
  <2>3. \A i, j \in N : b[i] = b[j] => i = j
    BY <1>2, <2>1
  <2> QED
    BY <2>1, <2>2, <2>3 DEF Bijection, Injection, Surjection, IsInjective
<1>4. /\ k \in [B -> Nat] /\ \A i \in B : h[i] = k[i]
      /\ \A i \in N : k[b[i]] = g[i]
  <2>1. \A i \in B : h[i] \in Nat
    BY <1>2
  <2>2. \A i \in N : b[i] = i + m
    OBVIOUS
  <2> HIDE DEF A, B, N, b
  <2>3. k \in [B -> Nat] /\ \A i \in B : h[i] = k[i]
    BY <2>1
  <2>4. ASSUME NEW i \in N PROVE k[b[i]] = g[i]
    <3>1. h[i + m] = g[i]
      BY DEF N
    <3> QED
      BY <1>2, <2>2, <2>3, <3>1
  <2> QED
    BY <2>3, <2>4
<1>5. /\ f \in [A -> Nat] /\ g \in [N -> Nat] /\ h \in [A \cup B -> Nat]
      /\ \A i \in A : h[i] = f[i]
  BY <1>2
<1> HIDE DEF A, B, N, k, b
<1>6. SumOf(h) = SumOf(f) + SumOf(k)
  <2>1. Amounts(f) /\ Amounts(k) /\ Splits(h, f, k)
    BY <1>1, <1>2, <1>4, <1>5 DEF Amounts, Splits
  <2> QED
    BY <2>1, SumJoined
<1>7. SumOf(k) = SumOf(g)
  <2>1. Amounts(g) /\ Renames(k, g, b)
    BY <1>1, <1>3, <1>4, <1>5 DEF Amounts, Renames
  <2> QED
    BY <2>1, SumRenamed
<1>8. SumOf(f) \in Nat /\ SumOf(g) \in Nat
  BY <1>1, <1>5, SumIsNatural
<1> QED
  BY <1>6, <1>7, <1>8

\* A nonempty set of natural numbers has a least one.
LEMMA LeastNatural ==
  ASSUME NEW S \in SUBSET Nat, S # {}
  PROVE  \E x \in S : \A y \in S : x <= y
<1> DEFINE Less == {ss \in Nat \X Nat : ss[1] < ss[2]}
<1>1. IsWellFoundedOn(Less, Nat)
  BY NatLessThanWellFounded DEF OpToRel
<1>2. \E x \in S : \A y \in S : ~(<<y, x>> \in Less)
  <2> HIDE DEF Less
  <2> QED
    BY <1>1, WFMin
<1>3. PICK x \in S : \A y \in S : ~(<<y, x>> \in Less)
  BY <1>2
<1>4. ASSUME NEW y \in S PROVE x <= y
  <2>1. x \in Nat /\ y \in Nat
    OBVIOUS
  <2>2. ~(y < x)
    BY <1>3, <2>1
  <2> QED
    BY <2>1, <2>2
<1> QED
  BY <1>4

\* Summands that do not shrink.
LEMMA SumIsMonotone ==
  ASSUME NEW S, IsFiniteSet(S), NEW f \in [S -> Nat], NEW g \in [S -> Nat],
         \A x \in S : f[x] <= g[x]
  PROVE  SumOf(f) <= SumOf(g)
<1>1. Units(f) \subseteq Units(g)
  <2> SUFFICES ASSUME NEW x \in S, NEW n \in 1..f[x]
               PROVE  n \in 1..g[x]
    BY DEF Units
  <2>1. f[x] \in Nat /\ g[x] \in Nat /\ f[x] <= g[x]
    OBVIOUS
  <2> QED
    BY <2>1
<1>2. IsFiniteSet(Units(g))
  BY SumIsNatural
<1> QED
  BY <1>1, <1>2, FS_Subset DEF SumOf

-----------------------------------------------------------------------------
(* Quantities in a sequence. *)

\* The quantity of those members of a sequence that are in S.
Part(seq, S) == [i \in DOMAIN seq |-> IF seq[i] \in S THEN seq[i].quantity ELSE 0]
Counted(seq, S) == SumOf(Part(seq, S))

\* A set of records that have a quantity.
Quantified(R) == \A r \in R : r.quantity \in Nat

\* What is counted of a sequence of them is a natural number.
LEMMA CountedType ==
  ASSUME NEW R, Quantified(R), NEW s \in Seq(R), NEW S
  PROVE  /\ Len(s) \in Nat /\ DOMAIN s = 1..Len(s) /\ IsFiniteSet(1..Len(s))
         /\ Part(s, S) \in [1..Len(s) -> Nat] /\ Counted(s, S) \in Nat
<1>1. Len(s) \in Nat /\ DOMAIN s = 1..Len(s) /\ \A i \in 1..Len(s) : s[i] \in R
  OBVIOUS
<1>2. IsFiniteSet(1..Len(s))
  BY <1>1, FS_Interval
<1>3. Part(s, S) \in [1..Len(s) -> Nat]
  BY <1>1 DEF Part, Quantified
<1>4. Counted(s, S) \in Nat
  BY <1>2, <1>3, SumIsNatural DEF Counted
<1> QED
  BY <1>1, <1>2, <1>3, <1>4

\* Nothing is counted of nothing.
LEMMA CountedEmpty ==
  ASSUME NEW S
  PROVE  Counted(<<>>, S) = 0
  BY SumOfZeros DEF Counted, Part

\* One sequence after another.
LEMMA CountedConcat ==
  ASSUME NEW R, Quantified(R), NEW s \in Seq(R), NEW t \in Seq(R), NEW S
  PROVE  /\ Counted(s \o t, S) = Counted(s, S) + Counted(t, S)
         /\ Counted(s, S) \in Nat /\ Counted(t, S) \in Nat
<1> DEFINE m == Len(s)
           n == Len(t)
           u == s \o t
<1>1. /\ m \in Nat /\ n \in Nat /\ u \in Seq(R)
      /\ DOMAIN s = 1..m /\ DOMAIN t = 1..n /\ DOMAIN u = 1..(m + n) /\ Len(u) = m + n
      /\ \A i \in 1..m : u[i] = s[i] /\ i \in 1..(m + n)
      /\ \A i \in 1..n : u[i + m] = t[i] /\ i + m \in 1..(m + n)
  OBVIOUS
<1>2. /\ Part(s, S) \in [1..m -> Nat] /\ Part(t, S) \in [1..n -> Nat]
      /\ Part(u, S) \in [1..(m + n) -> Nat]
  <2> HIDE DEF u
  <2> QED
    BY <1>1, CountedType
<1> HIDE DEF m, n, u
<1>3. \A i \in 1..m : Part(u, S)[i] = Part(s, S)[i]
  BY <1>1 DEF Part
<1>4. \A i \in 1..n : Part(u, S)[i + m] = Part(t, S)[i]
  BY <1>1 DEF Part
<1>5. Concats(Part(u, S), Part(s, S), Part(t, S), m, n)
  BY <1>1, <1>2, <1>3, <1>4 DEF Concats
<1> QED
  BY <1>5, SumOfConcat DEF Counted, u

\* What one member counts for.
Share(x, S) == IF x \in S THEN x.quantity ELSE 0

\* A single member.
LEMMA CountedOne ==
  ASSUME NEW R, Quantified(R), NEW x \in R, NEW S
  PROVE  Counted(<<x>>, S) = Share(x, S) /\ Share(x, S) \in Nat
<1>1. Part(<<x>>, S) \in [{1} -> Nat] /\ Part(<<x>>, S)[1] = Share(x, S)
  BY DEF Part, Share, Quantified
<1>2. Share(x, S) \in Nat
  BY DEF Share, Quantified
<1> QED
  BY <1>1, <1>2, SumOfOne DEF Counted

\* One member more.
LEMMA CountedAppend ==
  ASSUME NEW R, Quantified(R), NEW s \in Seq(R), NEW x \in R, NEW S
  PROVE  /\ Counted(Append(s, x), S) = Counted(s, S) + Share(x, S)
         /\ Counted(s, S) \in Nat /\ Share(x, S) \in Nat
<1> DEFINE one == <<x>>
<1>1. Append(s, x) = s \o one /\ one \in Seq(R)
  OBVIOUS
<1>2. Counted(one, S) = Share(x, S) /\ Share(x, S) \in Nat
  BY CountedOne
<1> HIDE DEF one
<1>3. Counted(s \o one, S) = Counted(s, S) + Counted(one, S) /\ Counted(s, S) \in Nat
  BY <1>1, CountedConcat
<1> QED
  BY <1>1, <1>2, <1>3

\* The first member and the rest.
LEMMA CountedHead ==
  ASSUME NEW R, Quantified(R), NEW s \in Seq(R), s # <<>>, NEW S
  PROVE  /\ Counted(s, S) = Share(Head(s), S) + Counted(Tail(s), S)
         /\ Counted(Tail(s), S) \in Nat /\ Share(Head(s), S) \in Nat
<1>1. s = <<Head(s)>> \o Tail(s) /\ Head(s) \in R /\ <<Head(s)>> \in Seq(R) /\ Tail(s) \in Seq(R)
  OBVIOUS
<1> DEFINE h == <<Head(s)>>
           t == Tail(s)
<1>2. Counted(h, S) = Share(Head(s), S) /\ Share(Head(s), S) \in Nat
  BY <1>1, CountedOne
<1> HIDE DEF h, t
<1>3. Counted(h \o t, S) = Counted(h, S) + Counted(t, S) /\ Counted(t, S) \in Nat
  BY <1>1, CountedConcat DEF h, t
<1>4. Counted(s, S) = Counted(h \o t, S)
  BY <1>1 DEF h, t
<1> QED
  BY <1>2, <1>3, <1>4 DEF t

\* Members that are counted, if at all, in one set as in the other.
LEMMA CountedSame ==
  ASSUME NEW s, NEW S, NEW T, \A i \in DOMAIN s : s[i] \in S <=> s[i] \in T
  PROVE  Counted(s, S) = Counted(s, T)
<1>1. Part(s, S) = Part(s, T)
  BY DEF Part
<1> QED
  BY <1>1 DEF Counted

\* No member is counted.
LEMMA CountedNone ==
  ASSUME NEW s, NEW S, \A i \in DOMAIN s : s[i] \notin S
  PROVE  Counted(s, S) = 0
  BY SumOfZeros DEF Counted, Part

\* A larger set counts no less.
LEMMA CountedMore ==
  ASSUME NEW R, Quantified(R), NEW s \in Seq(R), NEW S, NEW T,
         \A i \in DOMAIN s : s[i] \in S => s[i] \in T
  PROVE  Counted(s, S) <= Counted(s, T)
<1>1. /\ DOMAIN s = 1..Len(s) /\ IsFiniteSet(1..Len(s))
      /\ Part(s, S) \in [1..Len(s) -> Nat] /\ Part(s, T) \in [1..Len(s) -> Nat]
  BY CountedType
<1>2. \A i \in 1..Len(s) : s[i].quantity \in Nat
  BY DEF Quantified
<1>3. \A i \in 1..Len(s) : Part(s, S)[i] <= Part(s, T)[i]
  BY <1>1, <1>2 DEF Part
<1> QED
  BY <1>1, <1>3, SumIsMonotone DEF Counted

\* One summand more that is not zero.
Grows(g, f, S, x, n) ==
  /\ IsFiniteSet(S) /\ x \in S
  /\ f \in [S -> Nat] /\ g \in [S -> Nat]
  /\ f[x] = 0 /\ g[x] = n
  /\ \A y \in S : y # x => g[y] = f[y]

\* The sum grows by it.
LEMMA SumGrows ==
  ASSUME NEW f, NEW g, NEW S, NEW x, NEW n, Grows(g, f, S, x, n)
  PROVE  SumOf(g) = SumOf(f) + n
<1>1. x \in S /\ IsFiniteSet(S) /\ f \in [S -> Nat] /\ g \in [S -> Nat]
      /\ \A y \in S : y # x => g[y] = f[y]
  BY DEF Grows
<1>2. f[x] = 0 /\ g[x] = n /\ n \in Nat
  BY DEF Grows
<1>3. SumOf(f) \in Nat
  BY <1>1, SumIsNatural
<1>4. SumOf(g) = SumOf(f) - f[x] + g[x]
  BY <1>1, SumWithOneChanged
<1> QED
  BY <1>2, <1>3, <1>4

\* One member more is counted.
LEMMA CountedWithOneMore ==
  ASSUME NEW R, Quantified(R), NEW s \in Seq(R), NEW S, NEW T, NEW k \in 1..Len(s),
         s[k] \notin S, s[k] \in T,
         \A i \in 1..Len(s) : i # k => (s[i] \in S <=> s[i] \in T)
  PROVE  Counted(s, T) = Counted(s, S) + s[k].quantity
<1>1. /\ DOMAIN s = 1..Len(s) /\ IsFiniteSet(1..Len(s))
      /\ Part(s, S) \in [1..Len(s) -> Nat] /\ Part(s, T) \in [1..Len(s) -> Nat]
  BY CountedType
<1>2. /\ Part(s, S)[k] = 0 /\ Part(s, T)[k] = s[k].quantity
      /\ \A i \in 1..Len(s) : i # k => Part(s, T)[i] = Part(s, S)[i]
  BY <1>1 DEF Part
<1>3. Grows(Part(s, T), Part(s, S), 1..Len(s), k, s[k].quantity)
  BY <1>1, <1>2 DEF Grows
<1> QED
  BY <1>3, SumGrows DEF Counted

=============================================================================
