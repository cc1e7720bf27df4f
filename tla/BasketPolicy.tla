----------------------------- MODULE BasketPolicy -----------------------------
(***************************************************************************)
(* Reading the baskets of a screen (screen in src/cli/basket_screen.cpp)   *)
(* or of an observation (parse_screen in                                   *)
(* src/session/basket_observation.cpp), row by row.  A basket is YES above *)
(* a lower threshold, NO above an upper one and NO inside an interval      *)
(* between the two.  The shape of the JSON rows is left out.               *)
(***************************************************************************)
EXTENDS Integers, FiniteSets, Sequences

CONSTANTS
  Listed,      \* markets of the document
  Rows,        \* rows a document may have
  MaxRows,     \* bound on their number
  Settlement,  \* values the underlying may settle at
  NoMeaning    \* a market that no row has named

Row == [id : Nat, key : STRING, markets : [1..3 -> Nat],
        a : Nat, b : Nat, lower : Nat, upper : Nat]

\* What a market means: settles YES above a threshold, or inside an interval.
Meaning == [range : BOOLEAN, from : Nat, to : Nat]

ASSUME PolicyConstants ==
  /\ Listed \subseteq Nat \ {0} /\ Rows \subseteq Row
  /\ MaxRows \in Nat /\ Settlement \subseteq Int
  /\ NoMeaning \notin Meaning

VARIABLES
  observing,   \* parse_screen, or screen
  accepted,    \* rows taken so far
  semantics,   \* meaning of each market that a row has named
  rejected, loaded

policyVars == <<observing, accepted, semantics, rejected, loaded>>

PolicyInit ==
  /\ observing \in BOOLEAN
  /\ accepted = {} /\ semantics = [m \in Listed |-> NoMeaning]
  /\ rejected = FALSE /\ loaded = FALSE

-----------------------------------------------------------------------------
(* Checking a row. *)

Geometry(row) == row.a < row.lower /\ row.lower <= row.upper /\ row.upper <= row.b

Distinct(row) == \A i, j \in 1..3 : i # j => row.markets[i] # row.markets[j]
Known(row) == \A i \in 1..3 : row.markets[i] \in Listed

Means(row) ==
  <<[range |-> FALSE, from |-> row.a, to |-> row.a],
    [range |-> FALSE, from |-> row.b, to |-> row.b],
    [range |-> TRUE, from |-> row.lower, to |-> row.upper]>>

Repeats(row) ==
  \E other \in accepted :
    other.id = row.id \/ other.key = row.key \/ other.markets = row.markets

\* Mutant of Agrees: only the two thresholds are compared with earlier rows.
AgreesOnThresholds(row) ==
  \A i \in 1..2 : semantics[row.markets[i]] \in {NoMeaning, Means(row)[i]}

\* A market may be the upper threshold of one row and the lower one of another,
\* but it means the same in all of them.
Agrees(row) == \A i \in 1..3 : semantics[row.markets[i]] \in {NoMeaning, Means(row)[i]}

Valid(row) ==
  row.id > 0 /\ Known(row) /\ Geometry(row) /\ Distinct(row) /\ ~Repeats(row) /\ Agrees(row)

Learned(row) ==
  [m \in Listed |->
     IF \E i \in 1..3 : row.markets[i] = m /\ semantics[m] = NoMeaning
     THEN Means(row)[CHOOSE i \in 1..3 : row.markets[i] = m]
     ELSE semantics[m]]

TakeRow(row) ==
  /\ ~rejected /\ ~loaded /\ Cardinality(accepted) < MaxRows
  /\ IF Valid(row)
     THEN /\ accepted' = accepted \cup {row} /\ semantics' = Learned(row)
          /\ UNCHANGED rejected
     ELSE rejected' = TRUE /\ UNCHANGED <<accepted, semantics>>
  /\ UNCHANGED <<observing, loaded>>

\* An observation names no basket too few and no market too many.
Unused == {m \in Listed : semantics[m] = NoMeaning}

TakeDocument ==
  /\ ~rejected /\ ~loaded
  /\ IF observing /\ (accepted = {} \/ Unused # {})
     THEN rejected' = TRUE /\ UNCHANGED loaded
     ELSE loaded' = TRUE /\ UNCHANGED rejected
  /\ UNCHANGED <<observing, accepted, semantics>>

PolicyNext == (\E row \in Rows : TakeRow(row)) \/ TakeDocument

PolicySpec == PolicyInit /\ [][PolicyNext]_policyVars

-----------------------------------------------------------------------------
(* Properties. *)

\* How a market with a meaning settles when the underlying settles at a value.
Yes(meaning, value) ==
  IF meaning.range THEN meaning.from <= value /\ value <= meaning.to ELSE value > meaning.from

\* Legs of a row that pay, when every market settles by what it was taken to mean.
Paying(row, value) ==
  {i \in 1..3 : IF i = 1 THEN Yes(semantics[row.markets[i]], value)
                         ELSE ~Yes(semantics[row.markets[i]], value)}

\* The $2 floor: of every basket taken, two legs pay whatever value all markets of
\* the document are settled by, and also when all three markets settle NO.
TwoLegsPay ==
  \A row \in accepted, value \in Settlement :
    \E i, j \in Paying(row, value) : i # j

\* What one row says about the markets, the others being as they are.
Consistent(rows) ==
  /\ \A row \in rows : row.id > 0 /\ Known(row) /\ Geometry(row) /\ Distinct(row)
  /\ \A r, s \in rows : r # s =>
       /\ r.id # s.id /\ r.key # s.key /\ r.markets # s.markets
       /\ \A i, j \in 1..3 : r.markets[i] = s.markets[j] => Means(r)[i] = Means(s)[j]

\* Rows are compared with what was learned before them, but what is accepted does
\* not depend on their order: it is consistent as a whole, and a row is accepted
\* next to others when and only when it leaves the whole consistent.
AcceptsConsistent ==
  /\ Consistent(accepted)
  /\ accepted # {} => \A row \in Rows \ accepted : Valid(row) <=> Consistent(accepted \cup {row})

\* What is accepted is consistent, in any order, and has its floor.
PolicySound == TwoLegsPay /\ AcceptsConsistent
==============================================================================
