------------------------------- MODULE MCScreens -------------------------------
(* What a screen of a snapshot is made of: the registry of constraints and the *)
(* documents it is loaded from (Constraints, Metadata), the searches for the   *)
(* size of a pair and of a basket (PairSizing, BasketSizing), and the screen   *)
(* of rows itself (Screen).                                                    *)
EXTENDS Metadata

CONSTANTS
  MaxEntries,   \* bound: entries of a kind in a document
  MaxQuantity   \* bound: largest quantity of a leg of a portfolio

VARIABLES
  study,
  \* PairSizing and BasketSizing
  depth, limits, cursor, first, stretch, intervals, quantity, best, evaluated, pruned, funded,
  diagnostic, status,
  \* Screen
  input, stage, report, screened, complete

metadataVars == <<markets, document, phase, index, error>>
pairVars == <<depth, limits, cursor, first, stretch, intervals, best, evaluated, pruned, funded,
              status>>
basketVars == <<depth, limits, cursor, quantity, best, evaluated, funded, diagnostic, status>>
searchVars == <<pairVars, quantity, diagnostic>>
screenVars == <<input, stage, report, screened, complete>>

-----------------------------------------------------------------------------
(* Documents: entries that agree and disagree in each of the ways that matter. *)

MCMarket == 0..2
MCId == 0..3

Implies(id, key, a, b) ==
  [id |-> id, version |-> 1, key |-> key, kind |-> "implication", first |-> a, second |-> b]
Complements(id, key, a, b) == [Implies(id, key, a, b) EXCEPT !.kind = "complement"]

MCEntries ==
  {Implies(1, "a", 1, 2), Implies(2, "b", 2, 1), Complements(2, "a", 1, 2),
   Complements(1, "b", 1, 1), Complements(0, "a", 1, 2), Implies(1, "", 1, 2),
   [Implies(2, "b", 1, 2) EXCEPT !.version = 0], Implies(2, "b", 0, 2)}

MCDocuments ==
  [markets : BoundedSeq([id : {0, 1, 2}, ticker : {"A", "B"}] \cup {[id |-> 1, ticker |-> ""]},
                        MaxEntries),
   constraints : BoundedSeq(MCEntries, MaxEntries)]

-----------------------------------------------------------------------------
(* Searches.  Levels of a pair: none, one, and two of different prices, of less *)
(* than a step to more than the cap; of a basket: levels that end between two   *)
(* whole contracts, on one, or beyond the cap.  Enough cash for everything or   *)
(* for a few contracts; a budget that suffices or not.                          *)

Level(price, amount) == [price |-> price, quantity |-> amount]
Fee(coefficient, quantum) == [coefficient |-> coefficient, quantum |-> quantum]

PairFees == {Fee(1, 25), Fee(4, 1)}
PairQuantities == {1, 4, 13}

PairLevels ==
  {<<>>} \cup {<<Level(p, q)>> : p \in {2, 5}, q \in PairQuantities}
         \cup {<<Level(2, q), Level(p, r)>> : p \in {4, 5}, q \in PairQuantities, r \in PairQuantities}

PairDepths == [levels : PairLevels, fee : PairFees]

PairLimits ==
  {[cap |-> 13, available |-> a, minimum |-> m, max_evaluations |-> e] :
     a \in {120, 900}, m \in {0, 9}, e \in {3, 20}}

Pair ==
  INSTANCE PairSizing
    WITH PriceScale <- 10, CoefficientScale <- 5, MaxCash <- 1000, MaxQuantity <- 20, Step <- 2,
         Fees <- PairFees, Depths <- PairDepths, Limits <- PairLimits

BasketFees == {Fee(1, 7), Fee(4, 1)}

BasketLevels ==
  {<<>>, <<Level(2, 1)>>, <<Level(1, 1), Level(3, 1), Level(6, 7)>>}
    \cup {<<Level(2, q), Level(p, 6)>> : p \in {4, 7}, q \in {1, 3}}
    \cup {<<Level(2, 4), Level(4, 6)>>}

BasketDepths == [levels : BasketLevels, fee : BasketFees]

BasketLimits ==
  {[cap |-> 8, available |-> a, minimum |-> m, max_evaluations |-> e] :
     a \in {90, 500}, m \in {0, 6}, e \in {2, 9}}

Basket ==
  INSTANCE BasketSizing
    WITH PriceScale <- 10, CoefficientScale <- 5, MaxCash <- 1000, MaxQuantity <- 20, Step <- 1,
         Whole <- 2, Fees <- BasketFees, Depths <- BasketDepths, Limits <- BasketLimits

ASSUME Pair!PairConstants /\ Basket!BasketConstants

-----------------------------------------------------------------------------
(* Screens at the instant 3, of two rows that share a market or two. *)

Shown(m, asked, received, yes) ==
  [market |-> m, requested |-> asked, received |-> received, crossed |-> FALSE,
   depth |-> [outcome \in {"yes", "no"} |-> IF outcome = "yes" THEN yes ELSE 1]]

\* None, recent, read within an instant, slow, old, without YES to buy.
BooksOf(m) ==
  {<<>>} \cup {<<Shown(m, b[1], b[2], b[3])>> :
                 b \in {<<2, 3, 1>>, <<2, 2, 1>>, <<1, 3, 1>>, <<0, 1, 1>>, <<3, 3, 0>>}}

\* Repeated, crossed, of an unknown market, of the future.
RefusedBooks ==
  {<<Shown(1, 2, 3, 1), Shown(1, 2, 2, 1)>>,
   <<[Shown(1, 2, 3, 1) EXCEPT !.crossed = TRUE], Shown(2, 2, 3, 1)>>, <<Shown(9, 2, 3, 1)>>,
   <<Shown(1, 2, 4, 1), Shown(2, 2, 4, 1)>>, <<Shown(1, 4, 4, 1), Shown(2, 4, 4, 1)>>}

BookLists == {a \o b \o c : a \in BooksOf(1), b \in BooksOf(2), c \in BooksOf(3)} \cup RefusedBooks

FeeOf(m) == [market |-> m, quantum |-> 100]
FeeLists == {<<FeeOf(1), FeeOf(2), FeeOf(3)>>, <<FeeOf(3), FeeOf(2)>>}

Leg(m, outcome) == [market |-> m, outcome |-> outcome]
RowLegs(basket) ==
  IF basket
  THEN <<<<Leg(1, "yes"), Leg(2, "no"), Leg(3, "no")>>, <<Leg(2, "yes"), Leg(1, "no"), Leg(3, "no")>>>>
  ELSE <<<<Leg(1, "yes"), Leg(2, "no")>>, <<Leg(2, "yes"), Leg(3, "no")>>>>

ScreenInputs ==
  {[basket |-> basket, markets |-> {1, 2, 3},
    rows |-> {[id |-> 1, legs |-> RowLegs(basket)[1], needs |-> needs[1], verdict |-> "optimal"],
              [id |-> 2, legs |-> RowLegs(basket)[2], needs |-> needs[2],
               verdict |-> "no_positive_margin"]},
    books |-> books, fees |-> fees, as_of |-> 3, max_age |-> 2, max_skew |-> 1,
    total_budget |-> total, row_budget |-> budget] :
     basket \in BOOLEAN, needs \in {<<1, 1>>, <<2, 1>>, <<1, 2>>, <<2, 2>>, <<3, 1>>},
     books \in BookLists, fees \in FeeLists, total \in 1..3, budget \in 1..2}

Screening ==
  INSTANCE Screen WITH Inputs <- ScreenInputs, Modulus <- 8, evaluated <- screened

ASSUME Screening!ScreenConstants

-----------------------------------------------------------------------------
(* One of them at a time. *)

NoSearch ==
  /\ depth = <<>> /\ limits = <<>> /\ cursor = <<>> /\ first = 0 /\ stretch = <<>>
  /\ intervals = <<>> /\ quantity = 0 /\ best = <<>> /\ evaluated = 0 /\ pruned = 0
  /\ funded = FALSE /\ diagnostic = <<>> /\ status = "none"

NoScreen == input = <<>> /\ stage = "none" /\ report = <<>> /\ screened = 0 /\ complete = FALSE

NoDocument == document = [markets |-> <<>>, constraints |-> <<>>]

MCInit ==
  \/ study \in {"registry", "document"} /\ NoSearch /\ NoScreen
       /\ (study = "registry" => NoDocument) /\ Init
  \/ study = "pair" /\ Pair!Init /\ quantity = 0 /\ diagnostic = <<>>
       /\ NoScreen /\ NoDocument /\ Init
  \/ study = "basket" /\ Basket!Init /\ first = 0 /\ stretch = <<>> /\ intervals = <<>>
       /\ pruned = 0 /\ NoScreen /\ NoDocument /\ Init
  \/ study = "screen" /\ Screening!ScreenInit /\ NoSearch /\ NoDocument /\ Init

\* A search ends with a status, a screen when it is done or rejected.
Ended ==
  \/ study \in {"pair", "basket"} /\ status \notin {"start", "search", "interval"}
  \/ study = "screen" /\ stage \in {"done", "rejected"}

MCNext ==
  /\ \/ study = "registry" /\ RegistryNext /\ UNCHANGED <<metadataVars, searchVars, screenVars>>
     \/ study = "document" /\ Next /\ UNCHANGED <<searchVars, screenVars>>
     \/ study = "pair" /\ Pair!Next /\ UNCHANGED <<vars, quantity, diagnostic, screenVars>>
     \/ study = "basket" /\ Basket!Next
          /\ UNCHANGED <<vars, first, stretch, intervals, pruned, screenVars>>
     \/ study = "screen" /\ Screening!ScreenNext /\ UNCHANGED <<vars, searchVars>>
     \/ Ended /\ UNCHANGED <<vars, searchVars, screenVars>>
  /\ UNCHANGED study

MCSpec == MCInit /\ [][MCNext]_<<study, vars, searchVars, screenVars>>

-----------------------------------------------------------------------------
(* Properties. *)

\* "Exact on the configured grid": the searches for a size (src/src/core/net_sizing.cpp,
\* src/src/core/basket_sizing.cpp) answer what trying every quantity from scratch
\* would, whatever they prune or remember, and end early only for want of a budget.
SizesAreExact ==
  /\ study = "pair" => Pair!ExactOnGrid /\ Pair!BudgetSuffices
  /\ study = "basket" => Basket!BasketIsExact /\ Basket!DiagnosticIsOneContract

\* A screen (src/src/cli/market_screen.cpp, src/src/cli/basket_screen.cpp) searches rows
\* only on books that belong together, and unless it says that it is incomplete, no
\* row shows that it shared a budget with others.
ScreenIsSound ==
  study = "screen" =>
    /\ Screening!OnlySynchronous /\ Screening!CompleteIsStandalone
    /\ Screening!BudgetShared /\ Screening!IncompleteOnlyIfShort

\* A document is loaded exactly when it is valid as a whole, in whatever order, and
\* the registration that has no way back never refuses
\* (src/src/gateway/kalshi/metadata_snapshot.cpp).
LoadIsExact ==
  study = "document" => LoadsExactlyValid /\ DependenciesInOrder /\ AddNeverRefuses

Outcome == {"yes", "no"}
Portfolios(d) ==
  LET Sizes == [market : {d.first, d.second}, outcome : Outcome, quantity : 0..MaxQuantity]
  IN  {<<a>> : a \in Sizes} \cup {<<a, b>> : a, b \in Sizes}

Payoff(resolution, portfolio) ==
  FoldLeft(LAMBDA sum, leg :
             IF Pays(leg.outcome, resolution[leg.market]) THEN sum + leg.quantity ELSE sum,
           0, portfolio)

\* What verify_payoff (src/src/constraint/payoff.cpp) returns for any portfolio on the
\* two markets of a constraint is the least it pays over all resolutions that the
\* relationship allows, or an error when a leg is empty or some payout is beyond the
\* largest cash; a guaranteed portfolio pays exactly its quantity at least.
VerifiesExactly(d) ==
  LET allowed   == {r \in [{d.first, d.second} -> BOOLEAN] : Holds(d, r)}
      paid(p)   == {Payoff(r, p) : r \in allowed}
      Fits(p)   == \A n \in paid(p) : n <= MaxPayout
      least(p)  == CHOOSE n \in paid(p) : \A o \in paid(p) : n <= o
      verified(p) == Verify(Worlds(d), p)
  IN  /\ \A p \in Portfolios(d) :
           IF \A i \in DOMAIN p : p[i].quantity > 0
           THEN verified(p) = IF Fits(p) THEN Sum(least(p)) ELSE Failed("payout_overflow")
           ELSE verified(p) = Failed("zero_quantity")
      /\ \A q \in 0..MaxQuantity :
           Guaranteed(d, q) = CASE q = 0               -> Failed("zero_quantity")
                                [] Fits(Sized(d, q))   -> Sum(q)
                                [] OTHER               -> Failed("payout_overflow")

\* And of every registered constraint one leg wins in every such resolution.
PayoffsAreExact ==
  study = "registry" => OneLegPays /\ \A d \in Registered : VerifiesExactly(d)
==============================================================================
