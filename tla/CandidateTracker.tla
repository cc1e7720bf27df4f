-------------------------- MODULE CandidateTracker ---------------------------
(***************************************************************************)
(* opportunity::CandidateTracker (src/opportunity/candidate_tracker.cpp):  *)
(* for every compiled constraint, the executable quote of its two legs, if *)
(* there is one.  The tracker is told which market changed and evaluates   *)
(* only the constraints that depend on it, unless the connection changed.  *)
(*                                                                         *)
(* A step is what replay and the capture runner do with one input: the     *)
(* MarketState operation, then refresh for a book update or refresh_all    *)
(* for a connection operation.                                             *)
(***************************************************************************)
EXTENDS MarketState, FiniteSets, FiniteSetsExt

CONSTANTS
  Constraint,   \* compiled constraints (ids)
  LegsOf,       \* constraint -> its two legs, each a market and an outcome
  Scale,        \* Price::scale: what a contract pays
  MaxCash       \* the largest cash amount

ASSUME TrackerConstants ==
  /\ IsFiniteSet(Constraint)
  /\ Scale \in Nat /\ Price \subseteq 1..(Scale - 1)
  /\ MaxCash \in Nat
  /\ LegsOf \in [Constraint -> [{1, 2} -> [market : Market, outcome : {"yes", "no"}]]]

VARIABLES
  current,       \* constraint -> quote, or None
  active_count,  \* active_count_
  seen_generation, seen_connected   \* generation_ and connected_ of the tracker

trackerVars == <<current, active_count, seen_generation, seen_connected>>
tvars == <<connection_generation, connected, known, books, stream_sequences,
           current, active_count, seen_generation, seen_connected>>

TrackerInit ==
  /\ MarketInit
  /\ current = [c \in Constraint |-> None]
  /\ active_count = 0
  /\ seen_generation = 0
  /\ seen_connected = FALSE

-----------------------------------------------------------------------------
(* The quote of a constraint in the market state of the moment. *)

\* Prices with liquidity on one side of a book, and its best one: buying YES
\* takes the lowest ask, buying NO takes the highest YES bid.
Offered(market, side) == {p \in Price : Shown(books[market], side)[p] > 0}

LegSide(leg) == IF leg.outcome = "yes" THEN "ask" ELSE "bid"

BestLevel(leg) ==
  LET offered == Offered(leg.market, LegSide(leg))
  IN  IF leg.outcome = "yes" THEN Min(offered) ELSE Max(offered)

\* The leg's price in its own outcome, and the quantity at its best level.
LegPrice(leg) == IF leg.outcome = "yes" THEN BestLevel(leg) ELSE Scale - BestLevel(leg)
LegQuantity(leg) == Shown(books[leg.market], LegSide(leg))[BestLevel(leg)]

Quoted(c) ==
  /\ connected
  /\ \A i \in {1, 2} :
       /\ LegsOf[c][i].market \in ValidBooks
       /\ Offered(LegsOf[c][i].market, LegSide(LegsOf[c][i])) # {}

\* Mutant of Quote: a basket that costs what it pays is quoted.
QuoteAtPar(c) ==
  IF ~Quoted(c) THEN None
  ELSE LET price == [i \in {1, 2} |-> LegPrice(LegsOf[c][i])]
           quantity == Min({LegQuantity(LegsOf[c][i]) : i \in {1, 2}})
       IN  IF price[1] + price[2] > Scale THEN None
           ELSE [prices |-> price, quantity |-> quantity,
                 cost |-> (price[1] + price[2]) * quantity, payout |-> quantity * Scale]

\* quote(): None stands for every InvalidationReason.
Quote(c) ==
  IF ~Quoted(c) THEN None
  ELSE LET price == [i \in {1, 2} |-> LegPrice(LegsOf[c][i])]
           quantity == Min({LegQuantity(LegsOf[c][i]) : i \in {1, 2}})
           sum == price[1] + price[2]
       IN  IF sum >= Scale \/ quantity * Scale > MaxCash THEN None
           ELSE [prices |-> price, quantity |-> quantity,
                 cost |-> sum * quantity, payout |-> quantity * Scale]

-----------------------------------------------------------------------------
(* refresh and refresh_all, run on the state the market operation leaves. *)

Dependent(market) == {c \in Constraint : \E i \in {1, 2} : LegsOf[c][i].market = market}

\* evaluate for each constraint of `cs`, with the count kept by increments.
Evaluate(cs) ==
  LET gained == {c \in cs : current[c] = None /\ Quote(c)' # None}
      lost == {c \in cs : current[c] # None /\ Quote(c)' = None}
  IN  /\ current' = [c \in Constraint |-> IF c \in cs THEN Quote(c)' ELSE current[c]]
      /\ active_count' = active_count + Cardinality(gained) - Cardinality(lost)

RefreshAll ==
  /\ seen_connected' = connected'
  /\ seen_generation' = connection_generation'
  /\ Evaluate(Constraint)

\* Mutant of Refresh: trusts that only the named market changed.
RefreshDependentOnly(market) ==
  Evaluate(Dependent(market)) /\ UNCHANGED <<seen_generation, seen_connected>>

Refresh(market) ==
  IF seen_generation # connection_generation' \/ seen_connected # connected'
  THEN RefreshAll
  ELSE Evaluate(Dependent(market)) /\ UNCHANGED <<seen_generation, seen_connected>>

TrackerNext ==
  \/ \E g \in Generation : OpenConnection(g) /\ RefreshAll
  \/ \E g \in Generation : CloseConnection(g) /\ RefreshAll
  \/ \E m \in Market : BeginRecovery(m) /\ RefreshAll
  \/ \E u \in Snapshot : ApplySnapshot(u) /\ Refresh(u.market)
  \/ \E u \in Delta : ApplyDelta(u) /\ Refresh(u.market)

TrackerSpec == TrackerInit /\ [][TrackerNext]_tvars

-----------------------------------------------------------------------------
(* Properties. *)

\* After every input the incremental tracker holds what evaluating every
\* constraint from scratch would: no candidate outlives the book, the
\* connection or the liquidity it was quoted from, and none is overlooked.
\* The count kept by increments is the number of quoted constraints.
TrackerIsCurrent ==
  /\ \A c \in Constraint : current[c] = Quote(c)
  /\ active_count = Cardinality({c \in Constraint : current[c] # None})

\* A candidate is worth its price: it pays more than it costs, and every leg's
\* whole quantity is on offer in a valid book.
CandidateIsExecutable ==
  \A c \in Constraint : current[c] # None =>
    /\ current[c].cost < current[c].payout
    /\ \A i \in {1, 2} :
         LET leg == LegsOf[c][i]
         IN  \E p \in Price :
               /\ current[c].prices[i] = IF leg.outcome = "yes" THEN p ELSE Scale - p
               /\ books[leg.market].state = "valid"
               /\ books[leg.market].levels[LegSide(leg)][p] >= current[c].quantity
==============================================================================
