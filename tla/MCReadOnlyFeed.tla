--------------------------- MODULE MCReadOnlyFeed ----------------------------
(* The protocol of a feed is chosen when it is made: the shared one with    *)
(* public trades has this module's constants, the other is PerMarket.       *)
EXTENDS ReadOnlyFeed

CONSTANTS m1, m2, m3

VARIABLE protocol

mcVars == <<fvars, protocol>>

MCLevelLists == {<<>>, <<[price |-> 1, quantity |-> 1]>>}
MCChange == {-1}
MCGeneration == 1..2
MCSequence == 1..3
MCSelection == <<m1, m2>>

PerMarket == INSTANCE ReadOnlyFeed WITH Scope <- "per_book", Protocol <- "per_market_v1"

MCInit == FeedInit /\ protocol \in {"per_market_v1", "book_and_trades_v1"}

MCNext ==
  /\ \/ protocol = "book_and_trades_v1" /\ FeedNext
     \/ protocol = "per_market_v1" /\ PerMarket!FeedNext
  /\ UNCHANGED protocol

MCSpec == MCInit /\ [][MCNext]_mcVars

\* ReportsAreTrue under the protocol explored: the feed's flags and the market state
\* agree on the connection, and ready(), which counts books, means that every
\* selected market has a valid one.
ReportsAreTrueInBoth ==
  IF protocol = "per_market_v1" THEN PerMarket!ReportsAreTrue ELSE ReportsAreTrue
=============================================================================
