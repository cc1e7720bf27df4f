------------------------ MODULE MCBasketObservation ------------------------
(* The baskets of an observation are read (BasketPolicy) and observed.     *)
(* Two studies are observed.  Two baskets that use one market on opposite  *)
(* sides, so that an update opens one and closes the other; and One        *)
(* basket, whose stream reconnects and any of whose books may be rejected. *)
EXTENDS BasketObservation, BasketPolicy

VARIABLE reading   \* rows are read, or baskets observed

-----------------------------------------------------------------------------
MCMarkets == {"m1", "m2", "m3", "m4", "m5"}
MCLegs == << <<"m2", "m1", "m3">>, <<"m1", "m4", "m5">> >>
MCShown == [m \in MCMarkets |-> IF m = "m1" THEN {2, 8, Crossed} ELSE {5}]

MCMarketsOne == {"m1", "m2", "m3"}
MCLegsOne == << <<"m1", "m2", "m3">> >>
MCShownOne == [m \in MCMarketsOne |-> IF m = "m1" THEN {2, 7} ELSE {5}]

One == INSTANCE BasketObservation
         WITH Markets <- MCMarketsOne, Legs <- MCLegsOne, Shown <- MCShownOne,
              Fragile <- MCMarketsOne, MaxGeneration <- 2

TwoBaskets == Len(seen.baskets) = 2

-----------------------------------------------------------------------------
(* Rows.  Thresholds in order and not, touching and apart; markets that are  *)
(* shared in the same and in another role, repeated and unknown.             *)

MCIntervals ==
  {[a |-> 0, b |-> 2, lower |-> 1, upper |-> 2], [a |-> 0, b |-> 1, lower |-> 1, upper |-> 1],
   [a |-> 2, b |-> 4, lower |-> 3, upper |-> 4], [a |-> 0, b |-> 4, lower |-> 1, upper |-> 2],
   [a |-> 1, b |-> 2, lower |-> 1, upper |-> 2]}

MCTriples ==
  {<<1, 2, 3>>, <<2, 4, 3>>, <<2, 4, 5>>, <<3, 4, 5>>, <<1, 4, 3>>, <<1, 4, 6>>, <<1, 1, 3>>,
   <<1, 2, 9>>}

\* Ids and keys that are apart, repeated and not allowed.
MCNames == {<<0, "p">>, <<1, "p">>, <<2, "q">>, <<3, "r">>, <<3, "q">>, <<1, "s">>}

MCRows ==
  {[id |-> n[1], key |-> n[2], markets |-> t, a |-> v.a, b |-> v.b, lower |-> v.lower,
    upper |-> v.upper] : n \in MCNames, t \in MCTriples, v \in MCIntervals}

-----------------------------------------------------------------------------
mcVars == <<reading, observationVars, policyVars>>

MCInit ==
  /\ reading \in BOOLEAN /\ PolicyInit
  /\ IF reading THEN One!ObservationInit ELSE observing /\ (ObservationInit \/ One!ObservationInit)

MCNext ==
  /\ IF reading THEN PolicyNext /\ UNCHANGED observationVars
     ELSE /\ IF TwoBaskets THEN ObservationNext ELSE One!ObservationNext
          /\ UNCHANGED policyVars
  /\ UNCHANGED reading

MCSpec == MCInit /\ [][MCNext]_mcVars

\* The two reported times of positive quotes (src/src/session/basket_observation.cpp)
\* are those of the reported episodes, and the peak counts baskets that are positive on
\* the same books, in both studies.
TimesInBoth == IF TwoBaskets THEN TimesAreEpisodes ELSE One!TimesAreEpisodes
PeakInBoth == IF TwoBaskets THEN PeakIsOfPositive ELSE One!PeakIsOfPositive
AccountingIsExact == []TimesInBoth /\ [][PeakInBoth]_observationVars

\* No episode reaches past the earliest end of the window, however wall clocks are set
\* back, or outlives the books it was found on.
EpisodesAreReal ==
  IF TwoBaskets THEN NothingPastHorizon /\ ActiveOnCurrentBooks
  ELSE One!NothingPastHorizon /\ One!ActiveOnCurrentBooks
============================================================================
