--------------------------- MODULE MCVenueReplica ----------------------------
(* The scope of a MarketState is chosen when it is made: both are explored, *)
(* the shared scope with this module's constants, the other by PerBook.     *)
EXTENDS VenueReplica, TLC

VARIABLE scope

mcVars == <<replicaVars, scope>>

MCLevelLists == {<<>>, <<[price |-> 1, quantity |-> 1]>>}
MCChange == {-1, 1}
MCGeneration == 1..2
MCSequence == 1..MaxLog

OneStream == [m \in Market |-> 1]
OwnStream == CHOOSE f \in [Market -> Stream] : \A m, n \in Market : f[m] = f[n] => m = n

PerBook == INSTANCE VenueReplica WITH Scope <- "per_book", StreamOf <- OwnStream

MCInit == ReplicaInit /\ scope \in {"per_book", "shared_stream"}

MCNext ==
  /\ \/ scope = "shared_stream" /\ ReplicaNext
     \/ scope = "per_book" /\ PerBook!ReplicaNext
  /\ UNCHANGED scope

MCSpec == MCInit /\ [][MCNext]_mcVars

\* ValidBookIsVenueBook in the scope explored: a valid book is the venue's.
ValidBookIsVenueBookInBoth ==
  IF scope = "per_book" THEN PerBook!ValidBookIsVenueBook ELSE ValidBookIsVenueBook
=============================================================================
