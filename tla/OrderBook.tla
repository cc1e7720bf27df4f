------------------------------ MODULE OrderBook ------------------------------
(***************************************************************************)
(* The order book of one market (src/book/order_book.cpp).  A book is a    *)
(* value: every operation is an operator from the book before the call to  *)
(* the book after it and the BookUpdateResult it returns.  MarketState     *)
(* keeps one such value per market.                                        *)
(*                                                                         *)
(* Levels of one side are a function from prices to quantities, 0 standing *)
(* for a price that is not a key of the std::map.                          *)
(***************************************************************************)
EXTENDS Integers, Sequences

CONSTANTS
  Price,     \* price ticks a level can have
  Stream,    \* stream ids (the venue's sid)
  MaxQty,    \* the largest quantity a level can hold (int64 max)
  None       \* an absent std::optional

ASSUME BookConstants ==
  /\ MaxQty \in Nat
  /\ None \notin Stream
  /\ None \notin Nat

Side == {"bid", "ask"}
Quantity == 0..MaxQty
Levels == [Price -> Quantity]
BookState == {"empty", "valid", "stale", "recovering"}

BookUpdateResult ==
  {"applied", "requires_snapshot", "stream_mismatch", "sequence_gap",
   "invalid_level", "recovery_not_started", "stale_snapshot"}

Level == [price : Price, quantity : Quantity]

Book == [state : BookState,
         stream_id : Stream \cup {None},
         last_sequence : Nat \cup {None},
         levels : [Side -> Levels]]

NoLevels == [p \in Price |-> 0]

\* The default-constructed book.
EmptyBook ==
  [state |-> "empty", stream_id |-> None, last_sequence |-> None,
   levels |-> [s \in Side |-> NoLevels]]

-----------------------------------------------------------------------------
(* Building one side from the levels of a snapshot. *)

\* load_levels succeeds: no zero quantity and no price twice.
LoadsLevels(source) ==
  \A i \in DOMAIN source :
    /\ source[i].quantity # 0
    /\ \A j \in DOMAIN source : source[i].price = source[j].price => i = j

\* The side load_levels builds.
LoadedLevels(source) ==
  [p \in Price |->
     IF \E i \in DOMAIN source : source[i].price = p
     THEN source[CHOOSE i \in DOMAIN source : source[i].price = p].quantity
     ELSE 0]

-----------------------------------------------------------------------------
(* Transitions. *)

MarkStale(b) == [b EXCEPT !.state = "stale"]

\* A delta or a snapshot can be compared with the book's own stream.
Sequenced(b) ==
  /\ b.state = "valid"
  /\ b.stream_id # None
  /\ b.last_sequence # None

\* Mutant of SnapshotResult: a stale book takes a snapshot without recovery.
SnapshotWithoutRecovery(b, stream, sequence, bids, asks) ==
  IF LoadsLevels(bids) /\ LoadsLevels(asks) THEN "applied" ELSE "invalid_level"

SnapshotResult(b, stream, sequence, bids, asks) ==
  CASE b.state = "stale" -> "recovery_not_started"
    [] Sequenced(b) /\ stream # b.stream_id -> "stream_mismatch"
    [] Sequenced(b) /\ stream = b.stream_id /\ sequence <= b.last_sequence
         -> "stale_snapshot"
    [] OTHER -> IF LoadsLevels(bids) /\ LoadsLevels(asks)
                THEN "applied" ELSE "invalid_level"

\* The book apply_snapshot leaves behind when it returns `result`.
AfterSnapshot(b, stream, sequence, bids, asks, result) ==
  CASE result = "applied" ->
         [state |-> "valid", stream_id |-> stream, last_sequence |-> sequence,
          levels |-> [s \in Side |-> LoadedLevels(IF s = "bid" THEN bids ELSE asks)]]
    [] result \in {"stream_mismatch", "invalid_level"} -> MarkStale(b)
    [] OTHER -> b

\* apply_delta_after: `predecessor` is the sequence number the delta must
\* immediately follow.
DeltaResult(b, stream, predecessor, sequence, side, price, change) ==
  CASE ~Sequenced(b) -> "requires_snapshot"
    [] Sequenced(b) /\ stream # b.stream_id -> "stream_mismatch"
    [] Sequenced(b) /\ stream = b.stream_id
         /\ (predecessor < b.last_sequence \/ sequence # predecessor + 1)
         -> "sequence_gap"
    [] OTHER -> IF b.levels[side][price] + change \in Quantity
                THEN "applied" ELSE "invalid_level"

AfterDelta(b, sequence, side, price, change, result) ==
  CASE result = "applied" ->
         [b EXCEPT !.last_sequence = sequence,
                   !.levels[side][price] = @ + change]
    [] result = "requires_snapshot" -> b
    [] OTHER -> MarkStale(b)

\* apply_delta's predecessor: last_sequence_.value_or(0).
OwnPredecessor(b) == IF b.last_sequence = None THEN 0 ELSE b.last_sequence

CanRecover(b) == b.state = "stale"
Recovering(b) == [b EXCEPT !.state = "recovering"]

-----------------------------------------------------------------------------
(* Reads: a book that is not valid shows no liquidity. *)

Shown(b, side) == IF b.state = "valid" THEN b.levels[side] ELSE NoLevels
==============================================================================
