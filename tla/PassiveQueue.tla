---------------------------- MODULE PassiveQueue ----------------------------
(***************************************************************************)
(* The queue estimate of a hypothetical resting order                      *)
(* (src/include/eme/core/passive_queue.hpp), in its two scenarios, against *)
(* an order-level venue.  The venue knows how much really rests ahead of   *)
(* the order; its feed reports trades and depth changes on two channels,   *)
(* each in order, neither in step with the other.                          *)
(***************************************************************************)
EXTENDS Integers, Sequences, Sums

CONSTANTS
  Displayed,   \* depth at the price when the order starts to rest
  Wanted,      \* quantity of the order
  Window,      \* reconciliation window
  Budget,      \* changes a queue may hold (1024)
  MaxJoined,   \* bound: quantity that joins behind the order
  MaxEvents,   \* bound: changes at the venue
  MaxTime      \* bound: the clock

ASSUME QueueConstants ==
  /\ Displayed \in Nat /\ Wanted \in Nat /\ Window \in Nat /\ Budget \in Nat
  /\ MaxJoined \in Nat /\ MaxEvents \in Nat /\ MaxTime \in Nat

VARIABLES
  queue,    \* queue[favorable]: the two estimates, see NewQueue
  estimated, \* estimated[favorable]: what the estimate has filled of the order
  failed,   \* the reconciliation budget was exceeded: the analysis ends
  venue,    \* [ahead, behind, filled, joined, events]: the truth
  books,    \* depth changes on their way, see VenueChanges
  trades,   \* trades on their way: [time, quantity, event]
  seen,     \* [trades, cancelled]: totals the estimates have been told of
  now

vars == <<queue, estimated, failed, venue, books, trades, seen, now>>

Smaller(a, b) == IF a < b THEN a ELSE b
Positive(a) == IF a > 0 THEN a ELSE 0
TotalOf(changes) == SumOf([i \in DOMAIN changes |-> changes[i].quantity])

NewQueue(displayed, favorable) ==
  [ahead |-> displayed, displayed |-> displayed, favorable |-> favorable,
   reductions |-> <<>>, credits |-> <<>>]

-----------------------------------------------------------------------------
(* PassiveQueue. *)

\* How many changes the loop takes from the front.
Stale(changes, time) ==
  CHOOSE k \in 0..Len(changes) :
    /\ \A i \in 1..k : time - changes[i].time > Window
    /\ k < Len(changes) => time - changes[k + 1].time <= Window

Expired(changes, time) == SubSeq(changes, 1, Stale(changes, time))
Current(changes, time) == SubSeq(changes, Stale(changes, time) + 1, Len(changes))

\* advance(): reductions no trade explained within the window advance the
\* order in the favorable scenario; credits no reduction explained are dropped.
Advance(q, time) ==
  [q EXCEPT !.ahead = IF q.favorable THEN Positive(@ - TotalOf(Expired(q.reductions, time))) ELSE @,
            !.reductions = Current(@, time),
            !.credits = Current(@, time)]

\* match(): quantity uses up the oldest changes first, some of them whole and
\* a part of the next.
WholeChanges(changes, quantity) ==
  CHOOSE k \in 0..Len(changes) :
    /\ TotalOf(SubSeq(changes, 1, k)) <= quantity
    /\ k < Len(changes) => quantity < TotalOf(SubSeq(changes, 1, k + 1))

Match(changes, quantity) ==
  LET k == WholeChanges(changes, quantity)
      part == quantity - TotalOf(SubSeq(changes, 1, k))
      rest == SubSeq(changes, k + 1, Len(changes))
  IN  IF rest = <<>> THEN <<>>
      ELSE <<[Head(rest) EXCEPT !.quantity = @ - part]>> \o Tail(rest)

Unmatched(changes, quantity) == Positive(quantity - TotalOf(changes))

Overflows(changes, quantity) == quantity # 0 /\ Len(changes) >= Budget

Added(changes, time, quantity) ==
  IF quantity = 0 THEN changes ELSE Append(changes, [time |-> time, quantity |-> quantity])

Reduction(q, displayed) == Positive(q.displayed - displayed)

\* depth(): what the displayed quantity lost and no trade explains yet.
DepthOverflows(q, time, displayed) ==
  LET a == Advance(q, time)
  IN  Overflows(a.reductions, Unmatched(a.credits, Reduction(a, displayed)))

\* Mutant of Depth: a reduction is not compared with earlier trades.
DepthAlwaysReduces(q, time, displayed) ==
  LET a == Advance(q, time)
  IN  [a EXCEPT !.displayed = displayed,
                !.reductions = Added(@, time, Reduction(a, displayed))]

Depth(q, time, displayed) ==
  LET a == Advance(q, time)
      reduction == Reduction(a, displayed)
  IN  [a EXCEPT !.displayed = displayed,
                !.credits = Match(@, reduction),
                !.reductions = Added(@, time, Unmatched(a.credits, reduction))]

TradeOverflows(q, time, quantity) ==
  LET a == Advance(q, time)
  IN  Overflows(a.credits, Unmatched(a.reductions, quantity))

\* trade(): exact-price trades consume what is ahead, then the order.
Trade(q, time, quantity) ==
  LET a == Advance(q, time)
  IN  [a EXCEPT !.reductions = Match(@, quantity),
                !.credits = Added(@, time, Unmatched(a.reductions, quantity)),
                !.ahead = @ - Smaller(@, quantity)]

\* Mutant of TradeFills: the queue ahead does not shield the order.
TradeFillsAtOnce(q, time, quantity, remaining) == Smaller(remaining, quantity)

TradeFills(q, time, quantity, remaining) ==
  LET ahead == Advance(q, time).ahead
  IN  Smaller(remaining, quantity - Smaller(ahead, quantity))

-----------------------------------------------------------------------------
(* The venue and its feed (external). *)

Init ==
  /\ queue = [f \in BOOLEAN |-> NewQueue(Displayed, f)]
  /\ estimated = [f \in BOOLEAN |-> 0]
  /\ failed = FALSE
  /\ venue = [ahead |-> Displayed, behind |-> 0, filled |-> 0, joined |-> 0, events |-> 0]
  /\ books = <<>> /\ trades = <<>>
  /\ seen = [trades |-> 0, cancelled |-> 0]
  /\ now = 0

\* A change at the venue and the depth it leaves.  The number of the change and
\* what it removed are not part of the report: no frame reads them.
VenueChanges(ahead, behind, fills, joins, cancels, traded) ==
  /\ ~failed /\ venue.events < MaxEvents
  /\ venue' = [ahead |-> ahead, behind |-> behind, filled |-> venue.filled + fills,
               joined |-> venue.joined + joins, events |-> venue.events + 1]
  /\ books' = Append(books, [time |-> now, displayed |-> ahead + behind,
                             cancelled |-> cancels, quantity |-> traded, event |-> venue.events + 1])
  /\ UNCHANGED <<queue, estimated, failed, seen, now>>

Joins ==
  /\ venue.joined < MaxJoined
  /\ VenueChanges(venue.ahead, venue.behind + 1, 0, 1, 0, 0)
  /\ UNCHANGED trades

CancelsAhead(q) ==
  /\ q <= venue.ahead
  /\ VenueChanges(venue.ahead - q, venue.behind, 0, 0, q, 0)
  /\ UNCHANGED trades

CancelsBehind(q) ==
  /\ q <= venue.behind
  /\ VenueChanges(venue.ahead, venue.behind - q, 0, 0, q, 0)
  /\ UNCHANGED trades

\* A trade takes what is ahead, then, where the order would have been, the
\* order's share, from those behind.
Trades(q) ==
  LET front == Smaller(venue.ahead, q)
  IN  /\ q <= venue.ahead + venue.behind
      /\ VenueChanges(venue.ahead - front, venue.behind - (q - front),
                      Smaller(Wanted - venue.filled, q - front), 0, 0, q)
      /\ trades' = Append(trades, [time |-> now, quantity |-> q, event |-> venue.events + 1])

\* The clock moves on while every report is at most Window late.
Tick ==
  /\ ~failed /\ now < MaxTime
  /\ \A i \in DOMAIN books : now < books[i].time + Window
  /\ \A i \in DOMAIN trades : now < trades[i].time + Window
  /\ now' = now + 1
  /\ UNCHANGED <<queue, estimated, failed, venue, books, trades, seen>>

-----------------------------------------------------------------------------
(* The frames of the feed, as the probe hands them to both estimates. *)

DepthFrame ==
  LET b == Head(books)
      overflow == \E f \in BOOLEAN : DepthOverflows(queue[f], now, b.displayed)
  IN  /\ ~failed /\ books # <<>>
      /\ books' = Tail(books)
      /\ failed' = overflow
      /\ queue' = IF overflow THEN queue
                  ELSE [f \in BOOLEAN |-> Depth(queue[f], now, b.displayed)]
      /\ seen' = [seen EXCEPT !.cancelled = @ + b.cancelled]
      /\ UNCHANGED <<estimated, venue, trades, now>>

TradeFrame ==
  LET t == Head(trades)
      overflow == \E f \in BOOLEAN : TradeOverflows(queue[f], now, t.quantity)
  IN  /\ ~failed /\ trades # <<>>
      /\ trades' = Tail(trades)
      /\ failed' = overflow
      /\ queue' = IF overflow THEN queue ELSE [f \in BOOLEAN |-> Trade(queue[f], now, t.quantity)]
      /\ estimated' = IF overflow THEN estimated
                   ELSE [f \in BOOLEAN |->
                           estimated[f] + TradeFills(queue[f], now, t.quantity, Wanted - estimated[f])]
      /\ seen' = [seen EXCEPT !.trades = @ + t.quantity]
      /\ UNCHANGED <<venue, books, now>>

\* Any other frame of the feed.
OtherFrame ==
  /\ ~failed
  /\ queue' = [f \in BOOLEAN |-> Advance(queue[f], now)]
  /\ UNCHANGED <<estimated, failed, venue, books, trades, seen, now>>

Next ==
  \/ Joins
  \/ \E q \in 1..(Displayed + MaxJoined) : CancelsAhead(q) \/ CancelsBehind(q) \/ Trades(q)
  \/ Tick
  \/ DepthFrame \/ TradeFrame \/ OtherFrame

Spec == Init /\ [][Next]_vars

-----------------------------------------------------------------------------
(* Properties. *)

\* The conservative estimate is never nearer to the front than the order
\* really would be, and never fills more than the venue would have, however
\* the two channels are interleaved.
ConservativeIsSafe == queue[FALSE].ahead >= venue.ahead /\ estimated[FALSE] <= venue.filled

\* "Depth reductions cannot create fills" and are never counted twice: what
\* advanced the favorable estimate is at most what was reported as traded or
\* cancelled, whichever of a trade's two reports came first, as long as both
\* arrive within the window.
RemovalsCountOnce == queue[TRUE].ahead >= Displayed - seen.trades - seen.cancelled
=============================================================================
