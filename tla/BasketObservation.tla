------------------------- MODULE BasketObservation -------------------------
(***************************************************************************)
(* The conditional observation of three-leg baskets                        *)
(* (src/session/basket_observation.cpp): from the frames of one shared     *)
(* stream, the time each basket spends in each status, the episodes in     *)
(* which it quotes a positive margin, and the time in which any does.      *)
(*                                                                         *)
(* A market shows one price and one size; the sizing search is reduced to  *)
(* the quote of one contract.  Wall clock readings are free: only the      *)
(* deadline they are mapped to is kept.  An exception ends the study with  *)
(* whatever it had changed, as in the code.                                *)
(***************************************************************************)
EXTENDS Integers, Sequences, FiniteSets, Sums

CONSTANTS
  Markets,
  Legs,         \* the baskets in order: <<lower, upper, range>> markets
  Shown,        \* Shown[m]: what market m may show, prices of 1..Par - 1,
                \* Empty or Crossed
  Fragile,      \* markets whose messages may be rejected or show a gap
  Par,          \* worth of a contract that pays; a basket pays two
  Cash,         \* limits_.available
  MinimumMargin, \* limits_.minimum_margin
  MaxEvents,    \* maximum_events_
  ValidFrom, ValidUntil,  \* wall clock window of the policy
  Wall,         \* readings of the wall clock, ValidUntil standing for any later one
  MaxTime,      \* bound: last time of a frame
  MaxGeneration \* bound: connections

Basket == 1..Len(Legs)
NoData == {"unavailable", "crossed", "expired"}
Eligible == {"no_depth", "unfunded", "nonpositive", "positive"}
Status == NoData \cup Eligible
NoTime == -1
(* What a market shows instead of a price *)
Empty == 0
Invalid == -1
Crossed == -2

ASSUME ObservationConstants ==
  /\ {Par, Cash, MinimumMargin, MaxEvents, ValidFrom, ValidUntil, MaxTime} \subseteq Nat
  /\ ValidFrom < ValidUntil
  /\ Wall \subseteq 0..ValidUntil
  /\ Fragile \subseteq Markets
  /\ Legs \in Seq([1..3 -> Markets])
  /\ \A b \in Basket : \A i, j \in 1..3 : Legs[b][i] = Legs[b][j] => i = j
  /\ \A m \in Markets : Shown[m] \subseteq (1..(Par - 1)) \cup {Empty, Crossed}

VARIABLES
  stream,   \* the market state: [connected, generation, books]
  clock,    \* time of the latest call
  seen,     \* the observer, see Init
  horizon   \* history: earliest time an accepted wall clock mapped the end to

observationVars == <<stream, clock, seen, horizon>>

ObservationInit ==
  /\ stream = [connected |-> FALSE, generation |-> 0, books |-> [m \in Markets |-> Invalid]]
  /\ clock = 0
  /\ seen = [first |-> NoTime, last |-> NoTime, deadline |-> NoTime, generation |-> 0,
             expired |-> FALSE, finished |-> FALSE, failed |-> FALSE,
             cache |-> [m \in Markets |-> Invalid], events |-> 0,
             active |-> 0, peak |-> 0, union |-> 0, union_since |-> 0,
             baskets |-> [b \in Basket |->
               [status |-> "unavailable", since |-> 0, active |-> FALSE, opened_at |-> 0,
                left |-> FALSE, eligible_before |-> FALSE, episodes |-> 0,
                durations |-> [v \in Status |-> 0]]],
             closed |-> {}]
  /\ horizon = MaxTime + ValidUntil + 1

----------------------------------------------------------------------------
(* Accounting.  Every operator leaves a failed study alone. *)

Fails(s) == [s EXCEPT !.failed = TRUE]

\* The basket's time since its last change of status goes to that status.
Timed(basket, t) ==
  [basket EXCEPT !.durations[basket.status] = @ + (t - basket.since), !.since = t]

AccountTime(s, b, t) ==
  IF s.failed \/ s.first = NoTime THEN s
  ELSE IF t < s.baskets[b].since THEN Fails(s)
  ELSE [s EXCEPT !.baskets[b] = Timed(@, t)]

AccountUnion(s, t) ==
  IF s.failed \/ s.first = NoTime THEN s
  ELSE IF t < s.union_since THEN Fails(s)
  ELSE [s EXCEPT !.union = IF s.active > 0 THEN @ + (t - s.union_since) ELSE @,
                 !.union_since = t]

SetStatus(s, b, v, t) ==
  LET a == AccountTime(s, b, t)
  IN  IF a.failed THEN a
      ELSE [a EXCEPT !.baskets[b] = [@ EXCEPT !.status = v, !.eligible_before = v \in Eligible]]

Event(s) == IF s.events = MaxEvents THEN Fails(s) ELSE [s EXCEPT !.events = @ + 1]

Close(s, b, t, censored) ==
  IF s.failed \/ ~s.baskets[b].active THEN s
  ELSE LET u == AccountUnion(Event(s), t) IN
       IF u.failed THEN u
       ELSE [u EXCEPT !.active = @ - 1, !.baskets[b] = [@ EXCEPT !.active = FALSE],
                      !.closed = @ \cup {[basket |-> b, episode |-> s.baskets[b].episodes,
                                          opened |-> s.baskets[b].opened_at, closed |-> t,
                                          right |-> censored]}]

Peak(s) == [s EXCEPT !.peak = IF s.active > @ THEN s.active ELSE @]

Opened(basket, t) ==
  [basket EXCEPT !.active = TRUE, !.episodes = @ + 1, !.opened_at = t,
                 !.left = ~basket.eligible_before]

\* Mutant of Open: the peak is taken at once, before the other baskets of the update.
OpenAndPeak(s, b, t) ==
  IF s.failed \/ s.baskets[b].active THEN s
  ELSE LET u == AccountUnion(s, t)
       IN  Peak(Event([u EXCEPT !.active = @ + 1, !.baskets[b] = Opened(@, t)]))

Open(s, b, t) ==
  IF s.failed \/ s.baskets[b].active THEN s
  ELSE LET u == AccountUnion(s, t)
       IN  Event([u EXCEPT !.active = @ + 1, !.baskets[b] = Opened(@, t)])

Unavailable(s, b, reason, t) == SetStatus(Close(s, b, t, TRUE), b, reason, t)

\* The baskets bs in their order.
AllUnavailable(s, bs, reason, t) ==
  LET after[b \in 0..Len(Legs)] ==
        IF b = 0 THEN s
        ELSE IF b \in bs THEN Unavailable(after[b - 1], b, reason, t) ELSE after[b - 1]
  IN  after[Len(Legs)]

Expire(s, t) ==
  AllUnavailable([s EXCEPT !.expired = TRUE, !.deadline = NoTime], Basket, "expired", t)

----------------------------------------------------------------------------
(* The lower leg buys YES, the other two buy NO. *)

Dependencies(m) == {b \in Basket : \E i \in 1..3 : Legs[b][i] = m}

LegCost(books, b, i) == IF i = 1 THEN books[Legs[b][i]] ELSE Par - books[Legs[b][i]]

Cost(books, b) == LegCost(books, b, 1) + LegCost(books, b, 2) + LegCost(books, b, 3)

Quote(books, b) ==
  IF \E i \in 1..3 : books[Legs[b][i]] = Empty THEN "no_depth"
  ELSE IF Cost(books, b) > Cash THEN "unfunded"
  ELSE IF 2 * Par - Cost(books, b) > MinimumMargin THEN "positive"
  ELSE "nonpositive"

(* The first leg without a usable book decides the status. *)
Classify(books, b) ==
  LET bad == {i \in 1..3 : books[Legs[b][i]] \in {Invalid, Crossed}}
  IN  IF bad = {} THEN Quote(books, b)
      ELSE LET i == CHOOSE i \in bad : \A j \in bad : i <= j
           IN  IF books[Legs[b][i]] = Invalid THEN "unavailable" ELSE "crossed"

(* "unsized" is the basket whose search runs out of its budget, 0 for none. *)
Evaluate(s, b, unsized, t) ==
  LET v == Classify(s.cache, b) IN
  IF v \in NoData THEN Unavailable(s, b, v, t)
  ELSE IF b = unsized THEN Fails(s)
  ELSE SetStatus(IF v = "positive" THEN Open(s, b, t) ELSE Close(s, b, t, FALSE), b, v, t)

EvaluateAll(s, bs, unsized, t) ==
  LET after[b \in 0..Len(Legs)] ==
        IF b = 0 THEN s
        ELSE IF b \in bs /\ ~after[b - 1].failed THEN Evaluate(after[b - 1], b, unsized, t)
        ELSE after[b - 1]
  IN  after[Len(Legs)]

----------------------------------------------------------------------------
(* before() and the parts of after() *)

Before(s, t) ==
  IF s.last # NoTime /\ t < s.last THEN Fails(s)
  ELSE IF s.deadline # NoTime /\ t >= s.deadline /\ ~s.expired THEN Expire(s, s.deadline)
  ELSE s

Begin(s, t) ==
  IF s.first # NoTime THEN [s EXCEPT !.last = t]
  ELSE [s EXCEPT !.first = t, !.last = t, !.union_since = t,
                 !.baskets = [b \in Basket |-> [@[b] EXCEPT !.since = t]]]

\* Mutant of Earlier: the latest wall clock wins.
EarlierLatest(s, t) == t

Earlier(s, t) == IF s.deadline = NoTime \/ t < s.deadline THEN t ELSE s.deadline

Mapped(wall, t) == t + ValidUntil - wall

Window(s, wall, t) ==
  IF s.failed \/ s.expired THEN s
  ELSE IF wall >= ValidUntil THEN Expire(s, t)
  ELSE [s EXCEPT !.deadline = Earlier(s, Mapped(wall, t))]

(* "now" is the market state after the frame. *)
Connection(s, now, t) ==
  IF s.failed \/ s.expired \/ (now.connected /\ now.generation = s.generation) THEN s
  ELSE AllUnavailable([s EXCEPT !.generation = now.generation,
                                !.cache = [m \in Markets |-> Invalid]],
                      Basket, "unavailable", t)

BookUpdate(s, now, m, applied, unsized, t) ==
  LET c == [s EXCEPT !.cache[m] = now.books[m]] IN
  IF s.failed \/ s.expired \/ ~now.connected THEN s
  ELSE IF applied
       THEN LET e == EvaluateAll(c, Dependencies(m), unsized, t)
            IN  IF e.failed THEN e ELSE Peak(e)
  ELSE IF now.books[m] = Invalid THEN AllUnavailable(c, Dependencies(m), "unavailable", t)
  ELSE s

Preamble(now, wall, t) ==
  LET s == Before(seen, t)
  IN  IF s.failed \/ wall < ValidFrom THEN Fails(s) ELSE Connection(Window(Begin(s, t), wall, t), now, t)

(* Calls move forward, or one step behind the last frame. *)
Times == {t \in 0..MaxTime : t >= clock \/ t = seen.last - 1}

Running == ~seen.failed /\ ~seen.finished

(* What every frame does; after is the observer it leaves.                 *)
Frame(now, t, wall, after) ==
  /\ Running
  /\ clock' = IF t > clock THEN t ELSE clock
  /\ stream' = now
  /\ seen' = after
  /\ horizon' = IF after.failed \/ Mapped(wall, t) >= horizon THEN horizon ELSE Mapped(wall, t)

NoBooks == [m \in Markets |-> Invalid]

----------------------------------------------------------------------------
(* The frames a shared stream can produce *)

ConnectionFrame(t, wall) ==
  \E open \in BOOLEAN :
    /\ open => stream.generation < MaxGeneration
    /\ ~open => stream.connected
    /\ LET now == [connected |-> open,
                   generation |-> IF open THEN stream.generation + 1 ELSE stream.generation,
                   books |-> NoBooks]
       IN  Frame(now, t, wall, Preamble(now, wall, t))

(* A trade, a book message that changes nothing, and their like *)
QuietFrame(t, wall) == Frame(stream, t, wall, Preamble(stream, wall, t))

AppliedFrame(t, wall) ==
  \E m \in Markets, unsized \in {0} \cup Basket :
    /\ stream.connected
    /\ \E book \in Shown[m] :
         LET now == [stream EXCEPT !.books[m] = book]
         IN  Frame(now, t, wall, BookUpdate(Preamble(now, wall, t), now, m, TRUE, unsized, t))

RejectedFrame(t, wall) ==
  \E m \in Fragile :
    LET now == [stream EXCEPT !.books[m] = Invalid]
    IN  /\ stream.connected
        /\ Frame(now, t, wall, BookUpdate(Preamble(now, wall, t), now, m, FALSE, 0, t))

(* The sequence check of the shared stream closes the connection. *)
GapFrame(t, wall) ==
  \E m \in Fragile :
    LET now == [stream EXCEPT !.connected = FALSE, !.books = NoBooks]
    IN  /\ stream.connected
        /\ Frame(now, t, wall, BookUpdate(Preamble(now, wall, t), now, m, FALSE, 0, t))

(* A timer or a record that is not a frame *)
Timer ==
  \E t \in Times :
    /\ Running
    /\ seen' = Before(seen, t)
    /\ clock' = IF t > clock THEN t ELSE clock
    /\ UNCHANGED <<stream, horizon>>

FinishBasket(s, b, t) == AccountTime(Close(s, b, t, TRUE), b, t)

FinishAll(s, t) ==
  LET after[b \in 0..Len(Legs)] == IF b = 0 THEN s ELSE FinishBasket(after[b - 1], b, t)
  IN  after[Len(Legs)]

Finish ==
  \E t \in Times :
    LET s == Before(seen, t)
        e == AccountUnion(FinishAll(s, t), t)
    IN  /\ Running
        /\ seen' = IF e.failed THEN e ELSE [e EXCEPT !.last = t, !.finished = TRUE]
        /\ clock' = IF t > clock THEN t ELSE clock
        /\ UNCHANGED <<stream, horizon>>

ObservationNext ==
  \/ \E t \in Times, wall \in Wall :
       \/ ConnectionFrame(t, wall) \/ QuietFrame(t, wall) \/ AppliedFrame(t, wall)
       \/ RejectedFrame(t, wall) \/ GapFrame(t, wall)
  \/ Timer \/ Finish

ObservationSpec == ObservationInit /\ [][ObservationNext]_observationVars

----------------------------------------------------------------------------
(* Properties.  A failed study reports nothing, so they speak of the rest. *)

(* Ticks covered by the episodes of the baskets bs, the open ones up to t. *)
Covered(s, bs, t) ==
  UNION ({e.opened..(e.closed - 1) : e \in {c \in s.closed : c.basket \in bs}}
     \cup {s.baskets[b].opened_at..(t - 1) : b \in {c \in bs : s.baskets[c].active}})

(* The two reported times of positive quotes are those of the reported     *)
(* episodes: each basket's own, and the union over baskets, however the    *)
(* episodes of different baskets overlap and touch; and every basket's     *)
(* time is in exactly one status.                                          *)
TimesAreEpisodes ==
  ~seen.failed =>
    /\ seen.union = Cardinality(Covered(seen, Basket, seen.union_since))
    /\ \A b \in Basket :
         LET d == seen.baskets[b].durations
         IN  /\ d["positive"] = Cardinality(Covered(seen, {b}, seen.baskets[b].since))
             /\ seen.first # NoTime =>
                  SumOf(d) = seen.baskets[b].since - seen.first

(* A wall clock that is set back never extends the horizon once accepted   *)
(* (lines 115-118): no episode reaches past the earliest one.              *)
NothingPastHorizon ==
  ~seen.failed =>
    /\ \A e \in seen.closed : e.closed <= horizon
    /\ \A b \in Basket : seen.baskets[b].active => seen.last < horizon

(* An episode is open only on three books of the current connection that   *)
(* are valid now and quote a positive margin now: the cache never outlives *)
(* a gap, a reconnection or an invalidated book.                           *)
ActiveOnCurrentBooks ==
  (~seen.failed /\ ~seen.finished) => \A b \in Basket :
    seen.baskets[b].active =>
      /\ stream.connected
      /\ Classify(stream.books, b) = "positive"

(* The peak counts baskets that are positive on the same books (lines      *)
(* 146-149), not one that an update opens with one it is about to close.   *)
PeakIsOfPositive ==
  seen'.peak > seen.peak =>
    seen'.peak <= Cardinality({b \in Basket : Classify(stream'.books, b) = "positive"})
============================================================================
