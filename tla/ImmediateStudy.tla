---------------------------- MODULE ImmediateStudy ----------------------------
(***************************************************************************)
(* The two-leg execution simulation without a lifecycle policy             *)
(* (src/session/execution_study.cpp, Simulation): a decision on every      *)
(* update of a book, two orders that arrive later, each answered at once   *)
(* from the book and the liquidity that earlier orders have left.  Unlike  *)
(* ExecutionLifecycle this has the books, the quotes and the fills; a      *)
(* market shows, for each outcome, the levels it can be bought from.       *)
(***************************************************************************)
EXTENDS BuyDepth, FiniteSets, Functions, Sums

CONSTANTS
  Constraint,  \* ids of the two-leg constraints, in their order
  LegsOf,      \* LegsOf[c]: the two legs, [market, outcome]
  FeeOf,       \* FeeOf[m]: fee policy of a market
  Books,       \* Books[m]: books a market may come to have, [yes, no]
  Policies,    \* see Policy
  MaxTime,     \* bound on the time of frames
  MaxFrames    \* bound on their number

Leg == {1, 2}
Market == {LegsOf[c][leg].market : c \in Constraint, leg \in Leg}

Policy == [capital : 0..MaxCash, cap : Nat, min_margin : Nat, max_age : Nat, bps : 0..10000,
           latency : Nat \X Nat, reject : BOOLEAN \X BOOLEAN, optimal : BOOLEAN]

Level == [price : Price, quantity : Nat]

StudyConstants ==
  /\ Constraint \subseteq Nat /\ IsFiniteSet(Constraint) /\ MaxTime \in Nat /\ MaxFrames \in Nat
  /\ Policies \subseteq Policy /\ \A p \in Policies : p.cap >= Step
  /\ \A c \in Constraint, leg \in Leg : LegsOf[c][leg].outcome \in {"yes", "no"}
  /\ \A m \in Market : FeeOf[m] \in Fees
  /\ \A m \in Market, o \in {"yes", "no"} :
       \A b \in Books[m] : b[o] \in Seq(Level) /\ IsDepth([levels |-> b[o], fee |-> FeeOf[m]])

VARIABLES
  policy,
  now, frames,  \* time of the frame at work, and how many there were
  phase,        \* before, applying, finishing or done
  book,         \* book[m], NoBook unless it is valid
  generation, connected,
  last_update,  \* time of the last frame applied to a market, -1 before
  deciding,     \* constraints that the loop of after() has still to look at
  attempts, pending,
  consumed,     \* consumed_: quantity taken at <<market, outcome, price>>
  available, spent,
  failed        \* the reservation invariant was reported broken

state == <<book, generation, connected, last_update>>
ledger == <<attempts, pending, consumed, available, spent, failed>>
vars == <<policy, now, frames, phase, state, deciding, ledger>>

NoBook == [yes |-> <<>>, no |-> <<>>, valid |-> FALSE]
NoAttempt == [quantity |-> 0]

Init ==
  /\ policy \in Policies
  /\ now = 0 /\ frames = 0 /\ phase = "before"
  /\ book = [m \in Market |-> NoBook] /\ generation = 1 /\ connected = TRUE
  /\ last_update = [m \in Market |-> -1]
  /\ deciding = {} /\ attempts = [c \in Constraint |-> NoAttempt] /\ pending = {}
  /\ consumed = <<>> /\ available = policy.capital /\ spent = 0 /\ failed = FALSE

-----------------------------------------------------------------------------
(* Books, and what is left of them. *)

Fresh(leg, time) ==
  /\ connected /\ book[leg.market].valid /\ last_update[leg.market] # -1
  /\ time >= last_update[leg.market] /\ time - last_update[leg.market] <= policy.max_age

Key(leg, price) == <<leg.market, leg.outcome, price>>
Used(key) == IF key \in DOMAIN consumed THEN consumed[key] ELSE 0

Minus(quantity, used) == IF quantity > used THEN quantity - used ELSE 0
Unused(leg, level) == Minus(level.quantity, Used(Key(leg, level.price)))

Within(level, limit) == level.price <= limit

\* Levels that a quote may use, and what an order with a limit gets of them.
LeftAt(leg, level, limit, bps) ==
  [price    |-> level.price,
   quantity |-> IF Within(level, limit) THEN (Unused(leg, level) * bps) \div 10000 ELSE 0]

Left(leg, limit, bps) ==
  LET levels == book[leg.market][leg.outcome]
  IN  [fee |-> FeeOf[leg.market],
       levels |-> [i \in DOMAIN levels |-> LeftAt(leg, levels[i], limit, bps)]]

Depth(c) == [leg \in Leg |-> Left(LegsOf[c][leg], PriceScale, 10000)]

-----------------------------------------------------------------------------
(* Quotes. *)

Grid == {q \in 1..policy.cap : (q % Step) = 0}
Found(depth, quantity) == quantity - Paid(depth, quantity, Step).missing
Reserve(depth, quantity) == Reservation(quantity, Paid(depth, quantity, Step).limit, depth.fee)
Needed(depths, quantity) == Reserve(depths[1], quantity) + Reserve(depths[2], quantity)

Fits(depths, quantity) == Needed(depths, quantity) <= available

\* legacy_quote looks for the largest quantity that the cash covers, by bisection.
Offer(depths, cap) == Min2(Found(depths[1], cap), Found(depths[2], cap))

Middle(lo, hi) == lo + (hi - lo + 1) \div 2

Halve(depths, between) ==
  LET mid == Middle(between.lo, between.hi)
  IN  IF between.lo >= between.hi THEN between
      ELSE IF Fits(depths, mid * Step) THEN [between EXCEPT !.lo = mid]
      ELSE [between EXCEPT !.hi = mid - 1]

\* Every round leaves fewer multiples of the step between the two.
Bisected(depths, most) ==
  LET between[i \in 0..most] ==
        IF i = 0 THEN [lo |-> 0, hi |-> most] ELSE Halve(depths, between[i - 1])
  IN  between[most].lo

FundedOf(depths, offered) ==
  IF offered = 0 \/ Fits(depths, offered) THEN offered
  ELSE Bisected(depths, offered \div Step) * Step

LargestFunded(depths) == FundedOf(depths, Offer(depths, OnGrid(policy.cap, Step)))

Cost(depths, quantity) ==
  Paid(depths[1], quantity, Step).debit + Paid(depths[2], quantity, Step).debit

\* The quantity to buy, or 0.
IfProfitable(depths, quantity) ==
  IF quantity # 0 /\ quantity * PriceScale - Cost(depths, quantity) > policy.min_margin
  THEN quantity ELSE 0

LegacyQuantity(depths) == IfProfitable(depths, LargestFunded(depths))

\* optimal_quote, by the exhaustive search that PairSizing agrees with.
QuantityOf(found) == IF found = {} THEN 0 ELSE BestOf(found).quantity

OptimalQuantity(depths) ==
  QuantityOf(Candidates(depths, Grid, Step, PriceScale,
                        [available |-> available, minimum |-> policy.min_margin]))

Quantity(depths) == IF policy.optimal THEN OptimalQuantity(depths) ELSE LegacyQuantity(depths)

\* A pair of orders with the cash reserved for them.
Place(c, depths, quantity) ==
  IF quantity = 0 THEN UNCHANGED <<attempts, pending, available>>
  ELSE /\ attempts' = [attempts EXCEPT ![c] =
            [quantity |-> quantity, generation |-> generation,
             limit |-> [leg \in Leg |-> Paid(depths[leg], quantity, Step).limit],
             reserve |-> [leg \in Leg |-> Reserve(depths[leg], quantity)]]]
       /\ pending' = pending \cup
            {[arrival |-> now + policy.latency[leg], constraint |-> c, leg |-> leg,
              attempt |-> Cardinality({d \in Constraint : attempts[d] # NoAttempt})] : leg \in Leg}
       /\ available' = available - Needed(depths, quantity)

AllFresh(c) == \A leg \in Leg : Fresh(LegsOf[c][leg], now)

\* decide: one constraint after the other, in the order of their ids.
Decide ==
  /\ phase = "applying"
  /\ \E c \in deciding :
       /\ \A d \in deciding : c <= d
       /\ deciding' = deciding \ {c}
       /\ \E depths \in {Depth(c)} :
            Place(c, depths, IF AllFresh(c) THEN Quantity(depths) ELSE 0)
  /\ UNCHANGED <<policy, now, frames, phase, state, consumed, spent, failed>>

-----------------------------------------------------------------------------
(* Orders that arrive. *)

Earlier(p, o) ==
  \/ p.arrival < o.arrival
  \/ p.arrival = o.arrival /\ p.attempt < o.attempt
  \/ p.arrival = o.arrival /\ p.attempt = o.attempt /\ p.leg <= o.leg

IsFirst(p) == \A o \in pending : Earlier(p, o)
First == CHOOSE p \in pending : IsFirst(p)

\* Mutant of Due: orders that arrive with a frame are executed before it.
DueInclusive == pending # {} /\ First.arrival <= now

\* All observations at an equal timestamp precede simulated arrivals.
Due == pending # {} /\ (First.arrival < now \/ (phase = "finishing" /\ First.arrival = now))

\* Quantity bought from the first i levels.
UpTo(levels, quantity) ==
  LET sum[i \in 0..Len(levels)] ==
        IF i = 0 THEN 0 ELSE Min2(quantity, sum[i - 1] + OnGrid(levels[i].quantity, Step))
  IN  sum

Executes(order) ==
  LET leg == LegsOf[order.constraint][order.leg]
  IN  /\ ~policy.reject[order.leg] /\ attempts[order.constraint].generation = generation
      /\ Fresh(leg, order.arrival)

\* What an order takes from a level: sum is UpTo its levels.
TakenAt(leg, levels, sum, key) ==
  SumOf([i \in DOMAIN levels |->
           IF Key(leg, levels[i].price) = key THEN sum[i] - sum[i - 1] ELSE 0])

KeysTaken(leg, levels, sum) ==
  {Key(leg, levels[i].price) : i \in {j \in DOMAIN levels : sum[j] > sum[j - 1]}}

Taken(leg, levels, sum) ==
  [key \in DOMAIN consumed \cup KeysTaken(leg, levels, sum) |->
     Used(key) + TakenAt(leg, levels, sum, key)]

\* Mutant of Refund: only what an unfilled order had reserved is released.
RefundUnfilled(reserve, debit) == IF debit = 0 THEN reserve ELSE 0

Refund(reserve, debit) == reserve - debit

\* The order pays its debit out of what was reserved for it.
Pay(reserve, debit) ==
  /\ failed' = (debit > reserve)
  /\ available' = available + Refund(reserve, debit)
  /\ spent' = spent + debit

Execute(leg, depth, quantity, reserve) ==
  /\ consumed' = Taken(leg, depth.levels, UpTo(depth.levels, quantity))
  /\ Pay(reserve, Paid(depth, quantity, Step).debit)

Arrive ==
  /\ phase \in {"before", "finishing"} /\ Due
  /\ \E order \in pending :
       LET leg == LegsOf[order.constraint][order.leg]
           attempt == attempts[order.constraint]
       IN  /\ IsFirst(order)
           /\ IF Executes(order)
              THEN \E depth \in {Left(leg, attempt.limit[order.leg], policy.bps)} :
                     Execute(leg, depth, attempt.quantity, attempt.reserve[order.leg])
              ELSE Pay(attempt.reserve[order.leg], 0) /\ UNCHANGED consumed
           /\ pending' = pending \ {order}
  /\ UNCHANGED <<policy, now, frames, phase, state, deciding, attempts>>

-----------------------------------------------------------------------------
(* Frames: before, the feed, after. *)

Running == ~failed /\ phase = "before" /\ ~Due /\ frames < MaxFrames

\* The next frame is at hand; orders due before it go first.
Before ==
  /\ phase = "applying" /\ deciding = {} /\ ~failed
  /\ \E time \in now..MaxTime : now' = time
  /\ phase' = "before"
  /\ UNCHANGED <<policy, frames, state, deciding, ledger>>

\* A snapshot or a delta was applied; only then constraints are looked at.
Apply ==
  /\ Running /\ connected
  /\ \E m \in Market : \E b \in Books[m] :
       /\ book' = [book EXCEPT ![m] = [yes |-> b.yes, no |-> b.no, valid |-> TRUE]]
       /\ last_update' = [last_update EXCEPT ![m] = now]
       /\ deciding' = {c \in Constraint : /\ attempts[c] = NoAttempt
                                        /\ \E leg \in Leg : LegsOf[c][leg].market = m}
  /\ phase' = "applying" /\ frames' = frames + 1
  /\ UNCHANGED <<policy, now, generation, connected, ledger>>

\* A frame that applies to no book: the connection closes or opens, or a book is
\* found stale.
Control ==
  /\ Running
  /\ \/ /\ connected /\ connected' = FALSE
        /\ book' = [m \in Market |-> NoBook] /\ UNCHANGED generation
     \/ /\ ~connected /\ connected' = TRUE
        /\ generation' = generation + 1 /\ UNCHANGED book
     \/ /\ \E m \in Market : book' = [book EXCEPT ![m].valid = FALSE]
        /\ UNCHANGED <<connected, generation>>
  /\ phase' = "applying" /\ frames' = frames + 1
  /\ UNCHANGED <<policy, now, last_update, deciding, ledger>>

\* The end of the input: orders due by now are executed, the others released.
Finish ==
  /\ phase = "applying" /\ deciding = {} /\ ~failed /\ phase' = "finishing"
  /\ \E time \in now..MaxTime : now' = time
  /\ UNCHANGED <<policy, frames, state, deciding, ledger>>

\* What is still reserved for orders that have not arrived.
ReserveOf(order) == attempts[order.constraint].reserve[order.leg]

Reserved(orders) == SumOf([order \in orders |-> ReserveOf(order)])

Release ==
  /\ phase = "finishing" /\ ~Due /\ ~failed /\ phase' = "done"
  /\ available' = available + Reserved(pending)
  /\ pending' = {}
  /\ UNCHANGED <<policy, now, frames, state, deciding, attempts, consumed, spent, failed>>

Next == Before \/ Apply \/ Control \/ Decide \/ Arrive \/ Finish \/ Release

Spec == Init /\ [][Next]_vars

-----------------------------------------------------------------------------
(* Properties. *)

\* The cash is available, spent or reserved for an order that is pending; it is never
\* overdrawn, and at the end nothing stays reserved.
CashAddsUp ==
  /\ available >= 0
  /\ available + spent + Reserved(pending) = policy.capital
  /\ phase = "done" => available + spent = policy.capital

\* The reservation of an order covers whatever it pays at its limit, even when the
\* book has changed and the order is filled from other levels than were quoted.
ReservationHolds == ~failed

\* What a bisection over funded quantities finds, an exhaustive search finds as well;
\* and at the limits of the quote the book has all of it, at the cost quoted.
LargestOf(funded, quantity) ==
  IF funded = {} THEN quantity = 0 ELSE quantity \in funded /\ \A q \in funded : q <= quantity

PaidWithin(leg, quantity, paid) == Paid(Left(leg, paid.limit, 10000), quantity, Step) = paid

QuotesHold ==
  \A c \in deciding : \A depths \in {Depth(c)} : \A quantity \in {LargestFunded(depths)} :
    /\ LargestOf(Funded(depths, Grid, Step, PriceScale, available), quantity)
    /\ quantity # 0 => \A leg \in Leg :
         PaidWithin(LegsOf[c][leg], quantity, Paid(depths[leg], quantity, Step))

ShownAt(key) ==
  LET levels == book[key[1]][key[2]]
      at == {i \in DOMAIN levels : levels[i].price = key[3]}
  IN  IF at = {} THEN 0 ELSE levels[CHOOSE i \in at : TRUE].quantity

\* All orders together take from a level no more than it shows when they take it.
LiquidityUsedOnce ==
  [][\A key \in DOMAIN consumed' :
       consumed'[key] # Used(key) => consumed'[key] <= ShownAt(key)]_vars

\* An order is executed on the books as of its arrival: after all frames of that time
\* and earlier ones, and before any later one.
ExecutedAtArrival ==
  [][\A o \in pending \ pending' :
       phase = "before" =>
         o.arrival < now /\ \A m \in Market : last_update[m] <= o.arrival]_vars
==============================================================================
