-------------------------- MODULE ExecutionLifecycle --------------------------
(***************************************************************************)
(* The two-leg execution simulation with an order lifecycle                *)
(* (src/session/execution_study.cpp, Simulation with policy_.lifecycle,    *)
(* and study_positions.hpp): every order is an event that arrives and,     *)
(* later, an event that responds; cash is reserved at the decision, spent  *)
(* at the arrival and released at the response; settlements of the markets *)
(* fall anywhere in between.                                               *)
(*                                                                         *)
(* Time is kept: before(t) drains what is due strictly before t,           *)
(* finish(t) also what is due at t, settlements win ties.  One event of    *)
(* the drain loop is one step; a frame or a decision waits for the drain.  *)
(* What the books and the fee schedule decide is left open: how much of an *)
(* order fills, at what cost within its reservation, and whether a book is *)
(* usable at all.                                                          *)
(***************************************************************************)
EXTENDS Integers, Sequences, FiniteSets, SequencesExt, Sums

CONSTANTS
  Constraint,   \* two-leg constraints; each is attempted at most once
  LegMarket,    \* LegMarket[c][leg]: the market of a leg
  LegYes,       \* LegYes[c][leg]: the leg holds the yes outcome
  Policies,     \* the policies of the runs, see Policy
  Capital,      \* policy_.capital
  Payout,       \* payout of one contract (10'000)
  QuantityCap,  \* policy_.quantity_cap
  Reserves,     \* reservations the sizing or reserve() may come to
  MaxTime       \* last time a frame can have

Leg == {1, 2}
Market == {LegMarket[c][l] : c \in Constraint, l \in Leg}

\* The parts of the policy that steer the lifecycle.  A settlement is
\* [market, yes_wins, time]; they are sorted by time.
Policy ==
  [sequential : BOOLEAN, latency : [Leg -> Nat], response : [Leg -> Nat],
   completion_timeout : Nat, completion_loss_limit : Nat, maximum_completion_orders : Nat,
   exit : {"none", "hold", "reduce_once"}, exit_latency : Nat, exit_response : Nat,
   exit_timeout : Nat, settlements : Seq([market : Market, yes_wins : BOOLEAN, time : Nat])]

SortedByTime(settlements) ==
  \A i, j \in DOMAIN settlements : i < j => settlements[i].time <= settlements[j].time

ASSUME LifecycleConstants ==
  /\ Capital \in Nat /\ Payout \in Nat /\ QuantityCap \in Nat /\ MaxTime \in Nat
  /\ Reserves \subseteq Nat
  /\ Policies \subseteq Policy
  /\ \A p \in Policies : SortedByTime(p.settlements)
  /\ IsFiniteSet(Constraint)

VARIABLES
  policy,            \* the policy of this run
  now,               \* time of the frame being processed
  phase,             \* "running", "finishing", "settling", "done"
  attempts,          \* attempts_, NoAttempt before the decision
  orders,            \* orders_
  events,            \* events_
  lots,              \* open lots of each position, oldest first
  settlement_index,  \* settlements already applied
  cash               \* the ledger, see Ledger

vars == <<policy, now, phase, attempts, orders, events, lots, settlement_index, cash>>

Ledger ==
  [available : Int, spent : Int, reserved_total : Int, unconfirmed_debit : Int,
   unconfirmed_credit : Int, settlement_cash : Int, exit_credit : Int, exit_basis : Int]

NoAttempt ==
  [quantity |-> 0, started |-> 0, reserve |-> [l \in Leg |-> 0],
   filled |-> [l \in Leg |-> 0], debit |-> [l \in Leg |-> 0],
   completion_orders |-> 0, pending_buys |-> 0, exit_considered |-> FALSE]

Attempted == {c \in Constraint : attempts[c].quantity # 0}

Init ==
  /\ policy \in Policies
  /\ now = 0 /\ phase = "running"
  /\ attempts = [c \in Constraint |-> NoAttempt]
  /\ orders = <<>> /\ events = {}
  /\ lots = [c \in Constraint |-> [l \in Leg |-> <<>>]]
  /\ settlement_index = 0
  /\ cash = [available |-> Capital, spent |-> 0, reserved_total |-> 0,
             unconfirmed_debit |-> 0, unconfirmed_credit |-> 0,
             settlement_cash |-> 0, exit_credit |-> 0, exit_basis |-> 0]

Smaller(a, b) == IF a < b THEN a ELSE b

-----------------------------------------------------------------------------
(* Positions: FIFO lots of one leg of one attempt. *)

QuantityOf(ls) == SumOf([i \in DOMAIN ls |-> ls[i].quantity])
DebitOf(ls) == SumOf([i \in DOMAIN ls |-> ls[i].debit])

\* close_position() takes the oldest lots whole, and a part of the next one.
WholeLots(ls, quantity) ==
  CHOOSE k \in 0..Len(ls) :
    /\ QuantityOf(SubSeq(ls, 1, k)) <= quantity
    /\ k < Len(ls) => quantity < QuantityOf(SubSeq(ls, 1, k + 1))

PartOfNext(ls, quantity) == quantity - QuantityOf(SubSeq(ls, 1, WholeLots(ls, quantity)))

\* The cost basis of a part is a share, rounded down, so that the rest keeps
\* every leftover microdollar.
ShareOf(lot, part) == (lot.debit * part) \div lot.quantity

Closed(ls, quantity) ==
  LET k == WholeLots(ls, quantity)
      part == PartOfNext(ls, quantity)
      next == ls[k + 1]
  IN  IF k = Len(ls) THEN <<>>
      ELSE <<[quantity |-> next.quantity - part, debit |-> next.debit - ShareOf(next, part)]>>
             \o SubSeq(ls, k + 2, Len(ls))

Released(ls, quantity) ==
  LET k == WholeLots(ls, quantity)
  IN  DebitOf(SubSeq(ls, 1, k)) +
        (IF k = Len(ls) THEN 0 ELSE ShareOf(ls[k + 1], PartOfNext(ls, quantity)))

-----------------------------------------------------------------------------
(* The event queue. *)

Settled == {policy.settlements[i].market : i \in 1..settlement_index}
NextSettlement == policy.settlements[settlement_index + 1]

SettlementDue ==
  /\ settlement_index < Len(policy.settlements)
  /\ NextSettlement.time <= now \/ phase = "settling"

\* Ordered by time, then order, then arrival before response.
Precedes(e, f) ==
  \/ e.time < f.time
  \/ e.time = f.time /\ e.order < f.order
  \/ e.time = f.time /\ e.order = f.order /\ ~e.response

Top == CHOOSE e \in events : \A f \in events \ {e} : Precedes(e, f)

OrderDue ==
  /\ events # {}
  /\ Top.time < now \/ (phase = "finishing" /\ Top.time = now)

\* Mutant of SettlesFirst: orders win ties.
SettlesLast == SettlementDue /\ (OrderDue => NextSettlement.time < Top.time)

\* "Terminal settlement wins ties: no assumed trading after resolution."
SettlesFirst == SettlementDue /\ (OrderDue => NextSettlement.time <= Top.time)

\* The event the drain takes next.
Takes(e) == phase # "done" /\ OrderDue /\ ~SettlesFirst /\ e = Top

Drained == ~SettlementDue /\ ~OrderDue

Order(c, leg, quantity, reserve, sell) ==
  [attempt |-> c, leg |-> leg, quantity |-> quantity, reserve |-> reserve,
   filled |-> 0, debit |-> 0, credit |-> 0, arrived |-> FALSE, responded |-> FALSE,
   sell |-> sell]

ArrivalOf(number, time) == [time |-> time, order |-> number, response |-> FALSE]

ResponseOf(number, time) == [time |-> time, order |-> number, response |-> TRUE]

-----------------------------------------------------------------------------
(* Decisions. *)

\* decide(): both legs are reserved; the first, or both, are submitted.
Decide(c, quantity, reserve) ==
  LET first == Len(orders) + 1
      sent == IF policy.sequential THEN <<1>> ELSE <<1, 2>>
  IN  /\ phase = "running" /\ Drained
      /\ c \notin Attempted
      /\ \A l \in Leg : LegMarket[c][l] \notin Settled
      /\ reserve[1] + reserve[2] <= cash.available
      /\ attempts' = [attempts EXCEPT ![c] =
                        [NoAttempt EXCEPT !.quantity = quantity, !.started = now,
                                          !.reserve = reserve, !.pending_buys = Len(sent)]]
      /\ orders' = orders \o [i \in DOMAIN sent |->
                                Order(c, sent[i], quantity, reserve[sent[i]], FALSE)]
      /\ events' = events \cup {ArrivalOf(first + i - 1, now + policy.latency[sent[i]]) :
                                  i \in DOMAIN sent}
      /\ cash' = [cash EXCEPT !.available = @ - reserve[1] - reserve[2],
                              !.reserved_total = @ + reserve[1] + reserve[2]]
      /\ UNCHANGED <<policy, now, phase, lots, settlement_index>>

-----------------------------------------------------------------------------
(* Arrivals. *)

\* Fills an arriving buy may get: none when rejected, stale or settled.
BuyFills(o) ==
  {f \in [quantity : 0..o.quantity, debit : 0..o.reserve] :
     /\ f.quantity = 0 => f.debit = 0
     /\ LegMarket[o.attempt][o.leg] \in Settled => f.quantity = 0}

BuyArrives ==
  \E e \in events :
    LET o == orders[e.order]
        c == o.attempt
    IN  /\ Takes(e) /\ ~e.response /\ ~o.sell
        /\ \E f \in BuyFills(o) :
             /\ orders' = [orders EXCEPT ![e.order].arrived = TRUE,
                                         ![e.order].filled = f.quantity,
                                         ![e.order].debit = f.debit]
             /\ attempts' = [attempts EXCEPT ![c].filled[o.leg] = @ + f.quantity,
                                             ![c].debit[o.leg] = @ + f.debit]
             /\ cash' = [cash EXCEPT !.spent = @ + f.debit, !.unconfirmed_debit = @ + f.debit]
             /\ lots' = IF f.quantity = 0 THEN lots
                        ELSE [lots EXCEPT ![c][o.leg] =
                                Append(@, [quantity |-> f.quantity, debit |-> f.debit])]
        /\ events' = (events \ {e}) \cup {ResponseOf(e.order, e.time + policy.response[o.leg])}
        /\ UNCHANGED <<policy, now, phase, settlement_index>>

\* Sales never exceed what the position still owns.
SaleFills(o) ==
  {f \in [quantity : 0..o.quantity, credit : 0..(o.quantity * Payout)] :
     /\ f.quantity <= QuantityOf(lots[o.attempt][o.leg])
     /\ f.credit <= f.quantity * Payout
     /\ LegMarket[o.attempt][o.leg] \in Settled => f.quantity = 0}

ExitArrives ==
  \E e \in events :
    LET o == orders[e.order]
        owned == lots[o.attempt][o.leg]
    IN  /\ Takes(e) /\ ~e.response /\ o.sell
        /\ \E f \in SaleFills(o) :
             /\ orders' = [orders EXCEPT ![e.order].arrived = TRUE,
                                         ![e.order].filled = f.quantity,
                                         ![e.order].credit = f.credit]
             /\ lots' = [lots EXCEPT ![o.attempt][o.leg] = Closed(owned, f.quantity)]
             /\ cash' = [cash EXCEPT !.exit_credit = @ + f.credit,
                                     !.exit_basis = @ + Released(owned, f.quantity),
                                     !.unconfirmed_credit = @ + f.credit]
        /\ events' = (events \ {e}) \cup {ResponseOf(e.order, e.time + policy.exit_response)}
        /\ UNCHANGED <<policy, now, phase, attempts, settlement_index>>

-----------------------------------------------------------------------------
(* Responses.  The operators take and return what the drain has computed so *)
(* far, work == [attempt, cash, orders, events], as a set of outcomes.       *)

\* submit(): the order and its arrival join the queue.
Submitted(work, order, time) ==
  [work EXCEPT !.orders = Append(@, order),
               !.events = @ \cup {ArrivalOf(Len(work.orders) + 1, time)}]

\* Mutant of Unmatched: the whole leg is offered.
UnmatchedWhole(a, leg) == a.filled[leg]

\* The part of a leg that no contract of the other leg matches.
Unmatched(a, leg) == a.filled[leg] - a.filled[3 - leg]

\* consider_exit(): once all buys have responded, the unmatched part of one
\* leg may be offered; a missing book or depth always can prevent it.
ConsiderExit(c, work, time) ==
  LET leg == IF work.attempt.filled[1] > work.attempt.filled[2] THEN 1 ELSE 2
      considered == [work EXCEPT !.attempt.exit_considered = policy.exit # "none"]
      open == /\ policy.exit = "reduce_once"
              /\ work.attempt.filled[1] # work.attempt.filled[2]
              /\ time - work.attempt.started + policy.exit_latency <= policy.exit_timeout
              /\ LegMarket[c][leg] \notin Settled
      largest == Smaller(Unmatched(work.attempt, leg), QuantityOf(lots[c][leg]))
  IN  {considered} \cup
      {Submitted(considered, Order(c, leg, q, 0, TRUE), time + policy.exit_latency) :
         q \in IF open THEN 1..largest ELSE {}}

\* Mutant of FinishAcquisition: the second leg stays reserved.
FinishAcquisitionHolds(c, work, time) == ConsiderExit(c, work, time)

\* finish_acquisition(): what is still reserved for the second leg is freed.
FinishAcquisition(c, work, time) ==
  LET held == work.attempt.reserve[2]
  IN  ConsiderExit(c, [work EXCEPT !.attempt.reserve[2] = 0,
                                   !.cash.reserved_total = @ - held,
                                   !.cash.available = @ + held], time)

\* Mutant of Missing: a completion asks for the attempt's quantity again.
MissingAnew(a) == a.quantity

\* What the second leg lacks.
Missing(a) == a.filled[1] - a.filled[2]

\* What the leg already holds counts towards the new reservation.
Affordable(needed, held, available) == needed <= available + held

\* The completions complete_second() may send: another order for the second
\* leg, for at most what it lacks, in time and within the budget of orders.
\* Its quoted debit must keep the pair's loss within the limit, its
\* reservation within the cash there is.
Completions(c, work, time) ==
  LET a == work.attempt
  IN  {o \in [quantity : 1..QuantityCap, reserve : Reserves] :
         /\ o.quantity <= Missing(a)
         /\ time - a.started + policy.latency[2] <= policy.completion_timeout
         /\ a.completion_orders < policy.maximum_completion_orders
         /\ LegMarket[c][2] \notin Settled
         /\ \E quoted \in 0..o.reserve :
              a.debit[1] + a.debit[2] + quoted - (a.filled[2] + o.quantity) * Payout
                <= policy.completion_loss_limit
         /\ Affordable(o.reserve, a.reserve[2], work.cash.available)}

\* complete_second(): a completion, or the end of the acquisition, which a
\* missing book or depth always can bring.
CompleteSecond(c, work, time) ==
  FinishAcquisition(c, work, time) \cup
  {LET held == work.attempt.reserve[2]
       reserved == [work EXCEPT !.attempt.reserve[2] = o.reserve,
                                !.attempt.completion_orders = @ + 1,
                                !.attempt.pending_buys = @ + 1,
                                !.cash.reserved_total = @ + o.reserve - held,
                                !.cash.available = @ + held - o.reserve]
   IN  Submitted(reserved, Order(c, 2, o.quantity, o.reserve, FALSE), time + policy.latency[2]) :
     o \in Completions(c, work, time)}

AllResponded(a) == a.pending_buys = 0

\* The response of a buy releases its reservation, of which the debit was
\* spent, and goes on with the attempt.
BuyResponds ==
  \E e \in events :
    LET o == orders[e.order]
        c == o.attempt
        work == [attempt |-> [attempts[c] EXCEPT !.pending_buys = @ - 1, !.reserve[o.leg] = 0],
                 cash |-> [cash EXCEPT !.reserved_total = @ - o.reserve,
                                       !.unconfirmed_debit = @ - o.debit,
                                       !.available = @ + o.reserve - o.debit],
                 orders |-> [orders EXCEPT ![e.order].responded = TRUE],
                 events |-> events \ {e}]
        outcomes == IF policy.sequential THEN CompleteSecond(c, work, e.time)
                    ELSE IF AllResponded(work.attempt) THEN ConsiderExit(c, work, e.time)
                    ELSE {work}
    IN  /\ Takes(e) /\ e.response /\ ~o.sell
        /\ \E done \in outcomes :
             /\ attempts' = [attempts EXCEPT ![c] = done.attempt]
             /\ cash' = done.cash /\ orders' = done.orders /\ events' = done.events
        /\ UNCHANGED <<policy, now, phase, lots, settlement_index>>

ExitResponds ==
  \E e \in events :
    LET o == orders[e.order]
    IN  /\ Takes(e) /\ e.response /\ o.sell
        /\ cash' = [cash EXCEPT !.unconfirmed_credit = @ - o.credit,
                                !.available = @ + o.credit]
        /\ orders' = [orders EXCEPT ![e.order].responded = TRUE]
        /\ events' = events \ {e}
        /\ UNCHANGED <<policy, now, phase, attempts, lots, settlement_index>>

-----------------------------------------------------------------------------
(* Settlements, frames and the end. *)

Pays(c, l, s) == LegMarket[c][l] = s.market /\ LegYes[c][l] = s.yes_wins

Settle ==
  LET s == NextSettlement
      paid == {cl \in Constraint \X Leg : Pays(cl[1], cl[2], s)}
      payout == SumOf([cl \in paid |-> QuantityOf(lots[cl[1]][cl[2]])]) * Payout
  IN  /\ phase # "done" /\ SettlesFirst
      /\ settlement_index' = settlement_index + 1
      /\ lots' = [c \in Constraint |-> [l \in Leg |->
                    IF LegMarket[c][l] = s.market THEN <<>> ELSE lots[c][l]]]
      /\ cash' = [cash EXCEPT !.settlement_cash = @ + payout, !.available = @ + payout]
      /\ UNCHANGED <<policy, now, phase, attempts, orders, events>>

\* The next frame: before(t) starts draining.
Frame(t) ==
  /\ phase = "running" /\ Drained
  /\ t > now
  /\ now' = t
  /\ UNCHANGED <<policy, phase, attempts, orders, events, lots, settlement_index, cash>>

\* finish(): drains what is due at its time too; the events left are
\* unobserved, their reservations stay; then every settlement left applies.
Finish ==
  /\ \/ phase = "running" /\ phase' = "finishing" /\ UNCHANGED events
     \/ phase = "finishing" /\ phase' = "settling" /\ events' = {}
     \/ phase = "settling" /\ phase' = "done" /\ UNCHANGED events
  /\ Drained
  /\ UNCHANGED <<policy, now, attempts, orders, lots, settlement_index, cash>>

Terminated == phase = "done" /\ UNCHANGED vars

Next ==
  \/ \E c \in Constraint, q \in 1..QuantityCap, r \in [Leg -> Reserves] : Decide(c, q, r)
  \/ BuyArrives \/ BuyResponds \/ ExitArrives \/ ExitResponds
  \/ Settle
  \/ \E t \in 1..MaxTime : Frame(t)
  \/ Finish
  \/ Terminated

Spec == Init /\ [][Next]_vars

-----------------------------------------------------------------------------
(* Properties. *)

BuysOf(c) == {i \in DOMAIN orders : orders[i].attempt = c /\ ~orders[i].sell}

\* check_cash(): whatever order arrivals, responses, settlements and exits
\* come in, no part of the ledger is negative and the cash, reserved or free,
\* is the capital less what was spent plus what settlements and exits paid.
\* "The unsold remainder retains every leftover microdollar": until a market
\* settles, what was spent is the debit of the open lots and the basis the
\* exits released.
CashConserved ==
  /\ cash.available >= 0 /\ cash.reserved_total >= 0
  /\ cash.unconfirmed_debit >= 0 /\ cash.unconfirmed_credit >= 0
  /\ cash.available + cash.reserved_total - cash.unconfirmed_debit + cash.unconfirmed_credit
       = Capital - cash.spent + cash.settlement_cash + cash.exit_credit
  /\ Settled = {} =>
       cash.spent = cash.exit_basis +
         SumOf([cl \in Constraint \X Leg |-> DebitOf(lots[cl[1]][cl[2]])])

\* The total reserved is what the attempts hold for their legs, and an attempt
\* all of whose buys have responded holds nothing: no path of completions,
\* refusals and settlements strands a reservation.
ReservationsReleased ==
  /\ cash.reserved_total =
       SumOf([cl \in Constraint \X Leg |-> attempts[cl[1]].reserve[cl[2]]])
  /\ \A c \in Attempted :
       (\A i \in BuysOf(c) : orders[i].responded) => \A l \in Leg : attempts[c].reserve[l] = 0

\* The money of a run is somewhere, and nothing of it is stuck in a reservation.
LedgerConserved == CashConserved /\ ReservationsReleased

\* "No short sale or paired-leg unwind": however exits race with other
\* attempts and settlements, a leg keeps the contracts the other leg matches
\* until its market settles.
PairsNeverUnwound ==
  \A c \in Attempted, l \in Leg :
    LegMarket[c][l] \notin Settled =>
      QuantityOf(lots[c][l]) >= Smaller(attempts[c].filled[1], attempts[c].filled[2])

\* Sequential completion never buys more of the second leg than the first
\* leg filled, whatever the earlier completions came to.
NeverOverHedged ==
  policy.sequential => \A c \in Attempted : attempts[c].filled[2] <= attempts[c].filled[1]

\* "No assumed trading after resolution": no lot is opened, sold or changed in a
\* market whose settlement time has passed, also when it has the time of the
\* order's arrival.
NoTradeAfterResolution ==
  [][\A e \in events :
       LET o == orders[e.order]
       IN  e \notin events' /\ e.order \in DOMAIN orders' /\ phase # "settling" /\ ~e.response
             /\ (\E i \in DOMAIN policy.settlements :
                    /\ policy.settlements[i].market = LegMarket[o.attempt][o.leg]
                    /\ policy.settlements[i].time <= e.time)
           => orders'[e.order].filled = 0]_vars
==============================================================================
