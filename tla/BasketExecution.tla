--------------------------- MODULE BasketExecution ---------------------------
(***************************************************************************)
(* The chronological execution of three-leg baskets                        *)
(* (src/session/basket_execution.cpp): one scenario and its attempt, leg   *)
(* after leg, each order an arrival and a response one delay apart.  When  *)
(* depth, budget or cash run out the holdings are sold leg by leg; what    *)
(* cannot be sold, or an interruption, halts the scenario.  Scenarios are  *)
(* independent of each other, so one is enough.                            *)
(*                                                                         *)
(* One record of the capture is one step.  Orders are filled from books    *)
(* cached before the record, less what the scenario consumed before.  The  *)
(* fee is part of a level's price; times are relative to the last record.  *)
(***************************************************************************)
EXTENDS Integers, Sequences, FiniteSets, Sums

CONSTANTS
  Books,        \* Books[leg]: books a leg may show, [buy, sell] sequences of
                \* levels [price, quantity], best first
  Capital,      \* capital_
  Payout,       \* worth of a basket (20'000)
  Margin,       \* margin_
  Cap,          \* cap_
  Delay,        \* delay of an arrival and of a response
  MaxGap,       \* longest gap between records
  MaxAttempts   \* max_attempts_

Leg == {1, 2, 3}
Side == {"buy", "sell"}
BookLevel == [price : Nat, quantity : Nat]

Prices(levels) == {levels[i].price : i \in DOMAIN levels}
Price == UNION {Prices(b.buy) \cup Prices(b.sell) : b \in UNION {Books[l] : l \in Leg}}
Level == Leg \X Side \X Price

\* Every leg has a book and prices are finitely many.  A price may be zero, as
\* in the code: then a leg is bought for nothing.
BookConstants ==
  /\ \A l \in Leg : Books[l] # {} /\ Books[l] \subseteq [buy : Seq(BookLevel), sell : Seq(BookLevel)]
  /\ IsFiniteSet(Price)

ExecutionConstants ==
  /\ {Capital, Margin, Cap, MaxGap, MaxAttempts} \subseteq Nat
  /\ Payout \in Nat \ {0} /\ Delay \in Nat \ {0}
  /\ BookConstants

VARIABLES
  connected,   \* the market state is connected
  markets,     \* markets_: the cached books
  scenario,    \* the ledger, the counters and consumed, see Init
  attempt,     \* scenario.attempt, NoAttempt for none
  status       \* [broken, expired, finished]

vars == <<connected, markets, scenario, attempt, status>>

NoBook == [buy |-> <<>>, sell |-> <<>>]
NoAttempt == [quantity |-> 0]

NewAttempt(q) ==
  [quantity |-> q, spent |-> 0, received |-> 0, due |-> 0, limit |-> 0, reserve |-> 0,
   leg |-> 1, stage |-> "buy_arrival", holdings |-> [l \in Leg |-> 0]]

Init ==
  /\ connected = FALSE
  /\ markets = [l \in Leg |-> NoBook]
  /\ scenario = [cash |-> Capital, spent |-> 0, received |-> 0, floor |-> 0, complete_cost |-> 0,
                 unwind_net |-> 0, reserved |-> 0, attempts |-> 0, completed |-> 0, exited |-> 0,
                 empty |-> 0, censored |-> 0, halted |-> FALSE, consumed |-> [k \in Level |-> 0]]
  /\ attempt = NoAttempt
  /\ status = [broken |-> FALSE, expired |-> FALSE, finished |-> FALSE]

Smaller(a, b) == IF a < b THEN a ELSE b
Positive(a) == IF a > 0 THEN a ELSE 0

\* What a book, or its first n levels, show at a price.
ShownAt(levels, n, price) ==
  SumOf([i \in 1..n |-> IF levels[i].price = price THEN levels[i].quantity ELSE 0])
QuantityAt(levels, price) == ShownAt(levels, Len(levels), price)

-----------------------------------------------------------------------------
(* fill(): walks the levels of one side within the limit. *)

\* Mutant of Left: levels are taken at their displayed size.
LeftDisplayed(s, l, side, level) == level.quantity

Left(s, l, side, level) == Positive(level.quantity - s.consumed[<<l, side, level.price>>])

Reaches(side, limit, price) == IF side = "buy" THEN price <= limit ELSE price >= limit

\* What one level gives, less what the scenario s had consumed of it before.
Take(done, s, l, side, level, desired, limit) ==
  LET q == Smaller(desired - done.quantity, Left(s, l, side, level))
  IN  IF ~Reaches(side, limit, level.price) \/ q = 0 THEN done
      ELSE [quantity |-> done.quantity + q, cash |-> done.cash + q * level.price,
            limit |-> level.price,
            consumed |-> [done.consumed EXCEPT ![<<l, side, level.price>>] = @ + q]]

Unfilled(s) == [quantity |-> 0, cash |-> 0, limit |-> 0, consumed |-> s.consumed]

\* The walk stops at the limit, at the quantity or at the end of the book.
Walk(s, levels, l, side, desired, limit) ==
  LET done[i \in 0..Len(levels)] ==
        IF i = 0 THEN Unfilled(s)
        ELSE Take(done[i - 1], s, l, side, levels[i], desired, limit)
  IN  done[Len(levels)]

Fill(work, l, side, desired, limit) ==
  Walk(work.s, work.books[l][side], l, side, desired, limit)

AnyPrice == [buy |-> 10000, sell |-> 0]

-----------------------------------------------------------------------------
(* Orders.  work == [s, a, books]: the scenario and the attempt so far, and  *)
(* the cached books.                                                         *)

With(work, s, a) == [s |-> s, a |-> a, books |-> work.books]

\* Mutant of EndExit: inventory that could not be sold is forgotten.
EndExitAlways(work) ==
  With(work, [work.s EXCEPT !.exited = @ + 1, !.unwind_net = @ + work.a.received - work.a.spent],
       NoAttempt)

\* No leg left to sell: a residual halts the scenario, otherwise the attempt
\* was unwound, or counts as empty because it has spent nothing.
EndExit(work) ==
  IF \E l \in Leg : work.a.holdings[l] # 0
  THEN With(work, [work.s EXCEPT !.halted = TRUE], work.a)
  ELSE IF work.a.spent # 0
  THEN With(work, [work.s EXCEPT !.exited = @ + 1,
                                 !.unwind_net = @ + work.a.received - work.a.spent], NoAttempt)
  ELSE With(work, [work.s EXCEPT !.empty = @ + 1], NoAttempt)

\* send_exit(): the next leg that is held.
SendExit(work, at) ==
  LET held == {l \in Leg : l >= work.a.leg /\ work.a.holdings[l] # 0}
  IN  IF held = {} THEN EndExit(work)
      ELSE With(work, work.s, [work.a EXCEPT !.leg = CHOOSE l \in held : \A k \in held : l <= k,
                                             !.stage = "sell_arrival", !.due = at + Delay])

BeginExit(work, at) ==
  SendExit(With(work, [work.s EXCEPT !.reserved = 0], [work.a EXCEPT !.leg = 1]), at)

\* What the legs still to buy would cost now.
Projected(work) ==
  LET cost(l) == IF l < work.a.leg THEN 0
                 ELSE Fill(work, l, "buy", work.a.quantity, AnyPrice.buy).cash
  IN  work.a.spent + cost(1) + cost(2) + cost(3)

DepthMissing(work) ==
  \E l \in Leg : l >= work.a.leg /\
    Fill(work, l, "buy", work.a.quantity, AnyPrice.buy).quantity # work.a.quantity

Funded(s, reserve) == reserve <= s.cash

\* send_buy(): all remaining legs must be there, in budget and funded.
SendBuy(work, at) ==
  LET current == Fill(work, work.a.leg, "buy", work.a.quantity, AnyPrice.buy)
      reserve == work.a.quantity * current.limit
  IN  IF \/ DepthMissing(work)
         \/ Projected(work) > work.a.quantity * Payout - Margin
         \/ ~Funded(work.s, reserve)
      THEN BeginExit(work, at)
      ELSE With(work, [work.s EXCEPT !.reserved = reserve],
                [work.a EXCEPT !.limit = current.limit, !.reserve = reserve,
                               !.stage = "buy_arrival", !.due = at + Delay])

\* The stages of an order, each at the time it was due.
BuyArrival(work) ==
  LET f == Fill(work, work.a.leg, "buy", work.a.quantity, work.a.limit)
  IN  With(work, [work.s EXCEPT !.cash = @ - f.cash, !.spent = @ + f.cash,
                                !.reserved = work.a.reserve - f.cash, !.consumed = f.consumed],
           [work.a EXCEPT !.holdings[work.a.leg] = @ + f.quantity, !.spent = @ + f.cash,
                          !.stage = "buy_response", !.due = @ + Delay])

SellArrival(work) ==
  LET f == Fill(work, work.a.leg, "sell", work.a.holdings[work.a.leg], AnyPrice.sell)
  IN  With(work, [work.s EXCEPT !.cash = @ + f.cash, !.received = @ + f.cash, !.consumed = f.consumed],
           [work.a EXCEPT !.holdings[work.a.leg] = @ - f.quantity, !.received = @ + f.cash,
                          !.stage = "sell_response", !.due = @ + Delay])

\* The basket is held: it counts with its floor and its cost.
Hold(work) ==
  With(work, [work.s EXCEPT !.floor = @ + work.a.quantity * Payout,
                            !.complete_cost = @ + work.a.spent, !.completed = @ + 1], NoAttempt)

LegBought(a) == a.holdings[a.leg] = a.quantity

BuyResponse(work) ==
  LET free == With(work, [work.s EXCEPT !.reserved = 0], work.a)
  IN  IF ~LegBought(work.a) THEN BeginExit(free, work.a.due)
      ELSE IF work.a.leg = 3 THEN Hold(free)
      ELSE SendBuy(With(work, free.s, [work.a EXCEPT !.leg = @ + 1]), work.a.due)

SellResponse(work) == SendExit(With(work, work.s, [work.a EXCEPT !.leg = @ + 1]), work.a.due)

Stage(work) ==
  CASE work.a.stage = "buy_arrival"   -> BuyArrival(work)
    [] work.a.stage = "buy_response"  -> BuyResponse(work)
    [] work.a.stage = "sell_arrival"  -> SellArrival(work)
    [] work.a.stage = "sell_response" -> SellResponse(work)

StageIfDue(work) ==
  IF work.a = NoAttempt \/ work.s.halted THEN work
  ELSE IF work.a.due <= 0 THEN Stage(work) ELSE work

\* advance(): every stage that is due; there are at most MaxGap + 1 of them.
Advance(work) ==
  LET after[n \in 0..(MaxGap + 1)] == IF n = 0 THEN work ELSE StageIfDue(after[n - 1])
  IN  after[MaxGap + 1]

\* censor(): an open attempt is cut off where it is and halts the scenario.
Censor(work) ==
  IF work.a = NoAttempt \/ work.s.halted THEN work
  ELSE With(work, [work.s EXCEPT !.censored = @ + 1, !.halted = TRUE], work.a)

-----------------------------------------------------------------------------
(* Records. *)

\* The state dt later; a halted attempt waits for nothing.
Elapsed(dt) ==
  [s |-> scenario, books |-> markets,
   a |-> IF attempt = NoAttempt \/ scenario.halted THEN attempt ELSE [attempt EXCEPT !.due = @ - dt]]

Lost(conn) == ~conn.connected \/ conn.fresh

\* What a record does before its book is cached: its clocks and its connection
\* may cut the attempt off, otherwise orders advance.
Arrive(dt, wall, conn) ==
  LET breaks == dt > MaxGap \/ wall = "jump"
      expires == wall = "expired"
      cut == breaks \/ expires \/ Lost(conn)
      checked == IF cut THEN Censor(Elapsed(dt)) ELSE Elapsed(dt)
      idle == status.broken \/ status.expired \/ cut
      advanced == IF idle THEN checked ELSE Advance(checked)
  IN  [work |-> IF Lost(conn) THEN [advanced EXCEPT !.books = [l \in Leg |-> NoBook]] ELSE advanced,
       status |-> [status EXCEPT !.broken = @ \/ breaks, !.expired = @ \/ expires],
       idle |-> idle]

\* The time since the last record and the wall clock of a record.  A fault of
\* the wall clock cuts the attempt off whatever the time.
Clocks == ((0..(MaxGap + 1)) \X {"ok"}) \cup ({0} \X {"jump", "expired"})

Becomes(work, next) ==
  scenario' = work.s /\ attempt' = work.a /\ markets' = work.books /\ status' = next

\* A record that opens or closes the connection.
ConnectionRecord(dt, wall, opens) ==
  LET r == Arrive(dt, wall, [connected |-> opens, fresh |-> opens])
  IN  /\ ~status.finished
      /\ connected' = opens
      /\ Becomes(r.work, r.status)

\* A record without a book; also any record that leaves the study idle, whose
\* book is of no use any more.
PlainRecord(dt, wall) ==
  LET r == Arrive(dt, wall, [connected |-> connected, fresh |-> FALSE])
  IN  /\ ~status.finished
      /\ Becomes(r.work, r.status)
      /\ UNCHANGED connected

\* An invalid or crossed book cuts the attempt off.
InvalidBookRecord(l) ==
  /\ ~status.finished /\ connected
  /\ Becomes([Censor(Elapsed(0)) EXCEPT !.books[l] = NoBook], status)
  /\ UNCHANGED connected

\* Sizes decide() may come to: all three legs there, funded, with the margin.
Sizes(work) ==
  {q \in 1..Cap :
     LET trial == With(work, work.s, NewAttempt(q))
     IN  /\ ~DepthMissing(trial)
         /\ Projected(trial) <= Smaller(work.s.cash, q * Payout - Margin)}

\* decide(): the onset of an episode starts an attempt when the scenario is
\* free, or is counted as skipped or rejected.
Decisions(work) ==
  {work} \cup
  {SendBuy(With(work, [work.s EXCEPT !.attempts = @ + 1], NewAttempt(q)), 0) :
     q \in IF work.s.halted \/ work.s.attempts >= MaxAttempts \/ work.a # NoAttempt THEN {}
           ELSE Sizes(work)}

\* An applied book: orders advance on the books before it, decisions see it.
BookRecord(dt) ==
  LET r == Arrive(dt, "ok", [connected |-> connected, fresh |-> FALSE])
  IN  /\ ~status.finished /\ ~r.idle
      /\ \E l \in Leg : \E book \in Books[l] :
           \E work \in Decisions([r.work EXCEPT !.books[l] = book]) : Becomes(work, r.status)
      /\ UNCHANGED connected

\* finish(): nothing is executed beyond the observation.
FinishStudy ==
  /\ ~status.finished
  /\ Becomes(Censor(Elapsed(0)), [status EXCEPT !.finished = TRUE])
  /\ UNCHANGED connected

Next ==
  \/ \E clock \in Clocks :
       \/ PlainRecord(clock[1], clock[2])
       \/ \E opens \in BOOLEAN : ConnectionRecord(clock[1], clock[2], opens)
  \/ \E dt \in 0..MaxGap : BookRecord(dt)
  \/ \E l \in Leg : InvalidBookRecord(l)
  \/ FinishStudy

Spec == Init /\ [][Next]_vars

-----------------------------------------------------------------------------
(* Properties. *)

ConsumedOf(consumed, l, side) == SumOf([p \in Price |-> consumed[<<l, side, p>>]])
Consumed(l, side) == ConsumedOf(scenario.consumed, l, side)

\* The ledger check never fails: cash is the capital less debits plus credits,
\* and the reservation of the order under way is covered by it.
LedgerSound ==
  /\ scenario.cash = Capital - scenario.spent + scenario.received
  /\ scenario.cash >= 0 /\ scenario.reserved >= 0 /\ scenario.reserved <= scenario.cash
  /\ scenario.reserved # 0 => attempt # NoAttempt /\ attempt.stage \in {"buy_arrival", "buy_response"}

\* Cash that neither the baskets held nor the unwound attempts explain.
Unexplained(s) == s.cash - (Capital - s.complete_cost + s.unwind_net)

\* Something was bought at a price of zero.
BoughtForNothing(consumed) ==
  \E k \in Level : k[2] = "buy" /\ k[3] = 0 /\ consumed[k] # 0

\* Nothing is lost: every attempt has ended once (held, unwound, empty, cut off
\* or with inventory left) or is open; what was bought of a leg less what was
\* sold is in the baskets held and the attempt's holdings; and with no attempt
\* open the cash is the capital less the cost of the baskets held, plus the
\* result of the unwound ones.  One thing is left out of these counters: what
\* an attempt received that spent nothing, which ends as empty.  So there may be
\* more cash than they say, never less, and only if an attempt ended as empty
\* and a leg was bought for nothing.
AccountsAddUp ==
  /\ scenario.attempts = scenario.completed + scenario.exited + scenario.empty + scenario.censored
                           + (IF attempt # NoAttempt /\ scenario.censored = 0 THEN 1 ELSE 0)
  /\ \A l \in Leg :
       Consumed(l, "buy") - Consumed(l, "sell") =
         (scenario.floor \div Payout) + (IF attempt = NoAttempt THEN 0 ELSE attempt.holdings[l])
  /\ attempt = NoAttempt =>
       /\ Unexplained(scenario) >= 0
       /\ Unexplained(scenario) # 0 => scenario.empty # 0 /\ BoughtForNothing(scenario.consumed)

\* "No replenishment credit": over all attempts, buys and sales, a level never
\* gives more than the most any book of its leg displays, however often the
\* book is refreshed.
LiquidityNeverReused ==
  \A k \in DOMAIN scenario.consumed : \E book \in Books[k[1]] :
    scenario.consumed[k] <= QuantityAt(book[k[2]], k[3])
==============================================================================
