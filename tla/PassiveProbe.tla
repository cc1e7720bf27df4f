---------------------------- MODULE PassiveProbe ----------------------------
(***************************************************************************)
(* The passive basket probe (src/session/passive_probe.cpp): one           *)
(* hypothetical resting buy at a time, played through several scenarios    *)
(* with a cash account each; when it fills, the other two legs are hedged  *)
(* after the scenario's delays, from books cached before the record.       *)
(*                                                                         *)
(* One record of the capture is one step: before() and after() of the      *)
(* observer, in the order of the code.  What a record says (time, clocks,  *)
(* connection, book, trade) is an input; how much a trade fills is the     *)
(* queue estimate's business (PassiveQueue) and left open; prices are one  *)
(* unit a contract and a basket pays Payout.                               *)
(***************************************************************************)
EXTENDS Integers

CONSTANTS
  Scenario,      \* scenarios_
  Delay,         \* Delay[s]: delay of each hedge
  Cap,           \* largest quantity (cap_)
  InitialCash, Payout,
  EntryDelay, RestTime,  \* RestTime covers resting and cancelling
  MaxGap,        \* largest gap between records
  MaxAttempts,   \* max_attempts_
  MaxTime,       \* bound: the clock
  MaxGeneration  \* bound: connections

ProbeConstants ==
  /\ Scenario # {}
  /\ Delay \in [Scenario -> Nat \ {0}]
  /\ {Cap, InitialCash, Payout, EntryDelay, RestTime, MaxGap, MaxAttempts, MaxTime, MaxGeneration}
       \subseteq Nat

Leg == {1, 2, 3}

VARIABLES
  now,          \* last_time_
  connection,   \* [connected, generation] of the market state
  generation,   \* generation_, 0 for none
  entry,        \* entry_, NoEntry for none
  scenarios,    \* scenarios_
  markets,      \* markets_ of the basket: [valid, newer, depth]; newer: the
                \* update came after the last attempt ended
  ended,        \* the last attempt ended at `now` (last_attempt_end_)
  attempts, halted, expired, continuity_failed, finished

vars == <<now, connection, generation, entry, scenarios, markets, ended, attempts,
          halted, expired, continuity_failed, finished>>

NoEntry == [leg |-> 0, quantity |-> 0, activation |-> 0, expiry |-> 0]
NoBook == [valid |-> FALSE, newer |-> FALSE, depth |-> 0]
Smaller(a, b) == IF a < b THEN a ELSE b

\* What a scenario starts an attempt with.
FreshAttempt ==
  [done |-> FALSE, closed |-> FALSE, resting |-> FALSE, filled |-> 0, debit |-> 0,
   close_time |-> 0, holdings |-> [l \in Leg |-> 0], hedged |-> {}]

Account ==
  [cash |-> InitialCash, spent |-> 0, floor |-> 0, conditional_margin |-> 0, residual |-> 0,
   halted |-> FALSE, completed |-> 0, empty |-> 0, censored |-> 0]

\* A scenario: its account and its attempt.
Init ==
  /\ now = 0
  /\ connection = [connected |-> FALSE, generation |-> 0]
  /\ generation = 0
  /\ entry = NoEntry
  /\ scenarios = [s \in Scenario |-> [account |-> Account, try |-> FreshAttempt]]
  /\ markets = [l \in Leg |-> NoBook]
  /\ attempts = 0 /\ ended = FALSE
  /\ halted = FALSE /\ expired = FALSE /\ continuity_failed = FALSE /\ finished = FALSE

-----------------------------------------------------------------------------
(* A record is worked through on a copy of the state, as the handler does. *)

StateAt(time) ==
  [entry |-> entry, scenarios |-> scenarios, markets |-> markets, attempts |-> attempts,
   ended |-> ended /\ time = now, halted |-> halted, expired |-> expired,
   continuity_failed |-> continuity_failed, generation |-> generation]

Held(try) == try.holdings[1] + try.holdings[2] + try.holdings[3]

CensorScenario(s) ==
  IF s.try.done THEN s
  ELSE [s EXCEPT !.try.done = TRUE,
                 !.account.censored = @ + 1,
                 !.account.halted = @ \/ s.try.filled # 0,
                 !.account.residual = IF s.try.filled # 0 THEN @ + Held(s.try) ELSE @]

\* Books no newer than the end of the attempt.
Older(books) == [l \in Leg |-> [books[l] EXCEPT !.newer = FALSE]]

\* censor(): every scenario still open is given up; what it holds is a
\* residual, and a residual halts the probe.
Censor(p) ==
  IF p.entry = NoEntry THEN p
  ELSE [p EXCEPT !.scenarios = [s \in Scenario |-> CensorScenario(@[s])],
                 !.halted = @ \/ \E s \in Scenario : ~p.scenarios[s].try.done
                                                    /\ p.scenarios[s].try.filled # 0,
                 !.entry = NoEntry,
                 !.ended = TRUE,
                 !.markets = Older(@)]

Clear(p) == [p EXCEPT !.markets = [l \in Leg |-> NoBook]]

CensorIf(condition, p) == IF condition THEN Censor(p) ELSE p
LoseIf(condition, p) == IF condition THEN Clear(Censor(p)) ELSE p
BreakIf(condition, p) ==
  IF condition THEN [Clear(Censor(p)) EXCEPT !.continuity_failed = TRUE, !.halted = TRUE] ELSE p

CloseEntry(s, time) ==
  [s EXCEPT !.try.closed = TRUE, !.try.close_time = time,
            !.try.done = @ \/ s.try.filled = 0,
            !.account.empty = IF s.try.filled = 0 THEN @ + 1 ELSE @]

-----------------------------------------------------------------------------
(* advance(): activation, expiry and hedges that are due. *)

\* Hedge legs come one delay after the other.
Ordinal(p, l) == IF l < p.entry.leg THEN l ELSE l - 1
Due(p, s, try, l) == try.close_time + Ordinal(p, l) * Delay[s]

DueLegs(p, s, try, time) ==
  {l \in Leg \ {p.entry.leg} : l \notin try.hedged /\ time >= Due(p, s, try, l)}

\* A hedge takes what the cached depth and the cash allow.
Hedge(p, s, l) ==
  LET q == IF p.markets[l].valid THEN Smaller(s.try.filled, p.markets[l].depth) ELSE 0
      bought == IF q > s.account.cash THEN 0 ELSE q
  IN  [s EXCEPT !.try.hedged = @ \cup {l}, !.try.holdings[l] = bought, !.try.debit = @ + bought,
                !.account.cash = @ - bought, !.account.spent = @ + bought]

HedgeIf(p, s, l, due) == IF l \in due THEN Hedge(p, s, l) ELSE s

\* One leg after the other: an earlier one may take the cash of a later one.
HedgeAll(p, s, due) == HedgeIf(p, HedgeIf(p, HedgeIf(p, s, 1, due), 2, due), 3, due)

Complete(try) == \A l \in Leg : try.holdings[l] = try.filled

\* settle(): a whole basket is worth its floor; anything less is a residual.
Settle(s) ==
  IF Complete(s.try)
  THEN [s EXCEPT !.try.done = TRUE, !.account.completed = @ + 1,
                 !.account.floor = @ + s.try.filled * Payout,
                 !.account.conditional_margin = @ + s.try.filled * Payout - s.try.debit]
  ELSE [s EXCEPT !.try.done = TRUE, !.account.halted = TRUE, !.account.residual = @ + Held(s.try)]

\* One scenario up to `time`; moved: the bid left the entry's price.
AdvanceScenario(p, s, time, moved) ==
  LET start == p.scenarios[s]
      activates == ~start.try.resting /\ time >= p.entry.activation
      lost == activates /\ (~p.markets[p.entry.leg].valid \/ moved)
      rested == IF activates THEN [start EXCEPT !.try.resting = TRUE] ELSE start
      closed == IF ~rested.try.closed /\ time >= p.entry.expiry
                THEN CloseEntry(rested, p.entry.expiry) ELSE rested
      hedged == HedgeAll(p, closed, DueLegs(p, s, closed.try, time))
  IN  IF start.try.done THEN start
      ELSE IF lost THEN [start EXCEPT !.try.done = TRUE, !.account.censored = @ + 1]
      ELSE IF ~closed.try.closed \/ closed.try.done THEN closed
      ELSE IF hedged.try.hedged = Leg \ {p.entry.leg} THEN Settle(hedged)
      ELSE hedged

Advance(p, time, moved) ==
  LET after == [s \in Scenario |-> AdvanceScenario(p, s, time, moved)]
      over == \A s \in Scenario : after[s].try.done
      short == \E s \in Scenario : after[s].account.halted
  IN  IF p.entry = NoEntry THEN p
      ELSE [p EXCEPT !.scenarios = after,
                     !.halted = @ \/ short,
                     !.entry = IF over THEN NoEntry ELSE @,
                     !.ended = @ \/ over,
                     !.markets = IF over THEN Older(@) ELSE @]

-----------------------------------------------------------------------------
(* Trades, updates and new attempts. *)

\* on_trade(): fills[s] of the resting order; a full order is closed.
FillScenario(p, s, quantity, time) ==
  LET start == p.scenarios[s]
      bought == [start EXCEPT !.try.filled = @ + quantity, !.try.holdings[p.entry.leg] = @ + quantity,
                              !.try.debit = @ + quantity, !.account.cash = @ - quantity,
                              !.account.spent = @ + quantity]
  IN  IF quantity = 0 THEN start
      ELSE IF bought.try.filled = p.entry.quantity THEN CloseEntry(bought, time) ELSE bought

Fillable(p, s) == LET try == p.scenarios[s].try
                  IN  p.entry # NoEntry /\ try.resting /\ ~try.done /\ ~try.closed

Fills(p) ==
  {f \in [Scenario -> 0..Cap] :
     \A s \in Scenario : /\ Fillable(p, s) \/ f[s] = 0
                         /\ f[s] <= Smaller(p.entry.quantity - p.scenarios[s].try.filled, Cap) \/ f[s] = 0}

Traded(p, fills, time) ==
  [p EXCEPT !.scenarios = [s \in Scenario |-> FillScenario(p, s, fills[s], time)]]

Updated(p, l, depth) ==
  [p EXCEPT !.markets[l] = [valid |-> TRUE, newer |-> ~p.ended, depth |-> depth]]

\* What every scenario has the cash for.
Affordable(p) == {q \in 1..Cap : \A s \in Scenario : q <= p.scenarios[s].account.cash}

\* Mutant of MaySelect: residuals do not stop the probe.
MaySelectAlways(p) ==
  /\ p.entry = NoEntry /\ p.attempts < MaxAttempts
  /\ \A s \in Scenario : p.scenarios[s].account.cash > 0
  /\ \A l \in Leg : p.markets[l].valid /\ p.markets[l].newer

\* select(): every leg has a book newer than the last attempt.
MaySelect(p) ==
  /\ p.entry = NoEntry /\ ~p.halted /\ p.attempts < MaxAttempts
  /\ \A s \in Scenario : p.scenarios[s].account.cash > 0
  /\ \A l \in Leg : p.markets[l].valid /\ p.markets[l].newer

Attempt(p, l, q, time) ==
  [p EXCEPT !.entry = [leg |-> l, quantity |-> q, activation |-> time + EntryDelay,
                       expiry |-> time + EntryDelay + RestTime],
            !.attempts = @ + 1,
            !.scenarios = [s \in Scenario |-> [@[s] EXCEPT !.try = FreshAttempt]]]

\* The outcomes of select(): nothing profitable, or an entry the poorest
\* scenario can pay.
Selections(p, time) ==
  {p} \cup
  (IF ~MaySelect(p) THEN {}
   ELSE {Attempt(p, l, q, time) : l \in Leg, q \in Affordable(p)})

-----------------------------------------------------------------------------
(* Records. *)

\* What before() and the start of after() do to an open attempt: a gap, a
\* connection that is closed or new, a jump of the wall clock, the end of the
\* policy.  conn is the connection after the record.
Interrupted(p, time, conn, wall) ==
  LET gap == BreakIf(time - now > MaxGap, p)
      before == LoseIf(~connection.connected \/ connection.generation # gap.generation, gap)
      jump == BreakIf(wall = "jump", before)
      over == [CensorIf(wall = "expired", jump) EXCEPT !.expired = @ \/ wall = "expired"]
      lost == ~conn.connected \/ conn.generation # over.generation
  IN  [LoseIf(lost, over) EXCEPT !.generation = IF lost THEN conn.generation ELSE @]

Idle(p, conn) == p.expired \/ p.continuity_failed \/ ~conn.connected

Becomes(p, time, conn) ==
  /\ now' = time /\ connection' = conn /\ generation' = p.generation
  /\ entry' = p.entry /\ scenarios' = p.scenarios /\ markets' = p.markets
  /\ attempts' = p.attempts /\ ended' = p.ended
  /\ halted' = p.halted /\ expired' = p.expired /\ continuity_failed' = p.continuity_failed
  /\ UNCHANGED finished

\* The clocks of the next record.
Clocks(time, wall) ==
  /\ ~finished
  /\ time \in now..Smaller(now + MaxGap + 1, MaxTime)
  /\ wall \in {"ok", "jump", "expired"}

\* A record that opens or closes the connection.
ConnectionRecord(time, wall) ==
  /\ Clocks(time, wall)
  /\ \E conn \in {[connection EXCEPT !.connected = FALSE]} \cup
                 {[connected |-> TRUE, generation |-> connection.generation + 1]} :
       LET p == Interrupted(StateAt(time), time, conn, wall)
       IN  /\ conn.generation <= MaxGeneration
           /\ \E moved \in BOOLEAN :
                Becomes(IF Idle(p, conn) THEN p ELSE Advance(p, time, moved), time, conn)

\* A record without a book or a trade, a clock record for one; also any
\* record whose clocks or connection leave the probe idle, which then ignores
\* what else it says.
PlainRecord(time, wall) ==
  /\ Clocks(time, wall)
  /\ LET p == Interrupted(StateAt(time), time, connection, wall)
     IN  \E moved \in BOOLEAN :
           Becomes(IF Idle(p, connection) THEN p ELSE Advance(p, time, moved), time, connection)

\* A record the probe looks into, in state p.
Attended(p, time) == Clocks(time, "ok") /\ ~Idle(p, connection)

\* A book that turns out invalid or crossed.
InvalidBookRecord(time, l) ==
  LET p == Interrupted(StateAt(time), time, connection, "ok")
  IN  /\ Attended(p, time)
      /\ Becomes(Censor([p EXCEPT !.markets[l] = NoBook]), time, connection)

\* An applied book update: advance() still sees the books before it.
BookRecord(time, l, depth) ==
  LET p == Interrupted(StateAt(time), time, connection, "ok")
  IN  /\ Attended(p, time)
      /\ \E moved \in BOOLEAN :
           \E q \in Selections(Updated(Advance(p, time, moved), l, depth), time) :
             Becomes(q, time, connection)

TradeRecord(time) ==
  LET p == Interrupted(StateAt(time), time, connection, "ok")
  IN  /\ Attended(p, time)
      /\ \E moved \in BOOLEAN :
           LET a == Advance(p, time, moved)
           IN  \E f \in Fills(a) : Becomes(Traded(a, f, time), time, connection)

\* finish(): nothing is extrapolated beyond the last record.
FinishProbe ==
  /\ ~finished /\ finished' = TRUE
  /\ LET p == Censor(StateAt(now))
     IN  /\ entry' = p.entry /\ scenarios' = p.scenarios
         /\ ended' = p.ended /\ markets' = p.markets /\ halted' = p.halted
  /\ UNCHANGED <<now, connection, generation, attempts, expired, continuity_failed>>

Next ==
  \/ \E time \in now..(now + MaxGap + 1) :
       \/ \E wall \in {"ok", "jump", "expired"} :
            ConnectionRecord(time, wall) \/ PlainRecord(time, wall)
       \/ TradeRecord(time)
       \/ \E l \in Leg : InvalidBookRecord(time, l) \/ \E depth \in 0..Cap : BookRecord(time, l, depth)
  \/ FinishProbe

Spec == Init /\ [][Next]_vars

-----------------------------------------------------------------------------
(* Properties. *)

Open(s) == entry # NoEntry /\ ~scenarios[s].try.done

\* Every attempt has exactly one outcome in every scenario (completed, empty,
\* censored, or short of a hedge, which happens once and halts the scenario),
\* and its money is in it: cash and spending add up to the initial cash, and
\* without residual the conditional margin is the floor less all spending.
AccountsAddUp ==
  \A s \in Scenario :
    LET a == scenarios[s].account
        outcomes == a.completed + a.empty + a.censored + (IF Open(s) THEN 1 ELSE 0)
    IN  /\ outcomes = attempts \/ (a.halted /\ outcomes = attempts - 1)
        /\ a.cash >= 0 /\ a.cash + a.spent = InitialCash
        /\ (a.residual = 0 /\ ~Open(s)) => a.conditional_margin = a.floor - a.spent

\* An attempt lasts only while a scenario of it is open, and none outlives its order
\* and its last hedge: a record at or after that time finds it settled or settles it.
AttemptsEndInTime ==
  entry # NoEntry =>
    /\ \E s \in Scenario : Open(s)
    /\ \A s \in Scenario : Open(s) => now < entry.expiry + 2 * Delay[s]

\* Inventory that could not be completed stops the probe: no further attempt.
StopsAtResidual ==
  (\E s \in Scenario : scenarios[s].account.residual # 0) => attempts' = attempts

\* All of this together (src/src/session/passive_probe.cpp).
ProbeSound == [](AccountsAddUp /\ AttemptsEndInTime) /\ [][StopsAtResidual]_vars
=============================================================================
