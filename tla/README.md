# Formal models of the event-market execution engine

TLA+ specifications of the engine in `src/`, the TLC configurations that check
them on small instances, and theorems about them that TLAPS checks for every
value of the constants. Every definition that models code names its lines in
`PROJECT.json` under `map`; paths below are relative to the repository root.

The engine never trades. It captures a venue's order books and public trades,
keeps the books, looks for baskets of contracts that pay more than they cost,
and simulates, under stated assumptions, what executing them would have given.
What makes it correct is therefore mostly of two kinds: a book, a quote or a
fill is used only while it is what the venue said it is; and a capture or a
report is published only when it is complete.

## 1. Inventory

### Components, state and operations

| component | state | operations |
|---|---|---|
| order book (`src/book/order_book.cpp`) | state, stream, last sequence, levels of both sides | `apply_snapshot`, `apply_delta(_after)`, `mark_stale`, `begin_recovery`, reads |
| market state (`src/market/market_state.cpp`) | generation, connected flag, books, last sequence of each stream | `open_connection`, `close_connection`, `begin_recovery`, `apply` |
| candidate tracker (`src/opportunity/candidate_tracker.cpp`) | current quote of each constraint, their count, generation and flag last seen | `refresh`, `refresh_all` |
| read-only feed controller (`src/session/readonly_feed.cpp`) | attempt, open and fault flags, commands, acknowledgements, subscriptions, trade sequence | `accept`, `abort`, `ready` |
| async capture writer (`src/session/async_capture.cpp`) | ring, `head_`, `tail_`, `epoch_`, counters, `failure_`, `closing_`; two threads | `append`, `finish`, destructor; `run` |
| raw journal (`src/journal/raw_journal.cpp`) | file, stream buffer, count | open writer, `append`, `flush`, read |
| capture session (`src/session/capture_session.cpp`, `session_files.cpp`) | metadata, journal, pending manifest, manifest | create, `append`, `finalize`, `verify_session` |
| capture run loop (`src/transport/readonly_capture.cpp`) | connection, outstanding write, timers, failure flags | one callback each for connect, handshake, read, write, control frame, four timers and signals |
| replay (`src/session/replay.cpp`) | a feed fed from the journal | `replay` |
| two-leg execution simulation (`src/session/execution_study.cpp`, `study_positions.hpp`) | event queue, orders, attempts, lots, ledger | decide, arrival, response, exit, settlement |
| passive queue (`include/eme/core/passive_queue.hpp`) | quantity ahead, unmatched reductions and credits | `advance`, `trade`, `depth` |
| passive probe (`src/session/passive_probe.cpp`) | entry, one cash account per scenario, cached books | `before`, `after`, `finish` |
| basket execution study (`src/session/basket_execution.cpp`) | scenario ledgers, attempt, consumed depth, cached books | `before`, `after`, `finish` |
| basket observation (`src/session/basket_observation.cpp`) | status, episode and durations of each basket, union time, deadline, cache | `before`, `after`, `finish` |
| asynchronous JSONL writer (`src/session/async_jsonl.hpp`) | queue, byte budget, one mutex and condition variable | write, `finish`; `run` |
| payoff constraints (`src/constraint/payoff.cpp`) | registry: constraints by id, ids by key, ids by market | `compile`, `verify_payoff`, `guaranteed_portfolio`, `add` |
| metadata (`src/gateway/kalshi/metadata_snapshot.cpp`, `market_registry.cpp`) | market registry: ids and tickers | `register_market`, load of a snapshot |
| fees and fills (`src/core/execution_cost.cpp`) | rounding excess held for an order | charge a fill, credit a sale, reserve for a purchase; `ceil_product` |
| sizing (`src/core/net_sizing.cpp`, `basket_sizing.cpp`) | local to a call: cursors, intervals, best quote, budget | `size_buy_pair`, `size_buy_basket` |
| numbers (`include/eme/core/fixed_point.hpp`, `orderbook_normalizer.cpp`) | none | parse a decimal text, make a level or a delta of it |
| capital time (`src/session/study_positions.hpp`) | cash times time, in two words | `add` |
| basket policy (`BasketObservation`'s rows, `src/cli/basket_screen.cpp`) | what earlier rows said of markets and of thresholds | accept or reject a row |
| screens (`src/cli/market_screen.cpp`, `basket_screen.cpp`) | rows, what is left of the budget, complete flag | screen a snapshot |
| Kalshi decoding, journal codec, import, command line | none that outlives a call | parsing, formatting |

### How they interact

`Runner` (the run loop) turns every callback into a record. `record()` gives it
to the observer's `before`, to the live feed controller, to the capture writer
and to the observer's `after`, in that order. The controller drives one
`MarketState`; observers (candidate tracker, execution simulation, basket
observation) read it by reference after each record. The capture writer hands records through a
ring to a second thread, which appends them to the session's journal and, in the
end, finalizes it. `replay` feeds the journal to a new controller, and must
reach what the live one had reached. The studies (probe, basket execution) run
on replay only. What an observer of a live capture reports goes through the
asynchronous JSONL writer, whose thread drains a queue of lines; replay writes the
same lines directly.

The metadata of a session names its markets and constraints. A load fills the
market registry and the constraint registry, from which the tracker and the
simulations take the legs of each constraint. Simulations and screens ask the
sizing searches for a quantity; these price it with the fee and fill functions,
which the simulations call again for each fill.

### What is hard

* **Two threads without a lock**: `append` and `run` share a ring, a byte
  budget, a wait epoch, a failure flag and a closing flag.
* **Order within one record**: the feed sees a record before the writer may
  refuse it, and the observer may throw before or after.
* **Timers racing callbacks**: retry, health, deadline, decision and duration
  timers, a posted stop, and a socket in any state.
* **Lost, late, repeated messages and reconnections** under two numbering
  scopes, where a plausible book may be a wrong one.
* **Crashes and partial writes** in a journal and a publication by rename.
* **Simulated time**: arrivals, responses, settlements, expiry and records that
  have the same time, or come late enough for several to be due at once.
* **Ledgers** that several attempts share, with partial fills, exits and
  rounding.
* **Roundings that add up**: a fee is rounded per fill, its excess rebated later
  over the order, and cash is reserved before the fills are known; margins are
  therefore not monotone in the quantity, and a search may not prune as if they were.
* **Widths**: products of 64-bit amounts, sums over years, texts near the
  largest number.

The list, each item at its line, is `hazards` in `PROJECT.json`.

### What makes each part correct

* Books: valid only while connected, equal to the venue's book, recovered only
  on request, never moved backward.
* Tracker: what evaluating from scratch would give; every quote executable.
* Feed controller: its flags and the market state's agree; ready means every
  selected market has a book.
* Capture: what is published is exactly what was accepted, whatever fails; no
  wakeup is lost; memory is bounded; `finish` returns.
* Session: verifies if and only if it was published and has not been changed.
* Run loop: the journal replays to the live feed; a local failure ends the run.
* JSONL writer: the same log as the capture writer, with a byte budget.
* Registries: three maps that agree; a document loads exactly when it is valid
  as a whole; the legs of a constraint pay in every resolution it allows.
* Amounts: an order pays its notional, fees and held rounding, never more than
  was reserved; a product, a sum or a text is exact or refused.
* Sizing and screens: the answer of trying every quantity; nothing is reported
  complete that a shared budget has cut short.
* Studies: money and contracts add up; no liquidity is used twice; nothing
  happens after a resolution, an expiry or a gap; each attempt ends once.

## 2. Modules

| module | models | abstract / composes |
|---|---|---|
| `OrderBook` | one book as a value, operators for every transition | |
| `MarketState` | all books of a connection owner, both scopes | uses `OrderBook` |
| `VenueReplica` | `MarketState` against an external venue and an unreliable path | composes |
| `CandidateTracker` | incremental quotes, fed by `MarketState` | composes |
| `ReadOnlyFeed` | the controller: one action per early return of `accept` | drives `MarketState` |
| `CaptureLog` | abstract log: accept, write, fail, publish | |
| `AsyncCapture` | both threads, one atomic access per step | implements `CaptureLog` |
| `RawJournal` | file, stream buffer, torn frames, writer lives | |
| `Session` | create, append, finalize, verify, death and damage | uses `RawJournal` |
| `CaptureRun` | callbacks and timers of the run loop, journal as replayed so far | feed flags of `ReadOnlyFeed` |
| `AsyncJsonl` | producer and worker around one mutex and condition variable | implements `CaptureLog` |
| `ExecutionLifecycle` | order lifecycle of the two-leg simulation | |
| `ImmediateStudy` | the simulation without a lifecycle policy: books, quotes, arrivals and fills | uses `BuyDepth` |
| `CapitalTime` | the two-word sum of cash times time | |
| `PassiveQueue` | both queue estimates against an external venue that knows its orders | |
| `PassiveProbe` | the probe, fills left open as `PassiveQueue` decides them | |
| `BasketExecution` | one scenario of the three-leg study | |
| `BasketObservation` | the observation and its time accounting | |
| `BasketPolicy` | the rows of an observation or a screen, accepted one by one | |
| `Constraints` | compiled constraints, verification of portfolios, the registry | |
| `Metadata` | the market registry and the load of a snapshot | composes `Constraints` |
| `ExecutionCost` | fees, charges, credits and reservations as operators | |
| `FillCost` | one order and its fills, in every split; the wide product, one bit per step | uses `ExecutionCost` |
| `BuyDepth` | what a quantity costs on a depth; the exhaustive search that is the reference | uses `ExecutionCost` |
| `PairSizing`, `BasketSizing` | the two searches, one evaluation or interval per step | use `BuyDepth` |
| `FixedPoint` | decimal texts, levels and deltas | |
| `Screen` | both loops over rows | searches as `PairSizing` and `BasketSizing` |
| `MarketProofs` | theorems about `MarketState`, `CandidateTracker`, `VenueReplica`, `ReadOnlyFeed` | |
| `Sums` | sums of natural numbers, and lemmas about them | |
| `AsyncCaptureProofs`, `AsyncJsonlProofs` | theorems about the two writers and their refinement of `CaptureLog` | |
| `CaptureProofs` | theorems about the run loop's journal and the files of a session | |
| `ExecutionLifecycleProofs` | theorems about the order lifecycle, its ledger and its pairs | |
| `BasketProofs` | theorems about `BasketExecution`, `BasketObservation` and `PassiveProbe` | |
| `AmountProofs` | theorems about `FillCost`, `CapitalTime`, `Constraints`, `BasketPolicy`, `PassiveQueue`, `Screen`, `ImmediateStudy` | |

Components that do not interact but answer one kind of question share an MC
module and a run (`MCWriters`, `MCExecution`, `MCPassive`, `MCBasketObservation`,
`MCArithmetic`, `MCScreens`). There a variable, which no step changes, says
which component a behaviour belongs to; the variables of the others keep their
initial state, and a step in which nothing happens is allowed only where the
component may end. Such a run has the states of its components side by side,
never their product.

**State.** Variables carry the members' names without the trailing underscore.
`books_` is a function over all markets plus the set `known` of its keys. The
feed's `event` is what `accept` returned last. In `CaptureRun` the journal is
kept as the feed state its replay has reached (`rec.replayed`) and whether no
record has been refused so far: `replay` is a fold over records, so this is all
that its answer depends on. History variables that are not in the code: `log`
(what the venue published), `accepted` and `appended` (what a caller was told),
`horizon` (earliest deadline a wall clock implied), `harmed` (files were
touched after the writer had gone), `total` (in `CapitalTime`, the sum without
words).

**Actions.** One per operation, callback or early return. A record of a study
is one action, from `before` to the end of `after`, in the code's order. In
`AsyncCapture` a step is one access to a shared variable, except that `epoch_.wait`
compares and blocks in one step, as the standard requires, and that the
load of `tail_` and the capacity test, which nothing separates, are one. In
`AsyncJsonl` a step is what a thread does between taking and releasing the mutex,
and a wakeup may be spurious. In the wide product of `FillCost` and in the searches a
step is one turn of the loop.

**Abstracted data.** Prices, quantities and levels are small integers; JSON,
hashing and the journal's bytes are what a reader can tell apart (whole, torn,
corrupt). Scales (10'000 and 1'000'000 in the code), the quantity step, the
width of a word and the largest cash are parameters. In `ExecutionLifecycle`, how
much of an order fills and at what cost within its reservation is left open,
which includes whatever books and fees would decide; `ImmediateStudy` is where
they do decide. It leaves out the evaluation budget of a quote and takes the
exhaustive search for the optimal one, with which `PairSizing` agrees. In
`Screen` a search is the evaluations it needs and its verdict. In `PassiveProbe` a
price is one unit per contract. In
`BasketExecution` the fee is part of the level's price. In `BasketObservation` a
market shows one price and the sizing search is the quote of one contract; wall
clock readings lie in `0..ValidUntil`, the last one standing for every later
reading, and `Fragile` names the markets whose messages may be rejected.

## 3. What TLC checks

Each property has a mutant, a plausible bug in one mapped definition, under
which the same run reports the property violated. The mutants stand beside the
definition they change and are used by nothing else.

| run | question | properties |
|---|---|---|
| `candidates` | any history of `MarketState` calls on a shared stream, with the tracker | `MarketConsistent`, `StaleNeedsRecovery`, `ValidBookMovesForward`, `TrackerIsCurrent`, `CandidateIsExecutable` |
| `replica` | loss, duplication, delay, reordering, two connections, both scopes | `ValidBookIsVenueBookInBoth` |
| `feed` | any record history, both protocols, `abort` anywhere | `ReportsAreTrueInBoth`, `HealthyLosesNothing` |
| `writers` | all interleavings of caller and worker, for both writers | `RingSafe`, `ImplementsLog` and `StreamImplementsLog` (refinements), `WritersFinish` (liveness) |
| `session` | death, failure and damage at every step, journal reopened | `JournalIsWhole`, `VerifiesIffPublished` |
| `capture_run` | every order of callbacks, timers and failures | `ReplayIsLiveFeed`, `CleanHistoryReplays`, `RunEnds` (liveness) |
| `capture_close_lost` | the finding of section 5 | `FinalizedReplays`, violated |
| `execution` | simulations of pairs, with and without a lifecycle, and of baskets | `LedgerConserved`, `PairsNeverUnwound`, `NeverOverHedged`, `NoTradeAfterResolution`; `ImmediateLedgerSound`, `ImmediateFillsAreReal`; `BasketAccountsAddUp`, `BasketLiquidityNeverReused` |
| `passive` | both queue estimates, reports on two channels; three probes, every order of records and interruptions | `ConservativeIsSafe`, `RemovalsCountOnce`, `ProbeSound` |
| `basket_observation` | rows in every order; one basket with reconnections, two on opposite sides of a market | `PolicySound`, `EpisodesAreReal`, `AccountingIsExact` |
| `arithmetic` | fills, products, sums and texts | `OrderSound`, `ExactOrRefused`, `SumIsExact`, `TextsAreExact` |
| `screens` | registrations, documents, searches, screens of two rows | `RegistryConsistent`, `PayoffsAreExact`, `LoadIsExact`, `SizesAreExact`, `ScreenIsSound` |

Some properties join what would fail for one cause; the mutant is shown for one part:

* `ReportsAreTrue` = `ConnectedIffHealthy` (the feed's flags and the market
  state agree) and `ReadyMeansEveryBook`. `HealthyLosesNothing` = `KeepsBooks` (a
  step that costs a book its validity fails the generation) and
  `TradesConsecutive` (no trade of a connection is skipped, and none is reported twice).
* `RingSafe` = `NoSlotRace` and `RetainedWithinLimit`. `WritersFinish` = what was
  accepted is written unless the writer fails, and `finish` returns, for both.
* `JournalIsWhole` = `WriterExtendsReadableJournal` and
  `VerifiedIsExactlyAppended`. `RunEnds` = `FailureEndsRun` and `EndsOrStaysOpen`.
* `LedgerConserved` = `CashConserved` and `ReservationsReleased`.
  `ImmediateLedgerSound` = `CashAddsUp`, `ReservationHolds`, `QuotesHold` (the
  bisection finds what an exhaustive search finds, and at the limits of a quote
  the book has all of it at the cost quoted). `ImmediateFillsAreReal` =
  `LiquidityUsedOnce` and `ExecutedAtArrival`. `BasketAccountsAddUp` = `LedgerSound`
  and `AccountsAddUp`.
* `ProbeSound` = `AccountsAddUp`, `AttemptsEndInTime`, `StopsAtResidual`, of whichever
  probe is explored.
* `EpisodesAreReal` = `NothingPastHorizon` and `ActiveOnCurrentBooks`;
  `AccountingIsExact` = `TimesAreEpisodes` and `PeakIsOfPositive`. `PolicySound` = two legs of
  every accepted basket pay at every settlement, and a row is accepted exactly
  when it and the rows before it are consistent as a whole.
* `TextsAreExact` = a text is read as the number it denotes or not at all, and
  a delta can take back every level. `LoadIsExact` = a document loads exactly
  when it is valid, whatever the order of its entries.
  `SizesAreExact` = both searches answer what trying every quantity would, and
  stop early only for want of a budget. `ScreenIsSound` = rows are searched only
  on books that belong together, the budget is shared as spent, and a report
  that says it is complete gives each row what it would get alone.

Where several instances of a component are explored at once (both scopes, both
protocols, one basket and two, the three probes), the MC module instantiates the component again
with other constants (`PerBook`, `PerMarket`, `One`, `Twice`, `Both`, `Partial`) and a variable, or the shape
of the state, says which one a behaviour belongs to.

### Bounds, and why they are enough

* `candidates`: three markets, one shared by two constraints, one stream, two
  prices, sequence numbers to 3, two generations. A gap on one market while the
  other constraint is quoted, a reconnection, and a delta below zero all occur.
* `replica`: two markets, five published messages, two connections. Five allow
  a snapshot of each market, a delta, its loss, and a later message that would
  hide the loss.
* `feed`: two selected markets and one that was not selected, two stream ids
  (each may be the books' or the trades'), two generations, trades numbered 1 to 3.
* `writers`: `Capacity` 2, three slots, four appends: the ring wraps and
  fills; charges 1, 2 and 5 against a limit of 4 reach the limit exactly and
  exceed it alone. The stream has a budget of 4 bytes, at most two bytes of an
  unfinished line and four lines, so the budget is reached with one line queued and with several.
* `session`: two records, so a torn or missing last frame leaves a whole one.
* `capture_run`: four connections, two commands. One retry, the last
  connection, and every phase of a connection occur with three already. An
  observer is there; without one its outcomes are simply not taken.
* `execution`: with a lifecycle, six policies that cover parallel and
  sequential entry, the three exits, and settlements before, at and after
  arrivals; capital 3 for two attempts, so reservations compete. Without, four
  frames in three ticks, two constraints that buy the same outcome of one market, so their
  orders meet at one level; capital for one pair or for both, fills in full or at
  60 per cent, latencies that make the legs arrive in either order. Baskets:
  quantities to 2, two attempts, gaps to 2 with a delay of 1, so that a late record
  makes two events due; one leg whose bids buy back less than is held; a book whose best
  level costs nothing, so an attempt can end as empty with money received.
* `passive`: depth 3, order 2, window 1, four venue events; a budget of two
  changes overflows (1024 in the code). Three small probes, as one with every
  bound raised is too large: one with two attempts, two connections and five ticks, in which a
  record up to 2 late can activate, expire and hedge at once; one with two scenarios
  that hedge after one tick and after two, so one is done or halted while the other is still open; one with
  quantity 2, cash for just that, and books of 0 to 2, so that orders and hedges fill in part.
* `basket_observation`: three ticks, three episode events, window 1 to 3. The
  two baskets need five markets, because a threshold must mean the same in both
  baskets; that instance has one connection, the one-basket instance two. Three rows over
  six markets, five pairs of thresholds (touching, apart, reversed) and six names: two rows
  can contradict each other, and a third can depend on both.
* `arithmetic`: price scale 10, coefficient scale 5, orders of up to 6 in pieces
  of every size, four fee policies with no, small and largest coefficient and a
  quantum that divides no fee; words of 7 bits and a denominator of 42, as the
  code's denominator is no power of two; 5-bit words in base 4 with 4-bit amounts,
  so sums are refused after few additions; texts of up to five characters over
  digits that reach the largest 8-bit number, the one above it, and everything
  that is not a number.
* `screens`: ids 0 to 3, three keys, markets 0 to 2 (0 is no id or market),
  portfolios of quantities to 2 against a largest cash of 3, so a payout
  overflows in one world and not in another; documents of up to three entries of a kind, which
  agree and disagree in each way the checks distinguish; depths of up to
  two levels for pairs (three for baskets) that end between two steps, on one or beyond the cap,
  with a search budget that suffices and one that does not; two rows that share
  a market or two, books missing, slow, old and shallow, 8 instants, so that a
  difference of unsigned times would wrap if it were taken the wrong way.

`CHECK_DEADLOCK FALSE` is set where a run ends because its bounded inputs, time
or connections are used up. `AsyncCapture`, `AsyncJsonl`, `CaptureRun`, `Metadata` and
`ExecutionLifecycle` end only in an explicit `Terminated`, and are checked for
deadlock.

### Fairness

* `AsyncCapture`, `AsyncJsonl`: weak fairness of each thread's own steps
  (`InCall`, `Run`): the operating system runs a runnable thread. A lock that is
  held is released by a step of its holder. Nothing makes the caller call; a
  blocked worker has no step until it is notified.
* `CaptureRun`: weak fairness of `Connect` (the retry timer expires),
  `ConnectFails` (the deadline timer is one of its causes), `PostedStop`, `Health`
  (a repeating timer) and `Finish` (code after the event loop). The `io_context`
  runs until it has no work. Nothing is assumed of the network, the operator or
  the writers. `EndsOrStaysOpen` therefore allows a connection that stays open
  forever.

Replay and the studies are sequential, and only their safety is checked.

## 4. What is proved

Seven modules hold the theorems and `Sums` lemmas that they share. Each theorem is about every value of the
constants that the named assumptions allow (`...Constants` in the module of the
component); `PROJECT.json` lists them with the property they state. Where TLC
explores several instances of a component side by side, the run's property is the
conjunction over the instances (`ValidBookIsVenueBookInBoth`,
`ReportsAreTrueInBoth`, `StreamImplementsLog`, `ProbeSound`) and the theorem is about the component
with free constants.

### Market state

`MarketProofs`, for any set of markets, streams, prices, level lists,
generations, sequence numbers, changes and either scope, from `BookConstants`
and `MarketConstants` alone:

* `MarketTypes`: `MarketSpec => []MarketTypeOK`.
* `MarketSafety`: `MarketSpec => []MarketConsistent`: a book is valid only while
  its connection is open, and a valid book of a shared stream is never ahead of it.
* `RecoveryIsTheOnlyWayBack`: `MarketSpec => StaleNeedsRecovery`.
* `ValidBooksOnlyAdvance`: `MarketSpec => ValidBookMovesForward`.

The invariant is `MarketInv`: `MarketTypeOK`, the two parts of
`MarketConsistent`, `ValidHasSequence` (a valid book has a stream and a sequence
number) and `ConnectedHasGeneration` (a connected state has a generation above
zero). The last two are what make it inductive: `apply_delta_after` takes the stream's last number as
predecessor, which is a number only because the book got its own from an
applied update; and `open_connection` skips invalidation when the generation is
zero, which is harmless only because no book is valid then. The proof has one
lemma per operation; `Finish`, which all updates end in, has its own, and
`SnapshotEffect` and `DeltaEffect` say what one book update can do. The two
action properties follow from the invariant and `BookStep`, what a step of the
current connection may do to one book. The lemmas are about the operations, not
about `MarketNext`, so the compositions below use them as they are.

### What is built on it

The candidate tracker (`MarketProofs`), from `TrackerConstants` (a finite
set of constraints with two legs each, prices inside the scale):

* `TrackerImplementsMarket`: `TrackerSpec => MarketSpec`, so every theorem above
  holds under the tracker. It is also why one TLC run on `TrackerSpec` checks
  the properties of `MarketState`.
* `TrackerAgreesWithScratch`: evaluating only the constraints of the updated market,
  and counting by increments, never differs from evaluating them all.
* `CandidatesAreExecutable`: a candidate pays more than it costs, and each of its
  legs is on offer at its price in a valid book.

The invariant is `TrackerInv`. What makes it inductive is that the tracker has
seen the generation and the connected flag of the moment: a rejected update of a
shared stream makes every book stale, and only the changed flag tells `refresh`
to evaluate everything (`RefreshIsCurrent`). When the flag did not change,
`FinishTouchesItsMarket` gives that no other market's book did, and
`QuoteReadsItsLegs` that no other constraint's quote did. That a quote is
executable needs that a side with a price has a best one: a set of natural
numbers has a least element (`NatLessThanWellFounded`).

The replica, from `VenueConstants` (streams fit the scope):

* `ValidBooksAreVenueBooks`: a valid book is the venue's book as of the last sequence
  number its client followed, whatever the path loses, repeats, reorders or
  delays.

The invariant joins `MarketInv` with `LogInv`, what the published messages say of
the venue: sequence numbers increase along each stream of a connection
(`LogOrdered`), and each delta is the change from the message of its market before
it (`LogContinuous`). A delta is applied only when its number is the next one, so
between the point followed and the delta there is no message of its market, and
the change is applied to the content it was published against. A message of another
market moves that point without touching the book.

The feed controller, from `FeedConstants` (a protocol, the scope it implies, a
selection without repetition):

* `FeedReportsAreTrue`: the feed's flags and the market state agree after every
  early return, and `ready` implies that every selected market has a valid book.
* `FeedLosesNothing`: a record that costs a book its validity fails the generation,
  and trades of a connection are consecutive.

`ready` only compares two counts. They agree with the sets because books are only
ever kept for selected markets, which subscriptions guarantee: `FeedInv` says both.

### Writers

`AsyncCaptureProofs`, from `CaptureConstants`, for any capacity, byte limit, record
sizes and interleaving of single accesses:

* `RingIsSafe`: no slot is used by both threads, and the ring holds no more bytes
  than its limit.
* `CaptureImplementsLog`: `Spec => ImplementsLog`, the refinement of `CaptureLog`,
  one lemma per action that maps to a step of the log, the rest stuttering.

`RingInv` says that the slots from `tail` to `head` are a window on the accepted
records, in order, that starts at the first one not taken. `BytesInv` counts bytes
as cells of records, so that "retained + released + consumed = accepted" is a
statement about finite sets; the caller's stale copy of `consumed_bytes_` can only
make it refuse early. `CloseInv` is the closing handshake: what the worker has seen
of `closing_`, `failure_` and `head_` when it decides to finalize is still so,
because the caller appends nothing after it has stored `closing_`.

`AsyncJsonlProofs`, from `JsonlConstants` (a hypothesis of each theorem, because the
module is only ever instantiated):

* `StreamIsPlainLog`: the stream refines the same log.
* `RetainedIsExact`: the bytes charged are those of the lines in memory.

`PlacesInv` gives every line its place, in the file, in the worker's hands or in the
queue; `LeaveInv` says that the worker leaves only when all is written or the stream
has failed, also when a wakeup was spurious.

### Journals

`CaptureProofs`, from `RunConstants`, for any number of connections and commands,
with or without an observer:

* `JournalReplaysToFeed`: a replay of the journal reaches the live feed until
  something fails locally.
* `CleanRunReplays`: the journal of a stopped run replays to its end, terminal close
  included, unless a writer or the observer failed.

`RunInv` ties three views of a connection: the run's (`connection`,
`connect_due`), the live feed's flags, and those of the feed a replay has reached. A
record is refused by replay exactly when its kind does not fit these flags, so each
callback must be shown to come only when they do (`FeedFollows`). Once anything has
failed locally nothing is claimed of the journal; until then the two feeds are equal,
and after the last record they differ at most by an abort.

The files of a session (`CaptureProofs`), from `JournalConstants`, for any records, crash and damage:

* `JournalsAreWhole`: a writer extends only a journal that can be read back, and a
  session that verifies holds exactly what was appended.
* `PublishedVerifies`: a session verifies exactly when `finalize` reported its
  manifest, as long as its files were not touched.

`SessionInv` speaks of what the file will hold when the stream has drained
(`disk \o buffer`): after a partial write neither alone is a journal. `StepInv` says how
far each step of `finalize` has come; the published manifest describes exactly the
journal that was appended, or has been damaged since.

### Orders

`ExecutionLifecycleProofs`, from `LifecycleConstants` (settlements sorted by time, as
`src/session/study_policy.cpp:103` leaves them, and finitely many constraints), for any
policies, latencies, fills and frames:

* `QueueInvariant`: every order waits for one event at most, of the kind it lacks;
  the code's "response lifecycle" error cannot happen.
* `SecondLegNeverAhead`: sequential completion never buys more of the second leg
  than the first filled.
* `NeverTradesAfterResolution`: no order fills in a market whose settlement is due
  by then.
* `LedgerInvariant`, `LedgerIsConserved`: no money is made or lost, no part of the
  ledger goes below zero, and no reservation outlives the responses of the buys it is for;
  `check_cash` never fails.
* `PairsAreNeverUnwound`: a leg keeps the contracts that the other leg matches until
  its market settles, however exits race with other attempts and settlements.

The second needs more than it says: a completion is sized when the previous
response arrives and filled later, so `OneBuyAtATime` states that nothing else of
the attempt is in flight, and that what is asks for no more than is missing. The third rests on
the order of the drain: a settlement that is due is applied before any event
of its time (`SettledBeforeTaken`).

`LedgerInv` says where each part of the ledger is: the reserved total is what the
attempts hold, the unconfirmed parts are the debits and credits of orders that have
not responded, and until a market settles the lots cost what was spent and not sold. `ReservationsBacked` carries
it through responses: what an attempt holds for a leg is the reservation of a buy
in flight, or, in a sequential run, waits for one. `PairsInv` says that an
attempt offers one exit, once all its buys have responded, for no more than a leg
has beyond what the other matches; before that a leg owns all it bought.

Sums over lots, orders and legs are cardinalities (`Sums`): `Units(f)` has `f[x]` elements for
each `x`, and `SumOf(f)` counts them. That a sum is natural, takes one more summand,
changes with one of them or splits where a sequence does then follows from the
library's theorems about finite sets, without an induction rule. For the same reason
`close_position`'s loop is the number of lots it takes whole (`WholeLots`, which
`LeastNatural` shows to exist) and a part of the next one.

### Amounts

`AmountProofs`:

* `OrdersAreSound` (`FillConstants`): an order has paid its notional, its fees and
  the rounding it still holds, and the reservation covers it however it is split.
  `OrderInv` bounds, after any number of fills, the sum of rounded debits by
  the exact sum and one quantum for each fill (`SumsBounded`); the reservation is that
  bound for the largest number of fills, one per step. `RebatesAreCapped`: no fill
  pays less than its notional, no sale receives more.
* `ProductsAreExact` (`Powers`, `SmallDenominator`: words of any width, a denominator of at
  most a third of a word). `LoopInv` says that quotient and remainder are those of
  `a` times the bits of `b` taken so far; a refusal in the middle is right
  because the bits still to come only enlarge it.
* `CapitalTimeIsExact` (`WordConstants`: words of width `W` and base `Scale` with
  `Scale * Scale <= W`, as in the code, and amounts whose double fits a word). `SumInv`:
  the two words denote the sum and the lower one is below the base.
* `CompiledLegsPay`, `RegistryAgrees`, `EveryFloorHolds` (`ConstraintConstants`, any ids,
  keys, markets and largest payout): the three maps of the registry agree after any
  additions, and each constraint leads to a portfolio that pays its floor. What
  carries it is that `add` looks for the key after it has ruled out the id, so a
  new id can neither overwrite a key nor be listed twice at a market.
* `PoliciesAreSound` (`PolicyConstants`, any rows in any order). `PolicyInv`: what is
  remembered of markets and thresholds is exactly what the accepted rows say.
* `ConservativeNeverOverstates` (`QueueConstants`, any depth, order, window, budget and
  history of the venue): the conservative queue estimate is never nearer to the
  front, and never fills more, than the order really would. Between the estimate and
  the venue are the trades not yet reported. `ConservativeInv` therefore speaks of the
  estimate as it will be once told of all of them (`SafeAfter`); depth changes,
  however they overtake the trades, move only the favorable estimate. Totals of the
  reports are given by the suffix sums that exist for them (`Totals`), which needs no
  induction.
* `RemovalsAreCountedOnce` (`QueueConstants`): the favorable estimate never advances the
  order by more than what was traded and cancelled; the two reports of a trade count once,
  whichever comes first. `FavorableFits` weighs the order's advance and the
  reductions that still wait for their trade against what the estimate was told and the credits
  that still wait for their depth change (`Balanced`). It has to look ahead: a depth change on its way
  counts only if its trade comes before it, a trade only if its depth change has been
  seen. `ReductionsWait` and `CreditsWait` say which reports a waiting entry may still meet, in
  the order of the lists (`ListsInOrder`), so that matching the oldest first and
  dropping what is older than the window keeps the balance; `DepthsAddUp` says
  that the depths on their way add up to the venue's. A depth report of the model
  carries the number of its venue event and the quantity traded for the invariant's
  sake; no frame reads them.
* `OnlySynchronousRowsAreSearched`, `CompleteScreensStandAlone`, `ScreenBudgetIsShared`,
  `IncompleteScreensAreShort` (`ScreenConstants`, any rows of two or three legs, books,
  fees, times, budgets): together `ScreenIsSound`. `ScreenHolds` says of every row
  reported what its status means (`ReportFits`); a row that was cut short stands for a
  budget that is used up, for good, since the total never shrinks or exceeds it.
  `ChecksOfTimes` is why two comparisons of the oldest request and the newest receipt speak for
  all books at all instants: request, receipt and present come in this order in an
  accepted input, so no unsigned difference wraps.
* `OrdersArriveInTime`, `StudyCashAddsUp`, `StudyReservationsHold`, `StudyLiquidityUsedOnce`
  (`StudyConstants` of `ImmediateStudy`: a capital that fits a word, a cap of a step at least, books
  sorted by price, fee policies; any constraints, latencies, rejections, frames and either search): an
  immediate order meets the books as of its arrival, cash is available, spent or
  reserved and never overdrawn, no order pays more than its reservation, and no two take
  the same contracts. They are `ImmediateFillsAreReal`, and `ImmediateLedgerSound` without
  `QuotesHold`.

The argument for the immediate study is in two invariants. `StudyTimes`: no book was updated later than
now, and none after the arrival of an order still pending, since orders due before a
frame go first. `StudyHolds` is `StudyBooks`, levels climb in price and what was
taken is counted, and `StudyLedger`: every pending order belongs to an attempt with a
quantity on the grid, a limit, and the reservation for that quantity at that limit. A quote uses no
level dearer than its last (`PassesClimb`), so its own cost is covered (`QuoteIsCovered`). The
order later finds other levels, in other numbers, on a grid that the
liquidity rate does not respect; all it can still count on is that each fill is within
the limit and a step at least. `Spending` bounds what any such fills come to, fees and rounding
included, and `PaymentIsCovered` is that bound against the reservation. That also
shows that no fill is refused for size (`FillIsOk`): the reservation fits a word because the
available cash did. Both searches return a quantity that the cash covers
(`QuantityFits`): the bisection because its lower end only moves to such quantities.

### Baskets

`BasketProofs`, from `ExecutionConstants`, for any books with finitely many prices and
levels of any size, and any capital, payout, margin, cap, delays and gaps:

* `BasketLedgerIsSound`: the cash is the capital less what was spent plus what was
  received, it is never negative, and it covers the reservation of the buy in flight.
  The two checks of `src/session/basket_execution.cpp` ("execution funding invariant",
  "execution cash ledger") cannot throw.
* `BasketAccountsAlwaysAddUp`: attempts, contracts and money agree: no attempt ends
  twice, no contract is lost or sold twice, and the cash of a study at rest is
  explained by the baskets held and the attempts unwound, or is more than these say, and
  that only after a purchase at a price of zero by an attempt that ended as empty.
* `BasketLiquidityIsNeverReused`: over the whole study a price level never gives more than
  the most any book of its leg shows there.

Together they state `BasketAccountsAddUp` and `BasketLiquidityNeverReused` of the run, which
say the same of an instance of the module. `BasketInv` is kept by every step of a
record, not only by the record as a whole: `Money`, `Contracts`, `Counts`, `Reservation`,
`Paid` and `NeverReused` relate a scenario to the attempt it has open, and `Order` to
where that attempt is: a buy in flight for leg n has all legs before n, none after, and has sold
nothing; what it reserved is quantity times limit, which its fill cannot exceed.

A price of zero is let in, as `Price::parse`, the books and `size_buy_basket` do. It shows
in one counter: an attempt with nothing spent is counted as empty
(`src/session/basket_execution.cpp`, 484 to 489), and `unwind_net` misses what it received if it
bought at zero and sold for more. The cash itself is right. `AccountsAddUp` therefore
states what the counters do promise: with no attempt open there is never less
cash than they say (`Unexplained`), and there is more only if an attempt ended as empty and a leg was
bought at zero (`BoughtForNothing`); otherwise they are exact. The invariant carries this as
`Money`, where `Uncounted` is that difference with an attempt open, and as `Paid`: an
attempt that has spent nothing has received and holds nothing, unless a leg was bought at zero. No doc or
test of the repository says what `empty` or `unwind_net` is in that case.

The two loops, over levels in `fill` and over due stages in `advance`, are functions
of the number of rounds. `LeastNatural` shows that such a function exists and that what
every round keeps holds at the end (`WalkPasses`, `AdvancePasses`). The invariant of the first is
`Filled`: what was taken so far is within the quantity and the limit, was taken from
this side only, and a level it took from has given no more than the levels passed
so far show at that price.

About the observation, from `ObservationConstants`, for any baskets of three markets,
books, cash, margin, window, wall clock readings and lengths of a study:

* `ObservedTimesAreEpisodes`: the positive time of each basket, and the union over
  baskets, are the ticks that the reported episodes cover, counted once however episodes
  overlap and touch; and the durations of a basket add up to the time since the first
  frame.
* `ObservationEndsInTime`: no episode reaches past the earliest end of the window that an
  accepted wall clock was mapped to.
* `EpisodesAreOnCurrentBooks`: an episode is open only while the stream is connected and
  its three books of now quote a positive margin: the cache outlives no gap.
* `PeakIsOfOneMoment`: the peak only grows to a number of baskets that are positive on the
  same books.

They are what the run checks of its two studies as `EpisodesAreReal` and
`AccountingIsExact`. `ObservationHolds` (`ObservationIsSound`) is inductive. Its parts
are `UnionFits` and `TimeFits`, which pair every account with the time it was last
brought up to (`union_since`, a basket's `since`) and say that no episode closed or
opened after that, so that the next stretch of time adds ticks none of which is counted
yet; `Live`, that an active basket is positive in the cache; `Views`, that
the cache and the generation are those of the stream until the window ends, without which
a frame could revive a book of an earlier connection; and `DeadlineFits`, that the
deadline is the earliest mapped one. A study that failed reports nothing and is
left out; whether one fails is not claimed.

A frame is proved call by call, as the code makes it: `before`, the window, the
connection, the baskets of the market. The loops over baskets are again functions of
the number of passes (`IsLoop`), and `Treated` says what holds between two passes: the
baskets passed fit the new cache, and each of the others is active exactly when its
status, found on the old cache, is positive. That is why the peak cannot be taken inside the loop: there
the active baskets are positive on two different caches.

About the probe, from `ProbeConstants`, for any scenarios, delays of at least a tick, cash,
payout, cap, rest and entry delays, books and fills:

* `ProbeAccountsAddUp`: every attempt has one outcome in every scenario, cash is never
  negative and what is missing of it was spent, and without a residual the conditional
  margin is the floor less all spending. The check of a fill's debit
  ("passive entry funding invariant") cannot throw, with prices of one unit.
* `ProbeAttemptsEnd`: an attempt is open only while one of its scenarios is, and each ends
  by the order's expiry and its last hedge.
* `ResidualStopsProbe`: inventory that could not be completed stops all further attempts.

`ProbeIsSound` is all three, `ProbeSound` of the run. The probe reserves nothing: that a
fill is paid rests on select() taking no more than the poorest scenario has, and on the order
being the only thing that spends until it is closed, so `OpenFits` keeps the cash of an
order at least at what may still fill. `Inventory` is what hedges and fills share: no leg
is above the entry's fills, which is why a whole basket is one where the smallest leg
equals them. A scenario that is halted is never open, and only halts have a residual
(`AccountFits`). `ProbeFits` is kept by each call a record makes, at its own time: what
interrupts an attempt leaves it at the time of the last record, `advance` takes it to that of
this one, and the only records after which it does not are those that leave no order
(`RecordFits`).

### What is only model-checked

* Liveness (`WritersFinish`, `RunEnds`): fairness and ENABLED are outside the prover.
* What rests on folds or recursion over data: texts (`TextsAreExact`); documents
  (`LoadIsExact`, `PayoffsAreExact`); and the searches (`SizesAreExact`, and `QuotesHold` in
  `ImmediateLedgerSound`), which are compared with an exhaustive search.
* The finding of section 5.

## 5. A disagreement between code and documentation

`capture_close_lost`. When the observer throws in `before()` while the
`ws.close.v1` record is being made, `record()` aborts the feed, writes nothing
and returns false; `stop()` ignores that (`transport/readonly_capture.cpp:333`),
and `run()` publishes the manifest and returns `finalized = true`. The journal has
no terminal close, and replay refuses it. `include/eme/session/readonly_feed.hpp:35`
says such captures "must remain incomplete"; `docs/guides/READONLY_CAPTURE.md:502`
says "Replay requires terminal close history." The stop reason does name the
analysis failure. `BasketObservation::before` can throw there: the expiry of an
open episode writes a line, and writing throws when the output has failed.

## 6. Not modelled

* Decoding of the venue's JSON: the decoder looks for fields and keeps no
  state; the feed sees a message that is well formed or rejected. Numbers are
  modelled (`FixedPoint`).
* The journal's bytes and checksums: `RawJournal` keeps what a reader can tell
  apart.
* Import of captures: a loop over a file that calls the session writer.
* Command line, policy files and the JSON of metadata: parsing, formatting and
  limits on sizes, no state that outlives a call. The canonical text of a
  document is left out with them.
* Arithmetic errors of the sizing searches: the caps that callers impose keep
  every intermediate sum in range, and the models have no states in which one fails.
* Reports of the studies: their numbers are modelled, their layout is not.
* Weaker memory orders: `AsyncCapture` is sequentially consistent. The code's
  acquire and release pairs are on `head_`, `tail_`, `consumed_bytes_` and
  `closing_`; reasoning about them needs another model.

## 7. Plan

Done, in this order: `OrderBook`, `MarketState`, `VenueReplica`, `AsyncCapture` with
`CaptureLog`, `RawJournal`, `Session`, `ReadOnlyFeed`, `CandidateTracker`, `CaptureRun`,
`ExecutionLifecycle`, `PassiveQueue`, `PassiveProbe`, `BasketExecution`,
`BasketObservation`, and the theorems on `MarketState` and `CandidateTracker`; then
`AsyncJsonl`, `Constraints`, `Metadata`, `ExecutionCost`, `FillCost` (with the wide
product), `BuyDepth`, `PairSizing`, `BasketSizing`, `FixedPoint`, `CapitalTime`,
`BasketPolicy`, `Screen`, `ImmediateStudy`, and the theorems on five of them; then the
theorems on `VenueReplica`, `ReadOnlyFeed`, both writers, `CaptureRun`, `Session`,
`ExecutionLifecycle`, both estimates of `PassiveQueue`, `BasketExecution`,
`BasketObservation`, `Screen`, `ImmediateStudy` and `PassiveProbe`.

Next modules:

1. `ReadOnlyFeed` composed with `CandidateTracker`, as replay does.
2. The capture import, with the session it writes to.

Next theorems, in order of what they are worth:

1. `QuotesHold` of `ImmediateStudy`, for the bisection: it needs that the cost of a quote grows
   with its quantity.
