---------------------------- MODULE ReadOnlyFeed -----------------------------
(***************************************************************************)
(* session::ReadOnlyFeed (src/session/readonly_feed.cpp): the controller   *)
(* that drives MarketState from journal records, live and in replay.       *)
(* accept() is one action per early return.  Records other than book       *)
(* messages are abstracted to what accept() tests of them.                 *)
(***************************************************************************)
EXTENDS MarketState, FiniteSets

CONSTANTS
  Protocol,    \* per_market_v1, shared_subscription_v1 or book_and_trades_v1
  Selection,   \* selection_: the captured markets, in order
  Time,        \* receive times
  TradeSequence  \* sequence numbers of public trades

ASSUME FeedConstants ==
  /\ Protocol \in {"per_market_v1", "shared_subscription_v1", "book_and_trades_v1"}
  /\ Selection \in Seq(Market) /\ Selection # <<>>
  /\ \A i, j \in DOMAIN Selection : Selection[i] = Selection[j] => i = j
  /\ Time \subseteq Nat /\ TradeSequence \subseteq Nat
  /\ Scope = IF Protocol = "per_market_v1" THEN "per_book" ELSE "shared_stream"

VARIABLES
  feed_generation,   \* generation_
  last_time,         \* last_time_
  attempting, opened, faulted,
  sent,              \* commands already sent
  acknowledged,      \* commands the venue acknowledged
  subscriptions,     \* sid -> market, AnyMarket when shared, None when no key
  trade_sid,         \* None before the trade subscription is acknowledged
  trade_sequence,    \* 0 before the first trade
  event              \* the FeedEvent accept() returned last

feedVars == <<feed_generation, last_time, attempting, opened, faulted, sent,
              acknowledged, subscriptions, trade_sid, trade_sequence, event>>
fvars == <<connection_generation, connected, known, books, stream_sequences,
           feed_generation, last_time, attempting, opened, faulted, sent,
           acknowledged, subscriptions, trade_sid, trade_sequence, event>>

Shared == Protocol # "per_market_v1"
Trades == Protocol = "book_and_trades_v1"
AnyMarket == "any"
Selected == {Selection[i] : i \in DOMAIN Selection}

\* One subscribe command per market, or one for all, and one for trades.
CommandCount == IF ~Shared THEN Len(Selection) ELSE IF Trades THEN 2 ELSE 1

FeedInit ==
  /\ MarketInit
  /\ feed_generation = 0 /\ last_time = 0
  /\ attempting = FALSE /\ opened = FALSE /\ faulted = FALSE
  /\ sent = 0 /\ acknowledged = {}
  /\ subscriptions = [s \in Stream |-> None]
  /\ trade_sid = None /\ trade_sequence = 0
  /\ event = "control"

Healthy == opened /\ ~faulted

\* ready(): counts valid books, it does not look them up.
Ready ==
  /\ Healthy
  /\ Cardinality(ValidBooks) = Len(Selection)
  /\ acknowledged = 1..CommandCount

-----------------------------------------------------------------------------
(* Outcomes. *)

\* abort(): closes the market connection, if it is this generation's.
AbortMarkets == IF Accepts(feed_generation) THEN CloseConnection(feed_generation)
                ELSE UNCHANGED marketVars

\* fail(), and the returns that call it and report invalid history.
Fails(reported) ==
  /\ AbortMarkets
  /\ faulted' = TRUE
  /\ event' = reported
  /\ UNCHANGED <<feed_generation, attempting, opened, sent, acknowledged,
                 subscriptions, trade_sid, trade_sequence>>

\* A record that changes nothing but the clock.
Passes(reported) ==
  /\ event' = reported
  /\ UNCHANGED <<marketVars, feed_generation, attempting, opened, faulted, sent,
                 acknowledged, subscriptions, trade_sid, trade_sequence>>

\* The public abort(): a local failure, with no record.
Abort ==
  /\ AbortMarkets
  /\ faulted' = TRUE
  /\ UNCHANGED <<feed_generation, last_time, attempting, opened, sent, acknowledged,
                 subscriptions, trade_sid, trade_sequence, event>>

-----------------------------------------------------------------------------
(* The envelope, and records of the connection lifecycle. *)

\* Wrong versions, a nonzero envelope sequence, or a clock that goes back.
BadEnvelope ==
  /\ Fails("invalid_history")
  /\ UNCHANGED last_time

\* Every other record passes the envelope test and moves the clock.
Arrives(t) == t >= last_time /\ last_time' = t

Clock(t) ==
  /\ Arrives(t)
  /\ Shared /\ feed_generation # 0
  /\ Passes("control")

Attempt(t, g) ==
  /\ Arrives(t)
  /\ IF attempting \/ g <= feed_generation THEN Fails("invalid_history")
     ELSE /\ feed_generation' = g
          /\ attempting' = TRUE /\ opened' = FALSE /\ faulted' = FALSE
          /\ sent' = 0 /\ acknowledged' = {}
          /\ subscriptions' = [s \in Stream |-> None]
          /\ trade_sid' = None /\ trade_sequence' = 0
          /\ event' = "control"
          /\ UNCHANGED marketVars

\* Any other record outside an attempt, or of another generation.
WrongGeneration(t, g) ==
  /\ Arrives(t)
  /\ ~attempting \/ g # feed_generation
  /\ Fails("invalid_history")

Close(t) ==
  /\ Arrives(t)
  /\ attempting
  /\ AbortMarkets
  /\ attempting' = FALSE /\ opened' = FALSE
  /\ event' = "control"
  /\ UNCHANGED <<feed_generation, faulted, sent, acknowledged, subscriptions,
                 trade_sid, trade_sequence>>

Open(t) ==
  /\ Arrives(t)
  /\ attempting
  /\ IF opened \/ faulted \/ ~OpensConnection(feed_generation) THEN Fails("invalidated")
     ELSE /\ OpenConnection(feed_generation)
          /\ opened' = TRUE
          /\ event' = "control"
          /\ UNCHANGED <<feed_generation, attempting, faulted, sent, acknowledged,
                         subscriptions, trade_sid, trade_sequence>>

\* What is left needs a healthy connection.
InputAfterFailure(t) ==
  /\ Arrives(t)
  /\ attempting /\ ~Healthy
  /\ Passes("invalid_history")

Continues(t) == Arrives(t) /\ attempting /\ Healthy

Ping(t) == Continues(t) /\ Passes("control")

\* An unknown channel, an unparsable message, a venue error, a message with a
\* wrong field.
Rejected(t) == Continues(t) /\ Fails("invalidated")

-----------------------------------------------------------------------------
(* Subscriptions. *)

\* Markets whose stale book the next command asks a snapshot for.
Recovers == IF Shared THEN (IF sent = 0 THEN Selected ELSE {})
            ELSE {Selection[sent + 1]}

\* A command out of turn is rejected.  The recover calls run one by one; a
\* book that is there but not stale stops them, and the feed with them.
Send(t, command) ==
  /\ Continues(t)
  /\ IF \/ command # sent + 1 \/ sent >= CommandCount
        \/ \E m \in Recovers : m \in known /\ ~RecoversBook(m)
     THEN Fails("invalidated")
     ELSE /\ books' = [m \in Market |-> IF m \in Recovers \cap known
                                        THEN Recovering(books[m]) ELSE books[m]]
          /\ sent' = sent + 1
          /\ event' = "control"
          /\ UNCHANGED <<connection_generation, connected, known, stream_sequences,
                         feed_generation, attempting, opened, faulted, acknowledged,
                         subscriptions, trade_sid, trade_sequence>>

IsTradeCommand(id) == Trades /\ id = 2

Subscribed(t, id, sid, channel) ==
  /\ Continues(t)
  /\ IF \/ id > sent \/ id \in acknowledged
        \/ channel # (IF IsTradeCommand(id) THEN "trade" ELSE "orderbook_delta")
        \/ subscriptions[sid] # None
     THEN Fails("invalidated")
     ELSE /\ subscriptions' =
               [subscriptions EXCEPT ![sid] = IF Shared THEN AnyMarket ELSE Selection[id]]
          /\ acknowledged' = acknowledged \cup {id}
          /\ trade_sid' = IF IsTradeCommand(id) THEN sid ELSE trade_sid
          /\ event' = "control"
          /\ UNCHANGED <<marketVars, feed_generation, attempting, opened, faulted,
                         sent, trade_sequence>>

-----------------------------------------------------------------------------
(* Public trades and book messages. *)

\* Mutant of Trade: a repeat of the last trade is accepted once more.
TradeRepeated(t, sid, sequence, market) ==
  /\ Continues(t)
  /\ Trades
  /\ IF \/ trade_sid = None \/ sid # trade_sid \/ sequence = 0
        \/ trade_sequence # 0 /\ sequence \notin {trade_sequence, trade_sequence + 1}
        \/ market \notin Selected
     THEN Fails("invalidated")
     ELSE /\ trade_sequence' = sequence
          /\ event' = "public_trade"
          /\ UNCHANGED <<marketVars, feed_generation, attempting, opened, faulted,
                         sent, acknowledged, subscriptions, trade_sid>>

Trade(t, sid, sequence, market) ==
  /\ Continues(t)
  /\ Trades
  /\ IF \/ trade_sid = None \/ sid # trade_sid \/ sequence = 0
        \/ trade_sequence # 0 /\ sequence # trade_sequence + 1
        \/ market \notin Selected
     THEN Fails("invalidated")
     ELSE /\ trade_sequence' = sequence
          /\ event' = "public_trade"
          /\ UNCHANGED <<marketVars, feed_generation, attempting, opened, faulted,
                         sent, acknowledged, subscriptions, trade_sid>>

\* Mutant of Belongs: any acknowledged subscription will do.
BelongsToAny(u) == subscriptions[u.stream] # None

\* The subscription a book message must belong to.
Belongs(u) ==
  /\ subscriptions[u.stream] # None
  /\ u.stream # trade_sid
  /\ IF Shared THEN u.market \in Selected ELSE subscriptions[u.stream] = u.market

\* A book message that MarketState rejects: the book, or in the shared scope
\* the connection, is invalidated there, and fail() then closes the connection
\* in any case.  `ks` are the books there are by then.
BookRejected(ks) ==
  /\ known' = ks
  /\ books' = [m \in Market |-> IF m \in ks THEN MarkStale(books[m]) ELSE books[m]]
  /\ connected' = FALSE
  /\ faulted' = TRUE
  /\ event' = "invalidated"
  /\ UNCHANGED <<connection_generation, stream_sequences, feed_generation, attempting,
                 opened, sent, acknowledged, subscriptions, trade_sid, trade_sequence>>

BookApplied ==
  /\ event' = "market"
  /\ UNCHANGED <<feed_generation, attempting, opened, faulted, sent, acknowledged,
                 subscriptions, trade_sid, trade_sequence>>

\* A message of the record's generation.
Carried(messages) == {u \in messages : u.generation = feed_generation}

ReceiveSnapshot(t, u) ==
  /\ Continues(t)
  /\ \/ /\ u.sequence = 0 \/ ~Belongs(u) \/ u.market \in ValidBooks
        /\ Fails("invalidated")
     \/ /\ u.sequence # 0 /\ Belongs(u) /\ u.market \notin ValidBooks
        /\ IF ApplySnapshotResult(u) = "applied"
           THEN ApplySnapshot(u) /\ BookApplied
           ELSE BookRejected(IF SnapshotOutOfOrder(u) THEN known ELSE known \cup {u.market})

ReceiveDelta(t, u) ==
  /\ Continues(t)
  /\ \/ /\ u.sequence = 0 \/ ~Belongs(u)
        /\ Fails("invalidated")
     \/ /\ u.sequence # 0 /\ Belongs(u)
        /\ IF ApplyDeltaResult(u) = "applied"
           THEN ApplyDelta(u) /\ BookApplied
           ELSE BookRejected(known)

-----------------------------------------------------------------------------
FeedNext ==
  \/ BadEnvelope
  \/ Abort
  \/ \E t \in Time :
       \/ Clock(t) \/ Close(t) \/ Open(t) \/ InputAfterFailure(t) \/ Ping(t) \/ Rejected(t)
       \/ \E g \in Generation : Attempt(t, g) \/ WrongGeneration(t, g)
       \/ \E k \in 1..2 : Send(t, k)
       \/ \E id \in 1..2, sid \in Stream, ch \in {"trade", "orderbook_delta"} :
            Subscribed(t, id, sid, ch)
       \/ \E sid \in Stream, n \in TradeSequence, m \in Market : Trade(t, sid, n, m)
       \/ \E u \in Carried(Snapshot) : ReceiveSnapshot(t, u)
       \/ \E u \in Carried(Delta) : ReceiveDelta(t, u)

FeedSpec == FeedInit /\ [][FeedNext]_fvars

-----------------------------------------------------------------------------
(* Properties. *)

\* The feed's flags and MarketState never disagree about the connection: it
\* is connected, with the feed's generation, exactly while the feed is
\* healthy and its attempt is not closed.
ConnectedIffHealthy ==
  /\ connected <=> Healthy
  /\ connected => attempting /\ connection_generation = feed_generation

\* ready() counts, yet it means that every selected market has a valid book.
ReadyMeansEveryBook == Ready => \A m \in Selected : m \in ValidBooks

\* Both together: what the feed reports of itself is true of the market state.
ReportsAreTrue == ConnectedIffHealthy /\ ReadyMeansEveryBook

\* While the feed stays healthy no valid book is lost: whatever costs one book
\* its validity faults the generation.
KeepsBooks == Healthy /\ Healthy' => ValidBooks \subseteq ValidBooks'

\* A step that shows that a record was reported as a public trade: what the feed
\* reports becomes that, or is that still at a later time.
ReportsTrade ==
  event' = "public_trade" /\ (event # "public_trade" \/ last_time' # last_time)

\* Public trades reported on one connection have consecutive numbers: none is
\* skipped, and none is reported twice.
TradesConsecutive ==
  /\ trade_sequence # 0 /\ trade_sequence' # trade_sequence =>
       trade_sequence' = trade_sequence + 1 \/ feed_generation' > feed_generation
  /\ trade_sequence # 0 /\ ReportsTrade => trade_sequence' = trade_sequence + 1

\* A healthy feed loses neither a book nor a trade: to lose one is to fault.
HealthyLosesNothing == [][KeepsBooks /\ TradesConsecutive]_fvars
==============================================================================
