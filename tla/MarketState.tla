----------------------------- MODULE MarketState -----------------------------
(***************************************************************************)
(* market::MarketState (src/market/market_state.cpp): the books of all     *)
(* markets of one connection owner, the connection generation, and, in the *)
(* shared_stream scope, the last sequence number applied on each stream.   *)
(***************************************************************************)
EXTENDS OrderBook

CONSTANTS
  Market,        \* market ids
  Generation,    \* connection generations a caller may name
  Sequence,      \* sequence numbers a message may carry
  LevelLists,    \* level lists a snapshot may carry for one side
  Change,        \* quantity changes a delta may carry
  Scope          \* "per_book" or "shared_stream"

ASSUME MarketConstants ==
  /\ Generation \subseteq Nat
  /\ Sequence \subseteq Nat
  /\ LevelLists \subseteq Seq(Level)
  /\ Change \subseteq Int
  /\ Scope \in {"per_book", "shared_stream"}

VARIABLES
  connection_generation,  \* 0 while no connection has ever been opened
  connected,
  known,                  \* the keys of books_
  books,                  \* books_; EmptyBook for a market that is no key
  stream_sequences        \* None for a stream that is no key

marketVars == <<connection_generation, connected, known, books, stream_sequences>>

Snapshot == [generation : Generation, market : Market, stream : Stream,
             sequence : Sequence, bids : LevelLists, asks : LevelLists]

Delta == [generation : Generation, market : Market, stream : Stream,
          sequence : Sequence, side : Side, price : Price, change : Change]

MarketTypeOK ==
  /\ connection_generation \in Nat
  /\ connected \in BOOLEAN
  /\ known \subseteq Market
  /\ books \in [Market -> Book]
  /\ stream_sequences \in [Stream -> Nat \cup {None}]

MarketInit ==
  /\ connection_generation = 0
  /\ connected = FALSE
  /\ known = {}
  /\ books = [m \in Market |-> EmptyBook]
  /\ stream_sequences = [s \in Stream |-> None]

-----------------------------------------------------------------------------
(* Connection lifecycle. *)

\* invalidate_all: every book there is, whatever its state, becomes stale.
Invalidated(bs) == [m \in Market |-> IF m \in known THEN MarkStale(bs[m]) ELSE bs[m]]

OpensConnection(generation) == generation > connection_generation

\* Mutant of OpenConnection: the books of the old connection stay as they are.
OpenKeepsBooks(generation) ==
  /\ OpensConnection(generation)
  /\ connection_generation' = generation
  /\ stream_sequences' = [s \in Stream |-> None]
  /\ connected' = TRUE
  /\ UNCHANGED <<known, books>>

\* open_connection(generation) returning true; a rejected call changes nothing.
OpenConnection(generation) ==
  /\ OpensConnection(generation)
  /\ books' = IF connection_generation = 0 THEN books ELSE Invalidated(books)
  /\ connection_generation' = generation
  /\ stream_sequences' = [s \in Stream |-> None]
  /\ connected' = TRUE
  /\ UNCHANGED known

Accepts(generation) == connected /\ generation = connection_generation

CloseConnection(generation) ==
  /\ Accepts(generation)
  /\ connected' = FALSE
  /\ books' = Invalidated(books)
  /\ UNCHANGED <<connection_generation, known, stream_sequences>>

\* begin_recovery(market) returning true.
RecoversBook(market) == connected /\ market \in known /\ CanRecover(books[market])

BeginRecovery(market) ==
  /\ RecoversBook(market)
  /\ books' = [books EXCEPT ![market] = Recovering(@)]
  /\ UNCHANGED <<connection_generation, connected, known, stream_sequences>>

-----------------------------------------------------------------------------
(* Book updates. *)

\* Mutant of AcceptsSequence: later instead of next.
AcceptsAnyLater(stream, sequence) ==
  \/ stream_sequences[stream] = None
  \/ sequence > stream_sequences[stream]

AcceptsSequence(stream, sequence) ==
  \/ stream_sequences[stream] = None
  \/ sequence = stream_sequences[stream] + 1

\* Mutant of Finish: a rejected update only drops the flag.
FinishKeepsBooks(stream, sequence, result, ks, bs) ==
  /\ known' = ks
  /\ books' = bs
  /\ connected' = (result = "applied")
  /\ stream_sequences' = IF result = "applied"
                         THEN [stream_sequences EXCEPT ![stream] = sequence]
                         ELSE stream_sequences
  /\ UNCHANGED connection_generation

\* What finish_shared does with the books `bs` an update left behind: in the
\* shared scope a rejected update closes the connection, which makes every
\* book stale; an applied one advances the stream.  Outside it there is
\* nothing to finish.
Finish(stream, sequence, result, ks, bs) ==
  /\ known' = ks
  /\ UNCHANGED connection_generation
  /\ \/ /\ Scope = "per_book"
        /\ books' = bs
        /\ UNCHANGED <<connected, stream_sequences>>
     \/ /\ Scope = "shared_stream" /\ result = "applied"
        /\ books' = bs
        /\ stream_sequences' = [stream_sequences EXCEPT ![stream] = sequence]
        /\ UNCHANGED connected
     \/ /\ Scope = "shared_stream" /\ result # "applied"
        /\ books' = [m \in Market |-> IF m \in ks THEN MarkStale(bs[m]) ELSE bs[m]]
        /\ connected' = FALSE
        /\ UNCHANGED stream_sequences

\* A snapshot that does not continue its shared stream never reaches a book.
SnapshotOutOfOrder(u) ==
  Scope = "shared_stream" /\ ~AcceptsSequence(u.stream, u.sequence)

ApplySnapshotResult(u) ==
  IF SnapshotOutOfOrder(u) THEN "sequence_gap"
  ELSE SnapshotResult(books[u.market], u.stream, u.sequence, u.bids, u.asks)

\* apply(const BookSnapshot&).  try_emplace makes the market's book known.
ApplySnapshot(u) ==
  LET result == ApplySnapshotResult(u)
      after == AfterSnapshot(books[u.market], u.stream, u.sequence, u.bids, u.asks, result)
  IN  /\ Accepts(u.generation)
      /\ IF SnapshotOutOfOrder(u)
         THEN Finish(u.stream, u.sequence, result, known, books)
         ELSE Finish(u.stream, u.sequence, result, known \cup {u.market},
                     [books EXCEPT ![u.market] = after])

DeltaOutOfOrder(u) ==
  /\ Scope = "shared_stream"
  /\ stream_sequences[u.stream] = None \/ ~AcceptsSequence(u.stream, u.sequence)

\* In the shared scope the predecessor is the stream's last sequence number,
\* which other markets' updates advance; otherwise it is the book's own.
DeltaPredecessor(u) ==
  IF Scope = "shared_stream" THEN stream_sequences[u.stream]
  ELSE OwnPredecessor(books[u.market])

ApplyDeltaResult(u) ==
  CASE u.market \notin known -> "requires_snapshot"
    [] u.market \in known /\ DeltaOutOfOrder(u) -> "sequence_gap"
    [] OTHER -> DeltaResult(books[u.market], u.stream, DeltaPredecessor(u),
                            u.sequence, u.side, u.price, u.change)

\* apply(const BookDelta&).
ApplyDelta(u) ==
  LET result == ApplyDeltaResult(u)
      after == AfterDelta(books[u.market], u.sequence, u.side, u.price, u.change, result)
  IN  /\ Accepts(u.generation)
      /\ IF u.market \notin known \/ DeltaOutOfOrder(u)
         THEN Finish(u.stream, u.sequence, result, known, books)
         ELSE Finish(u.stream, u.sequence, result, known,
                     [books EXCEPT ![u.market] = after])

\* valid_book_count and find_book, as sets.
ValidBooks == {m \in known : books[m].state = "valid"}

-----------------------------------------------------------------------------
MarketNext ==
  \/ \E g \in Generation : OpenConnection(g)
  \/ \E g \in Generation : CloseConnection(g)
  \/ \E m \in Market : BeginRecovery(m)
  \/ \E u \in Snapshot : ApplySnapshot(u)
  \/ \E u \in Delta : ApplyDelta(u)

MarketSpec == MarketInit /\ [][MarketNext]_marketVars

-----------------------------------------------------------------------------
(* Properties. *)

\* A book is actionable only while the connection that filled it is open:
\* closing, a shared-stream failure and a new generation each reach every
\* book (close_connection, finish_shared, open_connection).
ValidOnlyWhileConnected ==
  \A m \in Market : books[m].state = "valid" => connected /\ m \in known

\* In the shared scope a valid book never runs ahead of its stream, and its
\* stream is one this connection has applied an update on; apply_delta_after
\* relies on it when it takes the stream's sequence as predecessor.
BookBehindStream ==
  Scope = "shared_stream" =>
    \A m \in Market : books[m].state = "valid" =>
      /\ books[m].stream_id \in Stream
      /\ stream_sequences[books[m].stream_id] # None
      /\ books[m].last_sequence <= stream_sequences[books[m].stream_id]

\* What a valid book says of the connection.
MarketConsistent == ValidOnlyWhileConnected /\ BookBehindStream

\* Invariant 4 of ARCHITECTURE.md: a stale book becomes valid only through
\* STALE -> RECOVERING -> VALID; a known book never goes back to empty, and
\* recovery starts only from stale.
StaleNeedsRecovery ==
  [][\A m \in Market :
       /\ books[m].state = "stale" => books'[m].state \in {"stale", "recovering"}
       /\ books'[m].state = "recovering" => books[m].state \in {"stale", "recovering"}
       /\ books'[m].state = "empty" => books[m].state = "empty"]_marketVars

\* Invariant 5 of ARCHITECTURE.md: a book that stays valid keeps its stream
\* and its connection, and never moves backward; its content changes only
\* with its sequence number.
ValidBookMovesForward ==
  [][\A m \in Market :
       books[m].state = "valid" /\ books'[m].state = "valid" =>
         /\ books'[m].stream_id = books[m].stream_id
         /\ connection_generation' = connection_generation
         /\ books'[m].last_sequence >= books[m].last_sequence
         /\ books'[m].levels # books[m].levels =>
              books'[m].last_sequence > books[m].last_sequence]_marketVars
==============================================================================
