---------------------------- MODULE MarketProofs ----------------------------
(***************************************************************************)
(* Theorems about MarketState and its three compositions, for any markets, *)
(* constraints, streams, prices, messages and callers: the books and their *)
(* scopes; the incremental candidate tracker always agrees with an         *)
(* evaluation from scratch and what it holds can be executed; behind any   *)
(* unreliable path a valid book is the venue's, in either scope; and what  *)
(* the feed controller reports of itself is true of the books.             *)
(***************************************************************************)
EXTENDS CandidateTracker, VenueReplica, ReadOnlyFeed, FiniteSetTheorems, WellFoundedInduction,
        TLAPS

-----------------------------------------------------------------------------
(* Operators of OrderBook. *)

\* load_levels builds a side of the book from any list of levels.
LEMMA LoadedLevelsType ==
  ASSUME NEW source \in Seq(Level)
  PROVE  LoadedLevels(source) \in Levels
<1> SUFFICES ASSUME NEW p \in Price, \E i \in DOMAIN source : source[i].price = p
             PROVE  source[CHOOSE i \in DOMAIN source : source[i].price = p].quantity \in Quantity
  BY BookConstants DEF LoadedLevels, Levels, Quantity
<1> DEFINE k == CHOOSE i \in DOMAIN source : source[i].price = p
<1>1. k \in DOMAIN source
  OBVIOUS
<1>2. source[k] \in Level
  BY <1>1
<1> QED
  BY <1>2 DEF Level

\* What a snapshot leaves is a book.
LEMMA AfterSnapshotType ==
  ASSUME NEW b \in Book, NEW stream \in Stream, NEW sequence \in Nat,
         NEW bids \in Seq(Level), NEW asks \in Seq(Level), NEW result
  PROVE  AfterSnapshot(b, stream, sequence, bids, asks, result) \in Book
<1>1. LoadedLevels(bids) \in Levels /\ LoadedLevels(asks) \in Levels
  BY LoadedLevelsType
<1>2. [s \in Side |-> LoadedLevels(IF s = "bid" THEN bids ELSE asks)] \in [Side -> Levels]
  BY <1>1 DEF Side
<1>3. MarkStale(b) \in Book
  BY DEF MarkStale, Book, BookState
<1> QED
  BY <1>2, <1>3 DEF AfterSnapshot, Book, BookState

\* A delta leaves a book: its quantity check bounds the level.
LEMMA AfterDeltaType ==
  ASSUME NEW b \in Book, NEW stream, NEW predecessor, NEW sequence \in Nat,
         NEW side \in Side, NEW price \in Price, NEW change \in Int
  PROVE  AfterDelta(b, sequence, side, price, change,
           DeltaResult(b, stream, predecessor, sequence, side, price, change)) \in Book
<1> DEFINE result == DeltaResult(b, stream, predecessor, sequence, side, price, change)
<1>1. MarkStale(b) \in Book
  BY DEF MarkStale, Book, BookState
<1>2. CASE result = "applied"
  <2>1. b.levels[side][price] + change \in Quantity
    BY <1>2 DEF DeltaResult
  <2>2. b.levels \in [Side -> [Price -> Quantity]]
    BY DEF Book, Levels
  <2>3. [b.levels EXCEPT ![side][price] = @ + change] \in [Side -> [Price -> Quantity]]
    BY <2>1, <2>2
  <2> QED
    BY <1>2, <2>3 DEF AfterDelta, Book, Levels
<1>3. CASE result # "applied"
  BY <1>1, <1>3 DEF AfterDelta
<1> QED
  BY <1>2, <1>3

\* A snapshot is applied only to a book that is not stale, and to a valid one
\* only forward on its own stream; a rejected one leaves the book or makes it
\* stale.
LEMMA SnapshotEffect ==
  ASSUME NEW b \in Book, NEW stream \in Stream, NEW sequence \in Nat,
         NEW bids \in Seq(Level), NEW asks \in Seq(Level),
         b.state = "valid" => b.stream_id \in Stream /\ b.last_sequence \in Nat,
         NEW result, result = SnapshotResult(b, stream, sequence, bids, asks),
         NEW after, after = AfterSnapshot(b, stream, sequence, bids, asks, result)
  PROVE  /\ result = "applied" =>
              /\ after.state = "valid"
              /\ after.stream_id = stream /\ after.last_sequence = sequence
              /\ b.state # "stale"
              /\ b.state = "valid" => b.stream_id = stream /\ b.last_sequence < sequence
         /\ result # "applied" => after = b \/ after = MarkStale(b)
<1>1. b.state = "valid" => Sequenced(b)
  BY BookConstants DEF Sequenced
<1>2. b.state = "stale" => result = "recovery_not_started"
  BY DEF SnapshotResult, Sequenced
<1>3. b.state = "valid" /\ stream # b.stream_id => result = "stream_mismatch"
  BY <1>1, Zenon DEF SnapshotResult
<1>4. b.state = "valid" /\ stream = b.stream_id /\ sequence <= b.last_sequence
        => result = "stale_snapshot"
  BY <1>1 DEF SnapshotResult
<1>5. result = "applied" =>
        after.state = "valid" /\ after.stream_id = stream /\ after.last_sequence = sequence
  BY DEF AfterSnapshot
<1>6. result # "applied" => after = b \/ after = MarkStale(b)
  BY DEF AfterSnapshot
<1>7. result = "applied" /\ b.state = "valid" => b.stream_id = stream /\ b.last_sequence < sequence
  <2> SUFFICES ASSUME result = "applied", b.state = "valid"
               PROVE  b.stream_id = stream /\ b.last_sequence < sequence
    OBVIOUS
  <2>1. stream = b.stream_id
    BY <1>3
  <2>2. ~(sequence <= b.last_sequence)
    BY <1>4, <2>1
  <2> QED
    BY <2>1, <2>2
<1> QED
  BY <1>2, <1>5, <1>6, <1>7

\* A delta is applied only to a valid book, on its own stream, right after a
\* predecessor that is not behind the book; a rejected one leaves the book or
\* makes it stale.
LEMMA DeltaEffect ==
  ASSUME NEW b \in Book, NEW stream \in Stream, NEW predecessor \in Nat,
         NEW sequence \in Nat, NEW side \in Side, NEW price \in Price, NEW change \in Int,
         NEW result,
         result = DeltaResult(b, stream, predecessor, sequence, side, price, change),
         NEW after, after = AfterDelta(b, sequence, side, price, change, result)
  PROVE  /\ result = "applied" =>
              /\ after.state = "valid" /\ b.state = "valid"
              /\ after.stream_id = stream /\ b.stream_id = stream
              /\ after.last_sequence = sequence
              /\ b.last_sequence \in Nat
              /\ b.last_sequence < sequence
         /\ result # "applied" => after = b \/ after = MarkStale(b)
<1>1. result # "applied" => after = b \/ after = MarkStale(b)
  BY DEF AfterDelta
<1>2. ASSUME result = "applied"
      PROVE  /\ after.state = "valid" /\ b.state = "valid"
             /\ after.stream_id = stream /\ b.stream_id = stream
             /\ after.last_sequence = sequence
             /\ b.last_sequence \in Nat
             /\ b.last_sequence < sequence
  <2>1. Sequenced(b)
    BY <1>2 DEF DeltaResult
  <2>2. stream = b.stream_id
    BY <1>2, <2>1, Zenon DEF DeltaResult
  <2>3. b.last_sequence \in Nat
    BY <2>1 DEF Sequenced, Book
  <2>4. ~(predecessor < b.last_sequence \/ sequence # predecessor + 1)
    BY <1>2, <2>1, <2>2 DEF DeltaResult
  <2>5. after = [b EXCEPT !.last_sequence = sequence, !.levels[side][price] = @ + change]
    BY <1>2 DEF AfterDelta
  <2>6. /\ after.state = b.state /\ after.stream_id = b.stream_id
        /\ after.last_sequence = sequence
    BY <2>5 DEF Book
  <2> QED
    BY <2>1, <2>2, <2>3, <2>4, <2>6 DEF Sequenced
<1> QED
  BY <1>1, <1>2

-----------------------------------------------------------------------------
(* The inductive invariant. *)

\* A valid book has been given a stream and a sequence number.
ValidHasSequence ==
  \A m \in Market : books[m].state = "valid" =>
    books[m].stream_id \in Stream /\ books[m].last_sequence \in Nat

\* Generation 0 is no connection.
ConnectedHasGeneration == connected => connection_generation > 0

MarketInv ==
  /\ MarketTypeOK
  /\ ValidOnlyWhileConnected
  /\ BookBehindStream
  /\ ValidHasSequence
  /\ ConnectedHasGeneration

\* Making known books stale leaves no valid book of a known market.
LEMMA InvalidatedEffect ==
  ASSUME NEW ks \in SUBSET Market, NEW bs \in [Market -> Book],
         NEW after,
         after = [m \in Market |-> IF m \in ks THEN MarkStale(bs[m]) ELSE bs[m]]
  PROVE  /\ after \in [Market -> Book]
         /\ \A m \in ks : after[m].state = "stale"
         /\ \A m \in Market \ ks : after[m] = bs[m]
<1>1. ASSUME NEW m \in Market
      PROVE  MarkStale(bs[m]) \in Book /\ MarkStale(bs[m]).state = "stale"
  BY DEF MarkStale, Book, BookState
<1> QED
  BY <1>1

\* What finish_shared, or its absence, makes of an update that satisfies the
\* per-book facts keeps the invariant.
LEMMA FinishKeepsInv ==
  ASSUME MarketInv, connected,
         NEW stream \in Stream, NEW sequence \in Nat, NEW result,
         NEW ks \in SUBSET Market, NEW bs \in [Market -> Book],
         Finish(stream, sequence, result, ks, bs),
         \A m \in Market : bs[m].state = "valid" =>
           m \in ks /\ bs[m].stream_id \in Stream /\ bs[m].last_sequence \in Nat,
         Scope = "shared_stream" /\ result = "applied" =>
           /\ AcceptsSequence(stream, sequence)
           /\ \A m \in Market : bs[m].state = "valid" =>
                \/ bs[m] = books[m]
                \/ bs[m].stream_id = stream /\ bs[m].last_sequence = sequence
  PROVE  MarketInv'
<1> USE DEF MarketInv, MarketTypeOK, Finish
<1>1. CASE Scope = "per_book"
  BY <1>1 DEF ValidOnlyWhileConnected, BookBehindStream, ValidHasSequence,
              ConnectedHasGeneration
<1>2. CASE Scope = "shared_stream" /\ result = "applied"
  <2>1. /\ books' = bs /\ known' = ks
        /\ stream_sequences' = [stream_sequences EXCEPT ![stream] = sequence]
        /\ UNCHANGED <<connected, connection_generation>>
    BY <1>2
  <2>2. BookBehindStream'
    <3> SUFFICES ASSUME NEW m \in Market, bs[m].state = "valid"
                 PROVE  /\ bs[m].stream_id \in Stream
                        /\ stream_sequences'[bs[m].stream_id] # None
                        /\ bs[m].last_sequence <= stream_sequences'[bs[m].stream_id]
      BY <2>1 DEF BookBehindStream
    <3>1. CASE bs[m].stream_id = stream /\ bs[m].last_sequence = sequence
      BY <3>1, <2>1, BookConstants
    <3>2. CASE bs[m] = books[m]
      <4>1. /\ books[m].stream_id \in Stream /\ books[m].last_sequence \in Nat
            /\ stream_sequences[books[m].stream_id] # None
            /\ books[m].last_sequence <= stream_sequences[books[m].stream_id]
        BY <3>2, <1>2 DEF BookBehindStream, ValidHasSequence
      <4>2. CASE books[m].stream_id = stream
        <5>1. sequence = stream_sequences[stream] + 1
          BY <1>2, <4>1, <4>2 DEF AcceptsSequence
        <5>2. stream_sequences[stream] \in Nat
          BY <4>1, <4>2
        <5> QED
          BY <5>1, <5>2, <4>1, <4>2, <3>2, <2>1, BookConstants
      <4>3. CASE books[m].stream_id # stream
        BY <4>1, <4>3, <3>2, <2>1
      <4> QED
        BY <4>2, <4>3
    <3> QED
      BY <3>1, <3>2, <1>2
  <2>3. MarketTypeOK' /\ ValidOnlyWhileConnected' /\ ValidHasSequence'
    BY <2>1 DEF ValidOnlyWhileConnected, ValidHasSequence
  <2> QED
    BY <2>1, <2>2, <2>3 DEF ConnectedHasGeneration
<1>3. CASE Scope = "shared_stream" /\ result # "applied"
  <2>1. /\ books' = [m \in Market |-> IF m \in ks THEN MarkStale(bs[m]) ELSE bs[m]]
        /\ known' = ks /\ connected' = FALSE
        /\ UNCHANGED <<connection_generation, stream_sequences>>
    BY <1>3
  <2>2. books' \in [Market -> Book] /\ \A m \in Market : books'[m].state # "valid"
    <3> HIDE DEF MarketInv, MarketTypeOK, Finish
    <3>1. /\ books' \in [Market -> Book]
          /\ \A m \in ks : books'[m].state = "stale"
          /\ \A m \in Market \ ks : books'[m] = bs[m]
      BY <2>1, InvalidatedEffect
    <3> QED
      BY <3>1
  <2> QED
    BY <2>1, <2>2 DEF ValidOnlyWhileConnected, BookBehindStream, ValidHasSequence,
                      ConnectedHasGeneration
<1> QED
  BY <1>1, <1>2, <1>3, MarketConstants

-----------------------------------------------------------------------------
(* One lemma per operation. *)

\* open_connection keeps the invariant: every known book becomes stale.
LEMMA OpenKeepsInv ==
  ASSUME MarketInv, NEW g \in Generation, OpenConnection(g)
  PROVE  MarketInv'
<1> USE DEF MarketInv, MarketTypeOK
<1>1. /\ connection_generation' = g /\ g \in Nat /\ g > 0
      /\ connected' = TRUE /\ known' = known
      /\ stream_sequences' \in [Stream -> Nat \cup {None}]
  BY MarketConstants DEF OpenConnection, OpensConnection
<1>2. books' \in [Market -> Book] /\ \A m \in Market : books'[m].state # "valid"
  <2>1. CASE connection_generation = 0
    BY <2>1 DEF OpenConnection, ConnectedHasGeneration, ValidOnlyWhileConnected
  <2>2. CASE connection_generation # 0
    <3>1. books' = [m \in Market |-> IF m \in known THEN MarkStale(books[m]) ELSE books[m]]
      BY <2>2 DEF OpenConnection, Invalidated
    <3> QED
      BY <3>1, InvalidatedEffect DEF ValidOnlyWhileConnected
  <2> QED
    BY <2>1, <2>2
<1> QED
  BY <1>1, <1>2 DEF ValidOnlyWhileConnected, BookBehindStream, ValidHasSequence,
                    ConnectedHasGeneration

\* close_connection keeps the invariant.
LEMMA CloseKeepsInv ==
  ASSUME MarketInv, NEW g \in Generation, CloseConnection(g)
  PROVE  MarketInv'
<1> USE DEF MarketInv, MarketTypeOK
<1>1. books' = [m \in Market |-> IF m \in known THEN MarkStale(books[m]) ELSE books[m]]
  BY DEF CloseConnection, Invalidated
<1>2. books' \in [Market -> Book] /\ \A m \in Market : books'[m].state # "valid"
  BY <1>1, InvalidatedEffect DEF ValidOnlyWhileConnected
<1> QED
  BY <1>2 DEF CloseConnection, ValidOnlyWhileConnected, BookBehindStream,
              ValidHasSequence, ConnectedHasGeneration

\* begin_recovery keeps the invariant.
LEMMA RecoveryKeepsInv ==
  ASSUME MarketInv, NEW m \in Market, BeginRecovery(m)
  PROVE  MarketInv'
<1> USE DEF MarketInv, MarketTypeOK
<1>1. books' = [books EXCEPT ![m] = Recovering(books[m])]
  BY DEF BeginRecovery
<1>2. Recovering(books[m]) \in Book /\ Recovering(books[m]).state = "recovering"
  BY DEF Recovering, Book, BookState
<1>3. /\ books' \in [Market -> Book]
      /\ books'[m].state = "recovering"
      /\ \A n \in Market \ {m} : books'[n] = books[n]
  BY <1>1, <1>2
<1>4. UNCHANGED <<connection_generation, connected, known, stream_sequences>>
  BY DEF BeginRecovery
<1> QED
  BY <1>3, <1>4 DEF ValidOnlyWhileConnected, BookBehindStream, ValidHasSequence,
                    ConnectedHasGeneration

\* A snapshot, whatever its generation and sequence number.
IsSnapshot(u) ==
  /\ u.market \in Market /\ u.stream \in Stream /\ u.sequence \in Nat
  /\ u.bids \in Seq(Level) /\ u.asks \in Seq(Level)

\* A delta, whatever its generation and sequence number.
IsDelta(u) ==
  /\ u.market \in Market /\ u.stream \in Stream /\ u.sequence \in Nat
  /\ u.side \in Side /\ u.price \in Price /\ u.change \in Int

\* The messages a caller may name are snapshots.
LEMMA SnapshotFields ==
  ASSUME NEW u \in Snapshot
  PROVE  IsSnapshot(u)
BY MarketConstants DEF Snapshot, IsSnapshot

\* The messages a caller may name are deltas.
LEMMA DeltaFields ==
  ASSUME NEW u \in Delta
  PROVE  IsDelta(u)
BY MarketConstants DEF Delta, IsDelta

\* apply(BookSnapshot) keeps the invariant, in both scopes.
LEMMA SnapshotKeepsInv ==
  ASSUME MarketInv, NEW u, IsSnapshot(u), ApplySnapshot(u)
  PROVE  MarketInv'
<1> USE DEF IsSnapshot
<1> DEFINE result == ApplySnapshotResult(u)
           after == AfterSnapshot(books[u.market], u.stream, u.sequence, u.bids, u.asks, result)
           bs == [books EXCEPT ![u.market] = after]
<1>1. connected
  BY DEF ApplySnapshot, Accepts
<1>2. CASE SnapshotOutOfOrder(u)
  <2>1. Finish(u.stream, u.sequence, result, known, books) /\ result # "applied"
    BY <1>2 DEF ApplySnapshot, ApplySnapshotResult
  <2>2. /\ known \in SUBSET Market /\ books \in [Market -> Book]
        /\ \A m \in Market : books[m].state = "valid" =>
             m \in known /\ books[m].stream_id \in Stream /\ books[m].last_sequence \in Nat
    BY DEF MarketInv, MarketTypeOK, ValidOnlyWhileConnected, ValidHasSequence
  <2> HIDE DEF result
  <2> QED
    BY <1>1, <2>1, <2>2, FinishKeepsInv
<1>3. CASE ~SnapshotOutOfOrder(u)
  <2>1. result = SnapshotResult(books[u.market], u.stream, u.sequence, u.bids, u.asks)
    BY <1>3 DEF ApplySnapshotResult
  <2>2. Finish(u.stream, u.sequence, result, known \cup {u.market}, bs)
    BY <1>3 DEF ApplySnapshot
  <2>3. books[u.market] \in Book /\ books \in [Market -> Book] /\ known \subseteq Market
    BY DEF MarketInv, MarketTypeOK
  <2>4. after \in Book
    BY <2>3, AfterSnapshotType
  <2>5. books[u.market].state = "valid" =>
          books[u.market].stream_id \in Stream /\ books[u.market].last_sequence \in Nat
    BY DEF MarketInv, ValidHasSequence
  <2> HIDE DEF result, after
  <2>6. /\ result = "applied" => after.stream_id = u.stream /\ after.last_sequence = u.sequence
        /\ result # "applied" => after = books[u.market] \/ after = MarkStale(books[u.market])
    BY <2>1, <2>3, <2>5, SnapshotEffect DEF after
  <2>7. MarkStale(books[u.market]).state = "stale"
    BY <2>3 DEF MarkStale, Book
  <2>8. after.state = "valid" => after.stream_id \in Stream /\ after.last_sequence \in Nat
    BY <2>5, <2>6, <2>7
  <2>9. /\ bs \in [Market -> Book] /\ bs[u.market] = after
        /\ \A m \in Market \ {u.market} : bs[m] = books[m]
    BY <2>3, <2>4
  <2>10. \A m \in Market : bs[m].state = "valid" =>
           /\ m \in known \cup {u.market}
           /\ bs[m].stream_id \in Stream /\ bs[m].last_sequence \in Nat
    BY <2>8, <2>9 DEF MarketInv, ValidOnlyWhileConnected, ValidHasSequence
  <2>11. Scope = "shared_stream" /\ result = "applied" =>
           /\ AcceptsSequence(u.stream, u.sequence)
           /\ \A m \in Market : bs[m].state = "valid" =>
                \/ bs[m] = books[m]
                \/ bs[m].stream_id = u.stream /\ bs[m].last_sequence = u.sequence
    BY <1>3, <2>6, <2>9 DEF SnapshotOutOfOrder
  <2>12. known \cup {u.market} \in SUBSET Market
    BY <2>3
  <2> HIDE DEF bs
  <2> QED
    BY <1>1, <2>2, <2>9, <2>10, <2>11, <2>12, FinishKeepsInv
<1> QED
  BY <1>2, <1>3

\* apply(BookDelta) keeps the invariant, in both scopes.
LEMMA DeltaKeepsInv ==
  ASSUME MarketInv, NEW u, IsDelta(u), ApplyDelta(u)
  PROVE  MarketInv'
<1> USE DEF IsDelta
<1> DEFINE result == ApplyDeltaResult(u)
           after == AfterDelta(books[u.market], u.sequence, u.side, u.price, u.change, result)
           bs == [books EXCEPT ![u.market] = after]
<1>1. connected
  BY DEF ApplyDelta, Accepts
<1>2. /\ books[u.market] \in Book /\ books \in [Market -> Book] /\ known \in SUBSET Market
      /\ \A m \in Market : books[m].state = "valid" =>
           m \in known /\ books[m].stream_id \in Stream /\ books[m].last_sequence \in Nat
  BY DEF MarketInv, MarketTypeOK, ValidOnlyWhileConnected, ValidHasSequence
<1>3. CASE u.market \notin known \/ DeltaOutOfOrder(u)
  <2>1. Finish(u.stream, u.sequence, result, known, books) /\ result # "applied"
    BY <1>3 DEF ApplyDelta, ApplyDeltaResult
  <2> HIDE DEF result
  <2> QED
    BY <1>1, <1>2, <2>1, FinishKeepsInv
<1>4. CASE u.market \in known /\ ~DeltaOutOfOrder(u)
  <2>1. result = DeltaResult(books[u.market], u.stream, DeltaPredecessor(u),
                             u.sequence, u.side, u.price, u.change)
    BY <1>4 DEF ApplyDeltaResult
  <2>2. Finish(u.stream, u.sequence, result, known, bs)
    BY <1>4 DEF ApplyDelta
  <2>3. DeltaPredecessor(u) \in Nat
    <3>1. CASE Scope = "shared_stream"
      BY <1>4, <3>1 DEF DeltaPredecessor, DeltaOutOfOrder, MarketInv, MarketTypeOK
    <3>2. CASE Scope # "shared_stream"
      BY <1>2, <3>2 DEF DeltaPredecessor, OwnPredecessor, Book
    <3> QED
      BY <3>1, <3>2
  <2>4. after \in Book
    BY <1>2, <2>1, AfterDeltaType
  <2> HIDE DEF result, after
  <2>5. /\ result = "applied" => after.stream_id = u.stream /\ after.last_sequence = u.sequence
        /\ result # "applied" => after = books[u.market] \/ after = MarkStale(books[u.market])
    BY <1>2, <2>1, <2>3, DeltaEffect DEF after
  <2>6. MarkStale(books[u.market]).state = "stale"
    BY <1>2 DEF MarkStale, Book
  <2>7. after.state = "valid" => after.stream_id \in Stream /\ after.last_sequence \in Nat
    BY <1>2, <2>5, <2>6
  <2>8. /\ bs \in [Market -> Book] /\ bs[u.market] = after
        /\ \A m \in Market \ {u.market} : bs[m] = books[m]
    BY <1>2, <2>4
  <2>9. \A m \in Market : bs[m].state = "valid" =>
          m \in known /\ bs[m].stream_id \in Stream /\ bs[m].last_sequence \in Nat
    BY <1>2, <1>4, <2>7, <2>8
  <2>10. Scope = "shared_stream" /\ result = "applied" =>
           /\ AcceptsSequence(u.stream, u.sequence)
           /\ \A m \in Market : bs[m].state = "valid" =>
                \/ bs[m] = books[m]
                \/ bs[m].stream_id = u.stream /\ bs[m].last_sequence = u.sequence
    BY <1>4, <2>5, <2>8 DEF DeltaOutOfOrder
  <2> HIDE DEF bs
  <2> QED
    BY <1>1, <1>2, <2>2, <2>8, <2>9, <2>10, FinishKeepsInv
<1> QED
  BY <1>3, <1>4

\* Before the first connection every book is empty.
LEMMA InitHasMarketInv == MarketInit => MarketInv
<1> SUFFICES ASSUME MarketInit PROVE MarketInv
  OBVIOUS
<1>1. EmptyBook \in Book /\ EmptyBook.state = "empty"
  BY BookConstants DEF EmptyBook, Book, BookState, NoLevels, Levels, Quantity
<1>2. books \in [Market -> Book] /\ \A m \in Market : books[m].state = "empty"
  BY <1>1 DEF MarketInit
<1> QED
  BY <1>2 DEF MarketInit, MarketInv, MarketTypeOK, ValidOnlyWhileConnected,
              BookBehindStream, ValidHasSequence, ConnectedHasGeneration

\* Every operation of MarketState keeps the invariant.
THEOREM MarketInvariant == MarketSpec => []MarketInv
<1>1. MarketInit => MarketInv
  BY InitHasMarketInv
<1>2. MarketInv /\ [MarketNext]_marketVars => MarketInv'
  <2> SUFFICES ASSUME MarketInv, [MarketNext]_marketVars PROVE MarketInv'
    OBVIOUS
  <2>1. CASE UNCHANGED marketVars
    BY <2>1 DEF marketVars, MarketInv, MarketTypeOK, ValidOnlyWhileConnected,
                BookBehindStream, ValidHasSequence, ConnectedHasGeneration
  <2>2. ASSUME NEW g \in Generation, OpenConnection(g) PROVE MarketInv'
    BY <2>2, OpenKeepsInv
  <2>3. ASSUME NEW g \in Generation, CloseConnection(g) PROVE MarketInv'
    BY <2>3, CloseKeepsInv
  <2>4. ASSUME NEW m \in Market, BeginRecovery(m) PROVE MarketInv'
    BY <2>4, RecoveryKeepsInv
  <2>5. ASSUME NEW u \in Snapshot, ApplySnapshot(u) PROVE MarketInv'
    BY <2>5, SnapshotFields, SnapshotKeepsInv
  <2>6. ASSUME NEW u \in Delta, ApplyDelta(u) PROVE MarketInv'
    BY <2>6, DeltaFields, DeltaKeepsInv
  <2> QED
    BY <2>1, <2>2, <2>3, <2>4, <2>5, <2>6 DEF MarketNext
<1> QED
  BY <1>1, <1>2, PTL DEF MarketSpec

\* Type correctness of MarketState.
THEOREM MarketTypes == MarketSpec => []MarketTypeOK
<1>1. MarketInv => MarketTypeOK
  BY DEF MarketInv
<1> QED
  BY <1>1, MarketInvariant, PTL

\* A book is actionable only while its connection is open, and a valid book
\* of a shared stream is never ahead of it.
THEOREM MarketSafety == MarketSpec => []MarketConsistent
<1>1. MarketInv => MarketConsistent
  BY DEF MarketInv, MarketConsistent
<1> QED
  BY <1>1, MarketInvariant, PTL

-----------------------------------------------------------------------------
(* Action properties. *)

\* What a step of the current connection may do to the book of m: nothing,
\* make it stale, or apply an update forward on the book's stream.
BookStep(m) ==
  \/ books'[m] = books[m]
  \/ books'[m].state = "stale"
  \/ /\ books'[m].state = "valid" /\ books[m].state # "stale"
     /\ books[m].state = "valid" =>
          /\ books'[m].stream_id = books[m].stream_id
          /\ books[m].last_sequence < books'[m].last_sequence

\* finish_shared adds nothing to a book step but making books stale.
LEMMA FinishBookStep ==
  ASSUME NEW stream, NEW sequence, NEW result,
         NEW ks \in SUBSET Market, NEW bs \in [Market -> Book],
         Finish(stream, sequence, result, ks, bs),
         NEW m \in Market,
         \/ bs[m] = books[m]
         \/ bs[m].state = "stale"
         \/ /\ bs[m].state = "valid" /\ books[m].state # "stale"
            /\ books[m].state = "valid" =>
                 /\ bs[m].stream_id = books[m].stream_id
                 /\ books[m].last_sequence < bs[m].last_sequence
  PROVE  BookStep(m) /\ connection_generation' = connection_generation
<1>1. connection_generation' = connection_generation
  BY DEF Finish
<1>2. CASE books' = bs
  BY <1>1, <1>2 DEF BookStep
<1>3. CASE books' = [n \in Market |-> IF n \in ks THEN MarkStale(bs[n]) ELSE bs[n]]
  <2>1. m \in ks => books'[m].state = "stale"
    BY <1>3, InvalidatedEffect
  <2>2. m \notin ks => books'[m] = bs[m]
    BY <1>3
  <2> QED
    BY <1>1, <2>1, <2>2 DEF BookStep
<1> QED
  BY <1>2, <1>3 DEF Finish

\* apply(BookSnapshot) is a book step on the same connection.
LEMMA SnapshotBookStep ==
  ASSUME MarketInv, NEW u, IsSnapshot(u), ApplySnapshot(u), NEW m \in Market
  PROVE  BookStep(m) /\ connection_generation' = connection_generation
<1> USE DEF IsSnapshot
<1> DEFINE result == ApplySnapshotResult(u)
           after == AfterSnapshot(books[u.market], u.stream, u.sequence, u.bids, u.asks, result)
           bs == [books EXCEPT ![u.market] = after]
<1>1. books[u.market] \in Book /\ books \in [Market -> Book] /\ known \in SUBSET Market
  BY DEF MarketInv, MarketTypeOK
<1>2. CASE SnapshotOutOfOrder(u)
  BY <1>1, <1>2, FinishBookStep DEF ApplySnapshot
<1>3. CASE ~SnapshotOutOfOrder(u)
  <2>1. /\ result = SnapshotResult(books[u.market], u.stream, u.sequence, u.bids, u.asks)
        /\ Finish(u.stream, u.sequence, result, known \cup {u.market}, bs)
    BY <1>3 DEF ApplySnapshotResult, ApplySnapshot
  <2>2. books[u.market].state = "valid" =>
          books[u.market].stream_id \in Stream /\ books[u.market].last_sequence \in Nat
    BY DEF MarketInv, ValidHasSequence
  <2>3. after \in Book
    BY <1>1, AfterSnapshotType
  <2> HIDE DEF result, after
  <2>4. /\ result = "applied" =>
             /\ after.state = "valid"
             /\ after.stream_id = u.stream /\ after.last_sequence = u.sequence
             /\ books[u.market].state # "stale"
             /\ books[u.market].state = "valid" =>
                  /\ books[u.market].stream_id = u.stream
                  /\ books[u.market].last_sequence < u.sequence
        /\ result # "applied" => after = books[u.market] \/ after = MarkStale(books[u.market])
    BY <1>1, <2>1, <2>2, SnapshotEffect DEF after
  <2>5. MarkStale(books[u.market]).state = "stale"
    BY <1>1 DEF MarkStale, Book
  <2>6. /\ bs \in [Market -> Book] /\ bs[u.market] = after
        /\ m # u.market => bs[m] = books[m]
    BY <1>1, <2>3
  <2>7. known \cup {u.market} \in SUBSET Market
    BY <1>1
  <2> HIDE DEF bs, IsSnapshot
  <2>8. CASE m # u.market
    BY <2>1, <2>6, <2>7, <2>8, FinishBookStep
  <2>9. CASE m = u.market
    BY <2>1, <2>4, <2>5, <2>6, <2>7, <2>9, FinishBookStep
  <2> QED
    BY <2>8, <2>9
<1> QED
  BY <1>2, <1>3

\* apply(BookDelta) is a book step on the same connection.
LEMMA DeltaBookStep ==
  ASSUME MarketInv, NEW u, IsDelta(u), ApplyDelta(u), NEW m \in Market
  PROVE  BookStep(m) /\ connection_generation' = connection_generation
<1> USE DEF IsDelta
<1> DEFINE result == ApplyDeltaResult(u)
           after == AfterDelta(books[u.market], u.sequence, u.side, u.price, u.change, result)
           bs == [books EXCEPT ![u.market] = after]
<1>1. books[u.market] \in Book /\ books \in [Market -> Book] /\ known \in SUBSET Market
  BY DEF MarketInv, MarketTypeOK
<1>2. CASE u.market \notin known \/ DeltaOutOfOrder(u)
  BY <1>1, <1>2, FinishBookStep DEF ApplyDelta
<1>3. CASE u.market \in known /\ ~DeltaOutOfOrder(u)
  <2>1. /\ result = DeltaResult(books[u.market], u.stream, DeltaPredecessor(u),
                                u.sequence, u.side, u.price, u.change)
        /\ Finish(u.stream, u.sequence, result, known, bs)
    BY <1>3 DEF ApplyDeltaResult, ApplyDelta
  <2>2. DeltaPredecessor(u) \in Nat
    <3>1. CASE Scope = "shared_stream"
      BY <1>3, <3>1 DEF DeltaPredecessor, DeltaOutOfOrder, MarketInv, MarketTypeOK
    <3>2. CASE Scope # "shared_stream"
      BY <1>1, <3>2 DEF DeltaPredecessor, OwnPredecessor, Book
    <3> QED
      BY <3>1, <3>2
  <2>3. after \in Book
    BY <1>1, <2>1, AfterDeltaType
  <2> HIDE DEF result, after
  <2>4. /\ result = "applied" =>
             /\ after.state = "valid" /\ books[u.market].state = "valid"
             /\ after.stream_id = books[u.market].stream_id
             /\ books[u.market].last_sequence < after.last_sequence
        /\ result # "applied" => after = books[u.market] \/ after = MarkStale(books[u.market])
    BY <1>1, <2>1, <2>2, DeltaEffect DEF after
  <2>5. MarkStale(books[u.market]).state = "stale"
    BY <1>1 DEF MarkStale, Book
  <2>6. /\ bs \in [Market -> Book] /\ bs[u.market] = after
        /\ m # u.market => bs[m] = books[m]
    BY <1>1, <2>3
  <2>7. known \in SUBSET Market
    BY <1>1
  <2> HIDE DEF bs, IsDelta
  <2>8. CASE m # u.market
    BY <2>1, <2>6, <2>7, <2>8, FinishBookStep
  <2>9. CASE m = u.market
    BY <2>1, <2>4, <2>5, <2>6, <2>7, <2>9, FinishBookStep
  <2> QED
    BY <2>8, <2>9
<1> QED
  BY <1>2, <1>3

\* What every operation does to the book of m, a new connection and a
\* recovery included.
LEMMA NextBookStep ==
  ASSUME MarketInv, MarketNext, NEW m \in Market
  PROVE  \/ BookStep(m) /\ connection_generation' = connection_generation
         \/ books'[m].state = "recovering" /\ books[m].state = "stale"
         \/ books[m].state # "valid" /\ books'[m] = books[m]
         \/ books'[m].state = "stale"
<1>1. books \in [Market -> Book] /\ known \in SUBSET Market
  BY DEF MarketInv, MarketTypeOK
<1>2. ASSUME books' = Invalidated(books)
      PROVE  books'[m].state = "stale" \/ (books[m].state # "valid" /\ books'[m] = books[m])
  <2>1. books' = [n \in Market |-> IF n \in known THEN MarkStale(books[n]) ELSE books[n]]
    BY <1>2 DEF Invalidated
  <2> QED
    BY <1>1, <2>1, InvalidatedEffect DEF MarketInv, ValidOnlyWhileConnected
<1>3. ASSUME NEW g \in Generation, OpenConnection(g)
      PROVE  books'[m].state = "stale" \/ (books[m].state # "valid" /\ books'[m] = books[m])
  <2>1. CASE connection_generation = 0
    BY <1>3, <2>1 DEF OpenConnection, MarketInv, ConnectedHasGeneration, ValidOnlyWhileConnected
  <2>2. CASE connection_generation # 0
    BY <1>2, <1>3, <2>2 DEF OpenConnection
  <2> QED
    BY <2>1, <2>2
<1>4. ASSUME NEW g \in Generation, CloseConnection(g)
      PROVE  books'[m].state = "stale" \/ (books[m].state # "valid" /\ books'[m] = books[m])
  BY <1>2, <1>4 DEF CloseConnection
<1>5. ASSUME NEW n \in Market, BeginRecovery(n)
      PROVE  \/ books'[m].state = "recovering" /\ books[m].state = "stale"
             \/ BookStep(m) /\ connection_generation' = connection_generation
  <2>1. books' = [books EXCEPT ![n] = Recovering(books[n])] /\ books[n].state = "stale"
    BY <1>5 DEF BeginRecovery, RecoversBook, CanRecover
  <2>2. Recovering(books[n]).state = "recovering"
    BY <1>1 DEF Recovering, Book
  <2> QED
    BY <1>1, <1>5, <2>1, <2>2 DEF BookStep, BeginRecovery
<1>6. ASSUME NEW u \in Snapshot, ApplySnapshot(u)
      PROVE  BookStep(m) /\ connection_generation' = connection_generation
  BY <1>6, SnapshotFields, SnapshotBookStep
<1>7. ASSUME NEW u \in Delta, ApplyDelta(u)
      PROVE  BookStep(m) /\ connection_generation' = connection_generation
  BY <1>7, DeltaFields, DeltaBookStep
<1> QED
  BY <1>3, <1>4, <1>5, <1>6, <1>7 DEF MarketNext

\* A stale book becomes valid only through recovery (invariant 4 of
\* ARCHITECTURE.md), whatever the callers do.
THEOREM RecoveryIsTheOnlyWayBack == MarketSpec => StaleNeedsRecovery
<1> DEFINE A == \A m \in Market :
       /\ books[m].state = "stale" => books'[m].state \in {"stale", "recovering"}
       /\ books'[m].state = "recovering" => books[m].state \in {"stale", "recovering"}
       /\ books'[m].state = "empty" => books[m].state = "empty"
<1>1. MarketInv /\ [MarketNext]_marketVars => [A]_marketVars
  <2> SUFFICES ASSUME MarketInv, MarketNext, NEW m \in Market
               PROVE  /\ books[m].state = "stale" => books'[m].state \in {"stale", "recovering"}
                      /\ books'[m].state = "recovering" => books[m].state \in {"stale", "recovering"}
                      /\ books'[m].state = "empty" => books[m].state = "empty"
    OBVIOUS
  <2> QED
    BY NextBookStep DEF BookStep
<1> QED
  BY <1>1, MarketInvariant, PTL DEF MarketSpec, StaleNeedsRecovery

\* A valid book never moves backward, changes stream or outlives its
\* connection (invariant 5 of ARCHITECTURE.md).
THEOREM ValidBooksOnlyAdvance == MarketSpec => ValidBookMovesForward
<1> DEFINE A == \A m \in Market :
       books[m].state = "valid" /\ books'[m].state = "valid" =>
         /\ books'[m].stream_id = books[m].stream_id
         /\ connection_generation' = connection_generation
         /\ books'[m].last_sequence >= books[m].last_sequence
         /\ books'[m].levels # books[m].levels =>
              books'[m].last_sequence > books[m].last_sequence
<1>1. MarketInv /\ MarketInv' /\ [MarketNext]_marketVars => [A]_marketVars
  <2> SUFFICES ASSUME MarketInv, MarketInv', MarketNext, NEW m \in Market,
                      books[m].state = "valid", books'[m].state = "valid"
               PROVE  /\ books'[m].stream_id = books[m].stream_id
                      /\ connection_generation' = connection_generation
                      /\ books'[m].last_sequence >= books[m].last_sequence
                      /\ books'[m].levels # books[m].levels =>
                           books'[m].last_sequence > books[m].last_sequence
    OBVIOUS
  <2>1. books[m].last_sequence \in Nat /\ books'[m].last_sequence \in Nat
    BY DEF MarketInv, ValidHasSequence
  <2>2. BookStep(m) /\ connection_generation' = connection_generation
    BY NextBookStep
  <2> QED
    BY <2>1, <2>2 DEF BookStep
<1> QED
  BY <1>1, MarketInvariant, PTL DEF MarketSpec, ValidBookMovesForward

-----------------------------------------------------------------------------
(* CandidateTracker. *)

\* The inductive invariant: the tracker has seen the connection it is on, and
\* every constraint's candidate is its quote.  The first part is what makes
\* refresh evaluate everything when an update cost the connection.
TrackerInv ==
  /\ seen_generation = connection_generation
  /\ seen_connected = connected
  /\ current = [c \in Constraint |-> Quote(c)]
  /\ active_count = Cardinality({c \in Constraint : current[c] # None})

-----------------------------------------------------------------------------
(* The tracker drives MarketState and adds nothing to it. *)

\* Every step of the tracker is a step of MarketState.
THEOREM TrackerImplementsMarket == TrackerSpec => MarketSpec
<1>1. TrackerInit => MarketInit
  BY DEF TrackerInit
<1>2. [TrackerNext]_tvars => [MarketNext]_marketVars
  BY DEF TrackerNext, MarketNext, tvars, marketVars
<1> QED
  BY <1>1, <1>2, PTL DEF TrackerSpec, MarketSpec

-----------------------------------------------------------------------------
(* What a quote depends on. *)

\* A quote reads the connection flag and the books of its own legs.
LEMMA QuoteReadsItsLegs ==
  ASSUME NEW c \in Constraint, connected' = connected,
         \A i \in {1, 2} : /\ books'[LegsOf[c][i].market] = books[LegsOf[c][i].market]
                           /\ LegsOf[c][i].market \in known' <=> LegsOf[c][i].market \in known
  PROVE  Quote(c)' = Quote(c)
<1>1. ASSUME NEW i \in {1, 2}, NEW leg, leg = LegsOf[c][i]
      PROVE  /\ Offered(leg.market, LegSide(leg))' = Offered(leg.market, LegSide(leg))
             /\ LegPrice(leg)' = LegPrice(leg)
             /\ LegQuantity(leg)' = LegQuantity(leg)
             /\ (leg.market \in ValidBooks)' <=> leg.market \in ValidBooks
  <2>1. books'[leg.market] = books[leg.market]
    BY <1>1
  <2>2. Offered(leg.market, LegSide(leg))' = Offered(leg.market, LegSide(leg))
    BY <2>1 DEF Offered
  <2>3. BestLevel(leg)' = BestLevel(leg)
    BY <2>2 DEF BestLevel
  <2>4. LegPrice(leg)' = LegPrice(leg) /\ LegQuantity(leg)' = LegQuantity(leg)
    BY <2>1, <2>3 DEF LegPrice, LegQuantity
  <2>5. (leg.market \in ValidBooks)' <=> leg.market \in ValidBooks
    BY <1>1, <2>1 DEF ValidBooks
  <2> QED
    BY <2>2, <2>4, <2>5
<1>2. \A i \in {1, 2} :
        /\ Offered(LegsOf[c][i].market, LegSide(LegsOf[c][i]))'
             = Offered(LegsOf[c][i].market, LegSide(LegsOf[c][i]))
        /\ LegPrice(LegsOf[c][i])' = LegPrice(LegsOf[c][i])
        /\ LegQuantity(LegsOf[c][i])' = LegQuantity(LegsOf[c][i])
        /\ (LegsOf[c][i].market \in ValidBooks)' <=> LegsOf[c][i].market \in ValidBooks
  BY <1>1
<1>3. Quoted(c)' <=> Quoted(c)
  BY <1>2 DEF Quoted
<1>4. [i \in {1, 2} |-> LegPrice(LegsOf[c][i])]' = [i \in {1, 2} |-> LegPrice(LegsOf[c][i])]
  BY <1>2
<1>5. {LegQuantity(LegsOf[c][i]) : i \in {1, 2}}' = {LegQuantity(LegsOf[c][i]) : i \in {1, 2}}
  BY <1>2
<1> QED
  BY <1>3, <1>4, <1>5, Zenon DEF Quote

\* An update that keeps the connection touches the book of its market only.
LEMMA FinishTouchesItsMarket ==
  ASSUME NEW stream, NEW sequence, NEW result, NEW ks, NEW bs,
         Finish(stream, sequence, result, ks, bs), connected, connected',
         NEW m \in Market, bs[m] = books[m], m \in ks <=> m \in known
  PROVE  books'[m] = books[m] /\ (m \in known' <=> m \in known)
BY DEF Finish

-----------------------------------------------------------------------------
(* evaluate. *)

\* Evaluating a set of constraints outside which no quote changed leaves
\* every quote current, and the increments keep the count.
LEMMA EvaluateIsCurrent ==
  ASSUME TrackerInv, NEW cs \in SUBSET Constraint, Evaluate(cs),
         \A c \in Constraint \ cs : Quote(c)' = Quote(c)
  PROVE  /\ current' = [c \in Constraint |-> Quote(c)']
         /\ active_count' = Cardinality({c \in Constraint : current'[c] # None})
<1> DEFINE Held == {c \in Constraint : current[c] # None}
           gained == {c \in cs : current[c] = None /\ Quote(c)' # None}
           lost == {c \in cs : current[c] # None /\ Quote(c)' = None}
           Kept == Held \ lost
<1>1. current' = [c \in Constraint |-> Quote(c)']
  BY DEF Evaluate, TrackerInv
<1>2. {c \in Constraint : current'[c] # None} = Kept \cup gained
  <2>1. \A c \in Constraint : current'[c] = IF c \in cs THEN Quote(c)' ELSE current[c]
    BY DEF Evaluate
  <2> QED
    BY <2>1
<1>3. IsFiniteSet(Held) /\ IsFiniteSet(gained) /\ IsFiniteSet(lost) /\ IsFiniteSet(Kept)
  BY TrackerConstants, FS_Subset
<1>4. Held \cap lost = lost /\ Kept \cap gained = {}
  OBVIOUS
<1>5. Cardinality(Kept) = Cardinality(Held) - Cardinality(lost)
  <2>1. IsFiniteSet(Held) /\ Held \cap lost = lost
    BY <1>3, <1>4
  <2> HIDE DEF Held, lost
  <2>2. Cardinality(Held \ lost) = Cardinality(Held) - Cardinality(Held \cap lost)
    BY <2>1, FS_Difference
  <2> QED
    BY <2>1, <2>2
<1>6. Cardinality(Kept \cup gained) = Cardinality(Kept) + Cardinality(gained)
  <2>1. Cardinality(Kept \cup gained)
          = Cardinality(Kept) + Cardinality(gained) - Cardinality(Kept \cap gained)
    <3>1. IsFiniteSet(Kept) /\ IsFiniteSet(gained)
      BY <1>3
    <3> HIDE DEF Kept, gained
    <3> QED
      BY <3>1, FS_Union
  <2>2. Cardinality(Kept \cap gained) = 0
    BY <1>4, FS_EmptySet
  <2>3. Cardinality(Kept) \in Nat /\ Cardinality(gained) \in Nat
    BY <1>3, FS_CardinalityType
  <2> HIDE DEF Kept, gained
  <2> QED
    BY <2>1, <2>2, <2>3
<1>7. active_count' = Cardinality(Held) + Cardinality(gained) - Cardinality(lost)
  BY DEF Evaluate, TrackerInv
<1>8. Cardinality(Held) \in Nat /\ Cardinality(gained) \in Nat /\ Cardinality(lost) \in Nat
  BY <1>3, FS_CardinalityType
<1> HIDE DEF Held, gained, lost, Kept
<1>9. active_count' = Cardinality(Kept \cup gained)
  BY <1>5, <1>6, <1>7, <1>8
<1> QED
  BY <1>1, <1>2, <1>9

\* refresh_all makes the tracker current whatever the operation did.
LEMMA RefreshAllIsCurrent ==
  ASSUME TrackerInv, RefreshAll
  PROVE  TrackerInv'
<1>1. Evaluate(Constraint)
  BY DEF RefreshAll
<1>2. /\ current' = [c \in Constraint |-> Quote(c)']
      /\ active_count' = Cardinality({c \in Constraint : current'[c] # None})
  BY <1>1, EvaluateIsCurrent
<1> QED
  BY <1>2 DEF RefreshAll, TrackerInv

\* refresh(market) makes the tracker current after an update to that market:
\* either the update cost the connection and refresh evaluates everything, or
\* it changed no other market's book.
LEMMA RefreshIsCurrent ==
  ASSUME TrackerInv, NEW market \in Market, Refresh(market), connected,
         connected' => \A m \in Market \ {market} :
                         books'[m] = books[m] /\ (m \in known' <=> m \in known)
  PROVE  TrackerInv'
<1>1. CASE seen_generation # connection_generation' \/ seen_connected # connected'
  BY <1>1, RefreshAllIsCurrent DEF Refresh
<1>2. CASE ~(seen_generation # connection_generation' \/ seen_connected # connected')
  <2>1. Evaluate(Dependent(market)) /\ UNCHANGED <<seen_generation, seen_connected>>
    BY <1>2 DEF Refresh
  <2>2. connected' = connected
    BY <1>2 DEF TrackerInv
  <2>3. ASSUME NEW c \in Constraint \ Dependent(market) PROVE Quote(c)' = Quote(c)
    <3>1. \A i \in {1, 2} : LegsOf[c][i].market \in Market \ {market}
      BY <2>3, TrackerConstants DEF Dependent
    <3> QED
      BY <2>2, <3>1, QuoteReadsItsLegs
  <2>4. Dependent(market) \in SUBSET Constraint
    BY DEF Dependent
  <2>5. /\ current' = [c \in Constraint |-> Quote(c)']
        /\ active_count' = Cardinality({c \in Constraint : current'[c] # None})
    BY <2>1, <2>3, <2>4, EvaluateIsCurrent
  <2> QED
    BY <1>2, <2>1, <2>5 DEF TrackerInv
<1> QED
  BY <1>1, <1>2

-----------------------------------------------------------------------------
\* Every input leaves the tracker current.
THEOREM TrackerInvariant == TrackerSpec => []TrackerInv
<1>1. TrackerInit => TrackerInv
  <2> SUFFICES ASSUME TrackerInit PROVE TrackerInv
    OBVIOUS
  <2>1. connected = FALSE /\ connection_generation = 0
    BY DEF TrackerInit, MarketInit
  <2>2. \A c \in Constraint : Quote(c) = None
    BY <2>1 DEF Quote, Quoted
  <2>3. {c \in Constraint : current[c] # None} = {}
    BY DEF TrackerInit
  <2>4. active_count = Cardinality({c \in Constraint : current[c] # None})
    BY <2>3, FS_EmptySet DEF TrackerInit
  <2>5. current = [c \in Constraint |-> Quote(c)]
    BY <2>2 DEF TrackerInit
  <2> QED
    BY <2>1, <2>4, <2>5 DEF TrackerInit, TrackerInv
<1>2. MarketInv /\ TrackerInv /\ [TrackerNext]_tvars => TrackerInv'
  <2> SUFFICES ASSUME MarketInv, TrackerInv, [TrackerNext]_tvars PROVE TrackerInv'
    OBVIOUS
  <2>1. CASE UNCHANGED tvars
    <3>1. \A c \in Constraint : Quote(c)' = Quote(c)
      BY <2>1, QuoteReadsItsLegs DEF tvars
    <3> QED
      BY <2>1, <3>1 DEF tvars, TrackerInv
  <2>2. CASE RefreshAll
    BY <2>2, RefreshAllIsCurrent
  <2>3. ASSUME NEW u \in Snapshot, ApplySnapshot(u), Refresh(u.market) PROVE TrackerInv'
    <3> DEFINE result == ApplySnapshotResult(u)
               after == AfterSnapshot(books[u.market], u.stream, u.sequence, u.bids, u.asks, result)
    <3>1. connected /\ u.market \in Market /\ books \in [Market -> Book]
      BY <2>3, SnapshotFields DEF IsSnapshot, ApplySnapshot, Accepts, MarketInv, MarketTypeOK
    <3>2. \/ Finish(u.stream, u.sequence, result, known, books)
          \/ Finish(u.stream, u.sequence, result, known \cup {u.market},
                    [books EXCEPT ![u.market] = after])
      BY <2>3 DEF ApplySnapshot
    <3> HIDE DEF result, after
    <3>3. ASSUME connected', NEW m \in Market \ {u.market}
          PROVE  books'[m] = books[m] /\ (m \in known' <=> m \in known)
      <4> DEFINE bs == [books EXCEPT ![u.market] = after]
      <4>1. bs[m] = books[m]
        BY <3>1, <3>3
      <4> HIDE DEF bs
      <4>2. CASE Finish(u.stream, u.sequence, result, known, books)
        BY <3>1, <3>3, <4>2, FinishTouchesItsMarket
      <4>3. CASE Finish(u.stream, u.sequence, result, known \cup {u.market}, bs)
        BY <3>1, <3>3, <4>1, <4>3, FinishTouchesItsMarket
      <4> QED
        BY <3>2, <4>2, <4>3 DEF bs
    <3> QED
      BY <2>3, <3>1, <3>3, RefreshIsCurrent
  <2>4. ASSUME NEW u \in Delta, ApplyDelta(u), Refresh(u.market) PROVE TrackerInv'
    <3> DEFINE result == ApplyDeltaResult(u)
               after == AfterDelta(books[u.market], u.sequence, u.side, u.price, u.change, result)
    <3>1. connected /\ u.market \in Market /\ books \in [Market -> Book]
      BY <2>4, DeltaFields DEF IsDelta, ApplyDelta, Accepts, MarketInv, MarketTypeOK
    <3>2. \/ Finish(u.stream, u.sequence, result, known, books)
          \/ Finish(u.stream, u.sequence, result, known, [books EXCEPT ![u.market] = after])
      BY <2>4 DEF ApplyDelta
    <3> HIDE DEF result, after
    <3>3. ASSUME connected', NEW m \in Market \ {u.market}
          PROVE  books'[m] = books[m] /\ (m \in known' <=> m \in known)
      <4> DEFINE bs == [books EXCEPT ![u.market] = after]
      <4>1. bs[m] = books[m]
        BY <3>1, <3>3
      <4> HIDE DEF bs
      <4>2. CASE Finish(u.stream, u.sequence, result, known, books)
        BY <3>1, <3>3, <4>2, FinishTouchesItsMarket
      <4>3. CASE Finish(u.stream, u.sequence, result, known, bs)
        BY <3>1, <3>3, <4>1, <4>3, FinishTouchesItsMarket
      <4> QED
        BY <3>2, <4>2, <4>3 DEF bs
    <3> QED
      BY <2>4, <3>1, <3>3, RefreshIsCurrent
  <2> QED
    BY <2>1, <2>2, <2>3, <2>4 DEF TrackerNext
<1> QED
  BY <1>1, <1>2, MarketInvariant, TrackerImplementsMarket, PTL DEF TrackerSpec

\* The incremental tracker holds what evaluating every constraint from scratch
\* would, and its count is right: refresh may skip every constraint that does
\* not depend on the updated market.
THEOREM TrackerAgreesWithScratch == TrackerSpec => []TrackerIsCurrent
<1>1. TrackerInv => TrackerIsCurrent
  BY DEF TrackerInv, TrackerIsCurrent
<1> QED
  BY <1>1, TrackerInvariant, PTL

-----------------------------------------------------------------------------
(* What a quote is worth. *)

\* A non-empty set of numbers has a least element, and a bounded one has a
\* greatest.
LEMMA LeastElement ==
  ASSUME NEW S \in SUBSET Nat, S # {}
  PROVE  Min(S) \in S /\ \A x \in S : Min(S) <= x
<1> DEFINE Less == {ss \in Nat \X Nat : ss[1] < ss[2]}
<1>1. IsWellFoundedOn(Less, Nat)
  BY NatLessThanWellFounded DEF OpToRel
<1>2. \E x \in S : \A y \in S : ~(<<y, x>> \in Less)
  <2> HIDE DEF Less
  <2> QED
    BY <1>1, WFMin
<1>3. PICK x \in S : \A y \in S : ~(<<y, x>> \in Less)
  BY <1>2
<1>4. \A y \in S : x =< y
  <2> SUFFICES ASSUME NEW y \in S PROVE x =< y
    OBVIOUS
  <2>1. x \in Nat /\ y \in Nat
    OBVIOUS
  <2>2. ~(y < x)
    BY <1>3, <2>1
  <2> QED
    BY <2>1, <2>2
<1>5. \E z \in S : \A y \in S : z =< y
  BY <1>4
<1> QED
  BY <1>5 DEF Min

LEMMA GreatestElement ==
  ASSUME NEW n \in Nat, NEW S \in SUBSET (0..n), S # {}
  PROVE  Max(S) \in S /\ \A x \in S : x <= Max(S)
<1> DEFINE T == {n - x : x \in S}
<1>1. T \in SUBSET Nat /\ T # {}
  <2>1. \A x \in S : n - x \in Nat
    OBVIOUS
  <2> QED
    BY <2>1
<1>2. Min(T) \in T /\ \A t \in T : Min(T) <= t
  <2> HIDE DEF T
  <2> QED
    BY <1>1, LeastElement
<1>3. PICK x \in S : Min(T) = n - x
  BY <1>2
<1>4. \A y \in S : x >= y
  <2> TAKE y \in S
  <2>1. n - x <= n - y
    BY <1>2, <1>3
  <2> QED
    BY <2>1
<1>5. \E z \in S : \A y \in S : z >= y
  BY <1>4
<1> QED
  BY <1>5 DEF Max

\* A price is below what a contract pays.
LEMMA PricesAreNumbers == Scale \in Nat /\ \A p \in Price : p \in Nat /\ p \in 0..Scale
BY TrackerConstants

\* The best level of a side with liquidity is one of its levels.
LEMMA BestLevelIsOffered ==
  ASSUME NEW leg \in [market : Market, outcome : {"yes", "no"}],
         Offered(leg.market, LegSide(leg)) # {}
  PROVE  BestLevel(leg) \in Offered(leg.market, LegSide(leg))
<1> DEFINE S == Offered(leg.market, LegSide(leg))
<1>1. S \in SUBSET (0..Scale) /\ S \in SUBSET Nat /\ S # {} /\ Scale \in Nat
  BY PricesAreNumbers DEF Offered
<1>2. Min(S) \in S /\ Max(S) \in S
  <2> HIDE DEF S
  <2> QED
    BY <1>1, LeastElement, GreatestElement
<1> QED
  BY <1>2 DEF BestLevel

\* What a leg with liquidity in a valid book is quoted from.
LEMMA LegIsOnOffer ==
  ASSUME MarketTypeOK, NEW c \in Constraint, NEW i \in {1, 2}, Quoted(c),
         NEW leg, leg = LegsOf[c][i]
  PROVE  /\ BestLevel(leg) \in Price
         /\ LegPrice(leg) = IF leg.outcome = "yes" THEN BestLevel(leg) ELSE Scale - BestLevel(leg)
         /\ books[leg.market].state = "valid"
         /\ LegQuantity(leg) = books[leg.market].levels[LegSide(leg)][BestLevel(leg)]
         /\ LegQuantity(leg) \in Nat /\ LegQuantity(leg) > 0
         /\ LegPrice(leg) \in Int
<1>1. leg \in [market : Market, outcome : {"yes", "no"}]
  BY TrackerConstants
<1>2. leg.market \in ValidBooks /\ Offered(leg.market, LegSide(leg)) # {}
  BY DEF Quoted
<1>3. BestLevel(leg) \in Offered(leg.market, LegSide(leg))
  BY <1>1, <1>2, BestLevelIsOffered
<1>4. books[leg.market].state = "valid" /\ leg.market \in Market
  BY <1>1, <1>2 DEF ValidBooks
<1>5. Shown(books[leg.market], LegSide(leg)) = books[leg.market].levels[LegSide(leg)]
  BY <1>4 DEF Shown
<1>6. books[leg.market].levels \in [Side -> [Price -> 0..MaxQty]]
  BY <1>4 DEF MarketTypeOK, Book, Levels, Quantity
<1>7. BestLevel(leg) \in Price /\ LegSide(leg) \in Side
  BY <1>3 DEF Offered, LegSide, Side
<1>8. LegQuantity(leg) = books[leg.market].levels[LegSide(leg)][BestLevel(leg)]
  BY <1>5 DEF LegQuantity
<1>9. LegQuantity(leg) \in Nat /\ LegQuantity(leg) > 0
  <2>1. LegQuantity(leg) > 0
    BY <1>3 DEF Offered, LegQuantity
  <2>2. LegQuantity(leg) \in 0..MaxQty
    <3>1. books[leg.market].levels[LegSide(leg)] \in [Price -> 0..MaxQty]
      BY <1>6, <1>7
    <3> QED
      BY <1>7, <1>8, <3>1
  <2> QED
    BY <2>1, <2>2, BookConstants
<1>10. BestLevel(leg) \in Int /\ Scale \in Int
  BY <1>7, PricesAreNumbers
<1>11. LegPrice(leg) \in Int
  BY <1>10 DEF LegPrice
<1> QED
  BY <1>4, <1>7, <1>8, <1>9, <1>11 DEF LegPrice

\* A quote is worth its price and is covered by its legs.
LEMMA QuoteIsExecutable ==
  ASSUME MarketTypeOK, NEW c \in Constraint, Quote(c) # None
  PROVE  /\ Quote(c).cost < Quote(c).payout
         /\ \A i \in {1, 2} :
              LET leg == LegsOf[c][i]
              IN  \E p \in Price :
                    /\ Quote(c).prices[i] = IF leg.outcome = "yes" THEN p ELSE Scale - p
                    /\ books[leg.market].state = "valid"
                    /\ books[leg.market].levels[LegSide(leg)][p] >= Quote(c).quantity
<1> DEFINE price == [i \in {1, 2} |-> LegPrice(LegsOf[c][i])]
           qs == {LegQuantity(LegsOf[c][i]) : i \in {1, 2}}
           quantity == Min(qs)
           sum == price[1] + price[2]
<1>1. Quoted(c)
  BY DEF Quote
<1>2. sum < Scale /\ Quote(c) = [prices |-> price, quantity |-> quantity,
                                cost |-> sum * quantity, payout |-> quantity * Scale]
  <2>1. ~(sum >= Scale)
    BY <1>1 DEF Quote
  <2>2. Quote(c) = [prices |-> price, quantity |-> quantity,
                    cost |-> sum * quantity, payout |-> quantity * Scale]
    BY <1>1 DEF Quote
  <2>3. sum \in Int /\ Scale \in Int
    BY <1>1, LegIsOnOffer, TrackerConstants
  <2> HIDE DEF sum
  <2>4. sum < Scale
    BY <2>1, <2>3
  <2> QED
    BY <2>2, <2>4 DEF sum
<1>3. /\ \A i \in {1, 2} : price[i] = LegPrice(LegsOf[c][i])
      /\ sum \in Int
  BY <1>1, LegIsOnOffer
<1>4. qs \in SUBSET Nat /\ qs # {} /\ \A q \in qs : q > 0
  BY <1>1, LegIsOnOffer
<1>5. quantity \in qs /\ \A q \in qs : quantity <= q
  <2> HIDE DEF qs
  <2> QED
    BY <1>4, LeastElement
<1>6. quantity \in Nat /\ quantity > 0
  <2> HIDE DEF quantity, qs
  <2> QED
    BY <1>4, <1>5
<1>7. sum * quantity < quantity * Scale
  <2>1. sum \in Int /\ Scale \in Int /\ quantity \in Int /\ sum < Scale /\ quantity > 0
    BY <1>2, <1>3, <1>6, TrackerConstants
  <2> HIDE DEF sum, quantity
  <2>2. \A a, b, q \in Int : a < b /\ q > 0 => a * q < q * b
    <3> SUFFICES ASSUME NEW a \in Int, NEW b \in Int, NEW q \in Int, a < b, q > 0
                 PROVE  a * q < q * b
      OBVIOUS
    <3>1. b - a >= 1 /\ q >= 1
      OBVIOUS
    <3>2. (b - a) * q > 0
      BY <3>1
    <3>3. (b - a) * q = q * b - a * q
      OBVIOUS
    <3> QED
      BY <3>2, <3>3
  <2> QED
    BY <2>1, <2>2
<1>8. ASSUME NEW i \in {1, 2}, NEW leg, leg = LegsOf[c][i]
      PROVE  \E p \in Price :
               /\ price[i] = IF leg.outcome = "yes" THEN p ELSE Scale - p
               /\ books[leg.market].state = "valid"
               /\ books[leg.market].levels[LegSide(leg)][p] >= quantity
  <2>1. LegQuantity(leg) >= quantity
    <3>1. LegQuantity(leg) \in qs
      BY <1>8
    <3>2. LegQuantity(leg) \in Nat /\ quantity \in Nat
      BY <1>1, <1>6, <1>8, LegIsOnOffer
    <3> HIDE DEF qs, quantity
    <3> QED
      BY <1>5, <3>1, <3>2
  <2>2. price[i] = LegPrice(leg)
    BY <1>3, <1>8
  <2> HIDE DEF price, quantity
  <2>3. /\ BestLevel(leg) \in Price
        /\ LegPrice(leg) = IF leg.outcome = "yes" THEN BestLevel(leg) ELSE Scale - BestLevel(leg)
        /\ books[leg.market].state = "valid"
        /\ LegQuantity(leg) = books[leg.market].levels[LegSide(leg)][BestLevel(leg)]
    BY <1>1, <1>8, LegIsOnOffer
  <2> QED
    BY <2>1, <2>2, <2>3
<1> HIDE DEF price, quantity, sum
<1>9. Quote(c).prices = price /\ Quote(c).quantity = quantity
      /\ Quote(c).cost = sum * quantity /\ Quote(c).payout = quantity * Scale
  BY <1>2
<1> QED
  BY <1>7, <1>8, <1>9

\* Every candidate the tracker holds pays more than it costs, and each of its
\* legs can be bought whole at the quoted price from a valid book.
THEOREM CandidatesAreExecutable == TrackerSpec => []CandidateIsExecutable
<1>1. MarketInv /\ TrackerInv => CandidateIsExecutable
  <2> SUFFICES ASSUME MarketInv, TrackerInv, NEW c \in Constraint, current[c] # None
               PROVE  /\ current[c].cost < current[c].payout
                      /\ \A i \in {1, 2} :
                           LET leg == LegsOf[c][i]
                           IN  \E p \in Price :
                             /\ current[c].prices[i] =
                                  IF leg.outcome = "yes" THEN p ELSE Scale - p
                             /\ books[leg.market].state = "valid"
                             /\ books[leg.market].levels[LegSide(leg)][p] >= current[c].quantity
    BY DEF CandidateIsExecutable
  <2>1. current[c] = Quote(c)
    BY DEF TrackerInv
  <2>2. MarketTypeOK
    BY DEF MarketInv
  <2> QED
    BY <2>1, <2>2, QuoteIsExecutable
<1> QED
  BY <1>1, TrackerInvariant, MarketInvariant, TrackerImplementsMarket, PTL

-----------------------------------------------------------------------------
(* VenueReplica.  The inductive invariant: what the log says of the venue, *)
(* and how far a valid book has followed it.                               *)

Message ==
  [generation : Nat, market : Market, stream : Stream, sequence : Nat,
   bids : Seq(Level), asks : Seq(Level)]
  \cup
  [generation : Nat, market : Market, stream : Stream, sequence : Nat,
   side : Side, price : Price, change : Int]

Entry == [kind : {"snapshot", "delta"}, u : Message, content : [Side -> Levels]]

ReplicaTypeOK ==
  /\ venue \in [Market -> [Side -> Levels]]
  /\ last_sent \in [Stream -> Nat]
  /\ log \in Seq(Entry)

\* A snapshot carries its content, a delta is a change of a level.
EntrySound(e) ==
  /\ e.u.stream = StreamOf[e.u.market]
  /\ e.u.generation <= connection_generation
  /\ e.kind = "snapshot" =>
       /\ IsSnapshot(e.u)
       /\ e.content = [s \in Side |-> LoadedLevels(IF s = "bid" THEN e.u.bids ELSE e.u.asks)]
  /\ e.kind = "delta" => IsDelta(e.u)

LogSound == \A i \in DOMAIN log : EntrySound(log[i])

\* Generations never decrease along the log, and the sequence numbers of one
\* stream of one connection increase, up to the last one sent.
LogOrdered ==
  /\ \A i, j \in DOMAIN log : i < j =>
       /\ log[i].u.generation <= log[j].u.generation
       /\ log[i].u.generation = log[j].u.generation /\ log[i].u.stream = log[j].u.stream
            => log[i].u.sequence < log[j].u.sequence
  /\ \A i \in DOMAIN log : log[i].u.generation = connection_generation =>
       log[i].u.sequence <= last_sent[log[i].u.stream]

\* Entry j is the first of its market after entry i.
Follows(j, i) ==
  /\ i < j /\ log[i].u.market = log[j].u.market
  /\ \A k \in DOMAIN log : i < k /\ k < j => log[k].u.market # log[j].u.market

\* A book's levels with the change of a delta.
Changed(levels, u) == [levels EXCEPT ![u.side][u.price] = @ + u.change]

\* A delta's content is the one before it with the change; the last content
\* published of a market is the venue's book.
LogContinuous ==
  /\ \A i, j \in DOMAIN log : Follows(j, i) /\ log[j].kind = "delta" =>
       log[j].content = Changed(log[i].content, log[j].u)
  /\ \A i \in DOMAIN log :
       (\A k \in DOMAIN log : i < k => log[k].u.market # log[i].u.market)
         => log[i].content = venue[log[i].u.market]

LogInv == ReplicaTypeOK /\ LogSound /\ LogOrdered /\ LogContinuous

\* A valid book is on its market's stream, has not gone past it, and is the
\* venue's book as of where it is.
Followed(m) ==
  /\ books[m].stream_id = StreamOf[m]
  /\ FollowedTo(m) <= last_sent[StreamOf[m]]
  /\ IsBookAsOf(m, FollowedTo(m), books[m].levels)

ReplicaInv ==
  /\ MarketInv
  /\ LogInv
  /\ \A m \in Market : books[m].state = "valid" => Followed(m)

-----------------------------------------------------------------------------
(* What a delivery does to a book that is valid after it. *)

\* The book of m is untouched, and the client has followed it as far as before
\* or past the next message of its stream, which is of another market.
Stays(m, u) ==
  /\ books[m].state = "valid" /\ books'[m] = books[m]
  /\ \/ FollowedTo(m)' = FollowedTo(m)
     \/ /\ m # u.market /\ StreamOf[m] = u.stream
        /\ u.sequence = FollowedTo(m) + 1
        /\ FollowedTo(m)' = u.sequence

\* The book of m is at the message.
Takes(m, u) ==
  /\ m = u.market /\ books'[m].stream_id = u.stream
  /\ FollowedTo(m)' = u.sequence

\* A book valid after finish_shared is the one the update left, and in the
\* shared scope the update was applied.
LEMMA FinishFollows ==
  ASSUME NEW stream, NEW sequence, NEW result,
         NEW ks \in SUBSET Market, NEW bs \in [Market -> Book],
         Finish(stream, sequence, result, ks, bs),
         \A n \in Market : bs[n].state = "valid" => n \in ks,
         NEW m \in Market, books'[m].state = "valid"
  PROVE  books'[m] = bs[m] /\ (Scope = "shared_stream" => result = "applied")
<1>1. CASE Scope = "per_book"
  BY <1>1 DEF Finish
<1>2. CASE Scope = "shared_stream" /\ result = "applied"
  BY <1>2 DEF Finish
<1>3. CASE Scope = "shared_stream" /\ result # "applied"
  <2>1. books' = [n \in Market |-> IF n \in ks THEN MarkStale(bs[n]) ELSE bs[n]]
    BY <1>3 DEF Finish
  <2>2. /\ \A n \in ks : books'[n].state = "stale"
        /\ \A n \in Market \ ks : books'[n] = bs[n]
    BY <2>1, InvalidatedEffect
  <2> QED
    BY <2>2
<1> QED
  BY <1>1, <1>2, <1>3, MarketConstants

\* Where the client is on m's stream, for a book that is valid.
LEMMA FollowedToNat ==
  ASSUME MarketInv, NEW m \in Market, books[m].state = "valid",
         books[m].stream_id = StreamOf[m]
  PROVE  /\ FollowedTo(m) \in Nat /\ books[m].last_sequence \in Nat
         /\ Scope = "shared_stream" =>
              /\ FollowedTo(m) = stream_sequences[StreamOf[m]]
              /\ stream_sequences[StreamOf[m]] # None
         /\ Scope # "shared_stream" => FollowedTo(m) = books[m].last_sequence
BY VenueConstants DEF MarketInv, MarketTypeOK, BookBehindStream, ValidHasSequence, FollowedTo

\* An untouched book stays, also when its shared stream moves on.
LEMMA UntouchedStays ==
  ASSUME MarketInv, NEW m \in Market, books[m].state = "valid",
         books[m].stream_id = StreamOf[m], books'[m] = books[m],
         NEW u, u.stream \in Stream, u.sequence \in Nat, m # u.market,
         Scope = "shared_stream" =>
           /\ AcceptsSequence(u.stream, u.sequence)
           /\ stream_sequences' = [stream_sequences EXCEPT ![u.stream] = u.sequence]
  PROVE  Stays(m, u)
<1>1. CASE Scope # "shared_stream"
  BY <1>1 DEF Stays, FollowedTo
<1>2. CASE Scope = "shared_stream"
  <2>1. /\ FollowedTo(m) = stream_sequences[StreamOf[m]]
        /\ stream_sequences[StreamOf[m]] # None
        /\ StreamOf[m] \in Stream
    BY <1>2, FollowedToNat, VenueConstants
  <2>2. FollowedTo(m)' = stream_sequences'[StreamOf[m]]
    BY <1>2 DEF FollowedTo
  <2>3. stream_sequences \in [Stream -> Nat \cup {None}]
    BY DEF MarketInv, MarketTypeOK
  <2>4. CASE StreamOf[m] = u.stream
    BY <1>2, <2>1, <2>2, <2>3, <2>4 DEF AcceptsSequence, Stays
  <2>5. CASE StreamOf[m] # u.stream
    BY <1>2, <2>1, <2>2, <2>3, <2>5 DEF Stays
  <2> QED
    BY <2>4, <2>5
<1> QED
  BY <1>1, <1>2

\* apply(BookSnapshot): a valid book stays, or takes the snapshot's levels.
LEMMA SnapshotFollows ==
  ASSUME MarketInv, \A n \in Market : books[n].state = "valid" => books[n].stream_id = StreamOf[n],
         NEW u, IsSnapshot(u), u.stream = StreamOf[u.market], ApplySnapshot(u),
         NEW m \in Market, books'[m].state = "valid"
  PROVE  \/ Stays(m, u)
         \/ /\ Takes(m, u)
            /\ books'[m].levels =
                 [s \in Side |-> LoadedLevels(IF s = "bid" THEN u.bids ELSE u.asks)]
<1> DEFINE result == ApplySnapshotResult(u)
           after == AfterSnapshot(books[u.market], u.stream, u.sequence, u.bids, u.asks, result)
           bs == [books EXCEPT ![u.market] = after]
<1>1. /\ books[u.market] \in Book /\ books \in [Market -> Book] /\ known \in SUBSET Market
      /\ \A n \in Market : books[n].state = "valid" => n \in known
      /\ u.market \in Market /\ u.stream \in Stream /\ u.sequence \in Nat
  BY DEF MarketInv, MarketTypeOK, ValidOnlyWhileConnected, IsSnapshot
<1>2. CASE SnapshotOutOfOrder(u)
  <2>1. Finish(u.stream, u.sequence, result, known, books) /\ result # "applied"
    BY <1>2 DEF ApplySnapshot, ApplySnapshotResult
  <2>2. Scope = "shared_stream"
    BY <1>2 DEF SnapshotOutOfOrder
  <2>3. /\ known \in SUBSET Market /\ books \in [Market -> Book]
        /\ \A n \in Market : books[n].state = "valid" => n \in known
    BY <1>1
  <2> HIDE DEF result
  <2>4. Scope = "shared_stream" => result = "applied"
    BY <2>1, <2>3, FinishFollows
  <2> QED
    BY <2>1, <2>2, <2>4
<1>3. CASE ~SnapshotOutOfOrder(u)
  <2>1. Finish(u.stream, u.sequence, result, known \cup {u.market}, bs)
    BY <1>3 DEF ApplySnapshot
  <2>2. after \in Book
    BY <1>1, AfterSnapshotType DEF IsSnapshot
  <2>3. result # "applied" => after = books[u.market] \/ after = MarkStale(books[u.market])
    BY DEF AfterSnapshot
  <2>4. result = "applied" =>
          after = [state |-> "valid", stream_id |-> u.stream, last_sequence |-> u.sequence,
                   levels |-> [s \in Side |-> LoadedLevels(IF s = "bid" THEN u.bids ELSE u.asks)]]
    BY DEF AfterSnapshot
  <2>5. MarkStale(books[u.market]).state = "stale"
    BY <1>1 DEF MarkStale, Book
  <2> HIDE DEF result, after
  <2>6. /\ bs \in [Market -> Book] /\ bs[u.market] = after
        /\ \A n \in Market \ {u.market} : bs[n] = books[n]
    BY <1>1, <2>2
  <2>7. known \cup {u.market} \in SUBSET Market
    BY <1>1
  <2>8. \A n \in Market : bs[n].state = "valid" => n \in known \cup {u.market}
    BY <1>1, <2>6
  <2> HIDE DEF bs
  <2>9. /\ books'[m] = bs[m]
        /\ Scope = "shared_stream" =>
             /\ result = "applied"
             /\ stream_sequences' = [stream_sequences EXCEPT ![u.stream] = u.sequence]
             /\ AcceptsSequence(u.stream, u.sequence)
    <3>1. Scope = "shared_stream" => AcceptsSequence(u.stream, u.sequence)
      BY <1>3 DEF SnapshotOutOfOrder
    <3>2. /\ books'[m] = bs[m]
          /\ Scope = "shared_stream" => result = "applied"
      BY <2>1, <2>6, <2>7, <2>8, FinishFollows
    <3>3. Scope = "shared_stream" =>
            stream_sequences' = [stream_sequences EXCEPT ![u.stream] = u.sequence]
      BY <2>1, <3>2 DEF Finish
    <3> QED
      BY <3>1, <3>2, <3>3
  <2>10. CASE m # u.market
    <3>1. books'[m] = books[m]
      BY <2>6, <2>9, <2>10
    <3> QED
      BY <1>1, <2>9, <2>10, <3>1, UntouchedStays
  <2>11. CASE m = u.market /\ result = "applied"
    <3>1. FollowedTo(m)' = u.sequence
      <4>1. CASE Scope = "shared_stream"
        BY <1>1, <2>9, <2>11, <4>1 DEF FollowedTo, MarketInv, MarketTypeOK
      <4>2. CASE Scope # "shared_stream"
        BY <2>4, <2>6, <2>9, <2>11, <4>2 DEF FollowedTo
      <4> QED
        BY <4>1, <4>2
    <3> QED
      BY <2>4, <2>6, <2>9, <2>11, <3>1 DEF Takes
  <2>12. CASE m = u.market /\ result # "applied"
    <3>1. books'[m] = books[m]
      BY <2>3, <2>5, <2>6, <2>9, <2>12
    <3>2. FollowedTo(m)' = FollowedTo(m)
      BY <2>9, <2>12, <3>1 DEF FollowedTo
    <3> QED
      BY <3>1, <3>2 DEF Stays
  <2> QED
    BY <2>10, <2>11, <2>12
<1> QED
  BY <1>2, <1>3

\* apply(BookDelta): a valid book stays, or takes the change as the message
\* right after the last one the client followed.
LEMMA DeltaFollows ==
  ASSUME MarketInv, \A n \in Market : books[n].state = "valid" => books[n].stream_id = StreamOf[n],
         NEW u, IsDelta(u), u.stream = StreamOf[u.market], ApplyDelta(u),
         NEW m \in Market, books'[m].state = "valid"
  PROVE  \/ Stays(m, u)
         \/ /\ Takes(m, u)
            /\ books[m].state = "valid"
            /\ u.sequence = FollowedTo(m) + 1
            /\ books'[m].levels = Changed(books[m].levels, u)
<1> DEFINE result == ApplyDeltaResult(u)
           after == AfterDelta(books[u.market], u.sequence, u.side, u.price, u.change, result)
           bs == [books EXCEPT ![u.market] = after]
<1>1. /\ books[u.market] \in Book /\ books \in [Market -> Book] /\ known \in SUBSET Market
      /\ \A n \in Market : books[n].state = "valid" => n \in known
      /\ u.market \in Market /\ u.stream \in Stream /\ u.sequence \in Nat
  BY DEF MarketInv, MarketTypeOK, ValidOnlyWhileConnected, IsDelta
<1>2. CASE u.market \notin known \/ DeltaOutOfOrder(u)
  <2>1. Finish(u.stream, u.sequence, result, known, books) /\ result # "applied"
    BY <1>2 DEF ApplyDelta, ApplyDeltaResult
  <2>2. /\ known \in SUBSET Market /\ books \in [Market -> Book]
        /\ \A n \in Market : books[n].state = "valid" => n \in known
    BY <1>1
  <2> HIDE DEF result
  <2>3. books'[m] = books[m] /\ Scope # "shared_stream"
    BY <2>1, <2>2, FinishFollows
  <2>4. FollowedTo(m)' = FollowedTo(m)
    BY <2>3 DEF FollowedTo
  <2> QED
    BY <2>3, <2>4 DEF Stays
<1>3. CASE u.market \in known /\ ~DeltaOutOfOrder(u)
  <2>1. /\ result = DeltaResult(books[u.market], u.stream, DeltaPredecessor(u),
                                u.sequence, u.side, u.price, u.change)
        /\ Finish(u.stream, u.sequence, result, known, bs)
    BY <1>3 DEF ApplyDeltaResult, ApplyDelta
  <2>2. after \in Book
    BY <1>1, <2>1, AfterDeltaType DEF IsDelta
  <2>3. result # "applied" => after = books[u.market] \/ after = MarkStale(books[u.market])
    BY DEF AfterDelta
  <2>4. result = "applied" =>
          after = [books[u.market] EXCEPT !.last_sequence = u.sequence,
                                          !.levels[u.side][u.price] = @ + u.change]
    BY DEF AfterDelta
  <2>5. MarkStale(books[u.market]).state = "stale"
    BY <1>1 DEF MarkStale, Book
  <2> HIDE DEF result, after
  <2>6. /\ bs \in [Market -> Book] /\ bs[u.market] = after
        /\ \A n \in Market \ {u.market} : bs[n] = books[n]
    BY <1>1, <2>2
  <2>7. known \in SUBSET Market
    BY <1>1
  <2>8. \A n \in Market : bs[n].state = "valid" => n \in known
    BY <1>1, <1>3, <2>6
  <2> HIDE DEF bs
  <2>9. /\ books'[m] = bs[m]
        /\ Scope = "shared_stream" =>
             /\ result = "applied"
             /\ stream_sequences' = [stream_sequences EXCEPT ![u.stream] = u.sequence]
             /\ stream_sequences[u.stream] # None
             /\ AcceptsSequence(u.stream, u.sequence)
    <3>1. Scope = "shared_stream" =>
            AcceptsSequence(u.stream, u.sequence) /\ stream_sequences[u.stream] # None
      BY <1>3 DEF DeltaOutOfOrder
    <3>2. /\ books'[m] = bs[m]
          /\ Scope = "shared_stream" => result = "applied"
      BY <2>1, <2>6, <2>7, <2>8, FinishFollows
    <3>3. Scope = "shared_stream" =>
            stream_sequences' = [stream_sequences EXCEPT ![u.stream] = u.sequence]
      BY <2>1, <3>2 DEF Finish
    <3> QED
      BY <3>1, <3>2, <3>3
  <2>10. CASE m # u.market
    <3>1. books'[m] = books[m]
      BY <2>6, <2>9, <2>10
    <3> QED
      BY <1>1, <2>9, <2>10, <3>1, UntouchedStays
  <2>11. CASE m = u.market /\ result = "applied"
    <3>1. Sequenced(books[m])
      BY <2>1, <2>11 DEF DeltaResult
    <3>2. u.stream = books[m].stream_id
      BY <2>1, <2>11, <3>1, Zenon DEF DeltaResult
    <3>3. ~(DeltaPredecessor(u) < books[m].last_sequence \/ u.sequence # DeltaPredecessor(u) + 1)
      BY <2>1, <2>11, <3>1, <3>2 DEF DeltaResult
    <3>4. books[m].state = "valid" /\ books[m].last_sequence # None
      BY <3>1 DEF Sequenced
    <3>5. /\ books'[m].state = books[m].state /\ books'[m].stream_id = books[m].stream_id
          /\ books'[m].last_sequence = u.sequence
          /\ books'[m].levels = Changed(books[m].levels, u)
      <4>1. books'[m] = [books[m] EXCEPT !.last_sequence = u.sequence,
                                         !.levels[u.side][u.price] = @ + u.change]
        BY <2>4, <2>6, <2>9, <2>11
      <4>2. books[m] \in Book
        BY <1>1, <2>11
      <4> QED
        BY <4>1, <4>2 DEF Book, Changed
    <3>6. CASE Scope = "shared_stream"
      <4>1. FollowedTo(m)' = u.sequence
        BY <1>1, <2>9, <2>11, <3>6 DEF FollowedTo, MarketInv, MarketTypeOK
      <4>2. FollowedTo(m) = DeltaPredecessor(u)
        BY <2>11, <3>6 DEF FollowedTo, DeltaPredecessor
      <4> QED
        BY <2>11, <3>2, <3>3, <3>4, <3>5, <4>1, <4>2 DEF Takes
    <3>7. CASE Scope # "shared_stream"
      <4>1. FollowedTo(m)' = u.sequence
        BY <3>5, <3>7 DEF FollowedTo
      <4>2. FollowedTo(m) = DeltaPredecessor(u)
        BY <2>11, <3>4, <3>7 DEF FollowedTo, DeltaPredecessor, OwnPredecessor
      <4> QED
        BY <2>11, <3>2, <3>3, <3>4, <3>5, <4>1, <4>2 DEF Takes
    <3> QED
      BY <3>6, <3>7
  <2>12. CASE m = u.market /\ result # "applied"
    <3>1. books'[m] = books[m]
      BY <2>3, <2>5, <2>6, <2>9, <2>12
    <3>2. FollowedTo(m)' = FollowedTo(m)
      BY <2>9, <2>12, <3>1 DEF FollowedTo
    <3> QED
      BY <3>1, <3>2 DEF Stays
  <2> QED
    BY <2>10, <2>11, <2>12
<1> QED
  BY <1>2, <1>3

-----------------------------------------------------------------------------
(* What the log says of the venue's books. *)

\* The fields of an entry have their types.
LEMMA EntryFields ==
  ASSUME LogInv, NEW i \in DOMAIN log
  PROVE  /\ log[i].u.market \in Market /\ log[i].u.stream = StreamOf[log[i].u.market]
         /\ log[i].u.sequence \in Nat /\ log[i].u.generation \in Nat
         /\ log[i].kind \in {"snapshot", "delta"}
         /\ log[i].content \in [Side -> Levels]
         /\ i \in Nat
<1>1. log[i] \in Entry /\ i \in Nat
  BY DEF LogInv, ReplicaTypeOK
<1>2. log[i].u \in Message
  BY <1>1 DEF Entry
<1>3. log[i].u.market \in Market /\ log[i].u.sequence \in Nat /\ log[i].u.generation \in Nat
  BY <1>2 DEF Message
<1> QED
  BY <1>1, <1>3 DEF Entry, LogInv, LogSound, EntrySound

\* An entry of this connection carries the venue's book as of its sequence
\* number.
LEMMA EntryIsBook ==
  ASSUME LogInv, NEW i \in DOMAIN log, log[i].u.generation = connection_generation
  PROVE  IsBookAsOf(log[i].u.market, log[i].u.sequence, log[i].content)
<1>1. i \in EntriesUpTo(log[i].u.market, log[i].u.sequence)
  BY EntryFields DEF EntriesUpTo, OnStream
<1>2. \A j \in EntriesUpTo(log[i].u.market, log[i].u.sequence) :
        log[j].u.sequence <= log[i].u.sequence
  BY DEF EntriesUpTo
<1> QED
  BY <1>1, <1>2 DEF IsBookAsOf

\* The next message of m's stream of another market leaves m's book alone.
LEMMA OtherMarketsMessage ==
  ASSUME LogInv, NEW i \in DOMAIN log, log[i].u.generation = connection_generation,
         NEW m \in Market, m # log[i].u.market, StreamOf[m] = log[i].u.stream,
         NEW n \in Nat, log[i].u.sequence = n + 1,
         NEW levels, IsBookAsOf(m, n, levels)
  PROVE  IsBookAsOf(m, n + 1, levels)
<1>1. ASSUME NEW j \in EntriesUpTo(m, n + 1)
      PROVE  j \in EntriesUpTo(m, n)
  <2>1. /\ j \in DOMAIN log /\ log[j].u.market = m /\ log[j].u.stream = log[i].u.stream
        /\ log[j].u.generation = log[i].u.generation /\ log[j].u.sequence <= n + 1
    BY <1>1 DEF EntriesUpTo, OnStream
  <2>2. i # j /\ i \in Nat /\ j \in Nat /\ log[j].u.sequence \in Nat
    BY <2>1, EntryFields
  <2>3. log[j].u.sequence # n + 1
    BY <2>1, <2>2 DEF LogInv, LogOrdered
  <2> QED
    BY <1>1, <2>1, <2>2, <2>3 DEF EntriesUpTo
<1>2. EntriesUpTo(m, n) \subseteq EntriesUpTo(m, n + 1)
  <2> SUFFICES ASSUME NEW j \in EntriesUpTo(m, n)
               PROVE  j \in EntriesUpTo(m, n + 1)
    OBVIOUS
  <2>1. j \in DOMAIN log /\ log[j].u.sequence <= n
    BY DEF EntriesUpTo, OnStream
  <2>2. log[j].u.sequence <= n + 1
    BY <2>1, EntryFields
  <2> QED
    BY <2>2 DEF EntriesUpTo
<1>3. EntriesUpTo(m, n + 1) = EntriesUpTo(m, n)
  BY <1>1, <1>2
<1> QED
  BY <1>3 DEF IsBookAsOf

\* The next delta of m's stream that is of m has the book after the change.
LEMMA NextDeltaIsNextBook ==
  ASSUME LogInv, NEW i \in DOMAIN log, log[i].u.generation = connection_generation,
         log[i].kind = "delta",
         NEW n \in Nat, log[i].u.sequence = n + 1,
         NEW levels, IsBookAsOf(log[i].u.market, n, levels)
  PROVE  log[i].content = Changed(levels, log[i].u)
<1> DEFINE m == log[i].u.market
<1>1. PICK k \in EntriesUpTo(m, n) :
        /\ \A j \in EntriesUpTo(m, n) : log[j].u.sequence <= log[k].u.sequence
        /\ levels = log[k].content
  BY DEF IsBookAsOf
<1>2. /\ k \in DOMAIN log /\ log[k].u.market = m /\ log[k].u.stream = log[i].u.stream
      /\ log[k].u.generation = connection_generation /\ log[k].u.sequence <= n
  BY EntryFields DEF EntriesUpTo, OnStream
<1>3. /\ i \in Nat /\ k \in Nat /\ log[k].u.sequence \in Nat
      /\ connection_generation \in Nat
  BY <1>2, EntryFields
<1>4. k < i
  <2>1. ~(i < k)
    BY <1>2, <1>3 DEF LogInv, LogOrdered
  <2>2. i # k
    BY <1>2, <1>3
  <2> QED
    BY <1>3, <2>1, <2>2
<1>5. ASSUME NEW j \in DOMAIN log, k < j, j < i, log[j].u.market = m
      PROVE  FALSE
  <2>1. /\ log[j].u.generation \in Nat /\ log[j].u.sequence \in Nat
        /\ log[j].u.stream = log[i].u.stream /\ StreamOf[m] = log[i].u.stream
    BY <1>5, EntryFields
  <2>2. log[j].u.generation = connection_generation
    BY <1>2, <1>3, <1>5, <2>1 DEF LogInv, LogOrdered
  <2>3. log[k].u.sequence < log[j].u.sequence /\ log[j].u.sequence < log[i].u.sequence
    BY <1>2, <1>5, <2>1, <2>2 DEF LogInv, LogOrdered
  <2>4. j \in EntriesUpTo(m, n)
    BY <1>5, <2>1, <2>2, <2>3 DEF EntriesUpTo, OnStream
  <2>5. log[j].u.sequence <= log[k].u.sequence
    BY <1>1, <2>4
  <2> QED
    BY <1>3, <2>1, <2>3, <2>5
<1>6. Follows(i, k)
  BY <1>2, <1>4, <1>5 DEF Follows
<1> QED
  BY <1>1, <1>2, <1>6 DEF LogInv, LogContinuous

-----------------------------------------------------------------------------
(* The venue's steps. *)

\* Publishing adds one entry at the end of the log.
LEMMA LogExtends ==
  ASSUME log \in Seq(Entry), NEW e \in Entry, log' = Append(log, e)
  PROVE  /\ log' \in Seq(Entry)
         /\ Len(log) + 1 \in Nat /\ Len(log) + 1 \notin DOMAIN log
         /\ DOMAIN log' = DOMAIN log \cup {Len(log) + 1}
         /\ log'[Len(log) + 1] = e
         /\ \A i \in DOMAIN log : i \in Nat /\ i < Len(log) + 1 /\ log'[i] = log[i]
<1>1. log' \in Seq(Entry) /\ Len(log') = Len(log) + 1 /\ Len(log) \in Nat
  OBVIOUS
<1>2. DOMAIN log = 1..Len(log) /\ DOMAIN log' = 1..(Len(log) + 1)
  BY <1>1
<1>3. DOMAIN log' = DOMAIN log \cup {Len(log) + 1}
  BY <1>1, <1>2
<1>4. \A i \in DOMAIN log : log'[i] = log[i]
  BY <1>1, <1>2
<1>5. log'[Len(log) + 1] = e
  OBVIOUS
<1> QED
  BY <1>1, <1>2, <1>3, <1>4, <1>5

\* The venue publishes the book of one market, in which it has made the
\* change it publishes.
Publishes(kind, u, content) ==
  /\ Publish(kind, u, content)
  /\ kind \in {"snapshot", "delta"} /\ u \in Message /\ content \in [Side -> Levels]
  /\ EntrySound([kind |-> kind, u |-> u, content |-> content])
  /\ u.market \in Market
  /\ u.generation = connection_generation /\ u.sequence = last_sent[u.stream] + 1
  /\ venue' = [venue EXCEPT ![u.market] = content]
  /\ kind = "delta" => content = Changed(venue[u.market], u)
  /\ UNCHANGED marketVars

\* What is published is the last entry of its connection and stream.
LEMMA PublishKeepsOrder ==
  ASSUME LogInv, NEW kind, NEW u, NEW content, Publishes(kind, u, content)
  PROVE  ReplicaTypeOK' /\ LogSound' /\ LogOrdered'
<1> DEFINE e == [kind |-> kind, u |-> u, content |-> content]
           N == Len(log) + 1
<1>1. /\ e \in Entry /\ log' = Append(log, e) /\ e.u = u
      /\ UNCHANGED connection_generation
      /\ u.stream = StreamOf[u.market] /\ u.market \in Market
      /\ u.generation = connection_generation
      /\ u.sequence = last_sent[u.stream] + 1
      /\ last_sent' = [last_sent EXCEPT ![u.stream] = u.sequence]
  BY DEF Publishes, Publish, Entry, EntrySound, marketVars
<1> HIDE DEF e
<1>2. /\ log' \in Seq(Entry) /\ DOMAIN log' = DOMAIN log \cup {N} /\ log'[N] = e
      /\ N \in Nat /\ N \notin DOMAIN log
      /\ \A i \in DOMAIN log : i \in Nat /\ i < N /\ log'[i] = log[i]
  BY <1>1, LogExtends DEF LogInv, ReplicaTypeOK
<1> HIDE DEF N
<1>3. u.stream \in Stream /\ last_sent \in [Stream -> Nat] /\ last_sent[u.stream] \in Nat
  BY <1>1, VenueConstants DEF LogInv, ReplicaTypeOK
<1>4. ReplicaTypeOK'
  <2>1. venue' \in [Market -> [Side -> Levels]]
    BY DEF Publishes, LogInv, ReplicaTypeOK
  <2>2. last_sent' \in [Stream -> Nat]
    BY <1>1, <1>3
  <2> QED
    BY <1>2, <2>1, <2>2 DEF ReplicaTypeOK
<1>5. LogSound'
  <2>1. EntrySound(e) /\ UNCHANGED connection_generation
    BY <1>1 DEF Publishes, e
  <2> SUFFICES ASSUME NEW i \in DOMAIN log' PROVE EntrySound(log[i])'
    BY DEF LogSound
  <2>2. CASE i = N
    BY <1>2, <2>1, <2>2 DEF EntrySound, IsSnapshot, IsDelta
  <2>3. CASE i # N
    <3>1. log'[i] = log[i] /\ EntrySound(log[i])
      BY <1>2, <2>3 DEF LogInv, LogSound
    <3> QED
      BY <2>1, <3>1 DEF EntrySound, IsSnapshot, IsDelta
  <2> QED
    BY <2>2, <2>3
<1>6. ASSUME NEW i \in DOMAIN log
      PROVE  /\ log[i].u.generation <= u.generation
             /\ log[i].u.generation = u.generation =>
                  /\ log[i].u.sequence <= last_sent[log[i].u.stream]
                  /\ log[i].u.stream = u.stream => log[i].u.sequence < u.sequence
  <2>1. log[i].u.sequence \in Nat
    BY EntryFields
  <2>2. log[i].u.generation <= connection_generation
    BY DEF LogInv, LogSound, EntrySound
  <2>3. log[i].u.generation = connection_generation =>
          log[i].u.sequence <= last_sent[log[i].u.stream]
    BY DEF LogInv, LogOrdered
  <2> QED
    BY <1>1, <1>3, <2>1, <2>2, <2>3
<1>7. LogOrdered'
  <2>1. ASSUME NEW i \in DOMAIN log', NEW j \in DOMAIN log', i < j
        PROVE  /\ log'[i].u.generation <= log'[j].u.generation
               /\ log'[i].u.generation = log'[j].u.generation /\ log'[i].u.stream = log'[j].u.stream
                    => log'[i].u.sequence < log'[j].u.sequence
    <3>1. i \in DOMAIN log
      BY <1>2, <2>1
    <3>2. CASE j = N
      BY <1>1, <1>2, <1>6, <3>1, <3>2
    <3>3. CASE j # N
      <4>1. j \in DOMAIN log /\ log'[j] = log[j] /\ log'[i] = log[i]
        BY <1>2, <3>1, <3>3
      <4> QED
        BY <2>1, <3>1, <4>1 DEF LogInv, LogOrdered
    <3> QED
      BY <3>2, <3>3
  <2>2. ASSUME NEW i \in DOMAIN log', log'[i].u.generation = connection_generation'
        PROVE  log'[i].u.sequence <= last_sent'[log'[i].u.stream]
    <3>1. CASE i = N
      BY <1>1, <1>2, <1>3, <3>1
    <3>2. CASE i # N
      <4>1. i \in DOMAIN log /\ log'[i] = log[i] /\ log[i].u.generation = u.generation
        BY <1>1, <1>2, <2>2, <3>2
      <4>2. log[i].u.stream \in Stream /\ log[i].u.sequence \in Nat
        BY <4>1, EntryFields, VenueConstants
      <4>3. /\ log[i].u.sequence <= last_sent[log[i].u.stream]
            /\ log[i].u.stream = u.stream => log[i].u.sequence < u.sequence
        BY <1>6, <4>1
      <4> QED
        BY <1>1, <1>3, <4>1, <4>2, <4>3
    <3> QED
      BY <3>1, <3>2
  <2> QED
    BY <2>1, <2>2 DEF LogOrdered
<1> QED
  BY <1>4, <1>5, <1>7

\* What is published continues the books of the log.
LEMMA PublishKeepsContinuity ==
  ASSUME LogInv, NEW kind, NEW u, NEW content, Publishes(kind, u, content)
  PROVE  LogContinuous'
<1> DEFINE e == [kind |-> kind, u |-> u, content |-> content]
           N == Len(log) + 1
<1>1. /\ e \in Entry /\ log' = Append(log, e)
      /\ e.u = u /\ e.kind = kind /\ e.content = content
      /\ u.market \in Market
      /\ venue' = [venue EXCEPT ![u.market] = content]
      /\ kind = "delta" =>
           content = Changed(venue[u.market], u)
  BY DEF Publishes, Publish, Entry
<1> HIDE DEF e
<1>2. /\ DOMAIN log' = DOMAIN log \cup {N} /\ log'[N] = e /\ N \notin DOMAIN log
      /\ N \in Nat
      /\ \A i \in DOMAIN log : i \in Nat /\ i < N /\ log'[i] = log[i]
  BY <1>1, LogExtends DEF LogInv, ReplicaTypeOK
<1> HIDE DEF N
<1>3. venue \in [Market -> [Side -> Levels]]
  BY DEF LogInv, ReplicaTypeOK
<1>4. ASSUME NEW i \in DOMAIN log', NEW j \in DOMAIN log', Follows(j, i)', log'[j].kind = "delta"
      PROVE  log'[j].content = Changed(log'[i].content, log'[j].u)
  <2>1. /\ i < j /\ log'[i].u.market = log'[j].u.market
        /\ \A k \in DOMAIN log' : i < k /\ k < j => log'[k].u.market # log'[j].u.market
    BY <1>4 DEF Follows
  <2>2. i \in DOMAIN log /\ log'[i] = log[i]
    BY <1>2, <2>1
  <2>3. CASE j = N
    <3>1. \A k \in DOMAIN log : i < k => log[k].u.market # log[i].u.market
      BY <1>1, <1>2, <2>1, <2>2, <2>3
    <3>2. log[i].content = venue[u.market]
      <4>1. log[i].u.market = u.market
        BY <1>1, <1>2, <2>1, <2>2, <2>3
      <4> QED
        BY <2>2, <3>1, <4>1 DEF LogInv, LogContinuous
    <3> QED
      BY <1>1, <1>2, <1>4, <2>2, <2>3, <3>2
  <2>4. CASE j # N
    <3>1. j \in DOMAIN log /\ log'[j] = log[j]
      BY <1>2, <2>4
    <3>2. \A k \in DOMAIN log : i < k /\ k < j => log[k].u.market # log[j].u.market
      BY <1>2, <2>1, <3>1
    <3>3. Follows(j, i)
      BY <2>1, <2>2, <3>1, <3>2 DEF Follows
    <3> QED
      BY <1>4, <2>2, <3>1, <3>3 DEF LogInv, LogContinuous
  <2> QED
    BY <2>3, <2>4
<1>5. ASSUME NEW i \in DOMAIN log',
             \A k \in DOMAIN log' : i < k => log'[k].u.market # log'[i].u.market
      PROVE  log'[i].content = venue'[log'[i].u.market]
  <2>1. CASE i = N
    BY <1>1, <1>2, <1>3, <2>1
  <2>2. CASE i # N
    <3>1. i \in DOMAIN log /\ log'[i] = log[i] /\ i < N
      BY <1>2, <2>2
    <3>2. u.market # log[i].u.market /\ log[i].u.market \in Market
      BY <1>1, <1>2, <1>5, <3>1, EntryFields
    <3>3. \A k \in DOMAIN log : i < k => log[k].u.market # log[i].u.market
      BY <1>2, <1>5, <3>1
    <3>4. log[i].content = venue[log[i].u.market]
      BY <3>1, <3>3 DEF LogInv, LogContinuous
    <3> QED
      BY <1>1, <1>3, <3>1, <3>2, <3>4
  <2> QED
    BY <2>1, <2>2
<1> QED
  BY <1>4, <1>5 DEF LogContinuous

\* A valid book stays the venue's book as of where it is: what is published is
\* beyond it.
LEMMA PublishKeepsFollowed ==
  ASSUME ReplicaInv, NEW kind, NEW u, NEW content, Publishes(kind, u, content),
         NEW m \in Market, books[m].state = "valid"
  PROVE  Followed(m)'
<1> DEFINE e == [kind |-> kind, u |-> u, content |-> content]
           N == Len(log) + 1
<1>1. /\ e \in Entry /\ log' = Append(log, e) /\ e.u = u
      /\ UNCHANGED <<connection_generation, books, stream_sequences>>
      /\ u.stream = StreamOf[u.market] /\ u.market \in Market
      /\ u.sequence = last_sent[u.stream] + 1
      /\ last_sent' = [last_sent EXCEPT ![u.stream] = u.sequence]
  BY DEF Publishes, Publish, Entry, EntrySound, marketVars
<1> HIDE DEF e
<1>2. /\ DOMAIN log' = DOMAIN log \cup {N} /\ log'[N] = e /\ N \notin DOMAIN log
      /\ \A i \in DOMAIN log : log'[i] = log[i]
  BY <1>1, LogExtends DEF ReplicaInv, LogInv, ReplicaTypeOK
<1> HIDE DEF N
<1>3. /\ last_sent \in [Stream -> Nat] /\ u.stream \in Stream /\ StreamOf[m] \in Stream
      /\ last_sent[u.stream] \in Nat /\ last_sent[StreamOf[m]] \in Nat
  BY <1>1, VenueConstants DEF ReplicaInv, LogInv, ReplicaTypeOK
<1>4. /\ books[m].stream_id = StreamOf[m] /\ FollowedTo(m) <= last_sent[StreamOf[m]]
      /\ IsBookAsOf(m, FollowedTo(m), books[m].levels)
  BY DEF ReplicaInv, Followed
<1>5. FollowedTo(m)' = FollowedTo(m) /\ FollowedTo(m) \in Nat
  BY <1>1, <1>4, FollowedToNat DEF ReplicaInv, FollowedTo
<1>6. EntriesUpTo(m, FollowedTo(m))' = EntriesUpTo(m, FollowedTo(m))
  <2>1. ~(u.stream = StreamOf[m] /\ u.sequence <= FollowedTo(m))
    BY <1>1, <1>3, <1>4, <1>5
  <2>2. EntriesUpTo(m, FollowedTo(m))' =
          {i \in DOMAIN log' : /\ log'[i].u.generation = connection_generation
                               /\ log'[i].u.stream = StreamOf[m]
                               /\ log'[i].u.market = m
                               /\ log'[i].u.sequence <= FollowedTo(m)}
    BY <1>1, <1>5 DEF EntriesUpTo, OnStream
  <2>3. EntriesUpTo(m, FollowedTo(m)) =
          {i \in DOMAIN log : /\ log[i].u.generation = connection_generation
                              /\ log[i].u.stream = StreamOf[m]
                              /\ log[i].u.market = m
                              /\ log[i].u.sequence <= FollowedTo(m)}
    BY DEF EntriesUpTo, OnStream
  <2> QED
    BY <1>1, <1>2, <2>1, <2>2, <2>3
<1>7. IsBookAsOf(m, FollowedTo(m), books[m].levels)'
  <2>1. EntriesUpTo(m, FollowedTo(m)) \subseteq DOMAIN log
    BY DEF EntriesUpTo, OnStream
  <2> QED
    BY <1>1, <1>2, <1>4, <1>6, <2>1 DEF IsBookAsOf
<1>8. FollowedTo(m)' <= last_sent'[StreamOf[m]]
  BY <1>1, <1>3, <1>4, <1>5
<1> QED
  BY <1>1, <1>4, <1>7, <1>8 DEF Followed

\* Publishing keeps the invariant.
LEMMA PublishKeepsInv ==
  ASSUME ReplicaInv, NEW kind, NEW u, NEW content, Publishes(kind, u, content)
  PROVE  ReplicaInv'
<1>1. LogInv' 
  BY PublishKeepsOrder, PublishKeepsContinuity DEF ReplicaInv, LogInv
<1>2. UNCHANGED marketVars
  BY DEF Publishes
<1>3. MarketInv'
  BY <1>2 DEF ReplicaInv, marketVars, MarketInv, MarketTypeOK, ValidOnlyWhileConnected,
              BookBehindStream, ValidHasSequence, ConnectedHasGeneration
<1>4. ASSUME NEW m \in Market, books'[m].state = "valid"
      PROVE  Followed(m)'
  <2>1. books[m].state = "valid"
    BY <1>2, <1>4 DEF marketVars
  <2> QED
    BY <2>1, PublishKeepsFollowed
<1> QED
  BY <1>1, <1>3, <1>4 DEF ReplicaInv

\* A snapshot is published with the market's book.
LEMMA VenueSnapshotPublishes ==
  ASSUME ReplicaInv, NEW m \in Market, VenueSnapshot(m)
  PROVE  ReplicaInv'
<1>1. PICK bids \in LevelLists, asks \in LevelLists :
        /\ LoadedLevels(bids) = venue[m]["bid"]
        /\ LoadedLevels(asks) = venue[m]["ask"]
        /\ Publish("snapshot",
                   [generation |-> connection_generation, market |-> m,
                    stream |-> StreamOf[m], sequence |-> last_sent[StreamOf[m]] + 1,
                    bids |-> bids, asks |-> asks],
                   venue[m])
  BY DEF VenueSnapshot
<1> DEFINE u == [generation |-> connection_generation, market |-> m,
                 stream |-> StreamOf[m], sequence |-> last_sent[StreamOf[m]] + 1,
                 bids |-> bids, asks |-> asks]
<1>2. /\ bids \in Seq(Level) /\ asks \in Seq(Level)
      /\ StreamOf[m] \in Stream /\ last_sent[StreamOf[m]] + 1 \in Nat
      /\ connection_generation \in Nat
      /\ venue \in [Market -> [Side -> Levels]]
  BY MarketConstants, VenueConstants
     DEF ReplicaInv, MarketInv, MarketTypeOK, LogInv, ReplicaTypeOK
<1>3. u \in Message /\ IsSnapshot(u)
  BY <1>2 DEF Message, IsSnapshot
<1>4. venue[m] = [s \in Side |-> LoadedLevels(IF s = "bid" THEN u.bids ELSE u.asks)]
  <2>1. venue[m] = [s \in Side |-> venue[m][s]]
    BY <1>2
  <2>2. \A s \in Side : venue[m][s] = LoadedLevels(IF s = "bid" THEN u.bids ELSE u.asks)
    BY <1>1 DEF Side
  <2> QED
    BY <2>1, <2>2
<1>5. venue' = [venue EXCEPT ![m] = venue[m]] /\ UNCHANGED marketVars
  BY <1>2 DEF VenueSnapshot
<1>6. /\ u.generation = connection_generation /\ u.market = m
      /\ u.stream = StreamOf[m] /\ u.sequence = last_sent[u.stream] + 1
  OBVIOUS
<1>7. Publish("snapshot", u, venue[m])
  BY <1>1
<1> HIDE DEF u
<1>8. EntrySound([kind |-> "snapshot", u |-> u, content |-> venue[m]])
  BY <1>2, <1>3, <1>4, <1>6 DEF EntrySound
<1>9. Publishes("snapshot", u, venue[m])
  BY <1>2, <1>3, <1>5, <1>6, <1>7, <1>8 DEF Publishes
<1> QED
  BY <1>9, PublishKeepsInv

\* A delta is published with the change the venue made.
LEMMA VenueDeltaPublishes ==
  ASSUME ReplicaInv, NEW m \in Market, NEW side \in Side, NEW price \in Price,
         NEW change \in Change, VenueDelta(m, side, price, change)
  PROVE  ReplicaInv'
<1> DEFINE u == [generation |-> connection_generation, market |-> m,
                 stream |-> StreamOf[m], sequence |-> last_sent[StreamOf[m]] + 1,
                 side |-> side, price |-> price, change |-> change]
           content == [venue[m] EXCEPT ![side][price] = @ + change]
<1>1. /\ StreamOf[m] \in Stream /\ last_sent[StreamOf[m]] + 1 \in Nat /\ change \in Int
      /\ connection_generation \in Nat
      /\ venue \in [Market -> [Side -> Levels]]
  BY MarketConstants, VenueConstants
     DEF ReplicaInv, MarketInv, MarketTypeOK, LogInv, ReplicaTypeOK
<1>2. u \in Message /\ IsDelta(u)
  BY <1>1 DEF Message, IsDelta
<1>3. content \in [Side -> Levels]
  <2>1. venue[m][side][price] + change \in Quantity
    BY DEF VenueDelta
  <2>2. venue[m] \in [Side -> [Price -> Quantity]]
    BY <1>1 DEF Levels
  <2>3. content \in [Side -> [Price -> Quantity]]
    BY <2>1, <2>2
  <2> QED
    BY <2>3 DEF Levels
<1>4. venue' = [venue EXCEPT ![m] = content] /\ venue'[m] = content
  BY <1>1 DEF VenueDelta
<1>5. Publish("delta", u, content) /\ UNCHANGED marketVars
  BY <1>4 DEF VenueDelta, Changed
<1>6. /\ u.generation = connection_generation /\ u.market = m
      /\ u.stream = StreamOf[m] /\ u.sequence = last_sent[u.stream] + 1
      /\ content = Changed(venue[u.market], u)
  BY DEF Changed
<1> HIDE DEF u, content
<1>7. EntrySound([kind |-> "delta", u |-> u, content |-> content])
  BY <1>1, <1>2, <1>6 DEF EntrySound
<1>8. Publishes("delta", u, content)
  BY <1>2, <1>3, <1>4, <1>5, <1>6, <1>7 DEF Publishes
<1> QED
  BY <1>8, PublishKeepsInv

-----------------------------------------------------------------------------
(* The client's steps. *)

\* A step of the client leaves the log alone.
LEMMA ClientKeepsLog ==
  ASSUME LogInv, UNCHANGED <<connection_generation, venue, last_sent, log>>
  PROVE  LogInv'
<1>1. ReplicaTypeOK'
  BY DEF LogInv, ReplicaTypeOK
<1>2. LogSound'
  BY DEF LogInv, LogSound, EntrySound
<1>3. LogOrdered'
  BY DEF LogInv, LogOrdered
<1>4. LogContinuous'
  BY DEF LogInv, LogContinuous, Follows
<1> QED
  BY <1>1, <1>2, <1>3, <1>4 DEF LogInv

\* When the log and the connection are what they were, so is the venue's book
\* as of a sequence number.
LEMMA SameLogSameBook ==
  ASSUME UNCHANGED <<connection_generation, log>>, NEW m, NEW n, NEW levels,
         IsBookAsOf(m, n, levels), FollowedTo(m)' = n, books'[m].levels = levels
  PROVE  IsBookAsOf(m, FollowedTo(m), books[m].levels)'
BY DEF IsBookAsOf, EntriesUpTo, OnStream

\* A book that stays through a delivery is still the venue's.
LEMMA StaysFollowed ==
  ASSUME ReplicaInv, NEW i \in DOMAIN log, log[i].u.generation = connection_generation,
         UNCHANGED <<connection_generation, venue, last_sent, log>>,
         NEW m \in Market, Stays(m, log[i].u)
  PROVE  Followed(m)'
<1>1. /\ books[m].state = "valid" /\ books'[m] = books[m]
      /\ books[m].stream_id = StreamOf[m] /\ FollowedTo(m) <= last_sent[StreamOf[m]]
      /\ IsBookAsOf(m, FollowedTo(m), books[m].levels)
  BY DEF ReplicaInv, Followed, Stays
<1>2. CASE FollowedTo(m)' = FollowedTo(m)
  BY <1>1, <1>2, SameLogSameBook DEF Followed
<1>3. CASE /\ m # log[i].u.market /\ StreamOf[m] = log[i].u.stream
           /\ log[i].u.sequence = FollowedTo(m) + 1
           /\ FollowedTo(m)' = log[i].u.sequence
  <2>1. FollowedTo(m) \in Nat
    BY <1>1, FollowedToNat DEF ReplicaInv
  <2>2. IsBookAsOf(m, FollowedTo(m) + 1, books[m].levels)
    BY <1>1, <1>3, <2>1, OtherMarketsMessage DEF ReplicaInv
  <2>3. log[i].u.sequence <= last_sent[log[i].u.stream]
    BY DEF ReplicaInv, LogInv, LogOrdered
  <2>4. FollowedTo(m)' = FollowedTo(m) + 1 /\ books'[m].levels = books[m].levels
    BY <1>1, <1>3
  <2>5. IsBookAsOf(m, FollowedTo(m), books[m].levels)'
    BY <2>2, <2>4, SameLogSameBook
  <2> QED
    BY <1>1, <1>3, <2>3, <2>5 DEF Followed
<1> QED
  BY <1>2, <1>3 DEF Stays

\* A book that takes the content of the delivered entry is the venue's.
LEMMA TakesFollowed ==
  ASSUME ReplicaInv, NEW i \in DOMAIN log, log[i].u.generation = connection_generation,
         UNCHANGED <<connection_generation, venue, last_sent, log>>,
         NEW m \in Market, Takes(m, log[i].u), books'[m].levels = log[i].content
  PROVE  Followed(m)'
<1>1. /\ m = log[i].u.market /\ books'[m].stream_id = log[i].u.stream
      /\ FollowedTo(m)' = log[i].u.sequence
  BY DEF Takes
<1>2. log[i].u.stream = StreamOf[m] /\ log[i].u.sequence <= last_sent[log[i].u.stream]
  BY <1>1, EntryFields DEF ReplicaInv, LogInv, LogOrdered
<1>3. IsBookAsOf(m, log[i].u.sequence, log[i].content)
  BY <1>1, EntryIsBook DEF ReplicaInv
<1>4. IsBookAsOf(m, FollowedTo(m), books[m].levels)'
  BY <1>1, <1>3, SameLogSameBook
<1> QED
  BY <1>1, <1>2, <1>4 DEF Followed

\* Delivering a snapshot keeps the invariant, whenever it was published and
\* however often it has been delivered.
LEMMA DeliverSnapshotKeepsInv ==
  ASSUME ReplicaInv, NEW i \in DOMAIN log, DeliverSnapshot(i)
  PROVE  ReplicaInv'
<1> DEFINE u == log[i].u
<1>1. /\ log[i].kind = "snapshot" /\ ApplySnapshot(u)
      /\ UNCHANGED <<venue, last_sent, log>>
  BY DEF DeliverSnapshot
<1>2. /\ u.generation = connection_generation
      /\ UNCHANGED connection_generation
  BY <1>1 DEF ApplySnapshot, Accepts, Finish
<1>3. /\ IsSnapshot(u) /\ u.stream = StreamOf[u.market]
      /\ log[i].content = [s \in Side |-> LoadedLevels(IF s = "bid" THEN u.bids ELSE u.asks)]
  BY <1>1 DEF ReplicaInv, LogInv, LogSound, EntrySound
<1>4. \A n \in Market : books[n].state = "valid" => books[n].stream_id = StreamOf[n]
  BY DEF ReplicaInv, Followed
<1>5. MarketInv'
  BY <1>1, <1>3, SnapshotKeepsInv DEF ReplicaInv
<1>6. LogInv'
  BY <1>1, <1>2, ClientKeepsLog DEF ReplicaInv
<1>7. ASSUME NEW m \in Market, books'[m].state = "valid"
      PROVE  Followed(m)'
  <2>1. \/ Stays(m, u)
        \/ Takes(m, u) /\ books'[m].levels = log[i].content
    <3> HIDE DEF u
    <3> QED
      BY <1>1, <1>3, <1>4, <1>7, SnapshotFollows DEF ReplicaInv
  <2> QED
    BY <1>1, <1>2, <2>1, StaysFollowed, TakesFollowed
<1> QED
  BY <1>5, <1>6, <1>7 DEF ReplicaInv

\* Delivering a delta keeps the invariant.
LEMMA DeliverDeltaKeepsInv ==
  ASSUME ReplicaInv, NEW i \in DOMAIN log, DeliverDelta(i)
  PROVE  ReplicaInv'
<1> DEFINE u == log[i].u
<1>1. /\ log[i].kind = "delta" /\ ApplyDelta(u)
      /\ UNCHANGED <<venue, last_sent, log>>
  BY DEF DeliverDelta
<1>2. /\ u.generation = connection_generation
      /\ UNCHANGED connection_generation
  BY <1>1 DEF ApplyDelta, Accepts, Finish
<1>3. IsDelta(u) /\ u.stream = StreamOf[u.market]
  BY <1>1 DEF ReplicaInv, LogInv, LogSound, EntrySound
<1>4. \A n \in Market : books[n].state = "valid" =>
        books[n].stream_id = StreamOf[n] /\ IsBookAsOf(n, FollowedTo(n), books[n].levels)
  BY DEF ReplicaInv, Followed
<1>5. MarketInv'
  BY <1>1, <1>3, DeltaKeepsInv DEF ReplicaInv
<1>6. LogInv'
  BY <1>1, <1>2, ClientKeepsLog DEF ReplicaInv
<1>7. ASSUME NEW m \in Market, books'[m].state = "valid"
      PROVE  Followed(m)'
  <2>1. \/ Stays(m, u)
        \/ /\ Takes(m, u)
           /\ books[m].state = "valid"
           /\ u.sequence = FollowedTo(m) + 1
           /\ books'[m].levels = Changed(books[m].levels, u)
    <3> HIDE DEF u
    <3> QED
      BY <1>1, <1>3, <1>4, <1>7, DeltaFollows DEF ReplicaInv
  <2>2. CASE Stays(m, u)
    BY <1>1, <1>2, <2>2, StaysFollowed
  <2>3. CASE /\ Takes(m, u)
             /\ books[m].state = "valid"
             /\ u.sequence = FollowedTo(m) + 1
             /\ books'[m].levels = Changed(books[m].levels, u)
    <3>1. m = u.market /\ FollowedTo(m) \in Nat
      BY <1>4, <2>3, FollowedToNat DEF ReplicaInv, Takes
    <3>2. IsBookAsOf(log[i].u.market, FollowedTo(m), books[m].levels)
      BY <1>4, <2>3, <3>1
    <3>3. log[i].content = Changed(books[m].levels, u)
      BY <1>1, <1>2, <2>3, <3>1, <3>2, NextDeltaIsNextBook DEF ReplicaInv
    <3> QED
      BY <1>1, <1>2, <2>3, <3>3, TakesFollowed
  <2> QED
    BY <2>1, <2>2, <2>3
<1> QED
  BY <1>5, <1>6, <1>7 DEF ReplicaInv

\* After invalidate_all no book is valid.
LEMMA NoneValidAfterInvalidation ==
  ASSUME MarketInv, books' = Invalidated(books), NEW m \in Market
  PROVE  books'[m].state # "valid"
<1>1. books' = [n \in Market |-> IF n \in known THEN MarkStale(books[n]) ELSE books[n]]
  BY DEF Invalidated
<1>2. /\ \A n \in known : books'[n].state = "stale"
      /\ \A n \in Market \ known : books'[n] = books[n]
  BY <1>1, InvalidatedEffect DEF MarketInv, MarketTypeOK
<1> QED
  BY <1>2 DEF MarketInv, ValidOnlyWhileConnected

\* A new connection starts new streams: nothing in the log is of it.
LEMMA OpenKeepsReplica ==
  ASSUME ReplicaInv, NEW g \in Generation, ClientOpen(g)
  PROVE  ReplicaInv'
<1>1. /\ OpenConnection(g) /\ last_sent' = [s \in Stream |-> 0] /\ UNCHANGED <<venue, log>>
      /\ connection_generation' = g /\ g > connection_generation
      /\ g \in Nat /\ connection_generation \in Nat
  BY MarketConstants
     DEF ClientOpen, OpenConnection, OpensConnection, ReplicaInv, MarketInv, MarketTypeOK
<1>2. MarketInv'
  BY <1>1, OpenKeepsInv DEF ReplicaInv
<1>3. ASSUME NEW m \in Market PROVE books'[m].state # "valid"
  <2>1. CASE connection_generation = 0
    BY <1>1, <2>1
       DEF OpenConnection, ReplicaInv, MarketInv, ConnectedHasGeneration, ValidOnlyWhileConnected
  <2>2. CASE connection_generation # 0
    <3>1. books' = Invalidated(books)
      BY <1>1, <2>2 DEF OpenConnection
    <3> QED
      BY <3>1, NoneValidAfterInvalidation DEF ReplicaInv
  <2> QED
    BY <2>1, <2>2
<1>4. ASSUME NEW i \in DOMAIN log
      PROVE  /\ log[i].u.generation \in Nat
             /\ log[i].u.generation < connection_generation'
  <2>1. log[i].u.generation \in Nat
    BY EntryFields DEF ReplicaInv
  <2>2. log[i].u.generation <= connection_generation
    BY DEF ReplicaInv, LogInv, LogSound, EntrySound
  <2> QED
    BY <1>1, <2>1, <2>2
<1>5. LogInv'
  <2>1. ReplicaTypeOK'
    BY <1>1 DEF ReplicaInv, LogInv, ReplicaTypeOK
  <2>2. LogSound'
    <3> SUFFICES ASSUME NEW i \in DOMAIN log PROVE EntrySound(log[i])'
      BY <1>1 DEF LogSound
    <3>1. EntrySound(log[i])
      BY DEF ReplicaInv, LogInv, LogSound
    <3>2. log[i].u.generation <= connection_generation'
      BY <1>1, <1>4
    <3> QED
      BY <1>1, <3>1, <3>2 DEF EntrySound
  <2>3. LogOrdered'
    <3>1. \A i \in DOMAIN log' : log'[i].u.generation # connection_generation'
      BY <1>1, <1>4
    <3>2. \A i, j \in DOMAIN log' : i < j =>
            /\ log'[i].u.generation <= log'[j].u.generation
            /\ log'[i].u.generation = log'[j].u.generation /\ log'[i].u.stream = log'[j].u.stream
                 => log'[i].u.sequence < log'[j].u.sequence
      BY <1>1 DEF ReplicaInv, LogInv, LogOrdered
    <3> QED
      BY <3>1, <3>2 DEF LogOrdered
  <2>4. LogContinuous'
    BY <1>1 DEF ReplicaInv, LogInv, LogContinuous, Follows
  <2> QED
    BY <2>1, <2>2, <2>3, <2>4 DEF LogInv
<1> QED
  BY <1>2, <1>3, <1>5 DEF ReplicaInv

\* Closing leaves no valid book.
LEMMA CloseKeepsReplica ==
  ASSUME ReplicaInv, NEW g \in Generation, ClientClose(g)
  PROVE  ReplicaInv'
<1>1. /\ CloseConnection(g) /\ UNCHANGED <<connection_generation, venue, last_sent, log>>
      /\ books' = Invalidated(books)
  BY DEF ClientClose, CloseConnection
<1>2. MarketInv'
  BY <1>1, CloseKeepsInv DEF ReplicaInv
<1>3. LogInv'
  BY <1>1, ClientKeepsLog DEF ReplicaInv
<1>4. \A m \in Market : books'[m].state # "valid"
  BY <1>1, NoneValidAfterInvalidation DEF ReplicaInv
<1> QED
  BY <1>2, <1>3, <1>4 DEF ReplicaInv

\* Starting the recovery of a book leaves the valid ones where they were.
LEMMA RecoverKeepsReplica ==
  ASSUME ReplicaInv, NEW m \in Market, ClientRecover(m)
  PROVE  ReplicaInv'
<1>1. /\ BeginRecovery(m)
      /\ UNCHANGED <<connection_generation, stream_sequences, venue, last_sent, log>>
      /\ books' = [books EXCEPT ![m] = Recovering(books[m])]
      /\ books \in [Market -> Book]
  BY DEF ClientRecover, BeginRecovery, ReplicaInv, MarketInv, MarketTypeOK
<1>2. MarketInv'
  BY <1>1, RecoveryKeepsInv DEF ReplicaInv
<1>3. LogInv'
  BY <1>1, ClientKeepsLog DEF ReplicaInv
<1>4. Recovering(books[m]).state = "recovering"
  BY <1>1 DEF Recovering, Book
<1>5. ASSUME NEW n \in Market, books'[n].state = "valid"
      PROVE  Followed(n)'
  <2>1. books'[n] = books[n]
    BY <1>1, <1>4, <1>5
  <2>2. Followed(n)
    BY <1>5, <2>1 DEF ReplicaInv
  <2>3. FollowedTo(n)' = FollowedTo(n)
    BY <1>1, <2>1 DEF FollowedTo
  <2>4. IsBookAsOf(n, FollowedTo(n), books[n].levels)'
    BY <1>1, <2>1, <2>2, <2>3, SameLogSameBook DEF Followed
  <2> QED
    BY <1>1, <2>1, <2>2, <2>3, <2>4 DEF Followed
<1> QED
  BY <1>2, <1>3, <1>5 DEF ReplicaInv

-----------------------------------------------------------------------------
(* The theorem. *)

\* Every step of the venue, of the path and of the client keeps the invariant
\* (MarketState with an external venue).
THEOREM ReplicaInvariant == ReplicaSpec => []ReplicaInv
<1>1. ReplicaInit => ReplicaInv
  <2> SUFFICES ASSUME ReplicaInit PROVE ReplicaInv
    OBVIOUS
  <2>1. EmptyBook \in Book /\ EmptyBook.state = "empty" /\ NoLevels \in Levels
    BY BookConstants DEF EmptyBook, Book, BookState, NoLevels, Levels, Quantity
  <2>2. books \in [Market -> Book] /\ \A m \in Market : books[m].state = "empty"
    BY <2>1 DEF ReplicaInit, MarketInit
  <2>3. MarketInv
    BY InitHasMarketInv DEF ReplicaInit
  <2>4. log = <<>> /\ DOMAIN log = {} /\ log \in Seq(Entry)
    BY DEF ReplicaInit
  <2>5. LogInv
    BY <2>1, <2>4 DEF ReplicaInit, LogInv, ReplicaTypeOK, LogSound, LogOrdered, LogContinuous
  <2> QED
    BY <2>2, <2>3, <2>5 DEF ReplicaInv
<1>2. ReplicaInv /\ [ReplicaNext]_replicaVars => ReplicaInv'
  <2> SUFFICES ASSUME ReplicaInv, [ReplicaNext]_replicaVars PROVE ReplicaInv'
    OBVIOUS
  <2>1. CASE UNCHANGED replicaVars
    <3>1. UNCHANGED <<marketVars, venue, last_sent, log>>
      BY <2>1 DEF replicaVars, marketVars
    <3>2. MarketInv'
      BY <3>1 DEF ReplicaInv, marketVars, MarketInv, MarketTypeOK, ValidOnlyWhileConnected,
                  BookBehindStream, ValidHasSequence, ConnectedHasGeneration
    <3>3. LogInv'
      BY <3>1, ClientKeepsLog DEF ReplicaInv, marketVars
    <3>4. ASSUME NEW n \in Market, books'[n].state = "valid"
          PROVE  Followed(n)'
      <4>1. Followed(n) /\ books' = books /\ FollowedTo(n)' = FollowedTo(n)
        BY <3>1, <3>4 DEF ReplicaInv, marketVars, FollowedTo
      <4>2. IsBookAsOf(n, FollowedTo(n), books[n].levels)'
        BY <3>1, <4>1, SameLogSameBook DEF Followed, marketVars
      <4> QED
        BY <3>1, <4>1, <4>2 DEF Followed
    <3> QED
      BY <3>2, <3>3, <3>4 DEF ReplicaInv
  <2>2. ASSUME NEW m \in Market, VenueSnapshot(m) PROVE ReplicaInv'
    BY <2>2, VenueSnapshotPublishes
  <2>3. ASSUME NEW m \in Market, NEW s \in Side, NEW p \in Price, NEW c \in Change,
               VenueDelta(m, s, p, c)
        PROVE  ReplicaInv'
    BY <2>3, VenueDeltaPublishes
  <2>4. ASSUME NEW g \in Generation, ClientOpen(g) PROVE ReplicaInv'
    BY <2>4, OpenKeepsReplica
  <2>5. ASSUME NEW g \in Generation, ClientClose(g) PROVE ReplicaInv'
    BY <2>5, CloseKeepsReplica
  <2>6. ASSUME NEW m \in Market, ClientRecover(m) PROVE ReplicaInv'
    BY <2>6, RecoverKeepsReplica
  <2>7. ASSUME NEW i \in DOMAIN log, DeliverSnapshot(i) PROVE ReplicaInv'
    BY <2>7, DeliverSnapshotKeepsInv
  <2>8. ASSUME NEW i \in DOMAIN log, DeliverDelta(i) PROVE ReplicaInv'
    BY <2>8, DeliverDeltaKeepsInv
  <2> QED
    BY <2>1, <2>2, <2>3, <2>4, <2>5, <2>6, <2>7, <2>8 DEF ReplicaNext
<1> QED
  BY <1>1, <1>2, PTL DEF ReplicaSpec

\* A valid book is the venue's book as of the last sequence number the client
\* followed, whatever the path loses, repeats, reorders or delays and whatever
\* the caller does (MarketState::apply, open_connection, close_connection,
\* begin_recovery).
THEOREM ValidBooksAreVenueBooks == ReplicaSpec => []ValidBookIsVenueBook
<1>1. ReplicaInv => ValidBookIsVenueBook
  BY DEF ReplicaInv, MarketInv, MarketTypeOK, Followed, ValidBookIsVenueBook, ValidBooks
<1> QED
  BY <1>1, ReplicaInvariant, PTL

-----------------------------------------------------------------------------
(* ReadOnlyFeed.  Its flags and its count of valid books. *)

\* A subscription is for a market of the selection, or for all of them.
SubscriptionsSelected ==
  /\ sent \in 0..CommandCount
  /\ subscriptions \in [Stream -> Selected \cup {None, AnyMarket}]
  /\ ~Shared => \A s \in Stream : subscriptions[s] \in Selected \cup {None}

\* The inductive invariant: the books are MarketState's, of selected markets
\* only, and the feed's generation is never behind the connection's.
FeedInv ==
  /\ MarketInv
  /\ ConnectedIffHealthy
  /\ feed_generation \in Generation \cup {0} /\ connection_generation <= feed_generation
  /\ opened \in BOOLEAN /\ faulted \in BOOLEAN /\ attempting \in BOOLEAN
  /\ SubscriptionsSelected
  /\ known \subseteq Selected

\* The selection names each of its markets once.
LEMMA SelectionIsFinite ==
  /\ IsFiniteSet(Selected) /\ Cardinality(Selected) = Len(Selection)
  /\ Selected \subseteq Market
<1>1. /\ Selection \in Seq(Market) /\ Len(Selection) \in Nat
      /\ DOMAIN Selection = 1..Len(Selection)
      /\ \A i, j \in DOMAIN Selection : Selection[i] = Selection[j] => i = j
  BY FeedConstants
<1>2. IsFiniteSet(1..Len(Selection)) /\ Cardinality(1..Len(Selection)) = Len(Selection)
  BY <1>1, FS_Interval
<1>3. Selected \subseteq Market
  BY <1>1 DEF Selected
<1>4. Selection \in Bijection(1..Len(Selection), Selected)
  <2>1. Selection \in [1..Len(Selection) -> Selected]
    BY <1>1 DEF Selected
  <2>2. \A m \in Selected : \E i \in 1..Len(Selection) : Selection[i] = m
    BY <1>1 DEF Selected
  <2> QED
    BY <1>1, <2>1, <2>2 DEF Bijection, Injection, Surjection, IsInjective
<1>5. ExistsBijection(1..Len(Selection), Selected)
  BY <1>4 DEF ExistsBijection
<1> QED
  BY <1>2, <1>3, <1>5, FS_Bijection

\* A book message is for a selected market.
LEMMA BelongsIsSelected ==
  ASSUME FeedInv, NEW u, u.stream \in Stream, Belongs(u)
  PROVE  u.market \in Selected
BY DEF FeedInv, SubscriptionsSelected, Belongs

\* What abort() leaves: no connection, and no valid book.
LEMMA AbortLeaves ==
  ASSUME FeedInv, AbortMarkets
  PROVE  /\ MarketInv' /\ ~connected'
         /\ UNCHANGED <<connection_generation, known>>
<1>1. CASE Accepts(feed_generation)
  <2>1. CloseConnection(feed_generation)
    BY <1>1 DEF AbortMarkets
  <2>2. feed_generation \in Generation
    BY <1>1 DEF FeedInv, Accepts, MarketInv, ConnectedHasGeneration
  <2> QED
    BY <2>1, <2>2, CloseKeepsInv DEF FeedInv, CloseConnection
<1>2. CASE ~Accepts(feed_generation)
  <2>1. UNCHANGED marketVars
    BY <1>2 DEF AbortMarkets
  <2>2. ~connected
    BY <1>2 DEF FeedInv, ConnectedIffHealthy, Accepts
  <2> QED
    BY <2>1, <2>2 DEF FeedInv, marketVars, MarketInv, MarketTypeOK, ValidOnlyWhileConnected,
                      BookBehindStream, ValidHasSequence, ConnectedHasGeneration
<1> QED
  BY <1>1, <1>2

\* Every return that calls fail().
LEMMA FailsKeepsInv ==
  ASSUME FeedInv, NEW reported, Fails(reported)
  PROVE  FeedInv' /\ ~Healthy'
<1>1. /\ MarketInv' /\ ~connected' /\ UNCHANGED <<connection_generation, known>>
  BY AbortLeaves DEF Fails
<1> QED
  BY <1>1 DEF Fails, FeedInv, ConnectedIffHealthy, Healthy, SubscriptionsSelected

\* A record that leaves the books and their subscriptions as they are.
LEMMA QuietKeepsInv ==
  ASSUME FeedInv, UNCHANGED marketVars,
         UNCHANGED <<feed_generation, attempting, opened, faulted, sent, subscriptions>>
  PROVE  FeedInv' /\ ValidBooks' = ValidBooks
<1>1. MarketInv'
  BY DEF FeedInv, marketVars, MarketInv, MarketTypeOK, ValidOnlyWhileConnected,
         BookBehindStream, ValidHasSequence, ConnectedHasGeneration
<1> QED
  BY <1>1 DEF FeedInv, marketVars, ConnectedIffHealthy, Healthy, SubscriptionsSelected,
              ValidBooks

\* The attempt of a new connection: the old one is closed by then.
LEMMA AttemptKeepsInv ==
  ASSUME FeedInv, NEW t, NEW g \in Generation, Attempt(t, g)
  PROVE  FeedInv' /\ ~Healthy'
<1>1. CASE attempting \/ g <= feed_generation
  <2>1. Fails("invalid_history")
    BY <1>1 DEF Attempt
  <2> QED
    BY <2>1, FailsKeepsInv
<1>2. CASE ~(attempting \/ g <= feed_generation)
  <2>1. /\ feed_generation' = g /\ attempting' = TRUE /\ opened' = FALSE /\ faulted' = FALSE
        /\ sent' = 0 /\ subscriptions' = [s \in Stream |-> None]
        /\ UNCHANGED marketVars
    BY <1>2 DEF Attempt
  <2>2. /\ feed_generation \in Nat /\ g \in Nat /\ g > feed_generation
        /\ connection_generation \in Nat
    BY <1>2, MarketConstants DEF FeedInv, MarketInv, MarketTypeOK
  <2>3. ~connected
    BY <1>2 DEF FeedInv, ConnectedIffHealthy
  <2>4. MarketInv'
    BY <2>1 DEF FeedInv, marketVars, MarketInv, MarketTypeOK, ValidOnlyWhileConnected,
                BookBehindStream, ValidHasSequence, ConnectedHasGeneration
  <2>5. CommandCount \in Nat
    BY FeedConstants DEF CommandCount
  <2>6. SubscriptionsSelected'
    BY <2>1, <2>5 DEF SubscriptionsSelected
  <2>7. /\ connection_generation' = connection_generation /\ connected' = connected
        /\ known' = known
    BY <2>1 DEF marketVars
  <2>8. connection_generation' <= feed_generation'
    <3>1. connection_generation <= feed_generation
      BY DEF FeedInv
    <3> QED
      BY <2>1, <2>2, <2>7, <3>1
  <2>9. ConnectedIffHealthy' /\ ~Healthy'
    BY <2>1, <2>3, <2>7 DEF ConnectedIffHealthy, Healthy
  <2> QED
    BY <2>1, <2>4, <2>6, <2>7, <2>8, <2>9 DEF FeedInv
<1> QED
  BY <1>1, <1>2

\* A terminal close leaves no connection.
LEMMA FeedCloseKeepsInv ==
  ASSUME FeedInv, NEW t, Close(t)
  PROVE  FeedInv' /\ ~Healthy'
<1>1. /\ MarketInv' /\ ~connected' /\ UNCHANGED <<connection_generation, known>>
  BY AbortLeaves DEF Close
<1>2. /\ attempting' = FALSE /\ opened' = FALSE
      /\ UNCHANGED <<feed_generation, faulted, sent, subscriptions>>
  BY DEF Close
<1>3. SubscriptionsSelected'
  BY <1>2 DEF FeedInv, SubscriptionsSelected
<1> QED
  BY <1>1, <1>2, <1>3 DEF FeedInv, ConnectedIffHealthy, Healthy

\* open() makes the feed and the market state healthy together.
LEMMA FeedOpenKeepsInv ==
  ASSUME FeedInv, NEW t, Open(t)
  PROVE  FeedInv' /\ ~(Healthy /\ Healthy')
<1>1. CASE opened \/ faulted \/ ~OpensConnection(feed_generation)
  BY <1>1, FailsKeepsInv DEF Open
<1>2. CASE ~(opened \/ faulted \/ ~OpensConnection(feed_generation))
  <2>1. /\ OpenConnection(feed_generation) /\ attempting
        /\ opened' = TRUE
        /\ UNCHANGED <<feed_generation, attempting, faulted, sent, subscriptions>>
    BY <1>2 DEF Open
  <2>2. feed_generation \in Generation /\ feed_generation \in Nat
    BY <1>2, MarketConstants DEF FeedInv, MarketInv, MarketTypeOK, OpensConnection
  <2>3. MarketInv'
    BY <2>1, <2>2, OpenKeepsInv DEF FeedInv
  <2> QED
    BY <1>2, <2>1, <2>2, <2>3 DEF FeedInv, OpenConnection, ConnectedIffHealthy, Healthy,
                                  SubscriptionsSelected
<1> QED
  BY <1>1, <1>2

\* A command asks for snapshots of stale books only, so no valid one is lost.
LEMMA SendKeepsInv ==
  ASSUME FeedInv, NEW t, NEW command \in 1..2, Send(t, command)
  PROVE  FeedInv' /\ (Healthy' => ValidBooks \subseteq ValidBooks')
<1> DEFINE bad == \/ command # sent + 1 \/ sent >= CommandCount
                  \/ \E m \in Recovers : m \in known /\ ~RecoversBook(m)
<1>1. CASE bad
  BY <1>1, FailsKeepsInv DEF Send
<1>2. CASE ~bad
  <2>1. /\ books' = [m \in Market |-> IF m \in Recovers \cap known
                                      THEN Recovering(books[m]) ELSE books[m]]
        /\ sent' = sent + 1
        /\ UNCHANGED <<connection_generation, connected, known, stream_sequences,
                       feed_generation, attempting, opened, faulted, subscriptions>>
        /\ ~(sent >= CommandCount)
        /\ \A m \in Recovers \cap known : books[m].state = "stale"
    BY <1>2 DEF Send, RecoversBook, CanRecover
  <2> HIDE DEF bad
  <2>2. CommandCount \in Nat
    BY FeedConstants DEF CommandCount
  <2>3. sent' \in 0..CommandCount
    BY <2>1, <2>2 DEF FeedInv, SubscriptionsSelected
  <2>4. /\ books \in [Market -> Book] /\ known \subseteq Market
        /\ \A m \in Market : Recovering(books[m]) \in Book
        /\ \A m \in Market : Recovering(books[m]).state = "recovering"
    BY DEF FeedInv, MarketInv, MarketTypeOK, Recovering, Book, BookState
  <2>5. /\ books' \in [Market -> Book]
        /\ \A m \in Market : books'[m] = books[m] \/
             (books'[m].state = "recovering" /\ books[m].state = "stale")
    BY <2>1, <2>4
  <2>6. MarketInv'
    BY <2>1, <2>5 DEF FeedInv, MarketInv, MarketTypeOK, ValidOnlyWhileConnected,
                      BookBehindStream, ValidHasSequence, ConnectedHasGeneration
  <2>7. ValidBooks' = ValidBooks
    BY <2>1, <2>4, <2>5 DEF ValidBooks
  <2>8. SubscriptionsSelected'
    BY <2>1, <2>3 DEF FeedInv, SubscriptionsSelected
  <2> QED
    BY <2>1, <2>6, <2>7, <2>8 DEF FeedInv, ConnectedIffHealthy, Healthy
<1> QED
  BY <1>1, <1>2

\* A subscription is acknowledged for a command that was sent.
LEMMA SubscribedKeepsInv ==
  ASSUME FeedInv, NEW t, NEW id \in 1..2, NEW sid \in Stream, NEW channel,
         Subscribed(t, id, sid, channel)
  PROVE  FeedInv' /\ (Healthy' => ValidBooks \subseteq ValidBooks')
<1> DEFINE bad == \/ id > sent \/ id \in acknowledged
                  \/ channel # (IF IsTradeCommand(id) THEN "trade" ELSE "orderbook_delta")
                  \/ subscriptions[sid] # None
<1>1. CASE bad
  BY <1>1, FailsKeepsInv DEF Subscribed
<1>2. CASE ~bad
  <2>1. /\ subscriptions' =
             [subscriptions EXCEPT ![sid] = IF Shared THEN AnyMarket ELSE Selection[id]]
        /\ UNCHANGED <<marketVars, feed_generation, attempting, opened, faulted, sent>>
        /\ ~(id > sent)
    BY <1>2 DEF Subscribed
  <2> HIDE DEF bad
  <2>2. ~Shared => Selection[id] \in Selected
    <3>1. SUFFICES ASSUME ~Shared  PROVE id \in DOMAIN Selection
      BY DEF Selected
    <3>2. /\ CommandCount = Len(Selection) /\ Len(Selection) \in Nat
          /\ DOMAIN Selection = 1..Len(Selection)
      BY <3>1, FeedConstants DEF CommandCount
    <3> QED
      BY <2>1, <3>2 DEF FeedInv, SubscriptionsSelected
  <2>3. SubscriptionsSelected'
    BY <2>1, <2>2 DEF FeedInv, SubscriptionsSelected
  <2>4. MarketInv' /\ ValidBooks' = ValidBooks
    BY <2>1 DEF FeedInv, marketVars, MarketInv, MarketTypeOK, ValidOnlyWhileConnected,
                BookBehindStream, ValidHasSequence, ConnectedHasGeneration, ValidBooks
  <2> QED
    BY <2>1, <2>3, <2>4 DEF FeedInv, marketVars, ConnectedIffHealthy, Healthy
<1> QED
  BY <1>1, <1>2

\* A trade touches no book.
LEMMA TradeKeepsInv ==
  ASSUME FeedInv, NEW t, NEW sid, NEW n, NEW m, Trade(t, sid, n, m)
  PROVE  FeedInv' /\ (Healthy' => ValidBooks \subseteq ValidBooks')
<1>1. CASE Fails("invalidated")
  BY <1>1, FailsKeepsInv
<1>2. CASE ~Fails("invalidated")
  <2>1. UNCHANGED <<marketVars, feed_generation, attempting, opened, faulted, sent,
                    subscriptions>>
    BY <1>2 DEF Trade
  <2> QED
    BY <2>1, QuietKeepsInv
<1> QED
  BY <1>1, <1>2

\* A rejected message makes every book stale and faults the feed.
LEMMA BookRejectedKeepsInv ==
  ASSUME FeedInv, NEW ks, known \subseteq ks, ks \subseteq Selected, BookRejected(ks)
  PROVE  FeedInv' /\ ~Healthy'
<1>1. /\ known' = ks /\ connected' = FALSE /\ faulted' = TRUE
      /\ books' = [m \in Market |-> IF m \in ks THEN MarkStale(books[m]) ELSE books[m]]
      /\ UNCHANGED <<connection_generation, stream_sequences, feed_generation, attempting,
                     opened, sent, subscriptions>>
  BY DEF BookRejected
<1>2. ks \in SUBSET Market /\ books \in [Market -> Book]
  BY SelectionIsFinite DEF FeedInv, MarketInv, MarketTypeOK
<1>3. /\ books' \in [Market -> Book]
      /\ \A m \in ks : books'[m].state = "stale"
      /\ \A m \in Market \ ks : books'[m] = books[m]
  BY <1>1, <1>2, InvalidatedEffect
<1>4. \A m \in Market : books'[m].state # "valid"
  BY <1>3 DEF FeedInv, MarketInv, ValidOnlyWhileConnected
<1>5. MarketInv'
  BY <1>1, <1>2, <1>3, <1>4 DEF FeedInv, MarketInv, MarketTypeOK, ValidOnlyWhileConnected,
              BookBehindStream, ValidHasSequence, ConnectedHasGeneration
<1> QED
  BY <1>1, <1>5 DEF FeedInv, ConnectedIffHealthy, Healthy, SubscriptionsSelected

\* An applied snapshot makes its book valid and leaves the others alone.
LEMMA ReceiveSnapshotKeepsInv ==
  ASSUME FeedInv, NEW t, NEW u \in Snapshot, ReceiveSnapshot(t, u)
  PROVE  FeedInv' /\ (Healthy' => ValidBooks \subseteq ValidBooks')
<1>1. CASE Fails("invalidated")
  BY <1>1, FailsKeepsInv
<1>2. ASSUME ~Fails("invalidated")
      PROVE  /\ Belongs(u)
             /\ IF ApplySnapshotResult(u) = "applied"
                THEN ApplySnapshot(u) /\ BookApplied
                ELSE BookRejected(IF SnapshotOutOfOrder(u) THEN known
                                  ELSE known \cup {u.market})
  BY <1>2 DEF ReceiveSnapshot
<1>3. IsSnapshot(u) /\ (~Fails("invalidated") => u.market \in Selected)
  BY <1>2, SnapshotFields, BelongsIsSelected DEF IsSnapshot
<1>4. CASE ~Fails("invalidated") /\ ApplySnapshotResult(u) # "applied"
  BY <1>2, <1>3, <1>4, BookRejectedKeepsInv DEF FeedInv
<1>5. CASE ~Fails("invalidated") /\ ApplySnapshotResult(u) = "applied"
  <2> DEFINE after == AfterSnapshot(books[u.market], u.stream, u.sequence, u.bids, u.asks,
                                    "applied")
  <2>1. ApplySnapshot(u) /\ BookApplied
    BY <1>2, <1>5
  <2>2. MarketInv'
    BY <1>3, <2>1, SnapshotKeepsInv DEF FeedInv
  <2>3. ~SnapshotOutOfOrder(u)
    BY <1>5 DEF ApplySnapshotResult
  <2>4. Finish(u.stream, u.sequence, "applied", known \cup {u.market},
               [books EXCEPT ![u.market] = after])
    BY <1>5, <2>1, <2>3 DEF ApplySnapshot
  <2>5. /\ known' = known \cup {u.market}
        /\ books' = [books EXCEPT ![u.market] = after]
        /\ UNCHANGED <<connection_generation, connected>>
    BY <2>4, MarketConstants DEF Finish
  <2>6. after.state = "valid"
    BY DEF AfterSnapshot
  <2> HIDE DEF after
  <2>7. ValidBooks \subseteq ValidBooks'
    BY <1>3, <2>5, <2>6 DEF ValidBooks, FeedInv, MarketInv, MarketTypeOK, IsSnapshot
  <2> QED
    BY <1>3, <1>5, <2>1, <2>2, <2>5, <2>7
       DEF BookApplied, FeedInv, ConnectedIffHealthy, Healthy, SubscriptionsSelected
<1> QED
  BY <1>1, <1>4, <1>5

\* An applied delta leaves its book valid and the others alone.
LEMMA ReceiveDeltaKeepsInv ==
  ASSUME FeedInv, NEW t, NEW u \in Delta, ReceiveDelta(t, u)
  PROVE  FeedInv' /\ (Healthy' => ValidBooks \subseteq ValidBooks')
<1>1. CASE Fails("invalidated")
  BY <1>1, FailsKeepsInv
<1>2. ASSUME ~Fails("invalidated")
      PROVE  IF ApplyDeltaResult(u) = "applied" THEN ApplyDelta(u) /\ BookApplied
             ELSE BookRejected(known)
  BY <1>2 DEF ReceiveDelta
<1>3. IsDelta(u)
  BY DeltaFields
<1>4. CASE ~Fails("invalidated") /\ ApplyDeltaResult(u) # "applied"
  BY <1>2, <1>4, BookRejectedKeepsInv DEF FeedInv
<1>5. CASE ~Fails("invalidated") /\ ApplyDeltaResult(u) = "applied"
  <2> DEFINE after == AfterDelta(books[u.market], u.sequence, u.side, u.price, u.change,
                                 "applied")
  <2>1. ApplyDelta(u) /\ BookApplied
    BY <1>2, <1>5
  <2>2. MarketInv'
    BY <1>3, <2>1, DeltaKeepsInv DEF FeedInv
  <2>3. ~(u.market \notin known \/ DeltaOutOfOrder(u))
    BY <1>5 DEF ApplyDeltaResult
  <2>4. Finish(u.stream, u.sequence, "applied", known, [books EXCEPT ![u.market] = after])
    BY <1>5, <2>1, <2>3 DEF ApplyDelta
  <2>5. /\ known' = known
        /\ books' = [books EXCEPT ![u.market] = after]
        /\ UNCHANGED <<connection_generation, connected>>
    BY <2>4, MarketConstants DEF Finish
  <2>6. books \in [Market -> Book] /\ known \subseteq Market /\ u.market \in Market
    BY <1>3 DEF FeedInv, MarketInv, MarketTypeOK, IsDelta
  <2>7. after.state = books[u.market].state
    BY <2>6 DEF AfterDelta, Book
  <2> HIDE DEF after
  <2>8. ValidBooks \subseteq ValidBooks'
    BY <2>5, <2>6, <2>7 DEF ValidBooks
  <2> QED
    BY <1>5, <2>1, <2>2, <2>5, <2>8
       DEF BookApplied, FeedInv, ConnectedIffHealthy, Healthy, SubscriptionsSelected
<1> QED
  BY <1>1, <1>4, <1>5

\* A local failure.
LEMMA AbortKeepsInv ==
  ASSUME FeedInv, Abort
  PROVE  FeedInv' /\ ~Healthy'
<1>1. /\ MarketInv' /\ ~connected' /\ UNCHANGED <<connection_generation, known>>
  BY AbortLeaves DEF Abort
<1>2. /\ faulted' = TRUE
      /\ UNCHANGED <<feed_generation, attempting, opened, sent, subscriptions>>
  BY DEF Abort
<1>3. SubscriptionsSelected'
  BY <1>2 DEF FeedInv, SubscriptionsSelected
<1> QED
  BY <1>1, <1>2, <1>3 DEF FeedInv, ConnectedIffHealthy, Healthy

\* One record, or none, keeps the invariant and every valid book.
LEMMA StepKeepsFeedInv ==
  ASSUME FeedInv, [FeedNext]_fvars
  PROVE  FeedInv' /\ KeepsBooks
<1> SUFFICES FeedInv' /\ (Healthy /\ Healthy' => ValidBooks \subseteq ValidBooks')
  BY DEF KeepsBooks
<1>1. CASE UNCHANGED fvars
  BY <1>1, QuietKeepsInv DEF fvars, marketVars
<1>2. CASE BadEnvelope
  BY <1>2, FailsKeepsInv DEF BadEnvelope
<1>3. CASE Abort
  BY <1>3, AbortKeepsInv
<1>4. ASSUME NEW t \in Time, Clock(t) \/ InputAfterFailure(t) \/ Ping(t)
      PROVE  FeedInv' /\ ValidBooks' = ValidBooks
  BY <1>4, QuietKeepsInv DEF Clock, InputAfterFailure, Ping, Passes
<1>5. ASSUME NEW t \in Time, Close(t)
      PROVE  FeedInv' /\ ~Healthy'
  BY <1>5, FeedCloseKeepsInv
<1>6. ASSUME NEW t \in Time, Open(t)
      PROVE  FeedInv' /\ ~(Healthy /\ Healthy')
  BY <1>6, FeedOpenKeepsInv
<1>7. ASSUME NEW t \in Time, Rejected(t)
      PROVE  FeedInv' /\ ~Healthy'
  BY <1>7, FailsKeepsInv DEF Rejected
<1>8. ASSUME NEW t \in Time, NEW g \in Generation, Attempt(t, g) \/ WrongGeneration(t, g)
      PROVE  FeedInv' /\ ~Healthy'
  BY <1>8, FailsKeepsInv, AttemptKeepsInv DEF WrongGeneration
<1>9. ASSUME NEW t \in Time, NEW k \in 1..2, Send(t, k)
      PROVE  FeedInv' /\ (Healthy' => ValidBooks \subseteq ValidBooks')
  BY <1>9, SendKeepsInv
<1>10. ASSUME NEW t \in Time, NEW id \in 1..2, NEW sid \in Stream,
              NEW ch \in {"trade", "orderbook_delta"}, Subscribed(t, id, sid, ch)
       PROVE  FeedInv' /\ (Healthy' => ValidBooks \subseteq ValidBooks')
  BY <1>10, SubscribedKeepsInv
<1>11. ASSUME NEW t \in Time, NEW sid \in Stream, NEW n \in TradeSequence,
              NEW m \in Market, Trade(t, sid, n, m)
       PROVE  FeedInv' /\ (Healthy' => ValidBooks \subseteq ValidBooks')
  BY <1>11, TradeKeepsInv
<1>12. ASSUME NEW t \in Time, NEW u \in Carried(Snapshot), ReceiveSnapshot(t, u)
       PROVE  FeedInv' /\ (Healthy' => ValidBooks \subseteq ValidBooks')
  BY <1>12, ReceiveSnapshotKeepsInv DEF Carried
<1>13. ASSUME NEW t \in Time, NEW u \in Carried(Delta), ReceiveDelta(t, u)
       PROVE  FeedInv' /\ (Healthy' => ValidBooks \subseteq ValidBooks')
  BY <1>13, ReceiveDeltaKeepsInv DEF Carried
<1> QED
  BY <1>1, <1>2, <1>3, <1>4, <1>5, <1>6, <1>7, <1>8, <1>9, <1>10, <1>11, <1>12, <1>13
     DEF FeedNext

\* Only a trade moves the trade sequence or is reported as one, and only a new
\* connection resets the sequence.
LEMMA StepKeepsTrades ==
  ASSUME FeedInv, [FeedNext]_fvars
  PROVE  TradesConsecutive
<1> DEFINE quiet == UNCHANGED trade_sequence /\ ~ReportsTrade
<1>1. CASE quiet
  BY <1>1 DEF TradesConsecutive
<1> HIDE DEF quiet
<1>2. ASSUME NEW reported \in {"control", "invalid_history", "invalidated"},
             Fails(reported) \/ Passes(reported)
      PROVE  quiet
  BY <1>2 DEF Fails, Passes, ReportsTrade, quiet
<1>3. ASSUME NEW t \in Time, NEW g \in Generation, Attempt(t, g)
      PROVE  TradesConsecutive
  <2>1. g \in Nat /\ feed_generation \in Nat
    BY MarketConstants DEF FeedInv
  <2>2. CASE attempting \/ g <= feed_generation
    BY <1>1, <1>2, <1>3, <2>2 DEF Attempt
  <2>3. CASE ~(attempting \/ g <= feed_generation)
    BY <1>3, <2>1, <2>3 DEF Attempt, TradesConsecutive, ReportsTrade
  <2> QED
    BY <2>2, <2>3
<1>4. ASSUME NEW t \in Time, NEW sid \in Stream, NEW n \in TradeSequence,
             NEW m \in Market, Trade(t, sid, n, m)
      PROVE  TradesConsecutive
  <2>1. CASE Fails("invalidated")
    BY <1>1, <1>2, <2>1
  <2>2. CASE /\ trade_sequence # 0 => n = trade_sequence + 1
             /\ trade_sequence' = n
    BY <2>2 DEF TradesConsecutive
  <2> QED
    BY <1>4, <2>1, <2>2 DEF Trade
<1>5. ASSUME BadEnvelope \/ Abort \/ UNCHANGED fvars
      PROVE  quiet
  BY <1>2, <1>5 DEF BadEnvelope, Abort, fvars, ReportsTrade, quiet
<1>6. ASSUME NEW t \in Time, \/ Clock(t) \/ Close(t) \/ Open(t) \/ InputAfterFailure(t)
                             \/ Ping(t) \/ Rejected(t)
      PROVE  quiet
  BY <1>2, <1>6 DEF Clock, Close, Open, InputAfterFailure, Ping, Rejected, ReportsTrade, quiet
<1>7. ASSUME NEW t \in Time, NEW g \in Generation, WrongGeneration(t, g)
      PROVE  quiet
  BY <1>2, <1>7 DEF WrongGeneration
<1>8. ASSUME NEW t \in Time, NEW k \in 1..2, Send(t, k)
      PROVE  quiet
  BY <1>2, <1>8 DEF Send, ReportsTrade, quiet
<1>9. ASSUME NEW t \in Time, NEW id \in 1..2, NEW sid \in Stream, NEW ch,
             Subscribed(t, id, sid, ch)
      PROVE  quiet
  BY <1>2, <1>9 DEF Subscribed, ReportsTrade, quiet
<1>10. ASSUME NEW t \in Time, NEW u, ReceiveSnapshot(t, u) \/ ReceiveDelta(t, u)
       PROVE  quiet
  BY <1>2, <1>10 DEF ReceiveSnapshot, ReceiveDelta, BookApplied, BookRejected, ReportsTrade, quiet
<1> QED
  BY <1>1, <1>3, <1>4, <1>5, <1>6, <1>7, <1>8, <1>9, <1>10 DEF FeedNext

\* Both invariants hold of every history the feed accepts or rejects
\* (readonly_feed.cpp, accept and abort).
THEOREM FeedInvariant == FeedSpec => []FeedInv
<1>1. FeedInit => FeedInv
  <2> SUFFICES ASSUME FeedInit PROVE FeedInv
    OBVIOUS
  <2>1. MarketInv
    BY InitHasMarketInv DEF FeedInit
  <2>2. CommandCount \in Nat
    BY FeedConstants DEF CommandCount
  <2>3. SubscriptionsSelected
    BY <2>2 DEF FeedInit, SubscriptionsSelected
  <2>4. connection_generation = 0 /\ known = {} /\ ConnectedIffHealthy
    BY DEF FeedInit, MarketInit, ConnectedIffHealthy, Healthy
  <2>5. feed_generation = 0 /\ opened = FALSE /\ faulted = FALSE /\ attempting = FALSE
    BY DEF FeedInit
  <2> QED
    <3>1. feed_generation \in Generation \cup {0} /\ connection_generation <= feed_generation
      BY <2>4, <2>5
    <3>2. known \subseteq Selected
      BY <2>4
    <3> QED
      BY <2>1, <2>3, <2>4, <2>5, <3>1, <3>2 DEF FeedInv
<1>2. FeedInv /\ [FeedNext]_fvars => FeedInv'
  BY StepKeepsFeedInv
<1> QED
  BY <1>1, <1>2, PTL DEF FeedSpec

\* ready() (readonly_feed.cpp) compares the number of valid books with the
\* number of selected markets.  The books there are are of selected markets, so
\* the count can only be reached by all of them; and connected() never
\* disagrees with the feed's own flags.
THEOREM FeedReportsAreTrue == FeedSpec => []ReportsAreTrue
<1>1. ASSUME FeedInv PROVE ReportsAreTrue
  <2>1. ValidBooks \subseteq Selected
    BY <1>1 DEF FeedInv, ValidBooks
  <2>2. Cardinality(ValidBooks) = Len(Selection) => ValidBooks = Selected
    BY <2>1, SelectionIsFinite, FS_Subset
  <2> QED
    BY <1>1, <2>2 DEF FeedInv, ReportsAreTrue, ReadyMeansEveryBook, Ready
<1> QED
  BY <1>1, FeedInvariant, PTL

\* While the feed stays healthy no record costs a book its validity, and the
\* public trades it reports are consecutive: every rejected input faults the
\* generation (readonly_feed.cpp, fail and the returns that call it).
THEOREM FeedLosesNothing == FeedSpec => HealthyLosesNothing
<1>1. FeedInv /\ [FeedNext]_fvars => [KeepsBooks /\ TradesConsecutive]_fvars
  BY StepKeepsFeedInv, StepKeepsTrades
<1> QED
  BY <1>1, FeedInvariant, PTL DEF FeedSpec, HealthyLosesNothing

==============================================================================
