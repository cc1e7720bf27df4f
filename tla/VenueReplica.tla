---------------------------- MODULE VenueReplica -----------------------------
(***************************************************************************)
(* MarketState against a venue (external) and an unreliable path between   *)
(* them.  The venue publishes snapshots and deltas of its own books on     *)
(* numbered streams; any published message may reach the client late,      *)
(* twice, out of order, after a reconnect, or never.  The client is any    *)
(* caller of MarketState: it opens and closes connections and starts       *)
(* recoveries whenever the interface lets it.                              *)
(*                                                                         *)
(* In the per_book scope each market has a stream of its own               *)
(* (per_market_v1 subscribes market by market); in the shared scope all    *)
(* markets are on one stream.  Stream ids are reused by every connection.  *)
(***************************************************************************)
EXTENDS MarketState

CONSTANTS
  StreamOf,   \* the stream that carries a market's updates
  MaxLog      \* bound: messages the venue publishes

ASSUME VenueConstants ==
  /\ StreamOf \in [Market -> Stream]
  /\ MaxLog \in Nat
  /\ Scope = "shared_stream" => \A m, n \in Market : StreamOf[m] = StreamOf[n]
  /\ Scope = "per_book" => \A m, n \in Market : StreamOf[m] = StreamOf[n] => m = n

VARIABLES
  venue,      \* the venue's books: market -> side -> levels
  last_sent,  \* the last sequence number used on each stream of the connection
  log         \* everything published: the message and the market's book after it

replicaVars == <<connection_generation, connected, known, books,
                 stream_sequences, venue, last_sent, log>>

ReplicaInit ==
  /\ MarketInit
  /\ venue = [m \in Market |-> [s \in Side |-> NoLevels]]
  /\ last_sent = [s \in Stream |-> 0]
  /\ log = <<>>

-----------------------------------------------------------------------------
(* The venue. *)

\* Entries of one stream of one connection.
OnStream(generation, stream) ==
  {i \in DOMAIN log : log[i].u.generation = generation /\ log[i].u.stream = stream}

\* Every message takes the next sequence number of its stream.
Publish(kind, u, content) ==
  /\ log' = Append(log, [kind |-> kind, u |-> u, content |-> content])
  /\ last_sent' = [last_sent EXCEPT ![u.stream] = u.sequence]

CanPublish == Len(log) < MaxLog /\ connection_generation > 0

\* The venue answers a subscription: the market's book, as level lists in any
\* order.
VenueSnapshot(m) ==
  /\ CanPublish
  /\ \E bids, asks \in LevelLists :
       /\ LoadsLevels(bids) /\ LoadedLevels(bids) = venue[m]["bid"]
       /\ LoadsLevels(asks) /\ LoadedLevels(asks) = venue[m]["ask"]
       /\ Publish("snapshot",
                  [generation |-> connection_generation, market |-> m,
                   stream |-> StreamOf[m], sequence |-> last_sent[StreamOf[m]] + 1,
                   bids |-> bids, asks |-> asks],
                  venue[m])
  /\ UNCHANGED <<venue, marketVars>>

\* The venue's own book changes and the change is published.
VenueDelta(m, side, price, change) ==
  /\ CanPublish
  /\ venue[m][side][price] + change \in Quantity
  /\ venue' = [venue EXCEPT ![m][side][price] = @ + change]
  /\ Publish("delta",
             [generation |-> connection_generation, market |-> m,
              stream |-> StreamOf[m], sequence |-> last_sent[StreamOf[m]] + 1,
              side |-> side, price |-> price, change |-> change],
             venue'[m])
  /\ UNCHANGED marketVars

-----------------------------------------------------------------------------
(* The client. *)

DeliverSnapshot(i) ==
  /\ log[i].kind = "snapshot"
  /\ ApplySnapshot(log[i].u)
  /\ UNCHANGED <<venue, last_sent, log>>

DeliverDelta(i) ==
  /\ log[i].kind = "delta"
  /\ ApplyDelta(log[i].u)
  /\ UNCHANGED <<venue, last_sent, log>>

\* A new connection restarts the venue's numbering.
ClientOpen(g) ==
  /\ OpenConnection(g)
  /\ last_sent' = [s \in Stream |-> 0]
  /\ UNCHANGED <<venue, log>>

ClientClose(g) == CloseConnection(g) /\ UNCHANGED <<venue, last_sent, log>>

ClientRecover(m) == BeginRecovery(m) /\ UNCHANGED <<venue, last_sent, log>>

ReplicaNext ==
  \/ \E m \in Market : VenueSnapshot(m)
  \/ \E m \in Market, s \in Side, p \in Price, c \in Change : VenueDelta(m, s, p, c)
  \/ \E g \in Generation : ClientOpen(g) \/ ClientClose(g)
  \/ \E m \in Market : ClientRecover(m)
  \/ \E i \in DOMAIN log : DeliverSnapshot(i) \/ DeliverDelta(i)

ReplicaSpec == ReplicaInit /\ [][ReplicaNext]_replicaVars

-----------------------------------------------------------------------------
(* Properties. *)

\* The entries of market m on its stream of the current connection, up to
\* sequence number n.
EntriesUpTo(m, n) ==
  {i \in OnStream(connection_generation, StreamOf[m]) :
     log[i].u.market = m /\ log[i].u.sequence <= n}

IsBookAsOf(m, n, levels) ==
  \E i \in EntriesUpTo(m, n) :
    /\ \A j \in EntriesUpTo(m, n) : log[j].u.sequence <= log[i].u.sequence
    /\ levels = log[i].content

\* How far the client has followed m's stream: in the shared scope the
\* sequence of the whole stream, otherwise the book's own.
FollowedTo(m) ==
  IF Scope = "shared_stream" THEN stream_sequences[StreamOf[m]]
  ELSE books[m].last_sequence

\* A valid book is the venue's book as of the last sequence number the client
\* followed on this connection, whatever the path did to the messages: no
\* update is missed, applied twice or taken from another connection
\* (invariants 2, 3 and 5 of ARCHITECTURE.md; accepts, accepts_sequence and
\* apply_delta_after).
ValidBookIsVenueBook ==
  \A m \in ValidBooks : IsBookAsOf(m, FollowedTo(m), books[m].levels)
==============================================================================
