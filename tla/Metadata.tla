------------------------------- MODULE Metadata -------------------------------
(***************************************************************************)
(* Loading a metadata snapshot (src/gateway/kalshi/metadata_snapshot.cpp)  *)
(* into the market registry (market_registry.cpp) and the constraint       *)
(* registry (Constraints), entry by entry.                                 *)
(*                                                                         *)
(* A document is two sequences of entries; JSON, the limits on its size    *)
(* and the shape of its objects are left out, and an id or a text that a   *)
(* field check refuses is 0 or the empty text.  The canonical dump, of the *)
(* same entries sorted by id, is left out.                                 *)
(***************************************************************************)
EXTENDS Constraints

CONSTANTS
  Ticker,    \* tickers, NoTicker included
  NoTicker,  \* the empty ticker
  Documents  \* [markets, constraints]: the documents that are loaded

MarketEntry == [id : Market, ticker : Ticker]

ASSUME MetadataConstants ==
  /\ NoTicker \in Ticker
  /\ \A doc \in Documents :
        doc.markets \in Seq(MarketEntry) /\ doc.constraints \in Seq(Definition)

VARIABLES
  tickers,    \* tickers_: by market id
  market_ids, \* market_ids_: by ticker
  document,   \* the parsed document
  phase,      \* the loop that is running, or the outcome
  index,      \* entries of the loop that are done
  error       \* why the document was rejected

markets == <<tickers, market_ids>>
vars == <<registry, markets, document, phase, index, error>>

Init ==
  /\ RegistryInit
  /\ tickers = <<>> /\ market_ids = <<>>
  /\ document \in Documents
  /\ phase = "markets" /\ index = 0 /\ error = "none"

-----------------------------------------------------------------------------
(* MarketRegistry::register_market. *)

\* Mutant of RegisterResult: only the ticker is looked up.
RegisterResultByTicker(id, ticker) ==
  CASE id = 0                       -> "invalid_market_id"
    [] ticker = NoTicker            -> "invalid_ticker"
    [] ticker \in DOMAIN market_ids -> IF market_ids[ticker] = id
                                       THEN "already_registered" ELSE "ticker_conflict"
    [] OTHER                        -> "registered"

RegisterResult(id, ticker) ==
  CASE id = 0                       -> "invalid_market_id"
    [] ticker = NoTicker            -> "invalid_ticker"
    [] ticker \in DOMAIN market_ids -> IF market_ids[ticker] = id
                                       THEN "already_registered" ELSE "ticker_conflict"
    [] id \in DOMAIN tickers        -> "market_id_conflict"
    [] OTHER                        -> "registered"

-----------------------------------------------------------------------------
(* parse_metadata_snapshot. *)

Reject(why) ==
  /\ phase' = "rejected" /\ error' = why
  /\ UNCHANGED <<registry, markets, document, index>>

\* Entries the running loop goes through.
Entries == IF phase = "markets" THEN document.markets ELSE document.constraints
Entry == Entries[index + 1]
More(loop) == phase = loop /\ index < Len(Entries)

\* An empty list of markets is rejected before the loop.
MarketsMissing ==
  /\ phase = "markets" /\ document.markets = <<>>
  /\ Reject("invalid_value")

LoadMarket ==
  /\ More("markets")
  /\ IF Entry.id = 0 \/ Entry.ticker = NoTicker THEN Reject("invalid_value")
     ELSE IF RegisterResult(Entry.id, Entry.ticker) # "registered" THEN Reject("duplicate_market")
     ELSE /\ tickers' = With(tickers, Entry.id, Entry.ticker)
          /\ market_ids' = With(market_ids, Entry.ticker, Entry.id)
          /\ index' = index + 1
          /\ UNCHANGED <<registry, document, phase, error>>

Seen == {document.constraints[i] : i \in 1..index}

Duplicate(d) == \E e \in Seen : e.id = d.id \/ e.key = d.key

Known(market) == market \in DOMAIN tickers

\* The first check that a constraint entry fails, in the order of the code.
ConstraintError(d) ==
  CASE d.id = 0 \/ d.version = 0 \/ d.key = NoKey  -> "invalid_value"
    [] Duplicate(d)                                -> "duplicate_constraint"
    [] d.first = 0 \/ d.second = 0                 -> "invalid_value"
    [] d.first = d.second                          -> "invalid_value"
    [] ~Known(d.first) \/ ~Known(d.second)         -> "unknown_market"
    [] OTHER                                       -> "none"

CheckConstraint ==
  /\ More("constraints")
  /\ IF ConstraintError(Entry) # "none" THEN Reject(ConstraintError(Entry))
     ELSE index' = index + 1 /\ UNCHANGED <<registry, markets, document, phase, error>>

Sorted(entries) == SortSeq(entries, LAMBDA d, e : d.id < e.id)

NextLoop ==
  /\ phase \in {"markets", "constraints"} /\ index = Len(Entries)
  /\ document.markets # <<>>
  /\ index' = 0
  /\ IF phase = "markets"
     THEN phase' = "constraints" /\ UNCHANGED document
     ELSE phase' = "add" /\ document' = [document EXCEPT !.constraints = Sorted(@)]
  /\ UNCHANGED <<registry, markets, error>>

\* A refusal of add() is reported as invalid_value; here it has a name of its own.
AddConstraint ==
  /\ More("add")
  /\ IF AddResult(Entry) = "registered"
     THEN Register(Entry) /\ index' = index + 1
          /\ UNCHANGED <<markets, document, phase, error>>
     ELSE Reject("add_refused")

Loaded ==
  /\ phase = "add" /\ index = Len(Entries)
  /\ phase' = "loaded"
  /\ UNCHANGED <<registry, markets, document, index, error>>

Terminated == phase \in {"rejected", "loaded"} /\ UNCHANGED vars

Next ==
  \/ MarketsMissing \/ LoadMarket \/ CheckConstraint \/ NextLoop \/ AddConstraint
  \/ Loaded \/ Terminated

Spec == Init /\ [][Next]_vars

-----------------------------------------------------------------------------
(* Properties. *)

\* Is the whole document what it should be?  Nothing here has an order.
Valid ==
  LET ms == document.markets
      cs == document.constraints
      OneToOne(s, F(_)) == \A i, j \in DOMAIN s : F(s[i]) = F(s[j]) => i = j
  IN  /\ ms # <<>>
      /\ \A i \in DOMAIN ms : ms[i].id # 0 /\ ms[i].ticker # NoTicker
      /\ OneToOne(ms, LAMBDA m : m.id) /\ OneToOne(ms, LAMBDA m : m.ticker)
      /\ \A i \in DOMAIN cs :
            Compiles(cs[i]) /\ {cs[i].first, cs[i].second} \subseteq {m.id : m \in Range(ms)}
      /\ OneToOne(cs, LAMBDA c : c.id) /\ OneToOne(cs, LAMBDA c : c.key)

\* Entries are checked one by one against what came before; whatever their
\* order, the document is loaded exactly when it is valid as a whole, and the
\* registries then hold exactly its entries.
LoadsExactlyValid ==
  /\ phase = "loaded" =>
       /\ Valid
       /\ tickers = [i \in {m.id : m \in Range(document.markets)} |->
                       (CHOOSE m \in Range(document.markets) : m.id = i).ticker]
       /\ \A t \in DOMAIN market_ids : tickers[market_ids[t]] = t
       /\ Cardinality(DOMAIN market_ids) = Cardinality(DOMAIN tickers)
       /\ Registered = Range(document.constraints)
  /\ phase = "rejected" => ~Valid

\* The snapshot does not depend on the order of the entries: dependencies, and
\* with them the order in which candidates are evaluated, are by id.
DependenciesInOrder ==
  \A m \in Market : \A i, j \in DOMAIN dependencies[m] :
    i < j => dependencies[m][i] < dependencies[m][j]

\* The loop that registers has no way back: what add() would refuse has been
\* rejected before, with the reason that names the entry.
AddNeverRefuses == error # "add_refused"
==============================================================================
