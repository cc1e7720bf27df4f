----------------------------- MODULE CaptureRun ------------------------------
(***************************************************************************)
(* The event loop of a capture (src/transport/readonly_capture.cpp,        *)
(* Runner): connection attempts, retries, timers, control frames and local *)
(* failures, the records they leave in the journal, and what run() reports *)
(* in the end.  One action is one callback of the io_context; WriterFails  *)
(* and OutputFails are the two writer threads failing at any moment.       *)
(*                                                                         *)
(* The feed is kept to the flags that decide whether a record is accepted  *)
(* (module ReadOnlyFeed has all of it).  The journal is kept as what a     *)
(* replay of it has reached: replay() feeds the records to a new feed in   *)
(* order, so the state it reaches after one more record depends only on    *)
(* the state it had reached and that record.                               *)
(***************************************************************************)
EXTENDS Integers

CONSTANTS
  MaximumConnections,  \* config.maximum_connections
  Commands,            \* feed_.commands().size()
  Observed             \* whether a simulation or a basket observation runs

ASSUME RunConstants ==
  /\ MaximumConnections \in Nat \ {0}
  /\ Commands \in Nat \ {0}
  /\ Observed \in BOOLEAN

VARIABLES
  rec,           \* what record() works on, see Recorder
  generation,    \* generation_
  connection,    \* connection_: "none", "connecting" or "opened"
  next_command,  \* connection->next_command
  sending,       \* an async_write is outstanding
  connect_due,   \* connect() is the next thing to do, or retry_ is armed
  stop_posted,   \* the control callback has posted a stop
  done,          \* done_
  output_ok,     \* decision_output_->healthy()
  published,     \* manifest.json is in place
  result         \* what run() returned

control == <<connection, next_command, sending, connect_due, stop_posted>>
vars == <<rec, generation, connection, next_command, sending, connect_due,
          stop_posted, done, output_ok, published, result>>

\* A message received is one the feed can apply or one it cannot ("garbage").
Kind == {"attempt", "open", "send", "ping", "message", "garbage", "clock", "close"}

\* `command` is the index of the command sent.
Record == [kind : Kind, generation : Nat, command : Nat]

Feed == [generation : Nat, attempting : BOOLEAN, opened : BOOLEAN,
         faulted : BOOLEAN, sent : Nat]

\* feed_, the journal as replayed so far, the writer's status and the two
\* failure flags, and whether decision_timer_ is armed.
Recorder == [feed : Feed, replayed : Feed, replays : BOOLEAN, writer_ok : BOOLEAN,
             storage_failed : BOOLEAN, analysis_failed : BOOLEAN, armed : BOOLEAN]

\* CaptureResult.finalized is true for these.
Finalized == {"analysis_failure", "replay_mismatch", "complete"}
Result == {"running", "incomplete"} \cup Finalized

NewFeed == [generation |-> 0, attempting |-> FALSE, opened |-> FALSE,
            faulted |-> FALSE, sent |-> 0]

-----------------------------------------------------------------------------
(* The feed. *)

Aborted(f) == [f EXCEPT !.faulted = TRUE]

\* The FeedEvent accept() returns.
Event(f, r) ==
  LET ofAttempt == f.attempting /\ r.generation = f.generation
      healthy == f.opened /\ ~f.faulted
  IN CASE r.kind = "clock" /\ r.generation = f.generation /\ f.generation # 0 -> "control"
       [] r.kind = "attempt" /\ ~f.attempting /\ r.generation > f.generation -> "control"
       [] r.kind = "close" /\ ofAttempt -> "control"
       [] r.kind = "open" /\ ofAttempt ->
            IF f.opened \/ f.faulted THEN "invalidated" ELSE "control"
       [] r.kind = "send" /\ ofAttempt /\ healthy ->
            IF r.command = f.sent /\ f.sent < Commands THEN "control" ELSE "invalidated"
       [] r.kind = "ping" /\ ofAttempt /\ healthy -> "control"
       [] r.kind = "message" /\ ofAttempt /\ healthy -> "market"
       [] r.kind = "garbage" /\ ofAttempt /\ healthy -> "invalidated"
       [] OTHER -> "invalid_history"

\* The feed afterwards.  Input after a failure is refused without a fault of
\* its own: the feed is faulted already, or was never opened.
Accepted(f, r) ==
  CASE Event(f, r) = "invalidated" -> Aborted(f)
    [] Event(f, r) = "invalid_history" ->
         IF r.kind \in {"send", "ping", "message", "garbage"} /\ f.attempting /\ r.generation = f.generation
         THEN f ELSE Aborted(f)
    [] Event(f, r) \in {"control", "market"} ->
         CASE r.kind = "attempt" ->
                [NewFeed EXCEPT !.generation = r.generation, !.attempting = TRUE]
           [] r.kind = "close" -> [f EXCEPT !.attempting = FALSE, !.opened = FALSE]
           [] r.kind = "open" -> [f EXCEPT !.opened = TRUE]
           [] r.kind = "send" -> [f EXCEPT !.sent = @ + 1]
           [] OTHER -> f

\* replay() of the journal ends without an error.
Replays == rec.replays /\ ~rec.replayed.attempting

-----------------------------------------------------------------------------
(* record(): the recorders it can leave behind, and whether it returns true. *)

\* The record is appended: a replay will see it too.
Written(s, r) ==
  [s EXCEPT !.feed = Accepted(@, r),
            !.replayed = Accepted(@, r),
            !.replays = @ /\ Event(s.replayed, r) # "invalid_history"]

\* Mutant of Outcomes: a full queue is only reported, not remembered.
OutcomesIgnoreStorage(s, r) ==
  LET accepts == Event(s.feed, r) \notin {"invalidated", "invalid_history"}
  IN  {[to |-> Written(s, r), ok |-> accepts] : k \in {k \in {1} : s.writer_ok}}
      \cup {[to |-> [s EXCEPT !.feed = Aborted(Accepted(@, r))], ok |-> FALSE]}

\* Either the record is queued, and the observer may arm or disarm its timer;
\* or the writer refuses it; or, before the feed has seen it, or after it has
\* been written, the observer throws.
Outcomes(s, r) ==
  LET accepts == Event(s.feed, r) \notin {"invalidated", "invalid_history"}
      observing == Observed /\ ~s.analysis_failed
      queued == {[to |-> [Written(s, r) EXCEPT !.armed = a], ok |-> accepts] :
                   a \in IF observing THEN BOOLEAN ELSE {s.armed}}
      refused == {[to |-> [s EXCEPT !.feed = Aborted(Accepted(@, r)),
                                    !.writer_ok = FALSE, !.storage_failed = TRUE],
                   ok |-> FALSE]}
      before == {[to |-> [s EXCEPT !.feed = Aborted(@), !.analysis_failed = TRUE], ok |-> FALSE]}
      after == {[to |-> [Written(s, r) EXCEPT !.feed = Aborted(@), !.analysis_failed = TRUE],
                 ok |-> FALSE]}
  IN  refused \cup (IF s.writer_ok THEN queued ELSE {})
              \cup (IF observing THEN before ELSE {})
              \cup (IF observing /\ s.writer_ok THEN after ELSE {})

Recorded(s, kind, g, n) == Outcomes(s, [kind |-> kind, generation |-> g, command |-> n])

-----------------------------------------------------------------------------
(* stop() and failed(), on the recorder `s` their handler has got to. *)

\* Mutant of ClosedBy: the history is left without its close record.
ClosedByAbort(s, g) == {s}

\* The close record both of them write, whatever record() returns.
ClosedBy(s, g) ==
  IF s.feed.attempting /\ ~s.storage_failed
  THEN {o.to : o \in Recorded(s, "close", g, 0)}
  ELSE {s}

Release ==
  /\ connection' = "none"
  /\ next_command' = 0
  /\ sending' = FALSE

Stop(s, g) ==
  /\ \E c \in ClosedBy(s, g) :
       rec' = [c EXCEPT !.feed = Aborted(@), !.armed = FALSE]
  /\ Release
  /\ connect_due' = FALSE
  /\ stop_posted' = FALSE
  /\ done' = TRUE

MayRetry(s) ==
  ~s.storage_failed /\ ~s.analysis_failed /\ generation < MaximumConnections

\* Mutant of Failed: nobody arms the retry timer.
FailedWithoutRetry(s) ==
  \/ ~MayRetry(s) /\ Stop(s, generation)
  \/ /\ MayRetry(s)
     /\ rec' \in ClosedBy(s, generation)
     /\ Release
     /\ UNCHANGED <<connect_due, stop_posted, done>>

\* A close that the writer refuses stops the run; one that the observer
\* prevents does not, the health timer or the next attempt will.
Failed(s) ==
  \/ ~MayRetry(s) /\ Stop(s, generation)
  \/ /\ MayRetry(s)
     /\ \E c \in ClosedBy(s, generation) :
          \/ c.storage_failed /\ Stop(c, generation)
          \/ /\ ~c.storage_failed
             /\ rec' = c
             /\ Release
             /\ connect_due' = TRUE
             /\ UNCHANGED <<stop_posted, done>>

-----------------------------------------------------------------------------
(* The callbacks. *)

Running == ~done
KeepsGeneration == UNCHANGED <<generation, output_ok, published, result>>

Init ==
  /\ rec = [feed |-> NewFeed, replayed |-> NewFeed, replays |-> TRUE, writer_ok |-> TRUE,
            storage_failed |-> FALSE, analysis_failed |-> FALSE, armed |-> FALSE]
  /\ generation = 0
  /\ connection = "none" /\ next_command = 0 /\ sending = FALSE
  /\ connect_due = TRUE /\ stop_posted = FALSE /\ done = FALSE
  /\ output_ok = TRUE /\ published = FALSE /\ result = "running"

\* connect(), from run() or when retry_ expires; a socket without SNI is a
\* fatal failure in the same call.
Connect ==
  /\ Running /\ connect_due
  /\ generation' = generation + 1
  /\ \E o \in Recorded(rec, "attempt", generation + 1, 0) :
       \/ Stop(o.to, generation + 1)
       \/ /\ o.ok
          /\ rec' = o.to
          /\ connection' = "connecting"
          /\ connect_due' = FALSE
          /\ UNCHANGED <<next_command, sending, stop_posted, done>>
  /\ UNCHANGED <<output_ok, published, result>>

\* DNS, TCP, TLS, the WebSocket handshake or the deadline: fatal or not.
ConnectFails ==
  /\ Running /\ connection = "connecting"
  /\ Failed(rec) \/ Stop(rec, generation)
  /\ KeepsGeneration

\* send(): the next command, if there is one, recorded and handed to
\* async_write.  `n` is next_command when it is called.
SendCommand(s, n) ==
  \/ /\ n >= Commands
     /\ rec' = s /\ next_command' = n /\ sending' = FALSE
     /\ connection' = "opened"
     /\ UNCHANGED <<connect_due, stop_posted, done>>
  \/ /\ n < Commands
     /\ \E o \in Recorded(s, "send", generation, n) :
          \/ ~o.ok /\ Stop(o.to, generation)
          \/ /\ o.ok
             /\ rec' = o.to /\ next_command' = n /\ sending' = TRUE
             /\ connection' = "opened"
             /\ UNCHANGED <<connect_due, stop_posted, done>>

\* The WebSocket is up: open record, first read, first command.
Handshake ==
  /\ Running /\ connection = "connecting"
  /\ \E o \in Recorded(rec, "open", generation, 0) :
       IF o.ok THEN SendCommand(o.to, 0) ELSE Stop(o.to, generation)
  /\ KeepsGeneration

CommandWritten ==
  /\ Running /\ connection = "opened" /\ sending
  /\ Failed(rec) \/ SendCommand(rec, next_command + 1)
  /\ KeepsGeneration

\* A message, or the end of the connection, or a binary message.
Read ==
  /\ Running /\ connection = "opened"
  /\ \/ Failed(rec)
     \/ \E kind \in {"message", "garbage"} :
          \E o \in Recorded(rec, kind, generation, 0) :
            \/ ~o.ok /\ Failed(o.to)
            \/ o.ok /\ rec' = o.to /\ UNCHANGED <<control, done>>
  /\ KeepsGeneration

\* A ping or pong; the socket must survive the callback, so the stop is posted.
ControlFrame ==
  /\ Running /\ connection = "opened"
  /\ \E o \in Recorded(rec, "ping", generation, 0) :
       /\ rec' = o.to
       /\ stop_posted' = (stop_posted \/ ~o.ok)
  /\ UNCHANGED <<connection, next_command, sending, connect_due, done>>
  /\ KeepsGeneration

PostedStop ==
  /\ Running /\ stop_posted
  /\ Stop(rec, generation)
  /\ KeepsGeneration

\* decision_timer_ expires.
DecisionTimer ==
  /\ Running /\ rec.armed
  /\ \E o \in Recorded([rec EXCEPT !.armed = FALSE], "clock", generation, 0) :
       \/ ~o.ok /\ Stop(o.to, generation)
       \/ o.ok /\ rec' = o.to /\ UNCHANGED <<control, done>>
  /\ KeepsGeneration

\* health(): the writers are polled even when no frame arrives.
Health ==
  /\ Running
  /\ \/ /\ ~rec.writer_ok
        /\ Stop([rec EXCEPT !.storage_failed = TRUE], generation)
     \/ /\ rec.writer_ok
        /\ Observed /\ (~output_ok \/ rec.analysis_failed)
        /\ Stop([rec EXCEPT !.analysis_failed = TRUE], generation)
  /\ KeepsGeneration

\* health(): the connection is idle, or its snapshots are late.
Timeout ==
  /\ Running /\ connection = "opened"
  /\ rec.writer_ok /\ ~(Observed /\ (~output_ok \/ rec.analysis_failed))
  /\ Failed(rec)
  /\ KeepsGeneration

\* duration_ expires or the operator asks for it.
StopRequest ==
  /\ Running
  /\ Stop(rec, generation)
  /\ KeepsGeneration

WriterFails ==
  /\ rec.writer_ok /\ result = "running"
  /\ rec' = [rec EXCEPT !.writer_ok = FALSE]
  /\ UNCHANGED <<generation, control, done, output_ok, published, result>>

OutputFails ==
  /\ Observed /\ output_ok /\ result = "running"
  /\ output_ok' = FALSE
  /\ UNCHANGED <<rec, generation, control, done, published, result>>

-----------------------------------------------------------------------------
(* The end of run(), once the io_context has nothing left to do. *)

\* A record was refused, or the writer fails now or failed unseen, or the
\* observer's finish() throws: the writer is destroyed and publishes nothing.
PublishesNothing == rec.storage_failed \/ ~rec.writer_ok

Finish ==
  /\ done /\ result = "running"
  /\ \/ result' = "incomplete" /\ UNCHANGED published
     \/ /\ ~PublishesNothing
        /\ published' = TRUE
        /\ \/ result' = "incomplete"      \* no plan, or controller replay failed
           \/ /\ Observed \/ Replays
              /\ LET failed == rec.analysis_failed \/ ~output_ok
                 IN  result' \in IF failed THEN {"analysis_failure"}
                                 ELSE IF Observed /\ ~Replays THEN {"replay_mismatch"}
                                 ELSE IF Observed THEN {"replay_mismatch", "complete"}
                                 ELSE {"complete"}
  /\ UNCHANGED <<rec, generation, control, done, output_ok>>

Terminated == result # "running" /\ UNCHANGED vars

Next ==
  \/ Connect \/ ConnectFails \/ Handshake \/ CommandWritten \/ Read \/ ControlFrame
  \/ PostedStop \/ DecisionTimer \/ Health \/ Timeout \/ StopRequest
  \/ WriterFails \/ OutputFails \/ Finish \/ Terminated

Spec == Init /\ [][Next]_vars

\* The timers expire and posted handlers run: the io_context runs until it has
\* no work.  Nothing is assumed of the network, the operator or the writers;
\* ConnectFails is fair because the deadline timer is one of its causes.
FairSpec ==
  /\ Spec
  /\ WF_vars(Connect) /\ WF_vars(ConnectFails)
  /\ WF_vars(PostedStop) /\ WF_vars(Health) /\ WF_vars(Finish)

-----------------------------------------------------------------------------
(* Properties. *)

\* While nothing has failed locally, replaying the journal written so far
\* gives the live feed, and once run() has stopped the feed but for the abort
\* in stop(): record() shows the feed and the writer the same history.
ReplayIsLiveFeed ==
  ~rec.storage_failed /\ ~rec.analysis_failed =>
    rec.feed = IF done THEN Aborted(rec.replayed) ELSE rec.replayed

\* The history a stopped run leaves can be replayed unless the observer
\* failed: attempts, opens, commands and the terminal close are in order
\* whichever callback or timer ended each connection.
CleanHistoryReplays ==
  done /\ ~rec.storage_failed /\ ~rec.analysis_failed => Replays

\* Comments of readonly_feed.hpp (35-37) and READONLY_CAPTURE.md (502): a
\* capture whose state was invalidated with no record of it stays incomplete,
\* and replay needs the terminal close; so a capture that run() reports as
\* finalized can be replayed.  The observer refutes it: when its before()
\* throws on the close record, the close is neither applied nor written.
FinalizedReplays == result \in Finalized => Replays

\* A local failure ends the run, whoever meets it first: record() in any
\* callback, or the health timer while nothing arrives.
FailureEndsRun ==
  (~rec.writer_ok \/ rec.analysis_failed \/ ~output_ok) ~> result # "running"

\* The run never wedges between connections: it ends, or some connection
\* stays open.
EndsOrStaysOpen == <>(result # "running") \/ <>[](connection = "opened")

\* Together: run() ends after a failure, or some connection lives on.
RunEnds == FailureEndsRun /\ EndsOrStaysOpen
==============================================================================
