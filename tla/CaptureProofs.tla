---------------------------- MODULE CaptureProofs ----------------------------
(***************************************************************************)
(* The journal of a capture run can be replayed to the live feed, for any  *)
(* number of connections and commands, with and without an observer; and   *)
(* what verifies is what was written, for any records, any number of them, *)
(* any crash and any damage a capture session directory may meet.          *)
(***************************************************************************)
EXTENDS CaptureRun, Session, SequenceTheorems, TLAPS

-----------------------------------------------------------------------------
(* The inductive invariant. *)

Clean(s) == ~s.storage_failed /\ ~s.analysis_failed

\* A recorder that has not failed: what it has written replays without an
\* error to the feed it has, which is on connection g.
Sound(s, g) ==
  Clean(s) =>
    /\ s.replays
    /\ s.feed = s.replayed
    /\ s.feed.generation = g
    /\ s.feed.attempting \/ s.armed => g # 0

\* The feed has the attempt that the run has, or none while it has none.
FeedFollows ==
  /\ connect_due => connection = "none" /\ ~rec.feed.attempting
  /\ connection # "none" => rec.feed.attempting
  /\ connection = "opened" => rec.feed.opened /\ ~rec.feed.faulted

RunTypeOK ==
  /\ rec \in Recorder
  /\ generation \in Nat
  /\ done \in BOOLEAN

RunInv ==
  /\ RunTypeOK
  /\ ~done => Sound(rec, generation) /\ (Clean(rec) => FeedFollows)
  /\ done /\ Clean(rec) =>
       /\ rec.replays
       /\ rec.feed = Aborted(rec.replayed)
       /\ ~rec.replayed.attempting

-----------------------------------------------------------------------------
(* The feed. *)

\* accept() returns one of four events, "control" for everything it takes but
\* a message.
LEMMA EventValues ==
  ASSUME NEW f, NEW r
  PROVE  /\ Event(f, r) \in {"control", "market", "invalidated", "invalid_history"}
         /\ r.kind = "attempt" => Event(f, r) \in {"control", "invalid_history"}
<1>1. Event(f, r) \in {"control", "market", "invalidated", "invalid_history"}
  BY DEF Event
<1>2. ASSUME r.kind = "attempt" PROVE Event(f, r) \in {"control", "invalid_history"}
  BY <1>2 DEF Event
<1> QED
  BY <1>1, <1>2

\* What a record other than an attempt does to the feed.
LEMMA AcceptedOnAttempt ==
  ASSUME NEW f, NEW r, r.kind # "attempt"
  PROVE  \/ Accepted(f, r) = Aborted(f)
         \/ Accepted(f, r) = f
         \/ Accepted(f, r) = [f EXCEPT !.attempting = FALSE, !.opened = FALSE]
         \/ Accepted(f, r) = [f EXCEPT !.opened = TRUE]
         \/ Accepted(f, r) = [f EXCEPT !.sent = @ + 1]
<1>1. CASE Event(f, r) = "invalidated"
  BY <1>1 DEF Accepted
<1>2. CASE Event(f, r) = "invalid_history"
  BY <1>2 DEF Accepted
<1>3. CASE Event(f, r) \in {"control", "market"}
  <2>1. Accepted(f, r) =
          CASE r.kind = "attempt" ->
                 [NewFeed EXCEPT !.generation = r.generation, !.attempting = TRUE]
            [] r.kind = "close" -> [f EXCEPT !.attempting = FALSE, !.opened = FALSE]
            [] r.kind = "open" -> [f EXCEPT !.opened = TRUE]
            [] r.kind = "send" -> [f EXCEPT !.sent = @ + 1]
            [] OTHER -> f
    BY <1>3 DEF Accepted
  <2> QED
    BY <2>1
<1> QED
  BY <1>1, <1>2, <1>3, EventValues

\* Only an attempt changes the connection a feed is on.
LEMMA AcceptedGeneration ==
  ASSUME NEW f \in Feed, NEW r, r.kind # "attempt"
  PROVE  Accepted(f, r).generation = f.generation
<1>1. CASE Accepted(f, r) = Aborted(f)
  BY <1>1 DEF Aborted, Feed
<1>2. CASE Accepted(f, r) = f
  BY <1>2
<1>3. CASE Accepted(f, r) = [f EXCEPT !.attempting = FALSE, !.opened = FALSE]
  BY <1>3 DEF Feed
<1>4. CASE Accepted(f, r) = [f EXCEPT !.opened = TRUE]
  BY <1>4 DEF Feed
<1>5. CASE Accepted(f, r) = [f EXCEPT !.sent = @ + 1]
  BY <1>5 DEF Feed
<1> QED
  BY <1>1, <1>2, <1>3, <1>4, <1>5, AcceptedOnAttempt

\* What an attempt does to it.
LEMMA AcceptedAttempt ==
  ASSUME NEW f, NEW r, r.kind = "attempt"
  PROVE  IF Event(f, r) = "invalid_history" THEN Accepted(f, r) = Aborted(f)
         ELSE Accepted(f, r) = [NewFeed EXCEPT !.generation = r.generation, !.attempting = TRUE]
<1>1. CASE Event(f, r) = "invalid_history"
  BY <1>1 DEF Accepted
<1>2. CASE Event(f, r) = "control"
  BY <1>2 DEF Accepted
<1> QED
  BY <1>1, <1>2, EventValues

\* Any record leaves a feed.
LEMMA AcceptedType ==
  ASSUME NEW f \in Feed, NEW r \in Record
  PROVE  Accepted(f, r) \in Feed
<1>1. Aborted(f) \in Feed
  BY DEF Aborted, Feed
<1>2. [NewFeed EXCEPT !.generation = r.generation, !.attempting = TRUE] \in Feed
  BY DEF NewFeed, Feed, Record
<1>3. /\ [f EXCEPT !.attempting = FALSE, !.opened = FALSE] \in Feed
      /\ [f EXCEPT !.opened = TRUE] \in Feed
  BY DEF Feed
<1>4. [f EXCEPT !.sent = @ + 1] \in Feed
  BY DEF Feed
<1>5. CASE r.kind = "attempt"
  BY <1>1, <1>2, <1>5, AcceptedAttempt
<1>6. CASE r.kind # "attempt"
  BY <1>1, <1>3, <1>4, <1>6, AcceptedOnAttempt
<1> QED
  BY <1>5, <1>6

-----------------------------------------------------------------------------
(* record(). *)

\* The ways record() can end, and what they have in common: a recorder that
\* has not failed was written to and was clean before.
LEMMA OutcomeOfRecord ==
  ASSUME NEW s \in Recorder, NEW r \in Record, NEW o \in Outcomes(s, r)
  PROVE  /\ o.to \in Recorder
         /\ Clean(o.to) =>
              /\ Clean(s)
              /\ o.to.feed = Accepted(s.feed, r)
              /\ o.to.replayed = Accepted(s.replayed, r)
              /\ o.to.replays = (s.replays /\ Event(s.replayed, r) # "invalid_history")
         /\ Clean(o.to) /\ o.ok => Event(s.feed, r) \notin {"invalidated", "invalid_history"}
<1> DEFINE accepts == Event(s.feed, r) \notin {"invalidated", "invalid_history"}
           observing == Observed /\ ~s.analysis_failed
           w == Written(s, r)
<1>1. /\ Accepted(s.feed, r) \in Feed /\ Accepted(s.replayed, r) \in Feed
      /\ s.feed \in Feed /\ s.replayed \in Feed
  BY AcceptedType DEF Recorder
<1>2. /\ w \in Recorder
      /\ w.feed = Accepted(s.feed, r) /\ w.replayed = Accepted(s.replayed, r)
      /\ w.replays = (s.replays /\ Event(s.replayed, r) # "invalid_history")
      /\ w.storage_failed = s.storage_failed /\ w.analysis_failed = s.analysis_failed
  BY <1>1 DEF Written, Recorder
<1>3. \/ \E a \in BOOLEAN : o = [to |-> [w EXCEPT !.armed = a], ok |-> accepts]
      \/ o = [to |-> [s EXCEPT !.feed = Aborted(Accepted(@, r)),
                               !.writer_ok = FALSE, !.storage_failed = TRUE],
              ok |-> FALSE]
      \/ o = [to |-> [s EXCEPT !.feed = Aborted(@), !.analysis_failed = TRUE], ok |-> FALSE]
      \/ o = [to |-> [w EXCEPT !.feed = Aborted(@), !.analysis_failed = TRUE], ok |-> FALSE]
  <2>1. s.armed \in BOOLEAN
    BY DEF Recorder
  <2> HIDE DEF w, accepts
  <2> QED
    BY <2>1 DEF Outcomes, w, accepts
<1> HIDE DEF w, accepts
<1>4. CASE \E a \in BOOLEAN : o = [to |-> [w EXCEPT !.armed = a], ok |-> accepts]
  <2>1. PICK a \in BOOLEAN : o = [to |-> [w EXCEPT !.armed = a], ok |-> accepts]
    BY <1>4
  <2>2. o.to = [w EXCEPT !.armed = a] /\ o.ok = accepts
    BY <2>1
  <2>3. /\ o.to \in Recorder /\ o.to.feed = w.feed /\ o.to.replayed = w.replayed
        /\ o.to.replays = w.replays /\ o.to.storage_failed = w.storage_failed
        /\ o.to.analysis_failed = w.analysis_failed
    BY <1>2, <2>2 DEF Recorder
  <2> QED
    BY <1>2, <2>2, <2>3 DEF Clean, accepts
<1>5. CASE o = [to |-> [s EXCEPT !.feed = Aborted(Accepted(@, r)),
                                 !.writer_ok = FALSE, !.storage_failed = TRUE],
                ok |-> FALSE]
  <2>1. Aborted(Accepted(s.feed, r)) \in Feed
    BY <1>1 DEF Aborted, Feed
  <2> QED
    BY <1>5, <2>1 DEF Clean, Recorder
<1>6. CASE o = [to |-> [s EXCEPT !.feed = Aborted(@), !.analysis_failed = TRUE], ok |-> FALSE]
  <2>1. Aborted(s.feed) \in Feed
    BY <1>1 DEF Aborted, Feed
  <2> QED
    BY <1>6, <2>1 DEF Clean, Recorder
<1>7. CASE o = [to |-> [w EXCEPT !.feed = Aborted(@), !.analysis_failed = TRUE], ok |-> FALSE]
  <2>1. Aborted(w.feed) \in Feed
    BY <1>1, <1>2 DEF Aborted, Feed
  <2> QED
    BY <1>2, <1>7, <2>1 DEF Clean, Recorder
<1> QED
  BY <1>3, <1>4, <1>5, <1>6, <1>7

\* A sound recorder that writes what its feed can place stays sound, and its
\* feed is the one that has accepted the record.
LEMMA RecordKeepsSound ==
  ASSUME NEW s \in Recorder, NEW g \in Nat, NEW h \in Nat, NEW kind \in Kind, NEW n \in Nat,
         Sound(s, g), Clean(s) => h # 0, NEW o \in Recorded(s, kind, h, n),
         Clean(s) =>
           Event(s.feed, [kind |-> kind, generation |-> h, command |-> n]) # "invalid_history",
         kind = "attempt" \/ h = g
  PROVE  /\ o.to \in Recorder /\ Sound(o.to, h)
         /\ Clean(o.to) =>
              /\ Clean(s)
              /\ o.to.feed = Accepted(s.feed, [kind |-> kind, generation |-> h, command |-> n])
              /\ o.ok => Event(s.feed, [kind |-> kind, generation |-> h, command |-> n])
                           \notin {"invalidated", "invalid_history"}
<1> DEFINE r == [kind |-> kind, generation |-> h, command |-> n]
<1>1. r \in Record /\ r.kind = kind /\ r.generation = h
  BY DEF Record
<1>2. o \in Outcomes(s, r)
  BY DEF Recorded
<1> HIDE DEF r
<1>3. /\ o.to \in Recorder
      /\ Clean(o.to) =>
           /\ Clean(s)
           /\ o.to.feed = Accepted(s.feed, r)
           /\ o.to.replayed = Accepted(s.replayed, r)
           /\ o.to.replays = (s.replays /\ Event(s.replayed, r) # "invalid_history")
      /\ Clean(o.to) /\ o.ok => Event(s.feed, r) \notin {"invalidated", "invalid_history"}
  BY <1>1, <1>2, OutcomeOfRecord
<1>4. ASSUME Clean(o.to)
      PROVE  o.to.replays /\ o.to.feed = o.to.replayed /\ o.to.feed.generation = h
  <2>1. Clean(s) /\ s.replays /\ s.feed = s.replayed /\ s.feed.generation = g
    BY <1>3, <1>4 DEF Sound
  <2>2. Event(s.feed, r) # "invalid_history"
    BY <2>1 DEF r
  <2>3. o.to.replays /\ o.to.feed = o.to.replayed
    BY <1>3, <1>4, <2>1, <2>2
  <2>4. Accepted(s.feed, r).generation = h
    <3>1. s.feed \in Feed
      BY DEF Recorder
    <3>2. CASE kind = "attempt"
      <4>1. Accepted(s.feed, r) = [NewFeed EXCEPT !.generation = h, !.attempting = TRUE]
        BY <1>1, <2>2, <3>2, AcceptedAttempt
      <4> QED
        BY <4>1 DEF NewFeed
    <3>3. CASE kind # "attempt"
      <4>1. r.kind # "attempt"
        BY <1>1, <3>3
      <4>2. Accepted(s.feed, r).generation = s.feed.generation
        BY <3>1, <4>1, AcceptedGeneration
      <4>3. g = h
        BY <3>3
      <4> QED
        BY <2>1, <4>2, <4>3
    <3> QED
      BY <3>2, <3>3
  <2> QED
    BY <1>3, <1>4, <2>3, <2>4
<1> QED
  BY <1>3, <1>4 DEF Sound, r

-----------------------------------------------------------------------------
(* stop() and failed(). *)

\* The close record is always in place, and ends the attempt.
LEMMA CloseKeepsSound ==
  ASSUME NEW s \in Recorder, NEW g \in Nat, Sound(s, g), NEW c \in ClosedBy(s, g)
  PROVE  /\ c \in Recorder /\ Sound(c, g)
         /\ Clean(c) => ~c.feed.attempting /\ Clean(s)
<1>1. CASE s.feed.attempting /\ ~s.storage_failed /\ ~s.analysis_failed
  <2> DEFINE r == [kind |-> "close", generation |-> g, command |-> 0]
  <2>1. PICK o \in Recorded(s, "close", g, 0) : c = o.to
    BY <1>1 DEF ClosedBy
  <2>2. s.feed.generation = g /\ g \in Nat \ {0}
    BY <1>1 DEF Sound, Clean
  <2>3. Event(s.feed, r) = "control"
    BY <1>1, <2>2 DEF Event
  <2>4. Accepted(s.feed, r) = [s.feed EXCEPT !.attempting = FALSE, !.opened = FALSE]
    BY <2>3 DEF Accepted
  <2>5. /\ o.to \in Recorder /\ Sound(o.to, g)
        /\ Clean(o.to) => Clean(s) /\ o.to.feed = Accepted(s.feed, r)
    BY <2>2, <2>3, RecordKeepsSound DEF Kind
  <2>6. s.feed \in Feed
    BY DEF Recorder
  <2> HIDE DEF r
  <2>7. ~Accepted(s.feed, r).attempting
    BY <2>4, <2>6 DEF Feed
  <2> QED
    BY <2>1, <2>5, <2>7
<1>2. CASE ~s.feed.attempting \/ s.storage_failed
  BY <1>2 DEF ClosedBy, Clean
<1>3. CASE s.analysis_failed /\ s.feed.attempting /\ ~s.storage_failed
  <2> DEFINE r == [kind |-> "close", generation |-> g, command |-> 0]
  <2>1. PICK o \in Recorded(s, "close", g, 0) : c = o.to
    BY <1>3 DEF ClosedBy
  <2>2. r \in Record
    BY DEF Record, Kind
  <2>3. o.to \in Recorder /\ (Clean(o.to) => Clean(s))
    BY <2>1, <2>2, OutcomeOfRecord DEF Recorded
  <2> QED
    BY <1>3, <2>1, <2>3 DEF Clean, Sound
<1>4. s.feed.attempting \in BOOLEAN /\ s.storage_failed \in BOOLEAN /\ s.analysis_failed \in BOOLEAN
  BY DEF Recorder, Feed
<1> QED
  BY <1>1, <1>2, <1>3, <1>4

\* stop() leaves a history that ends with a close, unless something failed.
LEMMA StopKeepsInv ==
  ASSUME NEW s \in Recorder, NEW g \in Nat, Sound(s, g), Stop(s, g), generation' \in Nat
  PROVE  RunInv'
<1>1. PICK c \in ClosedBy(s, g) : rec' = [c EXCEPT !.feed = Aborted(@), !.armed = FALSE]
  BY DEF Stop
<1>2. /\ c \in Recorder /\ Sound(c, g)
      /\ Clean(c) => ~c.feed.attempting
  BY CloseKeepsSound
<1>3. c.feed \in Feed /\ Aborted(c.feed) \in Feed
  BY <1>2 DEF Recorder, Aborted, Feed
<1>4. /\ rec' \in Recorder /\ rec'.feed = Aborted(c.feed) /\ rec'.replayed = c.replayed
      /\ rec'.replays = c.replays /\ rec'.storage_failed = c.storage_failed
      /\ rec'.analysis_failed = c.analysis_failed
  BY <1>1, <1>2, <1>3 DEF Recorder
<1>5. done' = TRUE
  BY DEF Stop
<1>6. Clean(rec') = Clean(c)
  BY <1>4 DEF Clean
<1>7. Clean(rec') => /\ rec'.replays /\ rec'.feed = Aborted(rec'.replayed)
                     /\ ~rec'.replayed.attempting
  BY <1>2, <1>4, <1>6 DEF Sound
<1> QED
  BY <1>4, <1>5, <1>7 DEF RunInv, RunTypeOK

\* failed() either stops or leaves the feed without an attempt and a retry armed.
LEMMA FailedKeepsInv ==
  ASSUME NEW s \in Recorder, generation \in Nat, Sound(s, generation), Failed(s),
         generation' = generation, done = FALSE
  PROVE  RunInv'
<1>1. CASE Stop(s, generation)
  BY <1>1, StopKeepsInv
<1>2. CASE \E c \in ClosedBy(s, generation) : c.storage_failed /\ Stop(c, generation)
  <2>1. PICK c \in ClosedBy(s, generation) : c.storage_failed /\ Stop(c, generation)
    BY <1>2
  <2>2. c \in Recorder /\ Sound(c, generation)
    BY CloseKeepsSound
  <2> QED
    BY <2>1, <2>2, StopKeepsInv
<1>3. CASE \E c \in ClosedBy(s, generation) :
             /\ rec' = c /\ Release /\ connect_due' = TRUE /\ UNCHANGED <<stop_posted, done>>
  <2>1. PICK c \in ClosedBy(s, generation) :
          rec' = c /\ Release /\ connect_due' = TRUE /\ UNCHANGED <<stop_posted, done>>
    BY <1>3
  <2>2. /\ c \in Recorder /\ Sound(c, generation)
        /\ Clean(c) => ~c.feed.attempting
    BY CloseKeepsSound
  <2>3. connection' = "none"
    BY <2>1 DEF Release
  <2>4. Sound(rec', generation')
    BY <2>1, <2>2
  <2>5. Clean(rec') => FeedFollows'
    BY <2>1, <2>2, <2>3 DEF FeedFollows
  <2> QED
    BY <2>1, <2>2, <2>4, <2>5 DEF RunInv, RunTypeOK
<1> QED
  BY <1>1, <1>2, <1>3 DEF Failed

-----------------------------------------------------------------------------
(* The callbacks. *)

\* A callback that only records leaves the run as sound as the recorder.
LEMMA StillRunning ==
  ASSUME rec' \in Recorder, generation' \in Nat, done' = FALSE, Sound(rec', generation'),
         Clean(rec') => FeedFollows'
  PROVE  RunInv'
BY DEF RunInv, RunTypeOK

\* The next command goes out on a feed that is open, or the run stops.
LEMMA SendKeepsInv ==
  ASSUME NEW s \in Recorder, generation \in Nat, Sound(s, generation), NEW n \in Nat,
         SendCommand(s, n), generation' = generation, done = FALSE,
         Clean(s) => ~connect_due /\ s.feed.attempting /\ s.feed.opened /\ ~s.feed.faulted
  PROVE  RunInv'
<1>1. CASE /\ n >= Commands
           /\ rec' = s /\ next_command' = n /\ sending' = FALSE
           /\ connection' = "opened"
           /\ UNCHANGED <<connect_due, stop_posted, done>>
  BY <1>1, StillRunning DEF FeedFollows
<1>2. CASE \E o \in Recorded(s, "send", generation, n) :
             \/ ~o.ok /\ Stop(o.to, generation)
             \/ /\ o.ok
                /\ rec' = o.to /\ next_command' = n /\ sending' = TRUE
                /\ connection' = "opened"
                /\ UNCHANGED <<connect_due, stop_posted, done>>
  <2> DEFINE r == [kind |-> "send", generation |-> generation, command |-> n]
  <2>1. PICK o \in Recorded(s, "send", generation, n) :
             \/ ~o.ok /\ Stop(o.to, generation)
             \/ /\ o.ok
                /\ rec' = o.to /\ next_command' = n /\ sending' = TRUE
                /\ connection' = "opened"
                /\ UNCHANGED <<connect_due, stop_posted, done>>
    BY <1>2
  <2>2. Clean(s) => Event(s.feed, r) \in {"control", "invalidated"}
    <3> SUFFICES ASSUME Clean(s) PROVE Event(s.feed, r) \in {"control", "invalidated"}
      OBVIOUS
    <3>1. s.feed.attempting /\ s.feed.opened /\ ~s.feed.faulted /\ s.feed.generation = generation
      BY DEF Sound
    <3> QED
      BY <3>1 DEF Event
  <2>3. /\ o.to \in Recorder /\ Sound(o.to, generation)
        /\ Clean(o.to) =>
             /\ Clean(s)
             /\ o.to.feed = Accepted(s.feed, r)
             /\ o.ok => Event(s.feed, r) \notin {"invalidated", "invalid_history"}
    BY <2>2, RecordKeepsSound DEF Kind, Sound
  <2>4. CASE ~o.ok /\ Stop(o.to, generation)
    BY <2>3, <2>4, StopKeepsInv
  <2>5. CASE /\ o.ok
             /\ rec' = o.to /\ next_command' = n /\ sending' = TRUE
             /\ connection' = "opened"
             /\ UNCHANGED <<connect_due, stop_posted, done>>
    <3>1. ASSUME Clean(o.to)
          PROVE  o.to.feed.attempting /\ o.to.feed.opened /\ ~o.to.feed.faulted
      <4>1. Event(s.feed, r) = "control" /\ Clean(s)
        BY <2>2, <2>3, <2>5, <3>1
      <4>2. o.to.feed = [s.feed EXCEPT !.sent = @ + 1]
        BY <2>3, <3>1, <4>1 DEF Accepted
      <4>3. s.feed \in Feed
        BY DEF Recorder
      <4> QED
        BY <4>1, <4>2, <4>3 DEF Feed
    <3> QED
      BY <2>3, <2>5, <3>1, StillRunning DEF FeedFollows
  <2> QED
    BY <2>1, <2>4, <2>5
<1> QED
  BY <1>1, <1>2 DEF SendCommand

\* A record on an open connection is never out of place, and when it is taken
\* the feed stays as it is.
LEMMA OpenRecord ==
  ASSUME RunInv, done = FALSE, connection = "opened", NEW kind \in {"message", "garbage", "ping"},
         NEW o \in Recorded(rec, kind, generation, 0)
  PROVE  /\ o.to \in Recorder /\ Sound(o.to, generation)
         /\ Clean(o.to) /\ (o.ok \/ kind = "ping") => o.to.feed = rec.feed /\ Clean(rec)
<1> DEFINE r == [kind |-> kind, generation |-> generation, command |-> 0]
<1>1. /\ rec \in Recorder /\ generation \in Nat /\ Sound(rec, generation)
      /\ Clean(rec) => /\ rec.feed.attempting /\ rec.feed.opened /\ ~rec.feed.faulted
                       /\ rec.feed.generation = generation /\ generation # 0
  BY DEF RunInv, RunTypeOK, FeedFollows, Sound
<1>2. r.kind = kind /\ r.generation = generation
  OBVIOUS
<1>3. Clean(rec) => Event(rec.feed, r) = CASE kind = "ping" -> "control"
                                           [] kind = "message" -> "market"
                                           [] OTHER -> "invalidated"
  <2> HIDE DEF r
  <2> QED
    BY <1>1, <1>2 DEF Event
<1>4. /\ o.to \in Recorder /\ Sound(o.to, generation)
      /\ Clean(o.to) =>
           /\ Clean(rec)
           /\ o.to.feed = Accepted(rec.feed, r)
           /\ o.ok => Event(rec.feed, r) \notin {"invalidated", "invalid_history"}
  BY <1>1, <1>3, RecordKeepsSound DEF Kind
<1>5. ASSUME Clean(o.to), o.ok \/ kind = "ping"
      PROVE  Accepted(rec.feed, r) = rec.feed
  <2>1. kind # "garbage" /\ Event(rec.feed, r) \in {"control", "market"}
    BY <1>3, <1>4, <1>5
  <2> HIDE DEF r
  <2> QED
    BY <1>2, <2>1 DEF Accepted
<1> QED
  BY <1>4, <1>5

\* A connection attempt is a new generation, which the feed takes.
LEMMA ConnectKeepsInv ==
  ASSUME RunInv, Connect PROVE RunInv'
<1> DEFINE g == generation + 1
           r == [kind |-> "attempt", generation |-> g, command |-> 0]
<1>1. done = FALSE /\ connect_due /\ generation' = g /\ g \in Nat /\ g # 0 /\ generation \in Nat
      /\ rec \in Recorder /\ Sound(rec, generation)
  BY DEF Connect, Running, RunInv, RunTypeOK
<1>2. PICK o \in Recorded(rec, "attempt", g, 0) :
       \/ Stop(o.to, g)
       \/ /\ o.ok
          /\ rec' = o.to
          /\ connection' = "connecting"
          /\ connect_due' = FALSE
          /\ UNCHANGED <<next_command, sending, stop_posted, done>>
  BY DEF Connect
<1>3. Clean(rec) => Event(rec.feed, r) = "control"
  <2> SUFFICES ASSUME Clean(rec) PROVE Event(rec.feed, r) = "control"
    OBVIOUS
  <2>1. ~rec.feed.attempting /\ rec.feed.generation = generation
    BY <1>1 DEF RunInv, FeedFollows, Sound
  <2>2. r.kind = "attempt" /\ r.generation > rec.feed.generation
    BY <1>1, <2>1
  <2> HIDE DEF r
  <2> QED
    BY <2>1, <2>2 DEF Event
<1>4. /\ o.to \in Recorder /\ Sound(o.to, g)
      /\ Clean(o.to) => Clean(rec) /\ o.to.feed = Accepted(rec.feed, r)
  BY <1>1, <1>3, RecordKeepsSound DEF Kind
<1>5. Clean(o.to) => o.to.feed.attempting
  <2> SUFFICES ASSUME Clean(o.to) PROVE o.to.feed.attempting
    OBVIOUS
  <2>1. o.to.feed = [NewFeed EXCEPT !.generation = r.generation, !.attempting = TRUE]
    BY <1>3, <1>4, AcceptedAttempt
  <2> QED
    BY <2>1 DEF NewFeed
<1> HIDE DEF g
<1>6. CASE Stop(o.to, g)
  BY <1>1, <1>4, <1>6, StopKeepsInv
<1>7. CASE /\ o.ok
           /\ rec' = o.to
           /\ connection' = "connecting"
           /\ connect_due' = FALSE
           /\ UNCHANGED <<next_command, sending, stop_posted, done>>
  BY <1>1, <1>4, <1>5, <1>7, StillRunning DEF FeedFollows
<1> QED
  BY <1>2, <1>6, <1>7

\* The open record is the first of its attempt that the feed takes, or the
\* run stops.
LEMMA HandshakeKeepsInv ==
  ASSUME RunInv, Handshake PROVE RunInv'
<1> DEFINE r == [kind |-> "open", generation |-> generation, command |-> 0]
<1>1. /\ done = FALSE /\ connection = "connecting" /\ generation' = generation
      /\ rec \in Recorder /\ Sound(rec, generation) /\ generation \in Nat
      /\ Clean(rec) => rec.feed.attempting /\ rec.feed.generation = generation /\ generation # 0
  BY DEF Handshake, Running, KeepsGeneration, RunInv, RunTypeOK, FeedFollows, Sound
<1>2. PICK o \in Recorded(rec, "open", generation, 0) :
        IF o.ok THEN SendCommand(o.to, 0) ELSE Stop(o.to, generation)
  BY DEF Handshake
<1>3. r.kind = "open" /\ r.generation = generation
  OBVIOUS
<1>4. Clean(rec) => Event(rec.feed, r) = IF rec.feed.opened \/ rec.feed.faulted
                                         THEN "invalidated" ELSE "control"
  <2> HIDE DEF r
  <2> QED
    BY <1>1, <1>3 DEF Event
<1>5. /\ o.to \in Recorder /\ Sound(o.to, generation)
      /\ Clean(o.to) =>
           /\ Clean(rec)
           /\ o.to.feed = Accepted(rec.feed, r)
           /\ o.ok => Event(rec.feed, r) \notin {"invalidated", "invalid_history"}
  BY <1>1, <1>4, RecordKeepsSound DEF Kind
<1>6. ASSUME Clean(o.to), o.ok
      PROVE  o.to.feed.attempting /\ o.to.feed.opened /\ ~o.to.feed.faulted
  <2>1. Event(rec.feed, r) = "control" /\ ~rec.feed.faulted /\ rec.feed.attempting
    BY <1>1, <1>4, <1>5, <1>6
  <2>2. Accepted(rec.feed, r) = [rec.feed EXCEPT !.opened = TRUE]
    <3> HIDE DEF r
    <3> QED
      BY <1>3, <2>1 DEF Accepted
  <2>3. rec.feed \in Feed
    BY <1>1 DEF Recorder
  <2> QED
    BY <1>5, <1>6, <2>1, <2>2, <2>3 DEF Feed
<1>7. CASE o.ok /\ SendCommand(o.to, 0)
  <2>1. Clean(rec) => ~connect_due
    BY <1>1 DEF RunInv, FeedFollows
  <2> HIDE DEF r
  <2> QED
    BY <1>1, <1>5, <1>6, <1>7, <2>1, SendKeepsInv
<1>8. CASE ~o.ok /\ Stop(o.to, generation)
  BY <1>1, <1>5, <1>8, StopKeepsInv
<1> QED
  BY <1>2, <1>7, <1>8

\* A command written is followed by the next one, or by a failure.
LEMMA CommandWrittenKeepsInv ==
  ASSUME RunInv, CommandWritten, next_command \in Nat PROVE RunInv'
<1>1. /\ done = FALSE /\ generation' = generation /\ generation \in Nat
      /\ rec \in Recorder /\ Sound(rec, generation)
      /\ Clean(rec) => ~connect_due /\ rec.feed.attempting /\ rec.feed.opened /\ ~rec.feed.faulted
  BY DEF CommandWritten, Running, KeepsGeneration, RunInv, RunTypeOK, FeedFollows
<1>2. CASE Failed(rec)
  BY <1>1, <1>2, FailedKeepsInv
<1>3. CASE SendCommand(rec, next_command + 1)
  <2>1. next_command + 1 \in Nat
    OBVIOUS
  <2> QED
    BY <1>1, <1>3, <2>1, SendKeepsInv
<1> QED
  BY <1>2, <1>3 DEF CommandWritten

\* A read leaves a feed that is still open, or ends the connection.
LEMMA ReadKeepsInv ==
  ASSUME RunInv, Read PROVE RunInv'
<1>1. /\ done = FALSE /\ connection = "opened" /\ generation' = generation /\ generation \in Nat
      /\ rec \in Recorder /\ Sound(rec, generation)
  BY DEF Read, Running, KeepsGeneration, RunInv, RunTypeOK
<1>2. CASE Failed(rec)
  BY <1>1, <1>2, FailedKeepsInv
<1>3. ASSUME NEW kind \in {"message", "garbage"}, NEW o \in Recorded(rec, kind, generation, 0),
             \/ ~o.ok /\ Failed(o.to)
             \/ o.ok /\ rec' = o.to /\ UNCHANGED <<control, done>>
      PROVE  RunInv'
  <2>1. /\ o.to \in Recorder /\ Sound(o.to, generation)
        /\ Clean(o.to) /\ o.ok => o.to.feed = rec.feed /\ Clean(rec)
    BY <1>1, OpenRecord
  <2>2. CASE ~o.ok /\ Failed(o.to)
    BY <1>1, <2>1, <2>2, FailedKeepsInv
  <2>3. CASE o.ok /\ rec' = o.to /\ UNCHANGED <<control, done>>
    <3>1. Clean(rec') => FeedFollows'
      BY <1>1, <2>1, <2>3 DEF RunInv, FeedFollows, control
    <3> QED
      BY <1>1, <2>1, <2>3, <3>1, StillRunning
  <2> QED
    BY <1>3, <2>2, <2>3
<1> QED
  BY <1>2, <1>3 DEF Read

\* A control frame is recorded on the feed as it is; what it fails is left to
\* the posted stop.
LEMMA ControlFrameKeepsInv ==
  ASSUME RunInv, ControlFrame PROVE RunInv'
<1>1. /\ done = FALSE /\ done' = FALSE /\ connection = "opened"
      /\ generation' = generation /\ generation \in Nat
      /\ connection' = connection /\ connect_due' = connect_due
  BY DEF ControlFrame, Running, KeepsGeneration, RunInv, RunTypeOK
<1>2. PICK o \in Recorded(rec, "ping", generation, 0) : rec' = o.to
  BY DEF ControlFrame
<1>3. /\ o.to \in Recorder /\ Sound(o.to, generation)
      /\ Clean(o.to) => o.to.feed = rec.feed /\ Clean(rec)
  BY <1>1, OpenRecord
<1>4. Clean(rec') => FeedFollows'
  BY <1>1, <1>2, <1>3 DEF RunInv, FeedFollows
<1> QED
  BY <1>1, <1>2, <1>3, <1>4, StillRunning

\* The decision timer is armed by a record, so there is a connection to put
\* the clock record on, between connections as well.
LEMMA DecisionTimerKeepsInv ==
  ASSUME RunInv, DecisionTimer PROVE RunInv'
<1> DEFINE s == [rec EXCEPT !.armed = FALSE]
           r == [kind |-> "clock", generation |-> generation, command |-> 0]
<1>1. /\ done = FALSE /\ rec.armed /\ generation' = generation /\ generation \in Nat
      /\ rec \in Recorder /\ Sound(rec, generation)
  BY DEF DecisionTimer, Running, KeepsGeneration, RunInv, RunTypeOK
<1>2. /\ s \in Recorder /\ Clean(s) = Clean(rec) /\ s.feed = rec.feed
      /\ Sound(s, generation) /\ (Clean(s) => generation # 0)
  BY <1>1 DEF Recorder, Clean, Sound
<1>3. PICK o \in Recorded(s, "clock", generation, 0) :
        \/ ~o.ok /\ Stop(o.to, generation)
        \/ o.ok /\ rec' = o.to /\ UNCHANGED <<control, done>>
  BY DEF DecisionTimer
<1> HIDE DEF s
<1>4. Clean(s) => Event(s.feed, r) = "control"
  <2> SUFFICES ASSUME Clean(s) PROVE Event(s.feed, r) = "control"
    OBVIOUS
  <2>1. s.feed.generation = generation /\ generation # 0
    BY <1>2 DEF Sound
  <2> QED
    BY <2>1 DEF Event
<1>5. /\ o.to \in Recorder /\ Sound(o.to, generation)
      /\ Clean(o.to) => Clean(s) /\ o.to.feed = Accepted(s.feed, r)
  BY <1>1, <1>2, <1>4, RecordKeepsSound DEF Kind
<1>6. Clean(o.to) => o.to.feed = rec.feed /\ Clean(rec)
  BY <1>2, <1>4, <1>5 DEF Accepted
<1>7. CASE ~o.ok /\ Stop(o.to, generation)
  BY <1>1, <1>5, <1>7, StopKeepsInv
<1>8. CASE o.ok /\ rec' = o.to /\ UNCHANGED <<control, done>>
  <2>1. Clean(rec') => FeedFollows'
    BY <1>1, <1>6, <1>8 DEF RunInv, FeedFollows, control
  <2> QED
    BY <1>1, <1>5, <1>8, <2>1, StillRunning
<1> QED
  BY <1>3, <1>7, <1>8

\* The health timer stops a run whose recorder it marks as failed.
LEMMA HealthKeepsInv ==
  ASSUME RunInv, Health PROVE RunInv'
<1>1. /\ generation' = generation /\ generation \in Nat /\ rec \in Recorder
  BY DEF Health, KeepsGeneration, RunInv, RunTypeOK
<1>2. ASSUME Stop([rec EXCEPT !.storage_failed = TRUE], generation) PROVE RunInv'
  <2> DEFINE s == [rec EXCEPT !.storage_failed = TRUE]
  <2>1. s \in Recorder /\ Sound(s, generation)
    BY <1>1 DEF Recorder, Sound, Clean
  <2> QED
    BY <1>1, <1>2, <2>1, StopKeepsInv
<1>3. ASSUME Stop([rec EXCEPT !.analysis_failed = TRUE], generation) PROVE RunInv'
  <2> DEFINE s == [rec EXCEPT !.analysis_failed = TRUE]
  <2>1. s \in Recorder /\ Sound(s, generation)
    BY <1>1 DEF Recorder, Sound, Clean
  <2> QED
    BY <1>1, <1>3, <2>1, StopKeepsInv
<1> QED
  BY <1>2, <1>3 DEF Health

\* The writer failing unseen changes nothing that the feed or the journal is.
LEMMA WriterFailsKeepsInv ==
  ASSUME RunInv, WriterFails PROVE RunInv'
<1>1. /\ rec \in Recorder /\ rec' = [rec EXCEPT !.writer_ok = FALSE]
      /\ UNCHANGED <<generation, control, done>>
  BY DEF WriterFails, RunInv, RunTypeOK
<1>2. /\ rec' \in Recorder /\ rec'.feed = rec.feed /\ rec'.replayed = rec.replayed
      /\ rec'.replays = rec.replays /\ rec'.armed = rec.armed /\ Clean(rec') = Clean(rec)
  BY <1>1 DEF Recorder, Clean
<1> QED
  BY <1>1, <1>2 DEF RunInv, RunTypeOK, Sound, FeedFollows, control

-----------------------------------------------------------------------------
(* The theorems. *)

\* The sequence of commands only moves forward from the first.
CommandInv == next_command \in Nat

LEMMA CommandStep ==
  ASSUME CommandInv, [Next]_vars PROVE CommandInv'
<1>1. ASSUME NEW s, NEW g, Stop(s, g) PROVE CommandInv'
  BY <1>1 DEF Stop, Release, CommandInv
<1>2. ASSUME NEW s, Failed(s) PROVE CommandInv'
  BY <1>1, <1>2 DEF Failed, Release, CommandInv
<1>3. ASSUME NEW s, NEW n \in Nat, SendCommand(s, n) PROVE CommandInv'
  BY <1>1, <1>3 DEF SendCommand, CommandInv
<1>4. ASSUME UNCHANGED next_command PROVE CommandInv'
  BY <1>4 DEF CommandInv
<1>5. CASE Connect
  BY <1>1, <1>4, <1>5 DEF Connect
<1>6. CASE Handshake
  BY <1>1, <1>3, <1>6 DEF Handshake
<1>7. CASE CommandWritten
  BY <1>2, <1>3, <1>7 DEF CommandWritten, CommandInv
<1>8. CASE ConnectFails \/ Timeout \/ PostedStop \/ StopRequest \/ Health
  BY <1>1, <1>2, <1>8 DEF ConnectFails, Timeout, PostedStop, StopRequest, Health
<1>9. CASE Read
  BY <1>2, <1>4, <1>9 DEF Read, control
<1>10. CASE DecisionTimer
  BY <1>1, <1>4, <1>10 DEF DecisionTimer, control
<1>11. CASE ControlFrame \/ WriterFails \/ OutputFails \/ Finish \/ Terminated \/ UNCHANGED vars
  BY <1>4, <1>11 DEF ControlFrame, WriterFails, OutputFails, Finish, Terminated, vars, control
<1> QED
  BY <1>5, <1>6, <1>7, <1>8, <1>9, <1>10, <1>11 DEF Next

\* A run starts with a new feed and an empty journal.
LEMMA RunInit ==
  ASSUME Init PROVE RunInv /\ CommandInv
BY DEF Init, RunInv, CommandInv, RunTypeOK, Recorder, Feed, NewFeed, Clean, Sound, FeedFollows

\* Every callback, timer and failure keeps the journal a replay of the feed.
LEMMA RunStep ==
  ASSUME RunInv, CommandInv, [Next]_vars PROVE RunInv'
<1>1. CASE Connect
  BY <1>1, ConnectKeepsInv
<1>2. CASE Handshake
  BY <1>2, HandshakeKeepsInv
<1>3. CASE CommandWritten
  BY <1>3, CommandWrittenKeepsInv DEF CommandInv
<1>4. CASE Read
  BY <1>4, ReadKeepsInv
<1>5. CASE ControlFrame
  BY <1>5, ControlFrameKeepsInv
<1>6. CASE DecisionTimer
  BY <1>6, DecisionTimerKeepsInv
<1>7. CASE Health
  BY <1>7, HealthKeepsInv
<1>8. CASE WriterFails
  BY <1>8, WriterFailsKeepsInv
<1>9. CASE ConnectFails \/ Timeout
  <2>1. /\ done = FALSE /\ generation' = generation /\ generation \in Nat
        /\ rec \in Recorder /\ Sound(rec, generation)
    BY <1>9 DEF ConnectFails, Timeout, Running, KeepsGeneration, RunInv, RunTypeOK
  <2>2. Failed(rec) \/ Stop(rec, generation)
    BY <1>9 DEF ConnectFails, Timeout
  <2> QED
    BY <2>1, <2>2, FailedKeepsInv, StopKeepsInv
<1>10. CASE PostedStop \/ StopRequest
  <2>1. /\ generation' = generation /\ generation \in Nat
        /\ rec \in Recorder /\ Sound(rec, generation) /\ Stop(rec, generation)
    BY <1>10 DEF PostedStop, StopRequest, Running, KeepsGeneration, RunInv, RunTypeOK
  <2> QED
    BY <2>1, StopKeepsInv
<1>11. CASE UNCHANGED <<rec, generation, control, done>>
  BY <1>11 DEF RunInv, RunTypeOK, Sound, FeedFollows, control
<1>12. OutputFails \/ Finish \/ Terminated \/ UNCHANGED vars =>
         UNCHANGED <<rec, generation, control, done>>
  BY DEF OutputFails, Finish, Terminated, vars, control
<1> QED
  BY <1>1, <1>2, <1>3, <1>4, <1>5, <1>6, <1>7, <1>8, <1>9, <1>10, <1>11, <1>12 DEF Next

\* In every reachable state of the event loop the recorder that has not failed
\* has written what its feed has accepted, and the feed is where the connection is.
THEOREM RunInvariant == Spec => [](RunInv /\ CommandInv)
<1>1. Init => RunInv /\ CommandInv
  BY RunInit
<1>2. RunInv /\ CommandInv /\ [Next]_vars => (RunInv /\ CommandInv)'
  BY RunStep, CommandStep
<1> QED
  BY <1>1, <1>2, PTL DEF Spec

\* Whatever callback, timer or thread comes when: while nothing has failed
\* locally, a replay of the journal reaches the live feed.
THEOREM JournalReplaysToFeed == Spec => []ReplayIsLiveFeed
<1>1. RunInv => ReplayIsLiveFeed
  BY DEF RunInv, RunTypeOK, ReplayIsLiveFeed, Sound, Clean
<1> QED
  BY <1>1, RunInvariant, PTL

\* However the run ended its connections, the journal it leaves replays to the
\* end, terminal close included, unless a writer or the observer failed.
THEOREM CleanRunReplays == Spec => []CleanHistoryReplays
<1>1. RunInv => CleanHistoryReplays
  BY DEF RunInv, RunTypeOK, CleanHistoryReplays, Replays, Clean
<1> QED
  BY <1>1, RunInvariant, PTL

-----------------------------------------------------------------------------
(* The inductive invariant. *)

\* The units a journal file can hold.
Unit ==
  {Corrupt, [part |-> "none"], [part |-> "magic"], [part |-> "version"]}
    \cup {[part |-> "body", record |-> r] : r \in JournalRecord}
    \cup {[part |-> "checksum", record |-> r] : r \in JournalRecord}

\* What the file will hold when the stream has drained.
Stream == disk \o buffer

\* The units are a journal of exactly these records.
Holds(units, records) ==
  Reads(units) /\ RecordsOf(units) = records

SessionTypeOK ==
  /\ disk \in Seq(Unit) /\ buffer \in Seq(Unit)
  /\ writing \in BOOLEAN /\ broken \in BOOLEAN
  /\ records_written \in Nat
  /\ appended \in Seq({r \in JournalRecord : r.version = Version})
  /\ step \in {"create", "open", "append", "validate", "write_pending", "rename", "gone", "later"}
  /\ harmed \in BOOLEAN

\* How far the session has come.
StepInv ==
  /\ step \in {"create", "open"} =>
       /\ disk = NoFile /\ buffer = <<>> /\ ~writing
       /\ ~closed /\ appended = <<>>
  /\ step = "open" => metadata = "whole"
  /\ step = "append" =>
       /\ writing /\ metadata = "whole"
       /\ closed <=> broken
       /\ ~broken => Holds(Stream, appended) /\ records_written = FrameCount(Stream)
  /\ step \in {"validate", "write_pending", "rename"} =>
       /\ ~writing /\ metadata = "whole"
       /\ Holds(disk, appended) /\ records_written = FrameCount(disk)
  /\ step = "rename" => pending = Manifest(records_written, disk)
  /\ step = "gone" /\ writing => broken
  /\ step = "later" => harmed /\ WriterExtendsReadableJournal
  /\ step \notin {"gone", "later"} => outcome = "none" /\ ~harmed

\* Only a finalize that reported success has published a manifest, and the
\* journal it describes is what was appended; an outside hand may tear it.
Published ==
  \E units \in Seq(Unit) :
    manifest = Manifest(FrameCount(units), units) /\ Holds(units, appended)

ManifestInv ==
  /\ outcome # "manifest" => manifest = NoManifest
  /\ outcome = "manifest" => Published \/ manifest = TornManifest
  /\ outcome = "manifest" /\ ~harmed =>
       /\ ~writing /\ metadata = "whole"
       /\ manifest = Manifest(FrameCount(disk), disk) /\ Holds(disk, appended)

SessionInv == SessionTypeOK /\ StepInv /\ ManifestInv

-----------------------------------------------------------------------------
(* The journal as a sequence of units. *)

\* The header, the frames and what stands for a missing file are units.
LEMMA UnitsOfJournal ==
  /\ Header \in Seq(Unit) /\ Len(Header) = 2
  /\ NoFile \in Seq(Unit) /\ Corrupt \in Unit
  /\ \A r \in JournalRecord :
       /\ Frame(r) \in Seq(Unit) /\ Len(Frame(r)) = 2
       /\ Frame(r)[1] = [part |-> "body", record |-> r]
       /\ Frame(r)[2] = [part |-> "checksum", record |-> r]
<1>1. [part |-> "magic"] \in Unit /\ [part |-> "version"] \in Unit /\ Corrupt \in Unit
  BY DEF Unit
<1>2. [part |-> "none"] \in Unit
  BY DEF Unit
<1>3. ASSUME NEW r \in JournalRecord
      PROVE  /\ Frame(r) \in Seq(Unit) /\ Len(Frame(r)) = 2
             /\ Frame(r)[1] = [part |-> "body", record |-> r]
             /\ Frame(r)[2] = [part |-> "checksum", record |-> r]
  <2>1. [part |-> "body", record |-> r] \in Unit /\ [part |-> "checksum", record |-> r] \in Unit
    BY DEF Unit
  <2> QED
    BY <2>1 DEF Frame
<1>4. NoFile \in Seq(Unit)
  BY <1>2 DEF NoFile
<1>5. Header \in Seq(Unit) /\ Len(Header) = 2
  BY <1>1 DEF Header
<1> QED
  BY <1>1, <1>3, <1>4, <1>5

\* A header alone is a journal of no records.
LEMMA HeaderHoldsNothing ==
  Holds(Header, <<>>) /\ FrameCount(Header) = 0
<1>1. Len(Header) = 2 /\ Header \in Seq(Unit)
  BY UnitsOfJournal
<1>2. SubSeq(Header, 1, 2) = Header
  BY <1>1, SubSeqFull
<1>3. FrameCount(Header) = 0
  BY <1>1 DEF FrameCount
<1>4. 1..0 = {}
  OBVIOUS
<1>5. RecordsOf(Header) = <<>>
  BY <1>3, <1>4 DEF RecordsOf
<1> QED
  BY <1>1, <1>2, <1>3, <1>4, <1>5 DEF Holds, Reads, HeaderReads

\* The body of a frame holds a record.
LEMMA BodyIsRecord ==
  ASSUME NEW u \in Unit, u.part = "body"
  PROVE  u.record \in JournalRecord
<1>1. CASE u \in {Corrupt, [part |-> "none"], [part |-> "magic"], [part |-> "version"]}
  BY <1>1 DEF Corrupt
<1>2. CASE u \in {[part |-> "checksum", record |-> r] : r \in JournalRecord}
  BY <1>2
<1>3. CASE u \in {[part |-> "body", record |-> r] : r \in JournalRecord}
  <2>1. PICK r \in JournalRecord : u = [part |-> "body", record |-> r]
    BY <1>3
  <2> QED
    BY <2>1
<1> QED
  BY <1>1, <1>2, <1>3 DEF Unit

\* The frames of a journal that reads are records that callers appended.
LEMMA RecordsAreJournalRecords ==
  ASSUME NEW units \in Seq(Unit), Reads(units)
  PROVE  /\ FrameCount(units) \in Nat /\ Len(units) = 2 * FrameCount(units) + 2
         /\ RecordsOf(units) \in Seq(JournalRecord)
         /\ Len(RecordsOf(units)) = FrameCount(units)
<1>1. /\ FrameCount(units) \in Nat /\ Len(units) = 2 * FrameCount(units) + 2
  BY DEF Reads, HeaderReads, FrameCount
<1>2. ASSUME NEW k \in 1..FrameCount(units)
      PROVE  units[2 * k + 1].record \in JournalRecord
  <2>1. 2 * k + 1 \in 1..Len(units)
    BY <1>1
  <2>2. units[2 * k + 1] \in Unit
    BY <2>1, ElementOfSeq
  <2>3. units[2 * k + 1].part = "body"
    BY DEF Reads, FrameReads
  <2> QED
    BY <2>2, <2>3, BodyIsRecord
<1> QED
  BY <1>1, <1>2 DEF RecordsOf

\* A frame more is a record more.
LEMMA FrameExtends ==
  ASSUME NEW units \in Seq(Unit), Reads(units), NEW r \in JournalRecord
  PROVE  /\ Reads(units \o Frame(r))
         /\ FrameCount(units \o Frame(r)) = FrameCount(units) + 1
         /\ RecordsOf(units \o Frame(r)) = Append(RecordsOf(units), r)
<1> DEFINE v == units \o Frame(r)
           n == FrameCount(units)
<1>1. /\ n \in Nat /\ Len(units) = 2 * n + 2
      /\ RecordsOf(units) \in Seq(JournalRecord) /\ Len(RecordsOf(units)) = n
  BY RecordsAreJournalRecords
<1>2. /\ Frame(r) \in Seq(Unit) /\ Len(Frame(r)) = 2
      /\ Frame(r)[1] = [part |-> "body", record |-> r]
      /\ Frame(r)[2] = [part |-> "checksum", record |-> r]
  BY UnitsOfJournal
<1>3. /\ v \in Seq(Unit) /\ Len(v) = Len(units) + 2
      /\ \A i \in 1..(Len(units) + 2) :
           v[i] = IF i <= Len(units) THEN units[i] ELSE Frame(r)[i - Len(units)]
  <2> DEFINE f == Frame(r)
  <2>1. f \in Seq(Unit) /\ Len(f) = 2
    BY <1>2
  <2> HIDE DEF f
  <2>2. /\ units \o f \in Seq(Unit) /\ Len(units \o f) = Len(units) + Len(f)
        /\ \A i \in 1..(Len(units) + Len(f)) :
             (units \o f)[i] = IF i <= Len(units) THEN units[i] ELSE f[i - Len(units)]
    BY <2>1, ConcatProperties
  <2> QED
    BY <2>1, <2>2 DEF f
<1> HIDE DEF v
<1>4. FrameCount(v) = n + 1 /\ Len(v) % 2 = 0
  BY <1>1, <1>3 DEF FrameCount
<1>5. HeaderReads(v)
  <2>1. SubSeq(units, 1, 2) = Header
    BY DEF Reads, HeaderReads
  <2>2. SubSeq(v, 1, 2) = SubSeq(units, 1, 2)
    <3>1. 1 \in 1..Len(units) /\ 2 \in 1..Len(units)
      BY <1>1
    <3> QED
      BY <1>2, <3>1, SubSeqOfConcat1 DEF v
  <2> QED
    BY <1>1, <1>3, <2>1, <2>2 DEF HeaderReads
<1>6. ASSUME NEW k \in 1..n
      PROVE  v[2 * k + 1] = units[2 * k + 1] /\ v[2 * k + 2] = units[2 * k + 2]
  BY <1>1, <1>3
<1>7. v[2 * (n + 1) + 1] = Frame(r)[1] /\ v[2 * (n + 1) + 2] = Frame(r)[2]
  <2> HIDE DEF n
  <2>1. /\ 2 * (n + 1) + 1 = Len(units) + 1 /\ 2 * (n + 1) + 2 = Len(units) + 2
    BY <1>1
  <2>2. Len(units) \in Nat
    BY <1>1
  <2> QED
    BY <1>3, <2>1, <2>2
<1>8. Reads(v)
  <2>1. ASSUME NEW k \in 1..(n + 1) PROVE FrameReads(v, k)
    <3>1. CASE k \in 1..n
      BY <1>6, <3>1 DEF Reads, FrameReads
    <3>2. CASE k = n + 1
      BY <1>2, <1>7, <3>2 DEF FrameReads
    <3> QED
      BY <1>1, <3>1, <3>2
  <2> QED
    BY <1>4, <1>5, <2>1 DEF Reads
<1>9. RecordsOf(v) = Append(RecordsOf(units), r)
  <2>1. /\ Append(RecordsOf(units), r) \in Seq(JournalRecord)
        /\ Len(Append(RecordsOf(units), r)) = n + 1
        /\ \A k \in 1..n : Append(RecordsOf(units), r)[k] = RecordsOf(units)[k]
        /\ Append(RecordsOf(units), r)[n + 1] = r
    BY <1>1, AppendProperties
  <2>2. /\ RecordsOf(v) \in Seq(JournalRecord) /\ Len(RecordsOf(v)) = n + 1
    BY <1>3, <1>4, <1>8, RecordsAreJournalRecords
  <2>3. ASSUME NEW k \in 1..(n + 1)
        PROVE  RecordsOf(v)[k] = Append(RecordsOf(units), r)[k]
    <3>1. RecordsOf(v)[k] = v[2 * k + 1].record
      BY <1>4 DEF RecordsOf
    <3>2. CASE k \in 1..n
      BY <1>6, <2>1, <3>1, <3>2 DEF RecordsOf
    <3>3. CASE k = n + 1
      BY <1>2, <1>7, <2>1, <3>1, <3>3
    <3> QED
      BY <1>1, <3>2, <3>3
  <2> QED
    BY <2>1, <2>2, <2>3, SeqEqual
<1> QED
  BY <1>4, <1>8, <1>9 DEF v

\* A draining stream moves units, it adds and loses none.
LEMMA DrainKeepsStream ==
  ASSUME NEW d \in Seq(Unit), NEW b \in Seq(Unit), b # <<>>
  PROVE  /\ Append(d, Head(b)) \in Seq(Unit) /\ Tail(b) \in Seq(Unit)
         /\ Append(d, Head(b)) \o Tail(b) = d \o b
<1>1. Head(b) \in Unit /\ Tail(b) \in Seq(Unit) /\ Len(b) \in Nat \ {0}
  BY HeadTailProperties, EmptySeq
<1>2. Append(d, Head(b)) = d \o <<Head(b)>> /\ Append(d, Head(b)) \in Seq(Unit)
  BY <1>1, AppendIsConcat, AppendProperties
<1>3. <<Head(b)>> \in Seq(Unit) /\ <<Head(b)>> \o Tail(b) = b
  <2>1. b = SubSeq(b, 1, Len(b)) /\ Tail(b) = SubSeq(b, 2, Len(b)) /\ Head(b) = b[1]
    BY SubSeqFull, TailIsSubSeq
  <2>2. SubSeq(b, 1, Len(b)) = <<b[1]>> \o SubSeq(b, 2, Len(b))
    BY <1>1, SubSeqRecursiveFirst
  <2> QED
    BY <1>1, <2>1, <2>2
<1>4. (d \o <<Head(b)>>) \o Tail(b) = d \o (<<Head(b)>> \o Tail(b))
  BY <1>1, <1>3, ConcatAssociative
<1> QED
  BY <1>1, <1>2, <1>3, <1>4

-----------------------------------------------------------------------------
(* The writer. *)

\* The stream a healthy writer extends is a journal of records_written records.
StreamReads == Reads(Stream) /\ records_written = FrameCount(Stream)

\* A writer opens on a file that reads to its end, which is then its stream.
LEMMA OpenedStreamReads ==
  ASSUME disk \in Seq(Unit), OpenWriter
  PROVE  /\ disk' \in Seq(Unit) /\ buffer' \in Seq(Unit) /\ records_written' \in Nat
         /\ StreamReads'
         /\ disk = NoFile => Holds(Stream, <<>>)'
<1>1. CASE disk = NoFile \/ disk = <<>>
  <2>1. disk' = <<>> /\ buffer' = Header /\ records_written' = 0
    BY <1>1 DEF OpenWriter
  <2>2. Header \in Seq(Unit) /\ <<>> \o Header = Header
    BY UnitsOfJournal, ConcatEmptySeq
  <2>3. Stream' = Header
    BY <2>1, <2>2 DEF Stream
  <2> QED
    BY <2>1, <2>2, <2>3, HeaderHoldsNothing DEF StreamReads, Holds
<1>2. CASE disk # NoFile /\ disk # <<>>
  <2>1. disk' = disk /\ buffer' = <<>> /\ records_written' = FrameCount(disk) /\ Reads(disk)
    BY <1>2 DEF OpenWriter, CanOpen
  <2>2. Stream' = disk
    BY <2>1, ConcatEmptySeq DEF Stream
  <2> QED
    BY <1>2, <2>1, <2>2, RecordsAreJournalRecords DEF StreamReads
<1> QED
  BY <1>1, <1>2

\* An append reported as written adds its record to the stream.
LEMMA AppendExtendsStream ==
  ASSUME disk \in Seq(Unit), buffer \in Seq(Unit), StreamReads,
         NEW r \in JournalRecord, AppendRecord(r)
  PROVE  /\ disk' = disk /\ buffer' \in Seq(Unit) /\ records_written' \in Nat
         /\ StreamReads'
         /\ RecordsOf(Stream)' = Append(RecordsOf(Stream), r)
<1>1. disk' = disk /\ buffer' = buffer \o Frame(r) /\ records_written' = records_written + 1
  BY DEF AppendRecord
<1>2. Frame(r) \in Seq(Unit) /\ buffer \o Frame(r) \in Seq(Unit) /\ Stream \in Seq(Unit)
  BY UnitsOfJournal, ConcatProperties DEF Stream
<1>3. Stream' = Stream \o Frame(r)
  <2>1. disk \o (buffer \o Frame(r)) = (disk \o buffer) \o Frame(r)
    <3> DEFINE f == Frame(r)
    <3>1. f \in Seq(Unit)
      BY <1>2
    <3> HIDE DEF f
    <3>2. (disk \o buffer) \o f = disk \o (buffer \o f)
      BY <3>1, ConcatAssociative
    <3> QED
      BY <3>2 DEF f
  <2> QED
    BY <1>1, <2>1 DEF Stream
<1>4. /\ Reads(Stream')
      /\ FrameCount(Stream') = FrameCount(Stream) + 1
      /\ RecordsOf(Stream') = Append(RecordsOf(Stream), r)
  BY <1>2, <1>3, FrameExtends DEF StreamReads
<1>5. FrameCount(Stream) \in Nat
  BY <1>2, RecordsAreJournalRecords DEF StreamReads
<1> QED
  BY <1>1, <1>2, <1>4, <1>5 DEF StreamReads

\* An append that fails marks the stream, with at most a part of a frame added.
LEMMA FailedAppendBreaks ==
  ASSUME buffer \in Seq(Unit), NEW r \in JournalRecord, AppendFails(r)
  PROVE  /\ buffer' \in Seq(Unit) /\ broken' = TRUE
         /\ UNCHANGED <<disk, writing, records_written>>
<1>1. PICK n \in 0..1 : buffer' = IF broken THEN buffer ELSE buffer \o SubSeq(Frame(r), 1, n)
  BY DEF AppendFails
<1>2. SubSeq(Frame(r), 1, n) \in Seq(Unit)
  <2>1. Frame(r) \in Seq(Unit) /\ Len(Frame(r)) = 2
    BY UnitsOfJournal
  <2>2. ASSUME NEW i \in 1..n PROVE Frame(r)[i] \in Unit
    <3>1. i \in 1..Len(Frame(r))
      BY <2>1
    <3> QED
      BY <2>1, <3>1, ElementOfSeq
  <2> QED
    BY <2>2, SubSeqProperties
<1> QED
  BY <1>1, <1>2, ConcatProperties DEF AppendFails

-----------------------------------------------------------------------------
(* The writing process. *)

\* Until its journal is open a session has written nothing.
LEMMA CreateKeepsInv ==
  ASSUME SessionInv, CreateMetadata PROVE SessionInv'
BY DEF SessionInv, SessionTypeOK, StepInv, ManifestInv, CreateMetadata, journalVars

\* The journal of a session starts with a header and no records.
LEMMA OpenKeepsInv ==
  ASSUME SessionInv, OpenJournal PROVE SessionInv'
<1>1. /\ step = "open" /\ step' = "append" /\ disk \in Seq(Unit) /\ disk = NoFile /\ OpenWriter
      /\ metadata' = metadata /\ metadata = "whole" /\ closed' = closed /\ ~closed
      /\ appended' = appended /\ appended = <<>>
      /\ outcome' = outcome /\ outcome = "none" /\ harmed' = harmed /\ ~harmed
      /\ manifest' = manifest /\ manifest = NoManifest
  BY DEF OpenJournal, SessionInv, SessionTypeOK, StepInv, ManifestInv
<1>2. writing' = TRUE /\ broken' = FALSE
  BY <1>1 DEF OpenWriter
<1>3. /\ disk' \in Seq(Unit) /\ buffer' \in Seq(Unit) /\ records_written' \in Nat
      /\ StreamReads' /\ Holds(Stream, <<>>)'
  BY <1>1, OpenedStreamReads
<1>4. SessionTypeOK'
  BY <1>1, <1>2, <1>3 DEF SessionInv, SessionTypeOK
<1>5. StepInv'
  BY <1>1, <1>2, <1>3 DEF StepInv, StreamReads
<1>6. ManifestInv'
  BY <1>1 DEF ManifestInv
<1> QED
  BY <1>4, <1>5, <1>6 DEF SessionInv

\* An append adds its record to the stream, or poisons the session.
LEMMA AppendKeepsInv ==
  ASSUME SessionInv, NEW r \in JournalRecord, AppendOk(r) \/ AppendIoError(r) PROVE SessionInv'
<1>1. /\ step = "append" /\ step' = "append" /\ ~closed /\ r.version = Version
      /\ disk \in Seq(Unit) /\ buffer \in Seq(Unit) /\ writing /\ ~broken
      /\ Holds(Stream, appended) /\ StreamReads
      /\ UNCHANGED <<metadata, manifest, outcome, harmed>>
      /\ metadata = "whole" /\ outcome = "none" /\ ~harmed /\ manifest = NoManifest
  <2>1. /\ step = "append" /\ step' = "append" /\ ~closed /\ r.version = Version
        /\ UNCHANGED <<metadata, manifest, outcome, harmed>>
    BY DEF AppendOk, AppendIoError
  <2> QED
    BY <2>1 DEF SessionInv, SessionTypeOK, StepInv, ManifestInv, StreamReads, Holds
<1>2. ManifestInv'
  BY <1>1 DEF ManifestInv
<1>3. CASE AppendOk(r)
  <2>1. AppendRecord(r) /\ appended' = Append(appended, r) /\ closed' = closed
    BY <1>3 DEF AppendOk
  <2>2. writing' = writing /\ broken' = broken
    BY <2>1 DEF AppendRecord
  <2>3. /\ disk' = disk /\ buffer' \in Seq(Unit) /\ records_written' \in Nat
        /\ StreamReads' /\ RecordsOf(Stream)' = Append(RecordsOf(Stream), r)
    BY <1>1, <2>1, AppendExtendsStream
  <2>4. appended' \in Seq({q \in JournalRecord : q.version = Version})
    BY <1>1, <2>1, AppendProperties DEF SessionInv, SessionTypeOK
  <2>5. SessionTypeOK'
    BY <1>1, <2>2, <2>3, <2>4 DEF SessionInv, SessionTypeOK
  <2>6. Holds(Stream, appended)'
    BY <1>1, <2>1, <2>3 DEF Holds, StreamReads
  <2>7. StepInv'
    BY <1>1, <2>1, <2>2, <2>3, <2>6 DEF StepInv, StreamReads
  <2> QED
    BY <1>2, <2>5, <2>7 DEF SessionInv
<1>4. CASE AppendIoError(r)
  <2>1. AppendFails(r) /\ closed' = TRUE /\ appended' = appended
    BY <1>4 DEF AppendIoError
  <2>2. /\ buffer' \in Seq(Unit) /\ broken' = TRUE
        /\ UNCHANGED <<disk, writing, records_written>>
    BY <1>1, <2>1, FailedAppendBreaks
  <2>3. SessionTypeOK'
    BY <1>1, <2>1, <2>2 DEF SessionInv, SessionTypeOK
  <2>4. StepInv'
    BY <1>1, <2>1, <2>2 DEF StepInv
  <2> QED
    BY <1>2, <2>3, <2>4 DEF SessionInv
<1> QED
  BY <1>3, <1>4

\* The stream draining changes where units are, not what they say.
LEMMA DrainKeepsInv ==
  ASSUME SessionInv, StreamDrains PROVE SessionInv'
<1>1. /\ writing /\ buffer # <<>> /\ disk \in Seq(Unit) /\ buffer \in Seq(Unit)
      /\ disk' = Append(disk, Head(buffer)) /\ buffer' = Tail(buffer)
      /\ UNCHANGED <<writing, broken, records_written>>
      /\ UNCHANGED <<metadata, pending, manifest, closed, step, outcome, appended, harmed>>
  BY DEF StreamDrains, Drain, sessionVars, SessionInv, SessionTypeOK
<1>2. disk' \in Seq(Unit) /\ buffer' \in Seq(Unit) /\ Stream' = Stream
  BY <1>1, DrainKeepsStream DEF Stream
<1>3. SessionTypeOK'
  BY <1>1, <1>2 DEF SessionInv, SessionTypeOK
<1>4. StepInv'
  <2>1. WriterExtendsReadableJournal <=> (writing /\ ~broken => StreamReads)
    BY DEF WriterExtendsReadableJournal, StreamReads, Stream
  <2>2. WriterExtendsReadableJournal' <=> (writing' /\ ~broken' => StreamReads')
    BY DEF WriterExtendsReadableJournal, StreamReads, Stream
  <2>3. StreamReads' <=> StreamReads
    BY <1>1, <1>2 DEF StreamReads
  <2>4. Holds(Stream, appended)' <=> Holds(Stream, appended)
    BY <1>1, <1>2
  <2>5. FrameCount(Stream)' = FrameCount(Stream)
    BY <1>2
  <2> QED
    BY <1>1, <2>1, <2>2, <2>3, <2>4, <2>5 DEF SessionInv, StepInv
<1>5. ManifestInv'
  BY <1>1 DEF SessionInv, ManifestInv, Published
<1> QED
  BY <1>3, <1>4, <1>5 DEF SessionInv

\* flush() moves the whole stream into the file.
LEMMA FlushMovesStream ==
  ASSUME disk \in Seq(Unit), buffer \in Seq(Unit), disk' = disk \o buffer, buffer' = <<>>
  PROVE  disk' \in Seq(Unit) /\ buffer' \in Seq(Unit) /\ disk' = Stream /\ Stream' = Stream
<1>1. disk \o buffer \in Seq(Unit)
  BY ConcatProperties
<1> QED
  BY <1>1, ConcatEmptySeq, EmptySeq DEF Stream

\* A finalize that fails leaves a session that nobody appends to any more.
LEMMA FinalizeErrorKeepsInv ==
  ASSUME SessionInv, step \in {"append", "validate", "write_pending", "rename"}, FinalizeError,
         UNCHANGED <<disk, buffer, writing, records_written>>,
         broken' \in BOOLEAN, writing => broken'
  PROVE  SessionInv'
<1>1. /\ outcome' = "error" /\ step' = "gone"
      /\ UNCHANGED <<metadata, pending, manifest, appended, harmed>>
  BY DEF FinalizeError
<1>2. SessionTypeOK'
  BY <1>1 DEF SessionInv, SessionTypeOK
<1>3. StepInv'
  BY <1>1 DEF StepInv
<1>4. ManifestInv'
  BY <1>1 DEF SessionInv, StepInv, ManifestInv
<1> QED
  BY <1>2, <1>3, <1>4 DEF SessionInv

\* After the flush of finalize the file is what the stream was.
LEMMA FlushKeepsInv ==
  ASSUME SessionInv, FinalizeFlush PROVE SessionInv'
<1>1. step = "append" /\ ~closed
  BY DEF FinalizeFlush
<1>2. CASE /\ FlushAndReset
           /\ step' = "validate"
           /\ UNCHANGED <<metadata, pending, manifest, outcome, appended, harmed>>
  <2>1. /\ disk' \in Seq(Unit) /\ buffer' = <<>> /\ buffer' \in Seq(Unit) /\ disk' = Stream
        /\ writing' = FALSE /\ UNCHANGED <<broken, records_written>>
    BY <1>2, FlushMovesStream DEF FlushAndReset, SessionInv, SessionTypeOK
  <2>2. SessionTypeOK'
    BY <1>2, <2>1 DEF SessionInv, SessionTypeOK
  <2>3. Holds(disk, appended)' /\ records_written' = FrameCount(disk')
    BY <1>1, <1>2, <2>1 DEF SessionInv, StepInv
  <2>4. StepInv'
    BY <1>1, <1>2, <2>1, <2>3 DEF SessionInv, StepInv
  <2>5. ManifestInv'
    BY <1>1, <1>2 DEF SessionInv, StepInv, ManifestInv
  <2> QED
    BY <2>2, <2>4, <2>5 DEF SessionInv
<1>3. CASE /\ FinalizeError
           /\ broken' = TRUE
           /\ UNCHANGED <<disk, buffer, writing, records_written>>
  BY <1>1, <1>3, FinalizeErrorKeepsInv
<1> QED
  BY <1>2, <1>3 DEF FinalizeFlush

\* Validation writes nothing.
LEMMA ValidateKeepsInv ==
  ASSUME SessionInv, FinalizeValidate PROVE SessionInv'
<1>1. /\ step = "validate" /\ UNCHANGED <<disk, buffer, writing, broken, records_written, closed>>
      /\ ~writing /\ broken \in BOOLEAN
  BY DEF FinalizeValidate, journalVars, SessionInv, SessionTypeOK, StepInv
<1>2. CASE /\ step' = "write_pending"
           /\ UNCHANGED <<metadata, pending, manifest, outcome, appended, harmed>>
  <2>1. SessionTypeOK'
    BY <1>1, <1>2 DEF SessionInv, SessionTypeOK
  <2>2. StepInv'
    BY <1>1, <1>2 DEF SessionInv, StepInv
  <2>3. ManifestInv'
    BY <1>1, <1>2 DEF SessionInv, StepInv, ManifestInv
  <2> QED
    BY <2>1, <2>2, <2>3 DEF SessionInv
<1>3. CASE FinalizeError
  BY <1>1, <1>3, FinalizeErrorKeepsInv
<1> QED
  BY <1>2, <1>3 DEF FinalizeValidate

\* The pending manifest describes the file as it is.
LEMMA PendingKeepsInv ==
  ASSUME SessionInv, WritePending PROVE SessionInv'
<1>1. /\ step = "write_pending" /\ step' \in {"rename", "gone"}
      /\ step' = "rename" => pending' = Manifest(records_written, disk) /\ outcome' = outcome
      /\ step' = "gone" => outcome' = "error"
      /\ UNCHANGED <<disk, buffer, writing, broken, records_written>>
      /\ UNCHANGED <<metadata, manifest, closed, appended, harmed>>
  BY DEF WritePending, journalVars
<1>2. SessionTypeOK'
  BY <1>1 DEF SessionInv, SessionTypeOK
<1>3. StepInv'
  BY <1>1 DEF SessionInv, StepInv, Manifest
<1>4. ManifestInv'
  BY <1>1 DEF SessionInv, StepInv, ManifestInv
<1> QED
  BY <1>2, <1>3, <1>4 DEF SessionInv

\* The rename publishes a manifest of exactly the records appended.
LEMMA RenameKeepsInv ==
  ASSUME SessionInv, Rename PROVE SessionInv'
<1>1. /\ step = "rename" /\ UNCHANGED <<disk, buffer, writing, broken, records_written, closed>>
      /\ ~writing /\ broken \in BOOLEAN /\ disk \in Seq(Unit) /\ metadata = "whole"
      /\ Holds(disk, appended) /\ pending = Manifest(FrameCount(disk), disk)
  BY DEF Rename, journalVars, SessionInv, SessionTypeOK, StepInv
<1>2. CASE /\ manifest' = pending
           /\ outcome' = "manifest" /\ step' = "gone"
           /\ UNCHANGED <<metadata, appended, harmed>>
  <2>1. SessionTypeOK'
    BY <1>1, <1>2 DEF SessionInv, SessionTypeOK
  <2>2. StepInv'
    BY <1>1, <1>2 DEF StepInv
  <2>3. manifest' = Manifest(FrameCount(disk), disk) /\ Holds(disk, appended')
    BY <1>1, <1>2
  <2>4. Published'
    BY <1>1, <2>3 DEF Published
  <2>5. ManifestInv'
    BY <1>1, <1>2, <2>3, <2>4 DEF ManifestInv
  <2> QED
    BY <2>1, <2>2, <2>5 DEF SessionInv
<1>3. CASE FinalizeError
  BY <1>1, <1>3, FinalizeErrorKeepsInv
<1> QED
  BY <1>2, <1>3 DEF Rename

-----------------------------------------------------------------------------
(* Failure and later lives. *)

\* The process dying loses what the stream held, and nothing published.
LEMMA DeathKeepsInv ==
  ASSUME SessionInv, ProcessDies PROVE SessionInv'
<1>1. /\ step # "gone" /\ step' = "gone" /\ writing' = FALSE /\ buffer' = <<>>
      /\ UNCHANGED <<disk, broken, records_written>>
      /\ UNCHANGED <<metadata, pending, manifest, closed, outcome, appended, harmed>>
  BY DEF ProcessDies
<1>2. SessionTypeOK'
  BY <1>1, EmptySeq DEF SessionInv, SessionTypeOK
<1>3. StepInv'
  BY <1>1 DEF StepInv
<1>4. ManifestInv'
  BY <1>1 DEF SessionInv, ManifestInv, Published
<1> QED
  BY <1>2, <1>3, <1>4 DEF SessionInv

\* Damage tears a published manifest or leaves it as it is.
LEMMA DamageKeepsInv ==
  ASSUME SessionInv, Damage PROVE SessionInv'
<1>1. /\ step = "gone" /\ step' = "gone" /\ harmed' = TRUE
      /\ manifest' = manifest \/ (manifest.state = "complete" /\ manifest' = TornManifest)
      /\ UNCHANGED <<buffer, writing, broken, records_written>>
      /\ UNCHANGED <<pending, closed, outcome, appended>>
  BY DEF Damage
<1>2. disk' \in Seq(Unit)
  <2>1. disk \in Seq(Unit)
    BY DEF SessionInv, SessionTypeOK
  <2>2. ASSUME NEW n \in 0..(Len(disk) - 1), disk' = SubSeq(disk, 1, n) PROVE disk' \in Seq(Unit)
    <3>1. Len(disk) \in Nat
      BY <2>1, LenProperties
    <3>2. ASSUME NEW i \in 1..n PROVE disk[i] \in Unit
      <4>1. i \in 1..Len(disk)
        BY <2>2, <3>1
      <4> QED
        BY <2>1, <4>1, ElementOfSeq
    <3> QED
      BY <2>2, <3>1, <3>2, SubSeqProperties
  <2>3. ASSUME NEW i \in DOMAIN disk, disk' = [disk EXCEPT ![i] = Corrupt] PROVE disk' \in Seq(Unit)
    <3>1. i \in 1..Len(disk) /\ Corrupt \in Unit
      BY <2>1, LenProperties, UnitsOfJournal
    <3> QED
      BY <2>1, <2>3, <3>1, ExceptSeq
  <2> QED
    BY <2>1, <2>2, <2>3 DEF Damage
<1>3. SessionTypeOK'
  BY <1>1, <1>2 DEF SessionInv, SessionTypeOK
<1>4. StepInv'
  BY <1>1 DEF SessionInv, StepInv
<1>5. ManifestInv'
  BY <1>1 DEF SessionInv, ManifestInv, Published, NoManifest
<1> QED
  BY <1>3, <1>4, <1>5 DEF SessionInv

\* A later writer extends what reads, and leaves what was published alone.
LEMMA LaterKeepsInv ==
  ASSUME SessionInv, LaterOpens \/ LaterWrites PROVE SessionInv'
<1> DEFINE Kept == /\ disk' \in Seq(Unit) /\ buffer' \in Seq(Unit)
                   /\ writing' \in BOOLEAN /\ broken' \in BOOLEAN /\ records_written' \in Nat
                   /\ writing' /\ ~broken' => StreamReads'
<1> HIDE DEF Kept
<1>1. /\ disk \in Seq(Unit) /\ buffer \in Seq(Unit) /\ writing \in BOOLEAN /\ broken \in BOOLEAN
      /\ records_written \in Nat
  BY DEF SessionInv, SessionTypeOK
<1>2. /\ step \in {"gone", "later"} /\ step' = "later" /\ harmed' = TRUE
      /\ UNCHANGED <<metadata, pending, manifest, closed, outcome, appended>>
  BY DEF LaterOpens, LaterWrites, sessionVars, SessionInv, StepInv, SessionTypeOK
<1>3. ASSUME LaterOpens PROVE Kept
  BY <1>1, <1>3, OpenedStreamReads DEF LaterOpens, OpenWriter, Kept
<1>4. ASSUME LaterWrites PROVE Kept
  <2>1. writing /\ ~broken => StreamReads
    BY <1>4 DEF LaterWrites, SessionInv, StepInv, WriterExtendsReadableJournal, StreamReads, Stream
  <2>2. ASSUME NEW r \in JournalRecord, AppendRecord(r) PROVE Kept
    <3>1. writing /\ ~broken /\ UNCHANGED <<writing, broken>>
      BY <2>2 DEF AppendRecord
    <3> QED
      BY <1>1, <2>1, <2>2, <3>1, AppendExtendsStream DEF Kept
  <2>3. ASSUME NEW r \in JournalRecord, AppendFails(r) PROVE Kept
    BY <1>1, <2>3, FailedAppendBreaks DEF Kept
  <2>4. ASSUME Flush PROVE Kept
    <3>1. /\ writing /\ ~broken /\ disk' = disk \o buffer /\ buffer' = <<>>
          /\ UNCHANGED <<writing, broken, records_written>>
      BY <2>4 DEF Flush
    <3>2. disk' \in Seq(Unit) /\ buffer' \in Seq(Unit) /\ Stream' = Stream
      BY <1>1, <3>1, FlushMovesStream
    <3>3. StreamReads' <=> StreamReads
      BY <3>1, <3>2 DEF StreamReads
    <3> QED
      BY <1>1, <2>1, <3>1, <3>2, <3>3 DEF Kept
  <2> QED
    BY <1>4, <2>2, <2>3, <2>4 DEF LaterWrites
<1>5. SessionTypeOK'
  BY <1>1, <1>2, <1>3, <1>4 DEF Kept, SessionInv, SessionTypeOK
<1>6. WriterExtendsReadableJournal'
  BY <1>3, <1>4 DEF Kept, WriterExtendsReadableJournal, StreamReads, Stream
<1>7. StepInv'
  BY <1>2, <1>6 DEF StepInv
<1>8. ManifestInv'
  BY <1>2 DEF SessionInv, ManifestInv, Published
<1> QED
  BY <1>5, <1>7, <1>8 DEF SessionInv

-----------------------------------------------------------------------------
(* The theorems. *)

\* A session starts with no files.
LEMMA SessionInitial ==
  ASSUME SessionInit PROVE SessionInv
<1>1. NoFile \in Seq(Unit) /\ <<>> \in Seq(Unit)
  BY UnitsOfJournal, EmptySeq
<1>2. SessionTypeOK
  BY <1>1, EmptySeq DEF SessionInit, JournalInit, SessionTypeOK
<1> QED
  BY <1>2 DEF SessionInit, JournalInit, SessionInv, StepInv, ManifestInv

\* Every step of the writing process, and every harm, keeps the invariant.
LEMMA SessionStep ==
  ASSUME SessionInv, [SessionNext]_svars PROVE SessionInv'
<1>1. CASE UNCHANGED svars
  BY <1>1 DEF svars, SessionInv, SessionTypeOK, StepInv, ManifestInv, Published, Holds, Stream,
              WriterExtendsReadableJournal
<1>2. CASE FinalizeClosed
  <2>1. /\ step = "append" /\ FinalizeError /\ closed
        /\ UNCHANGED <<disk, buffer, writing, broken, records_written>>
    BY <1>2 DEF FinalizeClosed, journalVars
  <2>2. broken = TRUE
    BY <2>1 DEF SessionInv, SessionTypeOK, StepInv
  <2> QED
    BY <2>1, <2>2, FinalizeErrorKeepsInv
<1> QED
  BY <1>1, <1>2, CreateKeepsInv, OpenKeepsInv, AppendKeepsInv, DrainKeepsInv, FlushKeepsInv,
     ValidateKeepsInv, PendingKeepsInv, RenameKeepsInv, DeathKeepsInv, DamageKeepsInv,
     LaterKeepsInv DEF SessionNext

\* In every reachable state the stream of a healthy writer reads, and a manifest
\* that is there and whole describes a journal of exactly what was appended.
THEOREM SessionInvariant == SessionSpec => []SessionInv
<1> QED
  BY SessionInitial, SessionStep, PTL DEF SessionSpec

\* Only a published manifest whose journal is the file verifies.
LEMMA VerifiedMeans ==
  ASSUME SessionInv
  PROVE  /\ VerifyResult = "verified" =>
              metadata = "whole" /\ manifest.state = "complete" /\ disk = manifest.journal
         /\ outcome # "manifest" => VerifyResult = "incomplete_session"
<1>1. manifest.state \in {"absent", "torn", "complete"}
  BY DEF SessionInv, ManifestInv, Published, NoManifest, TornManifest, Manifest
<1>2. outcome # "manifest" => manifest.state = "absent"
  BY DEF SessionInv, ManifestInv, NoManifest
<1> QED
  BY <1>1, <1>2 DEF VerifyResult

\* Whatever died and whatever was damaged, and whoever opened the journal
\* later: a writer extends a journal that can be read back, and what verifies
\* is what was appended, all of it and in order.
THEOREM JournalsAreWhole == SessionSpec => []JournalIsWhole
<1>1. ASSUME SessionInv PROVE WriterExtendsReadableJournal
  <2>1. writing /\ ~broken /\ step # "later" => step = "append"
    BY <1>1 DEF SessionInv, SessionTypeOK, StepInv
  <2> QED
    BY <1>1, <2>1 DEF SessionInv, StepInv, Holds, Stream, WriterExtendsReadableJournal
<1>2. ASSUME SessionInv, VerifyResult = "verified"
      PROVE  RecordsOf(disk) = appended /\ metadata = "whole"
  <2>1. outcome = "manifest" /\ manifest.state = "complete" /\ disk = manifest.journal
        /\ metadata = "whole"
    BY <1>2, VerifiedMeans
  <2>2. Published
    BY <1>2, <2>1 DEF SessionInv, ManifestInv, TornManifest
  <2> QED
    BY <2>1, <2>2 DEF Published, Holds, Manifest
<1>3. SessionInv => JournalIsWhole
  BY <1>1, <1>2 DEF JournalIsWhole, VerifiedIsExactlyAppended
<1> QED
  BY <1>3, SessionInvariant, PTL

\* A session verifies exactly when its finalize reported the manifest, as long
\* as nobody else has touched the files: not after an error, nor when the
\* process died before the rename.
THEOREM PublishedVerifies == SessionSpec => []VerifiesIffPublished
<1>1. ASSUME SessionInv, outcome = "manifest", ~harmed PROVE VerifyResult = "verified"
  <2>1. /\ metadata = "whole" /\ disk \in Seq(Unit)
        /\ manifest = Manifest(FrameCount(disk), disk) /\ Holds(disk, appended)
    BY <1>1 DEF SessionInv, SessionTypeOK, ManifestInv
  <2>2. manifest.state = "complete" /\ manifest.records = FrameCount(disk)
        /\ manifest.journal = disk
    BY <2>1 DEF Manifest
  <2>3. ValidJournal(disk, manifest.records)
    <3>1. ASSUME NEW k \in 1..FrameCount(disk) PROVE RecordsOf(disk)[k].version = Version
      <4>1. k \in 1..Len(appended)
        BY <2>1, RecordsAreJournalRecords DEF Holds
      <4>2. appended[k] \in {r \in JournalRecord : r.version = Version}
        BY <1>1, <4>1, ElementOfSeq DEF SessionInv, SessionTypeOK
      <4> QED
        BY <2>1, <4>2 DEF Holds
    <3> QED
      BY <2>1, <2>2, <3>1 DEF ValidJournal, Holds
  <2> QED
    BY <2>1, <2>2, <2>3 DEF VerifyResult
<1>2. SessionInv => VerifiesIffPublished
  BY <1>1, VerifiedMeans DEF VerifiesIffPublished
<1> QED
  BY <1>2, SessionInvariant, PTL

==============================================================================
