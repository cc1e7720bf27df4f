------------------------------ MODULE AsyncJsonl ------------------------------
(***************************************************************************)
(* detail::AsyncJsonl (src/session/async_jsonl.hpp): the stream behind a   *)
(* study's output.  The producer completes lines, a worker writes them; a  *)
(* mutex guards the queue, the retained bytes and the closing flag, one    *)
(* condition variable wakes the worker, and failed_ is atomic.             *)
(*                                                                         *)
(* A critical section is one step, as everything it touches but failed_ is *)
(* touched only under the mutex.  A line stands for its charge, one byte   *)
(* of the budget per byte put.  The stream's badbit is failed_: every path *)
(* that sets one sets the other.                                           *)
(***************************************************************************)
EXTENDS Integers, Sequences, FiniteSets

CONSTANTS
  Budget,      \* budget_
  MaxPending,  \* largest line
  MaxLines     \* bound: lines the producer completes

JsonlConstants == Budget \in Nat /\ MaxPending \in Nat \ {0} /\ MaxLines \in Nat

VARIABLES
  producer,   \* the producer's next step
  pending,    \* size of pending_
  accepted,   \* lines publish() returned true for
  healthy,    \* what finish() returned true
  \* under the mutex
  queue, retained, closing,
  failed,     \* failed_
  worker,     \* the worker's next step
  line,       \* the line taken from the queue; NoLine when there is none
  blocked,    \* in ready_.wait
  file        \* lines in the file

producerVars == <<producer, pending, accepted, healthy>>
lockedVars == <<queue, retained, closing>>
workerVars == <<worker, line, blocked, file>>
vars == <<producer, pending, accepted, healthy, queue, retained, closing, failed,
          worker, line, blocked, file>>

Line == [id : 1..MaxLines, charge : 1..MaxPending]
NoLine == [id |-> 0, charge |-> 0]

Init ==
  /\ producer = "idle" /\ pending = 0 /\ accepted = <<>> /\ healthy = FALSE
  /\ queue = <<>> /\ retained = 0 /\ closing = FALSE /\ failed = FALSE
  /\ worker = "wait" /\ line = NoLine /\ blocked = FALSE /\ file = <<>>

-----------------------------------------------------------------------------
(* The producer. *)

ProducerGoes(from, to) == producer = from /\ producer' = to

\* xsputn takes one byte, which may be the end of a line.
Put ==
  /\ ~failed /\ Len(accepted) < MaxLines /\ pending < MaxPending
  /\ \E to \in {"idle", "publish"} : ProducerGoes("idle", to)
  /\ pending' = pending + 1
  /\ UNCHANGED <<accepted, healthy, lockedVars, failed, workerVars>>

PutTooLong ==
  /\ producer = "idle" /\ ~failed /\ pending = MaxPending
  /\ failed' = TRUE
  /\ UNCHANGED <<producerVars, lockedVars, workerVars>>

HasRoom == retained + pending <= Budget

\* publish(): under the mutex, the line goes to the queue or the stream fails.
Publish ==
  /\ ProducerGoes("publish", "notify")
  /\ ~closing /\ ~failed /\ HasRoom
  /\ LET new == [id |-> Len(accepted) + 1, charge |-> pending]
     IN  queue' = Append(queue, new) /\ accepted' = Append(accepted, new)
  /\ retained' = retained + pending
  /\ pending' = 0
  /\ UNCHANGED <<healthy, closing, failed, workerVars>>

PublishFails ==
  /\ ProducerGoes("publish", "idle")
  /\ closing \/ failed \/ ~HasRoom
  /\ failed' = TRUE
  /\ UNCHANGED <<pending, accepted, healthy, lockedVars, workerVars>>

\* ready_.notify_one(), after the mutex is free again.
Notify ==
  /\ \/ ProducerGoes("notify", "idle")
     \/ ProducerGoes("close_notify", "join")
  /\ blocked' = FALSE
  /\ UNCHANGED <<pending, accepted, healthy, lockedVars, failed, worker, line, file>>

\* finish() while the thread is joinable; an unfinished line is a failure.
Finish ==
  /\ ProducerGoes("idle", "close")
  /\ failed' = (failed \/ pending > 0)
  /\ UNCHANGED <<pending, accepted, healthy, lockedVars, workerVars>>

Close ==
  /\ ProducerGoes("close", "close_notify")
  /\ closing' = TRUE
  /\ UNCHANGED <<pending, accepted, healthy, queue, retained, failed, workerVars>>

Join ==
  /\ worker = "done"
  /\ ProducerGoes("join", "joined")
  /\ healthy' = ~failed
  /\ UNCHANGED <<pending, accepted, lockedVars, failed, workerVars>>

-----------------------------------------------------------------------------
(* The worker: run. *)

WorkerGoes(from, to) == worker = from /\ worker' = to

Take ==
  /\ ~blocked /\ queue # <<>>
  /\ WorkerGoes("wait", "write")
  /\ line' = Head(queue)
  /\ queue' = Tail(queue)
  /\ UNCHANGED <<producerVars, retained, closing, failed, blocked, file>>

\* ready_.wait: the predicate is false, so the mutex is given up and the
\* thread blocks, as one step.
Block ==
  /\ worker = "wait" /\ ~blocked /\ ~closing /\ queue = <<>>
  /\ blocked' = TRUE
  /\ UNCHANGED <<producerVars, lockedVars, failed, worker, line, file>>

SpuriousWakeup ==
  /\ blocked /\ blocked' = FALSE
  /\ UNCHANGED <<producerVars, lockedVars, failed, worker, line, file>>

\* Mutant of Leave: closing ends the loop whatever is queued.
LeaveQueued ==
  /\ ~blocked /\ closing
  /\ WorkerGoes("wait", "close_file")
  /\ UNCHANGED <<producerVars, lockedVars, failed, line, blocked, file>>

Leave ==
  /\ ~blocked /\ closing /\ queue = <<>>
  /\ WorkerGoes("wait", "close_file")
  /\ UNCHANGED <<producerVars, lockedVars, failed, line, blocked, file>>

\* write and flush.
Write ==
  /\ WorkerGoes("write", "release")
  /\ file' = Append(file, line)
  /\ UNCHANGED <<producerVars, lockedVars, failed, line, blocked>>

Release ==
  /\ WorkerGoes("release", "wait")
  /\ retained' = retained - line.charge
  /\ line' = NoLine
  /\ UNCHANGED <<producerVars, queue, closing, failed, blocked, file>>

CloseFile ==
  /\ WorkerGoes("close_file", "done")
  /\ UNCHANGED <<producerVars, lockedVars, failed, line, blocked, file>>

\* A write, a flush or the close of the file that fails ends the thread.
FileFails ==
  /\ WorkerGoes("write", "done") \/ WorkerGoes("close_file", "done")
  /\ failed' = TRUE
  /\ UNCHANGED <<producerVars, lockedVars, line, blocked, file>>

-----------------------------------------------------------------------------
InCall == Publish \/ PublishFails \/ Notify \/ Close \/ Join
Calls == Put \/ PutTooLong \/ Finish
Run == Take \/ Block \/ Leave \/ Write \/ Release \/ CloseFile \/ FileFails

Terminated == producer = "joined" /\ UNCHANGED vars

Next == Calls \/ InCall \/ Run \/ SpuriousWakeup \/ Terminated

Spec == Init /\ [][Next]_vars

\* Both threads are scheduled; nothing makes the producer call, and nothing
\* wakes a blocked thread that is not notified.
FairSpec == Spec /\ WF_vars(InCall) /\ WF_vars(Run)

-----------------------------------------------------------------------------
(* Properties. *)

\* The bytes held in memory, those of the line being written included: byte b of
\* line n is <<n, b>>.
HeldLines == {line} \cup {queue[i] : i \in DOMAIN queue}
HeldBytes == UNION {{l.id} \X (1..l.charge) : l \in HeldLines}

\* The bytes held stay within the budget, and retained_ is exactly their number,
\* so that a long run leaks none of it.  A failed write keeps its line: the
\* stream is dead by then.
RetainedIsHeld == retained = Cardinality(HeldBytes) /\ retained <= Budget

\* A published line reaches the file unless the stream fails, although the
\* producer never looks back (publish notifies after it has unlocked).
LinesAreWritten ==
  \A n \in 1..MaxLines : Len(accepted) >= n ~> Len(file) >= n \/ failed

\* finish() and the destructor return.
FinishReturns == producer = "close" ~> producer = "joined"

Log == INSTANCE CaptureLog WITH
         Record <- Line, journal <- file, published <- healthy

\* The stream is the same plain log that AsyncCapture implements: lines are
\* written in order, and finish() returns true only when the file holds all
\* lines the producer completed.
JsonlImplementsLog == Log!LogSpec
==============================================================================
