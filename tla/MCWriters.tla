------------------------------ MODULE MCWriters ------------------------------
(* The two writers that have a thread of their own: a behaviour is one of   *)
(* AsyncCapture or, as stream says, of AsyncJsonl; the other is not used.   *)
EXTENDS AsyncCapture

CONSTANTS Budget, MaxPending, MaxLines

VARIABLES
  stream,
  producer, pending, lines, healthy, queue, retained, stream_closing, failed,
  stream_worker, line, stream_blocked, file

Jsonl == INSTANCE AsyncJsonl
           WITH accepted <- lines, closing <- stream_closing, worker <- stream_worker,
                blocked <- stream_blocked

ASSUME Jsonl!JsonlConstants

jsonlVars == <<producer, pending, lines, healthy, queue, retained, stream_closing, failed,
               stream_worker, line, stream_blocked, file>>
mcVars == <<stream, vars, jsonlVars>>

MCInit == stream \in BOOLEAN /\ Init /\ Jsonl!Init

MCNext ==
  /\ \/ stream /\ Jsonl!Next /\ UNCHANGED vars
     \/ ~stream /\ Next /\ UNCHANGED jsonlVars
  /\ UNCHANGED stream

\* The fairness of AsyncCapture!FairSpec and AsyncJsonl!FairSpec.
MCSpec ==
  /\ MCInit /\ [][MCNext]_mcVars
  /\ WF_mcVars(~stream /\ InCall /\ UNCHANGED <<stream, jsonlVars>>)
  /\ WF_mcVars(~stream /\ Run /\ UNCHANGED <<stream, jsonlVars>>)
  /\ WF_mcVars(stream /\ Jsonl!InCall /\ UNCHANGED <<stream, vars>>)
  /\ WF_mcVars(stream /\ Jsonl!Run /\ UNCHANGED <<stream, vars>>)

\* The stream behind a study's output implements the same plain log, and the bytes
\* it charges are those it holds, within its budget.
StreamImplementsLog == Jsonl!JsonlImplementsLog /\ []Jsonl!RetainedIsHeld

\* Neither writer loses a wakeup: what was accepted is written unless the writer
\* fails, and finish() and the destructor return.
WritersFinish ==
  /\ AcceptedIsWritten /\ FinishReturns
  /\ Jsonl!LinesAreWritten /\ Jsonl!FinishReturns
==============================================================================
