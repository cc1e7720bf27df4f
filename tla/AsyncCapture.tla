---------------------------- MODULE AsyncCapture -----------------------------
(***************************************************************************)
(* AsyncCaptureWriter (src/session/async_capture.cpp): one caller thread   *)
(* appends records to a bounded ring, one worker thread writes them to the *)
(* session and, when the caller finishes, publishes it.  A step is one     *)
(* atomic load, store or compare-exchange, or one use of a ring slot;      *)
(* epoch_.wait is a compare-and-block and notify_one a separate step, so   *)
(* every interleaving the atomics allow is a behaviour.                    *)
(*                                                                         *)
(* The session writer is modelled by its effect: an append puts the record *)
(* in the journal or fails, finalize publishes the manifest or fails       *)
(* (module Session has the steps of finalize).                             *)
(***************************************************************************)
EXTENDS Integers, FiniteSets, Sequences, SequencesExt

CONSTANTS
  Capacity,     \* limits.records; the ring has one slot more
  ByteLimit,    \* limits.retained_bytes
  Charge,       \* retained size of a record: channel + payload + sizeof
  MaxAppends    \* bound: append calls the caller makes

ASSUME CaptureConstants ==
  /\ Capacity \in Nat \ {0}
  /\ ByteLimit \in Nat
  /\ Charge \subseteq Nat \ {0}
  /\ MaxAppends \in Nat

VARIABLES
  \* shared
  slots,           \* ring slot -> the record in it, NoRecord once released
  head, tail,      \* head_ and tail_
  epoch,           \* epoch_
  consumed_bytes,  \* consumed_bytes_
  written_records, \* written_records_
  failure,         \* failure_
  closing,         \* closing_
  \* the caller
  caller,          \* the caller's next step
  record,          \* the record being appended
  seen_consumed,   \* consumed_bytes_ as append loaded it
  accepted,        \* the records append returned queued for
  accepted_bytes,  \* accepted_bytes_
  appends,         \* append calls made
  finished,        \* finished_
  \* the worker
  worker,          \* the worker's next step
  seen_epoch, seen_closing,
  blocked,         \* inside epoch_.wait
  result,          \* result_: "none" while empty
  \* the session
  journal,         \* records written
  published        \* the manifest exists

shared == <<slots, head, tail, epoch, consumed_bytes, written_records, failure, closing>>
callerVars == <<caller, record, seen_consumed, accepted, accepted_bytes, appends, finished>>
workerVars == <<worker, seen_epoch, seen_closing, blocked, result>>
sessionVars == <<journal, published>>
vars == <<slots, head, tail, epoch, consumed_bytes, written_records, failure, closing,
          caller, record, seen_consumed, accepted, accepted_bytes, appends, finished,
          worker, seen_epoch, seen_closing, blocked, result, journal, published>>

Slot == 0..Capacity
Record == [id : 1..MaxAppends, charge : Charge]
NoRecord == [id |-> 0, charge |-> 0]

Init ==
  /\ slots = [i \in Slot |-> NoRecord]
  /\ head = 0 /\ tail = 0
  /\ epoch = 0 /\ consumed_bytes = 0 /\ written_records = 0
  /\ failure = "queued" /\ closing = FALSE
  /\ caller = "idle" /\ record = NoRecord /\ seen_consumed = 0
  /\ accepted = <<>> /\ accepted_bytes = 0 /\ appends = 0 /\ finished = FALSE
  /\ worker = "load_epoch" /\ seen_epoch = 0 /\ seen_closing = FALSE
  /\ blocked = FALSE /\ result = "none"
  /\ journal = <<>> /\ published = FALSE

\* next(index): the ring wraps after Capacity + 1 slots.
Following(i) == IF i = Capacity THEN 0 ELSE i + 1

\* fail(reason): a compare-exchange from queued, so the first reason stays.
FailedWith(reason) == IF failure = "queued" THEN reason ELSE failure

-----------------------------------------------------------------------------
(* The caller: append. *)

CallerGoes(from, to) == caller = from /\ caller' = to

\* append, the load of failure_: a capture that failed, or is finished,
\* returns without touching the ring.
AppendStart(charge) ==
  /\ ~finished /\ appends < MaxAppends
  /\ appends' = appends + 1
  /\ record' = [id |-> appends + 1, charge |-> charge]
  /\ CallerGoes("idle", IF failure = "queued" THEN "load_consumed" ELSE "idle")
  /\ UNCHANGED <<shared, workerVars, sessionVars,
                 seen_consumed, accepted, accepted_bytes, finished>>

LoadConsumed ==
  /\ CallerGoes("load_consumed", "check")
  /\ seen_consumed' = consumed_bytes
  /\ UNCHANGED <<shared, workerVars, sessionVars,
                 record, accepted, accepted_bytes, appends, finished>>

\* Bytes accepted and, as far as the caller has seen, not released.
Pending == accepted_bytes - seen_consumed

\* Mutant of Fits: the ring is not tested.
FitsAnyRing == record.charge <= ByteLimit - Pending

\* The load of tail_ and the capacity tests.
Fits == /\ Following(head) # tail
        /\ record.charge <= ByteLimit - Pending

CheckCapacity ==
  /\ CallerGoes("check", IF Fits THEN "fill" ELSE "overflow")
  /\ UNCHANGED <<shared, workerVars, sessionVars,
                 record, seen_consumed, accepted, accepted_bytes, appends, finished>>

Overflow ==
  /\ CallerGoes("overflow", "add_epoch")
  /\ failure' = FailedWith("capacity_exceeded")
  /\ UNCHANGED <<slots, head, tail, epoch, consumed_bytes, written_records, closing,
                 workerVars, sessionVars,
                 record, seen_consumed, accepted, accepted_bytes, appends, finished>>

\* The slot and the caller's own counters, before the slot is published.
FillSlot ==
  /\ CallerGoes("fill", "publish")
  /\ slots' = [slots EXCEPT ![head] = record]
  /\ accepted_bytes' = accepted_bytes + record.charge
  /\ UNCHANGED <<head, tail, epoch, consumed_bytes, written_records, failure, closing,
                 workerVars, sessionVars, record, seen_consumed, accepted, appends, finished>>

\* head_.store(release) makes the record the worker's.
PublishSlot ==
  /\ CallerGoes("publish", "add_epoch")
  /\ head' = Following(head)
  /\ accepted' = Append(accepted, record)
  /\ UNCHANGED <<slots, tail, epoch, consumed_bytes, written_records, failure, closing,
                 workerVars, sessionVars,
                 record, seen_consumed, accepted_bytes, appends, finished>>

-----------------------------------------------------------------------------
(* The caller: signal, finish and destruction. *)

\* Mutant of AddEpoch: signal only notifies.
SignalKeepsEpoch ==
  /\ \/ CallerGoes("add_epoch", "notify")
     \/ CallerGoes("close_epoch", "close_notify")
  /\ UNCHANGED <<shared, workerVars, sessionVars,
                 record, seen_consumed, accepted, accepted_bytes, appends, finished>>

\* signal(): epoch_.fetch_add, then notify_one.
AddEpoch ==
  /\ \/ CallerGoes("add_epoch", "notify")
     \/ CallerGoes("close_epoch", "close_notify")
  /\ epoch' = epoch + 1
  /\ UNCHANGED <<slots, head, tail, consumed_bytes, written_records, failure, closing,
                 workerVars, sessionVars,
                 record, seen_consumed, accepted, accepted_bytes, appends, finished>>

Notify ==
  /\ \/ CallerGoes("notify", "idle")
     \/ CallerGoes("close_notify", "join")
  /\ blocked' = FALSE
  /\ UNCHANGED <<shared, worker, seen_epoch, seen_closing, result, sessionVars,
                 record, seen_consumed, accepted, accepted_bytes, appends, finished>>

\* finish() on a capture that is not finished, and the destructor, which
\* first fails the capture with "closed": the load or store of stop_and_join.
Finish ==
  /\ ~finished
  /\ CallerGoes("idle", "close")
  /\ UNCHANGED <<shared, workerVars, sessionVars,
                 record, seen_consumed, accepted, accepted_bytes, appends, finished>>

Destroy ==
  /\ ~finished
  /\ CallerGoes("idle", "close")
  /\ failure' = FailedWith("closed")
  /\ UNCHANGED <<slots, head, tail, epoch, consumed_bytes, written_records, closing,
                 workerVars, sessionVars,
                 record, seen_consumed, accepted, accepted_bytes, appends, finished>>

StoreClosing ==
  /\ CallerGoes("close", "close_epoch")
  /\ closing' = TRUE
  /\ UNCHANGED <<slots, head, tail, epoch, consumed_bytes, written_records, failure,
                 workerVars, sessionVars,
                 record, seen_consumed, accepted, accepted_bytes, appends, finished>>

\* thread_.join() returns when run() has.
Join ==
  /\ worker = "done"
  /\ CallerGoes("join", "destroyed")
  /\ finished' = TRUE
  /\ UNCHANGED <<shared, workerVars, sessionVars,
                 record, seen_consumed, accepted, accepted_bytes, appends>>

-----------------------------------------------------------------------------
(* The worker: run. *)

WorkerGoes(from, to) == worker = from /\ worker' = to

LoadEpoch ==
  /\ WorkerGoes("load_epoch", "load_closing")
  /\ seen_epoch' = epoch
  /\ UNCHANGED <<shared, callerVars, sessionVars, seen_closing, blocked, result>>

LoadClosing ==
  /\ WorkerGoes("load_closing", "load_failure")
  /\ seen_closing' = closing
  /\ UNCHANGED <<shared, callerVars, sessionVars, seen_epoch, blocked, result>>

LoadFailure ==
  /\ WorkerGoes("load_failure", IF failure = "queued" THEN "load_head" ELSE "done")
  /\ UNCHANGED <<shared, callerVars, sessionVars, seen_epoch, seen_closing, blocked, result>>

\* Mutant of LoadHead: closing_ is loaded after failure_ and head_.
LoadHeadThenClosing ==
  /\ WorkerGoes("load_head", IF tail # head THEN "write"
                             ELSE IF closing THEN "finalize" ELSE "wait")
  /\ UNCHANGED <<shared, callerVars, sessionVars, seen_epoch, seen_closing, blocked, result>>

LoadHead ==
  /\ WorkerGoes("load_head", IF tail # head THEN "write"
                             ELSE IF seen_closing THEN "finalize" ELSE "wait")
  /\ UNCHANGED <<shared, callerVars, sessionVars, seen_epoch, seen_closing, blocked, result>>

\* epoch_.wait(epoch): returns once the value differs; compares and blocks as
\* one step, and compares again when notified.
WaitEpoch ==
  /\ worker = "wait" /\ ~blocked
  /\ \/ epoch # seen_epoch /\ worker' = "load_epoch" /\ UNCHANGED blocked
     \/ epoch = seen_epoch /\ blocked' = TRUE /\ UNCHANGED worker
  /\ UNCHANGED <<shared, callerVars, sessionVars, seen_epoch, seen_closing, result>>

\* writer_->append(record) succeeding.
WriteRecord ==
  /\ WorkerGoes("write", "release")
  /\ journal' = Append(journal, slots[tail])
  /\ UNCHANGED <<shared, callerVars, seen_epoch, seen_closing, blocked, result, published>>

\* writer_->append(record) returning an error, or throwing.
WriteFails ==
  /\ WorkerGoes("write", "fail")
  /\ result' \in {"error", "none"}
  /\ UNCHANGED <<shared, callerVars, sessionVars, seen_epoch, seen_closing, blocked>>

\* The slot's strings give their memory back before the bytes are advertised.
ReleaseSlot ==
  /\ WorkerGoes("release", "store_consumed")
  /\ slots' = [slots EXCEPT ![tail] = NoRecord]
  /\ UNCHANGED <<head, tail, epoch, consumed_bytes, written_records, failure, closing,
                 callerVars, sessionVars, seen_epoch, seen_closing, blocked, result>>

StoreConsumed ==
  /\ WorkerGoes("store_consumed", "store_tail")
  /\ consumed_bytes' = consumed_bytes + Last(journal).charge
  /\ UNCHANGED <<slots, head, tail, epoch, written_records, failure, closing,
                 callerVars, sessionVars, seen_epoch, seen_closing, blocked, result>>

StoreTail ==
  /\ WorkerGoes("store_tail", "store_written")
  /\ tail' = Following(tail)
  /\ UNCHANGED <<slots, head, epoch, consumed_bytes, written_records, failure, closing,
                 callerVars, sessionVars, seen_epoch, seen_closing, blocked, result>>

StoreWritten ==
  /\ WorkerGoes("store_written", "load_epoch")
  /\ written_records' = written_records + 1
  /\ UNCHANGED <<slots, head, tail, epoch, consumed_bytes, failure, closing,
                 callerVars, sessionVars, seen_epoch, seen_closing, blocked, result>>

\* writer_->finalize(): the manifest, or an error, or an exception.
FinalizeSucceeds ==
  /\ WorkerGoes("finalize", "done")
  /\ result' = "manifest"
  /\ published' = TRUE
  /\ UNCHANGED <<shared, callerVars, seen_epoch, seen_closing, blocked, journal>>

FinalizeFails ==
  /\ WorkerGoes("finalize", "fail")
  /\ result' \in {"error", "none"}
  /\ UNCHANGED <<shared, callerVars, sessionVars, seen_epoch, seen_closing, blocked>>

\* fail(writer_failed) and the return of run().
WorkerFails ==
  /\ WorkerGoes("fail", "done")
  /\ failure' = FailedWith("writer_failed")
  /\ UNCHANGED <<slots, head, tail, epoch, consumed_bytes, written_records, closing,
                 callerVars, sessionVars, seen_epoch, seen_closing, blocked, result>>

-----------------------------------------------------------------------------
\* What the caller has decided to do it carries through ...
InCall ==
  \/ LoadConsumed \/ CheckCapacity \/ Overflow \/ FillSlot \/ PublishSlot
  \/ AddEpoch \/ Notify \/ StoreClosing \/ Join

\* ... but whether and when it calls is up to it.
Calls ==
  \/ \E c \in Charge : AppendStart(c)
  \/ Finish
  \/ Destroy

Run ==
  \/ LoadEpoch \/ LoadClosing \/ LoadFailure \/ LoadHead \/ WaitEpoch
  \/ WriteRecord \/ WriteFails \/ ReleaseSlot \/ StoreConsumed \/ StoreTail
  \/ StoreWritten \/ FinalizeSucceeds \/ FinalizeFails \/ WorkerFails

\* The caller has been given its answer: nothing is left to do.
Terminated == caller = "destroyed" /\ UNCHANGED vars

Next == Calls \/ InCall \/ Run \/ Terminated

Spec == Init /\ [][Next]_vars

\* Both threads are scheduled: the operating system runs a runnable thread.
FairSpec == Spec /\ WF_vars(InCall) /\ WF_vars(Run)

-----------------------------------------------------------------------------
(* Properties. *)

\* The caller never writes a ring slot the worker is using or has not yet
\* used, in particular the one it has published last time around.
NoSlotRace ==
  caller \in {"fill", "publish"} =>
    /\ worker \in {"write", "release"} => head # tail
    /\ caller = "fill" => slots[head] = NoRecord

\* Memory really held by the ring, counting the record being written and the
\* one being filled, stays within limits.retained_bytes: the bytes are counted
\* where they are, a charge of c in slot i being the cells <<i, 1>> to <<i, c>>.
RetainedCells == UNION {{i} \X (1..slots[i].charge) : i \in Slot}
RetainedBytes == Cardinality(RetainedCells)

RetainedWithinLimit == RetainedBytes <= ByteLimit

\* The ring is safe to use without a lock and bounded in memory.
RingSafe == NoSlotRace /\ RetainedWithinLimit

\* The order of the loads in run() and of the stores in signal() loses no
\* wakeup: a record that is published is written unless the capture fails.
AcceptedIsWritten ==
  \A n \in 1..MaxAppends :
    Len(accepted) >= n ~> Len(journal) >= n \/ failure # "queued"

\* finish() and the destructor always return.
FinishReturns == caller = "close" ~> finished

Log == INSTANCE CaptureLog WITH failed <- failure # "queued"

\* The ring, the epoch and the failure flag implement the plain log: records
\* are written in the order accepted, and a published capture holds exactly
\* the accepted records.  run() loads closing_ before failure_ and head_, so
\* neither a last record nor an overflow slips behind the decision to finalize.
ImplementsLog == Log!LogSpec
==============================================================================
