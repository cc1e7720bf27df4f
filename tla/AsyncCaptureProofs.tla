-------------------------- MODULE AsyncCaptureProofs --------------------------
(***************************************************************************)
(* The ring of AsyncCaptureWriter is safe and implements the plain log of  *)
(* CaptureLog, for any capacity, byte limit, record sizes and interleaving *)
(* of the two threads.                                                     *)
(***************************************************************************)
EXTENDS AsyncCapture, FiniteSetTheorems, TLAPS

-----------------------------------------------------------------------------
(* The inductive invariant. *)

\* Where the caller is once it has stored closing_: it appends no more.
AfterClose == {"close_epoch", "close_notify", "join", "destroyed"}

\* Where the caller is while it holds the record it was given.
InAppend == {"load_consumed", "check", "fill", "publish"}

CallerStep == {"idle", "load_consumed", "check", "overflow", "fill", "publish",
               "add_epoch", "notify", "close"} \cup AfterClose

\* Where the worker is while the tail slot is its own, the part of that after
\* it has written the slot's record to the journal, and after it has emptied it.
Holding == {"write", "release", "store_consumed", "store_tail"}
Taking == {"release", "store_consumed", "store_tail"}
Emptied == {"store_consumed", "store_tail"}

WorkerStep == {"load_epoch", "load_closing", "load_failure", "load_head", "wait",
               "write", "release", "store_consumed", "store_tail", "store_written",
               "finalize", "fail", "done"}

TypeOK ==
  /\ slots \in [Slot -> Record \cup {NoRecord}]
  /\ head \in Slot /\ tail \in Slot
  /\ consumed_bytes \in Nat /\ accepted_bytes \in Nat /\ seen_consumed \in Nat
  /\ closing \in BOOLEAN /\ seen_closing \in BOOLEAN /\ published \in BOOLEAN
  /\ finished \in BOOLEAN /\ blocked \in BOOLEAN
  /\ caller \in CallerStep /\ worker \in WorkerStep
  /\ record \in Record \cup {NoRecord}
  /\ caller \in InAppend => record \in Record
  /\ appends \in 0..MaxAppends
  /\ accepted \in Seq(Record) /\ journal \in Seq(Record)

\* Records whose slot the worker has given back to the caller.
Taken == IF worker \in Taking THEN Len(journal) - 1 ELSE Len(journal)

\* How far behind the head, or behind slot i, the tail is.
Behind(i) == IF i >= tail THEN i - tail ELSE i - tail + Capacity + 1

\* The ring is a window on the accepted records: it starts at the first one
\* not taken, its slots hold them in order, and every other slot is empty but
\* the one the caller is filling.
RingInv ==
  /\ Len(journal) <= Len(accepted)
  /\ \A n \in 1..Len(journal) : journal[n] = accepted[n]
  /\ Behind(head) = Len(accepted) - Taken
  /\ worker \in Holding => head # tail
  /\ worker \in Taking => Len(journal) >= 1
  /\ caller \in {"fill", "publish"} => Following(head) # tail
  /\ \A i \in Slot :
       slots[i] = IF /\ Behind(i) < Behind(head)
                     /\ ~(i = tail /\ worker \in Emptied)
                  THEN accepted[Taken + 1 + Behind(i)]
                  ELSE IF i = head /\ caller = "publish" THEN record
                  ELSE NoRecord

\* Bytes released from the ring and not yet stored in consumed_bytes_.
Released == IF worker = "store_consumed" THEN Last(journal).charge ELSE 0

\* Every byte accepted is held by a slot or has been released, and the caller
\* only ever sees fewer released than there are.
BytesInv ==
  /\ IsFiniteSet(RetainedCells)
  /\ RetainedBytes + Released + consumed_bytes = accepted_bytes
  /\ seen_consumed <= consumed_bytes
  /\ accepted_bytes - consumed_bytes <= ByteLimit
  /\ caller = "fill" => record.charge <= ByteLimit - Pending

\* What the worker has seen of closing_ and failure_ when it finalizes is
\* still so.
CloseInv ==
  /\ closing => caller \in AfterClose
  /\ seen_closing => closing
  /\ worker = "load_head" /\ seen_closing => failure = "queued"
  /\ worker = "finalize" => seen_closing /\ failure = "queued" /\ head = tail
  /\ published => worker = "done" /\ closing

CaptureInv == TypeOK /\ RingInv /\ BytesInv /\ CloseInv

-----------------------------------------------------------------------------
(* Types. *)

\* next() stays in the ring.
LEMMA FollowingInRing ==
  ASSUME NEW i \in Slot PROVE Following(i) \in Slot
BY CaptureConstants DEF Slot, Following

\* While the worker has the tail slot and has not emptied it, it holds the next
\* record to take.
LEMMA TailHoldsNext ==
  ASSUME TypeOK, RingInv, worker \in {"write", "release"}
  PROVE  /\ slots[tail] = accepted[Taken + 1]
         /\ Taken + 1 \in 1..Len(accepted)
         /\ slots[tail] \in Record
<1>1. Behind(tail) = 0 /\ Behind(head) > 0
  BY CaptureConstants DEF TypeOK, RingInv, Behind, Slot, Holding
<1>2. Len(accepted) \in Nat /\ Len(journal) \in Nat
  BY DEF TypeOK
<1>3. Taken \in Nat
  BY <1>2 DEF RingInv, Taken, Taking
<1>4. Taken + 1 \in 1..Len(accepted)
  BY <1>1, <1>2, <1>3 DEF RingInv
<1>5. slots[tail] = accepted[Taken + 1]
  BY <1>1, <1>3 DEF RingInv, Emptied, TypeOK
<1> QED
  BY <1>4, <1>5 DEF TypeOK

\* Every step keeps the types.
LEMMA TypesStep ==
  ASSUME TypeOK, RingInv, [Next]_vars PROVE TypeOK'
<1>1. CASE UNCHANGED vars
  BY <1>1 DEF vars, TypeOK
<1> USE DEF shared, callerVars, workerVars, sessionVars, CallerGoes, WorkerGoes
<1>2. ASSUME NEW c \in Charge, AppendStart(c) PROVE TypeOK'
  <2>1. [id |-> appends + 1, charge |-> c] \in Record
    BY <1>2, CaptureConstants DEF AppendStart, TypeOK, Record
  <2> QED
    BY <1>2, <2>1, CaptureConstants DEF AppendStart, TypeOK, CallerStep, AfterClose, InAppend
<1>3. CASE LoadConsumed
  BY <1>3 DEF LoadConsumed, TypeOK, CallerStep, AfterClose, InAppend
<1>4. CASE CheckCapacity
  BY <1>4 DEF CheckCapacity, TypeOK, CallerStep, AfterClose, InAppend
<1>5. CASE Overflow
  BY <1>5 DEF Overflow, TypeOK, CallerStep, AfterClose, InAppend
<1>6. CASE FillSlot
  <2>1. record.charge \in Nat /\ record \in Record
    BY <1>6, CaptureConstants DEF FillSlot, TypeOK, Record, InAppend
  <2> QED
    BY <1>6, <2>1 DEF FillSlot, TypeOK, CallerStep, AfterClose, InAppend
<1>7. CASE PublishSlot
  <2>1. record \in Record
    BY <1>7 DEF PublishSlot, TypeOK, InAppend
  <2>2. accepted' \in Seq(Record)
    BY <1>7, <2>1 DEF PublishSlot, TypeOK
  <2>3. head' \in Slot
    BY <1>7, FollowingInRing DEF PublishSlot, TypeOK
  <2> QED
    BY <1>7, <2>2, <2>3 DEF PublishSlot, TypeOK, CallerStep, AfterClose, InAppend
<1>8. CASE AddEpoch
  BY <1>8 DEF AddEpoch, TypeOK, CallerStep, AfterClose, InAppend
<1>9. CASE Notify
  BY <1>9 DEF Notify, TypeOK, CallerStep, AfterClose, InAppend
<1>10. CASE Finish
  BY <1>10 DEF Finish, TypeOK, CallerStep, AfterClose, InAppend
<1>11. CASE Destroy
  BY <1>11 DEF Destroy, TypeOK, CallerStep, AfterClose, InAppend
<1>12. CASE StoreClosing
  BY <1>12 DEF StoreClosing, TypeOK, CallerStep, AfterClose, InAppend
<1>13. CASE Join
  BY <1>13 DEF Join, TypeOK, CallerStep, AfterClose, InAppend
<1>14. CASE LoadEpoch \/ LoadClosing \/ LoadFailure \/ LoadHead \/ WaitEpoch
  BY <1>14 DEF LoadEpoch, LoadClosing, LoadFailure, LoadHead, WaitEpoch, TypeOK, WorkerStep
<1>15. CASE WriteFails \/ StoreWritten \/ FinalizeSucceeds \/ FinalizeFails \/ WorkerFails
  BY <1>15 DEF WriteFails, StoreWritten, FinalizeSucceeds, FinalizeFails, WorkerFails,
               TypeOK, WorkerStep
<1>16. CASE WriteRecord
  <2>1. slots[tail] \in Record
    BY <1>16, TailHoldsNext DEF WriteRecord, TypeOK, RingInv
  <2>2. journal' \in Seq(Record)
    BY <1>16, <2>1 DEF WriteRecord, TypeOK
  <2> QED
    BY <1>16, <2>2 DEF WriteRecord, TypeOK, WorkerStep
<1>17. CASE ReleaseSlot
  BY <1>17 DEF ReleaseSlot, TypeOK, WorkerStep
<1>18. CASE StoreConsumed
  <2>1. Last(journal).charge \in Nat
    <3>1. Len(journal) >= 1 /\ journal \in Seq(Record)
      BY <1>18 DEF StoreConsumed, RingInv, Taking, TypeOK
    <3>2. journal[Len(journal)] \in Record
      BY <3>1
    <3> QED
      BY <3>2, CaptureConstants DEF Last, Record
  <2> QED
    BY <1>18, <2>1 DEF StoreConsumed, TypeOK, WorkerStep
<1>19. CASE StoreTail
  BY <1>19, FollowingInRing DEF StoreTail, TypeOK, WorkerStep
<1> QED
  BY <1>1, <1>2, <1>3, <1>4, <1>5, <1>6, <1>7, <1>8, <1>9, <1>10, <1>11, <1>12, <1>13,
     <1>14, <1>15, <1>16, <1>17, <1>18, <1>19 DEF Next, Calls, InCall, Run, Terminated

-----------------------------------------------------------------------------
(* The ring. *)

\* A step that leaves the ring, the journal and the place of both threads in
\* it as they are.
LEMMA RingFrame ==
  ASSUME RingInv, UNCHANGED <<slots, head, tail, accepted, journal>>,
         Taken' = Taken,
         worker' \in Holding => worker \in Holding \/ head # tail,
         worker' \in Taking => worker \in Taking,
         worker' \in Emptied <=> worker \in Emptied,
         caller' \in {"fill", "publish"} => caller \in {"fill", "publish"} \/ Following(head) # tail,
         caller' = "publish" <=> caller = "publish",
         caller = "publish" => record' = record
  PROVE  RingInv'
<1>1. \A i : Behind(i)' = Behind(i)
  BY DEF Behind
<1>2. Following(head)' = Following(head)
  BY DEF Following
<1> QED
  BY <1>1, <1>2 DEF RingInv

\* The slot being filled is the one behind the window.
LEMMA FillSlotRing ==
  ASSUME TypeOK, RingInv, FillSlot PROVE RingInv'
<1>1. Taken' = Taken /\ \A i : Behind(i)' = Behind(i)
  BY DEF FillSlot, Behind, Taken, workerVars, sessionVars
<1>2. ASSUME NEW i \in Slot
      PROVE  slots'[i] = IF /\ Behind(i) < Behind(head)
                            /\ ~(i = tail /\ worker \in Emptied)
                         THEN accepted[Taken + 1 + Behind(i)]
                         ELSE IF i = head THEN record ELSE NoRecord
  <2>1. CASE i = head
    <3>1. slots'[i] = record /\ ~(Behind(i) < Behind(head))
      BY <2>1, CaptureConstants DEF FillSlot, TypeOK, Behind, Slot
    <3> QED
      BY <2>1, <3>1
  <2>2. CASE i # head
    BY <2>2 DEF FillSlot, TypeOK, RingInv, CallerGoes
  <2> QED
    BY <2>1, <2>2
<1> QED
  BY <1>1, <1>2 DEF FillSlot, RingInv, CallerGoes, workerVars, sessionVars, Following

\* Publishing the filled slot takes it into the window at its far end.
LEMMA PublishSlotRing ==
  ASSUME TypeOK, RingInv, PublishSlot PROVE RingInv'
<1>1. Taken' = Taken /\ \A i : Behind(i)' = Behind(i)
  BY DEF PublishSlot, Behind, Taken, workerVars, sessionVars
<1>2. caller = "publish" /\ Following(head) # tail /\ head \in Slot /\ tail \in Slot
  BY DEF PublishSlot, CallerGoes, RingInv, TypeOK
<1>3. Behind(Following(head)) = Behind(head) + 1
  BY <1>2, CaptureConstants DEF Following, Behind, Slot
<1>4. record \in Record /\ Len(accepted) \in Nat /\ Len(journal) \in Nat
  BY <1>2 DEF TypeOK, InAppend
<1>5. Taken \in Nat
  BY <1>4 DEF Taken, RingInv, Taking
<1>6. /\ Len(accepted') = Len(accepted) + 1
      /\ \A n \in 1..Len(accepted) : accepted'[n] = accepted[n]
      /\ accepted'[Len(accepted) + 1] = record
  BY <1>4 DEF PublishSlot, TypeOK
<1>7. ASSUME NEW i \in Slot
      PROVE  slots[i] = IF /\ Behind(i) < Behind(head) + 1
                           /\ ~(i = tail /\ worker \in Emptied)
                        THEN accepted'[Taken + 1 + Behind(i)] ELSE NoRecord
  <2>1. Behind(i) \in Nat /\ Behind(head) \in Nat /\ (Behind(i) = Behind(head) <=> i = head)
    BY <1>2, CaptureConstants DEF Behind, Slot
  <2>2. Taken + Behind(head) = Len(accepted)
    BY <1>4, <1>5, <2>1 DEF RingInv
  <2>3. CASE Behind(i) < Behind(head)
    <3>1. accepted'[Taken + 1 + Behind(i)] = accepted[Taken + 1 + Behind(i)]
      <4>1. Taken + 1 + Behind(i) \in 1..Len(accepted)
        BY <1>4, <1>5, <2>1, <2>2, <2>3
      <4> QED
        BY <1>6, <4>1
    <3>2. i # head
      BY <2>1, <2>3
    <3>3. Behind(i) < Behind(head) + 1
      BY <2>1, <2>3
    <3> QED
      BY <2>3, <3>1, <3>2, <3>3 DEF RingInv
  <2>4. CASE i = head
    <3>1. slots[i] = record
      BY <1>2, <2>1, <2>4 DEF RingInv
    <3>2. accepted'[Taken + 1 + Behind(i)] = record
      BY <1>4, <1>5, <1>6, <2>1, <2>2, <2>4
    <3>3. ~(i = tail /\ worker \in Emptied)
      BY <2>4 DEF RingInv, Holding, Emptied
    <3> QED
      BY <2>1, <2>4, <3>1, <3>2, <3>3
  <2>5. CASE Behind(i) > Behind(head)
    BY <1>2, <2>1, <2>5 DEF RingInv
  <2> QED
    BY <2>1, <2>3, <2>4, <2>5
<1>8. Behind(head)' = Behind(head) + 1 /\ caller' = "add_epoch"
      /\ UNCHANGED <<slots, tail, worker, journal>>
  BY <1>1, <1>3 DEF PublishSlot, CallerGoes, workerVars, sessionVars, Behind
<1>9. Behind(head)' = Len(accepted') - Taken'
  <2>1. Behind(head) = Len(accepted) - Taken
    BY DEF RingInv
  <2> QED
    BY <1>1, <1>4, <1>5, <1>6, <1>8, <2>1
<1>10. head' # tail
  BY <1>2 DEF PublishSlot
<1>11. \A n \in 1..Len(journal) : journal[n] = accepted'[n]
  BY <1>4, <1>6 DEF RingInv
<1>12. Len(journal) <= Len(accepted')
  BY <1>4, <1>6 DEF RingInv
<1>13. worker \in Taking => Len(journal) >= 1
  BY DEF RingInv
<1> QED
  BY <1>1, <1>7, <1>8, <1>9, <1>10, <1>11, <1>12, <1>13 DEF RingInv

\* The record written is the first one of the window, the next of the journal.
LEMMA WriteRecordRing ==
  ASSUME TypeOK, RingInv, WriteRecord PROVE RingInv'
<1>1. \A i : Behind(i)' = Behind(i)
  BY DEF WriteRecord, Behind, shared
<1>2. slots[tail] = accepted[Len(journal) + 1] /\ Len(journal) + 1 <= Len(accepted)
      /\ slots[tail] \in Record
  BY TailHoldsNext DEF WriteRecord, WorkerGoes, Taken, Taking, TypeOK
<1>3. /\ Len(journal') = Len(journal) + 1
      /\ \A n \in 1..Len(journal) : journal'[n] = journal[n]
      /\ journal'[Len(journal) + 1] = slots[tail]
      /\ Len(journal) \in Nat /\ Len(accepted) \in Nat
  BY <1>2 DEF WriteRecord, TypeOK
<1>4. Taken' = Taken
  BY <1>3 DEF WriteRecord, WorkerGoes, Taken, Taking
<1>5. \A n \in 1..Len(journal') : journal'[n] = accepted[n]
  BY <1>2, <1>3 DEF RingInv
<1>6. worker' = "release" /\ worker = "write" /\ head # tail
  BY DEF WriteRecord, WorkerGoes, RingInv, Holding
<1>7. UNCHANGED <<slots, head, tail, accepted, caller, record>>
  BY DEF WriteRecord, shared, callerVars
<1>8. Following(head)' = Following(head)
  BY <1>7 DEF Following
<1> QED
  BY <1>1, <1>2, <1>3, <1>4, <1>5, <1>6, <1>7, <1>8 DEF RingInv, Emptied

\* Emptying the tail slot leaves the others as they are.
LEMMA ReleaseSlotRing ==
  ASSUME TypeOK, RingInv, ReleaseSlot PROVE RingInv'
<1>1. Taken' = Taken /\ \A i : Behind(i)' = Behind(i)
  BY DEF ReleaseSlot, WorkerGoes, Behind, Taken, Taking, callerVars, sessionVars
<1>2. worker = "release" /\ worker' = "store_consumed" /\ head # tail
  BY DEF ReleaseSlot, WorkerGoes, RingInv, Holding
<1>3. UNCHANGED <<head, tail, accepted, journal, caller, record>>
  BY DEF ReleaseSlot, callerVars, sessionVars
<1>4. \A i \in Slot : slots'[i] = IF i = tail THEN NoRecord ELSE slots[i]
  BY DEF ReleaseSlot, TypeOK
<1>5. Following(head)' = Following(head)
  BY <1>3 DEF Following
<1> QED
  BY <1>1, <1>2, <1>3, <1>4, <1>5 DEF RingInv, Emptied, Holding, Taking

\* Storing tail_ shortens the window by the slot that was emptied.
LEMMA StoreTailRing ==
  ASSUME TypeOK, RingInv, StoreTail PROVE RingInv'
<1>1. worker = "store_tail" /\ worker' = "store_written" /\ head # tail
  BY DEF StoreTail, WorkerGoes, RingInv, Holding
<1>2. UNCHANGED <<slots, head, accepted, journal, caller, record>> /\ tail' = Following(tail)
  BY DEF StoreTail, callerVars, sessionVars
<1>3. Len(journal) \in Nat /\ Len(accepted) \in Nat /\ Len(journal) >= 1
  BY <1>1 DEF TypeOK, RingInv, Taking
<1>4. Taken' = Taken + 1 /\ Taken \in Nat
  BY <1>1, <1>2, <1>3 DEF Taken, Taking
<1>5. head \in Slot /\ tail \in Slot
  BY DEF TypeOK
<1>6. \A i \in Slot : Behind(i)' = IF i = tail THEN Capacity ELSE Behind(i) - 1
  BY <1>2, <1>5, CaptureConstants DEF Behind, Following, Slot
<1>7. Behind(head) \in 1..Capacity
  BY <1>1, <1>5, CaptureConstants DEF Behind, Slot
<1>8. ASSUME NEW i \in Slot
      PROVE  slots[i] = IF Behind(i)' < Behind(head) - 1
                        THEN accepted[Taken + 2 + Behind(i)']
                        ELSE IF i = head /\ caller = "publish" THEN record ELSE NoRecord
  <2>1. CASE i = tail
    BY <1>1, <1>6, <1>7, <2>1, CaptureConstants DEF RingInv, Emptied
  <2>2. CASE i # tail
    <3>1. Behind(i) \in Nat /\ Behind(i)' = Behind(i) - 1
      BY <1>5, <1>6, <2>2, CaptureConstants DEF Behind, Slot
    <3>2. slots[i] = IF Behind(i) < Behind(head) THEN accepted[Taken + 1 + Behind(i)]
                     ELSE IF i = head /\ caller = "publish" THEN record ELSE NoRecord
      BY <2>2 DEF RingInv
    <3>3. Taken + 2 + Behind(i)' = Taken + 1 + Behind(i)
      BY <1>4, <3>1
    <3>4. Behind(i)' < Behind(head) - 1 <=> Behind(i) < Behind(head)
      BY <1>7, <3>1
    <3> QED
      BY <3>2, <3>3, <3>4
  <2> QED
    BY <2>1, <2>2
<1>9. Behind(head)' = Behind(head) - 1
  BY <1>1, <1>2, <1>5, <1>6
<1>10. Behind(head)' = Len(accepted)' - Taken'
  BY <1>2, <1>3, <1>4, <1>7, <1>9 DEF RingInv
<1>11. caller \in {"fill", "publish"} => Following(head) # Following(tail)
  BY <1>1, <1>5, CaptureConstants DEF Following, Slot
<1>12. \A i \in Slot : Taken' + 1 + Behind(i)' = Taken + 2 + Behind(i)'
  <2> TAKE i \in Slot
  <2>1. Behind(i)' \in Int
    BY <1>5, <1>6, CaptureConstants DEF Behind, Slot
  <2> QED
    BY <1>4, <2>1
<1>13. \A i \in Slot :
         slots'[i] = IF Behind(i)' < Behind(head)'
                     THEN accepted'[Taken' + 1 + Behind(i)']
                     ELSE IF i = head' /\ caller' = "publish" THEN record' ELSE NoRecord
  BY <1>2, <1>8, <1>9, <1>12
<1>14. caller' \in {"fill", "publish"} => Following(head)' # tail'
  BY <1>2, <1>11, <1>5, CaptureConstants DEF RingInv, Following, Slot
<1>15. worker' \notin Emptied /\ worker' \notin Holding /\ worker' \notin Taking
  BY <1>1 DEF Emptied, Holding, Taking
<1> QED
  BY <1>2, <1>10, <1>13, <1>14, <1>15 DEF RingInv

\* Every step keeps the ring a window on the accepted records.
LEMMA RingStep ==
  ASSUME TypeOK, RingInv, [Next]_vars PROVE RingInv'
<1> USE DEF shared, callerVars, workerVars, sessionVars, CallerGoes, WorkerGoes
<1>1. CASE UNCHANGED vars
  BY <1>1, RingFrame DEF vars, Taken
<1>2. CASE Calls \/ LoadConsumed \/ Overflow \/ AddEpoch \/ Notify \/ StoreClosing \/ Join
  BY <1>2, RingFrame DEF Calls, AppendStart, Finish, Destroy, LoadConsumed, Overflow, AddEpoch,
     Notify, StoreClosing, Join, Taken
<1>3. CASE CheckCapacity
  BY <1>3, RingFrame DEF CheckCapacity, Fits, Taken
<1>4. CASE FillSlot
  BY <1>4, FillSlotRing
<1>5. CASE PublishSlot
  BY <1>5, PublishSlotRing
<1>6. CASE \/ LoadEpoch \/ LoadClosing \/ LoadFailure \/ LoadHead \/ WaitEpoch
           \/ WriteFails \/ StoreConsumed \/ StoreWritten
           \/ FinalizeSucceeds \/ FinalizeFails \/ WorkerFails
  BY <1>6, RingFrame DEF LoadEpoch, LoadClosing, LoadFailure, LoadHead, WaitEpoch,
     WriteFails, StoreConsumed, StoreWritten, FinalizeSucceeds, FinalizeFails, WorkerFails,
     Taken, Taking, Holding, Emptied
<1>7. CASE WriteRecord
  BY <1>7, WriteRecordRing
<1>8. CASE ReleaseSlot
  BY <1>8, ReleaseSlotRing
<1>9. CASE StoreTail
  BY <1>9, StoreTailRing
<1> QED
  BY <1>1, <1>2, <1>3, <1>4, <1>5, <1>6, <1>7, <1>8, <1>9 DEF Next, InCall, Run, Terminated

-----------------------------------------------------------------------------
(* The bytes. *)

\* The cells a ring of slots holds.
Cells(ring) == UNION {{i} \X (1..ring[i].charge) : i \in Slot}

\* Filling an empty slot adds the record's charge to the cells, and emptying it
\* takes it away.
LEMMA FillingAddsCharge ==
  ASSUME NEW ring \in [Slot -> Record \cup {NoRecord}], NEW r \in Record,
         NEW i \in Slot, ring[i] = NoRecord,
         NEW full, full = [ring EXCEPT ![i] = r],
         IsFiniteSet(Cells(ring)) \/ IsFiniteSet(Cells(full))
  PROVE  /\ IsFiniteSet(Cells(ring)) /\ IsFiniteSet(Cells(full))
         /\ Cardinality(Cells(full)) = Cardinality(Cells(ring)) + r.charge
<1> DEFINE new == {i} \X (1..r.charge)
<1>1. r.charge \in Nat
  BY CaptureConstants DEF Record
<1>2. IsFiniteSet(new) /\ Cardinality(new) = r.charge
  <2>1. IsFiniteSet({i}) /\ Cardinality({i}) = 1
    BY FS_Singleton
  <2>2. IsFiniteSet(1..r.charge) /\ Cardinality(1..r.charge) = r.charge
    <3> DEFINE c == r.charge
    <3>1. c \in Nat
      BY <1>1
    <3> HIDE DEF c
    <3>2. /\ IsFiniteSet(1..c)
          /\ Cardinality(1..c) = IF 1 > c THEN 0 ELSE c - 1 + 1
      BY <3>1, FS_Interval
    <3>3. IsFiniteSet(1..c) /\ Cardinality(1..c) = c
      BY <3>1, <3>2
    <3> QED
      BY <3>3 DEF c
  <2>3. IsFiniteSet(new) /\ Cardinality(new) = Cardinality({i}) * Cardinality(1..r.charge)
    BY <2>1, <2>2, FS_Product
  <2> HIDE DEF new
  <2> QED
    BY <1>1, <2>1, <2>2, <2>3
<1>3. \A j \in Slot : full[j] = IF j = i THEN r ELSE ring[j]
  OBVIOUS
<1>4. 1..ring[i].charge = {}
  BY DEF NoRecord
<1>5. Cells(full) = Cells(ring) \cup new
  <2>1. ASSUME NEW x \in Cells(full) PROVE x \in Cells(ring) \cup new
    <3>1. PICK j \in Slot : x \in {j} \X (1..full[j].charge)
      BY <2>1 DEF Cells
    <3> QED
      BY <1>3, <3>1 DEF Cells
  <2>2. ASSUME NEW x \in Cells(ring) PROVE x \in Cells(full)
    <3>1. PICK j \in Slot : x \in {j} \X (1..ring[j].charge)
      BY <2>2 DEF Cells
    <3>2. j # i
      BY <1>4, <3>1
    <3> QED
      BY <1>3, <3>1, <3>2 DEF Cells
  <2>3. ASSUME NEW x \in new PROVE x \in Cells(full)
    <3>1. x \in {i} \X (1..full[i].charge)
      BY <1>3, <2>3
    <3> QED
      BY <3>1 DEF Cells
  <2> QED
    BY <2>1, <2>2, <2>3
<1>6. Cells(ring) \cap new = {}
  <2> SUFFICES ASSUME NEW x \in Cells(ring), x \in new PROVE FALSE
    OBVIOUS
  <2>1. PICK j \in Slot : x \in {j} \X (1..ring[j].charge)
    BY DEF Cells
  <2>2. j = i
    BY <2>1
  <2> QED
    BY <1>4, <2>1, <2>2
<1> HIDE DEF new
<1>7. IsFiniteSet(Cells(ring))
  <2>1. Cells(ring) \in SUBSET Cells(full)
    BY <1>5
  <2> QED
    BY <2>1, FS_Subset
<1>8. /\ IsFiniteSet(Cells(full))
      /\ Cardinality(Cells(full))
           = Cardinality(Cells(ring)) + Cardinality(new) - Cardinality(Cells(ring) \cap new)
  <2>1. /\ IsFiniteSet(Cells(ring) \cup new)
        /\ Cardinality(Cells(ring) \cup new)
             = Cardinality(Cells(ring)) + Cardinality(new) - Cardinality(Cells(ring) \cap new)
    BY <1>2, <1>7, FS_Union
  <2> QED
    BY <1>5, <2>1
<1>9. Cardinality(Cells(ring) \cap new) = 0 /\ Cardinality(Cells(ring)) \in Nat
  BY <1>6, <1>7, FS_EmptySet, FS_CardinalityType
<1> QED
  BY <1>1, <1>2, <1>7, <1>8, <1>9

\* What StoreConsumed adds is the charge of a record that was written.
LEMMA ReleasedIsNat ==
  ASSUME TypeOK, RingInv PROVE Released \in Nat
<1>1. CASE worker = "store_consumed"
  <2>1. Len(journal) \in Nat /\ Len(journal) >= 1 /\ journal \in Seq(Record)
    BY <1>1 DEF TypeOK, RingInv, Taking
  <2>2. journal[Len(journal)] \in Record
    BY <2>1
  <2> QED
    BY <1>1, <2>2, CaptureConstants DEF Released, Last, Record
<1>2. CASE worker # "store_consumed"
  BY <1>2 DEF Released
<1> QED
  BY <1>1, <1>2

\* A step that moves no bytes.
LEMMA BytesFrame ==
  ASSUME TypeOK, BytesInv, UNCHANGED <<slots, consumed_bytes, accepted_bytes>>,
         Released' = Released,
         seen_consumed' = seen_consumed,
         caller' = "fill" => caller = "fill" \/ record.charge <= ByteLimit - Pending,
         caller' = "fill" => record' = record
  PROVE  BytesInv'
<1>1. RetainedCells' = RetainedCells
  BY DEF RetainedCells
<1> QED
  BY <1>1 DEF BytesInv, RetainedBytes, Pending

\* The bytes of an accepted record appear in the counter and in its slot.
LEMMA FillSlotBytes ==
  ASSUME TypeOK, RingInv, BytesInv, FillSlot PROVE BytesInv'
<1>1. caller = "fill" /\ caller' = "publish" /\ record \in Record /\ head \in Slot
  BY DEF FillSlot, CallerGoes, TypeOK, InAppend
<1>2. slots[head] = NoRecord
  <2>1. ~(Behind(head) < Behind(head))
    BY <1>1, CaptureConstants DEF Behind, Slot, TypeOK
  <2> QED
    BY <1>1, <2>1 DEF RingInv
<1>3. IsFiniteSet(Cells(slots))
  BY DEF BytesInv, RetainedCells, Cells
<1>4. /\ IsFiniteSet(Cells(slots'))
      /\ Cardinality(Cells(slots')) = Cardinality(Cells(slots)) + record.charge
  BY <1>1, <1>2, <1>3, FillingAddsCharge DEF FillSlot, TypeOK
<1>5. IsFiniteSet(RetainedCells') /\ RetainedBytes' = RetainedBytes + record.charge
  BY <1>4 DEF RetainedBytes, RetainedCells, Cells
<1>6. /\ accepted_bytes' = accepted_bytes + record.charge
      /\ UNCHANGED <<worker, journal, consumed_bytes, seen_consumed>>
  BY DEF FillSlot, workerVars, sessionVars
<1>7. Released' = Released
  BY <1>6 DEF Released
<1>8. /\ record.charge \in Nat /\ consumed_bytes \in Nat /\ accepted_bytes \in Nat
      /\ seen_consumed \in Nat /\ RetainedBytes \in Nat /\ ByteLimit \in Nat
  BY <1>1, CaptureConstants, FS_CardinalityType DEF TypeOK, Record, BytesInv, RetainedBytes
<1>9. Released \in Nat
  BY ReleasedIsNat
<1>10. RetainedBytes' + Released' + consumed_bytes' = accepted_bytes'
  BY <1>5, <1>6, <1>7, <1>8, <1>9 DEF BytesInv
<1>11. accepted_bytes' - consumed_bytes' <= ByteLimit
  BY <1>1, <1>6, <1>8 DEF BytesInv, Pending
<1> QED
  BY <1>1, <1>5, <1>6, <1>10, <1>11 DEF BytesInv

\* The bytes of a written record leave its slot before they are advertised.
LEMMA ReleaseSlotBytes ==
  ASSUME TypeOK, RingInv, BytesInv, ReleaseSlot PROVE BytesInv'
<1>1. worker = "release" /\ worker' = "store_consumed" /\ tail \in Slot
  BY DEF ReleaseSlot, WorkerGoes, TypeOK
<1>2. UNCHANGED <<consumed_bytes, accepted_bytes, seen_consumed, record, caller, journal>>
  BY DEF ReleaseSlot, callerVars, sessionVars
<1>3. slots[tail] \in Record /\ slots[tail] = Last(journal)
  <2>1. slots[tail] = accepted[Taken + 1] /\ slots[tail] \in Record
    BY <1>1, TailHoldsNext
  <2>2. Len(journal) \in Nat /\ Len(journal) >= 1 /\ Taken + 1 = Len(journal)
    BY <1>1 DEF Taken, Taking, TypeOK, RingInv
  <2> QED
    BY <2>1, <2>2 DEF Last, RingInv
<1>4. slots'[tail] = NoRecord /\ slots = [slots' EXCEPT ![tail] = slots[tail]]
      /\ slots' \in [Slot -> Record \cup {NoRecord}]
  BY <1>1 DEF ReleaseSlot, TypeOK
<1>5. IsFiniteSet(Cells(slots))
  BY DEF BytesInv, RetainedCells, Cells
<1>6. /\ IsFiniteSet(Cells(slots'))
      /\ Cardinality(Cells(slots)) = Cardinality(Cells(slots')) + slots[tail].charge
  BY <1>1, <1>3, <1>4, <1>5, FillingAddsCharge
<1>7. IsFiniteSet(RetainedCells') /\ RetainedBytes = RetainedBytes' + slots[tail].charge
  BY <1>6 DEF RetainedBytes, RetainedCells, Cells
<1>8. Released = 0 /\ Released' = slots[tail].charge
  BY <1>1, <1>2, <1>3 DEF Released
<1>9. /\ slots[tail].charge \in Nat /\ RetainedBytes \in Nat /\ RetainedBytes' \in Nat
      /\ consumed_bytes \in Nat
  BY <1>3, <1>7, CaptureConstants, FS_CardinalityType DEF TypeOK, Record, BytesInv, RetainedBytes
<1>10. RetainedBytes' + Released' + consumed_bytes' = accepted_bytes'
  BY <1>2, <1>7, <1>8, <1>9 DEF BytesInv
<1> QED
  BY <1>2, <1>7, <1>10 DEF BytesInv, Pending

\* ... and are then counted as consumed.
LEMMA StoreConsumedBytes ==
  ASSUME TypeOK, RingInv, BytesInv, StoreConsumed PROVE BytesInv'
<1>1. worker = "store_consumed" /\ worker' = "store_tail"
  BY DEF StoreConsumed, WorkerGoes
<1>2. UNCHANGED <<slots, accepted_bytes, seen_consumed, record, caller, journal>>
      /\ consumed_bytes' = consumed_bytes + Last(journal).charge
  BY DEF StoreConsumed, callerVars, sessionVars
<1>3. Last(journal).charge \in Nat
  BY <1>1, ReleasedIsNat DEF Released
<1>4. RetainedCells' = RetainedCells /\ RetainedBytes' = RetainedBytes
  BY <1>2 DEF RetainedCells, RetainedBytes
<1>5. Released' = 0 /\ Released = Last(journal).charge
  BY <1>1 DEF Released
<1>6. consumed_bytes \in Nat /\ accepted_bytes \in Nat /\ seen_consumed \in Nat
      /\ RetainedBytes \in Nat /\ ByteLimit \in Nat
  BY CaptureConstants, FS_CardinalityType DEF TypeOK, BytesInv, RetainedBytes
<1> QED
  BY <1>2, <1>3, <1>4, <1>5, <1>6 DEF BytesInv, Pending

\* Every step keeps the byte counters and the slots in agreement.
LEMMA BytesStep ==
  ASSUME TypeOK, RingInv, BytesInv, [Next]_vars PROVE BytesInv'
<1> USE DEF shared, callerVars, workerVars, sessionVars, CallerGoes, WorkerGoes
<1>1. CASE UNCHANGED vars
  BY <1>1, BytesFrame DEF vars, Released
<1>2. CASE \/ Calls \/ CheckCapacity \/ Overflow \/ PublishSlot
           \/ AddEpoch \/ Notify \/ StoreClosing \/ Join
  BY <1>2, BytesFrame DEF Calls, AppendStart, Finish, Destroy, CheckCapacity, Fits, Overflow,
     PublishSlot, AddEpoch, Notify, StoreClosing, Join, Released
<1>3. CASE LoadConsumed
  <2>1. /\ UNCHANGED <<slots, consumed_bytes, accepted_bytes, worker, journal>>
        /\ seen_consumed' = consumed_bytes /\ caller' = "check"
    BY <1>3 DEF LoadConsumed
  <2>2. RetainedCells' = RetainedCells /\ RetainedBytes' = RetainedBytes /\ Released' = Released
    BY <2>1 DEF RetainedCells, RetainedBytes, Released
  <2> QED
    BY <2>1, <2>2 DEF BytesInv, TypeOK
<1>4. CASE FillSlot
  BY <1>4, FillSlotBytes
<1>5. CASE \/ LoadEpoch \/ LoadClosing \/ LoadFailure \/ LoadHead \/ WaitEpoch
           \/ WriteRecord \/ WriteFails \/ StoreTail \/ StoreWritten
           \/ FinalizeSucceeds \/ FinalizeFails \/ WorkerFails
  BY <1>5, BytesFrame DEF LoadEpoch, LoadClosing, LoadFailure, LoadHead, WaitEpoch,
     WriteRecord, WriteFails, StoreTail, StoreWritten, FinalizeSucceeds, FinalizeFails,
     WorkerFails, Released
<1>6. CASE ReleaseSlot
  BY <1>6, ReleaseSlotBytes
<1>7. CASE StoreConsumed
  BY <1>7, StoreConsumedBytes
<1> QED
  BY <1>1, <1>2, <1>3, <1>4, <1>5, <1>6, <1>7 DEF Next, InCall, Run, Terminated

-----------------------------------------------------------------------------
(* Closing. *)

\* Every step keeps what the worker knows of closing_ and failure_ true.
LEMMA CloseStep ==
  ASSUME TypeOK, CloseInv, [Next]_vars PROVE CloseInv'
<1> USE DEF shared, callerVars, workerVars, sessionVars, CallerGoes, WorkerGoes,
            CloseInv, AfterClose
<1>1. CASE UNCHANGED vars
  BY <1>1 DEF vars
<1>2. CASE Calls \/ LoadConsumed \/ CheckCapacity \/ Overflow \/ FillSlot
  BY <1>2 DEF Calls, AppendStart, Finish, Destroy, LoadConsumed, CheckCapacity, Overflow, FillSlot
<1>3. CASE PublishSlot \/ AddEpoch \/ Notify \/ StoreClosing \/ Join
  BY <1>3 DEF PublishSlot, AddEpoch, Notify, StoreClosing, Join
<1>4. CASE LoadEpoch \/ LoadClosing \/ LoadFailure \/ LoadHead \/ WaitEpoch
  BY <1>4 DEF LoadEpoch, LoadClosing, LoadFailure, LoadHead, WaitEpoch, TypeOK
<1>5. CASE WriteRecord \/ WriteFails \/ ReleaseSlot \/ StoreConsumed \/ StoreTail \/ StoreWritten
  BY <1>5 DEF WriteRecord, WriteFails, ReleaseSlot, StoreConsumed, StoreTail, StoreWritten
<1>6. CASE FinalizeSucceeds \/ FinalizeFails \/ WorkerFails
  BY <1>6 DEF FinalizeSucceeds, FinalizeFails, WorkerFails
<1> QED
  BY <1>1, <1>2, <1>3, <1>4, <1>5, <1>6 DEF Next, InCall, Run, Terminated

-----------------------------------------------------------------------------
(* The theorems. *)

\* A new capture is consistent.
LEMMA CaptureInit == Init => CaptureInv
<1> SUFFICES ASSUME Init PROVE CaptureInv
  OBVIOUS
<1>1. TypeOK
  BY CaptureConstants DEF Init, TypeOK, Slot, CallerStep, WorkerStep, InAppend
<1>2. RingInv
  BY CaptureConstants DEF Init, RingInv, Behind, Taken, Holding, Taking, Slot
<1>3. BytesInv
  <2>1. RetainedCells = {}
    BY DEF Init, RetainedCells, NoRecord
  <2> QED
    BY <2>1, FS_EmptySet, CaptureConstants DEF Init, BytesInv, RetainedBytes, Released
<1>4. CloseInv
  BY DEF Init, CloseInv
<1> QED
  BY <1>1, <1>2, <1>3, <1>4 DEF CaptureInv

\* Every interleaving of the two threads keeps the ring, the byte counters and
\* the closing handshake consistent.
THEOREM CaptureInvariant == Spec => []CaptureInv
<1>1. CaptureInv /\ [Next]_vars => CaptureInv'
  BY TypesStep, RingStep, BytesStep, CloseStep DEF CaptureInv
<1> QED
  BY CaptureInit, <1>1, PTL DEF Spec

\* No slot is ever used by both threads, and the ring never holds more than
\* limits.retained_bytes, whatever the capacity, the limit and the sizes of the
\* records.
THEOREM RingIsSafe == Spec => []RingSafe
<1>1. CaptureInv => RingSafe
  <2> SUFFICES ASSUME CaptureInv PROVE RingSafe
    OBVIOUS
  <2> USE DEF CaptureInv
  <2>1. NoSlotRace
    <3>1. worker \in {"write", "release"} => head # tail
      BY DEF RingInv, Holding
    <3>2. caller = "fill" => slots[head] = NoRecord
      <4>1. ~(Behind(head) < Behind(head)) /\ head \in Slot
        BY CaptureConstants DEF Behind, Slot, TypeOK
      <4> QED
        BY <4>1 DEF RingInv
    <3> QED
      BY <3>1, <3>2 DEF NoSlotRace
  <2>2. RetainedWithinLimit
    <3>1. Released \in Nat
      BY ReleasedIsNat
    <3>2. RetainedBytes \in Nat /\ consumed_bytes \in Nat /\ accepted_bytes \in Nat
      BY FS_CardinalityType DEF BytesInv, RetainedBytes, TypeOK
    <3> QED
      BY <3>1, <3>2, CaptureConstants DEF BytesInv, RetainedWithinLimit
  <2> QED
    BY <2>1, <2>2 DEF RingSafe
<1> QED
  BY <1>1, CaptureInvariant, PTL

\* Every step of the two threads is a step of the plain log or changes nothing
\* of it.
LEMMA CaptureStepIsLogStep ==
  ASSUME CaptureInv, [Next]_vars PROVE [Log!LogNext]_(Log!logVars)
<1> USE DEF shared, callerVars, workerVars, sessionVars, CallerGoes, WorkerGoes,
            CaptureInv, FailedWith, Log!logVars
<1>1. CASE UNCHANGED vars
  BY <1>1 DEF vars
<1>2. CASE \/ LoadConsumed \/ CheckCapacity \/ FillSlot \/ AddEpoch \/ Notify \/ Finish
           \/ StoreClosing \/ Join \/ \E c \in Charge : AppendStart(c)
  BY <1>2 DEF AppendStart, LoadConsumed, CheckCapacity, FillSlot, AddEpoch, Notify, Finish,
     StoreClosing, Join
<1>3. CASE Overflow \/ Destroy
  <2>1. ~published
    BY <1>3 DEF Overflow, Destroy, CloseInv, AfterClose
  <2>2. UNCHANGED <<accepted, journal, published>> /\ failure' # "queued"
    BY <1>3 DEF Overflow, Destroy
  <2> QED
    BY <2>1, <2>2 DEF Log!LogNext, Log!Fail
<1>4. CASE PublishSlot
  <2>1. ~published /\ record \in Record
    BY <1>4 DEF PublishSlot, CloseInv, AfterClose, TypeOK, InAppend
  <2>2. accepted' = Append(accepted, record) /\ UNCHANGED <<journal, failure, published>>
    BY <1>4 DEF PublishSlot
  <2> QED
    BY <2>1, <2>2 DEF Log!LogNext, Log!Accept
<1>5. CASE \/ LoadEpoch \/ LoadClosing \/ LoadFailure \/ LoadHead \/ WaitEpoch
           \/ WriteFails \/ ReleaseSlot \/ StoreConsumed \/ StoreTail
           \/ StoreWritten \/ FinalizeFails
  BY <1>5 DEF LoadEpoch, LoadClosing, LoadFailure, LoadHead, WaitEpoch, WriteFails,
     ReleaseSlot, StoreConsumed, StoreTail, StoreWritten, FinalizeFails
<1>6. CASE WriteRecord
  <2>1. worker = "write" /\ ~published
    BY <1>6 DEF WriteRecord, CloseInv
  <2>2. slots[tail] = accepted[Len(journal) + 1] /\ Len(journal) < Len(accepted)
    <3>1. Taken = Len(journal) /\ Len(journal) \in Nat
      BY <2>1 DEF Taken, Taking, TypeOK
    <3> QED
      BY <2>1, <3>1, TailHoldsNext DEF TypeOK
  <2>3. journal' = Append(journal, slots[tail]) /\ UNCHANGED <<accepted, failure, published>>
    BY <1>6 DEF WriteRecord
  <2> QED
    BY <2>1, <2>2, <2>3 DEF Log!LogNext, Log!Write
<1>7. CASE FinalizeSucceeds
  <2>1. worker = "finalize" /\ failure = "queued" /\ head = tail /\ ~published
    BY <1>7 DEF FinalizeSucceeds, CloseInv
  <2>2. Len(journal) = Len(accepted)
    <3>1. Behind(head) = 0 /\ Taken = Len(journal)
      BY <2>1, CaptureConstants DEF Behind, Taken, Taking, TypeOK, Slot
    <3> QED
      BY <3>1 DEF RingInv, TypeOK
  <2>3. journal = accepted
    BY <2>2 DEF RingInv, TypeOK
  <2>4. published' = TRUE /\ UNCHANGED <<accepted, journal, failure>>
    BY <1>7 DEF FinalizeSucceeds
  <2> QED
    BY <2>1, <2>3, <2>4 DEF Log!LogNext, Log!Publish
<1>8. CASE WorkerFails
  <2>1. ~published
    BY <1>8 DEF WorkerFails, CloseInv
  <2>2. UNCHANGED <<accepted, journal, published>> /\ failure' # "queued"
    BY <1>8 DEF WorkerFails
  <2> QED
    BY <2>1, <2>2 DEF Log!LogNext, Log!Fail
<1> QED
  BY <1>1, <1>2, <1>3, <1>4, <1>5, <1>6, <1>7, <1>8 DEF Next, Calls, InCall, Run, Terminated

\* The ring, the epoch and the failure flag implement the plain log: records are
\* written in the order accepted, and a capture is published only when all it
\* accepted is written and nothing has failed.
THEOREM CaptureImplementsLog == Spec => ImplementsLog
<1>1. Init => Log!LogInit
  BY DEF Init, Log!LogInit
<1>2. CaptureInv /\ [Next]_vars => [Log!LogNext]_(Log!logVars)
  BY CaptureStepIsLogStep
<1> QED
  BY <1>1, <1>2, CaptureInvariant, PTL DEF Spec, ImplementsLog, Log!LogSpec
===============================================================================
