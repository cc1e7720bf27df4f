--------------------------- MODULE AsyncJsonlProofs ----------------------------
(***************************************************************************)
(* The stream of AsyncJsonl implements the plain log of CaptureLog and     *)
(* charges exactly the bytes it holds, for any budget, line lengths and    *)
(* interleaving of the two threads.                                        *)
(***************************************************************************)
EXTENDS AsyncJsonl, FiniteSetTheorems, TLAPS

-----------------------------------------------------------------------------
(* The inductive invariant. *)

JsonlTypeOK ==
  /\ producer \in {"idle", "publish", "notify", "close", "close_notify", "join", "joined"}
  /\ pending \in 0..MaxPending
  /\ accepted \in Seq(Line) /\ queue \in Seq(Line) /\ file \in Seq(Line)
  /\ line \in Line \cup {NoLine}
  /\ retained \in Nat
  /\ healthy \in BOOLEAN /\ closing \in BOOLEAN /\ failed \in BOOLEAN
  /\ worker \in {"wait", "write", "release", "close_file", "done"}

\* Lines the worker has taken from the queue.
TakenLines == Len(accepted) - Len(queue)

\* Every line has its place: in the file, in the worker's hands or in the queue.
PlacesInv ==
  /\ Len(queue) <= Len(accepted)
  /\ \A n \in 1..Len(accepted) : accepted[n].id = n
  /\ \A n \in 1..Len(queue) : queue[n] = accepted[TakenLines + n]
  /\ Len(file) <= Len(accepted) /\ \A n \in 1..Len(file) : file[n] = accepted[n]
  /\ line # NoLine => TakenLines >= 1 /\ line = accepted[TakenLines]
  /\ worker = "wait" => line = NoLine /\ Len(file) = TakenLines
  /\ worker = "write" => line # NoLine /\ Len(file) = TakenLines - 1
  /\ worker = "release" => line # NoLine /\ Len(file) = TakenLines
  /\ worker = "close_file" => line = NoLine /\ Len(file) = TakenLines

\* A line is completed with a byte, and only while there may be one more.
ProducerInv ==
  /\ producer = "publish" => pending >= 1 /\ Len(accepted) < MaxLines
  /\ closing => producer \in {"close_notify", "join", "joined"}

\* finish() returns true only when the thread has ended.
HealthyInv == healthy => producer = "joined" /\ worker = "done"

\* The worker leaves when all is written, or when the stream has failed.
LeaveInv ==
  /\ worker = "close_file" => closing /\ queue = <<>>
  /\ worker = "done" => failed \/ (closing /\ queue = <<>> /\ Len(file) = Len(accepted))

BytesInv ==
  /\ IsFiniteSet(HeldBytes)
  /\ RetainedIsHeld

JsonlInv == JsonlTypeOK /\ PlacesInv /\ ProducerInv /\ LeaveInv /\ HealthyInv
            /\ BytesInv

-----------------------------------------------------------------------------
(* The bytes of lines. *)

BytesOf(l) == {l.id} \X (1..l.charge)
AllBytes(lines) == UNION {BytesOf(l) : l \in lines}

\* A line has as many bytes as it is charged for.
LEMMA BytesOfLine ==
  ASSUME JsonlConstants, NEW l \in Line \cup {NoLine}
  PROVE  IsFiniteSet(BytesOf(l)) /\ Cardinality(BytesOf(l)) = l.charge
<1>1. l.charge \in Nat
  BY DEF Line, NoLine, JsonlConstants
<1>2. IsFiniteSet(1..l.charge) /\ Cardinality(1..l.charge) = l.charge
  BY <1>1, FS_Interval
<1>3. IsFiniteSet({l.id}) /\ Cardinality({l.id}) = 1
  BY FS_Singleton
<1> QED
  BY <1>1, <1>2, <1>3, FS_Product DEF BytesOf

\* A line of another id than all others adds its charge.
LEMMA BytesAdded ==
  ASSUME JsonlConstants, NEW S, NEW l \in Line, \A k \in S : k.id # l.id,
         IsFiniteSet(AllBytes(S)) \/ IsFiniteSet(AllBytes(S \cup {l}))
  PROVE  /\ IsFiniteSet(AllBytes(S)) /\ IsFiniteSet(AllBytes(S \cup {l}))
         /\ Cardinality(AllBytes(S \cup {l})) = Cardinality(AllBytes(S)) + l.charge
<1>1. AllBytes(S \cup {l}) = AllBytes(S) \cup BytesOf(l)
  BY DEF AllBytes
<1>2. AllBytes(S) \cap BytesOf(l) = {}
  BY DEF AllBytes, BytesOf
<1>3. IsFiniteSet(BytesOf(l)) /\ Cardinality(BytesOf(l)) = l.charge /\ l.charge \in Nat
  BY BytesOfLine DEF Line, JsonlConstants
<1>4. IsFiniteSet(AllBytes(S))
  BY <1>1, FS_Subset
<1>5. Cardinality(AllBytes(S)) \in Nat
  BY <1>4, FS_CardinalityType
<1>6. Cardinality({}) = 0
  BY FS_EmptySet
<1>7. /\ IsFiniteSet(AllBytes(S) \cup BytesOf(l))
      /\ Cardinality(AllBytes(S) \cup BytesOf(l))
           = Cardinality(AllBytes(S)) + Cardinality(BytesOf(l))
               - Cardinality(AllBytes(S) \cap BytesOf(l))
  BY <1>3, <1>4, FS_Union
<1>8. Cardinality(AllBytes(S) \cap BytesOf(l)) = 0
  BY <1>2, <1>6
<1>9. Cardinality(AllBytes(S) \cup BytesOf(l)) = Cardinality(AllBytes(S)) + l.charge
  <2> HIDE DEF AllBytes, BytesOf
  <2> QED
    BY <1>3, <1>5, <1>7, <1>8
<1> QED
  BY <1>1, <1>4, <1>7, <1>9

LEMMA HeldBytesOf == HeldBytes = AllBytes(HeldLines)
BY DEF HeldBytes, AllBytes, BytesOf

\* No line in hand holds no byte.
LEMMA NoLineHoldsNothing ==
  ASSUME NEW S PROVE AllBytes(S \cup {NoLine}) = AllBytes(S)
<1>1. BytesOf(NoLine) = {}
  BY DEF BytesOf, NoLine
<1> QED
  BY <1>1 DEF AllBytes

-----------------------------------------------------------------------------
(* The steps. *)

\* A line in the queue or in hand has its number for id, from 1 to what has been
\* accepted; the next line has another.
LEMMA HeldIds ==
  ASSUME JsonlTypeOK, PlacesInv, NEW l \in HeldLines
  PROVE  l = NoLine \/ (l \in Line /\ l.id \in 1..Len(accepted))
<1>1. Len(queue) \in Nat /\ Len(accepted) \in Nat /\ DOMAIN queue = 1..Len(queue)
      /\ \A n \in 1..Len(accepted) : accepted[n] \in Line
  BY DEF JsonlTypeOK
<1>2. CASE l = line
  BY <1>1, <1>2 DEF PlacesInv, TakenLines, JsonlTypeOK
<1>3. ASSUME NEW n \in 1..Len(queue), l = queue[n]
      PROVE  l \in Line /\ l.id \in 1..Len(accepted)
  <2>1. TakenLines + n \in 1..Len(accepted)
    BY <1>1 DEF PlacesInv, TakenLines
  <2>2. l = accepted[TakenLines + n]
    BY <1>3 DEF PlacesInv
  <2>3. accepted[TakenLines + n].id = TakenLines + n
    BY <2>1 DEF PlacesInv
  <2> QED
    BY <1>1, <2>1, <2>2, <2>3
<1> QED
  BY <1>1, <1>2, <1>3 DEF HeldLines

\* Steps that move no line and no byte.
LEMMA QuietPlaces ==
  ASSUME JsonlInv, UNCHANGED <<accepted, queue, file, line, retained>>
  PROVE  /\ UNCHANGED <<TakenLines, HeldLines>> /\ BytesInv'
         /\ worker' = worker => PlacesInv'
BY DEF JsonlInv, BytesInv, PlacesInv, TakenLines, HeldLines, HeldBytes, RetainedIsHeld

LEMMA PublishKeepsInv ==
  ASSUME JsonlConstants, JsonlInv, Publish PROVE JsonlInv'
<1> DEFINE new == [id |-> Len(accepted) + 1, charge |-> pending]
<1>1. /\ producer = "publish" /\ producer' = "notify" /\ ~closing /\ ~failed
      /\ retained + pending <= Budget
      /\ queue' = Append(queue, new) /\ accepted' = Append(accepted, new)
      /\ retained' = retained + pending /\ pending' = 0
      /\ UNCHANGED <<healthy, closing, failed, worker, line, blocked, file>>
  BY DEF Publish, ProducerGoes, workerVars, HasRoom
<1>2. new \in Line /\ new.id = Len(accepted) + 1 /\ new.charge = pending
  BY <1>1 DEF JsonlInv, JsonlTypeOK, ProducerInv, Line, JsonlConstants
<1> HIDE DEF new
<1>3. JsonlTypeOK'
  BY <1>1, <1>2 DEF JsonlInv, JsonlTypeOK, JsonlConstants
<1>4. /\ Len(accepted) \in Nat /\ Len(queue) \in Nat /\ Len(file) \in Nat
      /\ Len(accepted') = Len(accepted) + 1 /\ Len(queue') = Len(queue) + 1
      /\ \A n \in 1..Len(accepted) : accepted'[n] = accepted[n]
      /\ accepted'[Len(accepted) + 1] = new
      /\ \A n \in 1..Len(queue) : queue'[n] = queue[n]
      /\ queue'[Len(queue) + 1] = new
      /\ TakenLines' = TakenLines
  BY <1>1 DEF JsonlInv, JsonlTypeOK, TakenLines
<1>5. PlacesInv'
  <2>1. \A n \in 1..Len(accepted') : accepted'[n].id = n
    BY <1>2, <1>4 DEF JsonlInv, PlacesInv
  <2>2. \A n \in 1..Len(queue') : queue'[n] = accepted'[TakenLines' + n]
    <3>1. TakenLines + Len(queue) + 1 = Len(accepted) + 1
      BY <1>4 DEF TakenLines
    <3>2. Len(queue) <= Len(accepted)
      BY DEF JsonlInv, PlacesInv
    <3>3. \A n \in 1..Len(queue) : TakenLines + n \in 1..Len(accepted)
      BY <1>4, <3>2 DEF TakenLines
    <3>4. ASSUME NEW n \in 1..Len(queue)
          PROVE  queue'[n] = accepted'[TakenLines + n]
      BY <1>4, <3>3 DEF JsonlInv, PlacesInv
    <3>5. queue'[Len(queue) + 1] = accepted'[TakenLines + (Len(queue) + 1)]
      BY <1>4, <3>1 DEF TakenLines
    <3>6. \A n \in 1..Len(queue') : n \in 1..Len(queue) \/ n = Len(queue) + 1
      BY <1>4
    <3> QED
      BY <1>4, <3>4, <3>5, <3>6
  <2>3. line # NoLine => TakenLines \in 1..Len(accepted)
    <3>1. line # NoLine => TakenLines >= 1
      BY DEF JsonlInv, PlacesInv
    <3> QED
      BY <1>4, <3>1 DEF TakenLines
  <2>4. Len(queue') <= Len(accepted') /\ Len(file) <= Len(accepted')
    BY <1>4 DEF JsonlInv, PlacesInv
  <2>5. \A n \in 1..Len(file) : file[n] = accepted'[n]
    BY <1>4 DEF JsonlInv, PlacesInv
  <2>6. line # NoLine => TakenLines >= 1 /\ line = accepted'[TakenLines]
    BY <1>4, <2>3 DEF JsonlInv, PlacesInv
  <2> QED
    BY <1>1, <1>4, <2>1, <2>2, <2>4, <2>5, <2>6 DEF JsonlInv, PlacesInv
<1>6. BytesInv'
  <2>1. HeldLines' = HeldLines \cup {new}
    <3>1. DOMAIN queue = 1..Len(queue) /\ DOMAIN queue' = 1..Len(queue')
      BY <1>3 DEF JsonlInv, JsonlTypeOK
    <3> QED
      BY <1>1, <1>4, <3>1 DEF HeldLines
  <2>2. \A l \in HeldLines : l.id # new.id
    BY <1>2, <1>4, HeldIds DEF JsonlInv, NoLine
  <2>3. /\ IsFiniteSet(AllBytes(HeldLines \cup {new}))
        /\ Cardinality(AllBytes(HeldLines \cup {new}))
             = Cardinality(AllBytes(HeldLines)) + pending
    BY <1>2, <2>2, BytesAdded, HeldBytesOf DEF JsonlInv, BytesInv
  <2>4. HeldBytes' = AllBytes(HeldLines \cup {new})
    BY <2>1 DEF HeldBytes, AllBytes, BytesOf
  <2> QED
    BY <1>1, <2>3, <2>4, HeldBytesOf DEF JsonlInv, BytesInv, RetainedIsHeld
<1> QED
  BY <1>1, <1>3, <1>5, <1>6 DEF JsonlInv, ProducerInv, LeaveInv, HealthyInv

\* The worker takes the first line of the queue: the bytes held stay the same.
LEMMA TakeKeepsInv ==
  ASSUME JsonlConstants, JsonlInv, Take PROVE JsonlInv'
<1>1. /\ queue # <<>> /\ worker = "wait" /\ worker' = "write"
      /\ line' = Head(queue) /\ queue' = Tail(queue)
      /\ UNCHANGED <<producer, pending, accepted, healthy, retained, closing, failed,
                     blocked, file>>
  BY DEF Take, WorkerGoes, producerVars
<1>2. /\ Len(accepted) \in Nat /\ Len(queue) \in Nat /\ Len(queue) >= 1
      /\ Len(queue') = Len(queue) - 1 /\ queue' \in Seq(Line)
      /\ \A n \in 1..Len(queue') : queue'[n] = queue[n + 1]
      /\ line' = queue[1] /\ line' \in Line
      /\ DOMAIN queue = 1..Len(queue) /\ DOMAIN queue' = 1..Len(queue')
  BY <1>1 DEF JsonlInv, JsonlTypeOK
<1>3. TakenLines' = TakenLines + 1 /\ TakenLines \in Nat
  BY <1>1, <1>2 DEF TakenLines, JsonlInv, PlacesInv
<1>4. JsonlTypeOK'
  BY <1>1, <1>2 DEF JsonlInv, JsonlTypeOK
<1>5. line = NoLine /\ Len(file) = TakenLines
  BY <1>1 DEF JsonlInv, PlacesInv
<1>6. line' # NoLine /\ line' = accepted[TakenLines + 1]
  BY <1>2 DEF Line, NoLine, JsonlInv, PlacesInv
<1>7. PlacesInv'
  <2>1. \A n \in 1..Len(queue') : queue'[n] = accepted[TakenLines' + n]
    BY <1>2, <1>3 DEF JsonlInv, PlacesInv
  <2> QED
    BY <1>1, <1>2, <1>3, <1>5, <1>6, <2>1 DEF JsonlInv, PlacesInv
<1>8. BytesInv'
  <2>1. HeldLines = HeldLines' \cup {NoLine}
    <3>1. HeldLines' = {queue[i] : i \in 1..Len(queue)}
      <4>1. {queue'[i] : i \in DOMAIN queue'} = {queue[i] : i \in 2..Len(queue)}
        <5>1. \A i \in DOMAIN queue' : i + 1 \in 2..Len(queue) /\ queue'[i] = queue[i + 1]
          BY <1>2
        <5>2. \A i \in 2..Len(queue) : i - 1 \in DOMAIN queue' /\ queue'[i - 1] = queue[i]
          BY <1>2
        <5> QED
          BY <5>1, <5>2
      <4>2. 1..Len(queue) = {1} \cup (2..Len(queue))
        BY <1>2
      <4> QED
        BY <1>2, <4>1, <4>2 DEF HeldLines
    <3> QED
      BY <1>2, <1>5, <3>1 DEF HeldLines
  <2>2. HeldBytes' = HeldBytes
    BY <2>1 DEF HeldBytes, NoLine
  <2> QED
    BY <1>1, <2>2 DEF JsonlInv, BytesInv, RetainedIsHeld
<1> QED
  BY <1>1, <1>4, <1>7, <1>8 DEF JsonlInv, ProducerInv, LeaveInv, HealthyInv

LEMMA WriteKeepsInv ==
  ASSUME JsonlInv, Write PROVE JsonlInv'
<1>1. /\ worker = "write" /\ worker' = "release" /\ file' = Append(file, line)
      /\ UNCHANGED <<producer, pending, accepted, healthy, queue, retained, closing,
                     failed, line, blocked>>
  BY DEF Write, WorkerGoes, producerVars, lockedVars
<1>2. /\ line # NoLine /\ Len(file) = TakenLines - 1 /\ TakenLines >= 1
      /\ line = accepted[TakenLines] /\ line \in Line
  BY <1>1 DEF JsonlInv, JsonlTypeOK, PlacesInv
<1>3. /\ Len(file) \in Nat /\ Len(file') = Len(file) + 1 /\ file' \in Seq(Line)
      /\ \A n \in 1..Len(file) : file'[n] = file[n]
      /\ file'[Len(file) + 1] = line
  BY <1>1, <1>2 DEF JsonlInv, JsonlTypeOK
<1>4. TakenLines' = TakenLines /\ TakenLines <= Len(accepted)
  BY <1>1 DEF TakenLines, JsonlInv, JsonlTypeOK, PlacesInv
<1>5. BytesInv' /\ JsonlTypeOK'
  BY <1>1, <1>3 DEF JsonlInv, JsonlTypeOK, BytesInv, RetainedIsHeld, HeldBytes, HeldLines
<1>6. PlacesInv'
  <2>1. \A n \in 1..Len(file') : file'[n] = accepted[n]
    <3>1. \A n \in 1..Len(file') : n \in 1..Len(file) \/ n = Len(file) + 1
      BY <1>3
    <3>2. file'[Len(file) + 1] = accepted[Len(file) + 1]
      BY <1>2, <1>3, <1>4 DEF TakenLines, JsonlInv, JsonlTypeOK
    <3> QED
      BY <1>3, <3>1, <3>2 DEF JsonlInv, PlacesInv
  <2>2. Len(file') = TakenLines /\ Len(file') <= Len(accepted)
    BY <1>2, <1>3, <1>4 DEF TakenLines, JsonlInv, JsonlTypeOK
  <2> QED
    BY <1>1, <1>2, <1>4, <2>1, <2>2 DEF JsonlInv, PlacesInv
<1> QED
  BY <1>1, <1>5, <1>6 DEF JsonlInv, ProducerInv, LeaveInv, HealthyInv

\* What is written no longer counts.
LEMMA ReleaseKeepsInv ==
  ASSUME JsonlConstants, JsonlInv, Release PROVE JsonlInv'
<1>1. /\ worker = "release" /\ worker' = "wait" /\ retained' = retained - line.charge
      /\ line' = NoLine
      /\ UNCHANGED <<producer, pending, accepted, healthy, queue, closing, failed,
                     blocked, file>>
  BY DEF Release, WorkerGoes, producerVars
<1>2. /\ line # NoLine /\ line \in Line /\ Len(file) = TakenLines
      /\ line.id = TakenLines /\ TakenLines >= 1 /\ TakenLines \in Nat
      /\ Len(accepted) \in Nat /\ Len(queue) \in Nat /\ DOMAIN queue = 1..Len(queue)
  BY <1>1 DEF JsonlInv, JsonlTypeOK, PlacesInv, TakenLines
<1> DEFINE others == {queue[i] : i \in DOMAIN queue}
<1>3. \A k \in others : k.id # line.id
  <2>1. ASSUME NEW n \in 1..Len(queue) PROVE queue[n].id = TakenLines + n
    <3>1. TakenLines + n \in 1..Len(accepted)
      BY <1>2 DEF TakenLines
    <3> QED
      BY <3>1 DEF JsonlInv, PlacesInv
  <2> QED
    BY <1>2, <2>1
<1>4. HeldLines = others \cup {line} /\ HeldLines' = others \cup {NoLine}
  BY <1>1 DEF HeldLines
<1> HIDE DEF others
<1>5. HeldBytes = AllBytes(others \cup {line}) /\ HeldBytes' = AllBytes(others)
  <2>1. HeldBytes' = AllBytes(others \cup {NoLine})
    BY <1>4 DEF HeldBytes, AllBytes, BytesOf
  <2> QED
    BY <1>4, <2>1, HeldBytesOf, NoLineHoldsNothing
<1>6. /\ IsFiniteSet(AllBytes(others))
      /\ Cardinality(HeldBytes) = Cardinality(AllBytes(others)) + line.charge
  BY <1>2, <1>3, <1>5, BytesAdded DEF JsonlInv, BytesInv
<1>7. /\ Cardinality(AllBytes(others)) \in Nat /\ line.charge \in Nat
      /\ retained \in Nat /\ Budget \in Nat
  BY <1>2, <1>6, FS_CardinalityType DEF JsonlInv, JsonlTypeOK, Line, JsonlConstants
<1>8. BytesInv' /\ retained' \in Nat
  BY <1>1, <1>5, <1>6, <1>7 DEF JsonlInv, BytesInv, RetainedIsHeld
<1>9. JsonlTypeOK' /\ PlacesInv'
  BY <1>1, <1>2, <1>8 DEF JsonlInv, JsonlTypeOK, PlacesInv, TakenLines
<1> QED
  BY <1>1, <1>8, <1>9 DEF JsonlInv, ProducerInv, LeaveInv, HealthyInv

\* The steps of the producer but publish(), and of the worker at its ends.
LEMMA OtherKeepsInv ==
  ASSUME JsonlConstants, JsonlInv,
         \/ Put \/ PutTooLong \/ Finish \/ PublishFails \/ Notify \/ Close \/ Join
         \/ Block \/ SpuriousWakeup \/ Leave \/ CloseFile \/ FileFails \/ UNCHANGED vars
  PROVE  JsonlInv'
<1>1. UNCHANGED <<accepted, queue, file, line, retained>>
  BY DEF Put, PutTooLong, Finish, PublishFails, Notify, Close, Join, Block, SpuriousWakeup,
         Leave, CloseFile, FileFails, vars, producerVars, lockedVars, workerVars
<1>2. BytesInv' /\ TakenLines' = TakenLines /\ (worker' = worker => PlacesInv')
  BY <1>1, QuietPlaces
<1>3. CASE Put \/ PutTooLong \/ Finish \/ PublishFails \/ Notify \/ Close
  <2>1. worker' = worker
    BY <1>3 DEF Put, PutTooLong, Finish, PublishFails, Notify, Close, workerVars
  <2>2. JsonlTypeOK'
    <3>1. producer' \in {"idle", "publish", "notify", "close", "close_notify", "join"}
      BY <1>3 DEF Put, PutTooLong, Finish, PublishFails, Notify, Close, ProducerGoes,
         producerVars, JsonlInv, JsonlTypeOK
    <3>2. pending' \in 0..MaxPending
      BY <1>3 DEF Put, PutTooLong, Finish, PublishFails, Notify, Close,
         producerVars, JsonlInv, JsonlTypeOK, JsonlConstants
    <3>3. healthy' \in BOOLEAN /\ closing' \in BOOLEAN
      BY <1>3 DEF Put, PutTooLong, Finish, PublishFails, Notify, Close,
         producerVars, lockedVars, JsonlInv, JsonlTypeOK
    <3>4. failed' \in BOOLEAN
      BY <1>3 DEF Put, PutTooLong, Finish, PublishFails, Notify, Close, JsonlInv, JsonlTypeOK
    <3> QED
      BY <1>1, <2>1, <3>1, <3>2, <3>3, <3>4 DEF JsonlInv, JsonlTypeOK
  <2>3. ProducerInv' /\ LeaveInv' /\ HealthyInv'
    BY <1>1, <1>3, <2>1 DEF Put, PutTooLong, Finish, PublishFails, Notify, Close, ProducerGoes,
       producerVars, lockedVars, workerVars, JsonlInv, JsonlTypeOK, ProducerInv, LeaveInv, HealthyInv
  <2> QED
    BY <1>2, <2>1, <2>2, <2>3 DEF JsonlInv
<1>4. CASE Join \/ Block \/ SpuriousWakeup \/ UNCHANGED vars
  <2>1. JsonlTypeOK' /\ worker' = worker
    BY <1>1, <1>4 DEF Join, Block, SpuriousWakeup, vars, ProducerGoes,
       producerVars, lockedVars, workerVars, JsonlInv, JsonlTypeOK
  <2>2. ProducerInv' /\ LeaveInv' /\ HealthyInv'
    BY <1>1, <1>4 DEF Join, Block, SpuriousWakeup, vars, ProducerGoes,
       producerVars, lockedVars, workerVars, JsonlInv, JsonlTypeOK, ProducerInv, LeaveInv, HealthyInv
  <2> QED
    BY <1>2, <2>1, <2>2 DEF JsonlInv
<1>5. CASE Leave \/ CloseFile \/ FileFails
  <2>1. UNCHANGED <<producer, pending, healthy, closing>>
    BY <1>5 DEF Leave, CloseFile, FileFails, producerVars, lockedVars
  <2>2. JsonlTypeOK'
    BY <1>1, <1>5, <2>1 DEF Leave, CloseFile, FileFails, WorkerGoes, JsonlInv, JsonlTypeOK
  <2>3. PlacesInv'
    BY <1>1, <1>2, <1>5 DEF Leave, CloseFile, FileFails, WorkerGoes, JsonlInv, PlacesInv
  <2>4. ProducerInv' /\ HealthyInv'
    BY <1>1, <1>5, <2>1 DEF Leave, CloseFile, FileFails, WorkerGoes, JsonlInv, ProducerInv,
       HealthyInv
  <2>5. ASSUME FileFails PROVE LeaveInv'
    BY <1>1, <2>1, <2>5 DEF FileFails, WorkerGoes, LeaveInv
  <2>6. ASSUME Leave PROVE LeaveInv'
    BY <1>1, <2>1, <2>6 DEF Leave, WorkerGoes, LeaveInv
  <2>7. ASSUME CloseFile PROVE LeaveInv'
    <3>1. closing /\ queue = <<>> /\ Len(file) = Len(accepted)
      BY <2>7 DEF CloseFile, WorkerGoes, JsonlInv, JsonlTypeOK, PlacesInv, LeaveInv, TakenLines
    <3> QED
      BY <1>1, <2>1, <2>7, <3>1 DEF CloseFile, WorkerGoes, LeaveInv
  <2> QED
    BY <1>2, <1>5, <2>2, <2>3, <2>4, <2>5, <2>6, <2>7 DEF JsonlInv
<1> QED
  BY <1>3, <1>4, <1>5

-----------------------------------------------------------------------------
(* The theorems. *)

LEMMA JsonlStepKeepsInv ==
  ASSUME JsonlConstants, JsonlInv, [Next]_vars PROVE JsonlInv'
BY PublishKeepsInv, TakeKeepsInv, WriteKeepsInv, ReleaseKeepsInv, OtherKeepsInv
   DEF Next, Calls, InCall, Run, Terminated

\* Whatever the two threads do, every line is in the file, in the worker's
\* hands or in the queue, in order.
THEOREM JsonlInvariant ==
  ASSUME JsonlConstants PROVE Spec => []JsonlInv
<1>1. Init => JsonlInv
  <2> SUFFICES ASSUME Init PROVE JsonlInv
    OBVIOUS
  <2>1. HeldBytes = {}
    BY DEF Init, HeldBytes, HeldLines, NoLine
  <2>2. BytesInv
    BY <2>1, FS_EmptySet DEF Init, BytesInv, RetainedIsHeld, JsonlConstants
  <2>3. JsonlTypeOK
    <3>1. pending \in 0..MaxPending /\ retained \in Nat
      BY DEF Init, JsonlConstants
    <3>2. accepted \in Seq(Line) /\ queue \in Seq(Line) /\ file \in Seq(Line)
      BY DEF Init
    <3> QED
      BY <3>1, <3>2 DEF Init, JsonlTypeOK
  <2> QED
    BY <2>2, <2>3 DEF Init, JsonlInv, PlacesInv, TakenLines, ProducerInv, LeaveInv, HealthyInv
<1>2. JsonlInv /\ [Next]_vars => JsonlInv'
  BY JsonlStepKeepsInv
<1> QED
  BY <1>1, <1>2, PTL DEF Spec

\* retained_ counts exactly the bytes in memory, and they never pass the budget.
THEOREM RetainedIsExact ==
  ASSUME JsonlConstants PROVE Spec => []RetainedIsHeld
<1>1. JsonlInv => RetainedIsHeld
  BY DEF JsonlInv, BytesInv
<1> QED
  BY <1>1, JsonlInvariant, PTL

\* Every step of the two threads is a step of the plain log or changes nothing
\* of it.
LEMMA JsonlStepIsLogStep ==
  ASSUME JsonlConstants, JsonlInv, [Next]_vars PROVE [Log!LogNext]_(Log!logVars)
<1> USE DEF producerVars, lockedVars, workerVars, ProducerGoes, WorkerGoes, Log!logVars
<1>1. CASE UNCHANGED vars
  BY <1>1 DEF vars
<1>2. CASE \/ Put \/ Notify \/ Close \/ Take \/ Block \/ SpuriousWakeup \/ Leave
           \/ Release \/ CloseFile
  BY <1>2 DEF Put, Notify, Close, Take, Block, SpuriousWakeup, Leave, Release, CloseFile
<1>3. CASE PutTooLong \/ PublishFails \/ Finish \/ FileFails
  <2>1. UNCHANGED <<accepted, file, healthy>> /\ failed \in BOOLEAN /\ failed' \in BOOLEAN
    BY <1>3 DEF PutTooLong, PublishFails, Finish, FileFails, JsonlInv, JsonlTypeOK
  <2>2. failed => failed'
    BY <1>3 DEF PutTooLong, PublishFails, Finish, FileFails
  <2>3. ~healthy
    BY <1>3 DEF PutTooLong, PublishFails, Finish, FileFails, JsonlInv, HealthyInv
  <2>4. CASE failed' = failed
    BY <2>1, <2>4
  <2>5. CASE ~failed /\ failed' = TRUE
    BY <2>1, <2>3, <2>5 DEF Log!LogNext, Log!Fail
  <2>6. failed' = failed \/ (~failed /\ failed' = TRUE)
    BY <2>1, <2>2
  <2> QED
    BY <2>4, <2>5, <2>6
<1>4. CASE Publish
  <2>1. ~healthy /\ UNCHANGED <<failed, file, healthy>>
    BY <1>4 DEF Publish, JsonlInv, HealthyInv
  <2>2. \E new \in Line : accepted' = Append(accepted, new)
    <3>1. [id |-> Len(accepted) + 1, charge |-> pending] \in Line
      BY <1>4 DEF Publish, JsonlInv, JsonlTypeOK, ProducerInv, Line, JsonlConstants
    <3> QED
      BY <1>4, <3>1 DEF Publish
  <2> QED
    BY <2>1, <2>2 DEF Log!LogNext, Log!Accept
<1>5. CASE Write
  <2>1. /\ worker = "write" /\ file' = Append(file, line)
        /\ UNCHANGED <<accepted, failed, healthy>>
    BY <1>5 DEF Write
  <2>2. ~healthy
    BY <2>1 DEF JsonlInv, HealthyInv
  <2>3. Len(file) < Len(accepted) /\ line = accepted[Len(file) + 1]
    BY <2>1 DEF JsonlInv, JsonlTypeOK, PlacesInv, TakenLines
  <2> QED
    BY <2>1, <2>2, <2>3 DEF Log!LogNext, Log!Write
<1>6. CASE Join
  <2>1. /\ worker = "done" /\ producer = "join" /\ healthy' = ~failed
        /\ UNCHANGED <<accepted, file, failed>>
    BY <1>6 DEF Join
  <2>2. healthy = FALSE
    BY <2>1 DEF JsonlInv, JsonlTypeOK, HealthyInv
  <2>3. CASE failed
    BY <2>1, <2>2, <2>3
  <2>4. CASE ~failed
    <3>1. Len(file) = Len(accepted)
      BY <2>1, <2>4 DEF JsonlInv, LeaveInv
    <3>2. file = accepted
      BY <3>1 DEF JsonlInv, JsonlTypeOK, PlacesInv
    <3> QED
      BY <2>1, <2>2, <2>4, <3>2 DEF Log!LogNext, Log!Publish
  <2> QED
    BY <2>3, <2>4
<1> QED
  BY <1>1, <1>2, <1>3, <1>4, <1>5, <1>6 DEF Next, Calls, InCall, Run, Terminated

\* The stream behind a study's output implements the same plain log as the
\* capture writer: finish() returns true only when the file holds every line.
THEOREM StreamIsPlainLog ==
  ASSUME JsonlConstants PROVE Spec => JsonlImplementsLog
<1>1. Init => Log!LogInit
  BY DEF Init, Log!LogInit
<1>2. JsonlInv /\ [Next]_vars => [Log!LogNext]_(Log!logVars)
  BY JsonlStepIsLogStep
<1> QED
  BY <1>1, <1>2, JsonlInvariant, PTL DEF Spec, JsonlImplementsLog, Log!LogSpec
================================================================================
