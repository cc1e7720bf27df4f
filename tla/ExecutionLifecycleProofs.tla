----------------------- MODULE ExecutionLifecycleProofs -----------------------
(***************************************************************************)
(* Theorems about the order lifecycle of ExecutionLifecycle, for any       *)
(* constraints, policies, latencies, fills and frames: its queue of        *)
(* events, its ledger and the pairs its attempts own.                      *)
(***************************************************************************)
EXTENDS ExecutionLifecycle

-----------------------------------------------------------------------------
(* The inductive invariant. *)

AttemptRecord ==
  [quantity : Nat, started : Nat, reserve : [Leg -> Int], filled : [Leg -> Nat],
   debit : [Leg -> Int], completion_orders : Nat, pending_buys : Int,
   exit_considered : BOOLEAN]

OrderRecord ==
  [attempt : Constraint, leg : Leg, quantity : Int, reserve : Nat, filled : Nat,
   debit : Nat, credit : Nat, arrived : BOOLEAN, responded : BOOLEAN, sell : BOOLEAN]

EventRecord == [time : Nat, order : Nat, response : BOOLEAN]

QueueTypeOK ==
  /\ policy \in Policies
  /\ now \in Nat /\ settlement_index \in 0..Len(policy.settlements)
  /\ attempts \in [Constraint -> AttemptRecord]
  /\ orders \in Seq(OrderRecord)
  /\ events \subseteq EventRecord

\* What an event says of its order: an arrival is still to come, a response
\* has not been given ("response lifecycle" never fails).
EventSound(e) ==
  /\ e.order \in DOMAIN orders
  /\ orders[e.order].attempt \in Attempted
  /\ ~orders[e.order].responded
  /\ orders[e.order].arrived <=> e.response
  /\ ~e.response => orders[e.order].filled = 0

\* Every order waits for one event at most.
QueueSound ==
  /\ \A e \in events : EventSound(e)
  /\ \A e, f \in events : e.order = f.order => e = f

BuyOf(e, c) == orders[e.order].attempt = c /\ ~orders[e.order].sell

\* Sequential completion has one buy of an attempt in flight at a time; one for
\* the second leg asks for no more than the first leg has and it lacks.
OneBuyAtATime ==
  policy.sequential =>
    /\ \A c \in Constraint, e, f \in events : BuyOf(e, c) /\ BuyOf(f, c) => e = f
    /\ \A c \in Constraint : attempts[c].filled[2] <= attempts[c].filled[1]
    /\ \A c \in Constraint, e \in events :
         BuyOf(e, c) /\ ~e.response /\ orders[e.order].leg = 2
           => orders[e.order].quantity <= Missing(attempts[c])

QueueInv == QueueTypeOK /\ QueueSound /\ OneBuyAtATime

-----------------------------------------------------------------------------
(* What a response leads to. *)

\* What has been computed while a response is processed.
IsWork(work) == DOMAIN work = {"attempt", "cash", "orders", "events"}

\* A new order of attempt c that may follow: an exit, or a completion of the
\* second leg for at most what it lacks.
FollowUp(o, c, a) ==
  /\ o \in OrderRecord
  /\ o.attempt = c /\ o.filled = 0 /\ ~o.arrived /\ ~o.responded
  /\ o.sell \/ (policy.sequential /\ o.leg = 2 /\ o.quantity <= Missing(a))

\* The outcomes of a response keep what the attempt filled and submit one new
\* order at most.
Continues(done, c, work) ==
  /\ done.attempt \in AttemptRecord
  /\ done.attempt.filled = work.attempt.filled
  /\ done.attempt.quantity = work.attempt.quantity
  /\ \/ done.orders = work.orders /\ done.events = work.events
     \/ \E o, t :
          /\ FollowUp(o, c, work.attempt) /\ t \in Nat
          /\ done.orders = Append(work.orders, o)
          /\ done.events = work.events \cup {ArrivalOf(Len(work.orders) + 1, t)}

\* The policy of a run has its types.
LEMMA PolicyTypes ==
  ASSUME QueueTypeOK
  PROVE  /\ policy \in Policy /\ policy.sequential \in BOOLEAN
         /\ policy.latency \in [Leg -> Nat] /\ policy.response \in [Leg -> Nat]
         /\ policy.exit_latency \in Nat /\ policy.exit_response \in Nat
         /\ policy.settlements \in Seq([market : Market, yes_wins : BOOLEAN, time : Nat])
         /\ SortedByTime(policy.settlements)
<1>1. policy \in Policy /\ SortedByTime(policy.settlements)
  BY LifecycleConstants DEF QueueTypeOK
<1> QED
  BY <1>1 DEF Policy

\* submit() adds the order and its arrival.
LEMMA SubmittedFields ==
  ASSUME NEW work, IsWork(work), NEW o, NEW t
  PROVE  /\ Submitted(work, o, t).attempt = work.attempt
         /\ Submitted(work, o, t).orders = Append(work.orders, o)
         /\ Submitted(work, o, t).events =
              work.events \cup {ArrivalOf(Len(work.orders) + 1, t)}
BY DEF Submitted, IsWork

\* The attempt after a completion was sent.
WithCompletion(a, r) ==
  [[[a EXCEPT !.reserve[2] = r] EXCEPT !.completion_orders = @ + 1]
     EXCEPT !.pending_buys = @ + 1]

\* What a completion order leaves of its attempt.
LEMMA AttemptWithCompletion ==
  ASSUME NEW a \in AttemptRecord, NEW r \in Int
  PROVE  /\ WithCompletion(a, r) \in AttemptRecord
         /\ WithCompletion(a, r).filled = a.filled
         /\ WithCompletion(a, r).quantity = a.quantity
<1> DEFINE a1 == [a EXCEPT !.reserve[2] = r]
           a2 == [a1 EXCEPT !.completion_orders = @ + 1]
           a3 == [a2 EXCEPT !.pending_buys = @ + 1]
<1>1. a1 \in AttemptRecord /\ a1.filled = a.filled /\ a1.quantity = a.quantity
  BY DEF AttemptRecord, Leg
<1> HIDE DEF a1
<1>2. a2 \in AttemptRecord /\ a2.filled = a1.filled /\ a2.quantity = a1.quantity
  BY <1>1 DEF AttemptRecord
<1> HIDE DEF a2
<1>3. a3 \in AttemptRecord /\ a3.filled = a2.filled /\ a3.quantity = a2.quantity
  BY <1>2 DEF AttemptRecord
<1>4. WithCompletion(a, r) = a3
  BY DEF WithCompletion, a1, a2
<1> QED
  BY <1>1, <1>2, <1>3, <1>4

\* The attempt after the response of one of its buys.
WithResponse(a, l) == [a EXCEPT !.pending_buys = @ - 1, !.reserve[l] = 0]

\* What a response leaves of its attempt.
LEMMA AttemptWithResponse ==
  ASSUME NEW a \in AttemptRecord, NEW l \in Leg
  PROVE  /\ WithResponse(a, l) \in AttemptRecord
         /\ WithResponse(a, l).filled = a.filled
         /\ WithResponse(a, l).quantity = a.quantity
<1> DEFINE a1 == [a EXCEPT !.pending_buys = @ - 1]
           a2 == [a1 EXCEPT !.reserve[l] = 0]
<1>1. a1 \in AttemptRecord /\ a1.filled = a.filled /\ a1.quantity = a.quantity
  BY DEF AttemptRecord
<1> HIDE DEF a1
<1>2. a2 \in AttemptRecord /\ a2.filled = a1.filled /\ a2.quantity = a1.quantity
  BY <1>1 DEF AttemptRecord
<1>3. WithResponse(a, l) = a2
  BY DEF WithResponse, a1
<1> QED
  BY <1>1, <1>2, <1>3

\* consider_exit().
LEMMA ConsiderExitContinues ==
  ASSUME QueueTypeOK, NEW c \in Constraint, NEW work, IsWork(work),
         work.attempt \in AttemptRecord, NEW time \in Nat,
         NEW done \in ConsiderExit(c, work, time)
  PROVE  Continues(done, c, work)
<1> DEFINE considered == [work EXCEPT !.attempt.exit_considered = policy.exit # "none"]
           leg == IF work.attempt.filled[1] > work.attempt.filled[2] THEN 1 ELSE 2
<1>1. /\ IsWork(considered)
      /\ considered.orders = work.orders /\ considered.events = work.events
      /\ \E x \in BOOLEAN : considered.attempt = [work.attempt EXCEPT !.exit_considered = x]
  BY DEF IsWork
<1>2. /\ considered.attempt \in AttemptRecord
      /\ considered.attempt.filled = work.attempt.filled
      /\ considered.attempt.quantity = work.attempt.quantity
  <2> HIDE DEF considered
  <2>1. PICK x \in BOOLEAN : considered.attempt = [work.attempt EXCEPT !.exit_considered = x]
    BY <1>1
  <2> QED
    BY <2>1 DEF AttemptRecord
<1>3. \/ done = considered
      \/ \E q \in Int :
           done = Submitted(considered, Order(c, leg, q, 0, TRUE), time + policy.exit_latency)
  <2>1. \A x : \A q \in 1..x : q \in Int
    OBVIOUS
  <2> HIDE DEF considered
  <2> QED
    BY <2>1 DEF ConsiderExit, considered
<1> HIDE DEF considered
<1>4. CASE done = considered
  BY <1>1, <1>2, <1>4 DEF Continues
<1>5. ASSUME NEW q \in Int,
             done = Submitted(considered, Order(c, leg, q, 0, TRUE), time + policy.exit_latency)
      PROVE  Continues(done, c, work)
  <2> DEFINE o == Order(c, leg, q, 0, TRUE)
  <2>1. FollowUp(o, c, work.attempt)
    BY DEF FollowUp, Order, OrderRecord, Leg
  <2>2. time + policy.exit_latency \in Nat
    BY PolicyTypes
  <2> HIDE DEF o
  <2>3. /\ done.attempt = considered.attempt
        /\ done.orders = Append(considered.orders, o)
        /\ done.events = considered.events
             \cup {ArrivalOf(Len(considered.orders) + 1, time + policy.exit_latency)}
    <3>1. done = Submitted(considered, o, time + policy.exit_latency)
      BY <1>5 DEF o
    <3> QED
      BY <1>1, <3>1, SubmittedFields
  <2> QED
    BY <1>1, <1>2, <2>1, <2>2, <2>3 DEF Continues
<1> QED
  BY <1>3, <1>4, <1>5

\* complete_second() and finish_acquisition().
LEMMA CompleteSecondContinues ==
  ASSUME QueueTypeOK, policy.sequential, NEW c \in Constraint, NEW work, IsWork(work),
         work.attempt \in AttemptRecord, NEW time \in Nat,
         NEW done \in CompleteSecond(c, work, time)
  PROVE  Continues(done, c, work)
<1> DEFINE held == work.attempt.reserve[2]
<1>1. CASE done \in FinishAcquisition(c, work, time)
  <2> DEFINE freed == [work EXCEPT !.attempt.reserve[2] = 0,
                                   !.cash.reserved_total = @ - held,
                                   !.cash.available = @ + held]
  <2>1. /\ IsWork(freed) /\ freed.orders = work.orders /\ freed.events = work.events
        /\ freed.attempt = [work.attempt EXCEPT !.reserve[2] = 0]
    BY DEF IsWork
  <2>2. /\ freed.attempt \in AttemptRecord
        /\ freed.attempt.filled = work.attempt.filled
        /\ freed.attempt.quantity = work.attempt.quantity
    BY <2>1 DEF AttemptRecord, Leg
  <2>3. done \in ConsiderExit(c, freed, time)
    BY <1>1 DEF FinishAcquisition
  <2> HIDE DEF freed
  <2>4. Continues(done, c, freed)
    BY <2>1, <2>2, <2>3, ConsiderExitContinues
  <2> QED
    BY <2>1, <2>2, <2>4 DEF Continues, FollowUp, Missing
<1>2. ASSUME NEW o \in Completions(c, work, time),
             done = Submitted([work EXCEPT !.attempt.reserve[2] = o.reserve,
                                           !.attempt.completion_orders = @ + 1,
                                           !.attempt.pending_buys = @ + 1,
                                           !.cash.reserved_total = @ + o.reserve - held,
                                           !.cash.available = @ + held - o.reserve],
                              Order(c, 2, o.quantity, o.reserve, FALSE), time + policy.latency[2])
      PROVE  Continues(done, c, work)
  <2> DEFINE reserved == [work EXCEPT !.attempt.reserve[2] = o.reserve,
                                      !.attempt.completion_orders = @ + 1,
                                      !.attempt.pending_buys = @ + 1,
                                      !.cash.reserved_total = @ + o.reserve - held,
                                      !.cash.available = @ + held - o.reserve]
             p == Order(c, 2, o.quantity, o.reserve, FALSE)
  <2>1. o.quantity \in Int /\ o.reserve \in Nat /\ o.quantity <= Missing(work.attempt)
    <3>1. /\ o \in [quantity : 1..QuantityCap, reserve : Reserves]
          /\ o.quantity <= Missing(work.attempt)
      BY DEF Completions
    <3>2. o.quantity \in 1..QuantityCap /\ o.reserve \in Reserves
      BY <3>1
    <3>3. o.quantity \in Int
      BY <3>2
    <3>4. o.reserve \in Nat
      BY <3>2, LifecycleConstants
    <3> QED
      BY <3>1, <3>3, <3>4
  <2>2. /\ IsWork(reserved) /\ reserved.orders = work.orders /\ reserved.events = work.events
        /\ reserved.attempt = WithCompletion(work.attempt, o.reserve)
    BY DEF IsWork, WithCompletion
  <2>3. /\ reserved.attempt \in AttemptRecord
        /\ reserved.attempt.filled = work.attempt.filled
        /\ reserved.attempt.quantity = work.attempt.quantity
    <3> HIDE DEF reserved
    <3>1. o.reserve \in Int
      BY <2>1
    <3> QED
      BY <2>2, <3>1, AttemptWithCompletion
  <2>4. FollowUp(p, c, work.attempt)
    BY <2>1 DEF FollowUp, Order, OrderRecord, Leg
  <2>5. time + policy.latency[2] \in Nat
    BY PolicyTypes DEF Leg
  <2>6. done = Submitted(reserved, p, time + policy.latency[2])
    BY <1>2
  <2> HIDE DEF reserved, p
  <2>7. /\ done.attempt = reserved.attempt
        /\ done.orders = Append(reserved.orders, p)
        /\ done.events = reserved.events
             \cup {ArrivalOf(Len(reserved.orders) + 1, time + policy.latency[2])}
    BY <2>2, <2>6, SubmittedFields
  <2> QED
    BY <2>2, <2>3, <2>4, <2>5, <2>7 DEF Continues
<1> QED
  BY <1>1, <1>2 DEF CompleteSecond
-----------------------------------------------------------------------------
(* Every step keeps the invariant. *)

\* What the invariant says of the order an event is for.
LEMMA EventFacts ==
  ASSUME QueueInv, NEW e \in events
  PROVE  /\ e.time \in Nat /\ e.order \in Nat /\ e.response \in BOOLEAN
         /\ e.order \in DOMAIN orders /\ e.order \in 1..Len(orders)
         /\ orders[e.order] \in OrderRecord
         /\ orders[e.order].attempt \in Constraint
         /\ orders[e.order].leg \in Leg
         /\ attempts[orders[e.order].attempt] \in AttemptRecord
         /\ orders[e.order].attempt \in Attempted
<1>1. e \in EventRecord /\ e.order \in DOMAIN orders /\ orders \in Seq(OrderRecord)
      /\ attempts \in [Constraint -> AttemptRecord] /\ orders[e.order].attempt \in Attempted
  BY DEF QueueInv, QueueTypeOK, QueueSound, EventSound
<1>2. orders[e.order] \in OrderRecord /\ e.order \in 1..Len(orders)
  BY <1>1
<1> QED
  BY <1>1, <1>2 DEF EventRecord, OrderRecord

\* decide() submits orders of its own attempt only.
LEMMA DecideFields ==
  ASSUME QueueInv, NEW c \in Constraint, NEW q \in 1..QuantityCap,
         NEW r \in [Leg -> Reserves], Decide(c, q, r)
  PROVE  /\ orders' \in Seq(OrderRecord) /\ Len(orders') >= Len(orders)
         /\ \A i \in 1..Len(orders) : orders'[i] = orders[i]
         /\ \A i \in DOMAIN orders' : i > Len(orders) =>
              /\ orders'[i].attempt = c /\ orders'[i].filled = 0
              /\ ~orders'[i].arrived /\ ~orders'[i].responded
              /\ policy.sequential => i = Len(orders) + 1 /\ orders'[i].leg = 1
         /\ events \subseteq events' /\ events' \subseteq EventRecord
         /\ \A e \in events' \ events :
              ~e.response /\ e.order > Len(orders) /\ e.order \in DOMAIN orders'
         /\ \A e, f \in events' \ events : e.order = f.order => e = f
<1> DEFINE sent == IF policy.sequential THEN <<1>> ELSE <<1, 2>>
           new == [i \in DOMAIN sent |-> Order(c, sent[i], q, r[sent[i]], FALSE)]
           first == Len(orders) + 1
<1>1. /\ orders \in Seq(OrderRecord) /\ Len(orders) \in Nat /\ now \in Nat
      /\ events \subseteq EventRecord
  BY DEF QueueInv, QueueTypeOK
<1>2. /\ DOMAIN sent = 1..Len(sent) /\ Len(sent) \in {1, 2}
      /\ policy.sequential => Len(sent) = 1
      /\ \A i \in DOMAIN sent : sent[i] \in Leg /\ (i = 1 => sent[i] = 1)
  <2>1. CASE policy.sequential
    <3>1. sent = <<1>>
      BY <2>1
    <3> HIDE DEF sent
    <3> QED
      BY <2>1, <3>1 DEF Leg
  <2>2. CASE ~policy.sequential
    <3>1. sent = <<1, 2>>
      BY <2>2
    <3> HIDE DEF sent
    <3> QED
      BY <2>2, <3>1 DEF Leg
  <2> QED
    BY <2>1, <2>2
<1> HIDE DEF sent
<1>3. \A i \in DOMAIN sent : Order(c, sent[i], q, r[sent[i]], FALSE) \in OrderRecord
  <2> TAKE i \in DOMAIN sent
  <2>1. r[sent[i]] \in Nat
    BY <1>2, LifecycleConstants
  <2>2. q \in Int
    OBVIOUS
  <2> QED
    BY <1>2, <2>1, <2>2 DEF Order, OrderRecord
<1>4. new \in Seq(OrderRecord) /\ Len(new) = Len(sent)
      /\ \A i \in DOMAIN sent : new[i] = Order(c, sent[i], q, r[sent[i]], FALSE)
  <2>1. DOMAIN new = 1..Len(sent)
    BY <1>2
  <2>2. \A i \in 1..Len(sent) : new[i] = Order(c, sent[i], q, r[sent[i]], FALSE)
    BY <1>2
  <2>3. new = [i \in 1..Len(sent) |-> new[i]]
    BY <2>1
  <2> HIDE DEF new
  <2>4. \A i \in 1..Len(sent) : new[i] \in OrderRecord
    BY <1>2, <1>3, <2>2
  <2>5. new \in [1..Len(sent) -> OrderRecord]
    BY <2>1, <2>3, <2>4
  <2>6. Len(sent) \in Nat
    BY <1>2
  <2>7. new \in Seq(OrderRecord)
    BY <2>5, <2>6, SeqDef
  <2>8. Len(new) = Len(sent)
    BY <2>1, <2>6, <2>7
  <2> QED
    BY <1>2, <2>2, <2>7, <2>8
<1>5. orders' = orders \o new
  BY DEF Decide, sent
<1>6. events' = events \cup {ArrivalOf(first + i - 1, now + policy.latency[sent[i]]) :
                               i \in DOMAIN sent}
  BY DEF Decide, sent
<1> HIDE DEF new
<1>7. /\ orders' \in Seq(OrderRecord) /\ Len(orders') = Len(orders) + Len(sent)
      /\ \A i \in 1..Len(orders) : orders'[i] = orders[i]
      /\ \A i \in 1..Len(sent) : orders'[Len(orders) + i] = new[i]
  <2>1. new \in Seq(OrderRecord) /\ Len(new) = Len(sent) /\ Len(sent) \in Nat
    BY <1>2, <1>4
  <2>2. /\ orders' \in Seq(OrderRecord) /\ Len(orders') = Len(orders) + Len(new)
        /\ \A i \in 1..Len(orders) + Len(new) :
             orders'[i] = IF i <= Len(orders) THEN orders[i] ELSE new[i - Len(orders)]
    <3> DEFINE joined == orders \o new
    <3>1. /\ joined \in Seq(OrderRecord) /\ Len(joined) = Len(orders) + Len(new)
          /\ \A i \in 1..Len(orders) + Len(new) :
               joined[i] = IF i <= Len(orders) THEN orders[i] ELSE new[i - Len(orders)]
      BY <1>1, <2>1, ConcatProperties
    <3> HIDE DEF joined
    <3>2. orders' = joined
      BY <1>5 DEF joined
    <3> QED
      BY <3>1, <3>2
  <2>3. \A i \in 1..Len(orders) :
          i \in 1..Len(orders) + Len(new) /\ orders'[i] = orders[i]
    BY <1>1, <2>1, <2>2
  <2>4. ASSUME NEW i \in 1..Len(sent)  PROVE orders'[Len(orders) + i] = new[i]
    <3> DEFINE j == Len(orders) + i
    <3>1. /\ j \in 1..Len(orders) + Len(new) /\ ~(j <= Len(orders))
          /\ j - Len(orders) = i
      BY <1>1, <2>1
    <3> HIDE DEF j
    <3>2. orders'[j] = new[i]
      BY <2>2, <3>1
    <3> QED
      BY <3>2 DEF j
  <2> QED
    BY <2>1, <2>2, <2>3, <2>4
<1>8. ASSUME NEW i \in DOMAIN orders', i > Len(orders)
      PROVE  /\ orders'[i].attempt = c /\ orders'[i].filled = 0
             /\ ~orders'[i].arrived /\ ~orders'[i].responded
             /\ policy.sequential => i = Len(orders) + 1 /\ orders'[i].leg = 1
  <2> DEFINE j == i - Len(orders)
  <2>1. j \in 1..Len(sent) /\ i = Len(orders) + j
    BY <1>1, <1>2, <1>7, <1>8
  <2>2. orders'[i] = Order(c, sent[j], q, r[sent[j]], FALSE)
    BY <1>2, <1>4, <1>7, <2>1
  <2>3. policy.sequential => j = 1 /\ sent[j] = 1
    BY <1>2, <2>1
  <2> QED
    BY <2>1, <2>2, <2>3 DEF Order
<1>9. ASSUME NEW i \in DOMAIN sent
      PROVE  /\ ArrivalOf(first + i - 1, now + policy.latency[sent[i]]) \in EventRecord
             /\ first + i - 1 > Len(orders) /\ first + i - 1 \in DOMAIN orders'
  <2>1. policy.latency[sent[i]] \in Nat
    BY <1>2, PolicyTypes DEF QueueInv
  <2>2. i \in 1..Len(sent) /\ Len(sent) \in Nat
    BY <1>2
  <2>3. first + i - 1 = Len(orders) + i /\ now + policy.latency[sent[i]] \in Nat
    BY <1>1, <2>1, <2>2
  <2>4. Len(orders) + i \in 1..Len(orders') /\ DOMAIN orders' = 1..Len(orders')
    BY <1>1, <1>7, <2>2
  <2> QED
    BY <1>1, <2>2, <2>3, <2>4 DEF ArrivalOf, EventRecord
<1>10. events \subseteq events' /\ events' \subseteq EventRecord
  BY <1>1, <1>6, <1>9
<1>11. \A e \in events' \ events :
         \E i \in DOMAIN sent : e = ArrivalOf(first + i - 1, now + policy.latency[sent[i]])
  BY <1>6
<1>12. \A e \in events' \ events :
         ~e.response /\ e.order > Len(orders) /\ e.order \in DOMAIN orders'
  BY <1>9, <1>11 DEF ArrivalOf
<1>13. ASSUME NEW e \in events' \ events, NEW f \in events' \ events, e.order = f.order
       PROVE  e = f
  <2>1. PICK i \in DOMAIN sent : e = ArrivalOf(first + i - 1, now + policy.latency[sent[i]])
    BY <1>11
  <2>2. PICK j \in DOMAIN sent : f = ArrivalOf(first + j - 1, now + policy.latency[sent[j]])
    BY <1>11
  <2>3. first + i - 1 = first + j - 1
    BY <1>13, <2>1, <2>2 DEF ArrivalOf
  <2>4. i = j
    BY <1>1, <1>2, <2>3
  <2> QED
    BY <2>1, <2>2, <2>4
<1>14. Len(orders') >= Len(orders)
  BY <1>1, <1>2, <1>7
<1> QED
  BY <1>7, <1>8, <1>10, <1>12, <1>13, <1>14

\* A decision starts an attempt that has no order yet.
LEMMA DecideAttempts ==
  ASSUME QueueInv, NEW c \in Constraint, NEW q \in 1..QuantityCap,
         NEW r \in [Leg -> Reserves], Decide(c, q, r)
  PROVE  /\ attempts' \in [Constraint -> AttemptRecord]
         /\ attempts'[c].filled[1] = 0 /\ attempts'[c].filled[2] = 0
         /\ \A d \in Constraint \ {c} : attempts'[d] = attempts[d]
         /\ c \notin Attempted /\ Attempted \subseteq Attempted' /\ c \in Attempted'
         /\ UNCHANGED <<policy, now, settlement_index>>
<1> DEFINE begun(k) == [NoAttempt EXCEPT !.quantity = q, !.started = now,
                                         !.reserve = r, !.pending_buys = k]
<1>1. /\ attempts \in [Constraint -> AttemptRecord] /\ now \in Nat /\ q \in Nat /\ q # 0
      /\ r \in [Leg -> Int]
  <2>1. q \in Nat /\ q # 0
    BY LifecycleConstants
  <2>2. ASSUME NEW l \in Leg  PROVE r[l] \in Int
    <3>1. r[l] \in Reserves
      OBVIOUS
    <3>2. r[l] \in Nat
      BY <3>1, LifecycleConstants
    <3> QED
      BY <3>2
  <2> QED
    BY <2>1, <2>2 DEF QueueInv, QueueTypeOK
<1>2. \E k \in {1, 2} : attempts' = [attempts EXCEPT ![c] = begun(k)]
  <2>1. Len(IF policy.sequential THEN <<1>> ELSE <<1, 2>>) \in {1, 2}
    OBVIOUS
  <2> QED
    BY <2>1 DEF Decide
<1>3. PICK k \in {1, 2} : attempts' = [attempts EXCEPT ![c] = begun(k)]
  BY <1>2
<1>4. /\ begun(k) \in AttemptRecord /\ begun(k).quantity = q
      /\ begun(k).filled = [l \in Leg |-> 0]
  <2>1. [l \in Leg |-> 0] \in [Leg -> Nat] /\ [l \in Leg |-> 0] \in [Leg -> Int]
    OBVIOUS
  <2>2. NoAttempt \in AttemptRecord /\ NoAttempt.filled = [l \in Leg |-> 0]
    BY <2>1 DEF NoAttempt, AttemptRecord
  <2> HIDE DEF begun
  <2> DEFINE a == NoAttempt
             a1 == [a EXCEPT !.quantity = q]
             a2 == [a1 EXCEPT !.started = now]
             a3 == [a2 EXCEPT !.reserve = r]
             a4 == [a3 EXCEPT !.pending_buys = k]
  <2>3. a1 \in AttemptRecord /\ a1.quantity = q /\ a1.filled = a.filled
    BY <1>1, <2>2 DEF AttemptRecord
  <2> HIDE DEF a1
  <2>4. a2 \in AttemptRecord /\ a2.quantity = q /\ a2.filled = a.filled
    BY <1>1, <2>3 DEF AttemptRecord
  <2> HIDE DEF a2
  <2>5. a3 \in AttemptRecord /\ a3.quantity = q /\ a3.filled = a.filled
    BY <1>1, <2>4 DEF AttemptRecord
  <2> HIDE DEF a3
  <2>6. a4 \in AttemptRecord /\ a4.quantity = q /\ a4.filled = a.filled
    BY <1>3, <2>5 DEF AttemptRecord
  <2>7. begun(k) = a4
    BY DEF begun, a1, a2, a3
  <2> QED
    BY <2>2, <2>6, <2>7
<1> HIDE DEF begun
<1>5. /\ attempts' \in [Constraint -> AttemptRecord] /\ attempts'[c] = begun(k)
      /\ \A d \in Constraint \ {c} : attempts'[d] = attempts[d]
  BY <1>1, <1>3, <1>4
<1>6. c \notin Attempted /\ UNCHANGED <<policy, now, settlement_index>>
  BY DEF Decide
<1>7. Attempted \subseteq Attempted' /\ c \in Attempted'
  BY <1>1, <1>4, <1>5, <1>6 DEF Attempted
<1> QED
  BY <1>4, <1>5, <1>6, <1>7 DEF Leg

\* A decision keeps the invariant.
LEMMA DecideKeeps ==
  ASSUME QueueInv, NEW c \in Constraint, NEW q \in 1..QuantityCap,
         NEW r \in [Leg -> Reserves], Decide(c, q, r)
  PROVE  QueueInv'
<1>1. /\ orders \in Seq(OrderRecord) /\ DOMAIN orders = 1..Len(orders) /\ Len(orders) \in Nat
      /\ DOMAIN orders' = 1..Len(orders') /\ Len(orders') \in Nat
  BY DecideFields DEF QueueInv, QueueTypeOK
<1>2. QueueTypeOK'
  BY DecideFields, DecideAttempts DEF QueueInv, QueueTypeOK
<1>3. \A e \in events : e.order \in 1..Len(orders) /\ orders'[e.order] = orders[e.order]
  BY EventFacts, DecideFields
<1>4. \A e \in events' \ events :
        /\ ~e.response /\ e.order > Len(orders) /\ e.order \in DOMAIN orders'
        /\ orders'[e.order].attempt = c /\ orders'[e.order].filled = 0
        /\ ~orders'[e.order].arrived /\ ~orders'[e.order].responded
        /\ policy.sequential => e.order = Len(orders) + 1 /\ orders'[e.order].leg = 1
  BY DecideFields
<1>5. QueueSound'
  <2>1. ASSUME NEW e \in events'  PROVE EventSound(e)'
    <3>1. CASE e \in events
      BY <1>1, <1>3, <3>1, DecideFields, DecideAttempts DEF QueueInv, QueueSound, EventSound
    <3>2. CASE e \notin events
      BY <1>4, <3>2, DecideAttempts DEF EventSound
    <3> QED
      BY <3>1, <3>2
  <2>2. ASSUME NEW e \in events', NEW f \in events', e.order = f.order  PROVE e = f
    <3>1. CASE e \in events /\ f \in events
      BY <2>2, <3>1 DEF QueueInv, QueueSound
    <3>2. CASE e \notin events /\ f \notin events
      BY <2>2, <3>2, DecideFields
    <3>3. CASE e \in events /\ f \notin events
      <4>1. e.order \in 1..Len(orders) /\ f.order > Len(orders)
        BY <1>3, <1>4, <3>3
      <4> QED
        BY <1>1, <2>2, <4>1
    <3>4. CASE e \notin events /\ f \in events
      <4>1. f.order \in 1..Len(orders) /\ e.order > Len(orders)
        BY <1>3, <1>4, <3>4
      <4> QED
        BY <1>1, <2>2, <4>1
    <3> QED
      BY <3>1, <3>2, <3>3, <3>4
  <2> QED
    BY <2>1, <2>2 DEF QueueSound
<1>6. ASSUME policy.sequential  PROVE OneBuyAtATime'
  <2>1. \A e \in events : orders[e.order].attempt # c
    BY EventFacts, DecideAttempts
  <2>2. \A e \in events, d \in Constraint : BuyOf(e, d)' <=> BuyOf(e, d)
    BY <1>3 DEF BuyOf
  <2>3. \A e \in events' \ events, d \in Constraint : BuyOf(e, d)' => d = c
    BY <1>4 DEF BuyOf
  <2>4. ASSUME NEW d \in Constraint, NEW e \in events', NEW f \in events',
               BuyOf(e, d)', BuyOf(f, d)'
        PROVE  e = f
    <3>1. CASE e \in events /\ f \in events
      BY <1>6, <2>2, <2>4, <3>1 DEF QueueInv, OneBuyAtATime
    <3>2. CASE e \notin events /\ f \notin events
      BY <1>4, <1>6, <3>2, DecideFields
    <3>3. CASE e \in events /\ f \notin events
      BY <2>1, <2>2, <2>3, <2>4, <3>3 DEF BuyOf
    <3>4. CASE e \notin events /\ f \in events
      BY <2>1, <2>2, <2>3, <2>4, <3>4 DEF BuyOf
    <3> QED
      BY <3>1, <3>2, <3>3, <3>4
  <2>5. \A d \in Constraint : attempts'[d].filled[2] <= attempts'[d].filled[1]
    BY <1>6, DecideAttempts DEF QueueInv, OneBuyAtATime
  <2>6. ASSUME NEW d \in Constraint, NEW e \in events',
               BuyOf(e, d)', ~e.response, orders'[e.order].leg = 2
        PROVE  orders'[e.order].quantity <= Missing(attempts'[d])
    <3>1. e \in events
      BY <1>4, <1>6, <2>6
    <3>2. d # c /\ attempts'[d] = attempts[d]
      BY <2>1, <2>2, <2>6, <3>1, DecideAttempts DEF BuyOf
    <3> QED
      BY <1>3, <1>6, <2>2, <2>6, <3>1, <3>2 DEF QueueInv, OneBuyAtATime
  <2> QED
    BY <2>4, <2>5, <2>6 DEF OneBuyAtATime
<1>7. OneBuyAtATime'
  <2>1. policy' = policy
    BY DecideAttempts
  <2> QED
    BY <1>6, <2>1 DEF OneBuyAtATime
<1> QED
  BY <1>2, <1>5, <1>7 DEF QueueInv

\* Only order n changed, and of it only what an arrival changes.
ArrivedOnly(s2, s, n) ==
  /\ s2 \in Seq(OrderRecord) /\ Len(s2) = Len(s)
  /\ \A i \in DOMAIN s : i # n => s2[i] = s[i]
  /\ s2[n].attempt = s[n].attempt /\ s2[n].leg = s[n].leg /\ s2[n].sell = s[n].sell
  /\ s2[n].responded = s[n].responded /\ s2[n].arrived

\* An arrival replaces its event by the response of the same order.
LEMMA ArrivalKeeps ==
  ASSUME QueueInv, NEW e \in events, ~e.response, NEW t \in Nat,
         events' = (events \ {e}) \cup {ResponseOf(e.order, t)},
         ArrivedOnly(orders', orders, e.order),
         attempts' \in [Constraint -> AttemptRecord],
         \A d \in Constraint : attempts'[d].quantity = attempts[d].quantity,
         \A d \in Constraint : ~BuyOf(e, d) => attempts'[d].filled = attempts[d].filled,
         policy.sequential =>
           \A d \in Constraint : attempts'[d].filled[2] <= attempts'[d].filled[1],
         UNCHANGED <<policy, now, settlement_index>>
  PROVE  QueueInv'
<1> DEFINE given == ResponseOf(e.order, t)
<1>1. /\ orders \in Seq(OrderRecord) /\ DOMAIN orders = 1..Len(orders)
      /\ DOMAIN orders' = DOMAIN orders /\ events \subseteq EventRecord
  BY DEF QueueInv, QueueTypeOK, ArrivedOnly
<1>2. given \in EventRecord /\ given.order = e.order /\ given.response /\ given.time = t
  BY EventFacts DEF ResponseOf, EventRecord
<1>3. events' = (events \ {e}) \cup {given}
  OBVIOUS
<1> HIDE DEF given
<1>4. Attempted' = Attempted
  BY DEF Attempted
<1>5. \A f \in events \ {e} : f.order # e.order /\ orders'[f.order] = orders[f.order]
  BY EventFacts DEF QueueInv, QueueSound, ArrivedOnly
<1>6. QueueTypeOK'
  BY <1>1, <1>2, <1>3 DEF QueueInv, QueueTypeOK, ArrivedOnly
<1>7. QueueSound'
  <2>1. ASSUME NEW f \in events'  PROVE EventSound(f)'
    <3>1. CASE f \in events \ {e}
      BY <1>1, <1>4, <1>5, <3>1 DEF QueueInv, QueueSound, EventSound
    <3>2. CASE f = given
      BY <1>1, <1>2, <1>4, <3>2 DEF QueueInv, QueueSound, EventSound, ArrivedOnly
    <3> QED
      BY <1>3, <3>1, <3>2
  <2>2. \A f, g \in events' : f.order = g.order => f = g
    BY <1>2, <1>3, <1>5 DEF QueueInv, QueueSound
  <2> QED
    BY <2>1, <2>2 DEF QueueSound
<1>8. ASSUME policy.sequential  PROVE OneBuyAtATime'
  <2>1. \A f \in events \ {e}, d \in Constraint : BuyOf(f, d)' <=> BuyOf(f, d)
    BY <1>5 DEF BuyOf
  <2>2. \A d \in Constraint : BuyOf(given, d)' <=> BuyOf(e, d)
    BY <1>2 DEF BuyOf, ArrivedOnly
  <2>3. \A d \in Constraint, f \in events \ {e} : ~(BuyOf(e, d) /\ BuyOf(f, d))
    BY <1>8 DEF QueueInv, OneBuyAtATime
  <2>4. \A d \in Constraint, f, g \in events' : BuyOf(f, d)' /\ BuyOf(g, d)' => f = g
    BY <1>3, <1>8, <2>1, <2>2, <2>3 DEF QueueInv, OneBuyAtATime
  <2>5. ASSUME NEW d \in Constraint, NEW f \in events',
               BuyOf(f, d)', ~f.response, orders'[f.order].leg = 2
        PROVE  orders'[f.order].quantity <= Missing(attempts'[d])
    <3>1. f \in events \ {e} /\ BuyOf(f, d)
      BY <1>2, <1>3, <2>1, <2>5
    <3>2. ~BuyOf(e, d)
      BY <2>3, <3>1
    <3>3. attempts'[d].filled = attempts[d].filled
      BY <3>2
    <3>4. orders[f.order].quantity <= Missing(attempts[d])
      BY <1>5, <1>8, <2>5, <3>1 DEF QueueInv, OneBuyAtATime
    <3> QED
      BY <1>5, <3>1, <3>3, <3>4 DEF Missing
  <2> QED
    BY <1>8, <2>4, <2>5 DEF OneBuyAtATime
<1>9. OneBuyAtATime'
  BY <1>8 DEF OneBuyAtATime
<1> QED
  BY <1>6, <1>7, <1>9 DEF QueueInv

\* One order of a sequence of orders is replaced.
LEMMA OrderReplaced ==
  ASSUME NEW s \in Seq(OrderRecord), NEW n \in 1..Len(s), NEW o \in OrderRecord
  PROVE  /\ [s EXCEPT ![n] = o] \in Seq(OrderRecord) /\ Len([s EXCEPT ![n] = o]) = Len(s)
         /\ \A i \in 1..Len(s) : [s EXCEPT ![n] = o][i] = IF i = n THEN o ELSE s[i]
BY ExceptSeq

\* The order of a buy after it arrived.
BuyFilled(s, n, q, d) ==
  [s EXCEPT ![n].arrived = TRUE, ![n].filled = q, ![n].debit = d]

\* Only the arriving buy changes.
LEMMA BuyArrivedOrders ==
  ASSUME NEW s \in Seq(OrderRecord), NEW n \in 1..Len(s), NEW q \in Nat, NEW d \in Nat
  PROVE  ArrivedOnly(BuyFilled(s, n, q, d), s, n)
<1> DEFINE s2 == BuyFilled(s, n, q, d)
<1>1. s[n] \in OrderRecord /\ DOMAIN s = 1..Len(s) /\ Len(s) \in Nat
  OBVIOUS
<1> DEFINE o1 == [s[n] EXCEPT !.arrived = TRUE]
           o2 == [o1 EXCEPT !.filled = q]
           o3 == [o2 EXCEPT !.debit = d]
           kept(o) == /\ o \in OrderRecord
                      /\ o.attempt = s[n].attempt /\ o.leg = s[n].leg
                      /\ o.sell = s[n].sell /\ o.responded = s[n].responded
<1>2. kept(o1) /\ o1.arrived
  BY <1>1 DEF OrderRecord
<1> HIDE DEF o1
<1>3. kept(o2) /\ o2.arrived /\ o2.filled = q
  BY <1>2 DEF OrderRecord
<1> HIDE DEF o2
<1>4. kept(o3) /\ o3.arrived /\ o3.filled = q
  BY <1>3 DEF OrderRecord
<1>5. s2 = [s EXCEPT ![n] = o3]
  BY <1>1 DEF o1, o2, BuyFilled
<1> HIDE DEF o3, s2
<1>6. /\ s2 \in Seq(OrderRecord) /\ Len(s2) = Len(s)
      /\ \A i \in 1..Len(s) : s2[i] = IF i = n THEN o3 ELSE s[i]
  <2> DEFINE t == [s EXCEPT ![n] = o3]
  <2>1. /\ t \in Seq(OrderRecord) /\ Len(t) = Len(s)
        /\ \A i \in 1..Len(s) : t[i] = IF i = n THEN o3 ELSE s[i]
    BY <1>4, OrderReplaced
  <2> QED
    BY <1>5, <2>1
<1> QED
  BY <1>1, <1>4, <1>6 DEF s2, ArrivedOnly

\* The order of an exit after it arrived.
ExitFilled(s, n, q, d) ==
  [s EXCEPT ![n].arrived = TRUE, ![n].filled = q, ![n].credit = d]

\* Only the arriving exit changes.
LEMMA ExitArrivedOrders ==
  ASSUME NEW s \in Seq(OrderRecord), NEW n \in 1..Len(s), NEW q \in Nat, NEW d \in Nat
  PROVE  ArrivedOnly(ExitFilled(s, n, q, d), s, n)
<1> DEFINE s2 == ExitFilled(s, n, q, d)
<1>1. s[n] \in OrderRecord /\ DOMAIN s = 1..Len(s) /\ Len(s) \in Nat
  OBVIOUS
<1> DEFINE o1 == [s[n] EXCEPT !.arrived = TRUE]
           o2 == [o1 EXCEPT !.filled = q]
           o3 == [o2 EXCEPT !.credit = d]
           kept(o) == /\ o \in OrderRecord
                      /\ o.attempt = s[n].attempt /\ o.leg = s[n].leg
                      /\ o.sell = s[n].sell /\ o.responded = s[n].responded
<1>2. kept(o1) /\ o1.arrived
  BY <1>1 DEF OrderRecord
<1> HIDE DEF o1
<1>3. kept(o2) /\ o2.arrived /\ o2.filled = q
  BY <1>2 DEF OrderRecord
<1> HIDE DEF o2
<1>4. kept(o3) /\ o3.arrived /\ o3.filled = q
  BY <1>3 DEF OrderRecord
<1>5. s2 = [s EXCEPT ![n] = o3]
  BY <1>1 DEF o1, o2, ExitFilled
<1> HIDE DEF o3, s2
<1>6. /\ s2 \in Seq(OrderRecord) /\ Len(s2) = Len(s)
      /\ \A i \in 1..Len(s) : s2[i] = IF i = n THEN o3 ELSE s[i]
  <2> DEFINE t == [s EXCEPT ![n] = o3]
  <2>1. /\ t \in Seq(OrderRecord) /\ Len(t) = Len(s)
        /\ \A i \in 1..Len(s) : t[i] = IF i = n THEN o3 ELSE s[i]
    BY <1>4, OrderReplaced
  <2> QED
    BY <1>5, <2>1
<1> QED
  BY <1>1, <1>4, <1>6 DEF s2, ArrivedOnly

\* The order of an event after the response.
Responded(s, n) ==
  [s EXCEPT ![n].responded = TRUE]

\* Only the order that responds changes.
LEMMA RespondedOrders ==
  ASSUME NEW s \in Seq(OrderRecord), NEW n \in 1..Len(s)
  PROVE  /\ Responded(s, n) \in Seq(OrderRecord) /\ Len(Responded(s, n)) = Len(s)
         /\ \A i \in DOMAIN s : i # n => Responded(s, n)[i] = s[i]
<1> DEFINE s2 == Responded(s, n)
<1>1. s[n] \in OrderRecord /\ DOMAIN s = 1..Len(s) /\ Len(s) \in Nat
  OBVIOUS
<1> DEFINE o1 == [s[n] EXCEPT !.responded = TRUE]
<1>2. o1 \in OrderRecord
  BY <1>1 DEF OrderRecord
<1>3. s2 = [s EXCEPT ![n] = o1]
  BY <1>1 DEF Responded
<1> HIDE DEF o1, s2
<1>4. /\ s2 \in Seq(OrderRecord) /\ Len(s2) = Len(s)
      /\ \A i \in 1..Len(s) : s2[i] = IF i = n THEN o1 ELSE s[i]
  <2> DEFINE t == [s EXCEPT ![n] = o1]
  <2>1. /\ t \in Seq(OrderRecord) /\ Len(t) = Len(s)
        /\ \A i \in 1..Len(s) : t[i] = IF i = n THEN o1 ELSE s[i]
    BY <1>2, OrderReplaced
  <2> QED
    BY <1>3, <2>1
<1> QED
  BY <1>1, <1>2, <1>4 DEF s2

\* A buy fills at most what it asks for.
LEMMA BuyArrivesKeeps ==
  ASSUME QueueInv, BuyArrives
  PROVE  QueueInv'
<1>0. PICK e \in events : \E f \in BuyFills(orders[e.order]) :
        /\ ~e.response /\ ~orders[e.order].sell
        /\ orders' = [orders EXCEPT ![e.order].arrived = TRUE,
                                    ![e.order].filled = f.quantity,
                                    ![e.order].debit = f.debit]
        /\ attempts' =
             [attempts EXCEPT
                ![orders[e.order].attempt].filled[orders[e.order].leg] = @ + f.quantity,
                ![orders[e.order].attempt].debit[orders[e.order].leg] = @ + f.debit]
        /\ events' = (events \ {e})
             \cup {ResponseOf(e.order, e.time + policy.response[orders[e.order].leg])}
        /\ UNCHANGED <<policy, now, phase, settlement_index>>
  BY DEF BuyArrives
<1>1. PICK f \in BuyFills(orders[e.order]) :
        /\ ~e.response /\ ~orders[e.order].sell
        /\ orders' = [orders EXCEPT ![e.order].arrived = TRUE,
                                    ![e.order].filled = f.quantity,
                                    ![e.order].debit = f.debit]
        /\ attempts' =
             [attempts EXCEPT
                ![orders[e.order].attempt].filled[orders[e.order].leg] = @ + f.quantity,
                ![orders[e.order].attempt].debit[orders[e.order].leg] = @ + f.debit]
        /\ events' = (events \ {e})
             \cup {ResponseOf(e.order, e.time + policy.response[orders[e.order].leg])}
        /\ UNCHANGED <<policy, now, phase, settlement_index>>
  BY <1>0
<1> DEFINE n == e.order
           o == orders[n]
           c == o.attempt
<1>2. /\ n \in 1..Len(orders) /\ orders \in Seq(OrderRecord) /\ o \in OrderRecord
      /\ c \in Constraint /\ o.leg \in Leg /\ e.time \in Nat
      /\ attempts \in [Constraint -> AttemptRecord]
  BY EventFacts DEF QueueInv, QueueTypeOK
<1>3. f.quantity \in Nat /\ f.debit \in Nat /\ f.quantity <= o.quantity
  <2>1. f \in [quantity : 0..o.quantity, debit : 0..o.reserve]
    BY DEF BuyFills
  <2>2. f.quantity \in 0..o.quantity /\ f.debit \in 0..o.reserve
    BY <2>1
  <2>3. o.quantity \in Int /\ o.reserve \in Nat
    BY <1>2 DEF OrderRecord
  <2> QED
    BY <2>2, <2>3
<1>4. ArrivedOnly(orders', orders, n)
  <2>1. orders' = BuyFilled(orders, n, f.quantity, f.debit)
    BY <1>1 DEF BuyFilled
  <2> QED
    BY <1>2, <1>3, <2>1, BuyArrivedOrders
<1>5. /\ attempts' \in [Constraint -> AttemptRecord]
      /\ \A d \in Constraint : attempts'[d].quantity = attempts[d].quantity
      /\ \A d \in Constraint \ {c} : attempts'[d] = attempts[d]
      /\ attempts'[c].filled = [attempts[c].filled EXCEPT ![o.leg] = @ + f.quantity]
  <2> DEFINE a1 == [attempts[c] EXCEPT !.filled[o.leg] = @ + f.quantity]
             a2 == [a1 EXCEPT !.debit[o.leg] = @ + f.debit]
  <2>1. attempts[c] \in AttemptRecord
    BY <1>2
  <2>2. /\ a1 \in AttemptRecord /\ a1.quantity = attempts[c].quantity
        /\ a1.filled = [attempts[c].filled EXCEPT ![o.leg] = @ + f.quantity]
    <3>1. attempts[c].filled[o.leg] + f.quantity \in Nat
      <4>1. attempts[c].filled \in [Leg -> Nat]
        BY <2>1 DEF AttemptRecord
      <4>2. attempts[c].filled[o.leg] \in Nat
        BY <1>2, <4>1
      <4> QED
        BY <1>3, <4>2
    <3> QED
      BY <2>1, <3>1 DEF AttemptRecord
  <2> HIDE DEF a1
  <2>3. /\ a2 \in AttemptRecord /\ a2.quantity = a1.quantity /\ a2.filled = a1.filled
    <3>1. a1.debit[o.leg] + f.debit \in Int
      <4>1. a1.debit \in [Leg -> Int]
        BY <2>2 DEF AttemptRecord
      <4>2. a1.debit[o.leg] \in Int
        BY <1>2, <4>1
      <4> QED
        BY <1>3, <4>2
    <3> QED
      BY <2>2, <3>1 DEF AttemptRecord
  <2>4. attempts' = [attempts EXCEPT ![c] = a2]
    BY <1>1, <1>2 DEF a1
  <2> HIDE DEF a2
  <2> QED
    BY <1>2, <2>2, <2>3, <2>4
<1>6. ASSUME NEW d \in Constraint, ~BuyOf(e, d)
      PROVE  attempts'[d].filled = attempts[d].filled
  BY <1>1, <1>5, <1>6 DEF BuyOf
<1>7. ASSUME policy.sequential, NEW d \in Constraint
      PROVE  attempts'[d].filled[2] <= attempts'[d].filled[1]
  <2>1. attempts[d].filled[2] <= attempts[d].filled[1]
    BY <1>7 DEF QueueInv, OneBuyAtATime
  <2>2. CASE d # c
    BY <1>5, <2>1, <2>2
  <2>3. CASE d = c /\ o.leg = 1
    <3>1. attempts[c].filled \in [Leg -> Nat]
      BY <1>2 DEF AttemptRecord
    <3>2. attempts[c].filled[1] \in Nat /\ attempts[c].filled[2] \in Nat
      BY <3>1 DEF Leg
    <3>3. /\ attempts'[c].filled[1] = attempts[c].filled[1] + f.quantity
          /\ attempts'[c].filled[2] = attempts[c].filled[2]
      BY <1>5, <2>3, <3>1 DEF Leg
    <3> QED
      BY <1>3, <2>1, <2>3, <3>2, <3>3
  <2>4. CASE d = c /\ o.leg = 2
    <3>1. o.quantity <= Missing(attempts[c])
      BY <1>1, <1>2, <1>7, <2>4 DEF QueueInv, OneBuyAtATime, BuyOf
    <3>2. /\ attempts[c].filled[1] \in Nat /\ attempts[c].filled[2] \in Nat
          /\ o.quantity \in Int
      BY <1>2 DEF AttemptRecord, OrderRecord, Leg
    <3>3. /\ attempts'[c].filled[1] = attempts[c].filled[1]
          /\ attempts'[c].filled[2] = attempts[c].filled[2] + f.quantity
      <4>1. attempts[c].filled \in [Leg -> Nat]
        BY <1>2 DEF AttemptRecord
      <4> QED
        BY <1>5, <2>4, <4>1 DEF Leg
    <3> QED
      BY <1>3, <2>4, <3>1, <3>2, <3>3 DEF Missing
  <2> QED
    BY <1>2, <2>2, <2>3, <2>4 DEF Leg
<1>8. e.time + policy.response[o.leg] \in Nat
  BY <1>2, PolicyTypes DEF QueueInv
<1> QED
  BY <1>1, <1>4, <1>5, <1>6, <1>7, <1>8, ArrivalKeeps

\* An exit fills at most what the position holds.
LEMMA ExitArrivesKeeps ==
  ASSUME QueueInv, ExitArrives
  PROVE  QueueInv'
<1>0. PICK e \in events : \E f \in SaleFills(orders[e.order]) :
        /\ ~e.response /\ orders[e.order].sell
        /\ orders' = [orders EXCEPT ![e.order].arrived = TRUE,
                                    ![e.order].filled = f.quantity,
                                    ![e.order].credit = f.credit]
        /\ events' = (events \ {e}) \cup {ResponseOf(e.order, e.time + policy.exit_response)}
        /\ UNCHANGED <<policy, now, phase, attempts, settlement_index>>
  BY DEF ExitArrives
<1>1. PICK f \in SaleFills(orders[e.order]) :
        /\ ~e.response /\ orders[e.order].sell
        /\ orders' = [orders EXCEPT ![e.order].arrived = TRUE,
                                    ![e.order].filled = f.quantity,
                                    ![e.order].credit = f.credit]
        /\ events' = (events \ {e}) \cup {ResponseOf(e.order, e.time + policy.exit_response)}
        /\ UNCHANGED <<policy, now, phase, attempts, settlement_index>>
  BY <1>0
<1> DEFINE n == e.order
           o == orders[n]
<1>2. /\ n \in 1..Len(orders) /\ orders \in Seq(OrderRecord) /\ o \in OrderRecord
      /\ e.time \in Nat /\ attempts \in [Constraint -> AttemptRecord]
  BY EventFacts DEF QueueInv, QueueTypeOK
<1>3. f.quantity \in Nat /\ f.credit \in Nat
  <2>1. f \in [quantity : 0..o.quantity, credit : 0..(o.quantity * Payout)]
    BY DEF SaleFills
  <2>2. f.quantity \in 0..o.quantity /\ f.credit \in 0..(o.quantity * Payout)
    BY <2>1
  <2>3. o.quantity \in Int /\ Payout \in Nat
    BY <1>2, LifecycleConstants DEF OrderRecord
  <2>4. o.quantity * Payout \in Int
    BY <2>3
  <2> QED
    BY <2>2, <2>3, <2>4
<1>4. ArrivedOnly(orders', orders, n)
  <2>1. orders' = ExitFilled(orders, n, f.quantity, f.credit)
    BY <1>1 DEF ExitFilled
  <2> QED
    BY <1>2, <1>3, <2>1, ExitArrivedOrders
<1>5. e.time + policy.exit_response \in Nat
  BY <1>2, PolicyTypes DEF QueueInv
<1>6. policy.sequential =>
        \A d \in Constraint : attempts'[d].filled[2] <= attempts'[d].filled[1]
  BY <1>1 DEF QueueInv, OneBuyAtATime
<1> QED
  BY <1>1, <1>2, <1>4, <1>5, <1>6, ArrivalKeeps

\* The response of an order ends its event; its attempt may submit one more.
LEMMA ResponseKeeps ==
  ASSUME QueueInv, NEW e \in events, e.response, NEW work, NEW done,
         work.orders = Responded(orders, e.order), work.events = events \ {e},
         work.attempt.filled = attempts[orders[e.order].attempt].filled,
         work.attempt.quantity = attempts[orders[e.order].attempt].quantity,
         ~orders[e.order].sell,
         Continues(done, orders[e.order].attempt, work),
         attempts' = [attempts EXCEPT ![orders[e.order].attempt] = done.attempt],
         orders' = done.orders, events' = done.events,
         UNCHANGED <<policy, now, settlement_index>>
  PROVE  QueueInv'
<1> DEFINE n == e.order
           c == orders[n].attempt
<1>1. /\ orders \in Seq(OrderRecord) /\ DOMAIN orders = 1..Len(orders) /\ Len(orders) \in Nat
      /\ events \subseteq EventRecord /\ attempts \in [Constraint -> AttemptRecord]
  BY DEF QueueInv, QueueTypeOK
<1>2. /\ n \in 1..Len(orders) /\ c \in Constraint /\ c \in Attempted
      /\ BuyOf(e, c)
  BY EventFacts DEF BuyOf
<1> DEFINE s == Responded(orders, n)
<1>3. /\ s \in Seq(OrderRecord) /\ Len(s) = Len(orders)
      /\ \A i \in DOMAIN orders : i # n => s[i] = orders[i]
  BY <1>1, <1>2, RespondedOrders
<1> HIDE DEF s
<1>4. /\ attempts' \in [Constraint -> AttemptRecord] /\ Attempted' = Attempted
      /\ \A d \in Constraint : attempts'[d].filled = attempts[d].filled
  BY <1>1, <1>2 DEF Continues, Attempted
<1>5. \A f \in events \ {e} :
        f.order \in 1..Len(orders) /\ f.order # n /\ s[f.order] = orders[f.order]
  BY <1>1, <1>3, EventFacts DEF QueueInv, QueueSound
<1>6. CASE orders' = s /\ events' = events \ {e}
  <2>1. QueueTypeOK'
    BY <1>1, <1>3, <1>4, <1>6 DEF QueueInv, QueueTypeOK
  <2>2. QueueSound'
    BY <1>1, <1>3, <1>4, <1>5, <1>6 DEF QueueInv, QueueSound, EventSound
  <2>3. OneBuyAtATime'
    BY <1>4, <1>5, <1>6 DEF QueueInv, OneBuyAtATime, BuyOf, Missing
  <2> QED
    BY <2>1, <2>2, <2>3 DEF QueueInv
<1>7. ASSUME NEW o, NEW t, FollowUp(o, c, work.attempt), t \in Nat,
             orders' = Append(s, o),
             events' = (events \ {e}) \cup {ArrivalOf(Len(s) + 1, t)}
      PROVE  QueueInv'
  <2> DEFINE sent == ArrivalOf(Len(s) + 1, t)
             last == Len(orders) + 1
  <2>1. o \in OrderRecord
    BY <1>7 DEF FollowUp
  <2>2. /\ orders' \in Seq(OrderRecord) /\ DOMAIN orders' = 1..last
        /\ orders'[last] = o /\ \A i \in 1..Len(orders) : orders'[i] = s[i]
    BY <1>1, <1>3, <1>7, <2>1
  <2>3. sent \in EventRecord /\ sent.order = last /\ ~sent.response
    BY <1>1, <1>3, <1>7 DEF ArrivalOf, EventRecord
  <2>4. events' = (events \ {e}) \cup {sent}
    BY <1>7
  <2> HIDE DEF sent
  <2>5. \A f \in events \ {e} :
          f.order \in DOMAIN orders' /\ f.order # last /\ orders'[f.order] = orders[f.order]
    BY <1>1, <1>5, <2>2
  <2>6. QueueTypeOK'
    BY <1>1, <1>4, <2>2, <2>3, <2>4 DEF QueueInv, QueueTypeOK
  <2>7. QueueSound'
    <3>1. ASSUME NEW f \in events'  PROVE EventSound(f)'
      <4>1. CASE f \in events \ {e}
        BY <1>4, <2>5, <4>1 DEF QueueInv, QueueSound, EventSound
      <4>2. CASE f = sent
        <5>1. last \in DOMAIN orders'
          BY <1>1, <2>2
        <5> QED
          BY <1>2, <1>4, <1>7, <2>2, <2>3, <4>2, <5>1 DEF EventSound, FollowUp
      <4> QED
        BY <2>4, <4>1, <4>2
    <3>2. \A f, g \in events' : f.order = g.order => f = g
      BY <2>3, <2>4, <2>5 DEF QueueInv, QueueSound
    <3> QED
      BY <3>1, <3>2 DEF QueueSound
  <2>8. ASSUME policy.sequential  PROVE OneBuyAtATime'
    <3>1. \A f \in events \ {e}, d \in Constraint :
            /\ BuyOf(f, d)' <=> BuyOf(f, d)
            /\ ~(BuyOf(f, d) /\ d = c)
      BY <1>2, <2>5, <2>8 DEF QueueInv, OneBuyAtATime, BuyOf
    <3>2. ASSUME NEW d \in Constraint, NEW f \in events', f = sent, BuyOf(f, d)'
          PROVE  d = c /\ ~o.sell
      <4>1. orders'[f.order] = o
        BY <2>2, <2>3, <3>2
      <4> QED
        BY <1>7, <3>2, <4>1 DEF BuyOf, FollowUp
    <3>3. \A d \in Constraint, f, g \in events' : BuyOf(f, d)' /\ BuyOf(g, d)' => f = g
      BY <2>4, <2>8, <3>1, <3>2 DEF QueueInv, OneBuyAtATime
    <3>4. \A d \in Constraint : attempts'[d].filled[2] <= attempts'[d].filled[1]
      BY <1>4, <2>8 DEF QueueInv, OneBuyAtATime
    <3>5. ASSUME NEW d \in Constraint, NEW f \in events',
                 BuyOf(f, d)', ~f.response, orders'[f.order].leg = 2
          PROVE  orders'[f.order].quantity <= Missing(attempts'[d])
      <4>1. CASE f \in events \ {e}
        BY <1>4, <2>5, <2>8, <3>1, <3>5, <4>1 DEF QueueInv, OneBuyAtATime, Missing
      <4>2. CASE f = sent
        <5>1. d = c /\ ~o.sell
          BY <3>2, <3>5, <4>2
        <5>2. o.quantity <= Missing(work.attempt)
          BY <1>7, <5>1 DEF FollowUp
        <5> QED
          BY <1>2, <1>4, <2>2, <2>3, <4>2, <5>1, <5>2 DEF Missing
      <4> QED
        BY <2>4, <4>1, <4>2
    <3> QED
      BY <2>8, <3>3, <3>4, <3>5 DEF OneBuyAtATime
  <2>9. OneBuyAtATime'
    BY <2>8 DEF OneBuyAtATime
  <2> QED
    BY <2>6, <2>7, <2>9 DEF QueueInv
<1>8. \/ orders' = s /\ events' = events \ {e}
      \/ \E o, t : /\ FollowUp(o, c, work.attempt) /\ t \in Nat
                   /\ orders' = Append(s, o)
                   /\ events' = (events \ {e}) \cup {ArrivalOf(Len(s) + 1, t)}
  BY DEF Continues, s
<1> QED
  BY <1>6, <1>7, <1>8

\* The response of a buy goes on with its attempt, and with no other.
LEMMA BuyRespondsContinues ==
  ASSUME QueueInv, BuyResponds
  PROVE  \E e \in events : \E work, done :
           /\ e.response /\ ~orders[e.order].sell
           /\ work.orders = Responded(orders, e.order) /\ work.events = events \ {e}
           /\ work.attempt.filled = attempts[orders[e.order].attempt].filled
           /\ work.attempt.quantity = attempts[orders[e.order].attempt].quantity
           /\ Continues(done, orders[e.order].attempt, work)
           /\ attempts' = [attempts EXCEPT ![orders[e.order].attempt] = done.attempt]
           /\ orders' = done.orders /\ events' = done.events
           /\ UNCHANGED <<policy, now, settlement_index>>
<1> DEFINE work(e) ==
      LET o == orders[e.order]
          c == o.attempt
      IN  [attempt |-> [attempts[c] EXCEPT !.pending_buys = @ - 1, !.reserve[o.leg] = 0],
           cash |-> [cash EXCEPT !.reserved_total = @ - o.reserve,
                                 !.unconfirmed_debit = @ - o.debit,
                                 !.available = @ + o.reserve - o.debit],
           orders |-> [orders EXCEPT ![e.order].responded = TRUE],
           events |-> events \ {e}]
<1>1. PICK e \in events :
        /\ e.response /\ ~orders[e.order].sell
        /\ \E done \in IF policy.sequential
                       THEN CompleteSecond(orders[e.order].attempt, work(e), e.time)
                       ELSE IF AllResponded(work(e).attempt)
                            THEN ConsiderExit(orders[e.order].attempt, work(e), e.time)
                            ELSE {work(e)} :
             /\ attempts' = [attempts EXCEPT ![orders[e.order].attempt] = done.attempt]
             /\ orders' = done.orders /\ events' = done.events
        /\ UNCHANGED <<policy, now, phase, lots, settlement_index>>
  BY ZenonT(60) DEF BuyResponds
<1>2. PICK done \in IF policy.sequential
                    THEN CompleteSecond(orders[e.order].attempt, work(e), e.time)
                    ELSE IF AllResponded(work(e).attempt)
                         THEN ConsiderExit(orders[e.order].attempt, work(e), e.time)
                         ELSE {work(e)} :
        /\ attempts' = [attempts EXCEPT ![orders[e.order].attempt] = done.attempt]
        /\ orders' = done.orders /\ events' = done.events
  BY <1>1
<1> DEFINE o == orders[e.order]
           c == o.attempt
           w == work(e)
<1>3. /\ c \in Constraint /\ o.leg \in Leg /\ attempts[c] \in AttemptRecord
      /\ e.time \in Nat
  BY EventFacts
<1>4. /\ IsWork(w) /\ w.orders = Responded(orders, e.order) /\ w.events = events \ {e}
      /\ w.attempt = [attempts[c] EXCEPT !.pending_buys = @ - 1, !.reserve[o.leg] = 0]
  BY DEF IsWork, Responded
<1>5. /\ w.attempt \in AttemptRecord /\ w.attempt.filled = attempts[c].filled
      /\ w.attempt.quantity = attempts[c].quantity
  <2> HIDE DEF work
  <2>1. w.attempt = WithResponse(attempts[c], o.leg)
    BY <1>4 DEF WithResponse
  <2> QED
    BY <1>3, <2>1, AttemptWithResponse
<1>6. done \in IF policy.sequential THEN CompleteSecond(c, w, e.time)
               ELSE IF AllResponded(w.attempt) THEN ConsiderExit(c, w, e.time) ELSE {w}
  OBVIOUS
<1> HIDE DEF work
<1>7. Continues(done, c, w)
  <2>1. CASE policy.sequential
    BY <1>3, <1>4, <1>5, <1>6, <2>1, CompleteSecondContinues DEF QueueInv
  <2>2. CASE ~policy.sequential /\ AllResponded(w.attempt)
    BY <1>3, <1>4, <1>5, <1>6, <2>2, ConsiderExitContinues DEF QueueInv
  <2>3. CASE ~policy.sequential /\ ~AllResponded(w.attempt)
    BY <1>5, <1>6, <2>3 DEF Continues
  <2> QED
    BY <2>1, <2>2, <2>3
<1> QED
  BY <1>1, <1>2, <1>4, <1>5, <1>7

\* The response of a buy keeps the invariant.
LEMMA BuyRespondsKeeps ==
  ASSUME QueueInv, BuyResponds
  PROVE  QueueInv'
<1>1. PICK e \in events : \E work, done :
        /\ e.response /\ ~orders[e.order].sell
        /\ work.orders = Responded(orders, e.order) /\ work.events = events \ {e}
        /\ work.attempt.filled = attempts[orders[e.order].attempt].filled
        /\ work.attempt.quantity = attempts[orders[e.order].attempt].quantity
        /\ Continues(done, orders[e.order].attempt, work)
        /\ attempts' = [attempts EXCEPT ![orders[e.order].attempt] = done.attempt]
        /\ orders' = done.orders /\ events' = done.events
        /\ UNCHANGED <<policy, now, settlement_index>>
  BY BuyRespondsContinues
<1> QED
  BY <1>1, ResponseKeeps

\* The response of an exit keeps it.
LEMMA ExitRespondsKeeps ==
  ASSUME QueueInv, ExitResponds
  PROVE  QueueInv'
<1>1. PICK e \in events :
        /\ orders' = [orders EXCEPT ![e.order].responded = TRUE]
        /\ events' = events \ {e}
        /\ UNCHANGED <<policy, now, phase, attempts, lots, settlement_index>>
  BY DEF ExitResponds
<1> DEFINE n == e.order
<1>2. /\ orders \in Seq(OrderRecord) /\ DOMAIN orders = 1..Len(orders) /\ n \in 1..Len(orders)
  BY EventFacts DEF QueueInv, QueueTypeOK
<1>3. /\ orders' \in Seq(OrderRecord) /\ Len(orders') = Len(orders)
      /\ \A i \in DOMAIN orders : i # n => orders'[i] = orders[i]
  <2>1. orders' = Responded(orders, n)
    BY <1>1 DEF Responded
  <2> QED
    BY <1>2, <2>1, RespondedOrders
<1>4. \A f \in events' :
        f \in events /\ f.order \in DOMAIN orders /\ orders'[f.order] = orders[f.order]
  BY <1>1, <1>2, <1>3, EventFacts DEF QueueInv, QueueSound
<1>5. Attempted' = Attempted
  BY <1>1 DEF Attempted
<1>6. QueueTypeOK'
  BY <1>1, <1>3 DEF QueueInv, QueueTypeOK
<1>7. QueueSound'
  BY <1>2, <1>3, <1>4, <1>5 DEF QueueInv, QueueSound, EventSound
<1>8. OneBuyAtATime'
  BY <1>1, <1>4 DEF QueueInv, OneBuyAtATime, BuyOf, Missing
<1> QED
  BY <1>6, <1>7, <1>8 DEF QueueInv

\* Settlements, frames and the end only drop events.
LEMMA QueueShrinks ==
  ASSUME QueueInv, UNCHANGED <<policy, attempts, orders>>, events' \subseteq events,
         now' \in Nat, settlement_index' \in 0..Len(policy.settlements)
  PROVE  QueueInv'
<1>1. QueueTypeOK'
  BY DEF QueueInv, QueueTypeOK
<1>2. QueueSound'
  BY DEF QueueInv, QueueSound, EventSound, Attempted
<1>3. OneBuyAtATime'
  BY DEF QueueInv, OneBuyAtATime, BuyOf, Missing
<1> QED
  BY <1>1, <1>2, <1>3 DEF QueueInv

\* Every step keeps the queue invariant.
LEMMA StepKeepsQueueInv == QueueInv /\ [Next]_vars => QueueInv'
<1> SUFFICES ASSUME QueueInv, [Next]_vars  PROVE QueueInv'
  OBVIOUS
<1>1. ASSUME NEW c \in Constraint, NEW q \in 1..QuantityCap, NEW r \in [Leg -> Reserves],
             Decide(c, q, r)
      PROVE  QueueInv'
  BY <1>1, DecideKeeps
<1>2. CASE BuyArrives
  BY <1>2, BuyArrivesKeeps
<1>3. CASE BuyResponds
  BY <1>3, BuyRespondsKeeps
<1>4. CASE ExitArrives
  BY <1>4, ExitArrivesKeeps
<1>5. CASE ExitResponds
  BY <1>5, ExitRespondsKeeps
<1>6. now \in Nat /\ settlement_index \in 0..Len(policy.settlements)
  BY DEF QueueInv, QueueTypeOK
<1>7. CASE Settle
  <2>1. Len(policy.settlements) \in Nat
    <3>1. policy.settlements \in Seq([market : Market, yes_wins : BOOLEAN, time : Nat])
      BY PolicyTypes DEF QueueInv
    <3> QED
      BY <3>1
  <2>2. SettlementDue /\ settlement_index' = settlement_index + 1
    BY <1>7 DEF Settle, SettlesFirst
  <2>3. settlement_index < Len(policy.settlements)
    BY <2>2 DEF SettlementDue
  <2>4. settlement_index' \in 0..Len(policy.settlements)
    BY <1>6, <2>1, <2>2, <2>3
  <2> QED
    BY <1>6, <1>7, <2>4, QueueShrinks DEF Settle
<1>8. ASSUME NEW t \in 1..MaxTime, Frame(t)  PROVE QueueInv'
  BY <1>6, <1>8, QueueShrinks, LifecycleConstants DEF Frame
<1>9. CASE Finish
  BY <1>6, <1>9, QueueShrinks DEF Finish
<1>10. CASE UNCHANGED vars
  BY <1>6, <1>10, QueueShrinks DEF vars
<1> QED
  BY <1>1, <1>2, <1>3, <1>4, <1>5, <1>7, <1>8, <1>9, <1>10 DEF Next, Terminated

-----------------------------------------------------------------------------
(* The theorems. *)

\* No event is ever for an order that already had it, every order waits for at
\* most one event, and sequential completion has one buy of an attempt in
\* flight: the arrivals and responses of the queue never get out of step.
THEOREM QueueInvariant == Spec => []QueueInv
<1>1. Init => QueueInv
  <2> SUFFICES ASSUME Init  PROVE QueueInv
    OBVIOUS
  <2>1. NoAttempt \in AttemptRecord /\ NoAttempt.filled[1] = 0 /\ NoAttempt.filled[2] = 0
    BY DEF NoAttempt, AttemptRecord, Leg
  <2>2. policy \in Policies /\ Len(policy.settlements) \in Nat
    BY LifecycleConstants DEF Init, Policy
  <2>3. orders \in Seq(OrderRecord)
    BY DEF Init
  <2> QED
    BY <2>1, <2>2, <2>3 DEF Init, QueueInv, QueueTypeOK, QueueSound, OneBuyAtATime
<1> QED
  BY <1>1, StepKeepsQueueInv, PTL DEF Spec

\* complete_second() never lets the second leg get ahead of the first, however
\* much of each completion fills.
THEOREM SecondLegNeverAhead == Spec => []NeverOverHedged
<1>1. QueueInv => NeverOverHedged
  BY DEF QueueInv, OneBuyAtATime, NeverOverHedged, Attempted
<1> QED
  BY <1>1, QueueInvariant, PTL

-----------------------------------------------------------------------------
(* No trade after a resolution. *)

\* The drain has applied every settlement that is not later than the event it
\* takes: settlements are sorted and win ties.
LEMMA SettledBeforeTaken ==
  ASSUME QueueInv, NEW e \in events, Takes(e), NEW i \in DOMAIN policy.settlements,
         policy.settlements[i].time <= e.time
  PROVE  policy.settlements[i].market \in Settled
<1> DEFINE ss == policy.settlements
<1>1. /\ ss \in Seq([market : Market, yes_wins : BOOLEAN, time : Nat]) /\ SortedByTime(ss)
      /\ now \in Nat /\ e.time \in Nat /\ settlement_index \in 0..Len(ss)
  BY PolicyTypes, EventFacts DEF QueueInv, QueueTypeOK
<1>2. /\ Len(ss) \in Nat /\ DOMAIN ss = 1..Len(ss)
      /\ \A k \in DOMAIN ss : ss[k].time \in Nat
  <2> DEFINE T == [market : Market, yes_wins : BOOLEAN, time : Nat]
  <2> HIDE DEF ss
  <2>1. ss \in Seq(T)
    BY <1>1
  <2>2. \A x \in T : x.time \in Nat
    OBVIOUS
  <2> HIDE DEF T
  <2>3. Len(ss) \in Nat /\ DOMAIN ss = 1..Len(ss) /\ \A k \in DOMAIN ss : ss[k] \in T
    BY <2>1
  <2> QED
    BY <2>2, <2>3
<1> HIDE DEF ss
<1>3. CASE settlement_index < i
  <2>1. settlement_index + 1 \in DOMAIN ss /\ settlement_index < Len(ss)
    BY <1>1, <1>2, <1>3 DEF ss
  <2>2. ss[settlement_index + 1].time <= ss[i].time
    <3>1. CASE settlement_index + 1 = i
      BY <1>2, <3>1 DEF ss
    <3>2. CASE settlement_index + 1 < i
      BY <1>1, <2>1, <3>2 DEF SortedByTime, ss
    <3> QED
      BY <1>1, <1>2, <1>3, <3>1, <3>2 DEF ss
  <2>3. OrderDue /\ ~SettlesFirst /\ e = Top
    BY DEF Takes
  <2>4. e.time <= now
    <3>1. e.time < now \/ e.time = now
      BY <2>3 DEF OrderDue
    <3> QED
      BY <1>1, <3>1
  <2>5. NextSettlement = ss[settlement_index + 1]
    BY DEF NextSettlement, ss
  <2>6. ss[settlement_index + 1].time <= e.time
    BY <1>1, <1>2, <2>1, <2>2 DEF ss
  <2>7. NextSettlement.time <= now /\ NextSettlement.time <= Top.time
    BY <1>1, <1>2, <2>1, <2>3, <2>4, <2>5, <2>6
  <2> QED
    BY <2>1, <2>3, <2>7 DEF SettlesFirst, SettlementDue, ss
<1>4. CASE ~(settlement_index < i)
  <2>1. i \in 1..settlement_index
    BY <1>1, <1>2, <1>4 DEF ss
  <2> QED
    BY <2>1 DEF Settled
<1> QED
  BY <1>3, <1>4

\* An arrival leaves the queue by its own step or by the end of the run, and
\* with a settled market neither fills it.
LEMMA SettledArrivalUnfilled ==
  ASSUME QueueInv, [Next]_vars, NEW e \in events, e \notin events', ~e.response,
         NEW i \in DOMAIN policy.settlements,
         policy.settlements[i].market =
           LegMarket[orders[e.order].attempt][orders[e.order].leg],
         policy.settlements[i].time <= e.time
  PROVE  orders'[e.order].filled = 0
<1> DEFINE n == e.order
           o == orders[n]
<1>1. /\ n \in 1..Len(orders) /\ orders \in Seq(OrderRecord) /\ o \in OrderRecord
      /\ o.filled = 0
  BY EventFacts DEF QueueInv, QueueTypeOK, QueueSound, EventSound
<1>2. Takes(e) => LegMarket[o.attempt][o.leg] \in Settled
  BY SettledBeforeTaken
<1>3. ASSUME NEW c \in Constraint, NEW q \in 1..QuantityCap, NEW r \in [Leg -> Reserves],
             Decide(c, q, r)
      PROVE  FALSE
  BY <1>3, DecideFields
<1>4. CASE BuyArrives
  <2>1. PICK e2 \in events :
          /\ Takes(e2) /\ events \ {e2} \subseteq events'
          /\ \E f \in BuyFills(orders[e2.order]) :
               orders' = [orders EXCEPT ![e2.order].arrived = TRUE,
                                        ![e2.order].filled = f.quantity,
                                        ![e2.order].debit = f.debit]
    BY <1>4 DEF BuyArrives
  <2>2. e2 = e
    BY <2>1
  <2>3. PICK f \in BuyFills(o) : orders' = BuyFilled(orders, n, f.quantity, f.debit)
    BY <2>1, <2>2 DEF BuyFilled
  <2>4. f.quantity = 0
    BY <1>2, <2>1, <2>2 DEF BuyFills
  <2>5. BuyFilled(orders, n, f.quantity, f.debit)[n].filled = f.quantity
    BY <1>1 DEF BuyFilled, OrderRecord
  <2> QED
    BY <2>3, <2>4, <2>5
<1>5. CASE ExitArrives
  <2>1. PICK e2 \in events :
          /\ Takes(e2) /\ events \ {e2} \subseteq events'
          /\ \E f \in SaleFills(orders[e2.order]) :
               orders' = [orders EXCEPT ![e2.order].arrived = TRUE,
                                        ![e2.order].filled = f.quantity,
                                        ![e2.order].credit = f.credit]
    BY <1>5 DEF ExitArrives
  <2>2. e2 = e
    BY <2>1
  <2>3. PICK f \in SaleFills(o) : orders' = ExitFilled(orders, n, f.quantity, f.credit)
    BY <2>1, <2>2 DEF ExitFilled
  <2>4. f.quantity = 0
    BY <1>2, <2>1, <2>2 DEF SaleFills
  <2>5. ExitFilled(orders, n, f.quantity, f.credit)[n].filled = f.quantity
    BY <1>1 DEF ExitFilled, OrderRecord
  <2> QED
    BY <2>3, <2>4, <2>5
<1>6. CASE BuyResponds
  <2>1. PICK e2 \in events : e2.response /\ events \ {e2} \subseteq events'
    BY <1>6, BuyRespondsContinues DEF Continues
  <2> QED
    BY <2>1
<1>7. CASE ExitResponds
  <2>1. PICK e2 \in events : e2.response /\ events \ {e2} \subseteq events'
    BY <1>7 DEF ExitResponds
  <2> QED
    BY <2>1
<1>8. CASE Settle
  BY <1>8 DEF Settle
<1>9. ASSUME NEW t \in 1..MaxTime, Frame(t)  PROVE FALSE
  BY <1>9 DEF Frame
<1>10. CASE Finish
  BY <1>1, <1>10 DEF Finish
<1>11. CASE UNCHANGED vars
  BY <1>11 DEF vars
<1> QED
  BY <1>3, <1>4, <1>5, <1>6, <1>7, <1>8, <1>9, <1>10, <1>11 DEF Next, Terminated

\* "Terminal settlement wins ties: no assumed trading after resolution", for
\* any policy whose settlements are sorted by time and any latencies.
THEOREM NeverTradesAfterResolution == Spec => NoTradeAfterResolution
<1> DEFINE Step ==
      \A e \in events :
        LET o == orders[e.order]
        IN  e \notin events' /\ e.order \in DOMAIN orders' /\ phase # "settling" /\ ~e.response
              /\ (\E i \in DOMAIN policy.settlements :
                     /\ policy.settlements[i].market = LegMarket[o.attempt][o.leg]
                     /\ policy.settlements[i].time <= e.time)
            => orders'[e.order].filled = 0
<1>1. QueueInv /\ [Next]_vars => [Step]_vars
  BY SettledArrivalUnfilled
<1> HIDE DEF Step
<1>2. Spec => [][Step]_vars
  BY <1>1, QueueInvariant, PTL DEF Spec
<1> QED
  BY <1>2 DEF NoTradeAfterResolution, Step

-----------------------------------------------------------------------------
(* Lots. *)

Lot == [quantity : Nat \ {0}, debit : Nat]

Quantities(ls) == [i \in DOMAIN ls |-> ls[i].quantity]
Debits(ls) == [i \in DOMAIN ls |-> ls[i].debit]

\* Lots one after the other.
LEMMA LotsOfConcat ==
  ASSUME NEW s \in Seq(Lot), NEW t \in Seq(Lot)
  PROVE  /\ QuantityOf(s \o t) = QuantityOf(s) + QuantityOf(t)
         /\ DebitOf(s \o t) = DebitOf(s) + DebitOf(t)
         /\ QuantityOf(s) \in Nat /\ QuantityOf(t) \in Nat
         /\ DebitOf(s) \in Nat /\ DebitOf(t) \in Nat
<1> DEFINE m == Len(s)
           n == Len(t)
<1>1. /\ m \in Nat /\ n \in Nat
      /\ DOMAIN s = 1..m /\ DOMAIN t = 1..n /\ DOMAIN (s \o t) = 1..(m + n)
      /\ \A i \in 1..m : s[i] \in Lot /\ (s \o t)[i] = s[i]
      /\ \A i \in 1..n : t[i] \in Lot /\ (s \o t)[i + m] = t[i]
      /\ \A i \in 1..(m + n) : (s \o t)[i] \in Lot
  OBVIOUS
<1> DEFINE u == s \o t
<1> HIDE DEF m, n, u
<1>2. \A l \in Lot : l.quantity \in Nat /\ l.debit \in Nat
  BY DEF Lot
<1>3. /\ Quantities(s) \in [1..m -> Nat] /\ Debits(s) \in [1..m -> Nat]
      /\ Quantities(t) \in [1..n -> Nat] /\ Debits(t) \in [1..n -> Nat]
      /\ Quantities(u) \in [1..(m + n) -> Nat] /\ Debits(u) \in [1..(m + n) -> Nat]
  BY <1>1, <1>2 DEF Quantities, Debits, u
<1>4. \A i \in 1..m : Quantities(u)[i] = Quantities(s)[i] /\ Debits(u)[i] = Debits(s)[i]
  BY <1>1 DEF Quantities, Debits, u
<1>5. \A i \in 1..n : Quantities(u)[i + m] = Quantities(t)[i] /\ Debits(u)[i + m] = Debits(t)[i]
  BY <1>1 DEF Quantities, Debits, u
<1>6. /\ SumOf(Quantities(u)) = SumOf(Quantities(s)) + SumOf(Quantities(t))
      /\ SumOf(Quantities(s)) \in Nat /\ SumOf(Quantities(t)) \in Nat
  <2>1. Concats(Quantities(u), Quantities(s), Quantities(t), m, n)
    BY <1>1, <1>3, <1>4, <1>5 DEF Concats
  <2> QED
    BY <2>1, SumOfConcat
<1>7. /\ SumOf(Debits(u)) = SumOf(Debits(s)) + SumOf(Debits(t))
      /\ SumOf(Debits(s)) \in Nat /\ SumOf(Debits(t)) \in Nat
  <2>1. Concats(Debits(u), Debits(s), Debits(t), m, n)
    BY <1>1, <1>3, <1>4, <1>5 DEF Concats
  <2> QED
    BY <2>1, SumOfConcat
<1> QED
  BY <1>6, <1>7 DEF QuantityOf, DebitOf, Quantities, Debits, u

\* A single lot.
LEMMA LotAlone ==
  ASSUME NEW lot \in Lot
  PROVE  /\ <<lot>> \in Seq(Lot) /\ lot.quantity \in Nat \ {0} /\ lot.debit \in Nat
         /\ QuantityOf(<<lot>>) = lot.quantity /\ DebitOf(<<lot>>) = lot.debit
<1>1. lot.quantity \in Nat \ {0} /\ lot.debit \in Nat
  BY DEF Lot
<1>2. /\ Quantities(<<lot>>) \in [{1} -> Nat] /\ Quantities(<<lot>>)[1] = lot.quantity
      /\ Debits(<<lot>>) \in [{1} -> Nat] /\ Debits(<<lot>>)[1] = lot.debit
  BY <1>1 DEF Quantities, Debits
<1> QED
  BY <1>1, <1>2, SumOfOne DEF QuantityOf, DebitOf, Quantities, Debits

\* A position without lots.
LEMMA NoLots ==
  <<>> \in Seq(Lot) /\ QuantityOf(<<>>) = 0 /\ DebitOf(<<>>) = 0
<1>1. <<>> \in Seq(Lot) /\ DOMAIN <<>> = {}
  OBVIOUS
<1>2. Quantities(<<>>) \in [{} -> Nat] /\ Debits(<<>>) \in [{} -> Nat]
  BY <1>1 DEF Quantities, Debits
<1> QED
  BY <1>1, <1>2, SumOfNothing DEF QuantityOf, DebitOf, Quantities, Debits

\* The number of lots that are closed whole exists.
LEMMA WholeLotsExist ==
  ASSUME NEW ls \in Seq(Lot), NEW quantity \in Nat
  PROVE  /\ WholeLots(ls, quantity) \in 0..Len(ls)
         /\ QuantityOf(SubSeq(ls, 1, WholeLots(ls, quantity))) <= quantity
         /\ WholeLots(ls, quantity) < Len(ls) =>
              quantity < QuantityOf(SubSeq(ls, 1, WholeLots(ls, quantity) + 1))
<1> DEFINE upto(k) == QuantityOf(SubSeq(ls, 1, k))
           enough(k) == /\ upto(k) <= quantity
                        /\ k < Len(ls) => quantity < upto(k + 1)
           S == {k \in 0..Len(ls) : quantity < upto(k)}
<1>1. Len(ls) \in Nat
  OBVIOUS
<1>2. \A k \in 0..Len(ls) : upto(k) \in Nat
  <2> SUFFICES ASSUME NEW k \in 0..Len(ls) PROVE upto(k) \in Nat
    OBVIOUS
  <2>1. SubSeq(ls, 1, k) \in Seq(Lot)
    BY <1>1
  <2> QED
    BY <2>1, LotsOfConcat
<1>3. upto(0) = 0
  <2>1. SubSeq(ls, 1, 0) = <<>>
    BY SubSeqEmpty
  <2> QED
    BY <2>1, NoLots
<1> HIDE DEF upto
<1>4. \E k \in 0..Len(ls) : enough(k)
  <2>1. CASE S = {}
    <3>1. Len(ls) \in 0..Len(ls) /\ upto(Len(ls)) <= quantity
      BY <1>1, <1>2, <2>1
    <3> QED
      BY <1>1, <3>1
  <2>2. CASE S # {}
    <3>1. PICK k \in S : \A j \in S : k <= j
      <4>1. S \subseteq Nat
        OBVIOUS
      <4> QED
        BY <2>2, <4>1, LeastNatural
    <3>2. k # 0 /\ k \in 0..Len(ls)
      BY <1>3, <3>1
    <3>3. k - 1 \in 0..Len(ls) /\ k - 1 \notin S /\ (k - 1) + 1 = k
      BY <1>1, <3>1, <3>2
    <3>4. upto(k - 1) <= quantity /\ quantity < upto((k - 1) + 1)
      BY <1>2, <3>1, <3>3
    <3> QED
      BY <3>3, <3>4
  <2> QED
    BY <2>1, <2>2
<1>5. WholeLots(ls, quantity) = CHOOSE k \in 0..Len(ls) : enough(k)
  BY DEF WholeLots, upto
<1>6. WholeLots(ls, quantity) \in 0..Len(ls) /\ enough(WholeLots(ls, quantity))
  BY <1>4, <1>5, Zenon
<1> QED
  BY <1>6 DEF upto

\* The rest of a lot of which a part has been closed.
Rest(lot, part) ==
  [quantity |-> lot.quantity - part, debit |-> lot.debit - ShareOf(lot, part)]

\* What a partly closed lot keeps is a lot; what it releases is part of its cost.
LEMMA RestOfLot ==
  ASSUME NEW lot \in Lot, NEW part \in 0..(lot.quantity - 1)
  PROVE  /\ Rest(lot, part) \in Lot /\ ShareOf(lot, part) \in 0..lot.debit
         /\ Rest(lot, part).quantity = lot.quantity - part
         /\ Rest(lot, part).debit = lot.debit - ShareOf(lot, part)
<1>1. PICK q \in Nat \ {0}, d \in Nat : q = lot.quantity /\ d = lot.debit
  BY DEF Lot
<1>2. part \in Nat /\ part < q
  BY <1>1
<1>3. PICK y \in Nat : y = d * part /\ y <= d * q
  <2>1. d * part \in Nat /\ d * part <= d * q
    BY <1>2, Z3
  <2> QED
    BY <2>1
<1>4. y \div q \in Nat /\ y \div q <= d
  <2>1. PICK k \in Nat, r \in 0..(q - 1) : y = q * k + r /\ k = y \div q
    <3>1. y \div q \in Nat /\ y % q \in 0..(q - 1) /\ y = q * (y \div q) + (y % q)
      BY Z3
    <3> QED
      BY <3>1
  <2>2. q * k <= q * d
    BY <1>3, <2>1, Z3
  <2>3. k <= d
    BY <2>2, Z3
  <2> QED
    BY <2>1, <2>3
<1>5. ShareOf(lot, part) \in 0..d
  BY <1>1, <1>3, <1>4 DEF ShareOf
<1> QED
  BY <1>1, <1>2, <1>5 DEF Rest, Lot

\* A quantity q is taken from lots: what is left, and the debit released.
Divides(ls, q, left, released) ==
  /\ left \in Seq(Lot) /\ released \in Nat
  /\ QuantityOf(ls) \in Nat /\ DebitOf(ls) \in Nat
  /\ QuantityOf(left) = QuantityOf(ls) - q
  /\ DebitOf(left) = DebitOf(ls) - released

\* What close_position() leaves of the lots is what remains of the next lot and
\* the later lots; nothing of the quantity asked for, and no microdollar, is lost.
LEMMA ClosedInParts ==
  ASSUME NEW ls \in Seq(Lot), NEW q \in Nat,
         NEW whole \in Seq(Lot), NEW lot \in Lot, NEW later \in Seq(Lot),
         ls = (whole \o <<lot>>) \o later, QuantityOf(whole) <= q,
         q < QuantityOf(whole \o <<lot>>),
         NEW part, part = q - QuantityOf(whole)
  PROVE  Divides(ls, q, <<Rest(lot, part)>> \o later, DebitOf(whole) + ShareOf(lot, part))
<1>1. /\ <<lot>> \in Seq(Lot) /\ whole \o <<lot>> \in Seq(Lot)
      /\ QuantityOf(<<lot>>) = lot.quantity /\ DebitOf(<<lot>>) = lot.debit
      /\ lot.quantity \in Nat \ {0} /\ lot.debit \in Nat
  BY LotAlone
<1>2. /\ QuantityOf(whole \o <<lot>>) = QuantityOf(whole) + QuantityOf(<<lot>>)
      /\ DebitOf(whole \o <<lot>>) = DebitOf(whole) + DebitOf(<<lot>>)
      /\ QuantityOf(whole) \in Nat /\ DebitOf(whole) \in Nat
  BY <1>1, LotsOfConcat, Zenon
<1>3. /\ QuantityOf(ls) = QuantityOf(whole \o <<lot>>) + QuantityOf(later)
      /\ DebitOf(ls) = DebitOf(whole \o <<lot>>) + DebitOf(later)
      /\ QuantityOf(later) \in Nat /\ DebitOf(later) \in Nat
  BY <1>1, LotsOfConcat, Zenon
<1> DEFINE left == Rest(lot, part)
           closed == <<left>> \o later
           released == DebitOf(whole) + ShareOf(lot, part)
<1>4. part \in 0..(lot.quantity - 1)
  <2>1. PICK a, b : a = QuantityOf(whole) /\ b = QuantityOf(whole \o <<lot>>)
    OBVIOUS
  <2>2. a \in Nat /\ b = a + lot.quantity /\ a <= q /\ q < b /\ part = q - a
    BY <1>1, <1>2, <2>1, Zenon
  <2> QED
    BY <1>1, <2>2
<1>5. /\ left \in Lot /\ ShareOf(lot, part) \in 0..lot.debit
      /\ left.quantity = lot.quantity - part
      /\ left.debit = lot.debit - ShareOf(lot, part)
  BY <1>4, RestOfLot
<1> HIDE DEF left
<1>6. /\ <<left>> \in Seq(Lot) /\ QuantityOf(<<left>>) = left.quantity
      /\ DebitOf(<<left>>) = left.debit
  BY <1>5, LotAlone
<1>7. <<left>> \o later \in Seq(Lot)
  BY <1>6
<1>8. /\ QuantityOf(<<left>> \o later) = QuantityOf(<<left>>) + QuantityOf(later)
      /\ DebitOf(<<left>> \o later) = DebitOf(<<left>>) + DebitOf(later)
  BY <1>6, LotsOfConcat, Zenon
<1>9. closed = <<left>> \o later /\ released = DebitOf(whole) + ShareOf(lot, part)
  OBVIOUS
<1> HIDE DEF closed, released
<1>10. PICK wq, wd, lq, ld, aq, ad, sh :
         /\ wq = QuantityOf(whole) /\ wd = DebitOf(whole)
         /\ lq = QuantityOf(later) /\ ld = DebitOf(later)
         /\ aq = lot.quantity /\ ad = lot.debit /\ sh = ShareOf(lot, part)
  OBVIOUS
<1>11. /\ QuantityOf(ls) = wq + aq + lq /\ DebitOf(ls) = wd + ad + ld
       /\ QuantityOf(closed) = (aq - part) + lq /\ DebitOf(closed) = (ad - sh) + ld
       /\ part = q - wq /\ released = wd + sh
  BY <1>1, <1>2, <1>3, <1>5, <1>6, <1>8, <1>9, <1>10, Zenon
<1>12. /\ wq \in Nat /\ wd \in Nat /\ lq \in Nat /\ ld \in Nat /\ aq \in Nat /\ ad \in Nat
       /\ sh \in 0..ad
  BY <1>1, <1>2, <1>3, <1>5, <1>10
<1>13. closed \in Seq(Lot)
  BY <1>7, <1>9
<1>14. /\ wd + sh \in Nat /\ wq + aq + lq \in Nat /\ wd + ad + ld \in Nat
       /\ (aq - (q - wq)) + lq = (wq + aq + lq) - q
       /\ (ad - sh) + ld = (wd + ad + ld) - (wd + sh)
  <2>1. q \in Nat
    OBVIOUS
  <2> QED
    BY ONLY <1>12, <2>1
<1>15. /\ closed \in Seq(Lot) /\ released \in Nat
       /\ QuantityOf(ls) \in Nat /\ DebitOf(ls) \in Nat
       /\ QuantityOf(closed) = QuantityOf(ls) - q
       /\ DebitOf(closed) = DebitOf(ls) - released
  BY <1>11, <1>13, <1>14, Zenon
<1> QED
  BY <1>15 DEF Divides, closed, released, left

\* What close_position() leaves and releases: the quantity asked for is gone,
\* and no microdollar of the debit.
LEMMA ClosedLots ==
  ASSUME NEW ls \in Seq(Lot), NEW q \in Nat, q <= QuantityOf(ls)
  PROVE  Divides(ls, q, Closed(ls, q), Released(ls, q))
<1> DEFINE k == WholeLots(ls, q)
           part == PartOfNext(ls, q)
<1>0. PICK whole : whole = SubSeq(ls, 1, k)
  OBVIOUS
<1>1. /\ k \in 0..Len(ls) /\ QuantityOf(whole) <= q
      /\ k < Len(ls) => q < QuantityOf(SubSeq(ls, 1, k + 1))
      /\ Len(ls) \in Nat
  <2>1. Len(ls) \in Nat
    OBVIOUS
  <2> QED
    BY <1>0, <2>1, WholeLotsExist, Zenon
<1>2. /\ whole \in Seq(Lot) /\ QuantityOf(whole) \in Nat /\ DebitOf(whole) \in Nat
      /\ QuantityOf(ls) \in Nat /\ DebitOf(ls) \in Nat
  <2>1. whole \in Seq(Lot)
    BY <1>0, <1>1
  <2> QED
    BY <2>1, LotsOfConcat, Zenon
<1>3. part = q - QuantityOf(whole)
  BY <1>0, Zenon DEF PartOfNext
<1>4. CASE k = Len(ls)
  <2>1. whole = ls
    BY <1>0, <1>4, SubSeqFull
  <2>2. q = QuantityOf(ls)
    <3>1. PICK a : a = QuantityOf(ls)
      OBVIOUS
    <3>2. a \in Nat /\ a <= q /\ q <= a
      BY <1>1, <1>2, <2>1, <3>1, Zenon
    <3>3. a = q
      BY <3>2
    <3> QED
      BY <3>1, <3>3
  <2>3. Closed(ls, q) = <<>> /\ Released(ls, q) = DebitOf(whole) + 0
    BY <1>0, <1>4, Zenon DEF Closed, Released
  <2>4. PICK d : d = DebitOf(ls)
    OBVIOUS
  <2>5. d \in Nat /\ Released(ls, q) = d + 0
    BY <1>2, <2>1, <2>3, <2>4, Zenon
  <2>6. d + 0 = d /\ q - q = 0 /\ d - d = 0
    BY <2>5
  <2> QED
    BY <1>2, <2>2, <2>3, <2>4, <2>5, <2>6, NoLots, Zenon DEF Divides
<1>5. CASE k # Len(ls)
  <2> DEFINE lot == ls[k + 1]
  <2>0. PICK later : later = SubSeq(ls, k + 2, Len(ls))
    OBVIOUS
  <2>1. k \in Nat /\ k + 1 \in 1..Len(ls) /\ k + 2 \in Nat /\ Len(ls) + 1 \in Nat
    BY <1>1, <1>5
  <2>2. lot \in Lot /\ later \in Seq(Lot)
    BY <2>0, <2>1
  <2>3. SubSeq(ls, 1, k + 1) = whole \o <<lot>>
    <3>1. /\ 1 \in 1..Len(ls) /\ k + 1 \in 1..Len(ls) /\ (k + 1) - 1 = k
      BY <2>1
    <3> QED
      BY <1>0, <3>1, SubSeqRecursiveSecond
  <2>4. ls = (whole \o <<lot>>) \o later
    <3>1. /\ 1 \in 1..(Len(ls) + 1) /\ k + 1 \in (1 - 1)..Len(ls) /\ Len(ls) \in (k + 1)..Len(ls)
          /\ (k + 1) + 1 = k + 2
      BY <2>1
    <3>2. SubSeq(ls, 1, k + 1) \o SubSeq(ls, (k + 1) + 1, Len(ls)) = SubSeq(ls, 1, Len(ls))
      BY <3>1, ConcatAdjacentSubSeq
    <3>3. SubSeq(ls, 1, Len(ls)) = ls
      BY SubSeqFull
    <3> QED
      BY <2>0, <2>3, <3>1, <3>2, <3>3
  <2>5. q < QuantityOf(whole \o <<lot>>)
    <3>1. k < Len(ls)
      BY <1>1, <1>5
    <3> QED
      BY <1>1, <2>3, <3>1, Zenon
  <2>6. /\ Closed(ls, q) = <<Rest(lot, part)>> \o later
        /\ Released(ls, q) = DebitOf(whole) + ShareOf(lot, part)
    BY <1>0, <1>5, <2>0, Zenon DEF Closed, Released, Rest
  <2> HIDE DEF k, part, lot
  <2>7. QuantityOf(whole) <= q /\ whole \in Seq(Lot)
    BY <1>1, <1>2
  <2>8. Divides(ls, q, <<Rest(lot, part)>> \o later, DebitOf(whole) + ShareOf(lot, part))
    BY <1>3, <2>2, <2>4, <2>5, <2>7, ClosedInParts, Zenon
  <2> QED
    BY <2>6, <2>8, Zenon
<1> QED
  BY <1>4, <1>5

-----------------------------------------------------------------------------
(* Sums over the orders and over the legs of all constraints. *)

\* What orders that have not responded spent, and what they were credited.
OpenDebit(os) == [i \in DOMAIN os |-> IF os[i].responded THEN 0 ELSE os[i].debit]
OpenCredit(os) == [i \in DOMAIN os |-> IF os[i].responded THEN 0 ELSE os[i].credit]

\* They are sums of natural numbers.
LEMMA OpenSummands ==
  ASSUME NEW os \in Seq(OrderRecord)
  PROVE  /\ OpenDebit(os) \in [1..Len(os) -> Nat] /\ OpenCredit(os) \in [1..Len(os) -> Nat]
         /\ SumOf(OpenDebit(os)) \in Nat /\ SumOf(OpenCredit(os)) \in Nat
         /\ IsFiniteSet(1..Len(os))
<1>1. DOMAIN os = 1..Len(os) /\ Len(os) \in Nat /\ \A i \in 1..Len(os) : os[i] \in OrderRecord
  OBVIOUS
<1>2. \A o \in OrderRecord : o.debit \in Nat /\ o.credit \in Nat
  BY DEF OrderRecord
<1>3. OpenDebit(os) \in [1..Len(os) -> Nat] /\ OpenCredit(os) \in [1..Len(os) -> Nat]
  BY <1>1, <1>2 DEF OpenDebit, OpenCredit
<1>4. IsFiniteSet(1..Len(os))
  BY <1>1, FS_Interval
<1> QED
  BY <1>3, <1>4, SumIsNatural

\* One order changes.
LEMMA OpenSumsChange ==
  ASSUME NEW os \in Seq(OrderRecord), NEW n \in 1..Len(os), NEW new \in Seq(OrderRecord),
         Len(new) = Len(os), \A i \in 1..Len(os) : i # n => new[i] = os[i]
  PROVE  /\ SumOf(OpenDebit(new)) = SumOf(OpenDebit(os)) - OpenDebit(os)[n] + OpenDebit(new)[n]
         /\ SumOf(OpenCredit(new)) = SumOf(OpenCredit(os)) - OpenCredit(os)[n] + OpenCredit(new)[n]
         /\ OpenDebit(os)[n] = (IF os[n].responded THEN 0 ELSE os[n].debit)
         /\ OpenDebit(new)[n] = (IF new[n].responded THEN 0 ELSE new[n].debit)
         /\ OpenCredit(os)[n] = (IF os[n].responded THEN 0 ELSE os[n].credit)
         /\ OpenCredit(new)[n] = (IF new[n].responded THEN 0 ELSE new[n].credit)
<1>1. /\ DOMAIN os = 1..Len(os) /\ DOMAIN new = 1..Len(os)
  OBVIOUS
<1>2. /\ OpenDebit(os) \in [1..Len(os) -> Nat] /\ OpenDebit(new) \in [1..Len(os) -> Nat]
      /\ OpenCredit(os) \in [1..Len(os) -> Nat] /\ OpenCredit(new) \in [1..Len(os) -> Nat]
      /\ IsFiniteSet(1..Len(os))
  BY OpenSummands
<1>3. /\ \A i \in 1..Len(os) : i # n => OpenDebit(new)[i] = OpenDebit(os)[i]
      /\ \A i \in 1..Len(os) : i # n => OpenCredit(new)[i] = OpenCredit(os)[i]
  BY <1>1 DEF OpenDebit, OpenCredit
<1>4. SumOf(OpenDebit(new)) = SumOf(OpenDebit(os)) - OpenDebit(os)[n] + OpenDebit(new)[n]
  <2> DEFINE S == 1..Len(os)
             f == OpenDebit(os)
             g == OpenDebit(new)
  <2>1. /\ n \in S /\ IsFiniteSet(S) /\ f \in [S -> Nat] /\ g \in [S -> Nat]
        /\ \A i \in S : i # n => g[i] = f[i]
    BY <1>2, <1>3
  <2> HIDE DEF S, f, g
  <2>2. SumOf(g) = SumOf(f) - f[n] + g[n]
    BY <2>1, SumWithOneChanged
  <2> QED
    BY <2>2, Zenon DEF f, g
<1>5. SumOf(OpenCredit(new)) = SumOf(OpenCredit(os)) - OpenCredit(os)[n] + OpenCredit(new)[n]
  <2> DEFINE S == 1..Len(os)
             f == OpenCredit(os)
             g == OpenCredit(new)
  <2>1. /\ n \in S /\ IsFiniteSet(S) /\ f \in [S -> Nat] /\ g \in [S -> Nat]
        /\ \A i \in S : i # n => g[i] = f[i]
    BY <1>2, <1>3
  <2> HIDE DEF S, f, g
  <2>2. SumOf(g) = SumOf(f) - f[n] + g[n]
    BY <2>1, SumWithOneChanged
  <2> QED
    BY <2>2, Zenon DEF f, g
<1>6. /\ OpenDebit(os)[n] = (IF os[n].responded THEN 0 ELSE os[n].debit)
      /\ OpenDebit(new)[n] = (IF new[n].responded THEN 0 ELSE new[n].debit)
      /\ OpenCredit(os)[n] = (IF os[n].responded THEN 0 ELSE os[n].credit)
      /\ OpenCredit(new)[n] = (IF new[n].responded THEN 0 ELSE new[n].credit)
  BY <1>1 DEF OpenDebit, OpenCredit
<1> QED
  BY <1>4, <1>5, <1>6

\* Orders are added that have not arrived.
LEMMA OpenSumsExtend ==
  ASSUME NEW os \in Seq(OrderRecord), NEW new \in Seq(OrderRecord), Len(new) >= Len(os),
         \A i \in 1..Len(os) : new[i] = os[i],
         \A i \in 1..Len(new) : i > Len(os) => new[i].debit = 0 /\ new[i].credit = 0
  PROVE  /\ SumOf(OpenDebit(new)) = SumOf(OpenDebit(os))
         /\ SumOf(OpenCredit(new)) = SumOf(OpenCredit(os))
<1>1. /\ DOMAIN os = 1..Len(os) /\ DOMAIN new = 1..Len(new) /\ 1..Len(os) \subseteq 1..Len(new)
      /\ \A i \in 1..Len(new) : i \notin 1..Len(os) => i > Len(os)
  OBVIOUS
<1>2. /\ DOMAIN OpenDebit(os) = 1..Len(os) /\ DOMAIN OpenDebit(new) = 1..Len(new)
      /\ DOMAIN OpenCredit(os) = 1..Len(os) /\ DOMAIN OpenCredit(new) = 1..Len(new)
  BY <1>1 DEF OpenDebit, OpenCredit
<1>3. /\ \A i \in 1..Len(os) : OpenDebit(new)[i] = OpenDebit(os)[i]
      /\ \A i \in 1..Len(os) : OpenCredit(new)[i] = OpenCredit(os)[i]
  BY <1>1 DEF OpenDebit, OpenCredit
<1>4. \A i \in 1..Len(new) : i \notin 1..Len(os) => OpenDebit(new)[i] = 0 /\ OpenCredit(new)[i] = 0
  BY <1>1 DEF OpenDebit, OpenCredit
<1>5. SumOf(OpenDebit(new)) = SumOf(OpenDebit(os))
  BY <1>1, <1>2, <1>3, <1>4, SumWithZeros
<1>6. SumOf(OpenCredit(new)) = SumOf(OpenCredit(os))
  BY <1>1, <1>2, <1>3, <1>4, SumWithZeros
<1> QED
  BY <1>5, <1>6

\* What the attempts hold for their legs, and what their open lots cost.
Reserved(as) == [cl \in Constraint \X Leg |-> as[cl[1]].reserve[cl[2]]]
Costs(ls) == [cl \in Constraint \X Leg |-> DebitOf(ls[cl[1]][cl[2]])]

\* The legs of all constraints are finitely many.
LEMMA LegsAreFinite ==
  IsFiniteSet(Leg) /\ IsFiniteSet(Constraint \X Leg)
<1>1. IsFiniteSet(Leg)
  <2>1. Leg = 1..2 /\ 1 \in Int /\ 2 \in Int
    BY DEF Leg
  <2> QED
    BY <2>1, FS_Interval
<1> QED
  BY <1>1, FS_Product, LifecycleConstants

\* The reservations of one attempt change.
LEMMA ReservedChanges ==
  ASSUME NEW as, NEW new, NEW c \in Constraint,
         \A d \in Constraint : as[d].reserve \in [Leg -> Nat],
         \A d \in Constraint : new[d].reserve \in [Leg -> Nat],
         \A d \in Constraint \ {c} : new[d].reserve = as[d].reserve
  PROVE  /\ SumOf(Reserved(as)) \in Nat /\ SumOf(Reserved(new)) \in Nat
         /\ SumOf(Reserved(new)) = SumOf(Reserved(as)) - as[c].reserve[1] - as[c].reserve[2]
              + new[c].reserve[1] + new[c].reserve[2]
<1> DEFINE CL == Constraint \X Leg
           f == Reserved(as)
           g == Reserved(new)
           h == [cl \in CL |-> IF cl = <<c, 1>> THEN new[c].reserve[1] ELSE f[cl]]
<1>1. \A d \in Constraint : \A l \in Leg : as[d].reserve[l] \in Nat /\ new[d].reserve[l] \in Nat
  OBVIOUS
<1>2. \A cl \in CL : cl[1] \in Constraint /\ cl[2] \in Leg /\ cl = <<cl[1], cl[2]>>
  OBVIOUS
<1>3. /\ \A cl \in CL : f[cl] = as[cl[1]].reserve[cl[2]]
      /\ \A cl \in CL : g[cl] = new[cl[1]].reserve[cl[2]]
      /\ DOMAIN f = CL /\ DOMAIN g = CL
  BY DEF Reserved
<1>4. f \in [CL -> Nat] /\ g \in [CL -> Nat]
  <2>1. f = [cl \in CL |-> as[cl[1]].reserve[cl[2]]] /\ g = [cl \in CL |-> new[cl[1]].reserve[cl[2]]]
    BY DEF Reserved
  <2> HIDE DEF f, g, CL
  <2> QED
    BY <1>1, <1>2, <2>1
<1>5. <<c, 1>> \in CL /\ <<c, 2>> \in CL /\ <<c, 1>> # <<c, 2>> /\ 1 \in Leg /\ 2 \in Leg
  BY DEF Leg
<1>6. /\ f[<<c, 1>>] = as[c].reserve[1] /\ f[<<c, 2>>] = as[c].reserve[2]
      /\ g[<<c, 1>>] = new[c].reserve[1] /\ g[<<c, 2>>] = new[c].reserve[2]
  BY <1>3, <1>5
<1> HIDE DEF f, g
<1>7. h \in [CL -> Nat]
  BY <1>1, <1>4, <1>5
<1>8. /\ h[<<c, 1>>] = new[c].reserve[1]
      /\ \A cl \in CL : cl # <<c, 1>> => h[cl] = f[cl]
  BY <1>5
<1>9. \A cl \in CL : cl # <<c, 2>> => g[cl] = h[cl]
  <2> SUFFICES ASSUME NEW cl \in CL, cl # <<c, 2>> PROVE g[cl] = h[cl]
    OBVIOUS
  <2>1. CASE cl = <<c, 1>>
    BY <1>6, <1>8, <2>1
  <2>2. CASE cl # <<c, 1>>
    <3>1. PICK d \in Constraint, k \in Leg : cl = <<d, k>>
      OBVIOUS
    <3>2. d # c
      BY <2>2, <3>1 DEF Leg
    <3>3. f[cl] = as[d].reserve[k] /\ g[cl] = new[d].reserve[k]
      BY <1>3, <3>1
    <3> QED
      BY <1>8, <2>2, <3>2, <3>3
  <2> QED
    BY <2>1, <2>2
<1>10. IsFiniteSet(CL)
  BY LegsAreFinite
<1> HIDE DEF h, CL
<1>15. f \in [CL -> Nat] /\ h \in [CL -> Nat] /\ <<c, 1>> \in CL
  BY <1>4, <1>5, <1>7
<1>16. \A cl \in CL : cl # <<c, 1>> => h[cl] = f[cl]
  BY <1>8
<1>11. /\ SumOf(f) \in Nat /\ SumOf(h) \in Nat
       /\ SumOf(h) = SumOf(f) - f[<<c, 1>>] + h[<<c, 1>>]
  BY <1>10, <1>15, <1>16, SumWithOneChanged
<1>12. SumOf(g) \in Nat /\ SumOf(g) = SumOf(h) - h[<<c, 2>>] + g[<<c, 2>>]
  BY <1>4, <1>5, <1>7, <1>9, <1>10, SumWithOneChanged
<1>13. h[<<c, 2>>] = as[c].reserve[2]
  BY <1>5, <1>6, <1>8
<1>14. /\ as[c].reserve[1] \in Nat /\ as[c].reserve[2] \in Nat
       /\ new[c].reserve[1] \in Nat /\ new[c].reserve[2] \in Nat
  BY <1>1, <1>5
<1>17. PICK m, n, x1, x2, y1, y2 :
         /\ m = SumOf(f) /\ n = SumOf(g)
         /\ x1 = as[c].reserve[1] /\ x2 = as[c].reserve[2]
         /\ y1 = new[c].reserve[1] /\ y2 = new[c].reserve[2]
  OBVIOUS
<1>18. PICK k : k = SumOf(h)
  OBVIOUS
<1>19. /\ m \in Nat /\ n \in Nat /\ k \in Nat /\ k = m - x1 + y1 /\ n = k - x2 + y2
       /\ x1 \in Nat /\ x2 \in Nat /\ y1 \in Nat /\ y2 \in Nat
  BY <1>6, <1>8, <1>11, <1>12, <1>13, <1>14, <1>17, <1>18, Zenon
<1>20. n = m - x1 - x2 + y1 + y2
  BY <1>19
<1> QED
  BY <1>17, <1>19, <1>20, Zenon DEF f, g

\* The lots of one leg change.
Positions == [Constraint -> [Leg -> Seq(Lot)]]

OtherLotsKept(new, ls, c, l) ==
  \A d \in Constraint, k \in Leg : d # c \/ k # l => new[d][k] = ls[d][k]

\* The lots of one leg change.
LEMMA CostsChange ==
  ASSUME NEW ls \in Positions, NEW new \in Positions, NEW c \in Constraint, NEW l \in Leg,
         OtherLotsKept(new, ls, c, l)
  PROVE  /\ SumOf(Costs(ls)) \in Nat /\ SumOf(Costs(new)) \in Nat
         /\ DebitOf(ls[c][l]) \in Nat /\ DebitOf(new[c][l]) \in Nat
         /\ SumOf(Costs(new)) = SumOf(Costs(ls)) - DebitOf(ls[c][l]) + DebitOf(new[c][l])
<1> DEFINE CL == Constraint \X Leg
           f == Costs(ls)
           g == Costs(new)
<1>0. /\ \A d \in Constraint, k \in Leg : ls[d][k] \in Seq(Lot) /\ new[d][k] \in Seq(Lot)
      /\ \A d \in Constraint, k \in Leg : d # c \/ k # l => new[d][k] = ls[d][k]
  BY DEF Positions, OtherLotsKept
<1>1. \A t \in Seq(Lot) : DebitOf(t) \in Nat
  BY LotsOfConcat
<1>2. \A cl \in CL : cl[1] \in Constraint /\ cl[2] \in Leg /\ cl = <<cl[1], cl[2]>>
  OBVIOUS
<1>3. f = [cl \in CL |-> DebitOf(ls[cl[1]][cl[2]])] /\ g = [cl \in CL |-> DebitOf(new[cl[1]][cl[2]])]
  BY DEF Costs
<1>4. <<c, l>> \in CL
  OBVIOUS
<1> HIDE DEF f, g, CL
<1>5. f \in [CL -> Nat] /\ g \in [CL -> Nat]
  BY <1>0, <1>1, <1>2, <1>3
<1>6. \A cl \in CL : cl # <<c, l>> => g[cl] = f[cl]
  BY <1>0, <1>2, <1>3
<1>7. f[<<c, l>>] = DebitOf(ls[c][l]) /\ g[<<c, l>>] = DebitOf(new[c][l])
  BY <1>3, <1>4
<1>8. IsFiniteSet(CL)
  BY LegsAreFinite DEF CL
<1>9. SumOf(f) \in Nat /\ SumOf(g) \in Nat /\ SumOf(g) = SumOf(f) - f[<<c, l>>] + g[<<c, l>>]
  BY <1>4, <1>5, <1>6, <1>8, SumWithOneChanged
<1> QED
  BY <1>0, <1>1, <1>7, <1>9 DEF f, g

-----------------------------------------------------------------------------
(* The invariant of the ledger. *)

LedgerTypeOK ==
  /\ cash \in Ledger
  /\ lots \in Positions
  /\ \A c \in Constraint : attempts[c].reserve \in [Leg -> Nat]

\* The free cash is not overdrawn, the parts of the ledger are those of the
\* attempts and of the orders, and no money is lost or made.
CashBalanced ==
  /\ cash.available >= 0
  /\ cash.available + cash.reserved_total - cash.unconfirmed_debit + cash.unconfirmed_credit
       = Capital - cash.spent + cash.settlement_cash + cash.exit_credit
  /\ cash.reserved_total = SumOf(Reserved(attempts))
  /\ cash.unconfirmed_debit = SumOf(OpenDebit(orders))
  /\ cash.unconfirmed_credit = SumOf(OpenCredit(orders))
  /\ Settled = {} => cash.spent = cash.exit_basis + SumOf(Costs(lots))

\* A buy costs no more than its reservation; an order that has not arrived
\* cost and earned nothing.
OrderSound(o) ==
  /\ o.sell => o.debit = 0
  /\ ~o.sell => o.credit = 0 /\ o.debit <= o.reserve
  /\ ~o.arrived => o.debit = 0 /\ o.credit = 0 /\ ~o.responded

OrdersSound ==
  \A i \in DOMAIN orders : orders[i].attempt \in Attempted /\ OrderSound(orders[i])

OpenBuys(c) ==
  {i \in DOMAIN orders : orders[i].attempt = c /\ ~orders[i].sell /\ ~orders[i].responded}

\* A leg has one open buy at most, and an attempt of a sequential run one; what
\* an attempt holds is the reservation of its open buys, or waits, in a
\* sequential run, for the response of one.
ReservationsBacked ==
  \A c \in Constraint :
    /\ \A i, j \in OpenBuys(c) : policy.sequential \/ orders[i].leg = orders[j].leg => i = j
    /\ \A i \in OpenBuys(c) : attempts[c].reserve[orders[i].leg] = orders[i].reserve
    /\ \A l \in Leg : attempts[c].reserve[l] # 0 =>
         \E i \in OpenBuys(c) : orders[i].leg = l \/ (policy.sequential /\ l = 2)

LedgerInv == LedgerTypeOK /\ CashBalanced /\ OrdersSound /\ ReservationsBacked

-----------------------------------------------------------------------------
(* Arrivals keep it. *)

\* The amounts of an arrived buy.
LEMMA BuyFilledFields ==
  ASSUME NEW s \in Seq(OrderRecord), NEW n \in 1..Len(s), NEW q \in Nat, NEW d \in Nat
  PROVE  /\ BuyFilled(s, n, q, d)[n].debit = d
         /\ BuyFilled(s, n, q, d)[n].credit = s[n].credit
         /\ BuyFilled(s, n, q, d)[n].reserve = s[n].reserve
         /\ BuyFilled(s, n, q, d)[n].quantity = s[n].quantity
<1> DEFINE o1 == [s[n] EXCEPT !.arrived = TRUE]
           o2 == [o1 EXCEPT !.filled = q]
           o3 == [o2 EXCEPT !.debit = d]
<1>1. s[n] \in OrderRecord /\ DOMAIN s = 1..Len(s)
  OBVIOUS
<1>2. BuyFilled(s, n, q, d) = [s EXCEPT ![n] = o3]
  BY <1>1 DEF BuyFilled
<1>3. /\ o1 \in OrderRecord /\ o1.credit = s[n].credit /\ o1.reserve = s[n].reserve
      /\ o1.quantity = s[n].quantity
  BY <1>1 DEF OrderRecord
<1> HIDE DEF o1
<1>4. /\ o2 \in OrderRecord /\ o2.credit = s[n].credit /\ o2.reserve = s[n].reserve
      /\ o2.quantity = s[n].quantity
  BY <1>3 DEF OrderRecord
<1> HIDE DEF o2
<1>5. /\ o3.debit = d /\ o3.credit = s[n].credit /\ o3.reserve = s[n].reserve
      /\ o3.quantity = s[n].quantity
  BY <1>4 DEF OrderRecord
<1> HIDE DEF o3
<1> QED
  BY <1>1, <1>2, <1>5

\* The amounts of an arrived exit.
LEMMA ExitFilledFields ==
  ASSUME NEW s \in Seq(OrderRecord), NEW n \in 1..Len(s), NEW q \in Nat, NEW d \in Nat
  PROVE  /\ ExitFilled(s, n, q, d)[n].credit = d
         /\ ExitFilled(s, n, q, d)[n].debit = s[n].debit
         /\ ExitFilled(s, n, q, d)[n].reserve = s[n].reserve
         /\ ExitFilled(s, n, q, d)[n].quantity = s[n].quantity
<1> DEFINE o1 == [s[n] EXCEPT !.arrived = TRUE]
           o2 == [o1 EXCEPT !.filled = q]
           o3 == [o2 EXCEPT !.credit = d]
<1>1. s[n] \in OrderRecord /\ DOMAIN s = 1..Len(s)
  OBVIOUS
<1>2. ExitFilled(s, n, q, d) = [s EXCEPT ![n] = o3]
  BY <1>1 DEF ExitFilled
<1>3. /\ o1 \in OrderRecord /\ o1.debit = s[n].debit /\ o1.reserve = s[n].reserve
      /\ o1.quantity = s[n].quantity
  BY <1>1 DEF OrderRecord
<1> HIDE DEF o1
<1>4. /\ o2 \in OrderRecord /\ o2.debit = s[n].debit /\ o2.reserve = s[n].reserve
      /\ o2.quantity = s[n].quantity
  BY <1>3 DEF OrderRecord
<1> HIDE DEF o2
<1>5. /\ o3.credit = d /\ o3.debit = s[n].debit /\ o3.reserve = s[n].reserve
      /\ o3.quantity = s[n].quantity
  BY <1>4 DEF OrderRecord
<1> HIDE DEF o3
<1> QED
  BY <1>1, <1>2, <1>5

\* Reservations and the orders they back stay as they are.
LEMMA BackingUnchanged ==
  ASSUME ReservationsBacked, UNCHANGED policy, DOMAIN orders' = DOMAIN orders,
         \A i \in DOMAIN orders :
           /\ orders'[i].attempt = orders[i].attempt /\ orders'[i].leg = orders[i].leg
           /\ orders'[i].sell = orders[i].sell /\ orders'[i].reserve = orders[i].reserve
           /\ ~orders[i].sell => orders'[i].responded = orders[i].responded,
         \A c \in Constraint : attempts'[c].reserve = attempts[c].reserve
  PROVE  /\ ReservationsBacked'
         /\ SumOf(Reserved(attempts')) = SumOf(Reserved(attempts))
<1>1. \A c \in Constraint : OpenBuys(c)' = OpenBuys(c)
  BY DEF OpenBuys
<1>2. ReservationsBacked'
  BY <1>1 DEF ReservationsBacked, OpenBuys
<1>3. Reserved(attempts') = Reserved(attempts)
  BY DEF Reserved
<1> QED
  BY <1>2, <1>3

\* The sums that the ledger is compared with are natural numbers.
LEMMA SumsAreNatural ==
  ASSUME QueueInv, LedgerInv
  PROVE  /\ SumOf(Reserved(attempts)) \in Nat
         /\ SumOf(OpenDebit(orders)) \in Nat /\ SumOf(OpenCredit(orders)) \in Nat
         /\ SumOf(Costs(lots)) \in Nat
<1>1. orders \in Seq(OrderRecord)
  BY DEF QueueInv, QueueTypeOK
<1>2. SumOf(OpenDebit(orders)) \in Nat /\ SumOf(OpenCredit(orders)) \in Nat
  BY <1>1, OpenSummands
<1>3. \A cl \in Constraint \X Leg :
        /\ attempts[cl[1]].reserve[cl[2]] \in Nat
        /\ lots[cl[1]][cl[2]] \in Seq(Lot)
  BY DEF LedgerInv, LedgerTypeOK, Positions
<1>4. \A t \in Seq(Lot) : DebitOf(t) \in Nat
  BY LotsOfConcat
<1>5. /\ Reserved(attempts) \in [Constraint \X Leg -> Nat]
      /\ Costs(lots) \in [Constraint \X Leg -> Nat]
  BY <1>3, <1>4 DEF Reserved, Costs
<1>6. SumOf(Reserved(attempts)) \in Nat
  BY <1>5, LegsAreFinite, SumIsNatural
<1>7. SumOf(Costs(lots)) \in Nat
  BY <1>5, LegsAreFinite, SumIsNatural
<1> QED
  BY <1>2, <1>6, <1>7

\* The lots of leg l of attempt c change; their debit rises by d and falls by b.
LotsChange(c, l, d, b) ==
  /\ lots' \in Positions /\ OtherLotsKept(lots', lots, c, l)
  /\ DebitOf(lots'[c][l]) = DebitOf(lots[c][l]) + d - b

\* An order that cost d or earned k arrives, exits release the basis b.
Accounts(d, k, b) ==
  /\ cash' \in Ledger
  /\ cash'.available = cash.available /\ cash'.reserved_total = cash.reserved_total
  /\ cash'.settlement_cash = cash.settlement_cash
  /\ cash'.spent = cash.spent + d /\ cash'.unconfirmed_debit = cash.unconfirmed_debit + d
  /\ cash'.exit_credit = cash.exit_credit + k
  /\ cash'.unconfirmed_credit = cash.unconfirmed_credit + k
  /\ cash'.exit_basis = cash.exit_basis + b

HoldingsKept ==
  \A c \in Constraint : /\ attempts'[c].reserve = attempts[c].reserve
                        /\ attempts'[c].quantity = attempts[c].quantity

\* An arrival keeps the balance.
LEMMA ArrivalBalances ==
  ASSUME NEW d \in Nat, NEW k \in Nat, NEW b \in Nat, Capital \in Nat,
         cash \in Ledger, cash' \in Ledger, Accounts(d, k, b), CashBalanced
  PROVE  /\ cash'.available >= 0
         /\ cash'.available + cash'.reserved_total - cash'.unconfirmed_debit + cash'.unconfirmed_credit
              = Capital - cash'.spent + cash'.settlement_cash + cash'.exit_credit
<1>1. /\ cash.available >= 0
      /\ cash.available + cash.reserved_total - cash.unconfirmed_debit + cash.unconfirmed_credit
           = Capital - cash.spent + cash.settlement_cash + cash.exit_credit
  BY DEF CashBalanced
<1>2. /\ cash.available \in Int /\ cash.reserved_total \in Int
      /\ cash.unconfirmed_debit \in Int /\ cash.unconfirmed_credit \in Int
      /\ cash.spent \in Int /\ cash.settlement_cash \in Int /\ cash.exit_credit \in Int
  BY DEF Ledger
<1>3. /\ cash'.available = cash.available /\ cash'.reserved_total = cash.reserved_total
      /\ cash'.settlement_cash = cash.settlement_cash
      /\ cash'.spent = cash.spent + d /\ cash'.unconfirmed_debit = cash.unconfirmed_debit + d
      /\ cash'.exit_credit = cash.exit_credit + k
      /\ cash'.unconfirmed_credit = cash.unconfirmed_credit + k
  BY DEF Accounts
<1>4. cash.available + cash.reserved_total - (cash.unconfirmed_debit + d) + (cash.unconfirmed_credit + k)
        = Capital - (cash.spent + d) + cash.settlement_cash + (cash.exit_credit + k)
  BY <1>1, <1>2
<1> QED
  BY <1>1, <1>3, <1>4

\* An arrival moves what it spends or earns into the unconfirmed part, and changes
\* the lots of its leg alone.
LEMMA ArrivalKeepsLedger ==
  ASSUME QueueInv, LedgerInv, NEW n \in 1..Len(orders), ~orders[n].arrived,
         ArrivedOnly(orders', orders, n), orders'[n].reserve = orders[n].reserve,
         NEW d \in Nat, NEW k \in Nat, NEW b \in Nat,
         orders'[n].debit = d, orders'[n].credit = k,
         orders[n].sell => d = 0, ~orders[n].sell => k = 0 /\ d <= orders[n].reserve,
         Accounts(d, k, b), LotsChange(orders[n].attempt, orders[n].leg, d, b),
         HoldingsKept, UNCHANGED <<policy, settlement_index>>
  PROVE  LedgerInv'
<1>1. /\ orders \in Seq(OrderRecord) /\ DOMAIN orders = 1..Len(orders)
      /\ orders' \in Seq(OrderRecord) /\ Len(orders') = Len(orders) /\ DOMAIN orders' = 1..Len(orders)
      /\ \A i \in 1..Len(orders) : i # n => orders'[i] = orders[i]
  BY DEF QueueInv, QueueTypeOK, ArrivedOnly
<1>2. /\ orders'[n].attempt = orders[n].attempt /\ orders'[n].leg = orders[n].leg
      /\ orders'[n].sell = orders[n].sell /\ orders'[n].responded = orders[n].responded
      /\ orders'[n].arrived
  BY DEF ArrivedOnly
<1>3. /\ OrderSound(orders[n]) /\ orders[n] \in OrderRecord
      /\ orders[n].attempt \in Constraint /\ orders[n].leg \in Leg
  <2>1. orders[n] \in OrderRecord /\ OrderSound(orders[n])
    BY <1>1 DEF LedgerInv, OrdersSound
  <2> QED
    BY <2>1 DEF OrderRecord
<1>4. orders[n].debit = 0 /\ orders[n].credit = 0 /\ ~orders[n].responded /\ ~orders'[n].responded
  BY <1>2, <1>3 DEF OrderSound
<1>5. ReservationsBacked' /\ SumOf(Reserved(attempts')) = SumOf(Reserved(attempts))
  <2>1. \A i \in DOMAIN orders :
           /\ orders'[i].attempt = orders[i].attempt /\ orders'[i].leg = orders[i].leg
           /\ orders'[i].sell = orders[i].sell /\ orders'[i].reserve = orders[i].reserve
           /\ ~orders[i].sell => orders'[i].responded = orders[i].responded
    BY <1>1, <1>2
  <2> QED
    BY <1>1, <2>1, BackingUnchanged DEF LedgerInv, HoldingsKept
<1>6. LedgerTypeOK'
  BY DEF LedgerInv, LedgerTypeOK, Accounts, LotsChange, HoldingsKept
<1>7. OrdersSound'
  <2>1. Attempted' = Attempted
    BY DEF Attempted, HoldingsKept
  <2>2. OrderSound(orders'[n])
    BY <1>2, <1>3 DEF OrderSound
  <2>3. \A i \in 1..Len(orders) : orders[i].attempt \in Attempted /\ OrderSound(orders[i])
    BY <1>1 DEF LedgerInv, OrdersSound
  <2>4. \A i \in 1..Len(orders) : orders'[i].attempt \in Attempted /\ OrderSound(orders'[i])
    BY <1>1, <1>2, <2>2, <2>3
  <2> QED
    BY <1>1, <2>1, <2>4 DEF OrdersSound
<1>8. /\ SumOf(OpenDebit(orders')) = SumOf(OpenDebit(orders)) + d
      /\ SumOf(OpenCredit(orders')) = SumOf(OpenCredit(orders)) + k
  <2>1. /\ SumOf(OpenDebit(orders')) = SumOf(OpenDebit(orders)) - 0 + d
        /\ SumOf(OpenCredit(orders')) = SumOf(OpenCredit(orders)) - 0 + k
    BY <1>1, <1>4, OpenSumsChange
  <2> QED
    BY <2>1, SumsAreNatural
<1>9. SumOf(Costs(lots')) = SumOf(Costs(lots)) + d - b
  <2> DEFINE c == orders[n].attempt
             l == orders[n].leg
  <2>1. /\ SumOf(Costs(lots)) \in Nat /\ SumOf(Costs(lots')) \in Nat
        /\ DebitOf(lots[c][l]) \in Nat /\ DebitOf(lots'[c][l]) \in Nat
        /\ SumOf(Costs(lots')) = SumOf(Costs(lots)) - DebitOf(lots[c][l]) + DebitOf(lots'[c][l])
    <3>1. /\ lots \in Positions /\ lots' \in Positions
          /\ OtherLotsKept(lots', lots, c, l)
      BY DEF LedgerInv, LedgerTypeOK, LotsChange
    <3>2. c \in Constraint /\ l \in Leg
      BY <1>3
    <3> HIDE DEF c, l
    <3> QED
      BY <3>1, <3>2, CostsChange, Zenon
  <2>2. DebitOf(lots'[c][l]) = DebitOf(lots[c][l]) + d - b
    BY DEF LotsChange
  <2> QED
    BY <2>1, <2>2
<1>10. CashBalanced'
  <2>1. Settled' = Settled
    BY DEF Settled
  <2>2. cash \in Ledger /\ cash' \in Ledger /\ Capital \in Nat
    BY LifecycleConstants DEF LedgerInv, LedgerTypeOK, Accounts
  <2>3. SumOf(Costs(lots)) \in Nat
    BY SumsAreNatural
  <2>4. CashBalanced
    BY DEF LedgerInv
  <2>5. /\ cash'.available >= 0
        /\ cash'.available + cash'.reserved_total - cash'.unconfirmed_debit + cash'.unconfirmed_credit
             = Capital - cash'.spent + cash'.settlement_cash + cash'.exit_credit
    BY <2>2, <2>4, ArrivalBalances
  <2>6. /\ cash'.reserved_total = SumOf(Reserved(attempts'))
        /\ cash'.unconfirmed_debit = SumOf(OpenDebit(orders'))
        /\ cash'.unconfirmed_credit = SumOf(OpenCredit(orders'))
    BY <1>5, <1>8, <2>4 DEF CashBalanced, Accounts
  <2>7. Settled = {} => cash'.spent = cash'.exit_basis + SumOf(Costs(lots'))
    <3>1. PICK x, y : x = SumOf(Costs(lots)) /\ y = SumOf(Costs(lots'))
      OBVIOUS
    <3>2. x \in Nat /\ y = x + d - b /\ (Settled = {} => cash.spent = cash.exit_basis + x)
      BY <1>9, <2>3, <2>4, <3>1 DEF CashBalanced
    <3>3. /\ cash.spent \in Int /\ cash.exit_basis \in Int /\ d \in Int /\ b \in Int
          /\ cash'.spent = cash.spent + d /\ cash'.exit_basis = cash.exit_basis + b
      BY <2>2 DEF Accounts, Ledger
    <3>4. Settled = {} => cash'.spent = cash'.exit_basis + y
      BY ONLY <3>2, <3>3
    <3> QED
      BY <3>1, <3>4
  <2> QED
    BY <2>1, <2>5, <2>6, <2>7 DEF CashBalanced
<1> QED
  BY <1>5, <1>6, <1>7, <1>10 DEF LedgerInv

\* What an arriving buy does.
BuyTakes(e, f) ==
  LET o == orders[e.order]
      c == o.attempt
  IN  /\ Takes(e) /\ ~e.response /\ ~o.sell
      /\ orders' = BuyFilled(orders, e.order, f.quantity, f.debit)
      /\ attempts' = [attempts EXCEPT ![c].filled[o.leg] = @ + f.quantity,
                                      ![c].debit[o.leg] = @ + f.debit]
      /\ cash' = [cash EXCEPT !.spent = @ + f.debit, !.unconfirmed_debit = @ + f.debit]
      /\ lots' = IF f.quantity = 0 THEN lots
                 ELSE [lots EXCEPT ![c][o.leg] =
                         Append(@, [quantity |-> f.quantity, debit |-> f.debit])]
      /\ UNCHANGED <<policy, settlement_index>>

\* An arriving buy fills within its size and its reservation.
LEMMA BuyArrivesTakes ==
  ASSUME QueueInv, BuyArrives
  PROVE  \E e \in events : \E f \in BuyFills(orders[e.order]) :
           /\ BuyTakes(e, f) /\ f.quantity \in Nat /\ f.debit \in Nat
           /\ f.debit <= orders[e.order].reserve /\ f.quantity <= orders[e.order].quantity
           /\ f.quantity = 0 => f.debit = 0
           /\ LegMarket[orders[e.order].attempt][orders[e.order].leg] \in Settled => f.quantity = 0
<1>1. PICK e \in events : \E f \in BuyFills(orders[e.order]) : BuyTakes(e, f)
  <2>1. PICK e \in events :
          LET o == orders[e.order]
              c == o.attempt
          IN  /\ Takes(e) /\ ~e.response /\ ~o.sell
              /\ \E f \in BuyFills(o) :
                   /\ orders' = BuyFilled(orders, e.order, f.quantity, f.debit)
                   /\ attempts' = [attempts EXCEPT ![c].filled[o.leg] = @ + f.quantity,
                                                   ![c].debit[o.leg] = @ + f.debit]
                   /\ cash' = [cash EXCEPT !.spent = @ + f.debit, !.unconfirmed_debit = @ + f.debit]
                   /\ lots' = IF f.quantity = 0 THEN lots
                              ELSE [lots EXCEPT ![c][o.leg] =
                                      Append(@, [quantity |-> f.quantity, debit |-> f.debit])]
              /\ UNCHANGED <<policy, settlement_index>>
    BY Zenon DEF BuyArrives, BuyFilled
  <2>2. \E f \in BuyFills(orders[e.order]) : BuyTakes(e, f)
    BY <2>1, Zenon DEF BuyTakes
  <2> QED
    BY <2>2
<1>2. PICK f \in BuyFills(orders[e.order]) : BuyTakes(e, f)
  BY <1>1
<1> DEFINE o == orders[e.order]
<1>3. o \in OrderRecord
  BY EventFacts
<1>4. o.quantity \in Int /\ o.reserve \in Nat
  BY <1>3 DEF OrderRecord
<1>5. /\ f \in [quantity : 0..o.quantity, debit : 0..o.reserve]
      /\ f.quantity = 0 => f.debit = 0
      /\ LegMarket[o.attempt][o.leg] \in Settled => f.quantity = 0
  BY DEF BuyFills
<1>6. f.quantity \in 0..o.quantity /\ f.debit \in 0..o.reserve
  BY <1>5
<1>7. /\ f.quantity \in Nat /\ f.debit \in Nat
      /\ f.debit <= o.reserve /\ f.quantity <= o.quantity
  BY <1>4, <1>6
<1> QED
  BY <1>2, <1>5, <1>7

\* The attempt of an arriving buy.
LEMMA BuyTakesAttempts ==
  ASSUME QueueInv, NEW e \in events, NEW f, BuyTakes(e, f),
         f.quantity \in Nat, f.debit \in Nat
  PROVE  /\ \A c \in Constraint : /\ attempts'[c].reserve = attempts[c].reserve
                                  /\ attempts'[c].quantity = attempts[c].quantity
                                  /\ attempts'[c].pending_buys = attempts[c].pending_buys
         /\ \A c \in Constraint \ {orders[e.order].attempt} : attempts'[c] = attempts[c]
         /\ attempts'[orders[e.order].attempt].filled =
              [attempts[orders[e.order].attempt].filled EXCEPT
                 ![orders[e.order].leg] = @ + f.quantity]
<1> DEFINE o == orders[e.order]
           c == o.attempt
           a1 == [attempts[c] EXCEPT !.filled[o.leg] = @ + f.quantity]
           a2 == [a1 EXCEPT !.debit[o.leg] = @ + f.debit]
<1>1. /\ c \in Constraint /\ attempts \in [Constraint -> AttemptRecord]
      /\ attempts[c] \in AttemptRecord
  BY EventFacts DEF QueueInv, QueueTypeOK
<1>2. attempts' = [attempts EXCEPT ![c] = a2]
  BY <1>1 DEF BuyTakes
<1>3. /\ a1.reserve = attempts[c].reserve /\ a1.quantity = attempts[c].quantity
      /\ a1.pending_buys = attempts[c].pending_buys
      /\ a1.filled = [attempts[c].filled EXCEPT ![o.leg] = @ + f.quantity]
      /\ DOMAIN a1 = DOMAIN attempts[c]
  BY <1>1 DEF AttemptRecord
<1>4. /\ a2.reserve = a1.reserve /\ a2.quantity = a1.quantity
      /\ a2.pending_buys = a1.pending_buys /\ a2.filled = a1.filled
  <2>1. DOMAIN attempts[c] = {"quantity", "started", "reserve", "filled", "debit",
                              "completion_orders", "pending_buys", "exit_considered"}
    BY <1>1 DEF AttemptRecord
  <2> HIDE DEF a1
  <2> QED
    BY <1>3, <2>1
<1> HIDE DEF a1, a2
<1> QED
  BY <1>1, <1>2, <1>3, <1>4

\* The arrival of a buy keeps the ledger.
LEMMA BuyArrivesKeepsLedger ==
  ASSUME QueueInv, LedgerInv, BuyArrives
  PROVE  LedgerInv'
<1>1. PICK e \in events : \E f \in BuyFills(orders[e.order]) :
           /\ BuyTakes(e, f) /\ f.quantity \in Nat /\ f.debit \in Nat
           /\ f.debit <= orders[e.order].reserve
           /\ f.quantity = 0 => f.debit = 0
  BY BuyArrivesTakes
<1>2. PICK f \in BuyFills(orders[e.order]) :
           /\ BuyTakes(e, f) /\ f.quantity \in Nat /\ f.debit \in Nat
           /\ f.debit <= orders[e.order].reserve
           /\ f.quantity = 0 => f.debit = 0
  BY <1>1
<1> DEFINE n == e.order
           o == orders[n]
           c == o.attempt
           l == o.leg
<1>3. /\ n \in 1..Len(orders) /\ orders \in Seq(OrderRecord) /\ o \in OrderRecord
      /\ c \in Constraint /\ l \in Leg /\ n \in DOMAIN orders
  BY EventFacts DEF QueueInv, QueueTypeOK
<1>4. ~o.arrived /\ ~o.sell
  BY <1>2 DEF QueueInv, QueueSound, EventSound, BuyTakes
<1>5. OrderSound(o)
  BY <1>3 DEF LedgerInv, OrdersSound
<1>6. /\ ArrivedOnly(orders', orders, n)
      /\ orders'[n].debit = f.debit /\ orders'[n].credit = 0 /\ orders'[n].reserve = o.reserve
  <2>1. orders' = BuyFilled(orders, n, f.quantity, f.debit)
    BY <1>2 DEF BuyTakes
  <2>2. o.credit = 0
    BY <1>4, <1>5 DEF OrderSound
  <2> HIDE DEF n
  <2> QED
    BY <1>2, <1>3, <2>1, <2>2, BuyFilledFields, BuyArrivedOrders
<1>7. Accounts(f.debit, 0, 0)
  <2>1. cash' = [cash EXCEPT !.spent = @ + f.debit, !.unconfirmed_debit = @ + f.debit]
    BY <1>2 DEF BuyTakes
  <2>2. cash \in Ledger
    BY DEF LedgerInv, LedgerTypeOK
  <2>3. f.debit \in Int
    BY <1>2
  <2> DEFINE x == [cash EXCEPT !.spent = @ + f.debit]
             y == [x EXCEPT !.unconfirmed_debit = @ + f.debit]
  <2>4. /\ x \in Ledger /\ x.available = cash.available
        /\ x.reserved_total = cash.reserved_total /\ x.settlement_cash = cash.settlement_cash
        /\ x.spent = cash.spent + f.debit /\ x.unconfirmed_debit = cash.unconfirmed_debit
        /\ x.exit_credit = cash.exit_credit
        /\ x.unconfirmed_credit = cash.unconfirmed_credit /\ x.exit_basis = cash.exit_basis
    BY <2>2, <2>3 DEF Ledger
  <2> HIDE DEF x
  <2>5. /\ y \in Ledger /\ y.available = cash.available
        /\ y.reserved_total = cash.reserved_total /\ y.settlement_cash = cash.settlement_cash
        /\ y.spent = cash.spent + f.debit
        /\ y.unconfirmed_debit = cash.unconfirmed_debit + f.debit
        /\ y.exit_credit = cash.exit_credit
        /\ y.unconfirmed_credit = cash.unconfirmed_credit /\ y.exit_basis = cash.exit_basis
    BY <2>3, <2>4 DEF Ledger
  <2>6. cash' = y
    BY <2>1 DEF x
  <2>7. /\ cash.exit_credit + 0 = cash.exit_credit /\ cash.exit_basis + 0 = cash.exit_basis
        /\ cash.unconfirmed_credit + 0 = cash.unconfirmed_credit
    BY <2>2 DEF Ledger
  <2> QED
    BY <2>5, <2>6, <2>7 DEF Accounts
<1>8. LotsChange(c, l, f.debit, 0)
  <2>1. lots \in Positions /\ lots[c][l] \in Seq(Lot)
    BY <1>3 DEF LedgerInv, LedgerTypeOK, Positions
  <2>2. DebitOf(lots[c][l]) \in Nat
    BY <2>1, LotsOfConcat
  <2>3. CASE f.quantity = 0
    <3>1. lots' = lots /\ f.debit = 0
      BY <1>2, <2>3 DEF BuyTakes
    <3> QED
      BY <2>1, <2>2, <3>1 DEF LotsChange, OtherLotsKept
  <2>4. CASE f.quantity # 0
    <3> DEFINE lot == [quantity |-> f.quantity, debit |-> f.debit]
    <3>1. lot \in Lot /\ lot.debit = f.debit
      BY <1>2, <2>4 DEF Lot
    <3>2. lots' = [lots EXCEPT ![c][l] = Append(@, lot)]
      BY <1>2, <2>4 DEF BuyTakes
    <3> HIDE DEF lot, c, l
    <3>3. Append(lots[c][l], lot) \in Seq(Lot) /\ Append(lots[c][l], lot) = lots[c][l] \o <<lot>>
      BY <2>1, <3>1
    <3>4. /\ lots' \in Positions /\ OtherLotsKept(lots', lots, c, l)
          /\ lots'[c][l] = lots[c][l] \o <<lot>>
      BY <1>3, <2>1, <3>2, <3>3 DEF Positions, OtherLotsKept
    <3>5. DebitOf(lots[c][l] \o <<lot>>) = DebitOf(lots[c][l]) + lot.debit
      BY <2>1, <3>1, LotAlone, LotsOfConcat
    <3>6. DebitOf(lots[c][l]) + lot.debit - 0 = DebitOf(lots[c][l]) + lot.debit
      BY <1>2, <2>2, <3>1
    <3> QED
      BY <3>1, <3>4, <3>5, <3>6 DEF LotsChange
  <2> QED
    BY <2>3, <2>4
<1>9. HoldingsKept
  BY <1>2, BuyTakesAttempts DEF HoldingsKept
<1>10. UNCHANGED <<policy, settlement_index>>
  BY <1>2 DEF BuyTakes
<1>11. /\ f.debit \in Nat /\ 0 \in Nat
       /\ orders[n].sell => f.debit = 0
       /\ ~orders[n].sell => 0 = 0 /\ f.debit <= orders[n].reserve
  BY <1>2, <1>4
<1> HIDE DEF n
<1> QED
  BY <1>3, <1>4, <1>6, <1>7, <1>8, <1>9, <1>10, <1>11, ArrivalKeepsLedger

\* What an arriving exit does.
ExitTakes(e, f) ==
  LET o == orders[e.order]
      owned == lots[o.attempt][o.leg]
  IN  /\ Takes(e) /\ ~e.response /\ o.sell
      /\ orders' = ExitFilled(orders, e.order, f.quantity, f.credit)
      /\ lots' = [lots EXCEPT ![o.attempt][o.leg] = Closed(owned, f.quantity)]
      /\ cash' = [cash EXCEPT !.exit_credit = @ + f.credit,
                              !.exit_basis = @ + Released(owned, f.quantity),
                              !.unconfirmed_credit = @ + f.credit]
      /\ UNCHANGED <<policy, attempts, settlement_index>>

\* An arriving exit sells no more than the position owns.
LEMMA ExitArrivesTakes ==
  ASSUME QueueInv, ExitArrives
  PROVE  \E e \in events : \E f \in SaleFills(orders[e.order]) :
           /\ ExitTakes(e, f) /\ f.quantity \in Nat /\ f.credit \in Nat
           /\ f.quantity <= orders[e.order].quantity
           /\ f.quantity <= QuantityOf(lots[orders[e.order].attempt][orders[e.order].leg])
<1>1. PICK e \in events : \E f \in SaleFills(orders[e.order]) : ExitTakes(e, f)
  BY DEF ExitArrives, ExitTakes, ExitFilled
<1>2. PICK f \in SaleFills(orders[e.order]) : ExitTakes(e, f)
  BY <1>1
<1> DEFINE o == orders[e.order]
<1>3. o \in OrderRecord
  BY EventFacts
<1>4. o.quantity \in Int /\ o.quantity * Payout \in Int
  BY <1>3, LifecycleConstants DEF OrderRecord
<1>5. /\ f \in [quantity : 0..o.quantity, credit : 0..(o.quantity * Payout)]
      /\ f.quantity <= QuantityOf(lots[o.attempt][o.leg])
  BY DEF SaleFills
<1>6. f.quantity \in 0..o.quantity /\ f.credit \in 0..(o.quantity * Payout)
  BY <1>5
<1>7. f.quantity \in Nat /\ f.quantity <= o.quantity
  BY <1>4, <1>6
<1>8. f.credit \in Nat
  <2>1. PICK z : z = o.quantity * Payout
    OBVIOUS
  <2>2. z \in Int /\ f.credit \in 0..z
    BY <1>4, <1>6, <2>1
  <2> QED
    BY <2>2
<1> QED
  BY <1>2, <1>5, <1>7, <1>8

\* The arrival of an exit keeps the ledger.
LEMMA ExitArrivesKeepsLedger ==
  ASSUME QueueInv, LedgerInv, ExitArrives
  PROVE  LedgerInv'
<1>1. PICK e \in events : \E f \in SaleFills(orders[e.order]) :
           /\ ExitTakes(e, f) /\ f.quantity \in Nat /\ f.credit \in Nat
           /\ f.quantity <= QuantityOf(lots[orders[e.order].attempt][orders[e.order].leg])
  BY ExitArrivesTakes
<1>2. PICK f \in SaleFills(orders[e.order]) :
           /\ ExitTakes(e, f) /\ f.quantity \in Nat /\ f.credit \in Nat
           /\ f.quantity <= QuantityOf(lots[orders[e.order].attempt][orders[e.order].leg])
  BY <1>1
<1> DEFINE n == e.order
           o == orders[n]
           c == o.attempt
           l == o.leg
<1>3. /\ n \in 1..Len(orders) /\ orders \in Seq(OrderRecord) /\ o \in OrderRecord
      /\ c \in Constraint /\ l \in Leg /\ n \in DOMAIN orders
  BY EventFacts DEF QueueInv, QueueTypeOK
<1>4. ~o.arrived /\ o.sell
  BY <1>2 DEF QueueInv, QueueSound, EventSound, ExitTakes
<1>5. OrderSound(o)
  BY <1>3 DEF LedgerInv, OrdersSound
<1>6. /\ ArrivedOnly(orders', orders, n)
      /\ orders'[n].credit = f.credit /\ orders'[n].debit = 0 /\ orders'[n].reserve = o.reserve
  <2>1. orders' = ExitFilled(orders, n, f.quantity, f.credit)
    BY <1>2 DEF ExitTakes
  <2>2. o.debit = 0
    BY <1>4, <1>5 DEF OrderSound
  <2> HIDE DEF n
  <2> QED
    BY <1>2, <1>3, <2>1, <2>2, ExitFilledFields, ExitArrivedOrders
<1>7. PICK owned, left, basis :
        /\ owned = lots[c][l] /\ left = Closed(owned, f.quantity)
        /\ basis = Released(owned, f.quantity)
  OBVIOUS
<1>8. lots \in Positions /\ owned \in Seq(Lot)
  BY <1>3, <1>7 DEF LedgerInv, LedgerTypeOK, Positions
<1>9. Divides(owned, f.quantity, left, basis)
  BY <1>2, <1>7, <1>8, ClosedLots
<1>10. Accounts(0, f.credit, basis)
  <2>1. cash' = [cash EXCEPT !.exit_credit = @ + f.credit, !.exit_basis = @ + basis,
                             !.unconfirmed_credit = @ + f.credit]
    BY <1>2, <1>7 DEF ExitTakes
  <2>2. cash \in Ledger
    BY DEF LedgerInv, LedgerTypeOK
  <2>3. f.credit \in Int /\ basis \in Int
    BY <1>2, <1>9 DEF Divides
  <2> DEFINE x == [cash EXCEPT !.exit_credit = @ + f.credit]
             y == [x EXCEPT !.exit_basis = @ + basis]
             z == [y EXCEPT !.unconfirmed_credit = @ + f.credit]
  <2>4. /\ x \in Ledger /\ x.available = cash.available
        /\ x.reserved_total = cash.reserved_total /\ x.settlement_cash = cash.settlement_cash
        /\ x.spent = cash.spent /\ x.unconfirmed_debit = cash.unconfirmed_debit
        /\ x.exit_credit = cash.exit_credit + f.credit
        /\ x.unconfirmed_credit = cash.unconfirmed_credit /\ x.exit_basis = cash.exit_basis
    BY <2>2, <2>3 DEF Ledger
  <2> HIDE DEF x
  <2>5. /\ y \in Ledger /\ y.available = cash.available
        /\ y.reserved_total = cash.reserved_total /\ y.settlement_cash = cash.settlement_cash
        /\ y.spent = cash.spent /\ y.unconfirmed_debit = cash.unconfirmed_debit
        /\ y.exit_credit = cash.exit_credit + f.credit
        /\ y.unconfirmed_credit = cash.unconfirmed_credit
        /\ y.exit_basis = cash.exit_basis + basis
    BY <2>3, <2>4 DEF Ledger
  <2> HIDE DEF y
  <2>6. /\ z \in Ledger /\ z.available = cash.available
        /\ z.reserved_total = cash.reserved_total /\ z.settlement_cash = cash.settlement_cash
        /\ z.spent = cash.spent /\ z.unconfirmed_debit = cash.unconfirmed_debit
        /\ z.exit_credit = cash.exit_credit + f.credit
        /\ z.unconfirmed_credit = cash.unconfirmed_credit + f.credit
        /\ z.exit_basis = cash.exit_basis + basis
    BY <2>3, <2>5 DEF Ledger
  <2>7. cash' = z
    BY <2>1 DEF x, y
  <2>8. /\ cash.spent + 0 = cash.spent
        /\ cash.unconfirmed_debit + 0 = cash.unconfirmed_debit
    BY <2>2 DEF Ledger
  <2> QED
    BY <2>6, <2>7, <2>8 DEF Accounts
<1>11. LotsChange(c, l, 0, basis)
  <2>1. lots' = [lots EXCEPT ![c][l] = left]
    BY <1>2, <1>7 DEF ExitTakes
  <2>2. left \in Seq(Lot)
    BY <1>9 DEF Divides
  <2>3. /\ lots' \in Positions /\ OtherLotsKept(lots', lots, c, l) /\ lots'[c][l] = left
    <3> HIDE DEF c, l
    <3> QED
      BY <1>3, <1>8, <2>1, <2>2 DEF Positions, OtherLotsKept
  <2>4. PICK x, y : x = DebitOf(owned) /\ y = DebitOf(left)
    OBVIOUS
  <2>5. x \in Nat /\ basis \in Nat /\ y = x - basis
    BY <1>9, <2>4 DEF Divides
  <2>6. y = x + 0 - basis
    BY <2>5
  <2> QED
    BY <1>7, <2>3, <2>4, <2>6 DEF LotsChange
<1>12. HoldingsKept /\ UNCHANGED <<policy, settlement_index>>
  BY <1>2 DEF HoldingsKept, ExitTakes
<1>13. /\ f.credit \in Nat /\ 0 \in Nat /\ basis \in Nat
       /\ orders[n].sell => 0 = 0
       /\ ~orders[n].sell => f.credit = 0 /\ 0 <= orders[n].reserve
  BY <1>2, <1>4, <1>9 DEF Divides
<1> HIDE DEF n
<1> QED
  BY <1>3, <1>4, <1>6, <1>10, <1>11, <1>12, <1>13, ArrivalKeepsLedger

-----------------------------------------------------------------------------
(* Responses of exits, settlements, frames and the end keep it. *)

\* What a response leaves of its order.
LEMMA RespondedFields ==
  ASSUME NEW s \in Seq(OrderRecord), NEW n \in 1..Len(s)
  PROVE  LET o == Responded(s, n)[n]
         IN  /\ o.responded /\ o.attempt = s[n].attempt /\ o.leg = s[n].leg
             /\ o.quantity = s[n].quantity /\ o.reserve = s[n].reserve
             /\ o.filled = s[n].filled /\ o.debit = s[n].debit /\ o.credit = s[n].credit
             /\ o.arrived = s[n].arrived /\ o.sell = s[n].sell
<1> DEFINE o1 == [s[n] EXCEPT !.responded = TRUE]
<1>1. s[n] \in OrderRecord /\ DOMAIN s = 1..Len(s)
  OBVIOUS
<1>2. Responded(s, n)[n] = o1
  BY <1>1 DEF Responded
<1>3. /\ o1.responded /\ o1.attempt = s[n].attempt /\ o1.leg = s[n].leg
      /\ o1.quantity = s[n].quantity /\ o1.reserve = s[n].reserve
      /\ o1.filled = s[n].filled /\ o1.debit = s[n].debit /\ o1.credit = s[n].credit
      /\ o1.arrived = s[n].arrived /\ o1.sell = s[n].sell
  BY <1>1 DEF OrderRecord
<1> HIDE DEF o1
<1> QED
  BY <1>2, <1>3

\* The response of an exit frees what it earned.
LEMMA ExitRespondsKeepsLedger ==
  ASSUME QueueInv, LedgerInv, ExitResponds
  PROVE  LedgerInv'
<1>1. PICK e \in events :
        LET o == orders[e.order]
        IN  /\ Takes(e) /\ e.response /\ o.sell
            /\ cash' = [cash EXCEPT !.unconfirmed_credit = @ - o.credit,
                                    !.available = @ + o.credit]
            /\ orders' = [orders EXCEPT ![e.order].responded = TRUE]
            /\ events' = events \ {e}
            /\ UNCHANGED <<policy, now, phase, attempts, lots, settlement_index>>
  BY DEF ExitResponds
<1> DEFINE n == e.order
           o == orders[n]
<1>2. /\ orders \in Seq(OrderRecord) /\ DOMAIN orders = 1..Len(orders) /\ n \in 1..Len(orders)
      /\ o \in OrderRecord
  BY EventFacts DEF QueueInv, QueueTypeOK
<1>3. o.arrived /\ ~o.responded /\ o.sell
  BY <1>1 DEF QueueInv, QueueSound, EventSound
<1>4. OrderSound(o)
  BY <1>2 DEF LedgerInv, OrdersSound
<1>5. PICK k : k = o.credit
  OBVIOUS
<1>6. k \in Nat /\ o.debit = 0
  BY <1>2, <1>3, <1>4, <1>5 DEF OrderRecord, OrderSound
<1>7. orders' = Responded(orders, n)
  BY <1>1 DEF Responded
<1>8. /\ orders' \in Seq(OrderRecord) /\ Len(orders') = Len(orders)
      /\ DOMAIN orders' = 1..Len(orders)
      /\ \A i \in 1..Len(orders) : i # n => orders'[i] = orders[i]
  <2> HIDE DEF n, o
  <2>1. /\ orders' \in Seq(OrderRecord) /\ Len(orders') = Len(orders)
        /\ \A i \in DOMAIN orders : i # n => orders'[i] = orders[i]
    BY <1>2, <1>7, RespondedOrders
  <2> QED
    BY <1>2, <2>1
<1>9. /\ orders'[n].responded /\ orders'[n].attempt = o.attempt /\ orders'[n].leg = o.leg
      /\ orders'[n].reserve = o.reserve /\ orders'[n].debit = o.debit
      /\ orders'[n].credit = o.credit /\ orders'[n].arrived = o.arrived
      /\ orders'[n].sell = o.sell
  <2> HIDE DEF n
  <2> QED
    BY <1>2, <1>7, RespondedFields
<1>10. ReservationsBacked'
  <2>1. \A i \in DOMAIN orders :
          /\ orders'[i].attempt = orders[i].attempt /\ orders'[i].leg = orders[i].leg
          /\ orders'[i].sell = orders[i].sell /\ orders'[i].reserve = orders[i].reserve
          /\ ~orders[i].sell => orders'[i].responded = orders[i].responded
    BY <1>2, <1>3, <1>8, <1>9
  <2>2. UNCHANGED <<policy, attempts>>
    BY <1>1
  <2> HIDE DEF n
  <2> QED
    BY <1>2, <1>8, <2>1, <2>2, BackingUnchanged DEF LedgerInv
<1>11. OrdersSound'
  <2>1. Attempted' = Attempted
    BY <1>1 DEF Attempted
  <2>2. OrderSound(orders'[n])
    BY <1>3, <1>4, <1>9 DEF OrderSound
  <2>3. \A i \in 1..Len(orders) : orders[i].attempt \in Attempted /\ OrderSound(orders[i])
    BY <1>2 DEF LedgerInv, OrdersSound
  <2>4. \A i \in 1..Len(orders) : orders'[i].attempt \in Attempted /\ OrderSound(orders'[i])
    BY <1>2, <1>8, <1>9, <2>2, <2>3
  <2> QED
    BY <1>8, <2>1, <2>4 DEF OrdersSound
<1>12. /\ SumOf(OpenDebit(orders')) = SumOf(OpenDebit(orders))
       /\ SumOf(OpenCredit(orders')) = SumOf(OpenCredit(orders)) - k
       /\ SumOf(OpenDebit(orders)) \in Nat /\ SumOf(OpenCredit(orders)) \in Nat
  <2> HIDE DEF n
  <2>1. /\ SumOf(OpenDebit(orders')) = SumOf(OpenDebit(orders)) - 0 + 0
        /\ SumOf(OpenCredit(orders')) = SumOf(OpenCredit(orders)) - k + 0
    <3>1. /\ OpenDebit(orders)[n] = 0 /\ OpenDebit(orders')[n] = 0
          /\ OpenCredit(orders)[n] = k /\ OpenCredit(orders')[n] = 0
      BY <1>2, <1>3, <1>5, <1>6, <1>8, <1>9 DEF OpenDebit, OpenCredit
    <3>2. /\ SumOf(OpenDebit(orders')) =
               SumOf(OpenDebit(orders)) - OpenDebit(orders)[n] + OpenDebit(orders')[n]
          /\ SumOf(OpenCredit(orders')) =
               SumOf(OpenCredit(orders)) - OpenCredit(orders)[n] + OpenCredit(orders')[n]
      BY <1>2, <1>8, OpenSumsChange
    <3> QED
      BY <3>1, <3>2
  <2>2. SumOf(OpenDebit(orders)) \in Nat /\ SumOf(OpenCredit(orders)) \in Nat
    BY SumsAreNatural
  <2> QED
    BY <1>6, <2>1, <2>2
<1>13. cash \in Ledger /\ CashBalanced
  BY DEF LedgerInv, LedgerTypeOK
<1> DEFINE x == [cash EXCEPT !.unconfirmed_credit = @ - k]
           y == [x EXCEPT !.available = @ + k]
<1>14. /\ x \in Ledger /\ x.available = cash.available
       /\ x.reserved_total = cash.reserved_total /\ x.settlement_cash = cash.settlement_cash
       /\ x.spent = cash.spent /\ x.unconfirmed_debit = cash.unconfirmed_debit
       /\ x.exit_credit = cash.exit_credit
       /\ x.unconfirmed_credit = cash.unconfirmed_credit - k
       /\ x.exit_basis = cash.exit_basis
  BY <1>6, <1>13 DEF Ledger
<1> HIDE DEF x
<1>15. /\ y \in Ledger /\ y.available = cash.available + k
       /\ y.reserved_total = cash.reserved_total /\ y.settlement_cash = cash.settlement_cash
       /\ y.spent = cash.spent /\ y.unconfirmed_debit = cash.unconfirmed_debit
       /\ y.exit_credit = cash.exit_credit
       /\ y.unconfirmed_credit = cash.unconfirmed_credit - k
       /\ y.exit_basis = cash.exit_basis
  BY <1>6, <1>14 DEF Ledger
<1>16. cash' = y
  BY <1>1, <1>5 DEF x
<1> HIDE DEF y
<1>17. CashBalanced'
  <2>1. Settled' = Settled
    BY <1>1 DEF Settled
  <2>2. /\ cash.available >= 0
        /\ cash.available + cash.reserved_total - cash.unconfirmed_debit + cash.unconfirmed_credit
             = Capital - cash.spent + cash.settlement_cash + cash.exit_credit
    BY <1>13 DEF CashBalanced
  <2>3. /\ cash.available \in Int /\ cash.reserved_total \in Int
        /\ cash.unconfirmed_debit \in Int /\ cash.unconfirmed_credit \in Int
        /\ cash.spent \in Int /\ cash.settlement_cash \in Int /\ cash.exit_credit \in Int
        /\ k \in Nat /\ Capital \in Nat
    BY <1>6, <1>13, LifecycleConstants DEF Ledger
  <2>4. y.available >= 0
    BY <1>15, <2>2, <2>3
  <2>5. y.available + y.reserved_total - y.unconfirmed_debit + y.unconfirmed_credit
          = Capital - y.spent + y.settlement_cash + y.exit_credit
    BY <1>15, <2>2, <2>3
  <2>6. /\ y.reserved_total = SumOf(Reserved(attempts))
        /\ y.unconfirmed_debit = SumOf(OpenDebit(orders'))
        /\ y.unconfirmed_credit = SumOf(OpenCredit(orders'))
        /\ Settled = {} => y.spent = y.exit_basis + SumOf(Costs(lots))
    BY <1>12, <1>13, <1>15 DEF CashBalanced
  <2>7. attempts' = attempts /\ lots' = lots
    BY <1>1
  <2> QED
    BY <1>16, <2>1, <2>4, <2>5, <2>6, <2>7 DEF CashBalanced
<1>18. LedgerTypeOK'
  BY <1>1, <1>15, <1>16 DEF LedgerInv, LedgerTypeOK
<1> QED
  BY <1>10, <1>11, <1>17, <1>18 DEF LedgerInv

\* Frames and the end change none of it.
LEMMA UnchangedLedger ==
  ASSUME LedgerInv, UNCHANGED <<policy, attempts, orders, lots, settlement_index, cash>>
  PROVE  LedgerInv'
<1>1. LedgerTypeOK'
  BY DEF LedgerInv, LedgerTypeOK
<1>2. CashBalanced'
  BY DEF LedgerInv, CashBalanced, Settled
<1>3. OrdersSound'
  BY DEF LedgerInv, OrdersSound, Attempted
<1>4. ReservationsBacked'
  BY DEF LedgerInv, ReservationsBacked, OpenBuys
<1> QED
  BY <1>1, <1>2, <1>3, <1>4 DEF LedgerInv

\* A settlement pays every open lot that won.
LEMMA SettleKeepsLedger ==
  ASSUME QueueInv, LedgerInv, Settle
  PROVE  LedgerInv'
<1> DEFINE s == NextSettlement
           paid == {cl \in Constraint \X Leg : Pays(cl[1], cl[2], s)}
           quantities == [cl \in paid |-> QuantityOf(lots[cl[1]][cl[2]])]
<1>1. PICK payout : payout = SumOf(quantities) * Payout
  OBVIOUS
<1>2. /\ settlement_index' = settlement_index + 1
      /\ lots' = [c \in Constraint |-> [l \in Leg |->
                    IF LegMarket[c][l] = s.market THEN <<>> ELSE lots[c][l]]]
      /\ cash' = [cash EXCEPT !.settlement_cash = @ + payout, !.available = @ + payout]
      /\ UNCHANGED <<policy, attempts, orders>>
  BY <1>1 DEF Settle
<1>3. lots \in Positions
  BY DEF LedgerInv, LedgerTypeOK
<1>4. payout \in Nat
  <2>1. IsFiniteSet(paid)
    <3>1. paid \subseteq Constraint \X Leg
      OBVIOUS
    <3> HIDE DEF paid
    <3> QED
      BY <3>1, LegsAreFinite, FS_Subset
  <2>2. \A cl \in paid : QuantityOf(lots[cl[1]][cl[2]]) \in Nat
    <3> TAKE cl \in paid
    <3>1. lots[cl[1]][cl[2]] \in Seq(Lot)
      BY <1>3 DEF Positions
    <3> QED
      BY <3>1, LotsOfConcat
  <2> HIDE DEF paid
  <2>3. quantities \in [paid -> Nat]
    BY <2>2
  <2> HIDE DEF quantities
  <2>4. SumOf(quantities) \in Nat
    BY <2>1, <2>3, SumIsNatural
  <2> QED
    BY <1>1, <2>4, LifecycleConstants
<1>5. lots' \in Positions
  <2>1. \A c \in Constraint, l \in Leg : lots[c][l] \in Seq(Lot) /\ <<>> \in Seq(Lot)
    BY <1>3 DEF Positions
  <2> HIDE DEF s
  <2> QED
    BY <1>2, <2>1 DEF Positions
<1>6. Settled' # {}
  <2>1. settlement_index' \in 1..settlement_index'
    BY <1>2 DEF QueueInv, QueueTypeOK
  <2> QED
    BY <2>1 DEF Settled
<1>7. cash \in Ledger /\ CashBalanced
  BY DEF LedgerInv, LedgerTypeOK
<1> DEFINE x == [cash EXCEPT !.settlement_cash = @ + payout]
           y == [x EXCEPT !.available = @ + payout]
<1>8. /\ x \in Ledger /\ x.available = cash.available
      /\ x.reserved_total = cash.reserved_total
      /\ x.settlement_cash = cash.settlement_cash + payout
      /\ x.spent = cash.spent /\ x.unconfirmed_debit = cash.unconfirmed_debit
      /\ x.exit_credit = cash.exit_credit /\ x.unconfirmed_credit = cash.unconfirmed_credit
  BY <1>4, <1>7 DEF Ledger
<1> HIDE DEF x
<1>9. /\ y \in Ledger /\ y.available = cash.available + payout
      /\ y.reserved_total = cash.reserved_total
      /\ y.settlement_cash = cash.settlement_cash + payout
      /\ y.spent = cash.spent /\ y.unconfirmed_debit = cash.unconfirmed_debit
      /\ y.exit_credit = cash.exit_credit /\ y.unconfirmed_credit = cash.unconfirmed_credit
  BY <1>4, <1>8 DEF Ledger
<1>10. cash' = y
  BY <1>2 DEF x
<1> HIDE DEF y, s, paid, quantities
<1>11. CashBalanced'
  <2>1. /\ cash.available >= 0
        /\ cash.available + cash.reserved_total - cash.unconfirmed_debit + cash.unconfirmed_credit
             = Capital - cash.spent + cash.settlement_cash + cash.exit_credit
    BY <1>7 DEF CashBalanced
  <2>2. /\ cash.available \in Int /\ cash.reserved_total \in Int
        /\ cash.unconfirmed_debit \in Int /\ cash.unconfirmed_credit \in Int
        /\ cash.spent \in Int /\ cash.settlement_cash \in Int /\ cash.exit_credit \in Int
        /\ Capital \in Nat
    BY <1>7, LifecycleConstants DEF Ledger
  <2>3. y.available >= 0
    BY <1>4, <1>9, <2>1, <2>2
  <2>4. y.available + y.reserved_total - y.unconfirmed_debit + y.unconfirmed_credit
          = Capital - y.spent + y.settlement_cash + y.exit_credit
    BY <1>4, <1>9, <2>1, <2>2
  <2>5. /\ y.reserved_total = SumOf(Reserved(attempts))
        /\ y.unconfirmed_debit = SumOf(OpenDebit(orders))
        /\ y.unconfirmed_credit = SumOf(OpenCredit(orders))
    BY <1>7, <1>9 DEF CashBalanced
  <2>6. attempts' = attempts /\ orders' = orders
    BY <1>2
  <2> QED
    BY <1>6, <1>10, <2>3, <2>4, <2>5, <2>6 DEF CashBalanced
<1>12. LedgerTypeOK'
  BY <1>2, <1>5, <1>9, <1>10 DEF LedgerInv, LedgerTypeOK
<1>13. OrdersSound'
  BY <1>2 DEF LedgerInv, OrdersSound, Attempted
<1>14. ReservationsBacked'
  BY <1>2 DEF LedgerInv, ReservationsBacked, OpenBuys
<1> QED
  BY <1>11, <1>12, <1>13, <1>14 DEF LedgerInv

-----------------------------------------------------------------------------
(* Decisions keep it. *)

\* How many orders a decision submits.
Sent == IF policy.sequential THEN 1 ELSE 2

\* The orders of a decision.
LEMMA DecideOrders ==
  ASSUME QueueInv, NEW c \in Constraint, NEW q \in 1..QuantityCap,
         NEW r \in [Leg -> Reserves], Decide(c, q, r)
  PROVE  /\ orders' \in Seq(OrderRecord) /\ Len(orders') = Len(orders) + Sent
         /\ \A i \in 1..Len(orders) : orders'[i] = orders[i]
         /\ \A j \in 1..Sent : orders'[Len(orders) + j] = Order(c, j, q, r[j], FALSE)
<1> DEFINE sent == IF policy.sequential THEN <<1>> ELSE <<1, 2>>
           new == [i \in DOMAIN sent |-> Order(c, sent[i], q, r[sent[i]], FALSE)]
<1>1. orders' = orders \o new /\ orders \in Seq(OrderRecord)
  BY DEF Decide, QueueInv, QueueTypeOK
<1>2. \A j \in Leg : Order(c, j, q, r[j], FALSE) \in OrderRecord
  <2> TAKE j \in Leg
  <2>1. r[j] \in Nat
    BY LifecycleConstants
  <2>2. q \in Int
    OBVIOUS
  <2> QED
    BY <2>1, <2>2 DEF Order, OrderRecord
<1>3. DOMAIN sent = 1..Sent /\ Sent \in {1, 2} /\ \A i \in 1..Sent : sent[i] = i /\ i \in Leg
  <2>1. CASE policy.sequential
    BY <2>1 DEF Sent, Leg
  <2>2. CASE ~policy.sequential
    BY <2>2 DEF Sent, Leg
  <2> QED
    BY <2>1, <2>2
<1> HIDE DEF sent
<1>4. new \in Seq(OrderRecord) /\ Len(new) = Sent
      /\ \A j \in 1..Sent : new[j] = Order(c, j, q, r[j], FALSE)
  <2>1. new = [i \in 1..Sent |-> Order(c, sent[i], q, r[sent[i]], FALSE)]
    BY <1>3
  <2>2. \A j \in 1..Sent : new[j] = Order(c, j, q, r[j], FALSE)
    BY <1>3, <2>1
  <2>3. DOMAIN new = 1..Sent /\ new = [i \in 1..Sent |-> new[i]]
    BY <2>1
  <2> HIDE DEF new
  <2>4. new \in [1..Sent -> OrderRecord]
    BY <1>2, <1>3, <2>2, <2>3
  <2>5. Sent \in Nat
    BY <1>3
  <2>6. new \in Seq(OrderRecord)
    BY <2>4, <2>5, SeqDef
  <2>7. Len(new) = Sent
    BY <2>3, <2>5, <2>6
  <2> QED
    BY <2>2, <2>6, <2>7
<1> HIDE DEF new
<1>5. PICK m : m = Len(orders) /\ m \in Nat
  BY <1>1
<1>6. PICK k : k = Sent /\ k \in Nat
  BY <1>3
<1> DEFINE joined == orders \o new
<1>7. /\ joined \in Seq(OrderRecord) /\ Len(joined) = m + k
      /\ \A i \in 1..m + k : joined[i] = IF i <= m THEN orders[i] ELSE new[i - m]
  BY <1>1, <1>4, <1>5, <1>6, ConcatProperties
<1> HIDE DEF joined
<1>8. \A i \in 1..m : joined[i] = orders[i]
  BY <1>5, <1>6, <1>7
<1>9. \A j \in 1..k : joined[m + j] = new[j]
  <2> TAKE j \in 1..k
  <2>1. m + j \in 1..m + k /\ ~(m + j <= m) /\ (m + j) - m = j
    BY <1>5, <1>6
  <2> QED
    BY <1>7, <2>1
<1>10. orders' = joined
  BY <1>1 DEF joined
<1> QED
  BY <1>4, <1>5, <1>6, <1>7, <1>8, <1>9, <1>10

\* What a decision reserves.
LEMMA DecideHoldings ==
  ASSUME QueueInv, NEW c \in Constraint, NEW q \in 1..QuantityCap,
         NEW r \in [Leg -> Reserves], Decide(c, q, r)
  PROVE  /\ attempts'[c].reserve = r /\ attempts'[c].pending_buys = Sent
         /\ \A d \in Constraint \ {c} : attempts'[d] = attempts[d]
         /\ attempts'[c].filled[1] = 0 /\ attempts'[c].filled[2] = 0
<1> DEFINE k == Len(IF policy.sequential THEN <<1>> ELSE <<1, 2>>)
           a == NoAttempt
           a1 == [a EXCEPT !.quantity = q]
           a2 == [a1 EXCEPT !.started = now]
           a3 == [a2 EXCEPT !.reserve = r]
           a4 == [a3 EXCEPT !.pending_buys = k]
           fields == {"quantity", "started", "reserve", "filled", "debit",
                      "completion_orders", "pending_buys", "exit_considered"}
<1>1. k = Sent
  BY DEF Sent
<1>2. attempts' = [attempts EXCEPT ![c] = a4] /\ attempts \in [Constraint -> AttemptRecord]
  BY DEF Decide, QueueInv, QueueTypeOK
<1>3. DOMAIN a = fields
  BY DEF NoAttempt
<1> HIDE DEF a
<1>4. DOMAIN a1 = fields
  BY <1>3
<1> HIDE DEF a1
<1>5. DOMAIN a2 = fields
  BY <1>4
<1> HIDE DEF a2
<1>6. DOMAIN a3 = fields /\ a3.reserve = r
  BY <1>5
<1> HIDE DEF a3, k
<1>7. a4.reserve = r /\ a4.pending_buys = k
  BY <1>6
<1> HIDE DEF a4
<1> QED
  BY <1>1, <1>2, <1>7, DecideAttempts

\* An attempt that has not been made holds nothing.
LEMMA NothingHeld ==
  ASSUME QueueInv, LedgerInv, NEW c \in Constraint, c \notin Attempted
  PROVE  /\ \A i \in DOMAIN orders : orders[i].attempt # c
         /\ attempts[c].reserve[1] = 0 /\ attempts[c].reserve[2] = 0
<1>1. \A i \in DOMAIN orders : orders[i].attempt # c
  BY DEF LedgerInv, OrdersSound
<1>2. OpenBuys(c) = {}
  BY <1>1 DEF OpenBuys
<1> QED
  BY <1>1, <1>2 DEF LedgerInv, ReservationsBacked, Leg

\* A decision reserves no more than is free.
LEMMA DecideKeepsLedger ==
  ASSUME QueueInv, LedgerInv, NEW c \in Constraint, NEW q \in 1..QuantityCap,
         NEW r \in [Leg -> Reserves], Decide(c, q, r)
  PROVE  LedgerInv'
<1>1. /\ c \notin Attempted /\ r[1] + r[2] <= cash.available
      /\ cash' = [cash EXCEPT !.available = @ - r[1] - r[2],
                              !.reserved_total = @ + r[1] + r[2]]
      /\ UNCHANGED <<policy, lots, settlement_index>>
  BY DEF Decide
<1>2. r \in [Leg -> Nat] /\ r[1] \in Nat /\ r[2] \in Nat
  <2>1. \A l \in Leg : r[l] \in Nat
    <3> TAKE l \in Leg
    <3>1. r[l] \in Reserves
      OBVIOUS
    <3> QED
      BY <3>1, LifecycleConstants
  <2> QED
    BY <2>1 DEF Leg
<1>3. /\ \A i \in DOMAIN orders : orders[i].attempt # c
      /\ attempts[c].reserve[1] = 0 /\ attempts[c].reserve[2] = 0
  BY <1>1, NothingHeld
<1>4. /\ attempts'[c].reserve = r
      /\ \A d \in Constraint \ {c} : attempts'[d] = attempts[d]
  BY DecideHoldings
<1>5. PICK m, k : /\ m = Len(orders) /\ k = Sent /\ m \in Nat /\ k \in {1, 2}
                  /\ policy.sequential => k = 1
                  /\ ~policy.sequential => k = 2
  BY DEF QueueInv, QueueTypeOK, Sent
<1>6. /\ orders \in Seq(OrderRecord) /\ DOMAIN orders = 1..m /\ Len(orders) = m
      /\ orders' \in Seq(OrderRecord) /\ Len(orders') = m + k /\ DOMAIN orders' = 1..(m + k)
      /\ \A i \in 1..m : orders'[i] = orders[i]
      /\ \A j \in 1..k : orders'[m + j] = Order(c, j, q, r[j], FALSE)
  <2>1. orders \in Seq(OrderRecord)
    BY DEF QueueInv, QueueTypeOK
  <2>2. /\ orders' \in Seq(OrderRecord) /\ Len(orders') = Len(orders) + Sent
        /\ \A i \in 1..Len(orders) : orders'[i] = orders[i]
        /\ \A j \in 1..Sent : orders'[Len(orders) + j] = Order(c, j, q, r[j], FALSE)
    BY DecideOrders
  <2>3. /\ Len(orders) = m /\ Len(orders') = m + k
        /\ \A i \in 1..m : orders'[i] = orders[i]
        /\ \A j \in 1..k : orders'[m + j] = Order(c, j, q, r[j], FALSE)
    BY <1>5, <2>2, Zenon
  <2>4. DOMAIN orders = 1..Len(orders) /\ DOMAIN orders' = 1..Len(orders')
    BY <2>1, <2>2
  <2> QED
    BY <2>1, <2>2, <2>3, <2>4, Zenon
<1>7. \A j \in 1..k :
        /\ orders'[m + j].attempt = c /\ orders'[m + j].leg = j
        /\ orders'[m + j].reserve = r[j] /\ r[j] \in Nat
        /\ orders'[m + j].debit = 0 /\ orders'[m + j].credit = 0 /\ ~orders'[m + j].sell
        /\ ~orders'[m + j].arrived /\ ~orders'[m + j].responded
  <2> TAKE j \in 1..k
  <2>1. PICK o : o = orders'[m + j] /\ o = Order(c, j, q, r[j], FALSE)
    BY <1>6
  <2>2. r[j] \in Nat
    <3>1. j = 1 \/ j = 2
      BY <1>5
    <3> QED
      BY <1>2, <3>1
  <2>3. /\ o.attempt = c /\ o.leg = j /\ o.reserve = r[j]
        /\ o.debit = 0 /\ o.credit = 0 /\ ~o.sell /\ ~o.arrived /\ ~o.responded
    BY <2>1 DEF Order
  <2> QED
    BY <2>1, <2>2, <2>3
<1>8. \A i \in 1..(m + k) : i \notin 1..m => \E j \in 1..k : i = m + j
  <2> SUFFICES ASSUME NEW i \in 1..(m + k), i \notin 1..m  PROVE \E j \in 1..k : i = m + j
    OBVIOUS
  <2>1. i - m \in 1..k /\ i = m + (i - m)
    BY <1>5
  <2> QED
    BY <2>1
<1>9. \A j \in 1..k : m + j \in 1..(m + k) /\ m + j \notin 1..m /\ j \in Leg
  BY <1>5 DEF Leg
<1>10. LedgerTypeOK'
  <2>1. cash \in Ledger
    BY DEF LedgerInv, LedgerTypeOK
  <2>2. cash' \in Ledger
    <3> DEFINE x == [cash EXCEPT !.available = @ - r[1] - r[2]]
    <3>1. x \in Ledger
      BY <1>2, <2>1 DEF Ledger
    <3>2. cash' = [x EXCEPT !.reserved_total = @ + r[1] + r[2]]
      BY <1>1
    <3> HIDE DEF x
    <3> QED
      BY <1>2, <3>1, <3>2 DEF Ledger
  <2>3. \A d \in Constraint : attempts'[d].reserve \in [Leg -> Nat]
    BY <1>2, <1>4 DEF LedgerInv, LedgerTypeOK
  <2> QED
    BY <1>1, <2>2, <2>3 DEF LedgerInv, LedgerTypeOK
<1>11. OrdersSound'
  <2>1. Attempted \subseteq Attempted' /\ c \in Attempted'
    BY DecideAttempts
  <2>2. \A i \in 1..m : orders[i].attempt \in Attempted /\ OrderSound(orders[i])
    BY <1>6 DEF LedgerInv, OrdersSound
  <2>3. \A j \in 1..k : orders'[m + j].attempt = c /\ OrderSound(orders'[m + j])
    BY <1>7 DEF OrderSound
  <2>4. \A i \in 1..(m + k) : orders'[i].attempt \in Attempted' /\ OrderSound(orders'[i])
    <3> TAKE i \in 1..(m + k)
    <3>1. CASE i \in 1..m
      BY <1>6, <2>1, <2>2, <3>1
    <3>2. CASE i \notin 1..m
      BY <1>8, <2>1, <2>3, <3>2
    <3> QED
      BY <3>1, <3>2
  <2> QED
    BY <1>6, <2>4 DEF OrdersSound
<1>12. ReservationsBacked'
  <2>1. \A d \in Constraint \ {c} : OpenBuys(d)' = OpenBuys(d)
    <3> SUFFICES ASSUME NEW d \in Constraint \ {c}, NEW i
                 PROVE  i \in OpenBuys(d)' <=> i \in OpenBuys(d)
      OBVIOUS
    <3>1. CASE i \in 1..m
      <4>1. orders'[i] = orders[i] /\ i \in DOMAIN orders /\ i \in DOMAIN orders'
        BY <1>5, <1>6, <3>1
      <4> QED
        BY <4>1 DEF OpenBuys
    <3>2. CASE i \notin 1..m
      <4>1. i \notin OpenBuys(d)
        BY <1>6, <3>2 DEF OpenBuys
      <4>2. i \in 1..(m + k) => orders'[i].attempt = c
        BY <1>7, <1>8, <3>2
      <4> QED
        BY <1>6, <4>1, <4>2 DEF OpenBuys
    <3> QED
      BY <3>1, <3>2
  <2>2. \A i : i \in OpenBuys(c)' <=> \E j \in 1..k : i = m + j
    <3> SUFFICES ASSUME NEW i  PROVE i \in OpenBuys(c)' <=> \E j \in 1..k : i = m + j
      OBVIOUS
    <3>1. ASSUME i \in OpenBuys(c)'  PROVE \E j \in 1..k : i = m + j
      <4>1. i \in 1..(m + k) /\ orders'[i].attempt = c
        BY <1>6, <3>1 DEF OpenBuys
      <4>2. i \notin 1..m
        BY <1>3, <1>6, <4>1
      <4> QED
        BY <1>8, <4>1, <4>2
    <3>2. ASSUME NEW j \in 1..k, i = m + j  PROVE i \in OpenBuys(c)'
      BY <1>6, <1>7, <1>9, <3>2 DEF OpenBuys
    <3> QED
      BY <3>1, <3>2
  <2>3. ASSUME NEW d \in Constraint \ {c}
        PROVE  /\ \A i, j \in OpenBuys(d)' :
                    policy'.sequential \/ orders'[i].leg = orders'[j].leg => i = j
               /\ \A i \in OpenBuys(d)' : attempts'[d].reserve[orders'[i].leg] = orders'[i].reserve
               /\ \A l \in Leg : attempts'[d].reserve[l] # 0 =>
                    \E i \in OpenBuys(d)' : orders'[i].leg = l \/ (policy'.sequential /\ l = 2)
    <3>1. /\ attempts'[d] = attempts[d] /\ policy' = policy /\ OpenBuys(d)' = OpenBuys(d)
          /\ \A i \in OpenBuys(d) : orders'[i] = orders[i]
      <4>1. OpenBuys(d) \subseteq 1..m
        BY <1>6 DEF OpenBuys
      <4> QED
        BY <1>1, <1>4, <1>6, <2>1, <2>3, <4>1
    <3> QED
      BY <3>1 DEF LedgerInv, ReservationsBacked
  <2>4. /\ \A i, j \in OpenBuys(c)' :
             policy'.sequential \/ orders'[i].leg = orders'[j].leg => i = j
        /\ \A i \in OpenBuys(c)' : attempts'[c].reserve[orders'[i].leg] = orders'[i].reserve
        /\ \A l \in Leg : attempts'[c].reserve[l] # 0 =>
             \E i \in OpenBuys(c)' : orders'[i].leg = l \/ (policy'.sequential /\ l = 2)
    <3>1. policy' = policy
      BY <1>1
    <3>2. ASSUME NEW i \in OpenBuys(c)', NEW j \in OpenBuys(c)',
                 policy'.sequential \/ orders'[i].leg = orders'[j].leg
          PROVE  i = j
      <4>1. PICK x \in 1..k, y \in 1..k : i = m + x /\ j = m + y
        BY <2>2, <3>2
      <4>2. policy.sequential => x = 1 /\ y = 1
        BY <1>5
      <4>3. orders'[i].leg = x /\ orders'[j].leg = y
        BY <1>7, <4>1
      <4> QED
        BY <3>1, <3>2, <4>1, <4>2, <4>3
    <3>3. \A i \in OpenBuys(c)' : attempts'[c].reserve[orders'[i].leg] = orders'[i].reserve
      BY <1>4, <1>7, <2>2
    <3>4. ASSUME NEW l \in Leg
          PROVE  \E i \in OpenBuys(c)' : orders'[i].leg = l \/ (policy'.sequential /\ l = 2)
      <4>1. CASE l \in 1..k
        <5>1. m + l \in OpenBuys(c)' /\ orders'[m + l].leg = l
          BY <1>7, <2>2, <4>1
        <5> QED
          BY <5>1
      <4>2. CASE l \notin 1..k
        <5>1. l = 2 /\ policy.sequential /\ 1 \in 1..k
          BY <1>5, <4>2 DEF Leg
        <5>2. m + 1 \in OpenBuys(c)'
          BY <2>2, <5>1
        <5> QED
          BY <3>1, <5>1, <5>2
      <4> QED
        BY <4>1, <4>2
    <3> QED
      BY <3>2, <3>3, <3>4
  <2> QED
    BY <2>3, <2>4 DEF ReservationsBacked
<1>13. /\ SumOf(Reserved(attempts')) = SumOf(Reserved(attempts)) + r[1] + r[2]
       /\ SumOf(Reserved(attempts)) \in Nat
  <2>1. /\ \A d \in Constraint : attempts[d].reserve \in [Leg -> Nat]
        /\ \A d \in Constraint : attempts'[d].reserve \in [Leg -> Nat]
    BY <1>10 DEF LedgerInv, LedgerTypeOK
  <2>2. \A d \in Constraint \ {c} : attempts'[d].reserve = attempts[d].reserve
    BY <1>4
  <2>3. /\ SumOf(Reserved(attempts)) \in Nat
        /\ SumOf(Reserved(attempts')) = SumOf(Reserved(attempts)) - attempts[c].reserve[1]
             - attempts[c].reserve[2] + attempts'[c].reserve[1] + attempts'[c].reserve[2]
    BY <2>1, <2>2, ReservedChanges
  <2>4. SumOf(Reserved(attempts')) = SumOf(Reserved(attempts)) - 0 - 0 + r[1] + r[2]
    BY <1>3, <1>4, <2>3
  <2> QED
    BY <1>2, <2>3, <2>4
<1>14. /\ SumOf(OpenDebit(orders')) = SumOf(OpenDebit(orders))
       /\ SumOf(OpenCredit(orders')) = SumOf(OpenCredit(orders))
  <2>1. \A i \in 1..Len(orders') : i > Len(orders) => orders'[i].debit = 0 /\ orders'[i].credit = 0
    <3> SUFFICES ASSUME NEW i \in 1..(m + k), i > m
                 PROVE  orders'[i].debit = 0 /\ orders'[i].credit = 0
      BY <1>6
    <3>1. i \notin 1..m
      BY <1>5
    <3> QED
      BY <1>7, <1>8, <3>1
  <2>2. Len(orders') >= Len(orders) /\ \A i \in 1..Len(orders) : orders'[i] = orders[i]
    BY <1>5, <1>6
  <2> QED
    BY <1>6, <2>1, <2>2, OpenSumsExtend
<1>15. CashBalanced'
  <2>1. Settled' = Settled /\ lots' = lots
    BY <1>1 DEF Settled
  <2>2. cash \in Ledger /\ CashBalanced
    BY DEF LedgerInv, LedgerTypeOK
  <2> DEFINE x == [cash EXCEPT !.available = @ - r[1] - r[2]]
             y == [x EXCEPT !.reserved_total = @ + r[1] + r[2]]
  <2>3. /\ x \in Ledger /\ x.available = cash.available - r[1] - r[2]
        /\ x.reserved_total = cash.reserved_total /\ x.settlement_cash = cash.settlement_cash
        /\ x.spent = cash.spent /\ x.unconfirmed_debit = cash.unconfirmed_debit
        /\ x.exit_credit = cash.exit_credit
        /\ x.unconfirmed_credit = cash.unconfirmed_credit /\ x.exit_basis = cash.exit_basis
    BY <1>2, <2>2 DEF Ledger
  <2> HIDE DEF x
  <2>4. /\ y.available = cash.available - r[1] - r[2]
        /\ y.reserved_total = cash.reserved_total + r[1] + r[2]
        /\ y.settlement_cash = cash.settlement_cash
        /\ y.spent = cash.spent /\ y.unconfirmed_debit = cash.unconfirmed_debit
        /\ y.exit_credit = cash.exit_credit
        /\ y.unconfirmed_credit = cash.unconfirmed_credit /\ y.exit_basis = cash.exit_basis
    BY <2>3 DEF Ledger
  <2>5. cash' = y
    BY <1>1 DEF x
  <2> HIDE DEF y
  <2>6. /\ cash.available >= 0
        /\ cash.available + cash.reserved_total - cash.unconfirmed_debit + cash.unconfirmed_credit
             = Capital - cash.spent + cash.settlement_cash + cash.exit_credit
    BY <2>2 DEF CashBalanced
  <2>7. /\ cash.available \in Int /\ cash.reserved_total \in Int
        /\ cash.unconfirmed_debit \in Int /\ cash.unconfirmed_credit \in Int
        /\ cash.spent \in Int /\ cash.settlement_cash \in Int /\ cash.exit_credit \in Int
        /\ Capital \in Nat
    BY <2>2, LifecycleConstants DEF Ledger
  <2>8. y.available >= 0
    BY <1>1, <1>2, <2>4, <2>7
  <2>9. y.available + y.reserved_total - y.unconfirmed_debit + y.unconfirmed_credit
          = Capital - y.spent + y.settlement_cash + y.exit_credit
    BY <1>2, <2>4, <2>6, <2>7
  <2>10. /\ y.reserved_total = SumOf(Reserved(attempts'))
         /\ y.unconfirmed_debit = SumOf(OpenDebit(orders'))
         /\ y.unconfirmed_credit = SumOf(OpenCredit(orders'))
         /\ Settled = {} => y.spent = y.exit_basis + SumOf(Costs(lots))
    BY <1>13, <1>14, <2>2, <2>4 DEF CashBalanced
  <2> QED
    BY <2>1, <2>5, <2>8, <2>9, <2>10 DEF CashBalanced
<1> QED
  BY <1>10, <1>11, <1>12, <1>15 DEF LedgerInv

-----------------------------------------------------------------------------
(* The response of a buy keeps it. *)

\* An exit offers no more than the leg lacks a match for and still owns.
ExitOffered(o, c, a) ==
  \E leg \in Leg : \E q \in Nat \ {0} :
    /\ o = Order(c, leg, q, 0, TRUE)
    /\ q <= QuantityOf(lots[c][leg]) /\ q <= Unmatched(a, leg)

\* consider_exit() touches no reservation, and offers one exit at most.
Considered(done, c, work) ==
  /\ done.attempt.reserve = work.attempt.reserve /\ done.attempt.filled = work.attempt.filled
  /\ done.attempt.quantity = work.attempt.quantity
  /\ done.attempt.pending_buys = work.attempt.pending_buys
  /\ done.cash = work.cash
  /\ \/ done.orders = work.orders
     \/ \E o : ExitOffered(o, c, work.attempt) /\ done.orders = Append(work.orders, o)

\* An amount d of the reservations is free again.
Freed(new, old, d) ==
  /\ new \in Ledger
  /\ new.available = old.available + d /\ new.reserved_total = old.reserved_total - d
  /\ new.spent = old.spent /\ new.unconfirmed_debit = old.unconfirmed_debit
  /\ new.unconfirmed_credit = old.unconfirmed_credit
  /\ new.settlement_cash = old.settlement_cash
  /\ new.exit_credit = old.exit_credit /\ new.exit_basis = old.exit_basis

\* complete_second() frees the second leg, or reserves what another order for
\* it needs.
Completed(done, c, work) ==
  /\ done.attempt.filled = work.attempt.filled
  /\ done.attempt.quantity = work.attempt.quantity
  /\ \E x \in Nat :
       /\ done.attempt.reserve = [work.attempt.reserve EXCEPT ![2] = x]
       /\ Freed(done.cash, work.cash, work.attempt.reserve[2] - x)
       /\ x = 0 \/ x <= work.cash.available + work.attempt.reserve[2]
       /\ \/ x = 0 /\ done.orders = work.orders
          \/ x = 0 /\ \E o : ExitOffered(o, c, work.attempt) /\ done.orders = Append(work.orders, o)
          \/ \E q \in Nat : done.orders = Append(work.orders, Order(c, 2, q, x, FALSE))

\* Considering an exit moves no money.
LEMMA ConsiderExitBooks ==
  ASSUME QueueInv, LedgerInv, NEW c \in Constraint, NEW work, IsWork(work),
         work.attempt \in AttemptRecord, NEW time \in Nat,
         NEW done \in ConsiderExit(c, work, time)
  PROVE  Considered(done, c, work)
<1> DEFINE considered == [work EXCEPT !.attempt.exit_considered = policy.exit # "none"]
           leg == IF work.attempt.filled[1] > work.attempt.filled[2] THEN 1 ELSE 2
           largest == Smaller(Unmatched(work.attempt, leg), QuantityOf(lots[c][leg]))
<1>1. /\ IsWork(considered)
      /\ considered.orders = work.orders /\ considered.cash = work.cash
      /\ \E x \in BOOLEAN : considered.attempt = [work.attempt EXCEPT !.exit_considered = x]
  BY DEF IsWork
<1>2. /\ considered.attempt.filled = work.attempt.filled
      /\ considered.attempt.quantity = work.attempt.quantity
      /\ considered.attempt.reserve = work.attempt.reserve
      /\ considered.attempt.pending_buys = work.attempt.pending_buys
  <2> HIDE DEF considered
  <2>1. PICK x \in BOOLEAN : considered.attempt = [work.attempt EXCEPT !.exit_considered = x]
    BY <1>1
  <2> QED
    BY <2>1 DEF AttemptRecord
<1>3. \/ done = considered
      \/ \E q \in 1..largest :
           done = Submitted(considered, Order(c, leg, q, 0, TRUE), time + policy.exit_latency)
  <2> HIDE DEF considered, largest
  <2>1. \A b \in BOOLEAN : \A q \in IF b THEN 1..largest ELSE {} : q \in 1..largest
    OBVIOUS
  <2> QED
    BY <2>1 DEF ConsiderExit, considered, largest
<1> HIDE DEF considered
<1>4. CASE done = considered
  BY <1>1, <1>2, <1>4 DEF Considered
<1>5. ASSUME NEW q \in 1..largest,
             done = Submitted(considered, Order(c, leg, q, 0, TRUE), time + policy.exit_latency)
      PROVE  Considered(done, c, work)
  <2> DEFINE o == Order(c, leg, q, 0, TRUE)
  <2>1. ExitOffered(o, c, work.attempt)
    <3>1. leg \in Leg /\ 3 - leg \in Leg
      BY DEF Leg
    <3>2. Unmatched(work.attempt, leg) \in Int
      <4>1. work.attempt.filled \in [Leg -> Nat]
        BY DEF AttemptRecord
      <4> QED
        BY <3>1, <4>1 DEF Unmatched
    <3>3. QuantityOf(lots[c][leg]) \in Nat
      <4>1. lots[c][leg] \in Seq(Lot)
        BY <3>1 DEF LedgerInv, LedgerTypeOK, Positions
      <4> QED
        BY <4>1, LotsOfConcat
    <3>4. PICK u, v : u = Unmatched(work.attempt, leg) /\ v = QuantityOf(lots[c][leg])
      OBVIOUS
    <3>5. q \in 1..Smaller(u, v) /\ u \in Int /\ v \in Int
      BY <3>2, <3>3, <3>4
    <3>6. q \in Nat \ {0} /\ q <= u /\ q <= v
      BY <3>5 DEF Smaller
    <3> QED
      BY <3>1, <3>4, <3>6 DEF ExitOffered
  <2> HIDE DEF o
  <2>2. /\ done.attempt = considered.attempt /\ done.cash = considered.cash
        /\ done.orders = Append(considered.orders, o)
    <3>1. done = Submitted(considered, o, time + policy.exit_latency)
      BY <1>5 DEF o
    <3> QED
      BY <1>1, <3>1 DEF Submitted, IsWork
  <2> QED
    BY <1>1, <1>2, <2>1, <2>2 DEF Considered
<1> QED
  BY <1>3, <1>4, <1>5

\* What a completion order reserves.
LEMMA CompletionFields ==
  ASSUME NEW a \in AttemptRecord, NEW r \in Int
  PROVE  /\ WithCompletion(a, r).reserve = [a.reserve EXCEPT ![2] = r]
         /\ WithCompletion(a, r).filled = a.filled
         /\ WithCompletion(a, r).quantity = a.quantity
<1> DEFINE a1 == [a EXCEPT !.reserve[2] = r]
           a2 == [a1 EXCEPT !.completion_orders = @ + 1]
           a3 == [a2 EXCEPT !.pending_buys = @ + 1]
<1>1. /\ a1 \in AttemptRecord /\ a1.filled = a.filled /\ a1.quantity = a.quantity
      /\ a1.reserve = [a.reserve EXCEPT ![2] = r]
  BY DEF AttemptRecord, Leg
<1> HIDE DEF a1
<1>2. /\ a2 \in AttemptRecord /\ a2.filled = a1.filled /\ a2.reserve = a1.reserve
      /\ a2.quantity = a1.quantity
  BY <1>1 DEF AttemptRecord
<1> HIDE DEF a2
<1>3. a3.filled = a2.filled /\ a3.reserve = a2.reserve /\ a3.quantity = a2.quantity
  BY <1>2 DEF AttemptRecord
<1>4. WithCompletion(a, r) = a3
  BY DEF WithCompletion, a1, a2
<1> QED
  BY <1>1, <1>2, <1>3, <1>4

\* Reserving and freeing change two parts of the ledger by the same amount.
LEMMA CashFreed ==
  ASSUME NEW k \in Ledger, NEW x \in Int, NEW y \in Int
  PROVE  /\ Freed([k EXCEPT !.reserved_total = @ - y, !.available = @ + y], k, y)
         /\ Freed([k EXCEPT !.reserved_total = @ + x - y, !.available = @ + y - x], k, y - x)
<1> DEFINE k1 == [k EXCEPT !.reserved_total = @ - y]
           k2 == [k EXCEPT !.reserved_total = @ + x - y]
<1>1. /\ k1 \in Ledger /\ k1.available = k.available /\ k1.reserved_total = k.reserved_total - y
      /\ k1.spent = k.spent /\ k1.unconfirmed_debit = k.unconfirmed_debit
      /\ k1.unconfirmed_credit = k.unconfirmed_credit
      /\ k1.settlement_cash = k.settlement_cash
      /\ k1.exit_credit = k.exit_credit /\ k1.exit_basis = k.exit_basis
  BY DEF Ledger
<1>2. /\ k2 \in Ledger /\ k2.available = k.available
      /\ k2.reserved_total = k.reserved_total - (y - x)
      /\ k2.spent = k.spent /\ k2.unconfirmed_debit = k.unconfirmed_debit
      /\ k2.unconfirmed_credit = k.unconfirmed_credit
      /\ k2.settlement_cash = k.settlement_cash
      /\ k2.exit_credit = k.exit_credit /\ k2.exit_basis = k.exit_basis
  BY DEF Ledger
<1> HIDE DEF k1, k2
<1>3. Freed([k1 EXCEPT !.available = @ + y], k, y)
  BY <1>1 DEF Ledger, Freed
<1>4. Freed([k2 EXCEPT !.available = @ + y - x], k, y - x)
  <2>1. k2.available + y - x = k.available + (y - x) /\ k2.available + y - x \in Int
    BY <1>2 DEF Ledger
  <2> QED
    BY <1>2, <2>1 DEF Ledger, Freed
<1> QED
  BY <1>3, <1>4 DEF k1, k2

\* complete_second() replaces the reservation of the second leg.
LEMMA CompleteSecondBooks ==
  ASSUME QueueInv, LedgerInv, policy.sequential, NEW c \in Constraint, NEW work, IsWork(work),
         work.attempt \in AttemptRecord, work.attempt.reserve \in [Leg -> Nat],
         work.cash \in Ledger, NEW time \in Nat,
         NEW done \in CompleteSecond(c, work, time)
  PROVE  Completed(done, c, work)
<1> DEFINE held == work.attempt.reserve[2]
<1>0. held \in Nat
  BY DEF Leg
<1>1. CASE done \in FinishAcquisition(c, work, time)
  <2> DEFINE k == [work.cash EXCEPT !.reserved_total = @ - held, !.available = @ + held]
             freed == [work EXCEPT !.attempt.reserve[2] = 0,
                                   !.cash.reserved_total = @ - held,
                                   !.cash.available = @ + held]
  <2>1. /\ IsWork(freed) /\ freed.orders = work.orders
        /\ freed.attempt = [work.attempt EXCEPT !.reserve[2] = 0]
        /\ freed.cash = k
    BY DEF IsWork
  <2>2. /\ freed.attempt \in AttemptRecord
        /\ freed.attempt.filled = work.attempt.filled
        /\ freed.attempt.quantity = work.attempt.quantity
        /\ freed.attempt.reserve = [work.attempt.reserve EXCEPT ![2] = 0]
    BY <2>1 DEF AttemptRecord, Leg
  <2>3. done \in ConsiderExit(c, freed, time)
    BY <1>1 DEF FinishAcquisition
  <2>4. Freed(k, work.cash, held)
    <3> HIDE DEF held
    <3>1. held \in Int /\ 0 \in Int
      BY <1>0
    <3> QED
      BY <3>1, CashFreed
  <2> HIDE DEF freed, k
  <2>5. Considered(done, c, freed)
    BY <2>1, <2>2, <2>3, ConsiderExitBooks
  <2>6. Freed(done.cash, work.cash, held - 0) /\ held - 0 = held
    BY <1>0, <2>1, <2>4, <2>5 DEF Considered
  <2>7. /\ done.attempt.filled = work.attempt.filled
        /\ done.attempt.quantity = work.attempt.quantity
        /\ done.attempt.reserve = [work.attempt.reserve EXCEPT ![2] = 0]
    BY <2>2, <2>5 DEF Considered
  <2>8. \/ done.orders = work.orders
        \/ \E o : ExitOffered(o, c, work.attempt) /\ done.orders = Append(work.orders, o)
    BY <2>1, <2>2, <2>5 DEF Considered, ExitOffered, Unmatched
  <2> QED
    BY <2>6, <2>7, <2>8 DEF Completed
<1>2. ASSUME NEW o \in Completions(c, work, time),
             done = Submitted([work EXCEPT !.attempt.reserve[2] = o.reserve,
                                           !.attempt.completion_orders = @ + 1,
                                           !.attempt.pending_buys = @ + 1,
                                           !.cash.reserved_total = @ + o.reserve - held,
                                           !.cash.available = @ + held - o.reserve],
                              Order(c, 2, o.quantity, o.reserve, FALSE), time + policy.latency[2])
      PROVE  Completed(done, c, work)
  <2> DEFINE x == o.reserve
             k == [work.cash EXCEPT !.reserved_total = @ + x - held, !.available = @ + held - x]
             reserved == [work EXCEPT !.attempt.reserve[2] = o.reserve,
                                      !.attempt.completion_orders = @ + 1,
                                      !.attempt.pending_buys = @ + 1,
                                      !.cash.reserved_total = @ + o.reserve - held,
                                      !.cash.available = @ + held - o.reserve]
             p == Order(c, 2, o.quantity, o.reserve, FALSE)
  <2>1. o.quantity \in Nat /\ x \in Nat /\ x <= work.cash.available + held
    <3>1. /\ o \in [quantity : 1..QuantityCap, reserve : Reserves]
          /\ Affordable(o.reserve, held, work.cash.available)
      BY DEF Completions
    <3>2. o.quantity \in 1..QuantityCap /\ o.reserve \in Reserves
      BY <3>1
    <3>3. o.quantity \in Nat
      BY <3>2
    <3>4. o.reserve \in Nat
      BY <3>2, LifecycleConstants
    <3> QED
      BY <3>1, <3>3, <3>4 DEF Affordable
  <2>2. /\ IsWork(reserved) /\ reserved.orders = work.orders
        /\ reserved.attempt = WithCompletion(work.attempt, x)
        /\ reserved.cash = k
    BY DEF IsWork, WithCompletion
  <2>3. /\ reserved.attempt.filled = work.attempt.filled
        /\ reserved.attempt.quantity = work.attempt.quantity
        /\ reserved.attempt.reserve = [work.attempt.reserve EXCEPT ![2] = x]
    <3> HIDE DEF reserved, x
    <3>1. x \in Int
      BY <2>1
    <3> QED
      BY <2>2, <3>1, CompletionFields
  <2>4. Freed(k, work.cash, held - x)
    <3> HIDE DEF held, x
    <3>1. x \in Int /\ held \in Int
      BY <1>0, <2>1
    <3> QED
      BY <3>1, CashFreed
  <2>5. done = Submitted(reserved, p, time + policy.latency[2])
    BY <1>2
  <2> HIDE DEF reserved, k
  <2>6. /\ done.attempt = reserved.attempt /\ done.cash = reserved.cash
        /\ done.orders = Append(reserved.orders, p)
    <3> HIDE DEF p
    <3> QED
      BY <2>2, <2>5 DEF Submitted, IsWork
  <2>7. /\ done.attempt.filled = work.attempt.filled
        /\ done.attempt.quantity = work.attempt.quantity
        /\ done.attempt.reserve = [work.attempt.reserve EXCEPT ![2] = x]
        /\ Freed(done.cash, work.cash, held - x)
        /\ done.orders = Append(work.orders, Order(c, 2, o.quantity, x, FALSE))
    BY <2>2, <2>3, <2>4, <2>6
  <2> HIDE DEF x
  <2> QED
    BY <2>1, <2>7 DEF Completed
<1> QED
  BY <1>1, <1>2 DEF CompleteSecond

\* What the response of order n leads to.
RespondsWith(n, work, done) ==
  LET c == orders[n].attempt
  IN  /\ work.attempt.filled = attempts[c].filled
      /\ work.attempt.quantity = attempts[c].quantity
      /\ work.attempt.reserve = [attempts[c].reserve EXCEPT ![orders[n].leg] = 0]
      /\ work.attempt.pending_buys = attempts[c].pending_buys - 1
      /\ work.orders = Responded(orders, n)
      /\ work.cash = [cash EXCEPT !.reserved_total = @ - orders[n].reserve,
                                  !.unconfirmed_debit = @ - orders[n].debit,
                                  !.available = @ + orders[n].reserve - orders[n].debit]
      /\ policy.sequential => Completed(done, c, work)
      /\ ~policy.sequential =>
           \/ work.attempt.pending_buys = 0 /\ Considered(done, c, work)
           \/ work.attempt.pending_buys # 0 /\ done = work
      /\ attempts' = [attempts EXCEPT ![c] = done.attempt]
      /\ cash' = done.cash /\ orders' = done.orders
      /\ UNCHANGED <<policy, lots, settlement_index>>

\* The response of a buy in terms of what it reserves and offers.
LEMMA BuyRespondsBooks ==
  ASSUME QueueInv, LedgerInv, BuyResponds
  PROVE  \E e \in events : /\ Takes(e) /\ e.response /\ ~orders[e.order].sell
                           /\ \E work, done : RespondsWith(e.order, work, done)
<1> DEFINE work(e) ==
      LET o == orders[e.order]
          c == o.attempt
      IN  [attempt |-> [attempts[c] EXCEPT !.pending_buys = @ - 1, !.reserve[o.leg] = 0],
           cash |-> [cash EXCEPT !.reserved_total = @ - o.reserve,
                                 !.unconfirmed_debit = @ - o.debit,
                                 !.available = @ + o.reserve - o.debit],
           orders |-> [orders EXCEPT ![e.order].responded = TRUE],
           events |-> events \ {e}]
<1>1. PICK e \in events :
        /\ Takes(e) /\ e.response /\ ~orders[e.order].sell
        /\ \E done \in IF policy.sequential
                       THEN CompleteSecond(orders[e.order].attempt, work(e), e.time)
                       ELSE IF AllResponded(work(e).attempt)
                            THEN ConsiderExit(orders[e.order].attempt, work(e), e.time)
                            ELSE {work(e)} :
             /\ attempts' = [attempts EXCEPT ![orders[e.order].attempt] = done.attempt]
             /\ cash' = done.cash /\ orders' = done.orders /\ events' = done.events
        /\ UNCHANGED <<policy, now, phase, lots, settlement_index>>
  BY ZenonT(60) DEF BuyResponds
<1>2. PICK done \in IF policy.sequential
                    THEN CompleteSecond(orders[e.order].attempt, work(e), e.time)
                    ELSE IF AllResponded(work(e).attempt)
                         THEN ConsiderExit(orders[e.order].attempt, work(e), e.time)
                         ELSE {work(e)} :
        /\ attempts' = [attempts EXCEPT ![orders[e.order].attempt] = done.attempt]
        /\ cash' = done.cash /\ orders' = done.orders
  BY <1>1
<1> DEFINE o == orders[e.order]
           c == o.attempt
           w == work(e)
<1>3. /\ c \in Constraint /\ o.leg \in Leg /\ attempts[c] \in AttemptRecord
      /\ e.time \in Nat /\ o \in OrderRecord
  BY EventFacts
<1>4. /\ IsWork(w) /\ w.orders = Responded(orders, e.order)
      /\ w.attempt = [attempts[c] EXCEPT !.pending_buys = @ - 1, !.reserve[o.leg] = 0]
      /\ w.cash = [cash EXCEPT !.reserved_total = @ - o.reserve,
                               !.unconfirmed_debit = @ - o.debit,
                               !.available = @ + o.reserve - o.debit]
  BY DEF IsWork, Responded
<1>5. /\ w.attempt \in AttemptRecord /\ w.attempt.filled = attempts[c].filled
      /\ w.attempt.quantity = attempts[c].quantity
      /\ w.attempt.reserve = [attempts[c].reserve EXCEPT ![o.leg] = 0]
      /\ w.attempt.pending_buys = attempts[c].pending_buys - 1
  <2> HIDE DEF work
  <2>1. w.attempt = WithResponse(attempts[c], o.leg)
    BY <1>4 DEF WithResponse
  <2> DEFINE a1 == [attempts[c] EXCEPT !.pending_buys = @ - 1]
             a2 == [a1 EXCEPT !.reserve[o.leg] = 0]
  <2>2. /\ a1 \in AttemptRecord /\ a1.reserve = attempts[c].reserve
        /\ a1.pending_buys = attempts[c].pending_buys - 1
    <3> DEFINE r == attempts[c]
    <3>1. r \in AttemptRecord
      BY <1>3
    <3>2. a1 = [r EXCEPT !.pending_buys = @ - 1]
      OBVIOUS
    <3> HIDE DEF r, a1
    <3>3. r.pending_buys - 1 \in Int
      BY <3>1 DEF AttemptRecord
    <3>4. a1 \in AttemptRecord /\ a1.reserve = r.reserve /\ a1.pending_buys = r.pending_buys - 1
      BY <3>1, <3>2, <3>3 DEF AttemptRecord
    <3> QED
      BY <3>4, Zenon DEF r
  <2>3. WithResponse(attempts[c], o.leg) = a2
    BY DEF WithResponse
  <2> HIDE DEF a1
  <2>4. /\ a2.reserve = [attempts[c].reserve EXCEPT ![o.leg] = 0]
        /\ a2.pending_buys = attempts[c].pending_buys - 1
    BY <2>2 DEF AttemptRecord
  <2> HIDE DEF a2
  <2> QED
    BY <1>3, <2>1, <2>3, <2>4, AttemptWithResponse
<1>6. done \in IF policy.sequential THEN CompleteSecond(c, w, e.time)
               ELSE IF AllResponded(w.attempt) THEN ConsiderExit(c, w, e.time) ELSE {w}
  OBVIOUS
<1>7. w.cash \in Ledger
  <2> DEFINE k1 == [cash EXCEPT !.reserved_total = @ - o.reserve]
             k2 == [k1 EXCEPT !.unconfirmed_debit = @ - o.debit]
             k3 == [k2 EXCEPT !.available = @ + o.reserve - o.debit]
  <2>1. cash \in Ledger /\ o.reserve \in Nat /\ o.debit \in Nat
    BY <1>3 DEF LedgerInv, LedgerTypeOK, OrderRecord
  <2> HIDE DEF o
  <2>2. k1 \in Ledger
    BY <2>1 DEF Ledger
  <2> HIDE DEF k1
  <2>3. k2 \in Ledger
    BY <2>1, <2>2 DEF Ledger
  <2> HIDE DEF k2
  <2>4. k3 \in Ledger
    BY <2>1, <2>3 DEF Ledger
  <2>5. w.cash = k3
    BY <1>4 DEF k1, k2, o
  <2> QED
    BY <2>4, <2>5
<1>8. w.attempt.reserve \in [Leg -> Nat]
  <2>1. attempts[c].reserve \in [Leg -> Nat]
    BY <1>3 DEF LedgerInv, LedgerTypeOK
  <2> HIDE DEF work, c
  <2> QED
    BY <1>3, <1>5, <2>1
<1> HIDE DEF work
<1>9. policy.sequential => Completed(done, c, w)
  <2>1. ASSUME policy.sequential  PROVE Completed(done, c, w)
    BY <1>3, <1>4, <1>5, <1>6, <1>7, <1>8, <2>1, CompleteSecondBooks
  <2> QED
    BY <2>1
<1>10. ~policy.sequential =>
         \/ w.attempt.pending_buys = 0 /\ Considered(done, c, w)
         \/ w.attempt.pending_buys # 0 /\ done = w
  <2>1. CASE ~policy.sequential /\ AllResponded(w.attempt)
    BY <1>3, <1>4, <1>5, <1>6, <2>1, ConsiderExitBooks DEF AllResponded
  <2>2. CASE ~policy.sequential /\ ~AllResponded(w.attempt)
    BY <1>6, <2>2 DEF AllResponded
  <2> QED
    BY <2>1, <2>2
<1>11. RespondsWith(e.order, w, done)
  BY <1>1, <1>2, <1>4, <1>5, <1>9, <1>10 DEF RespondsWith
<1> QED
  BY <1>1, <1>11

\* The books after the response of order n: its reservation is released, x is
\* held for the second leg.
Rebooked(n, x) ==
  LET o == orders[n]
      c == o.attempt
      left == [attempts[c].reserve EXCEPT ![o.leg] = 0]
      back == o.reserve + left[2] - x
  IN  /\ attempts'[c].reserve = [left EXCEPT ![2] = x]
      /\ attempts'[c].filled = attempts[c].filled
      /\ attempts'[c].quantity = attempts[c].quantity
      /\ \A d \in Constraint \ {c} : attempts'[d] = attempts[d]
      /\ cash' \in Ledger
      /\ cash'.available = cash.available - o.debit + back
      /\ cash'.reserved_total = cash.reserved_total - back
      /\ cash'.unconfirmed_debit = cash.unconfirmed_debit - o.debit
      /\ cash'.spent = cash.spent /\ cash'.unconfirmed_credit = cash.unconfirmed_credit
      /\ cash'.settlement_cash = cash.settlement_cash
      /\ cash'.exit_credit = cash.exit_credit /\ cash'.exit_basis = cash.exit_basis
      /\ x = 0 \/ x = left[2] \/ x <= cash.available + o.reserve - o.debit + left[2]
      /\ ~policy.sequential => x = left[2]
      /\ \/ orders' = Responded(orders, n) /\ (policy.sequential => x = 0)
         \/ /\ policy.sequential => x = 0
            /\ ~policy.sequential => attempts[c].pending_buys = 1
            /\ \E p : ExitOffered(p, c, attempts[c]) /\ orders' = Append(Responded(orders, n), p)
         \/ /\ policy.sequential
            /\ \E q \in Nat : orders' = Append(Responded(orders, n), Order(c, 2, q, x, FALSE))
      /\ ~policy.sequential => attempts'[c].pending_buys = attempts[c].pending_buys - 1
      /\ UNCHANGED <<policy, lots, settlement_index>>

\* The response of a buy frees its reservation, spends its debit, and may reserve x
\* for a completion.
LEMMA RespondsRebooks ==
  ASSUME QueueInv, LedgerInv, NEW e \in events, NEW work, NEW done,
         RespondsWith(e.order, work, done)
  PROVE  \E x \in Nat : Rebooked(e.order, x)
<1> DEFINE n == e.order
           o == orders[n]
           c == o.attempt
           left == [attempts[c].reserve EXCEPT ![o.leg] = 0]
           k1 == [cash EXCEPT !.reserved_total = @ - o.reserve]
           k2 == [k1 EXCEPT !.unconfirmed_debit = @ - o.debit]
           k3 == [k2 EXCEPT !.available = @ + o.reserve - o.debit]
<1>1. /\ c \in Constraint /\ o.leg \in Leg /\ o \in OrderRecord
      /\ attempts \in [Constraint -> AttemptRecord] /\ attempts[c] \in AttemptRecord
  BY EventFacts DEF QueueInv, QueueTypeOK
<1>2. o.reserve \in Nat /\ o.debit \in Nat /\ cash \in Ledger
  BY <1>1 DEF OrderRecord, LedgerInv, LedgerTypeOK
<1>3. left \in [Leg -> Nat] /\ left[2] \in Nat
  <2>1. attempts[c].reserve \in [Leg -> Nat]
    BY <1>1 DEF LedgerInv, LedgerTypeOK
  <2> QED
    BY <2>1 DEF Leg
<1>4. /\ work.attempt.filled = attempts[c].filled
      /\ work.attempt.quantity = attempts[c].quantity
      /\ work.attempt.reserve = left
      /\ work.attempt.pending_buys = attempts[c].pending_buys - 1
      /\ work.orders = Responded(orders, n) /\ work.cash = k3
      /\ policy.sequential => Completed(done, c, work)
      /\ ~policy.sequential =>
           \/ work.attempt.pending_buys = 0 /\ Considered(done, c, work)
           \/ work.attempt.pending_buys # 0 /\ done = work
      /\ attempts' = [attempts EXCEPT ![c] = done.attempt]
      /\ cash' = done.cash /\ orders' = done.orders
      /\ UNCHANGED <<policy, lots, settlement_index>>
  BY DEF RespondsWith
<1>5. /\ attempts'[c] = done.attempt
      /\ \A d \in Constraint \ {c} : attempts'[d] = attempts[d]
  BY <1>1, <1>4
<1> HIDE DEF o, left
<1>6. /\ k1 \in Ledger /\ k1.available = cash.available
      /\ k1.reserved_total = cash.reserved_total - o.reserve
      /\ k1.unconfirmed_debit = cash.unconfirmed_debit
      /\ k1.spent = cash.spent /\ k1.unconfirmed_credit = cash.unconfirmed_credit
      /\ k1.settlement_cash = cash.settlement_cash
      /\ k1.exit_credit = cash.exit_credit /\ k1.exit_basis = cash.exit_basis
  BY <1>2 DEF Ledger
<1> HIDE DEF k1
<1>7. /\ k2 \in Ledger /\ k2.available = cash.available
      /\ k2.reserved_total = cash.reserved_total - o.reserve
      /\ k2.unconfirmed_debit = cash.unconfirmed_debit - o.debit
      /\ k2.spent = cash.spent /\ k2.unconfirmed_credit = cash.unconfirmed_credit
      /\ k2.settlement_cash = cash.settlement_cash
      /\ k2.exit_credit = cash.exit_credit /\ k2.exit_basis = cash.exit_basis
  BY <1>2, <1>6 DEF Ledger
<1> HIDE DEF k2
<1>8. /\ k3 \in Ledger /\ k3.available = cash.available + o.reserve - o.debit
      /\ k3.reserved_total = cash.reserved_total - o.reserve
      /\ k3.unconfirmed_debit = cash.unconfirmed_debit - o.debit
      /\ k3.spent = cash.spent /\ k3.unconfirmed_credit = cash.unconfirmed_credit
      /\ k3.settlement_cash = cash.settlement_cash
      /\ k3.exit_credit = cash.exit_credit /\ k3.exit_basis = cash.exit_basis
  BY <1>2, <1>7 DEF Ledger
<1> HIDE DEF k3
<1>9. CASE policy.sequential
  <2>1. /\ done.attempt.filled = attempts[c].filled
        /\ done.attempt.quantity = attempts[c].quantity
    BY <1>4, <1>9 DEF Completed
  <2>2. PICK x \in Nat :
          /\ done.attempt.reserve = [left EXCEPT ![2] = x]
          /\ Freed(cash', k3, left[2] - x)
          /\ x = 0 \/ x <= k3.available + left[2]
          /\ \/ x = 0 /\ orders' = Responded(orders, n)
             \/ x = 0 /\ \E p : /\ ExitOffered(p, c, work.attempt)
                                /\ orders' = Append(Responded(orders, n), p)
             \/ \E q \in Nat : orders' = Append(Responded(orders, n), Order(c, 2, q, x, FALSE))
    BY <1>4, <1>9 DEF Completed
  <2>3. /\ cash' \in Ledger
        /\ cash'.available = cash.available - o.debit + (o.reserve + left[2] - x)
        /\ cash'.reserved_total = cash.reserved_total - (o.reserve + left[2] - x)
        /\ cash'.unconfirmed_debit = cash.unconfirmed_debit - o.debit
        /\ cash'.spent = cash.spent /\ cash'.unconfirmed_credit = cash.unconfirmed_credit
        /\ cash'.settlement_cash = cash.settlement_cash
        /\ cash'.exit_credit = cash.exit_credit /\ cash'.exit_basis = cash.exit_basis
    <3>1. cash.available \in Int /\ cash.reserved_total \in Int /\ x \in Int
      BY <1>2 DEF Ledger
    <3>2. /\ cash' \in Ledger
          /\ cash'.available = k3.available + (left[2] - x)
          /\ cash'.reserved_total = k3.reserved_total - (left[2] - x)
          /\ cash'.unconfirmed_debit = k3.unconfirmed_debit
          /\ cash'.spent = k3.spent /\ cash'.unconfirmed_credit = k3.unconfirmed_credit
          /\ cash'.settlement_cash = k3.settlement_cash
          /\ cash'.exit_credit = k3.exit_credit /\ cash'.exit_basis = k3.exit_basis
      BY <2>2 DEF Freed
    <3>3. k3.available + (left[2] - x) = cash.available - o.debit + (o.reserve + left[2] - x)
      <4>1. k3.available = cash.available + o.reserve - o.debit
        BY <1>8
      <4> QED
        BY <1>2, <1>3, <3>1, <4>1
    <3>4. k3.reserved_total - (left[2] - x) = cash.reserved_total - (o.reserve + left[2] - x)
      <4>1. k3.reserved_total = cash.reserved_total - o.reserve
        BY <1>8
      <4> QED
        BY <1>2, <1>3, <3>1, <4>1
    <3> QED
      BY <1>8, <3>2, <3>3, <3>4
  <2>4. \/ x = 0 /\ orders' = Responded(orders, n)
        \/ x = 0 /\ \E p : /\ ExitOffered(p, c, attempts[c])
                           /\ orders' = Append(Responded(orders, n), p)
        \/ \E q \in Nat : orders' = Append(Responded(orders, n), Order(c, 2, q, x, FALSE))
    BY <1>4, <2>2 DEF ExitOffered, Unmatched
  <2>5. Rebooked(n, x)
    BY <1>4, <1>5, <1>8, <1>9, <2>1, <2>2, <2>3, <2>4 DEF Rebooked, o, left
  <2> QED
    BY <2>5
<1>10. CASE ~policy.sequential
  <2>1. /\ done.attempt.filled = attempts[c].filled
        /\ done.attempt.quantity = attempts[c].quantity
        /\ done.attempt.reserve = left /\ cash' = k3
        /\ done.attempt.pending_buys = attempts[c].pending_buys - 1
    BY <1>4, <1>10 DEF Considered
  <2>2. left = [left EXCEPT ![2] = left[2]]
    BY <1>3
  <2>3. /\ cash' \in Ledger
        /\ cash'.available = cash.available - o.debit + (o.reserve + left[2] - left[2])
        /\ cash'.reserved_total = cash.reserved_total - (o.reserve + left[2] - left[2])
        /\ cash'.unconfirmed_debit = cash.unconfirmed_debit - o.debit
        /\ cash'.spent = cash.spent /\ cash'.unconfirmed_credit = cash.unconfirmed_credit
        /\ cash'.settlement_cash = cash.settlement_cash
        /\ cash'.exit_credit = cash.exit_credit /\ cash'.exit_basis = cash.exit_basis
    <3>1. cash.available \in Int /\ cash.reserved_total \in Int
      BY <1>2 DEF Ledger
    <3> QED
      BY <1>2, <1>3, <1>8, <2>1, <3>1
  <2>4. \/ orders' = Responded(orders, n)
        \/ /\ attempts[c].pending_buys = 1
           /\ \E p : ExitOffered(p, c, attempts[c]) /\ orders' = Append(Responded(orders, n), p)
    <3>1. attempts[c].pending_buys \in Int
      BY <1>1 DEF AttemptRecord
    <3>2. work.attempt.pending_buys = 0 => attempts[c].pending_buys = 1
      BY <1>4, <3>1
    <3>3. \A p : ExitOffered(p, c, work.attempt) => ExitOffered(p, c, attempts[c])
      BY <1>4 DEF ExitOffered, Unmatched
    <3>4. CASE work.attempt.pending_buys = 0 /\ Considered(done, c, work)
      BY <1>4, <3>2, <3>3, <3>4, Zenon DEF Considered
    <3>5. CASE done = work
      BY <1>4, <3>5
    <3> QED
      BY <1>4, <1>10, <3>4, <3>5
  <2>5. Rebooked(n, left[2])
    BY <1>4, <1>5, <1>10, <2>1, <2>2, <2>3, <2>4 DEF Rebooked, o, left
  <2> QED
    BY <1>3, <2>5
<1> QED
  BY <1>9, <1>10

\* The orders after the response of order n: itself, and one more perhaps.
OrdersAfter(n, x) ==
  LET o == orders[n]
      m == Len(orders)
      p == orders'[m + 1]
  IN  /\ orders' \in Seq(OrderRecord) /\ Len(orders') \in {m, m + 1}
      /\ \A i \in 1..m : i # n => orders'[i] = orders[i]
      /\ orders'[n].responded /\ orders'[n].attempt = o.attempt /\ orders'[n].leg = o.leg
      /\ orders'[n].reserve = o.reserve /\ orders'[n].debit = o.debit
      /\ orders'[n].credit = o.credit /\ orders'[n].arrived = o.arrived
      /\ orders'[n].sell = o.sell
      /\ Len(orders') = m /\ policy.sequential => x = 0
      /\ Len(orders') = m + 1 =>
           /\ p.attempt = o.attempt /\ p.debit = 0 /\ p.credit = 0
           /\ ~p.arrived /\ ~p.responded
           /\ p.sell /\ policy.sequential => x = 0
           /\ p.sell /\ ~policy.sequential => attempts[o.attempt].pending_buys = 1
           /\ p.sell => ExitOffered(p, o.attempt, attempts[o.attempt])
           /\ ~p.sell => policy.sequential /\ p.leg = 2 /\ p.reserve = x

\* At most one order follows a response.
LEMMA RespondsOrders ==
  ASSUME QueueInv, LedgerInv, NEW e \in events, NEW x \in Nat, Rebooked(e.order, x)
  PROVE  OrdersAfter(e.order, x)
<1> DEFINE n == e.order
           c == orders[n].attempt
           m == Len(orders)
           s == Responded(orders, n)
<1>1. orders \in Seq(OrderRecord) /\ n \in 1..m /\ m \in Nat /\ c \in Constraint
  BY EventFacts DEF QueueInv, QueueTypeOK
<1>2. /\ s \in Seq(OrderRecord) /\ Len(s) = m
      /\ \A i \in 1..m : i # n => s[i] = orders[i]
  <2> HIDE DEF n
  <2>1. DOMAIN orders = 1..m
    BY <1>1
  <2>2. /\ s \in Seq(OrderRecord) /\ Len(s) = Len(orders)
        /\ \A i \in DOMAIN orders : i # n => s[i] = orders[i]
    BY <1>1, RespondedOrders
  <2> QED
    BY <2>1, <2>2
<1>3. /\ s[n].responded /\ s[n].attempt = c /\ s[n].leg = orders[n].leg
      /\ s[n].reserve = orders[n].reserve /\ s[n].debit = orders[n].debit
      /\ s[n].credit = orders[n].credit /\ s[n].arrived = orders[n].arrived
      /\ s[n].sell = orders[n].sell
  <2> HIDE DEF n
  <2> QED
    BY <1>1, RespondedFields
<1> HIDE DEF s
<1>4. CASE orders' = s /\ (policy.sequential => x = 0)
  <2>1. Len(orders') = m /\ m # m + 1
    BY <1>1, <1>2, <1>4
  <2> QED
    BY <1>2, <1>3, <1>4, <2>1 DEF OrdersAfter
<1>5. ASSUME NEW p \in OrderRecord, orders' = Append(s, p)
      PROVE  /\ orders' \in Seq(OrderRecord) /\ Len(orders') = m + 1 /\ m # m + 1
             /\ \A i \in 1..m : i # n => orders'[i] = orders[i]
             /\ orders'[n] = s[n] /\ orders'[m + 1] = p
  BY <1>1, <1>2, <1>5
<1>6. ASSUME NEW p, ExitOffered(p, c, attempts[c]), orders' = Append(s, p),
             policy.sequential => x = 0,
             ~policy.sequential => attempts[c].pending_buys = 1
      PROVE  OrdersAfter(n, x)
  <2>1. /\ p \in OrderRecord /\ p.attempt = c /\ p.debit = 0 /\ p.credit = 0
        /\ ~p.arrived /\ ~p.responded /\ p.sell
    <3>1. PICK leg \in Leg, q \in Nat : p = Order(c, leg, q, 0, TRUE)
      BY <1>6 DEF ExitOffered
    <3> QED
      BY <1>1, <3>1 DEF Order, OrderRecord
  <2>2. /\ orders' \in Seq(OrderRecord) /\ Len(orders') = m + 1 /\ m # m + 1
        /\ \A i \in 1..m : i # n => orders'[i] = orders[i]
        /\ orders'[n] = s[n] /\ orders'[m + 1] = p
    BY <1>5, <1>6, <2>1
  <2> QED
    BY <1>3, <1>6, <2>1, <2>2 DEF OrdersAfter
<1>7. ASSUME NEW q \in Nat, policy.sequential, orders' = Append(s, Order(c, 2, q, x, FALSE))
      PROVE  OrdersAfter(n, x)
  <2> DEFINE p == Order(c, 2, q, x, FALSE)
  <2>1. /\ p \in OrderRecord /\ p.attempt = c /\ p.debit = 0 /\ p.credit = 0
        /\ ~p.arrived /\ ~p.responded /\ ~p.sell /\ p.leg = 2 /\ p.reserve = x
    BY <1>1 DEF Order, OrderRecord, Leg
  <2> HIDE DEF p
  <2>2. /\ orders' \in Seq(OrderRecord) /\ Len(orders') = m + 1 /\ m # m + 1
        /\ \A i \in 1..m : i # n => orders'[i] = orders[i]
        /\ orders'[n] = s[n] /\ orders'[m + 1] = p
    <3>1. orders' = Append(s, p)
      BY <1>7 DEF p
    <3> QED
      BY <1>5, <2>1, <3>1
  <2> QED
    BY <1>3, <1>7, <2>1, <2>2 DEF OrdersAfter
<1>8. \/ orders' = s /\ (policy.sequential => x = 0)
      \/ /\ policy.sequential => x = 0
         /\ ~policy.sequential => attempts[c].pending_buys = 1
         /\ \E p : ExitOffered(p, c, attempts[c]) /\ orders' = Append(s, p)
      \/ /\ policy.sequential
         /\ \E q \in Nat : orders' = Append(s, Order(c, 2, q, x, FALSE))
  BY DEF Rebooked, s
<1> QED
  BY <1>4, <1>6, <1>7, <1>8

\* The open buys after it.
LEMMA OpenBuysAfter ==
  ASSUME QueueInv, LedgerInv, NEW e \in events, NEW x, OrdersAfter(e.order, x),
         NEW c, c = orders[e.order].attempt
  PROVE  /\ \A d \in Constraint \ {c} :
              OpenBuys(d)' = OpenBuys(d) /\ \A i \in OpenBuys(d) : orders'[i] = orders[i]
         /\ \A i \in OpenBuys(c)' :
              \/ /\ i \in OpenBuys(c) \ {e.order}
                 /\ orders'[i] = orders[i]
              \/ /\ i = Len(orders) + 1 /\ Len(orders') = Len(orders) + 1 /\ ~orders'[i].sell
                 /\ policy.sequential /\ orders'[i].leg = 2 /\ orders'[i].reserve = x
         /\ \A i \in OpenBuys(c) \ {e.order} :
              i \in OpenBuys(c)' /\ orders'[i] = orders[i]
         /\ Len(orders') = Len(orders) + 1 /\ ~orders'[Len(orders) + 1].sell =>
              Len(orders) + 1 \in OpenBuys(c)'
<1> DEFINE n == e.order
           m == Len(orders)
<1>1. orders \in Seq(OrderRecord) /\ n \in 1..m /\ m \in Nat /\ DOMAIN orders = 1..m
  BY EventFacts DEF QueueInv, QueueTypeOK
<1>2. /\ orders' \in Seq(OrderRecord) /\ Len(orders') \in {m, m + 1}
      /\ \A i \in 1..m : i # n => orders'[i] = orders[i]
      /\ orders'[n].responded /\ orders'[n].attempt = c
      /\ Len(orders') = m + 1 =>
           /\ orders'[m + 1].attempt = c /\ ~orders'[m + 1].responded
           /\ ~orders'[m + 1].sell =>
                policy.sequential /\ orders'[m + 1].leg = 2 /\ orders'[m + 1].reserve = x
  BY DEF OrdersAfter
<1>3. /\ DOMAIN orders' = 1..Len(orders')
      /\ \A i \in 1..m : i \in DOMAIN orders'
      /\ \A i \in DOMAIN orders' : i \in 1..m \/ (i = m + 1 /\ Len(orders') = m + 1)
      /\ Len(orders') = m + 1 => m + 1 \in DOMAIN orders'
      /\ m + 1 \notin 1..m
  BY <1>1, <1>2
<1> HIDE DEF n, m
<1>4. ASSUME NEW d \in Constraint \ {c}
      PROVE  OpenBuys(d)' = OpenBuys(d) /\ \A i \in OpenBuys(d) : orders'[i] = orders[i]
  <2>1. orders[n].attempt = c
    BY DEF n
  <2>2. \A i \in OpenBuys(d) : i \in OpenBuys(d)' /\ orders'[i] = orders[i]
    BY <1>1, <1>2, <1>3, <2>1 DEF OpenBuys
  <2>3. \A i \in OpenBuys(d)' : i \in OpenBuys(d)
    BY <1>1, <1>2, <1>3, <2>1 DEF OpenBuys
  <2> QED
    BY <2>2, <2>3
<1>5. ASSUME NEW i \in OpenBuys(c)'
      PROVE  \/ i \in OpenBuys(c) \ {n} /\ orders'[i] = orders[i]
             \/ /\ i = m + 1 /\ Len(orders') = m + 1 /\ ~orders'[i].sell
                /\ policy.sequential /\ orders'[i].leg = 2 /\ orders'[i].reserve = x
  BY <1>1, <1>2, <1>3, <1>5 DEF OpenBuys
<1>6. ASSUME NEW i \in OpenBuys(c) \ {n}
      PROVE  i \in OpenBuys(c)' /\ orders'[i] = orders[i]
  BY <1>1, <1>2, <1>3, <1>6 DEF OpenBuys
<1>7. Len(orders') = m + 1 /\ ~orders'[m + 1].sell => m + 1 \in OpenBuys(c)'
  BY <1>2, <1>3 DEF OpenBuys
<1> QED
  BY <1>4, <1>5, <1>6, <1>7 DEF n, m

\* The reservations that remain belong to buys in flight.
LEMMA ResponseKeepsBacking ==
  ASSUME QueueInv, LedgerInv, NEW e \in events, e.response, ~orders[e.order].sell,
         NEW x \in Nat, Rebooked(e.order, x), OrdersAfter(e.order, x),
         NEW c, c = orders[e.order].attempt
  PROVE  /\ ReservationsBacked'
         /\ attempts[c].reserve[orders[e.order].leg] = orders[e.order].reserve
<1> DEFINE n == e.order
           o == orders[n]
           m == Len(orders)
           left == [attempts[c].reserve EXCEPT ![o.leg] = 0]
<1>1. /\ c \in Constraint /\ o.leg \in Leg /\ n \in DOMAIN orders
      /\ attempts[c].reserve \in [Leg -> Nat] /\ ~o.responded /\ ~o.sell
      /\ orders \in Seq(OrderRecord) /\ n \in 1..m /\ m \in Nat
  BY EventFacts DEF QueueInv, QueueTypeOK, QueueSound, EventSound, LedgerInv, LedgerTypeOK
<1>2. n \in OpenBuys(c)
  BY <1>1 DEF OpenBuys
<1>3. /\ \A i, j \in OpenBuys(c) : policy.sequential \/ orders[i].leg = orders[j].leg => i = j
      /\ \A i \in OpenBuys(c) : attempts[c].reserve[orders[i].leg] = orders[i].reserve
      /\ \A l \in Leg : attempts[c].reserve[l] # 0 =>
           \E i \in OpenBuys(c) : orders[i].leg = l \/ (policy.sequential /\ l = 2)
  BY <1>1 DEF LedgerInv, ReservationsBacked
<1>4. /\ attempts'[c].reserve = [left EXCEPT ![2] = x] /\ policy' = policy
      /\ \A d \in Constraint \ {c} : attempts'[d] = attempts[d]
      /\ ~policy.sequential => x = left[2]
  BY DEF Rebooked
<1>5. /\ \A d \in Constraint \ {c} :
           OpenBuys(d)' = OpenBuys(d) /\ \A i \in OpenBuys(d) : orders'[i] = orders[i]
      /\ \A i \in OpenBuys(c)' :
           \/ i \in OpenBuys(c) \ {n} /\ orders'[i] = orders[i]
           \/ /\ i = m + 1 /\ Len(orders') = m + 1 /\ ~orders'[i].sell
              /\ policy.sequential /\ orders'[i].leg = 2 /\ orders'[i].reserve = x
      /\ \A i \in OpenBuys(c) \ {n} : i \in OpenBuys(c)' /\ orders'[i] = orders[i]
      /\ Len(orders') = m + 1 /\ ~orders'[m + 1].sell => m + 1 \in OpenBuys(c)'
  <2>1. c = orders[e.order].attempt /\ OrdersAfter(e.order, x)
    OBVIOUS
  <2> HIDE DEF o
  <2> QED
    BY <2>1, OpenBuysAfter
<1>6. /\ Len(orders') \in {m, m + 1}
      /\ Len(orders') = m /\ policy.sequential => x = 0
      /\ Len(orders') = m + 1 /\ orders'[m + 1].sell /\ policy.sequential => x = 0
  BY DEF OrdersAfter
<1>7. left \in [Leg -> Nat] /\ left[o.leg] = 0
      /\ \A l \in Leg : l # o.leg => left[l] = attempts[c].reserve[l]
  BY <1>1
<1>8. /\ attempts'[c].reserve[2] = x /\ attempts'[c].reserve[1] = left[1]
  <2>1. 1 \in Leg /\ 2 \in Leg /\ 1 # 2
    BY DEF Leg
  <2> HIDE DEF left
  <2> QED
    BY <1>4, <1>7, <2>1
<1> HIDE DEF n, o, m, left
<1>9. ASSUME policy.sequential  PROVE ReservationsBacked'
  <2>1. OpenBuys(c) = {n}
    <3>1. \A i \in OpenBuys(c) : i = n
      BY <1>2, <1>3, <1>9
    <3> QED
      BY <1>2, <3>1
  <2>2. left[1] = 0
    <3>1. 1 \in Leg /\ (o.leg = 1 \/ o.leg = 2)
      BY <1>1 DEF Leg
    <3>2. CASE o.leg = 1
      BY <1>7, <3>2
    <3>3. CASE o.leg = 2
      <4>1. attempts[c].reserve[1] # 0 => orders[n].leg = 1
        <5>1. SUFFICES ASSUME attempts[c].reserve[1] # 0  PROVE orders[n].leg = 1
          OBVIOUS
        <5>2. PICK i \in OpenBuys(c) : orders[i].leg = 1 \/ (policy.sequential /\ 1 = 2)
          BY <1>3, <3>1, <5>1
        <5>3. i = n
          BY <2>1
        <5> QED
          BY <5>2, <5>3
      <4>2. orders[n].leg = 2
        BY <3>3 DEF o
      <4> QED
        BY <1>7, <3>1, <3>3, <4>1, <4>2
    <3> QED
      BY <3>1, <3>2, <3>3
  <2>3. \A i \in OpenBuys(c)' :
          /\ i = m + 1 /\ Len(orders') = m + 1 /\ ~orders'[i].sell
          /\ orders'[i].leg = 2 /\ orders'[i].reserve = x
    BY <1>5, <2>1
  <2>4. x # 0 => m + 1 \in OpenBuys(c)'
    BY <1>5, <1>6, <1>9
  <2>5. \A i, j \in OpenBuys(c)' : i = j
    BY <2>3
  <2>6. \A i \in OpenBuys(c)' : attempts'[c].reserve[orders'[i].leg] = orders'[i].reserve
    BY <1>8, <2>3
  <2>7. \A l \in Leg : attempts'[c].reserve[l] # 0 =>
          \E i \in OpenBuys(c)' : orders'[i].leg = l \/ (policy'.sequential /\ l = 2)
    BY <1>4, <1>8, <1>9, <2>2, <2>4 DEF Leg
  <2>8. ASSUME NEW d \in Constraint \ {c}
        PROVE  /\ \A i, j \in OpenBuys(d)' :
                    policy'.sequential \/ orders'[i].leg = orders'[j].leg => i = j
               /\ \A i \in OpenBuys(d)' : attempts'[d].reserve[orders'[i].leg] = orders'[i].reserve
               /\ \A l \in Leg : attempts'[d].reserve[l] # 0 =>
                    \E i \in OpenBuys(d)' : orders'[i].leg = l \/ (policy'.sequential /\ l = 2)
    BY <1>4, <1>5, <2>8 DEF LedgerInv, ReservationsBacked
  <2>9. /\ \A i, j \in OpenBuys(c)' :
             policy'.sequential \/ orders'[i].leg = orders'[j].leg => i = j
        /\ \A i \in OpenBuys(c)' : attempts'[c].reserve[orders'[i].leg] = orders'[i].reserve
        /\ \A l \in Leg : attempts'[c].reserve[l] # 0 =>
             \E i \in OpenBuys(c)' : orders'[i].leg = l \/ (policy'.sequential /\ l = 2)
    BY <2>5, <2>6, <2>7
  <2> QED
    BY <2>8, <2>9 DEF ReservationsBacked
<1>10. ASSUME ~policy.sequential  PROVE ReservationsBacked'
  <2>1. \A l \in Leg : attempts'[c].reserve[l] = left[l]
    BY <1>4, <1>8, <1>10 DEF Leg
  <2>2. \A i \in OpenBuys(c)' : i \in OpenBuys(c) \ {n} /\ orders'[i] = orders[i]
    BY <1>5, <1>10
  <2>3. \A i \in OpenBuys(c) : i # n => orders[i].leg # o.leg
    BY <1>2, <1>3 DEF o
  <2>4. \A i \in OpenBuys(c) : orders[i].leg \in Leg
    <3> SUFFICES ASSUME NEW i \in OpenBuys(c)  PROVE orders[i].leg \in Leg
      OBVIOUS
    <3>1. i \in DOMAIN orders
      BY DEF OpenBuys
    <3>2. orders[i] \in OrderRecord
      BY <1>1, <3>1
    <3> QED
      BY <3>2 DEF OrderRecord
  <2>5. \A i, j \in OpenBuys(c)' :
          policy'.sequential \/ orders'[i].leg = orders'[j].leg => i = j
    BY <1>3, <1>4, <1>10, <2>2
  <2>6. \A i \in OpenBuys(c)' : attempts'[c].reserve[orders'[i].leg] = orders'[i].reserve
    <3> SUFFICES ASSUME NEW i \in OpenBuys(c)'
                 PROVE  attempts'[c].reserve[orders'[i].leg] = orders'[i].reserve
      OBVIOUS
    <3>1. i \in OpenBuys(c) /\ i # n /\ orders'[i] = orders[i]
      BY <2>2
    <3>2. orders[i].leg \in Leg /\ orders[i].leg # o.leg
      BY <2>3, <2>4, <3>1
    <3>3. attempts'[c].reserve[orders[i].leg] = left[orders[i].leg]
      BY <2>1, <3>2
    <3>4. left[orders[i].leg] = attempts[c].reserve[orders[i].leg]
      BY <1>7, <3>2
    <3>5. attempts[c].reserve[orders[i].leg] = orders[i].reserve
      BY <1>3, <3>1
    <3> QED
      BY <3>1, <3>3, <3>4, <3>5
  <2>7. ASSUME NEW l \in Leg, attempts'[c].reserve[l] # 0
        PROVE  \E i \in OpenBuys(c)' : orders'[i].leg = l
    <3>1. l # o.leg /\ attempts[c].reserve[l] # 0
      BY <1>7, <2>1, <2>7
    <3>2. PICK i \in OpenBuys(c) : orders[i].leg = l
      BY <1>3, <1>10, <3>1
    <3>3. i # n
      BY <3>1, <3>2 DEF o
    <3> QED
      BY <1>5, <3>2, <3>3
  <2>8. ASSUME NEW d \in Constraint \ {c}
        PROVE  /\ \A i, j \in OpenBuys(d)' :
                    policy'.sequential \/ orders'[i].leg = orders'[j].leg => i = j
               /\ \A i \in OpenBuys(d)' : attempts'[d].reserve[orders'[i].leg] = orders'[i].reserve
               /\ \A l \in Leg : attempts'[d].reserve[l] # 0 =>
                    \E i \in OpenBuys(d)' : orders'[i].leg = l \/ (policy'.sequential /\ l = 2)
    BY <1>4, <1>5, <2>8 DEF LedgerInv, ReservationsBacked
  <2>9. /\ \A i, j \in OpenBuys(c)' :
             policy'.sequential \/ orders'[i].leg = orders'[j].leg => i = j
        /\ \A i \in OpenBuys(c)' : attempts'[c].reserve[orders'[i].leg] = orders'[i].reserve
        /\ \A l \in Leg : attempts'[c].reserve[l] # 0 =>
             \E i \in OpenBuys(c)' : orders'[i].leg = l \/ (policy'.sequential /\ l = 2)
    BY <2>5, <2>6, <2>7
  <2> QED
    BY <2>8, <2>9 DEF ReservationsBacked
<1>11. attempts[c].reserve[o.leg] = o.reserve
  BY <1>2, <1>3 DEF o
<1> QED
  BY <1>9, <1>10, <1>11 DEF o, n

\* The response of a buy keeps the ledger.
LEMMA BuyRespondsKeepsLedger ==
  ASSUME QueueInv, LedgerInv, BuyResponds
  PROVE  LedgerInv'
<1>1. PICK e \in events, x \in Nat :
        e.response /\ ~orders[e.order].sell /\ Rebooked(e.order, x)
  BY BuyRespondsBooks, RespondsRebooks
<1> DEFINE n == e.order
           o == orders[n]
           c == o.attempt
           m == Len(orders)
           left == [attempts[c].reserve EXCEPT ![o.leg] = 0]
           back == o.reserve + left[2] - x
<1>2. OrdersAfter(n, x)
  BY <1>1, RespondsOrders
<1>3. ReservationsBacked' /\ attempts[c].reserve[o.leg] = o.reserve
  BY <1>1, <1>2, ResponseKeepsBacking
<1>4. /\ orders \in Seq(OrderRecord) /\ n \in 1..m /\ DOMAIN orders = 1..m /\ m \in Nat
      /\ o \in OrderRecord /\ c \in Constraint /\ o.leg \in Leg
      /\ o.arrived /\ ~o.responded /\ ~o.sell
      /\ attempts[c].reserve \in [Leg -> Nat]
  BY <1>1, EventFacts
     DEF QueueInv, QueueTypeOK, QueueSound, EventSound, LedgerInv, LedgerTypeOK
<1>5. OrderSound(o) /\ o.attempt \in Attempted
  BY <1>4 DEF LedgerInv, OrdersSound
<1>6. /\ o.reserve \in Nat /\ o.debit \in Nat /\ o.credit = 0 /\ o.debit <= o.reserve
      /\ left \in [Leg -> Nat] /\ left[2] \in Nat
  BY <1>4, <1>5 DEF OrderRecord, OrderSound, Leg
<1>7. /\ attempts'[c].reserve = [left EXCEPT ![2] = x]
      /\ attempts'[c].quantity = attempts[c].quantity
      /\ \A d \in Constraint \ {c} : attempts'[d] = attempts[d]
      /\ UNCHANGED <<policy, lots, settlement_index>>
      /\ x = 0 \/ x = left[2] \/ x <= cash.available + o.reserve - o.debit + left[2]
  BY <1>1 DEF Rebooked
<1>8. /\ cash' \in Ledger
      /\ cash'.available = cash.available - o.debit + back
      /\ cash'.reserved_total = cash.reserved_total - back
      /\ cash'.unconfirmed_debit = cash.unconfirmed_debit - o.debit
      /\ cash'.spent = cash.spent /\ cash'.unconfirmed_credit = cash.unconfirmed_credit
      /\ cash'.settlement_cash = cash.settlement_cash
      /\ cash'.exit_credit = cash.exit_credit /\ cash'.exit_basis = cash.exit_basis
  BY <1>1 DEF Rebooked
<1>9. /\ orders' \in Seq(OrderRecord) /\ Len(orders') \in {m, m + 1}
      /\ \A i \in 1..m : i # n => orders'[i] = orders[i]
      /\ orders'[n].responded /\ orders'[n].attempt = c
      /\ orders'[n].reserve = o.reserve /\ orders'[n].debit = o.debit
      /\ orders'[n].credit = o.credit /\ orders'[n].arrived = o.arrived
      /\ orders'[n].sell = o.sell
      /\ Len(orders') = m + 1 =>
           /\ orders'[m + 1].attempt = c
           /\ orders'[m + 1].debit = 0 /\ orders'[m + 1].credit = 0
           /\ ~orders'[m + 1].arrived /\ ~orders'[m + 1].responded
           /\ ~orders'[m + 1].sell => orders'[m + 1].reserve = x
  BY <1>2 DEF OrdersAfter
<1>10. /\ attempts'[c].reserve \in [Leg -> Nat]
       /\ attempts'[c].reserve[2] = x /\ attempts'[c].reserve[1] = left[1]
  <2> HIDE DEF left, c
  <2> QED
    BY <1>6, <1>7 DEF Leg
<1>11. left[1] + left[2] = attempts[c].reserve[1] + attempts[c].reserve[2] - o.reserve
  BY <1>3, <1>4 DEF Leg
<1> HIDE DEF n, o, c, m, left
<1>12. LedgerTypeOK'
  <2>1. \A d \in Constraint : attempts'[d].reserve \in [Leg -> Nat]
    BY <1>7, <1>10 DEF LedgerInv, LedgerTypeOK
  <2> QED
    BY <1>7, <1>8, <2>1 DEF LedgerInv, LedgerTypeOK
<1>13. OrdersSound'
  <2>1. Attempted' = Attempted
    BY <1>7 DEF Attempted
  <2>2. OrderSound(orders'[n])
    BY <1>4, <1>5, <1>9 DEF OrderSound
  <2>3. \A i \in 1..m : orders[i].attempt \in Attempted /\ OrderSound(orders[i])
    BY <1>4 DEF LedgerInv, OrdersSound
  <2>4. \A i \in 1..m : orders'[i].attempt \in Attempted /\ OrderSound(orders'[i])
    BY <1>4, <1>9, <2>2, <2>3 DEF o, c
  <2>5. Len(orders') = m + 1 => orders'[m + 1].attempt \in Attempted /\ OrderSound(orders'[m + 1])
    BY <1>5, <1>6, <1>9 DEF OrderSound, c
  <2>6. \A i \in DOMAIN orders' : i \in 1..m \/ (i = m + 1 /\ Len(orders') = m + 1)
    BY <1>4, <1>9
  <2> QED
    BY <2>1, <2>4, <2>5, <2>6 DEF OrdersSound
<1>14. /\ SumOf(Reserved(attempts')) = SumOf(Reserved(attempts)) - back
       /\ SumOf(Reserved(attempts)) \in Nat
  <2>1. /\ \A d \in Constraint : attempts[d].reserve \in [Leg -> Nat]
        /\ \A d \in Constraint : attempts'[d].reserve \in [Leg -> Nat]
    BY <1>12 DEF LedgerInv, LedgerTypeOK
  <2>2. \A d \in Constraint \ {c} : attempts'[d].reserve = attempts[d].reserve
    BY <1>7
  <2>3. /\ SumOf(Reserved(attempts)) \in Nat
        /\ SumOf(Reserved(attempts')) = SumOf(Reserved(attempts)) - attempts[c].reserve[1]
             - attempts[c].reserve[2] + attempts'[c].reserve[1] + attempts'[c].reserve[2]
    BY <1>4, <2>1, <2>2, ReservedChanges
  <2>4. PICK s, t, u, v, w, z :
          /\ s = SumOf(Reserved(attempts)) /\ t = SumOf(Reserved(attempts'))
          /\ u = attempts[c].reserve[1] /\ v = attempts[c].reserve[2]
          /\ w = left[1] /\ z = left[2]
    OBVIOUS
  <2>5. /\ s \in Nat /\ u \in Nat /\ v \in Nat /\ w \in Nat /\ z \in Nat
    BY <1>4, <1>6, <2>3, <2>4 DEF Leg
  <2>6. t = s - u - v + w + x /\ w + z = u + v - o.reserve
    BY <1>10, <1>11, <2>3, <2>4
  <2>7. t = s - (o.reserve + z - x)
    <3>1. PICK r : r = o.reserve
      OBVIOUS
    <3>2. r \in Nat /\ w + z = u + v - r
      BY <1>6, <2>6, <3>1
    <3>3. t = s - (r + z - x)
      BY <2>5, <2>6, <3>2
    <3> QED
      BY <3>1, <3>3
  <2> QED
    BY <2>3, <2>4, <2>7
<1>15. /\ SumOf(OpenDebit(orders')) = SumOf(OpenDebit(orders)) - o.debit
       /\ SumOf(OpenCredit(orders')) = SumOf(OpenCredit(orders))
  <2> DEFINE s == SubSeq(orders', 1, m)
  <2>1. s \in Seq(OrderRecord) /\ Len(s) = m /\ \A i \in 1..m : s[i] = orders'[i]
    BY <1>4, <1>9
  <2> HIDE DEF s
  <2>2. /\ SumOf(OpenDebit(s)) = SumOf(OpenDebit(orders)) - OpenDebit(orders)[n] + OpenDebit(s)[n]
        /\ SumOf(OpenCredit(s)) =
             SumOf(OpenCredit(orders)) - OpenCredit(orders)[n] + OpenCredit(s)[n]
        /\ OpenDebit(orders)[n] = (IF orders[n].responded THEN 0 ELSE orders[n].debit)
        /\ OpenDebit(s)[n] = (IF s[n].responded THEN 0 ELSE s[n].debit)
        /\ OpenCredit(orders)[n] = (IF orders[n].responded THEN 0 ELSE orders[n].credit)
        /\ OpenCredit(s)[n] = (IF s[n].responded THEN 0 ELSE s[n].credit)
    <3>1. Len(s) = Len(orders) /\ n \in 1..Len(orders)
      BY <1>4, <2>1 DEF m
    <3>2. \A i \in 1..Len(orders) : i # n => s[i] = orders[i]
      BY <1>9, <2>1 DEF m
    <3> QED
      BY <1>4, <2>1, <3>1, <3>2, OpenSumsChange
  <2>3. /\ SumOf(OpenDebit(s)) = SumOf(OpenDebit(orders)) - o.debit + 0
        /\ SumOf(OpenCredit(s)) = SumOf(OpenCredit(orders)) - 0 + 0
    BY <1>4, <1>6, <1>9, <2>1, <2>2 DEF o
  <2>4. SumOf(OpenDebit(orders)) \in Nat /\ SumOf(OpenCredit(orders)) \in Nat
    BY SumsAreNatural
  <2>5. /\ SumOf(OpenDebit(s)) = SumOf(OpenDebit(orders)) - o.debit
        /\ SumOf(OpenCredit(s)) = SumOf(OpenCredit(orders))
    BY <1>6, <2>3, <2>4
  <2>6. /\ SumOf(OpenDebit(orders')) = SumOf(OpenDebit(s))
        /\ SumOf(OpenCredit(orders')) = SumOf(OpenCredit(s))
    <3>1. Len(orders') >= Len(s) /\ \A i \in 1..Len(s) : orders'[i] = s[i]
      BY <1>4, <1>9, <2>1
    <3>2. \A i \in 1..Len(orders') : i > Len(s) => orders'[i].debit = 0 /\ orders'[i].credit = 0
      BY <1>4, <1>9, <2>1
    <3> QED
      BY <1>9, <2>1, <3>1, <3>2, OpenSumsExtend
  <2> QED
    BY <2>5, <2>6
<1>16. CashBalanced'
  <2>1. Settled' = Settled /\ lots' = lots
    BY <1>7 DEF Settled
  <2>2. cash \in Ledger /\ CashBalanced
    BY DEF LedgerInv, LedgerTypeOK
  <2>3. /\ cash.available >= 0
        /\ cash.available + cash.reserved_total - cash.unconfirmed_debit + cash.unconfirmed_credit
             = Capital - cash.spent + cash.settlement_cash + cash.exit_credit
    BY <2>2 DEF CashBalanced
  <2>4. /\ cash.available \in Int /\ cash.reserved_total \in Int
        /\ cash.unconfirmed_debit \in Int /\ cash.unconfirmed_credit \in Int
        /\ cash.spent \in Int /\ cash.settlement_cash \in Int /\ cash.exit_credit \in Int
        /\ Capital \in Nat
    BY <2>2, LifecycleConstants DEF Ledger
  <2>5. PICK y, z : y = back /\ z = left[2]
    OBVIOUS
  <2>6. y \in Int /\ z \in Nat /\ y = o.reserve + z - x
    BY <1>6, <2>5
  <2>7. x = 0 \/ x = z \/ x <= cash.available + o.reserve - o.debit + z
    BY <1>7, <2>5
  <2>8. cash.available - o.debit + y >= 0
    BY <1>6, <2>3, <2>4, <2>6, <2>7
  <2>9. cash'.available = cash.available - o.debit + y /\ cash'.reserved_total = cash.reserved_total - y
    BY <1>8, <2>5
  <2> HIDE DEF back
  <2>10. cash'.available >= 0
    BY <2>8, <2>9
  <2>11. cash'.available + cash'.reserved_total - cash'.unconfirmed_debit + cash'.unconfirmed_credit
           = Capital - cash'.spent + cash'.settlement_cash + cash'.exit_credit
    <3>1. cash'.available + cash'.reserved_total = cash.available + cash.reserved_total - o.debit
      BY <1>6, <2>4, <2>6, <2>9
    <3>2. /\ cash'.available \in Int /\ cash'.reserved_total \in Int
      BY <1>8 DEF Ledger
    <3> QED
      BY <1>6, <1>8, <2>3, <2>4, <3>1, <3>2
  <2>12. /\ cash'.reserved_total = SumOf(Reserved(attempts'))
         /\ cash'.unconfirmed_debit = SumOf(OpenDebit(orders'))
         /\ cash'.unconfirmed_credit = SumOf(OpenCredit(orders'))
         /\ Settled = {} => cash'.spent = cash'.exit_basis + SumOf(Costs(lots))
    BY <1>8, <1>14, <1>15, <2>2 DEF CashBalanced
  <2> QED
    BY <2>1, <2>10, <2>11, <2>12 DEF CashBalanced
<1> QED
  BY <1>3, <1>12, <1>13, <1>16 DEF LedgerInv

-----------------------------------------------------------------------------
(* The money of a run. *)

\* The ledger starts with the capital free.
LEMMA LedgerStartsBalanced == Init => LedgerInv
<1> SUFFICES ASSUME Init  PROVE LedgerInv
  OBVIOUS
<1>1. /\ attempts = [c \in Constraint |-> NoAttempt] /\ orders = <<>>
      /\ lots = [c \in Constraint |-> [l \in Leg |-> <<>>]]
      /\ cash = [available |-> Capital, spent |-> 0, reserved_total |-> 0,
                 unconfirmed_debit |-> 0, unconfirmed_credit |-> 0,
                 settlement_cash |-> 0, exit_credit |-> 0, exit_basis |-> 0]
  BY DEF Init
<1>2. NoAttempt.reserve = [l \in Leg |-> 0]
  BY DEF NoAttempt
<1>3. \A c \in Constraint : attempts[c].reserve = [l \in Leg |-> 0]
  BY <1>1, <1>2
<1>4. DOMAIN orders = {}
  BY <1>1
<1>5. LedgerTypeOK
  <2>1. cash \in Ledger
    BY <1>1, LifecycleConstants DEF Ledger
  <2>2. lots \in Positions
    BY <1>1, NoLots DEF Positions
  <2>3. \A c \in Constraint : attempts[c].reserve \in [Leg -> Nat]
    BY <1>3
  <2> QED
    BY <2>1, <2>2, <2>3 DEF LedgerTypeOK
<1>6. SumOf(Reserved(attempts)) = 0
  <2>1. \A cl \in DOMAIN Reserved(attempts) : Reserved(attempts)[cl] = 0
    BY <1>3 DEF Reserved
  <2> QED
    BY <2>1, SumOfZeros
<1>7. SumOf(Costs(lots)) = 0
  <2>1. \A cl \in DOMAIN Costs(lots) : Costs(lots)[cl] = 0
    BY <1>1, NoLots DEF Costs
  <2> QED
    BY <2>1, SumOfZeros
<1>8. SumOf(OpenDebit(orders)) = 0 /\ SumOf(OpenCredit(orders)) = 0
  <2>1. DOMAIN OpenDebit(orders) = {} /\ DOMAIN OpenCredit(orders) = {}
    BY <1>4 DEF OpenDebit, OpenCredit
  <2> QED
    BY <2>1, SumOfZeros
<1>9. CashBalanced
  <2>1. /\ cash.available = Capital /\ cash.spent = 0 /\ cash.reserved_total = 0
        /\ cash.unconfirmed_debit = 0 /\ cash.unconfirmed_credit = 0
        /\ cash.settlement_cash = 0 /\ cash.exit_credit = 0 /\ cash.exit_basis = 0
    BY <1>1
  <2>2. Capital \in Nat
    BY LifecycleConstants
  <2> QED
    BY <1>6, <1>7, <1>8, <2>1, <2>2 DEF CashBalanced
<1>10. OrdersSound /\ ReservationsBacked
  <2>1. \A c \in Constraint : OpenBuys(c) = {}
    BY <1>4 DEF OpenBuys
  <2>2. OrdersSound
    BY <1>4 DEF OrdersSound
  <2>3. ReservationsBacked
    BY <1>3, <2>1 DEF ReservationsBacked
  <2> QED
    BY <2>2, <2>3
<1> QED
  BY <1>5, <1>9, <1>10 DEF LedgerInv

\* Every step keeps the ledger.
LEMMA StepKeepsLedgerInv == QueueInv /\ LedgerInv /\ [Next]_vars => LedgerInv'
<1> SUFFICES ASSUME QueueInv, LedgerInv, [Next]_vars  PROVE LedgerInv'
  OBVIOUS
<1>1. ASSUME NEW c \in Constraint, NEW q \in 1..QuantityCap, NEW r \in [Leg -> Reserves],
             Decide(c, q, r)
      PROVE  LedgerInv'
  BY <1>1, DecideKeepsLedger
<1>2. CASE BuyArrives
  BY <1>2, BuyArrivesKeepsLedger
<1>3. CASE BuyResponds
  BY <1>3, BuyRespondsKeepsLedger
<1>4. CASE ExitArrives
  BY <1>4, ExitArrivesKeepsLedger
<1>5. CASE ExitResponds
  BY <1>5, ExitRespondsKeepsLedger
<1>6. CASE Settle
  BY <1>6, SettleKeepsLedger
<1>7. ASSUME NEW t \in 1..MaxTime, Frame(t)  PROVE LedgerInv'
  BY <1>7, UnchangedLedger DEF Frame
<1>8. CASE Finish
  BY <1>8, UnchangedLedger DEF Finish
<1>9. CASE UNCHANGED vars
  BY <1>9, UnchangedLedger DEF vars
<1> QED
  BY <1>1, <1>2, <1>3, <1>4, <1>5, <1>6, <1>7, <1>8, <1>9 DEF Next, Terminated

\* The parts of the ledger are at all times those of the attempts, the orders
\* and the lots: whatever is submitted, filled, refused, exited and settled, the
\* free and the reserved cash are what the orders in flight leave of the capital.
THEOREM LedgerInvariant == Spec => [](QueueInv /\ LedgerInv)
<1>1. Spec => []QueueInv
  BY QueueInvariant
<1> QED
  BY <1>1, LedgerStartsBalanced, StepKeepsLedgerInv, PTL DEF Spec

\* check_cash() never fails: no part of the ledger goes below zero, no money is
\* lost or made, and no reservation outlives the responses of the buys it is for.
THEOREM LedgerIsConserved == Spec => []LedgerConserved
<1>1. QueueInv /\ LedgerInv => LedgerConserved
  <2> SUFFICES ASSUME QueueInv, LedgerInv  PROVE LedgerConserved
    OBVIOUS
  <2>1. /\ SumOf(Reserved(attempts)) \in Nat
        /\ SumOf(OpenDebit(orders)) \in Nat /\ SumOf(OpenCredit(orders)) \in Nat
    BY SumsAreNatural
  <2>2. CashBalanced
    BY DEF LedgerInv
  <2>3. CashConserved
    <3>1. /\ cash.reserved_total >= 0 /\ cash.unconfirmed_debit >= 0
          /\ cash.unconfirmed_credit >= 0
      BY <2>1, <2>2 DEF CashBalanced
    <3>2. Settled = {} => cash.spent = cash.exit_basis +
            SumOf([cl \in Constraint \X Leg |-> DebitOf(lots[cl[1]][cl[2]])])
      BY <2>2 DEF CashBalanced, Costs
    <3> QED
      BY <2>2, <3>1, <3>2 DEF CashBalanced, CashConserved
  <2>4. ReservationsReleased
    <3>1. cash.reserved_total =
            SumOf([cl \in Constraint \X Leg |-> attempts[cl[1]].reserve[cl[2]]])
      BY <2>2 DEF CashBalanced, Reserved
    <3>2. ASSUME NEW c \in Attempted, \A i \in BuysOf(c) : orders[i].responded
          PROVE  \A l \in Leg : attempts[c].reserve[l] = 0
      <4>1. OpenBuys(c) = {} /\ c \in Constraint
        BY <3>2 DEF OpenBuys, BuysOf, Attempted
      <4> QED
        BY <4>1 DEF LedgerInv, ReservationsBacked
    <3> QED
      BY <3>1, <3>2 DEF ReservationsReleased
  <2> QED
    BY <2>3, <2>4 DEF LedgerConserved
<1> QED
  BY <1>1, LedgerInvariant, PTL

-----------------------------------------------------------------------------
(* Pairs. *)

Sells(c) == {i \in DOMAIN orders : orders[i].attempt = c /\ orders[i].sell}

Matched(c) == Smaller(attempts[c].filled[1], attempts[c].filled[2])

\* Until its market settles a leg owns what it bought, less what the exit of
\* its attempt sold, and an exit on its way still leaves what the other leg
\* matches.
LegSound(c, l) ==
  LegMarket[c][l] \notin Settled =>
    /\ Sells(c) = {} => QuantityOf(lots[c][l]) = attempts[c].filled[l]
    /\ QuantityOf(lots[c][l]) >= Matched(c)
    /\ \A i \in Sells(c) : orders[i].leg = l /\ ~orders[i].arrived =>
         QuantityOf(lots[c][l]) >= Matched(c) + orders[i].quantity

\* An attempt has one exit at most, once none of its buys is open.
PairSound(c) ==
  /\ Sells(c) # {} => OpenBuys(c) = {}
  /\ \A i, j \in Sells(c) : i = j
  /\ ~policy.sequential =>
       IsFiniteSet(OpenBuys(c)) /\ attempts[c].pending_buys = Cardinality(OpenBuys(c))
  /\ c \notin Attempted => \A l \in Leg : QuantityOf(lots[c][l]) = 0
  /\ \A l \in Leg : LegSound(c, l)

PairsInv == \A c \in Constraint : PairSound(c)

\* The amounts of a pair.
LEMMA PairFacts ==
  ASSUME QueueInv, LedgerInv, NEW c \in Constraint, NEW l \in Leg
  PROVE  /\ QuantityOf(lots[c][l]) \in Nat /\ attempts[c].filled[l] \in Nat
         /\ attempts[c].filled[1] \in Nat /\ attempts[c].filled[2] \in Nat
         /\ Matched(c) \in Nat /\ Matched(c) <= attempts[c].filled[l]
<1>1. lots[c][l] \in Seq(Lot)
  BY DEF LedgerInv, LedgerTypeOK, Positions
<1>2. QuantityOf(lots[c][l]) \in Nat
  BY <1>1, LotsOfConcat
<1>3. attempts[c] \in AttemptRecord
  BY DEF QueueInv, QueueTypeOK
<1>4. /\ attempts[c].filled[l] \in Nat
      /\ attempts[c].filled[1] \in Nat /\ attempts[c].filled[2] \in Nat
  BY <1>3 DEF AttemptRecord, Leg
<1> QED
  BY <1>2, <1>4 DEF Matched, Smaller, Leg

\* Settlements only add to what is settled.
LEMMA SettledGrows ==
  ASSUME QueueInv, UNCHANGED policy,
         settlement_index' = settlement_index \/ settlement_index' = settlement_index + 1
  PROVE  Settled \subseteq Settled'
<1>1. settlement_index \in Int
  BY DEF QueueInv, QueueTypeOK
<1>2. 1..settlement_index \subseteq 1..settlement_index'
  BY <1>1
<1> QED
  BY <1>2 DEF Settled

\* A pair keeps what its invariant says when nothing it is about changes; its
\* settled legs do not matter.
LEMMA PairUntouched ==
  ASSUME NEW c \in Constraint, PairSound(c), UNCHANGED policy, Settled \subseteq Settled',
         attempts'[c] = attempts[c], c \in Attempted => c \in Attempted',
         OpenBuys(c)' = OpenBuys(c), Sells(c)' = Sells(c),
         \A i \in Sells(c) : /\ orders'[i].leg = orders[i].leg
                             /\ orders[i].arrived => orders'[i].arrived
                             /\ orders'[i].quantity = orders[i].quantity,
         \A l \in Leg : LegMarket[c][l] \notin Settled' => lots'[c][l] = lots[c][l],
         c \notin Attempted => \A l \in Leg : QuantityOf(lots'[c][l]) = 0
  PROVE  PairSound(c)'
<1>1. Matched(c)' = Matched(c)
  BY DEF Matched
<1>2. ASSUME NEW l \in Leg  PROVE LegSound(c, l)'
  <2>1. LegSound(c, l)
    BY DEF PairSound
  <2> SUFFICES ASSUME LegMarket[c][l] \notin Settled'
               PROVE  /\ Sells(c)' = {} => QuantityOf(lots'[c][l]) = attempts'[c].filled[l]
                      /\ QuantityOf(lots'[c][l]) >= Matched(c)'
                      /\ \A i \in Sells(c)' : orders'[i].leg = l /\ ~orders'[i].arrived =>
                           QuantityOf(lots'[c][l]) >= Matched(c)' + orders'[i].quantity
    BY DEF LegSound
  <2>2. LegMarket[c][l] \notin Settled /\ lots'[c][l] = lots[c][l]
    OBVIOUS
  <2> QED
    BY <1>1, <2>1, <2>2 DEF LegSound
<1> QED
  BY <1>2 DEF PairSound

\* An arrival leaves who buys and who sells.
LEMMA ArrivalKeepsSides ==
  ASSUME orders \in Seq(OrderRecord), NEW n \in DOMAIN orders, ArrivedOnly(orders', orders, n)
  PROVE  \A c \in Constraint : OpenBuys(c)' = OpenBuys(c) /\ Sells(c)' = Sells(c)
<1>1. /\ DOMAIN orders' = DOMAIN orders
      /\ \A i \in DOMAIN orders :
           /\ orders'[i].attempt = orders[i].attempt /\ orders'[i].sell = orders[i].sell
           /\ orders'[i].responded = orders[i].responded
  BY DEF ArrivedOnly
<1> QED
  BY <1>1 DEF OpenBuys, Sells

\* What an arriving buy adds to its position.
LEMMA BuyTakesLots ==
  ASSUME QueueInv, LedgerInv, NEW e \in events, NEW f, BuyTakes(e, f),
         f.quantity \in Nat, f.debit \in Nat,
         NEW c, NEW l, c = orders[e.order].attempt, l = orders[e.order].leg
  PROVE  /\ OtherLotsKept(lots', lots, c, l)
         /\ QuantityOf(lots'[c][l]) = QuantityOf(lots[c][l]) + f.quantity
<1>1. c \in Constraint /\ l \in Leg
  BY EventFacts
<1>2. lots \in Positions /\ lots[c][l] \in Seq(Lot)
  BY <1>1 DEF LedgerInv, LedgerTypeOK, Positions
<1>3. QuantityOf(lots[c][l]) \in Nat
  BY <1>2, LotsOfConcat
<1>4. CASE f.quantity = 0
  <2>1. lots' = lots
    BY <1>4 DEF BuyTakes
  <2>2. QuantityOf(lots[c][l]) = QuantityOf(lots[c][l]) + f.quantity
    BY <1>3, <1>4
  <2> QED
    BY <2>1, <2>2 DEF OtherLotsKept
<1>5. CASE f.quantity # 0
  <2> DEFINE lot == [quantity |-> f.quantity, debit |-> f.debit]
  <2>1. lot \in Lot /\ lot.quantity = f.quantity
    BY <1>5 DEF Lot
  <2>2. lots' = [lots EXCEPT ![c][l] = Append(@, lot)]
    BY <1>5 DEF BuyTakes
  <2> HIDE DEF lot
  <2>3. Append(lots[c][l], lot) = lots[c][l] \o <<lot>>
    <3>1. \A t \in Seq(Lot) : Append(t, lot) = t \o <<lot>>
      BY <2>1
    <3> QED
      BY <1>2, <3>1
  <2>4. OtherLotsKept(lots', lots, c, l) /\ lots'[c][l] = lots[c][l] \o <<lot>>
    BY <1>1, <1>2, <2>2, <2>3 DEF Positions, OtherLotsKept
  <2>5. QuantityOf(lots[c][l] \o <<lot>>) = QuantityOf(lots[c][l]) + lot.quantity
    BY <1>2, <2>1, LotAlone, LotsOfConcat
  <2> QED
    BY <2>1, <2>4, <2>5
<1> QED
  BY <1>4, <1>5

\* What an arriving exit takes from its position.
LEMMA ExitTakesLots ==
  ASSUME QueueInv, LedgerInv, NEW e \in events, NEW f, ExitTakes(e, f), f.quantity \in Nat,
         NEW c, NEW l, c = orders[e.order].attempt, l = orders[e.order].leg,
         f.quantity <= QuantityOf(lots[c][l])
  PROVE  /\ OtherLotsKept(lots', lots, c, l)
         /\ QuantityOf(lots'[c][l]) = QuantityOf(lots[c][l]) - f.quantity
<1>1. c \in Constraint /\ l \in Leg
  BY EventFacts
<1>2. lots \in Positions /\ lots[c][l] \in Seq(Lot)
  BY <1>1 DEF LedgerInv, LedgerTypeOK, Positions
<1>3. PICK left, basis : /\ left = Closed(lots[c][l], f.quantity)
                         /\ basis = Released(lots[c][l], f.quantity)
  OBVIOUS
<1>4. Divides(lots[c][l], f.quantity, left, basis)
  BY <1>2, <1>3, ClosedLots
<1>5. lots' = [lots EXCEPT ![c][l] = left]
  BY <1>3 DEF ExitTakes
<1>6. OtherLotsKept(lots', lots, c, l) /\ lots'[c][l] = left
  BY <1>1, <1>2, <1>5 DEF Positions, OtherLotsKept
<1> QED
  BY <1>4, <1>6 DEF Divides

\* The arrival of a buy keeps every pair.
LEMMA BuyArrivesKeepsPairs ==
  ASSUME QueueInv, LedgerInv, PairsInv, BuyArrives
  PROVE  PairsInv'
<1>1. PICK e \in events : \E f \in BuyFills(orders[e.order]) :
           /\ BuyTakes(e, f) /\ f.quantity \in Nat /\ f.debit \in Nat
  BY BuyArrivesTakes
<1>2. PICK f : BuyTakes(e, f) /\ f.quantity \in Nat /\ f.debit \in Nat
  BY <1>1
<1>3. PICK c, l : c = orders[e.order].attempt /\ l = orders[e.order].leg
  OBVIOUS
<1> DEFINE n == e.order
<1>4. /\ orders \in Seq(OrderRecord) /\ n \in DOMAIN orders /\ n \in 1..Len(orders)
      /\ c \in Constraint /\ l \in Leg /\ c \in Attempted
  BY <1>3, EventFacts DEF QueueInv, QueueTypeOK
<1>5. ~orders[n].sell /\ ~orders[n].responded
  BY <1>2 DEF QueueInv, QueueSound, EventSound, BuyTakes
<1>6. /\ ArrivedOnly(orders', orders, n) /\ UNCHANGED <<policy, settlement_index>>
  <2>1. orders' = BuyFilled(orders, n, f.quantity, f.debit) /\ UNCHANGED <<policy, settlement_index>>
    BY <1>2 DEF BuyTakes
  <2> HIDE DEF n
  <2> QED
    BY <1>2, <1>4, <2>1, BuyArrivedOrders
<1>7. \A d \in Constraint : OpenBuys(d)' = OpenBuys(d) /\ Sells(d)' = Sells(d)
  BY <1>4, <1>6, ArrivalKeepsSides
<1>8. /\ \A d \in Constraint : /\ attempts'[d].quantity = attempts[d].quantity
                               /\ attempts'[d].pending_buys = attempts[d].pending_buys
      /\ \A d \in Constraint \ {c} : attempts'[d] = attempts[d]
      /\ attempts'[c].filled = [attempts[c].filled EXCEPT ![l] = @ + f.quantity]
  BY <1>2, <1>3, BuyTakesAttempts
<1>9. /\ OtherLotsKept(lots', lots, c, l)
      /\ QuantityOf(lots'[c][l]) = QuantityOf(lots[c][l]) + f.quantity
  BY <1>2, <1>3, BuyTakesLots
<1>10. Attempted' = Attempted /\ Settled' = Settled
  BY <1>6, <1>8 DEF Attempted, Settled
<1>11. Sells(c) = {}
  <2>1. n \in OpenBuys(c)
    BY <1>3, <1>4, <1>5 DEF OpenBuys
  <2> QED
    BY <1>4, <2>1 DEF PairsInv, PairSound
<1>12. ASSUME NEW d \in Constraint, d # c  PROVE PairSound(d)'
  <2>1. PairSound(d) /\ attempts'[d] = attempts[d] /\ \A k \in Leg : lots'[d][k] = lots[d][k]
    BY <1>8, <1>9, <1>12 DEF PairsInv, OtherLotsKept
  <2>2. \A i \in Sells(d) : orders'[i] = orders[i]
    BY <1>3, <1>6, <1>12 DEF Sells, ArrivedOnly
  <2>3. d \notin Attempted => \A k \in Leg : QuantityOf(lots'[d][k]) = 0
    BY <2>1 DEF PairSound
  <2> HIDE DEF n
  <2> QED
    BY <1>6, <1>7, <1>10, <2>1, <2>2, <2>3, PairUntouched
<1>13. PairSound(c)'
  <2>1. PairSound(c)
    BY <1>4 DEF PairsInv
  <2>2. ASSUME NEW k \in Leg  PROVE LegSound(c, k)'
    <3> SUFFICES ASSUME LegMarket[c][k] \notin Settled
                 PROVE  /\ QuantityOf(lots'[c][k]) = attempts'[c].filled[k]
                        /\ QuantityOf(lots'[c][k]) >= Matched(c)'
      BY <1>4, <1>7, <1>10, <1>11 DEF LegSound
    <3>1. QuantityOf(lots[c][k]) = attempts[c].filled[k]
      BY <1>11, <2>1 DEF PairSound, LegSound
    <3>2. attempts[c].filled \in [Leg -> Nat]
      <4>1. attempts[c] \in AttemptRecord
        BY <1>4 DEF QueueInv, QueueTypeOK
      <4> QED
        BY <4>1 DEF AttemptRecord
    <3>3. QuantityOf(lots'[c][k]) = attempts'[c].filled[k]
      <4>1. CASE k = l
        BY <1>4, <1>8, <1>9, <3>1, <3>2, <4>1
      <4>2. CASE k # l
        BY <1>4, <1>8, <1>9, <3>1, <3>2, <4>2 DEF OtherLotsKept
      <4> QED
        BY <4>1, <4>2
    <3>4. Matched(c)' <= attempts'[c].filled[k] /\ attempts'[c].filled[k] \in Nat
                                                 /\ Matched(c)' \in Nat
      <4>1. attempts'[c].filled \in [Leg -> Nat]
        BY <1>2, <1>4, <1>8, <3>2
      <4>2. /\ attempts'[c].filled[1] \in Nat /\ attempts'[c].filled[2] \in Nat
            /\ k = 1 \/ k = 2
        BY <4>1 DEF Leg
      <4> QED
        BY <4>2 DEF Matched, Smaller
    <3> QED
      BY <3>3, <3>4
  <2> QED
    BY <1>4, <1>6, <1>7, <1>8, <1>10, <1>11, <2>1, <2>2 DEF PairSound
<1> QED
  BY <1>12, <1>13 DEF PairsInv

\* An exit sells only what its pair does not need.
LEMMA ExitArrivesKeepsPairs ==
  ASSUME QueueInv, LedgerInv, PairsInv, ExitArrives
  PROVE  PairsInv'
<1>1. PICK e \in events : \E f \in SaleFills(orders[e.order]) :
           /\ ExitTakes(e, f) /\ f.quantity \in Nat /\ f.credit \in Nat
           /\ f.quantity <= orders[e.order].quantity
           /\ f.quantity <= QuantityOf(lots[orders[e.order].attempt][orders[e.order].leg])
  BY ExitArrivesTakes
<1>2. PICK f : /\ ExitTakes(e, f) /\ f.quantity \in Nat /\ f.credit \in Nat
               /\ f.quantity <= orders[e.order].quantity
               /\ f.quantity <= QuantityOf(lots[orders[e.order].attempt][orders[e.order].leg])
  BY <1>1
<1>3. PICK c, l : c = orders[e.order].attempt /\ l = orders[e.order].leg
  OBVIOUS
<1> DEFINE n == e.order
<1>4. /\ orders \in Seq(OrderRecord) /\ n \in DOMAIN orders /\ n \in 1..Len(orders)
      /\ c \in Constraint /\ l \in Leg /\ c \in Attempted /\ orders[n] \in OrderRecord
  BY <1>3, EventFacts DEF QueueInv, QueueTypeOK
<1>5. orders[n].sell /\ ~orders[n].arrived
  BY <1>2 DEF QueueInv, QueueSound, EventSound, ExitTakes
<1>6. /\ ArrivedOnly(orders', orders, n) /\ UNCHANGED <<policy, attempts, settlement_index>>
  <2>1. /\ orders' = ExitFilled(orders, n, f.quantity, f.credit)
        /\ UNCHANGED <<policy, attempts, settlement_index>>
    BY <1>2 DEF ExitTakes
  <2> HIDE DEF n
  <2> QED
    BY <1>2, <1>4, <2>1, ExitArrivedOrders
<1>7. \A d \in Constraint : OpenBuys(d)' = OpenBuys(d) /\ Sells(d)' = Sells(d)
  BY <1>4, <1>6, ArrivalKeepsSides
<1>8. /\ OtherLotsKept(lots', lots, c, l)
      /\ QuantityOf(lots'[c][l]) = QuantityOf(lots[c][l]) - f.quantity
  BY <1>2, <1>3, ExitTakesLots
<1>9. Attempted' = Attempted /\ Settled' = Settled
  BY <1>6 DEF Attempted, Settled
<1>10. Sells(c) = {n} /\ orders'[n].arrived
  <2>1. n \in Sells(c)
    BY <1>3, <1>4, <1>5 DEF Sells
  <2> QED
    BY <1>4, <1>6, <2>1 DEF PairsInv, PairSound, ArrivedOnly
<1>11. ASSUME NEW d \in Constraint, d # c  PROVE PairSound(d)'
  <2>1. PairSound(d) /\ attempts'[d] = attempts[d] /\ \A k \in Leg : lots'[d][k] = lots[d][k]
    BY <1>6, <1>8, <1>11 DEF PairsInv, OtherLotsKept
  <2>2. \A i \in Sells(d) : orders'[i] = orders[i]
    BY <1>3, <1>6, <1>11 DEF Sells, ArrivedOnly
  <2>3. d \notin Attempted => \A k \in Leg : QuantityOf(lots'[d][k]) = 0
    BY <2>1 DEF PairSound
  <2> HIDE DEF n
  <2> QED
    BY <1>6, <1>7, <1>9, <2>1, <2>2, <2>3, PairUntouched
<1>12. PairSound(c)'
  <2>1. PairSound(c)
    BY <1>4 DEF PairsInv
  <2>2. ASSUME NEW k \in Leg  PROVE LegSound(c, k)'
    <3> SUFFICES ASSUME LegMarket[c][k] \notin Settled
                 PROVE  QuantityOf(lots'[c][k]) >= Matched(c)
      BY <1>4, <1>6, <1>7, <1>9, <1>10 DEF LegSound, Matched
    <3>1. /\ QuantityOf(lots[c][k]) \in Nat /\ Matched(c) \in Nat
          /\ QuantityOf(lots[c][l]) \in Nat
      BY <1>4, PairFacts
    <3>2. /\ QuantityOf(lots[c][k]) >= Matched(c)
          /\ k = l => QuantityOf(lots[c][k]) >= Matched(c) + orders[n].quantity
      <4>1. LegSound(c, k) /\ n \in Sells(c) /\ orders[n].leg = l /\ ~orders[n].arrived
        BY <1>3, <1>5, <1>10, <2>1 DEF PairSound
      <4> HIDE DEF n
      <4> QED
        BY <4>1 DEF LegSound
    <3>3. CASE k = l
      <4>1. orders[n].quantity \in Int /\ f.quantity <= orders[n].quantity
        BY <1>2, <1>4 DEF OrderRecord
      <4>2. PICK u, v : u = QuantityOf(lots[c][k]) /\ v = Matched(c)
        OBVIOUS
      <4>3. u - f.quantity >= v
        BY <1>2, <3>1, <3>2, <3>3, <4>1, <4>2
      <4> QED
        BY <1>8, <3>3, <4>2, <4>3
    <3>4. CASE k # l
      BY <1>4, <1>8, <3>1, <3>2, <3>4 DEF OtherLotsKept
    <3> QED
      BY <3>3, <3>4
  <2>3. c \in Attempted'
    BY <1>4, <1>9
  <2> HIDE DEF n
  <2> QED
    BY <1>4, <1>6, <1>7, <2>1, <2>2, <2>3 DEF PairSound
<1> QED
  BY <1>11, <1>12 DEF PairsInv

\* The response of an exit keeps every pair.
LEMMA ExitRespondsKeepsPairs ==
  ASSUME QueueInv, LedgerInv, PairsInv, ExitResponds
  PROVE  PairsInv'
<1>1. PICK e \in events :
        /\ Takes(e) /\ e.response /\ orders[e.order].sell
        /\ orders' = [orders EXCEPT ![e.order].responded = TRUE]
        /\ UNCHANGED <<policy, now, phase, attempts, lots, settlement_index>>
  BY DEF ExitResponds
<1> DEFINE n == e.order
<1>2. orders \in Seq(OrderRecord) /\ DOMAIN orders = 1..Len(orders) /\ n \in 1..Len(orders)
  BY EventFacts DEF QueueInv, QueueTypeOK
<1>3. orders' = Responded(orders, n)
  BY <1>1 DEF Responded
<1>4. orders[n].sell
  BY <1>1
<1>5. UNCHANGED <<policy, attempts, lots, settlement_index>>
  BY <1>1
<1> HIDE DEF n
<1>6. /\ DOMAIN orders' = DOMAIN orders
      /\ \A i \in DOMAIN orders : i # n => orders'[i] = orders[i]
  <2>1. /\ orders' \in Seq(OrderRecord) /\ Len(orders') = Len(orders)
        /\ \A i \in DOMAIN orders : i # n => orders'[i] = orders[i]
    BY <1>2, <1>3, RespondedOrders
  <2> QED
    BY <1>2, <2>1
<1>7. /\ orders'[n].attempt = orders[n].attempt /\ orders'[n].leg = orders[n].leg
      /\ orders'[n].arrived = orders[n].arrived /\ orders'[n].sell = orders[n].sell
      /\ orders'[n].quantity = orders[n].quantity
  BY <1>2, <1>3, RespondedFields
<1>8. \A c \in Constraint : OpenBuys(c)' = OpenBuys(c) /\ Sells(c)' = Sells(c)
  <2> TAKE c \in Constraint
  <2>1. \A i : i \in OpenBuys(c)' <=> i \in OpenBuys(c)
    BY <1>4, <1>6, <1>7 DEF OpenBuys
  <2>2. \A i : i \in Sells(c)' <=> i \in Sells(c)
    BY <1>6, <1>7 DEF Sells
  <2> QED
    BY <2>1, <2>2
<1>9. \A i \in DOMAIN orders : /\ orders'[i].leg = orders[i].leg
                               /\ orders[i].arrived => orders'[i].arrived
                               /\ orders'[i].quantity = orders[i].quantity
  BY <1>6, <1>7
<1>10. Attempted' = Attempted /\ Settled' = Settled
  BY <1>5 DEF Attempted, Settled
<1>11. ASSUME NEW c \in Constraint  PROVE PairSound(c)'
  <2>1. PairSound(c) /\ (c \notin Attempted => \A k \in Leg : QuantityOf(lots[c][k]) = 0)
    BY DEF PairsInv, PairSound
  <2>2. \A i \in Sells(c) : /\ orders'[i].leg = orders[i].leg
                            /\ orders[i].arrived => orders'[i].arrived
                            /\ orders'[i].quantity = orders[i].quantity
    BY <1>9 DEF Sells
  <2> QED
    BY <1>5, <1>8, <1>10, <2>1, <2>2, PairUntouched
<1> QED
  BY <1>11 DEF PairsInv

\* A settlement closes whole legs only, all of those of its market.
LEMMA SettleKeepsPairs ==
  ASSUME QueueInv, LedgerInv, PairsInv, Settle
  PROVE  PairsInv'
<1>1. /\ settlement_index' = settlement_index + 1
      /\ lots' = [c \in Constraint |-> [l \in Leg |->
                    IF LegMarket[c][l] = NextSettlement.market THEN <<>> ELSE lots[c][l]]]
      /\ UNCHANGED <<policy, attempts, orders>>
  BY DEF Settle
<1>2. Settled \subseteq Settled'
  BY <1>1, SettledGrows
<1>3. NextSettlement.market \in Settled'
  <2>1. settlement_index + 1 \in 1..settlement_index'
    BY <1>1 DEF QueueInv, QueueTypeOK
  <2> QED
    BY <1>1, <2>1 DEF Settled, NextSettlement
<1>4. \A c \in Constraint, l \in Leg :
        lots'[c][l] = IF LegMarket[c][l] = NextSettlement.market THEN <<>> ELSE lots[c][l]
  BY <1>1
<1>5. Attempted' = Attempted
  BY <1>1 DEF Attempted
<1>6. ASSUME NEW c \in Constraint  PROVE PairSound(c)'
  <2>1. PairSound(c)
    BY DEF PairsInv
  <2>2. OpenBuys(c)' = OpenBuys(c) /\ Sells(c)' = Sells(c)
    BY <1>1 DEF OpenBuys, Sells
  <2>3. \A l \in Leg : LegMarket[c][l] \notin Settled' => lots'[c][l] = lots[c][l]
    BY <1>3, <1>4
  <2>4. c \notin Attempted => \A l \in Leg : QuantityOf(lots'[c][l]) = 0
    BY <1>4, <2>1, NoLots DEF PairSound
  <2> QED
    BY <1>1, <1>2, <1>5, <2>1, <2>2, <2>3, <2>4, PairUntouched
<1> QED
  BY <1>6 DEF PairsInv

\* A step that leaves orders, attempts and lots alone keeps every pair.
LEMMA UnchangedPairs ==
  ASSUME PairsInv, UNCHANGED <<policy, attempts, orders, lots, settlement_index>>
  PROVE  PairsInv'
<1>1. /\ Settled' = Settled /\ Attempted' = Attempted
  BY DEF Settled, Attempted
<1>2. ASSUME NEW c \in Constraint  PROVE PairSound(c)'
  <2>1. PairSound(c) /\ (c \notin Attempted => \A k \in Leg : QuantityOf(lots[c][k]) = 0)
    BY DEF PairsInv, PairSound
  <2>2. OpenBuys(c)' = OpenBuys(c) /\ Sells(c)' = Sells(c)
    BY DEF OpenBuys, Sells
  <2> QED
    BY <1>1, <2>1, <2>2, PairUntouched
<1> QED
  BY <1>2 DEF PairsInv

\* An exit is offered when the last buy of its attempt has responded.
LEMMA BuyRespondsKeepsPairs ==
  ASSUME QueueInv, LedgerInv, PairsInv, BuyResponds
  PROVE  PairsInv'
<1>1. PICK e \in events, x \in Nat :
        e.response /\ ~orders[e.order].sell /\ Rebooked(e.order, x)
  BY BuyRespondsBooks, RespondsRebooks
<1>2. PICK c : c = orders[e.order].attempt
  OBVIOUS
<1> DEFINE n == e.order
           m == Len(orders)
<1>3. OrdersAfter(n, x)
  BY <1>1, RespondsOrders
<1>4. /\ orders \in Seq(OrderRecord) /\ n \in 1..m /\ DOMAIN orders = 1..m /\ m \in Nat
      /\ c \in Constraint /\ c \in Attempted /\ ~orders[n].responded /\ ~orders[n].sell
  BY <1>1, <1>2, EventFacts
     DEF QueueInv, QueueTypeOK, QueueSound, EventSound
<1>5. /\ attempts'[c].filled = attempts[c].filled
      /\ attempts'[c].quantity = attempts[c].quantity
      /\ \A d \in Constraint \ {c} : attempts'[d] = attempts[d]
      /\ UNCHANGED <<policy, lots, settlement_index>>
      /\ ~policy.sequential => attempts'[c].pending_buys = attempts[c].pending_buys - 1
  BY <1>1, <1>2 DEF Rebooked
<1>6. /\ orders' \in Seq(OrderRecord) /\ Len(orders') \in {m, m + 1}
      /\ \A i \in 1..m : i # n => orders'[i] = orders[i]
      /\ orders'[n].attempt = c /\ orders'[n].sell = orders[n].sell
      /\ Len(orders') = m + 1 =>
           /\ orders'[m + 1].attempt = c
           /\ orders'[m + 1].sell /\ ~policy.sequential => attempts[c].pending_buys = 1
           /\ orders'[m + 1].sell => ExitOffered(orders'[m + 1], c, attempts[c])
           /\ ~orders'[m + 1].sell => policy.sequential
  BY <1>2, <1>3 DEF OrdersAfter
<1>7. /\ \A d \in Constraint \ {c} :
           OpenBuys(d)' = OpenBuys(d) /\ \A i \in OpenBuys(d) : orders'[i] = orders[i]
      /\ \A i \in OpenBuys(c)' :
           \/ i \in OpenBuys(c) \ {n} /\ orders'[i] = orders[i]
           \/ /\ i = m + 1 /\ Len(orders') = m + 1 /\ ~orders'[i].sell
              /\ policy.sequential
      /\ \A i \in OpenBuys(c) \ {n} : i \in OpenBuys(c)'
  <2> HIDE DEF n, m
  <2>1. /\ \A d \in Constraint \ {c} :
             OpenBuys(d)' = OpenBuys(d) /\ \A i \in OpenBuys(d) : orders'[i] = orders[i]
        /\ \A i \in OpenBuys(c)' :
             \/ i \in OpenBuys(c) \ {e.order} /\ orders'[i] = orders[i]
             \/ /\ i = Len(orders) + 1 /\ Len(orders') = Len(orders) + 1 /\ ~orders'[i].sell
                /\ policy.sequential /\ orders'[i].leg = 2 /\ orders'[i].reserve = x
        /\ \A i \in OpenBuys(c) \ {e.order} : i \in OpenBuys(c)' /\ orders'[i] = orders[i]
    <3>1. OrdersAfter(e.order, x)
      BY <1>3 DEF n
    <3> QED
      BY <1>2, <3>1, OpenBuysAfter
  <2> QED
    BY <2>1 DEF n, m
<1>8. Attempted' = Attempted /\ Settled' = Settled
  BY <1>4, <1>5 DEF Attempted, Settled
<1>9. n \in OpenBuys(c)
  BY <1>2, <1>4 DEF OpenBuys
<1>10. PairSound(c) /\ Sells(c) = {}
  BY <1>4, <1>9 DEF PairsInv, PairSound
<1>11. /\ DOMAIN orders' = 1..Len(orders')
       /\ \A i \in 1..m : i \in DOMAIN orders' /\ i # m + 1
       /\ \A i \in DOMAIN orders' : i \in 1..m \/ (i = m + 1 /\ Len(orders') = m + 1)
       /\ Len(orders') = m + 1 => m + 1 \in DOMAIN orders'
  BY <1>4, <1>6
<1>12. ASSUME NEW d \in Constraint, d # c  PROVE PairSound(d)'
  <2>1. PairSound(d) /\ (d \notin Attempted => \A k \in Leg : QuantityOf(lots[d][k]) = 0)
    BY DEF PairsInv, PairSound
  <2>2. \A i \in Sells(d) : i \in 1..m /\ i # n /\ orders'[i] = orders[i]
    BY <1>2, <1>4, <1>6, <1>12 DEF Sells
  <2> HIDE DEF n, m
  <2>3. \A i \in Sells(d) : i \in Sells(d)'
    BY <1>11, <2>2 DEF Sells
  <2>4. \A i \in Sells(d)' : i \in Sells(d)
    BY <1>4, <1>6, <1>11, <1>12 DEF Sells
  <2>5. Sells(d)' = Sells(d)
    BY <2>3, <2>4
  <2>6. OpenBuys(d)' = OpenBuys(d) /\ attempts'[d] = attempts[d]
    BY <1>5, <1>7, <1>12
  <2> QED
    BY <1>5, <1>8, <2>1, <2>2, <2>5, <2>6, PairUntouched
<1>13. PairSound(c)'
  <2> HIDE DEF n, m
  <2>1. \A i \in Sells(c)' : i = m + 1 /\ Len(orders') = m + 1 /\ orders'[i].sell
    <3> SUFFICES ASSUME NEW i \in Sells(c)'
                 PROVE  i = m + 1 /\ Len(orders') = m + 1 /\ orders'[i].sell
      OBVIOUS
    <3>1. i \in DOMAIN orders' /\ orders'[i].attempt = c /\ orders'[i].sell
      BY DEF Sells
    <3>2. i \in 1..m => i \in Sells(c)
      BY <1>2, <1>4, <1>6, <3>1 DEF Sells, n
    <3> QED
      BY <1>10, <1>11, <3>1, <3>2
  <2>2. Sells(c)' # {} => OpenBuys(c) = {n} /\ OpenBuys(c)' = {}
    <3> SUFFICES ASSUME Sells(c)' # {}  PROVE OpenBuys(c) = {n} /\ OpenBuys(c)' = {}
      OBVIOUS
    <3>1. Len(orders') = m + 1 /\ orders'[m + 1].sell
      BY <2>1
    <3>2. OpenBuys(c) = {n}
      <4>1. CASE policy.sequential
        <5>1. \A i, j \in OpenBuys(c) : i = j
          BY <1>4, <4>1 DEF LedgerInv, ReservationsBacked
        <5> QED
          BY <1>9, <5>1
      <4>2. CASE ~policy.sequential
        <5>1. IsFiniteSet(OpenBuys(c)) /\ Cardinality(OpenBuys(c)) = 1
          BY <1>6, <1>10, <3>1, <4>2 DEF PairSound
        <5>2. PICK y : OpenBuys(c) = {y}
          BY <5>1, FS_Singleton
        <5> QED
          BY <1>9, <5>2
      <4> QED
        BY <4>1, <4>2
    <3>3. \A i : i \notin OpenBuys(c)'
      BY <1>7, <3>1, <3>2
    <3> QED
      BY <3>2, <3>3
  <2>3. ~policy.sequential =>
          IsFiniteSet(OpenBuys(c)') /\ attempts'[c].pending_buys = Cardinality(OpenBuys(c)')
    <3> SUFFICES ASSUME ~policy.sequential
                 PROVE  /\ IsFiniteSet(OpenBuys(c)')
                        /\ attempts'[c].pending_buys = Cardinality(OpenBuys(c)')
      OBVIOUS
    <3>1. OpenBuys(c)' = OpenBuys(c) \ {n}
      BY <1>7
    <3>2. IsFiniteSet(OpenBuys(c)) /\ attempts[c].pending_buys = Cardinality(OpenBuys(c))
      BY <1>10 DEF PairSound
    <3>3. IsFiniteSet(OpenBuys(c) \ {n})
          /\ Cardinality(OpenBuys(c) \ {n}) = Cardinality(OpenBuys(c)) - 1
      BY <1>9, <3>2, FS_RemoveElement
    <3> QED
      BY <1>5, <3>1, <3>2, <3>3
  <2>4. ASSUME NEW l \in Leg  PROVE LegSound(c, l)'
    <3> SUFFICES ASSUME LegMarket[c][l] \notin Settled
                 PROVE  /\ Sells(c)' = {} => QuantityOf(lots[c][l]) = attempts[c].filled[l]
                        /\ QuantityOf(lots[c][l]) >= Matched(c)
                        /\ \A i \in Sells(c)' : orders'[i].leg = l =>
                             QuantityOf(lots[c][l]) >= Matched(c) + orders'[i].quantity
      BY <1>5, <1>8 DEF LegSound, Matched
    <3>1. /\ QuantityOf(lots[c][l]) = attempts[c].filled[l]
          /\ QuantityOf(lots[c][l]) >= Matched(c)
      BY <1>10 DEF PairSound, LegSound
    <3>2. ASSUME NEW i \in Sells(c)', orders'[i].leg = l
          PROVE  QuantityOf(lots[c][l]) >= Matched(c) + orders'[i].quantity
      <4>1. ExitOffered(orders'[i], c, attempts[c])
        BY <1>6, <2>1
      <4>2. PICK k \in Leg, q \in Nat \ {0} :
              /\ orders'[i] = Order(c, k, q, 0, TRUE)
              /\ q <= QuantityOf(lots[c][k]) /\ q <= Unmatched(attempts[c], k)
        BY <4>1 DEF ExitOffered
      <4>3. k = l /\ orders'[i].quantity = q
        BY <3>2, <4>2 DEF Order
      <4>4. PICK u, v : u = attempts[c].filled[1] /\ v = attempts[c].filled[2]
        OBVIOUS
      <4>5. u \in Nat /\ v \in Nat
        BY <1>4, <4>4, PairFacts
      <4>6. CASE l = 1
        <5>1. q <= u - v /\ QuantityOf(lots[c][l]) = u
          BY <3>1, <4>2, <4>3, <4>4, <4>6 DEF Unmatched
        <5>2. u >= Smaller(u, v) + q
          BY <4>5, <5>1 DEF Smaller
        <5> QED
          BY <4>3, <4>4, <5>1, <5>2 DEF Matched
      <4>7. CASE l = 2
        <5>1. q <= v - u /\ QuantityOf(lots[c][l]) = v
          BY <3>1, <4>2, <4>3, <4>4, <4>7 DEF Unmatched
        <5>2. v >= Smaller(u, v) + q
          BY <4>5, <5>1 DEF Smaller
        <5> QED
          BY <4>3, <4>4, <5>1, <5>2 DEF Matched
      <4> QED
        BY <4>6, <4>7 DEF Leg
    <3> QED
      BY <3>1, <3>2
  <2>5. c \in Attempted'
    BY <1>4, <1>8
  <2>6. \A i, j \in Sells(c)' : i = j
    BY <2>1
  <2> QED
    BY <1>5, <2>2, <2>3, <2>4, <2>5, <2>6 DEF PairSound
<1> QED
  BY <1>12, <1>13 DEF PairsInv

\* A decision starts a pair that owns nothing.
LEMMA DecideKeepsPairs ==
  ASSUME QueueInv, LedgerInv, PairsInv, NEW c \in Constraint, NEW q \in 1..QuantityCap,
         NEW r \in [Leg -> Reserves], Decide(c, q, r)
  PROVE  PairsInv'
<1>1. c \notin Attempted /\ UNCHANGED <<policy, lots, settlement_index>>
  BY DEF Decide
<1>2. \A i \in DOMAIN orders : orders[i].attempt # c
  BY <1>1, NothingHeld
<1>3. /\ attempts'[c].pending_buys = Sent
      /\ attempts'[c].filled[1] = 0 /\ attempts'[c].filled[2] = 0
      /\ \A d \in Constraint \ {c} : attempts'[d] = attempts[d]
      /\ Attempted \subseteq Attempted' /\ c \in Attempted'
  BY DecideHoldings, DecideAttempts
<1>4. PICK m, k : /\ m = Len(orders) /\ k = Sent /\ m \in Nat /\ k \in {1, 2}
                  /\ ~policy.sequential => k = 2
  BY DEF QueueInv, QueueTypeOK, Sent
<1>5. /\ DOMAIN orders = 1..m /\ DOMAIN orders' = 1..(m + k)
      /\ \A i \in 1..m : orders'[i] = orders[i]
      /\ \A j \in 1..k : orders'[m + j] = Order(c, j, q, r[j], FALSE)
  <2>1. orders \in Seq(OrderRecord)
    BY DEF QueueInv, QueueTypeOK
  <2>2. /\ orders' \in Seq(OrderRecord) /\ Len(orders') = Len(orders) + Sent
        /\ \A i \in 1..Len(orders) : orders'[i] = orders[i]
        /\ \A j \in 1..Sent : orders'[Len(orders) + j] = Order(c, j, q, r[j], FALSE)
    BY DecideOrders
  <2>3. /\ Len(orders) = m /\ Len(orders') = m + k
        /\ \A i \in 1..m : orders'[i] = orders[i]
        /\ \A j \in 1..k : orders'[m + j] = Order(c, j, q, r[j], FALSE)
    BY <1>4, <2>2, Zenon
  <2>4. DOMAIN orders = 1..Len(orders) /\ DOMAIN orders' = 1..Len(orders')
    BY <2>1, <2>2
  <2> QED
    BY <2>3, <2>4, Zenon
<1>6. \A j \in 1..k : /\ orders'[m + j].attempt = c
                      /\ ~orders'[m + j].sell /\ ~orders'[m + j].responded
  <2> TAKE j \in 1..k
  <2>1. PICK o : o = orders'[m + j] /\ o = Order(c, j, q, r[j], FALSE)
    BY <1>5
  <2>2. o.attempt = c /\ ~o.sell /\ ~o.responded
    BY <2>1 DEF Order
  <2> QED
    BY <2>1, <2>2
<1>7. \A i \in 1..(m + k) : i \in 1..m \/ \E j \in 1..k : i = m + j
  <2> SUFFICES ASSUME NEW i \in 1..(m + k), i \notin 1..m  PROVE \E j \in 1..k : i = m + j
    OBVIOUS
  <2>1. i - m \in 1..k /\ i = m + (i - m)
    BY <1>4
  <2> QED
    BY <2>1
<1>8. /\ \A j \in 1..k : m + j \in 1..(m + k) /\ m + j \notin 1..m
      /\ \A i \in 1..m : i \in 1..(m + k)
  BY <1>4
<1>9. Settled' = Settled
  BY <1>1 DEF Settled
<1>10. ASSUME NEW d \in Constraint, d # c  PROVE PairSound(d)'
  <2>1. PairSound(d) /\ (d \notin Attempted => \A l \in Leg : QuantityOf(lots[d][l]) = 0)
    BY DEF PairsInv, PairSound
  <2>2. \A i : i \in Sells(d)' <=> i \in Sells(d)
    BY <1>5, <1>6, <1>7, <1>8, <1>10 DEF Sells
  <2>3. \A i : i \in OpenBuys(d)' <=> i \in OpenBuys(d)
    BY <1>5, <1>6, <1>7, <1>8, <1>10 DEF OpenBuys
  <2>4. Sells(d)' = Sells(d) /\ OpenBuys(d)' = OpenBuys(d)
    BY <2>2, <2>3
  <2>5. \A i \in Sells(d) : orders'[i] = orders[i]
    BY <1>5 DEF Sells
  <2>6. attempts'[d] = attempts[d] /\ (d \in Attempted => d \in Attempted')
    BY <1>3, <1>10
  <2> QED
    BY <1>1, <1>9, <2>1, <2>4, <2>5, <2>6, PairUntouched
<1>11. PairSound(c)'
  <2>1. Sells(c)' = {}
    <3>1. \A i : i \notin Sells(c)'
      BY <1>2, <1>5, <1>6, <1>7 DEF Sells
    <3> QED
      BY <3>1
  <2>2. ~policy.sequential =>
          IsFiniteSet(OpenBuys(c)') /\ attempts'[c].pending_buys = Cardinality(OpenBuys(c)')
    <3> SUFFICES ASSUME ~policy.sequential
                 PROVE  /\ IsFiniteSet(OpenBuys(c)')
                        /\ attempts'[c].pending_buys = Cardinality(OpenBuys(c)')
      OBVIOUS
    <3>1. k = 2 /\ 1 \in 1..k /\ 2 \in 1..k /\ (\A j \in 1..k : j = 1 \/ j = 2) /\ m + 1 # m + 2
      BY <1>4
    <3>2. \A i : i \in OpenBuys(c)' <=> i = m + 1 \/ i = m + 2
      <4>1. \A i : i \in OpenBuys(c)' => \E j \in 1..k : i = m + j
        BY <1>2, <1>5, <1>7 DEF OpenBuys
      <4>2. \A j \in 1..k : m + j \in OpenBuys(c)'
        BY <1>5, <1>6, <1>8 DEF OpenBuys
      <4> QED
        BY <3>1, <4>1, <4>2
    <3>3. PICK a, b : a = m + 1 /\ b = m + 2
      OBVIOUS
    <3>4. OpenBuys(c)' = {a} \cup {b} /\ b \notin {a}
      BY <3>1, <3>2, <3>3
    <3>5. IsFiniteSet({a}) /\ Cardinality({a}) = 1
      BY FS_Singleton
    <3>6. IsFiniteSet({a} \cup {b}) /\ Cardinality({a} \cup {b}) = Cardinality({a}) + 1
      BY <3>4, <3>5, FS_AddElement
    <3>7. attempts'[c].pending_buys = 2
      BY <1>3, <1>4, <3>1
    <3> QED
      BY <3>4, <3>5, <3>6, <3>7
  <2>3. ASSUME NEW l \in Leg  PROVE LegSound(c, l)'
    <3>1. QuantityOf(lots'[c][l]) = 0
      BY <1>1 DEF PairsInv, PairSound
    <3>2. attempts'[c].filled[l] = 0 /\ Matched(c)' = 0
      BY <1>3 DEF Matched, Smaller, Leg
    <3> QED
      BY <2>1, <3>1, <3>2 DEF LegSound
  <2> QED
    BY <1>1, <1>3, <2>1, <2>2, <2>3 DEF PairSound
<1> QED
  BY <1>10, <1>11 DEF PairsInv

\* No pair owns anything at the start.
LEMMA PairsStartSound == Init => PairsInv
<1> SUFFICES ASSUME Init  PROVE PairsInv
  OBVIOUS
<1>1. /\ orders = <<>> /\ attempts = [c \in Constraint |-> NoAttempt]
      /\ lots = [c \in Constraint |-> [l \in Leg |-> <<>>]]
  BY DEF Init
<1>2. /\ NoAttempt.filled = [l \in Leg |-> 0] /\ NoAttempt.pending_buys = 0
  BY DEF NoAttempt
<1>3. ASSUME NEW c \in Constraint  PROVE PairSound(c)
  <2>1. OpenBuys(c) = {} /\ Sells(c) = {}
    BY <1>1 DEF OpenBuys, Sells
  <2>2. \A l \in Leg : QuantityOf(lots[c][l]) = 0 /\ attempts[c].filled[l] = 0
    BY <1>1, <1>2, NoLots
  <2>3. Matched(c) = 0
    BY <2>2 DEF Matched, Smaller, Leg
  <2>4. IsFiniteSet(OpenBuys(c)) /\ Cardinality(OpenBuys(c)) = 0 /\ attempts[c].pending_buys = 0
    BY <1>1, <1>2, <2>1, FS_EmptySet
  <2> QED
    BY <2>1, <2>2, <2>3, <2>4 DEF PairSound, LegSound
<1> QED
  BY <1>3 DEF PairsInv

\* Every step keeps every pair.
LEMMA StepKeepsPairsInv == QueueInv /\ LedgerInv /\ PairsInv /\ [Next]_vars => PairsInv'
<1> SUFFICES ASSUME QueueInv, LedgerInv, PairsInv, [Next]_vars  PROVE PairsInv'
  OBVIOUS
<1>1. ASSUME NEW c \in Constraint, NEW q \in 1..QuantityCap, NEW r \in [Leg -> Reserves],
             Decide(c, q, r)
      PROVE  PairsInv'
  BY <1>1, DecideKeepsPairs
<1>2. CASE BuyArrives
  BY <1>2, BuyArrivesKeepsPairs
<1>3. CASE BuyResponds
  BY <1>3, BuyRespondsKeepsPairs
<1>4. CASE ExitArrives
  BY <1>4, ExitArrivesKeepsPairs
<1>5. CASE ExitResponds
  BY <1>5, ExitRespondsKeepsPairs
<1>6. CASE Settle
  BY <1>6, SettleKeepsPairs
<1>7. ASSUME NEW t \in 1..MaxTime, Frame(t)  PROVE PairsInv'
  BY <1>7, UnchangedPairs DEF Frame
<1>8. CASE Finish
  BY <1>8, UnchangedPairs DEF Finish
<1>9. CASE UNCHANGED vars
  BY <1>9, UnchangedPairs DEF vars
<1> QED
  BY <1>1, <1>2, <1>3, <1>4, <1>5, <1>6, <1>7, <1>8, <1>9 DEF Next, Terminated

\* "No short sale or paired-leg unwind": an exit is offered once, after every
\* buy of its attempt has responded and for no more than the unmatched part, so
\* that whatever it fills the pair keeps its matched contracts until a market
\* settles.
THEOREM PairsAreNeverUnwound == Spec => []PairsNeverUnwound
<1>1. PairsInv => PairsNeverUnwound
  BY DEF PairsInv, PairSound, LegSound, PairsNeverUnwound, Matched, Attempted
<1> QED
  BY <1>1, LedgerInvariant, PairsStartSound, StepKeepsPairsInv, PTL DEF Spec
=============================================================================
