------------------------- MODULE ResilientClientProofs -------------------------
(***************************************************************************)
(* Proofs about ResilientClient, for any set of tasks, any sharing of      *)
(* clients and any setting of retries, concurrency and breaker.            *)
(***************************************************************************)
EXTENDS ResilientClient, FiniteSetTheorems, SequenceTheorems, TLAPS

(* What the locals of a call and its two counters satisfy at each of the   *)
(* points where it can be found: the strengthening that makes the type     *)
(* invariant and the accounting inductive.                                 *)
IdleShape(c) == pc[c] = "idle" =>
    attempt[c] = 0 /\ sends[c] = 0 /\ httpErrors[c] = 0 /\ last[c] = NoAnswer
QueuedShape(c) == pc[c] = "queued" =>
    attempt[c] >= 1 /\ sends[c] = attempt[c] - 1 /\ httpErrors[c] = sends[c]
InFlightShape(c) == pc[c] = "inflight" =>
    attempt[c] >= 1 /\ sends[c] = attempt[c] /\ httpErrors[c] = sends[c] - 1
BackoffShape(c) == pc[c] = "backoff" =>
    /\ attempt[c] \in 1..MaxRetries
    /\ sends[c] = attempt[c] /\ httpErrors[c] = sends[c]
    /\ last[c] \in Answers

(* The request counter never runs ahead of the answered requests. *)
CountShape(c) ==
    /\ httpRequests[c] <= sends[c]
    /\ pc[c] = "inflight" => httpRequests[c] < sends[c]

CallShape(c) ==
    /\ IdleShape(c)
    /\ QueuedShape(c)
    /\ InFlightShape(c)
    /\ BackoffShape(c)
    /\ CountShape(c)

(* Everything the invariant says of one call. *)
CallOK(c) == CallShape(c) /\ Repeatable(c) /\ Accounted(c) /\ Caused(c)
CallsOK == \A c \in Tasks : CallOK(c)

BreakerInv == BreakerTypeOK /\ BreakerConsistent

SlotsOK == slots \in [Clients -> Nat] /\ SemaphoreConserved

CallTypeOK ==
    /\ pc \in [Tasks -> PCs]
    /\ attempt \in [Tasks -> 0..Attempts]
    /\ last \in [Tasks -> Answers \cup {NoAnswer}]
    /\ result \in [Tasks -> Results]
    /\ waiters \in [Clients -> Seq(Tasks)]
    /\ sends \in [Tasks -> 0..Attempts]
    /\ httpRequests \in [Tasks -> 0..Attempts]
    /\ httpErrors \in [Tasks -> 0..Attempts]

IInv ==
    /\ BreakerInv
    /\ SlotsOK
    /\ CallTypeOK
    /\ CallsOK

-----------------------------------------------------------------------------
(* The breaker. *)

(* What any step of the process may do to the breaker. *)
BreakerStep ==
    \/ Admit
    \/ Refuse
    \/ RecordSuccess
    \/ RecordFailure
    \/ CooldownTick
    \/ UNCHANGED breakerVars

(* The breaker's count and its opening time stay in their ranges and agree *)
(* with each other whatever is called next.                                *)
LEMMA BreakerPreserved ==
    ASSUME BreakerInv, BreakerStep
    PROVE  BreakerInv'
<1> USE BreakerAssumption
    DEF BreakerInv, BreakerTypeOK, BreakerConsistent, Open, CoolingDown, Closed
<1>1. CASE Admit
  BY <1>1 DEF Admit, breakerVars
<1>2. CASE Refuse
  BY <1>2 DEF Refuse, breakerVars
<1>3. CASE RecordSuccess
  BY <1>3 DEF RecordSuccess
<1>4. CASE RecordFailure
  BY <1>4 DEF RecordFailure, breakerVars
<1>5. CASE CooldownTick
  BY <1>5 DEF CooldownTick
<1>6. CASE UNCHANGED breakerVars
  BY <1>6 DEF breakerVars
<1>7. QED
  BY <1>1, <1>2, <1>3, <1>4, <1>5, <1>6 DEF BreakerStep

(* Every step of the process uses the breaker through its operations. *)
LEMMA StepsUseBreaker == [Next]_vars => BreakerStep
<1> SUFFICES ASSUME [Next]_vars
             PROVE  BreakerStep
  OBVIOUS
<1> USE DEF BreakerStep
<1>1. CASE Tick
  BY <1>1 DEF Tick
<1>2. ASSUME NEW c \in Tasks, TaskStep(c)
      PROVE  BreakerStep
  BY <1>2 DEF TaskStep, Begin, ShortCircuit, Grant, Answer, ReportToBreaker,
              Wake, Cancel, Return
<1>3. CASE UNCHANGED vars
  BY <1>3 DEF vars
<1>4. QED
  BY <1>1, <1>2, <1>3 DEF Next

-----------------------------------------------------------------------------
(* The semaphores. *)

(* A task's own step is the only thing that can change its client's set of *)
(* requests in flight.                                                     *)
LEMMA InFlightFinite ==
    ASSUME NEW k \in Clients
    PROVE  IsFiniteSet(InFlight(k)) /\ Cardinality(InFlight(k)) \in Nat
<1>1. InFlight(k) \subseteq Tasks
  BY DEF InFlight
<1>2. QED
  BY <1>1, ClientAssumption, FS_Subset, FS_CardinalityType

(* Taking a slot puts one more request on the wire. *)
LEMMA SlotTaken ==
    ASSUME SlotsOK, pc \in [Tasks -> PCs], NEW c \in Tasks,
           pc[c] # "inflight", slots[ClientOf[c]] > 0,
           pc' = [pc EXCEPT ![c] = "inflight"],
           slots' = [slots EXCEPT ![ClientOf[c]] = @ - 1]
    PROVE  SlotsOK'
<1>1. ClientOf[c] \in Clients
  BY ClientAssumption
<1>2. slots' \in [Clients -> Nat]
  BY <1>1 DEF SlotsOK
<1>3. ASSUME NEW k \in Clients
      PROVE  slots'[k] + Cardinality(InFlight(k)') = MaxConcurrency
  <2>1. CASE k = ClientOf[c]
    <3>1. InFlight(k)' = InFlight(k) \cup {c} /\ c \notin InFlight(k)
      BY <2>1 DEF InFlight
    <3>2. Cardinality(InFlight(k)') = Cardinality(InFlight(k)) + 1
      BY <3>1, InFlightFinite, FS_AddElement
    <3>3. slots'[k] = slots[k] - 1
      BY <2>1 DEF SlotsOK
    <3>4. slots[k] \in Nat /\ slots[k] + Cardinality(InFlight(k)) = MaxConcurrency
      BY DEF SlotsOK, SemaphoreConserved
    <3>5. QED
      BY <3>2, <3>3, <3>4, InFlightFinite
  <2>2. CASE k # ClientOf[c]
    <3>1. InFlight(k)' = InFlight(k)
      BY <2>2 DEF InFlight
    <3>2. slots'[k] = slots[k]
      BY <2>2 DEF SlotsOK
    <3>3. QED
      BY <3>1, <3>2 DEF SlotsOK, SemaphoreConserved
  <2>3. QED
    BY <2>1, <2>2
<1>4. QED
  BY <1>2, <1>3 DEF SlotsOK, SemaphoreConserved

(* A request that comes back, or is abandoned, gives its slot back. *)
LEMMA SlotReleased ==
    ASSUME SlotsOK, pc \in [Tasks -> PCs], NEW c \in Tasks, NEW p,
           pc[c] = "inflight", p # "inflight",
           pc' = [pc EXCEPT ![c] = p],
           ReleaseSlot(c)
    PROVE  SlotsOK'
<1> USE DEF ReleaseSlot
<1>1. ClientOf[c] \in Clients
  BY ClientAssumption
<1>2. slots' \in [Clients -> Nat]
  BY <1>1 DEF SlotsOK
<1>3. ASSUME NEW k \in Clients
      PROVE  slots'[k] + Cardinality(InFlight(k)') = MaxConcurrency
  <2>1. CASE k = ClientOf[c]
    <3>1. InFlight(k)' = InFlight(k) \ {c} /\ c \in InFlight(k)
      BY <2>1 DEF InFlight
    <3>2. Cardinality(InFlight(k)') = Cardinality(InFlight(k)) - 1
      BY <3>1, InFlightFinite, FS_RemoveElement
    <3>3. slots'[k] = slots[k] + 1
      BY <2>1 DEF SlotsOK
    <3>4. slots[k] \in Nat /\ slots[k] + Cardinality(InFlight(k)) = MaxConcurrency
      BY DEF SlotsOK, SemaphoreConserved
    <3>5. QED
      BY <3>2, <3>3, <3>4, InFlightFinite
  <2>2. CASE k # ClientOf[c]
    <3>1. InFlight(k)' = InFlight(k)
      BY <2>2 DEF InFlight
    <3>2. slots'[k] = slots[k]
      BY <2>2 DEF SlotsOK
    <3>3. QED
      BY <3>1, <3>2 DEF SlotsOK, SemaphoreConserved
  <2>3. QED
    BY <2>1, <2>2
<1>4. QED
  BY <1>2, <1>3 DEF SlotsOK, SemaphoreConserved

(* Every other move of a task leaves the semaphores alone. *)
LEMMA SlotsKept ==
    ASSUME SlotsOK, pc \in [Tasks -> PCs], NEW c \in Tasks, NEW p,
           pc[c] # "inflight", p # "inflight",
           pc' = [pc EXCEPT ![c] = p],
           UNCHANGED slots
    PROVE  SlotsOK'
<1>1. ASSUME NEW k \in Clients
      PROVE  InFlight(k)' = InFlight(k)
  BY DEF InFlight
<1>2. QED
  BY <1>1 DEF SlotsOK, SemaphoreConserved

-----------------------------------------------------------------------------
(* The calls. *)

(* A step of one task leaves every other call as it was. *)
Untouched(c) ==
    /\ pc'[c] = pc[c] /\ attempt'[c] = attempt[c]
    /\ last'[c] = last[c] /\ result'[c] = result[c]
    /\ sends'[c] = sends[c]
    /\ httpRequests'[c] = httpRequests[c] /\ httpErrors'[c] = httpErrors[c]

(* A step that leaves the counters and the phase of a call alone keeps what *)
(* the invariant says of it.                                               *)
LEMMA UntouchedOK ==
    ASSUME NEW c \in Tasks, CallOK(c), Untouched(c)
    PROVE  CallOK(c)'
BY DEF CallOK, Untouched, CallShape, IdleShape, QueuedShape, InFlightShape,
       BackoffShape, CountShape, Repeatable, Active, Accounted, Caused, Stopped

(* So a step of a task preserves the invariant of the calls once it        *)
(* preserves the task's own.                                               *)
LEMMA OwnCallSuffices ==
    ASSUME CallTypeOK, CallsOK, NEW c \in Tasks, TaskStep(c), CallOK(c)'
    PROVE  CallsOK'
<1>1. ASSUME NEW d \in Tasks, d # c
      PROVE  Untouched(d)
  BY <1>1 DEF CallTypeOK, Untouched, TaskStep, Begin, ShortCircuit, Grant, Answer, Wake,
              Cancel, Return, StartAttempt, TakeSlot, JoinWaiters, Record, Finish,
              CancelQueued, CancelInFlight, CancelBackoff, semVars, metricVars
<1>2. QED
  BY <1>1, UntouchedOK DEF CallsOK

(* The first attempt, or the next one: the call takes a slot or gets in    *)
(* line for one.                                                           *)
LEMMA StartAttemptKeeps ==
    ASSUME SlotsOK, CallTypeOK, NEW c \in Tasks, CallOK(c),
           pc[c] \in {"idle", "backoff"}, StartAttempt(c)
    PROVE  SlotsOK' /\ CallTypeOK' /\ CallOK(c)'
<1> USE ClientAssumption DEF StartAttempt
<1>1. pc \in [Tasks -> PCs] /\ ClientOf[c] \in Clients
  BY DEF CallTypeOK
<1>2. attempt[c] \in 0..MaxRetries /\ sends[c] = attempt[c]
  BY DEF CallTypeOK, CallOK, CallShape, IdleShape, BackoffShape
<1>3. attempt' \in [Tasks -> 0..Attempts]
  BY <1>2 DEF CallTypeOK, Attempts
<1>4. CASE TakeSlot(c)
  <2>1. SlotsOK'
    BY <1>1, <1>4, SlotTaken DEF TakeSlot
  <2>2. CallTypeOK'
    BY <1>2, <1>3, <1>4 DEF TakeSlot, CallTypeOK, PCs, Attempts
  <2>3. CallOK(c)'
    BY <1>2, <1>4 DEF TakeSlot, CallTypeOK, CallOK, CallShape, IdleShape, QueuedShape,
        InFlightShape, BackoffShape, CountShape, Repeatable, Active, Accounted, Caused, Attempts
  <2>4. QED
    BY <2>1, <2>2, <2>3
<1>5. CASE JoinWaiters(c)
  <2>1. SlotsOK'
    BY <1>1, <1>5, SlotsKept DEF JoinWaiters
  <2>2. Append(waiters[ClientOf[c]], c) \in Seq(Tasks)
    BY <1>1, AppendProperties DEF CallTypeOK
  <2>3. CallTypeOK'
    BY <1>3, <1>5, <2>2 DEF JoinWaiters, CallTypeOK, PCs
  <2>4. CallOK(c)'
    BY <1>2, <1>5 DEF JoinWaiters, CallTypeOK, CallOK, CallShape, IdleShape, QueuedShape,
        InFlightShape, BackoffShape, CountShape, Repeatable, Active, Accounted, Caused, Attempts
  <2>5. QED
    BY <2>1, <2>3, <2>4
<1>6. QED
  BY <1>4, <1>5

(* A refused call sends nothing: it ends with the one error it recorded. *)
LEMMA ShortCircuitKeeps ==
    ASSUME SlotsOK, CallTypeOK, NEW c \in Tasks, CallOK(c), ShortCircuit(c)
    PROVE  SlotsOK' /\ CallTypeOK' /\ CallOK(c)'
<1> USE ClientAssumption DEF ShortCircuit, semVars
<1>1. SlotsOK'
  BY SlotsKept DEF CallTypeOK
<1>2. CallTypeOK'
  BY DEF CallTypeOK, PCs, Results, CallOK, CallShape, IdleShape, Attempts
<1>3. /\ pc'[c] = "done" /\ result'[c] = "circuit_open" /\ sends'[c] = 0 /\ httpErrors'[c] = 1
      /\ httpRequests'[c] \in Nat /\ httpRequests'[c] <= sends'[c] /\ last'[c] = last[c]
  BY DEF CallTypeOK, CallOK, CallShape, IdleShape, CountShape, Attempts
<1>4. Accounted(c)'
  BY <1>3 DEF Accounted, Stopped, Transport
<1>5. CallOK(c)'
  BY <1>3, <1>4 DEF CallOK, CallShape, IdleShape, QueuedShape, InFlightShape, BackoffShape,
         CountShape, Repeatable, Active, Caused, Stopped
<1>6. QED
  BY <1>1, <1>2, <1>5

(* The first waiter leaves the queue with the free slot, as its request    *)
(* goes out.                                                               *)
LEMMA GrantKeeps ==
    ASSUME SlotsOK, CallTypeOK, NEW c \in Tasks, CallOK(c), Grant(c)
    PROVE  SlotsOK' /\ CallTypeOK' /\ CallOK(c)'
<1> USE ClientAssumption
<1>1. pc \in [Tasks -> PCs] /\ ClientOf[c] \in Clients
  BY DEF CallTypeOK
<1>2. SlotsOK'
  BY <1>1, SlotTaken DEF Grant
<1>3. Tail(waiters[ClientOf[c]]) \in Seq(Tasks)
  BY <1>1, HeadTailProperties DEF CallTypeOK, Grant
<1>4. sends[c] \in 0..MaxRetries
  BY DEF CallTypeOK, CallOK, CallShape, QueuedShape, Attempts, Grant
<1>5. CallTypeOK'
  <2>1. waiters' \in [Clients -> Seq(Tasks)]
    <3> DEFINE rest == Tail(waiters[ClientOf[c]])
    <3>1. waiters' = [waiters EXCEPT ![ClientOf[c]] = rest] /\ rest \in Seq(Tasks)
      BY <1>3 DEF Grant
    <3> HIDE DEF rest
    <3>2. QED
      BY <1>1, <3>1 DEF CallTypeOK
  <2>2. sends' \in [Tasks -> 0..Attempts]
    <3>1. sends' = [sends EXCEPT ![c] = @ + 1]
      BY DEF Grant
    <3>2. QED
      BY <1>4, <3>1 DEF CallTypeOK, Attempts
  <2>3. QED
    BY <2>1, <2>2 DEF CallTypeOK, PCs, Grant
<1>6. CallOK(c)'
  BY DEF CallTypeOK, CallOK, CallShape, IdleShape, QueuedShape, InFlightShape, BackoffShape,
         CountShape, Repeatable, Active, Accounted, Caused, Grant
<1>7. QED
  BY <1>2, <1>5, <1>6

(* An answer frees the slot and ends the call, or leaves it sleeping before *)
(* an attempt it still has.                                                *)
LEMMA AnswerKeeps ==
    ASSUME SlotsOK, CallTypeOK, NEW c \in Tasks, CallOK(c),
           NEW a \in Answers, Answer(c, a)
    PROVE  SlotsOK' /\ CallTypeOK' /\ CallOK(c)'
<1> USE ClientAssumption DEF Answer
<1>1. pc \in [Tasks -> PCs]
  BY DEF CallTypeOK
<1>2. /\ attempt[c] \in 1..Attempts /\ sends[c] = attempt[c]
      /\ httpErrors[c] = sends[c] - 1
      /\ httpRequests[c] \in 0..MaxRetries /\ httpRequests[c] < sends[c]
  BY DEF CallTypeOK, CallOK, CallShape, InFlightShape, CountShape, Attempts
<1>3. /\ httpRequests' \in [Tasks -> 0..Attempts]
      /\ httpErrors' \in [Tasks -> 0..Attempts]
  BY <1>2 DEF Record, CallTypeOK, Attempts
<1>4. CASE Retries(c, a)
  <2>1. pc' = [pc EXCEPT ![c] = "backoff"] /\ UNCHANGED result
    BY <1>4
  <2>2. SlotsOK'
    BY <1>1, <2>1, SlotReleased
  <2>3. CallTypeOK'
    BY <1>3, <2>1 DEF CallTypeOK, PCs
  <2>4. a # "ok" /\ a # "garbage"
    BY <1>4 DEF Retries, Recoverable, Transport, IsRetryableStatus
  <2>5. CallOK(c)'
    BY <1>2, <1>4, <2>1, <2>4 DEF CallTypeOK, CallOK, CallShape, IdleShape, QueuedShape,
        InFlightShape, BackoffShape, CountShape, Repeatable, Active, Accounted, Caused,
        Record, Retries, Attempts
  <2>6. QED
    BY <2>2, <2>3, <2>5
<1>5. CASE ~Retries(c, a)
  <2>1. Finish(c, Reason(a))
    BY <1>5
  <2>2. SlotsOK'
    BY <1>1, <2>1, SlotReleased DEF Finish
  <2>3. Reason(a) \in Results \ {"none", "circuit_open", "cancelled"}
    BY DEF Reason, Results, Answers, Transport, Statuses
  <2>4. CallTypeOK'
    BY <1>3, <2>1, <2>3 DEF CallTypeOK, Finish, PCs
  <2>5. Reason(a) = "ok" <=> a = "ok"
    BY DEF Reason, Answers, Transport, Statuses
  <2>6. pc'[c] = "done" /\ result'[c] = Reason(a) /\ last'[c] = a
    BY <2>1 DEF CallTypeOK, Finish
  <2>7. CallShape(c)' /\ Repeatable(c)'
    <3>1. httpRequests'[c] <= sends'[c]
      BY <1>2 DEF CallTypeOK, Record
    <3>2. QED
      BY <2>6, <3>1 DEF CallShape, IdleShape, QueuedShape, InFlightShape,
          BackoffShape, CountShape, Repeatable, Active
  <2>8. Accounted(c)'
    <3>1. Reason(a) \in Transport <=> a \in Transport
      BY DEF Reason, Answers, Transport, Statuses
    <3>2. CASE a \in Transport
      <4>1. /\ httpRequests'[c] = httpRequests[c] /\ httpErrors'[c] = sends[c]
            /\ sends'[c] = sends[c] /\ a # "ok"
        BY <1>2, <3>2 DEF CallTypeOK, Record, CountsAsRequest, Transport, Attempts
      <4>2. QED
        BY <1>2, <2>3, <2>5, <2>6, <3>1, <3>2, <4>1 DEF Accounted, Stopped
    <3>3. CASE a \notin Transport
      <4>1. /\ httpRequests'[c] = httpRequests[c] + 1 /\ sends'[c] = sends[c]
            /\ httpErrors'[c] = IF a = "ok" THEN sends[c] - 1 ELSE sends[c]
        BY <1>2, <3>3 DEF CallTypeOK, Record, CountsAsRequest, Attempts
      <4>2. QED
        BY <1>2, <2>3, <2>5, <2>6, <3>1, <3>3, <4>1 DEF Accounted, Stopped
    <3>4. QED
      BY <3>2, <3>3
  <2>9. Caused(c)'
    BY <1>2, <1>5, <2>6 DEF CallTypeOK, Caused, Retries, Attempts
  <2>10. QED
    BY <2>2, <2>4, <2>7, <2>8, <2>9 DEF CallOK
<1>6. QED
  BY <1>4, <1>5

(* Cancelled in the queue, on the wire or asleep, a call gives back what it *)
(* held and no more.                                                       *)
LEMMA CancelKeeps ==
    ASSUME SlotsOK, CallTypeOK, NEW c \in Tasks, CallOK(c), Cancel(c)
    PROVE  SlotsOK' /\ CallTypeOK' /\ CallOK(c)'
<1> USE ClientAssumption DEF Cancel, Finish, semVars, metricVars
<1>1. pc \in [Tasks -> PCs] /\ ClientOf[c] \in Clients
  BY DEF CallTypeOK
<1>2. SlotsOK'
  <2>1. CASE CancelQueued(c)
    BY <1>1, <2>1, SlotsKept DEF CancelQueued
  <2>2. CASE CancelInFlight(c)
    BY <1>1, <2>2, SlotReleased DEF CancelInFlight
  <2>3. CASE CancelBackoff(c)
    BY <1>1, <2>3, SlotsKept DEF CancelBackoff
  <2>4. QED
    BY <2>1, <2>2, <2>3
<1>3. waiters' \in [Clients -> Seq(Tasks)]
  <2>1. CASE CancelQueued(c)
    <3>1. PICK i \in DOMAIN waiters[ClientOf[c]] :
              waiters' = [waiters EXCEPT ![ClientOf[c]] = RemoveAt(@, i)]
      BY <2>1 DEF CancelQueued
    <3>2. waiters[ClientOf[c]] \in Seq(Tasks)
      BY <1>1 DEF CallTypeOK
    <3>3. RemoveAt(waiters[ClientOf[c]], i) \in Seq(Tasks)
      BY <3>2, SubSeqProperties, ConcatProperties DEF RemoveAt
    <3>4. QED
      BY <3>1, <3>3 DEF CallTypeOK
  <2>2. CASE CancelInFlight(c) \/ CancelBackoff(c)
    BY <2>2 DEF CancelInFlight, CancelBackoff, CallTypeOK
  <2>3. QED
    BY <2>1, <2>2
<1>4. CallTypeOK'
  BY <1>3 DEF CallTypeOK, PCs, Results
<1>5. pc[c] \in {"queued", "inflight", "backoff"}
  BY DEF CancelQueued, CancelInFlight, CancelBackoff
<1>6. /\ pc'[c] = "done" /\ result'[c] = "cancelled"
      /\ attempt'[c] = attempt[c] /\ last'[c] = last[c] /\ sends'[c] = sends[c]
      /\ httpRequests'[c] = httpRequests[c] /\ httpErrors'[c] = httpErrors[c]
  BY DEF CallTypeOK, CancelQueued, CancelInFlight, CancelBackoff
<1>7. sends[c] - httpErrors[c] \in {0, 1} /\ httpRequests[c] <= sends[c]
  BY <1>5 DEF CallTypeOK, CallOK, CallShape, QueuedShape, InFlightShape, BackoffShape, CountShape,
      Attempts
<1>8. Accounted(c)'
  BY <1>6, <1>7 DEF Accounted, Stopped, Transport
<1>9. CallOK(c)'
  BY <1>6, <1>7, <1>8 DEF CallOK, CallShape, IdleShape, QueuedShape, InFlightShape,
      BackoffShape, CountShape, Repeatable, Active, Caused, Stopped
<1>10. QED
  BY <1>2, <1>4, <1>9

(* A finished call holds nothing, so forgetting it disturbs nothing. *)
LEMMA ReturnKeeps ==
    ASSUME SlotsOK, CallTypeOK, NEW c \in Tasks, CallOK(c), Return(c)
    PROVE  SlotsOK' /\ CallTypeOK' /\ CallOK(c)'
<1> USE ClientAssumption DEF Return, semVars
<1>1. SlotsOK'
  BY SlotsKept DEF CallTypeOK
<1>2. CallTypeOK'
  BY DEF CallTypeOK, PCs, Results, Attempts
<1>3. CallOK(c)'
  BY DEF CallTypeOK, CallOK, CallShape, IdleShape, QueuedShape, InFlightShape, BackoffShape,
         CountShape, Repeatable, Active, Accounted, Caused
<1>4. QED
  BY <1>1, <1>2, <1>3

-----------------------------------------------------------------------------
(* The invariant. *)

(* Before the first call every slot is free and nobody waits. *)
LEMMA InitInv == Init => IInv
<1> SUFFICES ASSUME Init
             PROVE  IInv
  OBVIOUS
<1> USE ClientAssumption, BreakerAssumption DEF Init
<1>1. BreakerInv
  BY DEF BreakerInit, BreakerInv, BreakerTypeOK, BreakerConsistent, Open, Closed
<1>2. SlotsOK
  <2>1. ASSUME NEW k \in Clients
        PROVE  InFlight(k) = {}
    BY DEF InFlight
  <2>2. ASSUME NEW k \in Clients
        PROVE  slots[k] + Cardinality(InFlight(k)) = MaxConcurrency
    <3>1. slots[k] = MaxConcurrency /\ MaxConcurrency \in Nat
      OBVIOUS
    <3>2. Cardinality(InFlight(k)) = 0
      BY <2>1, FS_EmptySet, Zenon
    <3>3. QED
      BY <3>1, <3>2
  <2>3. slots \in [Clients -> Nat]
    OBVIOUS
  <2>4. QED
    BY <2>2, <2>3 DEF SlotsOK, SemaphoreConserved
<1>3. CallTypeOK
  BY DEF CallTypeOK, PCs, Results, Attempts
<1>4. CallsOK
  BY DEF CallsOK, CallOK, CallShape, IdleShape, QueuedShape, InFlightShape, BackoffShape,
         CountShape, Repeatable, Active, Accounted, Caused
<1>5. QED
  BY <1>1, <1>2, <1>3, <1>4 DEF IInv

(* The invariant is inductive: one case per action, for the call that acts *)
(* and for the others.                                                     *)
LEMMA NextInv == IInv /\ [Next]_vars => IInv'
<1> SUFFICES ASSUME IInv, [Next]_vars
             PROVE  IInv'
  OBVIOUS
<1>1. BreakerInv'
  BY BreakerPreserved, StepsUseBreaker DEF IInv
<1>2. CASE Tick \/ UNCHANGED vars
  <2>1. UNCHANGED <<callVars, semVars, metricVars>>
    BY <1>2 DEF Tick, vars
  <2>2. SlotsOK'
    BY <2>1 DEF IInv, SlotsOK, SemaphoreConserved, InFlight, callVars, semVars
  <2>3. CallTypeOK'
    BY <2>1 DEF IInv, CallTypeOK, callVars, semVars, metricVars
  <2>4. \A c \in Tasks : Untouched(c)
    BY <2>1 DEF Untouched, callVars, metricVars
  <2>5. CallsOK'
    BY <2>4, UntouchedOK DEF IInv, CallsOK
  <2>6. QED
    BY <1>1, <2>2, <2>3, <2>5 DEF IInv
<1>3. ASSUME NEW c \in Tasks, TaskStep(c)
      PROVE  IInv'
  <2>1. SlotsOK /\ CallTypeOK /\ CallsOK /\ CallOK(c)
    BY DEF IInv, CallsOK
  <2>2. SlotsOK' /\ CallTypeOK' /\ CallOK(c)'
    <3>1. CASE Begin(c)
      BY <2>1, <3>1, StartAttemptKeeps DEF Begin
    <3>2. CASE ShortCircuit(c)
      BY <2>1, <3>2, ShortCircuitKeeps
    <3>3. CASE Grant(c)
      BY <2>1, <3>3, GrantKeeps
    <3>4. CASE \E a \in Answers : Answer(c, a)
      BY <2>1, <3>4, AnswerKeeps
    <3>5. CASE Wake(c)
      BY <2>1, <3>5, StartAttemptKeeps DEF Wake
    <3>6. CASE Cancel(c)
      BY <2>1, <3>6, CancelKeeps
    <3>7. CASE Return(c)
      BY <2>1, <3>7, ReturnKeeps
    <3>8. QED
      BY <1>3, <3>1, <3>2, <3>3, <3>4, <3>5, <3>6, <3>7 DEF TaskStep
  <2>3. CallsOK'
    BY <1>3, <2>1, <2>2, OwnCallSuffices
  <2>4. QED
    BY <1>1, <2>2, <2>3 DEF IInv
<1>4. QED
  BY <1>2, <1>3 DEF Next

(* IInv holds in every reachable state: what each phase of a call says of  *)
(* its counters, of the slot it holds and of its place in the queue is     *)
(* kept by every step of every call.                                       *)
THEOREM Invariance == Spec => []IInv
BY InitInv, NextInv, PTL DEF Spec

(* Every variable keeps its type: the attempt counter stays within the     *)
(* retries configured, the counters within the attempts, and no semaphore  *)
(* ever holds more slots than it was made with.                            *)
THEOREM TypeCorrect == Spec => []TypeOK
<1>1. IInv => TypeOK
  <2> SUFFICES ASSUME IInv
               PROVE  TypeOK
    OBVIOUS
  <2>1. ASSUME NEW k \in Clients
        PROVE  slots[k] \in 0..MaxConcurrency
    BY InFlightFinite, ClientAssumption DEF IInv, SlotsOK, SemaphoreConserved
  <2>2. slots \in [Clients -> 0..MaxConcurrency]
    BY <2>1 DEF IInv, SlotsOK
  <2>3. QED
    BY <2>2 DEF IInv, BreakerInv, CallTypeOK, TypeOK
<1>2. QED
  BY <1>1, Invariance, PTL

(* No interleaving of answers, retries and cancellations leaks a slot of a *)
(* semaphore or creates one.                                               *)
THEOREM SlotsConserved == Spec => []SemaphoreConserved
<1>1. IInv => SemaphoreConserved
  BY DEF IInv, SlotsOK
<1>2. QED
  BY <1>1, Invariance, PTL

(* The breaker is open exactly when its count has reached the threshold.   *)
THEOREM BreakerAgrees == Spec => []BreakerConsistent
<1>1. IInv => BreakerConsistent
  BY DEF IInv, BreakerInv
<1>2. QED
  BY <1>1, Invariance, PTL

(* The errors counted for a finished call are the requests that failed.    *)
THEOREM EveryCallAccounted == Spec => []CallAccounted
<1>1. IInv => CallAccounted
  BY DEF IInv, CallsOK, CallOK, CallAccounted
<1>2. QED
  BY <1>1, Invariance, PTL

(* The caller learns the cause of the last failure, and of a recoverable   *)
(* one only when every attempt has been made.                              *)
THEOREM EveryCauseTrue == Spec => []TrueCause
<1>1. IInv => TrueCause
  BY DEF IInv, CallsOK, CallOK, TrueCause
<1>2. QED
  BY <1>1, Invariance, PTL

(* A request with a final answer is never repeated. *)
THEOREM OnlyRecoverableRepeated == Spec => []RepeatsOnlyRecoverable
<1>1. IInv => RepeatsOnlyRecoverable
  BY DEF IInv, CallsOK, CallOK, RepeatsOnlyRecoverable
<1>2. QED
  BY <1>1, Invariance, PTL

-----------------------------------------------------------------------------
(* What a step may do while the breaker is open. *)

(* No failure, however many keep arriving, makes the cooldown last longer. *)
THEOREM CooldownKept == Spec => CooldownNotExtended
<1>1. IInv /\ [Next]_vars => [Open /\ Open' => openedFor' >= openedFor]_vars
  <2> SUFFICES ASSUME BreakerInv, BreakerStep, Open, Open'
               PROVE  openedFor' >= openedFor
    BY StepsUseBreaker DEF IInv
  <2> USE DEF BreakerInv, BreakerTypeOK, Open, Closed
  <2>1. openedFor \in Int
    BY BreakerAssumption
  <2>2. QED
    BY <2>1 DEF BreakerStep, Admit, Refuse, RecordSuccess, RecordFailure, CooldownTick,
                CoolingDown, breakerVars
<1>2. QED
  BY <1>1, Invariance, PTL DEF Spec, CooldownNotExtended

(* While it cools down, the calls that pass it and use the network are     *)
(* among those it admitted before it opened.                               *)
THEOREM LoadShed == Spec => OpenSheds
<1>1. ASSUME IInv, [Next]_vars, CoolingDown, NEW c \in GuardedActive'
      PROVE  c \in GuardedActive
  <2>1. c \in Guarded /\ c \in Tasks /\ Active(c)'
    BY <1>1, ClientAssumption DEF GuardedActive
  <2>2. ASSUME ~Active(c)
        PROVE  FALSE
    <3>1. pc \in [Tasks -> PCs]
      BY <1>1 DEF IInv, CallTypeOK
    <3>2. pc'[c] # pc[c]
      BY <2>1, <2>2 DEF Active
    <3>3. CASE Tick \/ UNCHANGED vars
      BY <3>2, <3>3 DEF Tick, vars, callVars
    <3>4. ASSUME NEW d \in Tasks, TaskStep(d)
          PROVE  FALSE
      <4>1. d = c
        BY <3>1, <3>2, <3>4, <2>1 DEF TaskStep, Begin, ShortCircuit, Grant, Answer, Wake,
              Cancel, Return, StartAttempt, TakeSlot, JoinWaiters, Finish
      <4>2. Begin(c)
        BY <2>1, <2>2, <3>1, <3>4, <4>1 DEF TaskStep, ShortCircuit, Grant, Answer, Wake,
              Cancel, CancelQueued, CancelInFlight, CancelBackoff, Return, Active
      <4>3. Admit
        BY <2>1, <4>2 DEF Begin
      <4>4. openedFor \in Int /\ ResetTicks \in Int
        BY <1>1, BreakerAssumption DEF IInv, BreakerInv, BreakerTypeOK, Closed
      <4>5. QED
        BY <1>1, <4>3, <4>4 DEF Admit, CoolingDown
    <3>5. QED
      BY <1>1, <3>3, <3>4 DEF Next
  <2>3. QED
    BY <2>1, <2>2 DEF GuardedActive
<1>2. IInv /\ [Next]_vars
        => [CoolingDown /\ Open' => GuardedActive' \subseteq GuardedActive]_vars
  BY <1>1
<1>3. QED
  BY <1>2, Invariance, PTL DEF Spec, OpenSheds

-----------------------------------------------------------------------------
(* Refinement of the retry policy. *)

(* The phase of a task, and what moving one task does to the phases.       *)
LEMMA PhaseOf ==
    ASSUME NEW c \in Tasks
    PROVE  /\ pc[c] = "inflight" => policyPhase[c] = "sending"
           /\ pc[c] \in {"queued", "backoff"} => policyPhase[c] = "waiting"
           /\ pc[c] \in {"idle", "done"} => policyPhase[c] = pc[c]
BY DEF policyPhase

(* The phase of the policy moves with the program counter of the one call  *)
(* that acts.                                                              *)
LEMMA PhaseMoves ==
    ASSUME pc \in [Tasks -> PCs], NEW c \in Tasks, NEW p, NEW q,
           pc' = [pc EXCEPT ![c] = p],
           \/ p = "inflight" /\ q = "sending"
           \/ p \in {"queued", "backoff"} /\ q = "waiting"
           \/ p \in {"idle", "done"} /\ q = p
    PROVE  policyPhase' = [policyPhase EXCEPT ![c] = q]
<1>1. policyPhase'[c] = q
  BY DEF policyPhase
<1>2. ASSUME NEW d \in Tasks, d # c
      PROVE  policyPhase'[d] = policyPhase[d]
  BY <1>2 DEF policyPhase
<1>3. policyPhase' = [d \in Tasks |-> policyPhase'[d]]
  BY DEF policyPhase
<1>4. DOMAIN policyPhase = Tasks
  BY DEF policyPhase
<1>5. QED
  BY <1>1, <1>2, <1>3, <1>4, Zenon

(* The client starts in an initial state of the retry policy. *)
LEMMA InitPolicy == Init => Policy!Init
BY DEF Init, Policy!Init, policyPhase, Policy!Nothing, NoAnswer

(* Every step of the client is a step of the retry policy, or a stutter of *)
(* it.                                                                     *)
LEMMA StepPolicy ==
    ASSUME CallTypeOK, NEW c \in Tasks, CallOK(c), TaskStep(c)
    PROVE  Policy!Step(c) \/ UNCHANGED <<policyPhase, sends, last>>
<1> USE DEF Policy!Step
<1>1. pc \in [Tasks -> PCs] /\ Attempts \in Nat \ {0}
  BY ClientAssumption DEF CallTypeOK, Attempts
<1>2. CASE Begin(c)
  <2>1. policyPhase[c] = "idle" /\ sends[c] = 0 /\ UNCHANGED last
    BY <1>2, PhaseOf DEF Begin, StartAttempt, CallOK, CallShape, IdleShape
  <2>2. CASE TakeSlot(c)
    <3>1. policyPhase' = [policyPhase EXCEPT ![c] = "sending"]
      BY <1>1, <2>2, PhaseMoves DEF TakeSlot
    <3>2. sends' = [sends EXCEPT ![c] = 1]
      BY <2>1, <2>2 DEF TakeSlot
    <3>3. QED
      BY <2>1, <3>1, <3>2 DEF Policy!Start
  <2>3. CASE JoinWaiters(c)
    <3>1. policyPhase' = [policyPhase EXCEPT ![c] = "waiting"]
      BY <1>1, <2>3, PhaseMoves DEF JoinWaiters
    <3>2. QED
      BY <2>1, <2>3, <3>1 DEF Policy!Start, JoinWaiters
  <2>4. QED
    BY <1>2, <2>2, <2>3 DEF Begin, StartAttempt
<1>3. CASE ShortCircuit(c)
  <2>1. policyPhase[c] = "idle" /\ policyPhase' = [policyPhase EXCEPT ![c] = "done"]
    BY <1>1, <1>3, PhaseOf, PhaseMoves DEF ShortCircuit
  <2>2. QED
    BY <1>3, <2>1 DEF ShortCircuit, Policy!Stop
<1>4. CASE Grant(c)
  <2>1. /\ policyPhase[c] = "waiting"
        /\ policyPhase' = [policyPhase EXCEPT ![c] = "sending"]
        /\ sends' = [sends EXCEPT ![c] = @ + 1] /\ UNCHANGED last
    <3>1. /\ pc[c] = "queued" /\ pc' = [pc EXCEPT ![c] = "inflight"]
          /\ sends' = [sends EXCEPT ![c] = @ + 1] /\ UNCHANGED last
      BY <1>4 DEF Grant
    <3>2. QED
      BY <1>1, <3>1, PhaseOf, PhaseMoves
  <2>2. sends[c] < Attempts
    BY <1>4, ClientAssumption DEF Grant, CallTypeOK, CallOK, CallShape, QueuedShape, Attempts
  <2>3. last[c] \in {a \in Answers : Recoverable(a)} \cup {Policy!Nothing}
    BY <1>4 DEF Grant, CallTypeOK, CallOK, Repeatable, Active, Policy!Nothing, NoAnswer
  <2>4. QED
    BY <2>1, <2>2, <2>3 DEF Policy!Send
<1>5. ASSUME NEW a \in Answers, Answer(c, a)
      PROVE  Policy!Receive(c, a)
  <2>1. policyPhase[c] = "sending" /\ last' = [last EXCEPT ![c] = a] /\ UNCHANGED sends
    BY <1>5, PhaseOf DEF Answer
  <2>2. Retries(c, a) <=> a \in {b \in Answers : Recoverable(b)} /\ sends[c] < Attempts
    BY <1>5 DEF Retries, Answer, CallOK, CallShape, InFlightShape
  <2>3. CASE Retries(c, a)
    <3>1. policyPhase' = [policyPhase EXCEPT ![c] = "waiting"]
      BY <1>1, <1>5, <2>3, PhaseMoves DEF Answer
    <3>2. QED
      BY <2>1, <2>2, <2>3, <3>1 DEF Policy!Receive
  <2>4. CASE ~Retries(c, a)
    <3>1. policyPhase' = [policyPhase EXCEPT ![c] = "done"]
      BY <1>1, <1>5, <2>4, PhaseMoves DEF Answer, Finish
    <3>2. QED
      BY <2>1, <2>2, <2>4, <3>1 DEF Policy!Receive
  <2>5. QED
    BY <2>3, <2>4
<1>6. CASE Wake(c)
  <2>1. policyPhase[c] = "waiting" /\ UNCHANGED last
    BY <1>6, PhaseOf DEF Wake, StartAttempt
  <2>2. CASE TakeSlot(c)
    <3>1. /\ policyPhase' = [policyPhase EXCEPT ![c] = "sending"]
          /\ sends' = [sends EXCEPT ![c] = @ + 1]
      BY <1>1, <2>2, PhaseMoves DEF TakeSlot
    <3>2. sends[c] < Attempts
      BY <1>6, ClientAssumption DEF Wake, CallOK, CallShape, BackoffShape, Attempts
    <3>3. last[c] \in {a \in Answers : Recoverable(a)} \cup {Policy!Nothing}
      BY <1>6 DEF Wake, CallTypeOK, CallOK, Repeatable, Active, Policy!Nothing, NoAnswer
    <3>4. QED
      BY <2>1, <3>1, <3>2, <3>3 DEF Policy!Send
  <2>3. CASE JoinWaiters(c)
    <3>1. policyPhase' = [policyPhase EXCEPT ![c] = "waiting"]
      BY <1>1, <2>3, PhaseMoves DEF JoinWaiters
    <3>2. policyPhase' = policyPhase
      BY <2>1, <3>1 DEF policyPhase
    <3>3. QED
      BY <2>1, <2>3, <3>2 DEF JoinWaiters
  <2>4. QED
    BY <1>6, <2>2, <2>3 DEF Wake, StartAttempt
<1>7. CASE Cancel(c)
  <2>1. pc[c] \in {"queued", "inflight", "backoff"}
    BY <1>7 DEF Cancel, CancelQueued, CancelInFlight, CancelBackoff
  <2>2. policyPhase' = [policyPhase EXCEPT ![c] = "done"]
    BY <1>1, <1>7, PhaseMoves DEF Cancel, Finish
  <2>3. policyPhase[c] \in {"idle", "waiting", "sending"}
    BY <2>1, PhaseOf
  <2>4. QED
    BY <1>7, <2>2, <2>3 DEF Cancel, Policy!Stop, metricVars
<1>8. CASE Return(c)
  <2>1. policyPhase[c] = "done" /\ policyPhase' = [policyPhase EXCEPT ![c] = "idle"]
    BY <1>1, <1>8, PhaseOf, PhaseMoves DEF Return
  <2>2. QED
    BY <1>8, <2>1 DEF Return, Policy!Reset, Policy!Nothing, NoAnswer
<1>9. QED
  BY <1>2, <1>3, <1>4, <1>5, <1>6, <1>7, <1>8 DEF TaskStep

(* Every call, whatever happens around it, follows the retry policy.       *)
THEOREM RefinesRetryPolicy == Spec => FollowsRetryPolicy
<1>1. IInv /\ [Next]_vars => [Policy!Next]_(Policy!policyVars)
  <2> SUFFICES ASSUME IInv, [Next]_vars
               PROVE  Policy!Next \/ UNCHANGED <<policyPhase, sends, last>>
    BY DEF Policy!policyVars
  <2>1. CASE Tick \/ UNCHANGED vars
    BY <2>1 DEF Tick, vars, callVars, metricVars, policyPhase
  <2>2. ASSUME NEW c \in Tasks, TaskStep(c)
        PROVE  Policy!Next \/ UNCHANGED <<policyPhase, sends, last>>
    BY <2>2, StepPolicy DEF IInv, CallsOK, Policy!Next
  <2>3. QED
    BY <2>1, <2>2 DEF Next
<1>2. QED
  BY <1>1, InitPolicy, Invariance, PTL DEF Spec, FollowsRetryPolicy, Policy!Spec

=============================================================================
