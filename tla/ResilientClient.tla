---------------------------- MODULE ResilientClient ----------------------------
(***************************************************************************)
(* ResilientHttpClient._request_json (http_client.py) run by several tasks *)
(* of one event loop: admission by the circuit breaker, the retry loop,    *)
(* the semaphore of the client object the task uses, the two metrics it    *)
(* feeds, and cancellation of the task at each of its awaits.              *)
(*                                                                         *)
(* A task is one running call.  It yields only while it waits for the      *)
(* semaphore (queued), for the upstream (inflight) and in asyncio.sleep    *)
(* (backoff), so what the code does between two of these is one step.      *)
(* Tasks in Guarded pass the geocoding breaker, the others pass None.      *)
(***************************************************************************)
EXTENDS CircuitBreaker, SequencesExt

CONSTANTS
    Tasks,           \* calls that may run at the same time
    Clients,         \* ResilientHttpClient objects
    ClientOf,        \* the object each task calls through
    Guarded,         \* the tasks that pass a breaker
    MaxRetries,      \* settings.http_max_retries
    MaxConcurrency   \* settings.http_max_concurrency

ASSUME ClientAssumption ==
    /\ IsFiniteSet(Tasks)
    /\ ClientOf \in [Tasks -> Clients]
    /\ Guarded \subseteq Tasks
    /\ MaxRetries \in Nat
    /\ MaxConcurrency \in Nat \ {0}

VARIABLES
    pc,            \* where each task is in _request_json
    attempt,       \* the loop variable of the retry loop
    last,          \* what the upstream answered last
    result,        \* what the call returned or raised
    slots,         \* free slots of each client's semaphore
    waiters,       \* its FIFO of waiting tasks
    sends,         \* requests this call has put on the wire
    httpRequests,  \* what it added to mcp_weather_http_requests_total
    httpErrors     \* what it added to mcp_weather_http_errors_total

callVars == <<pc, attempt, last, result>>
semVars == <<slots, waiters>>
metricVars == <<sends, httpRequests, httpErrors>>
vars == <<breakerVars, callVars, semVars, metricVars>>

Attempts == MaxRetries + 1

(* The answers of the upstream, by what the code tells apart. *)
Statuses == {"rate_limited", "server_error", "rejected"}

(* 429 and 5xx. *)
IsRetryableStatus(s) == s \in {"rate_limited", "server_error"}
Transport == {"timeout", "network_error"}
Answers == {"ok", "garbage"} \cup Statuses \cup Transport
Recoverable(a) == a \in Transport \/ IsRetryableStatus(a)

(* The reason an UpstreamError carries for an answer. *)
Reason(a) ==
    CASE a = "ok"        -> "ok"
      [] a = "garbage"   -> "invalid_response"
      [] a \in Transport -> a
      [] OTHER           -> "http_error"

NoAnswer == "none"
Results == {"none", "ok", "http_error", "timeout", "network_error",
            "invalid_response", "circuit_open", "cancelled"}

PCs == {"idle", "queued", "inflight", "backoff", "done"}
Active(c) == pc[c] \in {"queued", "inflight", "backoff"}
InFlight(k) == {c \in Tasks : ClientOf[c] = k /\ pc[c] = "inflight"}

TypeOK ==
    /\ BreakerTypeOK
    /\ pc \in [Tasks -> PCs]
    /\ attempt \in [Tasks -> 0..Attempts]
    /\ last \in [Tasks -> Answers \cup {NoAnswer}]
    /\ result \in [Tasks -> Results]
    /\ slots \in [Clients -> 0..MaxConcurrency]
    /\ waiters \in [Clients -> Seq(Tasks)]
    /\ sends \in [Tasks -> 0..Attempts]
    /\ httpRequests \in [Tasks -> 0..Attempts]
    /\ httpErrors \in [Tasks -> 0..Attempts]

Init ==
    /\ BreakerInit
    /\ pc = [c \in Tasks |-> "idle"]
    /\ attempt = [c \in Tasks |-> 0]
    /\ last = [c \in Tasks |-> NoAnswer]
    /\ result = [c \in Tasks |-> "none"]
    /\ slots = [k \in Clients |-> MaxConcurrency]
    /\ waiters = [k \in Clients |-> <<>>]
    /\ sends = [c \in Tasks |-> 0]
    /\ httpRequests = [c \in Tasks |-> 0]
    /\ httpErrors = [c \in Tasks |-> 0]

-----------------------------------------------------------------------------
(* async with self._semaphore: a free slot is taken without yielding,      *)
(* unless other tasks already wait for it.                                 *)

TakeSlot(c) ==
    /\ slots[ClientOf[c]] > 0
    /\ waiters[ClientOf[c]] = <<>>
    /\ slots' = [slots EXCEPT ![ClientOf[c]] = @ - 1]
    /\ pc' = [pc EXCEPT ![c] = "inflight"]
    /\ sends' = [sends EXCEPT ![c] = @ + 1]
    /\ UNCHANGED waiters

JoinWaiters(c) ==
    /\ slots[ClientOf[c]] = 0 \/ waiters[ClientOf[c]] # <<>>
    /\ waiters' = [waiters EXCEPT ![ClientOf[c]] = Append(@, c)]
    /\ pc' = [pc EXCEPT ![c] = "queued"]
    /\ UNCHANGED <<slots, sends>>

(* One pass of the loop, up to the first await. *)
StartAttempt(c) ==
    /\ attempt' = [attempt EXCEPT ![c] = @ + 1]
    /\ TakeSlot(c) \/ JoinWaiters(c)
    /\ UNCHANGED <<last, result, httpRequests, httpErrors>>

BeginUnasked(c) ==
    /\ pc[c] = "idle"
    /\ StartAttempt(c)
    /\ UNCHANGED breakerVars

(* The call gets past the breaker, or has none, and starts attempt 1. *)
Begin(c) ==
    /\ pc[c] = "idle"
    /\ IF c \in Guarded THEN Admit ELSE UNCHANGED breakerVars
    /\ StartAttempt(c)

(* CircuitOpenError, raised before anything is sent. *)
ShortCircuit(c) ==
    /\ pc[c] = "idle"
    /\ c \in Guarded
    /\ Refuse
    /\ pc' = [pc EXCEPT ![c] = "done"]
    /\ result' = [result EXCEPT ![c] = "circuit_open"]
    /\ httpErrors' = [httpErrors EXCEPT ![c] = @ + 1]
    /\ UNCHANGED <<attempt, last, semVars, sends, httpRequests>>

(* The first waiter receives a released slot and sends its request. *)
Grant(c) ==
    /\ pc[c] = "queued"
    /\ slots[ClientOf[c]] > 0
    /\ waiters[ClientOf[c]] # <<>>
    /\ Head(waiters[ClientOf[c]]) = c
    /\ waiters' = [waiters EXCEPT ![ClientOf[c]] = Tail(@)]
    /\ slots' = [slots EXCEPT ![ClientOf[c]] = @ - 1]
    /\ pc' = [pc EXCEPT ![c] = "inflight"]
    /\ sends' = [sends EXCEPT ![c] = @ + 1]
    /\ UNCHANGED <<breakerVars, attempt, last, result, httpRequests, httpErrors>>

-----------------------------------------------------------------------------
(* What happens to a task when its request comes back.  Every path leaves  *)
(* the "async with" first, which releases the slot.                        *)

ReleaseSlot(c) == slots' = [slots EXCEPT ![ClientOf[c]] = @ + 1]

Finish(c, r) ==
    /\ pc' = [pc EXCEPT ![c] = "done"]
    /\ result' = [result EXCEPT ![c] = r]

(* The error is recorded once, when the call gives up. *)
RecordAtTheEnd(c, a) ==
    /\ httpRequests' = [httpRequests EXCEPT ![c] = @ + IF a \notin Transport THEN 1 ELSE 0]
    /\ httpErrors' = [httpErrors EXCEPT
            ![c] = @ + IF a # "ok" /\ attempt[c] = Attempts THEN 1 ELSE 0]

(* record_http_request comes after the two except clauses: only a request  *)
(* that was answered with a status is counted.                             *)
CountsAsRequest(a) == a \notin Transport

Record(c, a) ==
    /\ httpRequests' = [httpRequests EXCEPT ![c] = @ + IF CountsAsRequest(a) THEN 1 ELSE 0]
    /\ httpErrors' = [httpErrors EXCEPT ![c] = @ + IF a = "ok" THEN 0 ELSE 1]

ReportToBreaker(c, a) ==
    \/ c \notin Guarded /\ UNCHANGED breakerVars
    \/ c \in Guarded /\ a = "ok" /\ RecordSuccess
    \/ c \in Guarded /\ a # "ok" /\ RecordFailure

RetriesAnyFailure(c, a) == attempt[c] < Attempts /\ a # "ok"

RetriesOneTooFew(c, a) == attempt[c] < MaxRetries /\ Recoverable(a)

(* The answers after which the loop goes round again. *)
Retries(c, a) == attempt[c] < Attempts /\ Recoverable(a)

(* One answer, up to the end of the call or the sleep before a retry. *)
Answer(c, a) ==
    /\ pc[c] = "inflight"
    /\ ReleaseSlot(c)
    /\ last' = [last EXCEPT ![c] = a]
    /\ Record(c, a)
    /\ ReportToBreaker(c, a)
    /\ \/ /\ Retries(c, a)
          /\ pc' = [pc EXCEPT ![c] = "backoff"]
          /\ UNCHANGED result
       \/ ~Retries(c, a) /\ Finish(c, Reason(a))
    /\ UNCHANGED <<attempt, waiters, sends>>

(* The sleep ends.  The breaker is not asked again. *)
Wake(c) ==
    /\ pc[c] = "backoff"
    /\ StartAttempt(c)
    /\ UNCHANGED breakerVars

-----------------------------------------------------------------------------
(* CancelledError is raised at the await and no handler catches it.        *)

CancelQueuedStaysInLine(c) ==
    /\ pc[c] = "queued"
    /\ UNCHANGED semVars

CancelQueued(c) ==
    /\ pc[c] = "queued"
    /\ \E i \in DOMAIN waiters[ClientOf[c]] :
        /\ waiters[ClientOf[c]][i] = c
        /\ waiters' = [waiters EXCEPT ![ClientOf[c]] = RemoveAt(@, i)]
    /\ UNCHANGED slots

CancelInFlightKeepsSlot(c) ==
    /\ pc[c] = "inflight"
    /\ UNCHANGED semVars

CancelInFlight(c) ==
    /\ pc[c] = "inflight"
    /\ ReleaseSlot(c)
    /\ UNCHANGED waiters

CancelBackoff(c) == pc[c] = "backoff" /\ UNCHANGED semVars

Cancel(c) ==
    /\ CancelQueued(c) \/ CancelInFlight(c) \/ CancelBackoff(c)
    /\ Finish(c, "cancelled")
    /\ UNCHANGED <<breakerVars, attempt, last, metricVars>>

(* The caller has the result; its next call starts with fresh locals. *)
Return(c) ==
    /\ pc[c] = "done"
    /\ pc' = [pc EXCEPT ![c] = "idle"]
    /\ attempt' = [attempt EXCEPT ![c] = 0]
    /\ last' = [last EXCEPT ![c] = NoAnswer]
    /\ result' = [result EXCEPT ![c] = "none"]
    /\ sends' = [sends EXCEPT ![c] = 0]
    /\ httpRequests' = [httpRequests EXCEPT ![c] = 0]
    /\ httpErrors' = [httpErrors EXCEPT ![c] = 0]
    /\ UNCHANGED <<breakerVars, semVars>>

Tick == CooldownTick /\ UNCHANGED <<callVars, semVars, metricVars>>

TaskStep(c) ==
    \/ Begin(c)
    \/ ShortCircuit(c)
    \/ Grant(c)
    \/ \E a \in Answers : Answer(c, a)
    \/ Wake(c)
    \/ Cancel(c)
    \/ Return(c)

Next == Tick \/ \E c \in Tasks : TaskStep(c)

Spec == Init /\ [][Next]_vars

(* httpx bounds every request by http_timeout, asyncio runs a task that is *)
(* ready and a sleep that is over, and the clock advances.  Nothing makes  *)
(* a client call, cancel a call, or make another one.                      *)
Fairness ==
    /\ WF_vars(Tick)
    /\ \A c \in Tasks :
        /\ WF_vars(Grant(c))
        /\ WF_vars(\E a \in Answers : Answer(c, a))
        /\ WF_vars(Wake(c))

FairSpec == Spec /\ Fairness

-----------------------------------------------------------------------------
(* No exit from a request, an answer, a cancellation or a retry, loses or  *)
(* duplicates a slot of the semaphore: at every moment the free slots and  *)
(* the requests on the wire make up the configured concurrency.            *)
SemaphoreConserved ==
    \A k \in Clients : slots[k] + Cardinality(InFlight(k)) = MaxConcurrency

(* The breaker is open exactly when the count has reached the threshold,   *)
(* whichever tasks' answers arrive while it opens, cools down or closes.   *)
BreakerConsistent == Open <=> failures = FailThreshold

Stopped(c) == result[c] \in {"circuit_open", "cancelled"}

(* What the metrics and the caller learn of a finished call agree with     *)
(* what it put on the wire: one error per failed request, none for the     *)
(* one that succeeded, one and no request for a short-circuited call, and  *)
(* a cancelled call leaves at most the request it abandoned unaccounted.   *)
(* No request is counted that was not sent, nor the last one when nothing  *)
(* came back, and the last one is when something did.                      *)
Accounted(c) ==
    pc[c] = "done" =>
        LET unaccounted == sends[c] - httpErrors[c] IN
        /\ CASE result[c] = "ok"           -> unaccounted = 1
             [] result[c] = "circuit_open" -> sends[c] = 0 /\ httpErrors[c] = 1
             [] result[c] = "cancelled"    -> unaccounted \in {0, 1}
             [] OTHER                      -> unaccounted = 0
        /\ httpRequests[c] <= sends[c]
        /\ result[c] \in Transport => httpRequests[c] < sends[c]
        /\ ~Stopped(c) /\ result[c] \notin Transport => httpRequests[c] > 0
CallAccounted == \A c \in Tasks : Accounted(c)

(* The caller is told the external cause of the failure, that of the last  *)
(* answer, and a recoverable one only once every attempt is spent.         *)
Caused(c) ==
    pc[c] = "done" /\ ~Stopped(c) =>
        /\ result[c] = Reason(last[c])
        /\ Recoverable(last[c]) => sends[c] = Attempts
TrueCause == \A c \in Tasks : Caused(c)

(* Only a recoverable failure is repeated: a request that was rejected, or *)
(* whose answer could not be read, is never put on the wire again.         *)
Repeatable(c) == Active(c) /\ last[c] # NoAnswer => Recoverable(last[c])
RepeatsOnlyRecoverable == \A c \in Tasks : Repeatable(c)

(* Answers that arrive while the breaker is open never move the end of its *)
(* cooldown further away (the comment in record_failure).                  *)
CooldownNotExtended == [][Open /\ Open' => openedFor' >= openedFor]_vars

(* From the moment the breaker opens until it closes, the guarded calls    *)
(* that use the network are among those that had already been admitted:    *)
(* the load on a failing upstream can only shrink.                         *)
GuardedActive == {c \in Guarded : Active(c)}
OpenSheds == [][CoolingDown /\ Open' => GuardedActive' \subseteq GuardedActive]_vars

(* Every call comes back to its caller: no task waits for ever for a slot, *)
(* an answer or a retry.                                                   *)
CallsReturn == \A c \in Tasks : Active(c) ~> pc[c] = "done"

-----------------------------------------------------------------------------
(* The policy a call follows, seen without breaker, semaphore and clock:   *)
(* a queued and a sleeping task both wait to send.                         *)
policyPhase ==
    [c \in Tasks |-> CASE pc[c] = "inflight" -> "sending"
                       [] pc[c] \in {"queued", "backoff"} -> "waiting"
                       [] OTHER -> pc[c]]

Policy == INSTANCE RetryPolicy WITH
    Calls <- Tasks,
    Attempts <- Attempts,
    Answers <- Answers,
    Worthwhile <- {a \in Answers : Recoverable(a)},
    phase <- policyPhase,
    sent <- sends,
    seen <- last

(* However tasks interleave, share slots, trip the breaker and are         *)
(* cancelled, each call keeps to the retry policy of the module docstring. *)
FollowsRetryPolicy == Policy!Spec

=============================================================================
