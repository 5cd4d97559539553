---------------------------- MODULE CircuitBreaker ----------------------------
(***************************************************************************)
(* The circuit breaker of http_client.py, one instance of which            *)
(* (get_geo_breaker) guards the geocoding upstream for the whole process.  *)
(*                                                                         *)
(* Every operation takes the breaker's asyncio.Lock, and no critical       *)
(* section awaits, so an operation is one atomic step of the event loop.   *)
(* The attribute _opened_at is kept as openedFor, the time since it was    *)
(* set, which saturates at ResetTicks: the code only ever asks whether     *)
(* monotonic() - _opened_at has reached _reset_seconds.                    *)
(***************************************************************************)
EXTENDS Integers

CONSTANTS
    FailThreshold,  \* _fail_threshold, at least 1 by the constructor
    ResetTicks      \* _reset_seconds, positive by the constructor

ASSUME BreakerAssumption ==
    /\ FailThreshold \in Nat \ {0}
    /\ ResetTicks \in Nat \ {0}

VARIABLES
    failures,   \* _failures
    openedFor   \* Closed when _opened_at is None, else the time since then

breakerVars == <<failures, openedFor>>

Closed == -1

BreakerTypeOK ==
    /\ failures \in 0..FailThreshold
    /\ openedFor \in Closed..ResetTicks

BreakerInit ==
    /\ failures = 0
    /\ openedFor = Closed

Open == openedFor # Closed

CoolingDown == Open /\ openedFor < ResetTicks

-----------------------------------------------------------------------------
(* allow() answers True: the breaker is closed, or the cooldown is over    *)
(* and the breaker closes with a clean count before the call goes out.     *)

AdmitKeepsCount ==
    /\ ~CoolingDown
    /\ openedFor' = Closed
    /\ UNCHANGED failures

Admit ==
    \/ ~Open /\ UNCHANGED breakerVars
    \/ /\ Open
       /\ openedFor >= ResetTicks
       /\ openedFor' = Closed
       /\ failures' = 0

(* allow() answers False. *)
Refuse == CoolingDown /\ UNCHANGED breakerVars

RecordSuccess ==
    /\ failures' = 0
    /\ openedFor' = Closed

RecordFailureRestartsCooldown ==
    /\ failures' = IF Open THEN failures ELSE failures + 1
    /\ openedFor' = IF failures' >= FailThreshold THEN 0 ELSE Closed

(* A failure recorded while the breaker is open changes nothing. *)
RecordFailure ==
    \/ Open /\ UNCHANGED breakerVars
    \/ /\ ~Open
       /\ failures' = failures + 1
       /\ openedFor' = IF failures' >= FailThreshold THEN 0 ELSE Closed

(* The monotonic clock, as the breaker sees it. *)
CooldownTick ==
    /\ CoolingDown
    /\ openedFor' = openedFor + 1
    /\ UNCHANGED failures

=============================================================================
