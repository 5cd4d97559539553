------------------------------ MODULE RetryPolicy ------------------------------
(***************************************************************************)
(* What http_client.py promises of one outbound call (its module docstring *)
(* and _request_json), with no breaker, semaphore or clock: the call puts  *)
(* at most Attempts requests on the wire, one at a time, sends again only  *)
(* after a recoverable failure, and comes back once, with the last answer  *)
(* or because the caller, or a breaker, stopped it.                        *)
(***************************************************************************)
EXTENDS Integers

CONSTANTS
    Calls,
    Attempts,      \* requests a call may send
    Answers,       \* what the upstream may answer
    Worthwhile    \* the answers after which trying again makes sense

VARIABLES
    phase,   \* "idle", "waiting" to send, "sending", "done"
    sent,    \* requests sent so far
    seen     \* the last answer, or Nothing

policyVars == <<phase, sent, seen>>

Nothing == "none"

Init ==
    /\ phase = [c \in Calls |-> "idle"]
    /\ sent = [c \in Calls |-> 0]
    /\ seen = [c \in Calls |-> Nothing]

(* The first request goes out at once, or has to wait. *)
Start(c) ==
    /\ phase[c] = "idle"
    /\ \/ /\ phase' = [phase EXCEPT ![c] = "waiting"]
          /\ UNCHANGED sent
       \/ /\ phase' = [phase EXCEPT ![c] = "sending"]
          /\ sent' = [sent EXCEPT ![c] = 1]
    /\ UNCHANGED seen

Send(c) ==
    /\ phase[c] = "waiting"
    /\ sent[c] < Attempts
    /\ seen[c] \in Worthwhile \cup {Nothing}
    /\ phase' = [phase EXCEPT ![c] = "sending"]
    /\ sent' = [sent EXCEPT ![c] = @ + 1]
    /\ UNCHANGED seen

(* An answer ends the call, unless it is worth another attempt. *)
Receive(c, a) ==
    /\ phase[c] = "sending"
    /\ seen' = [seen EXCEPT ![c] = a]
    /\ phase' = [phase EXCEPT
            ![c] = IF a \in Worthwhile /\ sent[c] < Attempts THEN "waiting" ELSE "done"]
    /\ UNCHANGED sent

(* Refused before it started, or cancelled while it ran. *)
Stop(c) ==
    /\ phase[c] \in {"idle", "waiting", "sending"}
    /\ phase' = [phase EXCEPT ![c] = "done"]
    /\ UNCHANGED <<sent, seen>>

Reset(c) ==
    /\ phase[c] = "done"
    /\ phase' = [phase EXCEPT ![c] = "idle"]
    /\ sent' = [sent EXCEPT ![c] = 0]
    /\ seen' = [seen EXCEPT ![c] = Nothing]

Step(c) ==
    \/ Start(c)
    \/ Send(c)
    \/ \E a \in Answers : Receive(c, a)
    \/ Stop(c)
    \/ Reset(c)

Next == \E c \in Calls : Step(c)

Spec == Init /\ [][Next]_policyVars

=============================================================================
