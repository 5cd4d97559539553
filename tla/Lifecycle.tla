------------------------------ MODULE Lifecycle ------------------------------
(***************************************************************************)
(* What a container of the server promises whoever starts it: a launch is  *)
(* accepted or refused by its own merits, a refused one never serves and   *)
(* says with its exit code whose mistake it was, an accepted one serves    *)
(* where it was asked to, or ends for a reason of its own.                 *)
(***************************************************************************)
CONSTANTS
    Launches,    \* what it can be started with
    Verdict(_),  \* "accepted", or the exit code it is refused with
    Reach(_)     \* where an accepted one serves: "pipe", "loopback", "remote"

VARIABLES
    state,       \* "absent", "starting", "serving" or "exited"
    launch,      \* what it was started with
    reach,       \* where it serves
    noted,       \* an interrupt that will end it
    code         \* its exit code

vars == <<state, launch, reach, noted, code>>

Nothing == <<>>

Init ==
    /\ state = "absent"
    /\ launch = Nothing
    /\ reach = "none"
    /\ noted = FALSE
    /\ code = "none"

Start ==
    /\ state = "absent"
    /\ state' = "starting"
    /\ launch' \in Launches
    /\ UNCHANGED <<reach, noted, code>>

Serve ==
    /\ state = "starting"
    /\ Verdict(launch) = "accepted"
    /\ ~noted
    /\ state' = "serving"
    /\ reach' = Reach(launch)
    /\ UNCHANGED <<launch, noted, code>>

End(c) ==
    /\ state' = "exited"
    /\ reach' = "none"
    /\ code' = c
    /\ UNCHANGED <<launch, noted>>

Refuse ==
    /\ state = "starting"
    /\ Verdict(launch) # "accepted"
    /\ End(Verdict(launch))

(* The address is taken. *)
Fail ==
    /\ state = "starting"
    /\ Verdict(launch) = "accepted"
    /\ Reach(launch) # "pipe"
    /\ End("1")

Note ==
    /\ state = "starting"
    /\ noted' = TRUE
    /\ UNCHANGED <<state, launch, reach, code>>

(* Success is reported after serving, or when asked to stop. *)
Finish ==
    /\ \/ state = "serving"
       \/ state = "starting" /\ noted
    /\ End("0")

Signalled == state \in {"starting", "serving"} /\ \E c \in {"130", "137", "143"} : End(c)

Remove ==
    /\ state # "absent"
    /\ state' = "absent"
    /\ launch' = Nothing
    /\ reach' = "none"
    /\ noted' = FALSE
    /\ code' = "none"

Next ==
    \/ Start
    \/ Serve \/ Refuse \/ Fail \/ Note \/ Finish \/ Signalled \/ Remove

Spec == Init /\ [][Next]_vars

=============================================================================
