------------------------------ MODULE TokenBuckets ------------------------------
(***************************************************************************)
(* What RateLimitMiddleware promises each client: a bucket of its own that *)
(* is full at first, fills as time passes and pays for every request that  *)
(* is let through.  There is no dictionary, no lazy refill, no eviction.   *)
(***************************************************************************)
EXTENDS Integers

CONSTANTS Hosts, Capacity, Refill, Cost

VARIABLES
    level,    \* what each host's bucket holds
    verdict   \* the last request and whether it was let through

Fill(n) == IF n < Capacity THEN n ELSE Capacity

Init ==
    /\ level = [h \in Hosts |-> Capacity]
    /\ verdict = <<>>

Tick ==
    /\ level' = [h \in Hosts |-> Fill(level[h] + Refill)]
    /\ UNCHANGED verdict

Pass(h) ==
    /\ level[h] >= Cost
    /\ level' = [level EXCEPT ![h] = @ - Cost]
    /\ verdict' = <<h, TRUE>>

Refuse(h) ==
    /\ level[h] < Cost
    /\ verdict' = <<h, FALSE>>
    /\ UNCHANGED level

Next == Tick \/ \E h \in Hosts : Pass(h) \/ Refuse(h)

Spec == Init /\ [][Next]_<<level, verdict>>

=============================================================================
