------------------------------ MODULE RateWindow ------------------------------
(***************************************************************************)
(* RateLimiter, watched: at any moment an observer picks a host and counts *)
(* the requests of it that are let through, for MaxWindow ticks at most.   *)
(***************************************************************************)
EXTENDS RateLimiter

CONSTANT MaxWindow  \* bound on how long one observation lasts

Nobody == <<>>

ASSUME WindowAssumption == MaxWindow \in Nat /\ Nobody \notin Hosts

VARIABLES
    watched,  \* the host being watched, or Nobody
    elapsed,  \* ticks since the observation began
    passed    \* requests let through since then

watchVars == <<watched, elapsed, passed>>

WindowTypeOK ==
    /\ TypeOK
    /\ watched \in Hosts \cup {Nobody}
    /\ elapsed \in 0..MaxWindow
    /\ passed \in Nat

WindowInit == Init /\ watched = Nobody /\ elapsed = 0 /\ passed = 0

Watch(h) ==
    /\ watched = Nobody
    /\ watched' = h
    /\ UNCHANGED <<vars, elapsed, passed>>

EndWatch == watched' = Nobody /\ elapsed' = 0 /\ passed' = 0

WatchedRequest(h) ==
    /\ Request(h)
    /\ passed' = IF h = watched /\ verdict'[2] THEN passed + 1 ELSE passed
    /\ UNCHANGED <<watched, elapsed>>

WatchedTick ==
    /\ Tick
    /\ \/ watched = Nobody /\ UNCHANGED watchVars
       \/ /\ watched # Nobody
          /\ elapsed < MaxWindow
          /\ elapsed' = elapsed + 1
          /\ UNCHANGED <<watched, passed>>
       \/ watched # Nobody /\ elapsed = MaxWindow /\ EndWatch

WindowNext ==
    \/ WatchedTick
    \/ \E h \in Hosts : Watch(h) \/ WatchedRequest(h)

WindowSpec == WindowInit /\ [][WindowNext]_<<vars, watchVars>>

-----------------------------------------------------------------------------
(* In any window of time a client gets at most a full bucket of requests   *)
(* and what refills during the window, even if its bucket is evicted and   *)
(* made anew in the middle of it.                                          *)
WindowBounded ==
    watched # Nobody => passed * Cost <= Capacity + elapsed * Refill

=============================================================================
