------------------------------ MODULE RateLimiter ------------------------------
(***************************************************************************)
(* RateLimitMiddleware and _TokenBucket (middleware.py): one token bucket  *)
(* per client host, kept in a dictionary, refilled when it is used, and    *)
(* swept out of the dictionary when it has been idle.                      *)
(*                                                                         *)
(* dispatch looks the bucket up and consumes from it without an await in   *)
(* between, so on the event loop a request is one step.  time.monotonic()  *)
(* advances in ticks.  Tokens are counted in units of which Refill accrue  *)
(* per tick and a request costs Cost, so that no fraction is needed.       *)
(***************************************************************************)
EXTENDS Integers

CONSTANTS
    Hosts,      \* request.client.host, "unknown" included
    Capacity,   \* _capacity
    Refill,     \* _refill_per_second
    Cost,       \* the token a request takes
    Idle,       \* _idle_eviction_seconds
    Interval    \* _eviction_interval_seconds

(* A bucket fills up in less time than it may stay idle: with the defaults *)
(* it takes 60 seconds at any per_minute, and Idle is 600.                 *)
ASSUME LimiterAssumption ==
    /\ Capacity \in Nat \ {0}
    /\ Refill \in Nat \ {0}
    /\ Cost \in 1..Capacity
    /\ Idle \in Nat
    /\ Interval \in Nat
    /\ Idle * Refill >= Capacity

VARIABLES
    buckets,   \* _buckets: for some hosts, _tokens and the age of _last
    sweepAge,  \* time since _last_eviction, up to Interval
    verdict    \* the last request and whether it was let through

limiterVars == <<buckets, sweepAge>>
vars == <<buckets, sweepAge, verdict>>

(* Ages stop here: every age beyond Idle is the same to the code.          *)
MaxAge == Idle + Interval + 1

Bucket == [tokens : 0..Capacity, age : 0..MaxAge]

TypeOK ==
    /\ DOMAIN buckets \subseteq Hosts
    /\ buckets \in [DOMAIN buckets -> Bucket]
    /\ sweepAge \in 0..Interval
    /\ verdict \in {<<>>} \cup (Hosts \X BOOLEAN)

Init ==
    /\ buckets = [h \in {} |-> [tokens |-> Capacity, age |-> 0]]
    /\ sweepAge = 0
    /\ verdict = <<>>

-----------------------------------------------------------------------------
SweepDue == sweepAge >= Interval

KeptEager == {h \in DOMAIN buckets : SweepDue => buckets[h].age < Idle \div 2}

KeptAlways == DOMAIN buckets

(* _evict_idle: the hosts whose bucket a request finds in the dictionary.  *)
Kept == {h \in DOMAIN buckets : SweepDue => buckets[h].age <= Idle}

Fill(n) == IF n < Capacity THEN n ELSE Capacity

RefilledUncapped(b) == b.tokens + b.age * Refill

Refilled(b) == Fill(b.tokens + b.age * Refill)

(* What try_consume finds in the bucket of a host, a new one included.     *)
Held(h) == IF h \in Kept THEN Refilled(buckets[h]) ELSE Capacity

ConsumeForgetsRefill(h, admitted) ==
    /\ admitted <=> Held(h) >= Cost
    /\ buckets' = [g \in Kept \cup {h} |->
            IF g # h THEN buckets[g]
            ELSE [tokens |-> IF admitted THEN Held(h) - Cost
                             ELSE IF h \in Kept THEN buckets[h].tokens ELSE Capacity,
                  age |-> 0]]
    /\ sweepAge' = IF SweepDue THEN 0 ELSE sweepAge

(* _bucket_for and try_consume; admitted is what try_consume returns.      *)
Consume(h, admitted) ==
    /\ admitted <=> Held(h) >= Cost
    /\ buckets' = [g \in Kept \cup {h} |->
            IF g = h
            THEN [tokens |-> IF admitted THEN Held(h) - Cost ELSE Held(h), age |-> 0]
            ELSE buckets[g]]
    /\ sweepAge' = IF SweepDue THEN 0 ELSE sweepAge

Request(h) ==
    \E admitted \in BOOLEAN :
        /\ Consume(h, admitted)
        /\ verdict' = <<h, admitted>>

Older(n, limit) == IF n < limit THEN n + 1 ELSE limit

PassTime ==
    /\ buckets' = [h \in DOMAIN buckets |-> [buckets[h] EXCEPT !.age = Older(@, MaxAge)]]
    /\ sweepAge' = Older(sweepAge, Interval)

Tick == PassTime /\ UNCHANGED verdict

Next == Tick \/ \E h \in Hosts : Request(h)

Spec == Init /\ [][Next]_vars

-----------------------------------------------------------------------------
(* No bucket outlives its use for long: between two sweeps a bucket is     *)
(* idle for Idle, plus the time since the last sweep, at most.             *)
IdleBounded ==
    ~SweepDue => \A h \in DOMAIN buckets : buckets[h].age <= Idle + sweepAge

(* A host without a bucket has a full one. *)
bucketLevel == [h \in Hosts |->
    IF h \in DOMAIN buckets THEN Refilled(buckets[h]) ELSE Capacity]

Promise == INSTANCE TokenBuckets WITH level <- bucketLevel

(* No client can tell that its bucket was refilled late, swept out of the  *)
(* dictionary or made anew: every answer is that of a bucket of its own.   *)
LimitsAsPromised == Promise!Spec

=============================================================================
