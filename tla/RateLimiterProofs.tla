--------------------------- MODULE RateLimiterProofs ---------------------------
(***************************************************************************)
(* Proofs about RateLimiter, RateWindow and HttpPipeline: for any clients, *)
(* with or without a token, and any budget, refill, idle time and sweep    *)
(* interval in which a bucket fills up before it may be evicted.           *)
(***************************************************************************)
EXTENDS HttpPipeline, TLAPS

(* Time adds one Refill per tick, and an idle bucket is a full one.        *)
LEMMA OneMoreTick ==
    ASSUME NEW n \in Nat
    PROVE  n * Refill \in Nat /\ (n + 1) * Refill = n * Refill + Refill
BY LimiterAssumption

(* A bucket that was idle long enough to be evicted is a full one. *)
LEMMA IdleIsFull ==
    ASSUME NEW b \in Bucket, b.age >= Idle
    PROVE  Refilled(b) = Capacity
<1>1. b.age \in Nat /\ b.tokens \in Nat
  BY LimiterAssumption DEF Bucket, MaxAge
<1>2. b.age * Refill \in Nat /\ Idle * Refill \in Nat
  BY <1>1, LimiterAssumption
<1>3. b.age * Refill >= Idle * Refill
  BY <1>1, LimiterAssumption
<1>4. b.tokens + b.age * Refill >= Capacity
  BY <1>1, <1>2, <1>3, LimiterAssumption
<1>5. QED
  BY <1>1, <1>2, <1>4, LimiterAssumption DEF Refilled, Fill

(* A refill never takes a bucket beyond its capacity. *)
LEMMA RefilledType ==
    ASSUME NEW b \in Bucket
    PROVE  Refilled(b) \in 0..Capacity
<1>1. b.age \in Nat /\ b.tokens \in Nat
  BY LimiterAssumption DEF Bucket, MaxAge
<1>2. b.age * Refill \in Nat
  BY <1>1, LimiterAssumption
<1>3. QED
  BY <1>1, <1>2, LimiterAssumption DEF Refilled, Fill

(* A bucket that has just been used holds what it was left with.           *)
LEMMA FreshBucket ==
    ASSUME NEW n \in 0..Capacity
    PROVE  Refilled([tokens |-> n, age |-> 0]) = n
BY LimiterAssumption DEF Refilled, Fill

(* A tick of the clock is one Refill, whether the age still counts or not. *)
LEMMA OlderBucket ==
    ASSUME NEW b \in Bucket
    PROVE  LET aged == [b EXCEPT !.age = Older(@, MaxAge)]
           IN  aged \in Bucket /\ Refilled(aged) = Fill(Refilled(b) + Refill)
<1> DEFINE aged == [b EXCEPT !.age = Older(@, MaxAge)]
<1>1. b.age \in 0..MaxAge /\ b.tokens \in 0..Capacity /\ MaxAge \in Nat /\ MaxAge >= Idle
  BY LimiterAssumption DEF Bucket, MaxAge
<1>2. aged.age = Older(b.age, MaxAge) /\ aged.tokens = b.tokens
  BY DEF Bucket
<1>3. aged \in Bucket
  BY <1>1 DEF Bucket, Older
<1>4. CASE b.age < MaxAge
  <2>1. aged.age = b.age + 1
    BY <1>2, <1>4 DEF Older
  <2>2. b.age * Refill \in Nat /\ (b.age + 1) * Refill = b.age * Refill + Refill
    BY <1>1, OneMoreTick
  <2>3. Refilled(aged) = Fill(b.tokens + (b.age * Refill + Refill))
    BY <1>2, <2>1, <2>2 DEF Refilled
  <2>4. QED
    BY <1>1, <1>3, <2>2, <2>3, LimiterAssumption DEF Refilled, Fill
<1>5. CASE b.age = MaxAge
  <2>1. aged.age >= Idle /\ b.age >= Idle
    BY <1>1, <1>2, <1>5 DEF Older
  <2>2. Refilled(aged) = Capacity /\ Refilled(b) = Capacity
    BY <1>3, <2>1, IdleIsFull
  <2>3. QED
    BY <1>3, <2>2, LimiterAssumption DEF Fill
<1>6. QED
  BY <1>1, <1>4, <1>5

-----------------------------------------------------------------------------
(* The type invariant. *)

(* What a request finds, in an old bucket or in a new one, fits a bucket. *)
LEMMA HeldType ==
    ASSUME TypeOK, NEW h \in Hosts
    PROVE  Held(h) \in 0..Capacity
<1>1. CASE h \in Kept
  <2>1. buckets[h] \in Bucket
    BY <1>1 DEF Kept, TypeOK
  <2>2. QED
    BY <1>1, <2>1, RefilledType DEF Held
<1>2. CASE h \notin Kept
  BY <1>2, LimiterAssumption DEF Held
<1>3. QED
  BY <1>1, <1>2

(* A request leaves the bucket of its host refilled and paid for, and      *)
(* every other bucket that is kept as it was.                              *)
LEMMA AfterConsume ==
    ASSUME TypeOK, NEW h \in Hosts, NEW admitted \in BOOLEAN, Consume(h, admitted)
    PROVE  /\ DOMAIN buckets' = Kept \cup {h}
           /\ DOMAIN buckets' \subseteq Hosts
           /\ buckets'[h] = [tokens |-> IF admitted THEN Held(h) - Cost ELSE Held(h),
                             age |-> 0]
           /\ buckets'[h].tokens \in 0..Capacity
           /\ \A g \in Kept \ {h} : buckets'[g] = buckets[g]
           /\ buckets' \in [DOMAIN buckets' -> Bucket]
<1> DEFINE paid == IF admitted THEN Held(h) - Cost ELSE Held(h)
<1>1. /\ DOMAIN buckets' = Kept \cup {h}
      /\ buckets'[h] = [tokens |-> paid, age |-> 0]
      /\ \A g \in Kept \ {h} : buckets'[g] = buckets[g]
  BY DEF Consume
<1>2. Kept \subseteq DOMAIN buckets /\ DOMAIN buckets \subseteq Hosts
  BY DEF Kept, TypeOK
<1>3. paid \in 0..Capacity
  BY HeldType, LimiterAssumption DEF Consume
<1>4. buckets'[h] \in Bucket
  BY <1>1, <1>3, LimiterAssumption DEF Bucket, MaxAge
<1>5. \A g \in Kept : buckets[g] \in Bucket
  BY <1>2 DEF TypeOK
<1>6. buckets' = [g \in DOMAIN buckets' |-> buckets'[g]]
  BY DEF Consume
<1>7. buckets' \in [DOMAIN buckets' -> Bucket]
  BY <1>1, <1>4, <1>5, <1>6
<1>8. QED
  BY <1>1, <1>2, <1>3, <1>7

(* A request keeps the types. *)
LEMMA RequestKeepsType ==
    ASSUME TypeOK, NEW h \in Hosts, Request(h)
    PROVE  TypeOK'
<1>1. PICK admitted \in BOOLEAN : Consume(h, admitted) /\ verdict' = <<h, admitted>>
  BY DEF Request
<1>2. DOMAIN buckets' \subseteq Hosts /\ buckets' \in [DOMAIN buckets' -> Bucket]
  BY <1>1, AfterConsume
<1>3. sweepAge' \in 0..Interval
  BY <1>1, LimiterAssumption DEF Consume, TypeOK
<1>4. verdict' \in Hosts \X BOOLEAN
  BY <1>1
<1>5. QED
  BY <1>2, <1>3, <1>4 DEF TypeOK

(* What a tick does to each bucket. *)
LEMMA AfterTick ==
    ASSUME TypeOK, PassTime
    PROVE  /\ DOMAIN buckets' = DOMAIN buckets
           /\ buckets' \in [DOMAIN buckets' -> Bucket]
           /\ \A h \in DOMAIN buckets :
                /\ Refilled(buckets'[h]) = Fill(Refilled(buckets[h]) + Refill)
                /\ buckets'[h].age = Older(buckets[h].age, MaxAge)
<1> DEFINE aged(h) == [buckets[h] EXCEPT !.age = Older(@, MaxAge)]
<1>1. buckets' = [h \in DOMAIN buckets |-> aged(h)]
  BY DEF PassTime
<1>2. \A h \in DOMAIN buckets : buckets[h] \in Bucket
  BY DEF TypeOK
<1>3. \A h \in DOMAIN buckets :
        aged(h) \in Bucket /\ Refilled(aged(h)) = Fill(Refilled(buckets[h]) + Refill)
  BY <1>2, OlderBucket
<1>4. \A h \in DOMAIN buckets : aged(h).age = Older(buckets[h].age, MaxAge)
  BY <1>2 DEF Bucket
<1> HIDE DEF aged
<1>5. QED
  BY <1>1, <1>3, <1>4

(* The passing of time keeps the types. *)
LEMMA TickKeepsType ==
    ASSUME TypeOK, Tick
    PROVE  TypeOK'
<1>1. /\ DOMAIN buckets' \subseteq Hosts
      /\ buckets' \in [DOMAIN buckets' -> Bucket]
  BY AfterTick DEF TypeOK, Tick
<1>2. sweepAge' \in 0..Interval
  BY LimiterAssumption DEF Tick, PassTime, Older, TypeOK
<1>3. QED
  BY <1>1, <1>2 DEF Tick, TypeOK

(* The empty dictionary is well typed. *)
LEMMA TypeInit == Init => TypeOK
BY LimiterAssumption DEF Init, TypeOK

(* Every step keeps the types. *)
LEMMA TypeNext == TypeOK /\ [Next]_vars => TypeOK'
<1> SUFFICES ASSUME TypeOK, [Next]_vars
             PROVE  TypeOK'
  OBVIOUS
<1>1. CASE UNCHANGED vars
  BY <1>1 DEF vars, TypeOK
<1>2. QED
  BY <1>1, TickKeepsType, RequestKeepsType DEF Next

(* Buckets exist only for hosts that asked, and never hold more tokens     *)
(* than a minute's budget, nor fewer than none.                            *)
THEOREM TypeCorrect == Spec => []TypeOK
BY TypeInit, TypeNext, PTL DEF Spec

-----------------------------------------------------------------------------
(* Refinement of a bucket per host. *)

(* The level of a host is that of its bucket, or a full one. *)
LEMMA LevelOf ==
    ASSUME TypeOK, NEW h \in Hosts
    PROVE  /\ h \in DOMAIN buckets => bucketLevel[h] = Refilled(buckets[h])
           /\ h \notin DOMAIN buckets => bucketLevel[h] = Capacity
           /\ bucketLevel[h] \in 0..Capacity
<1>1. h \in DOMAIN buckets => Refilled(buckets[h]) \in 0..Capacity
  BY RefilledType DEF TypeOK
<1>2. QED
  BY <1>1, LimiterAssumption DEF bucketLevel

(* An evicted bucket was full, so what try_consume finds is the level.     *)
LEMMA HeldIsLevel ==
    ASSUME TypeOK, NEW h \in Hosts
    PROVE  Held(h) = bucketLevel[h]
<1>1. CASE h \in Kept
  BY <1>1, LevelOf DEF Held, Kept
<1>2. CASE h \notin Kept /\ h \in DOMAIN buckets
  <2>1. buckets[h] \in Bucket /\ buckets[h].age \in Nat
    BY <1>2, LimiterAssumption DEF TypeOK, Bucket, MaxAge
  <2>2. buckets[h].age >= Idle
    BY <1>2, <2>1, LimiterAssumption DEF Kept
  <2>3. QED
    BY <1>2, <2>1, <2>2, IdleIsFull, LevelOf DEF Held
<1>3. CASE h \notin DOMAIN buckets
  BY <1>3, LevelOf DEF Held, Kept
<1>4. QED
  BY <1>1, <1>2, <1>3

(* A request changes the level of its own host only, whatever is swept out *)
(* on its way.                                                             *)
LEMMA ConsumeLevels ==
    ASSUME TypeOK, TypeOK', NEW h \in Hosts, NEW admitted \in BOOLEAN, Consume(h, admitted)
    PROVE  /\ admitted <=> bucketLevel[h] >= Cost
           /\ bucketLevel' = [bucketLevel EXCEPT ![h] = IF admitted THEN @ - Cost ELSE @]
<1>1. admitted <=> bucketLevel[h] >= Cost
  BY HeldIsLevel DEF Consume
<1> DEFINE paid == IF admitted THEN Held(h) - Cost ELSE Held(h)
<1>2. /\ DOMAIN buckets' = Kept \cup {h}
      /\ buckets'[h] = [tokens |-> paid, age |-> 0] /\ buckets'[h].tokens \in 0..Capacity
      /\ \A g \in Kept \ {h} : buckets'[g] = buckets[g]
  BY AfterConsume
<1>3. bucketLevel'[h] = IF admitted THEN bucketLevel[h] - Cost ELSE bucketLevel[h]
  <2>1. h \in DOMAIN buckets'
    BY <1>2
  <2>2. bucketLevel'[h] = Refilled(buckets'[h])
    BY <2>1 DEF bucketLevel
  <2>3. paid \in 0..Capacity
    BY <1>2
  <2>4. Refilled(buckets'[h]) = paid
    BY <1>2, <2>3, FreshBucket, Zenon
  <2>5. QED
    BY <2>2, <2>4, HeldIsLevel
<1>4. ASSUME NEW g \in Hosts, g # h
      PROVE  bucketLevel'[g] = bucketLevel[g]
  <2>1. CASE g \in Kept
    <3>1. g \in DOMAIN buckets /\ g \in DOMAIN buckets' /\ buckets'[g] = buckets[g]
      BY <1>4, <1>2, <2>1 DEF Kept
    <3>2. QED
      BY <3>1 DEF bucketLevel
  <2>2. CASE g \notin Kept
    <3>1. g \notin DOMAIN buckets'
      BY <1>4, <1>2, <2>2
    <3>2. bucketLevel'[g] = Capacity
      BY <3>1 DEF bucketLevel
    <3>3. bucketLevel[g] = Capacity
      BY <2>2, HeldIsLevel DEF Held
    <3>4. QED
      BY <3>2, <3>3
  <2>3. QED
    BY <2>1, <2>2
<1>5. /\ bucketLevel' = [g \in Hosts |-> bucketLevel'[g]]
      /\ bucketLevel = [g \in Hosts |-> bucketLevel[g]]
  BY DEF bucketLevel
<1>6. bucketLevel' = [bucketLevel EXCEPT ![h] = IF admitted THEN @ - Cost ELSE @]
  BY <1>3, <1>4, <1>5
<1>7. QED
  BY <1>1, <1>6

(* A tick adds one refill to every level, of hosts with and without a      *)
(* bucket.                                                                 *)
LEMMA TickLevels ==
    ASSUME TypeOK, PassTime
    PROVE  bucketLevel' = [h \in Hosts |-> Fill(bucketLevel[h] + Refill)]
<1>1. ASSUME NEW h \in Hosts
      PROVE  bucketLevel'[h] = Fill(bucketLevel[h] + Refill)
  <2>1. CASE h \in DOMAIN buckets
    BY <2>1, AfterTick DEF bucketLevel
  <2>2. CASE h \notin DOMAIN buckets
    BY <2>2, AfterTick, LimiterAssumption DEF bucketLevel, Fill
  <2>3. QED
    BY <2>1, <2>2
<1>2. bucketLevel' = [h \in Hosts |-> bucketLevel'[h]]
  BY DEF bucketLevel
<1>3. QED
  BY <1>1, <1>2

(* A request is answered as the host's own bucket would. *)
LEMMA RequestPromise ==
    ASSUME TypeOK, TypeOK', NEW h \in Hosts, Request(h)
    PROVE  Promise!Pass(h) \/ Promise!Refuse(h)
<1>1. PICK admitted \in BOOLEAN : Consume(h, admitted) /\ verdict' = <<h, admitted>>
  BY DEF Request
<1>2. /\ admitted <=> bucketLevel[h] >= Cost
      /\ bucketLevel' = [bucketLevel EXCEPT ![h] = IF admitted THEN @ - Cost ELSE @]
  BY <1>1, ConsumeLevels
<1>3. bucketLevel[h] \in Int /\ Cost \in Int /\ DOMAIN bucketLevel = Hosts
  BY LevelOf, LimiterAssumption DEF bucketLevel
<1>4. CASE admitted
  <2>1. bucketLevel' = [bucketLevel EXCEPT ![h] = bucketLevel[h] - Cost]
    BY <1>2, <1>4
  <2>2. QED
    BY <1>1, <1>2, <1>4, <2>1 DEF Promise!Pass
<1>5. CASE ~admitted
  <2>1. bucketLevel' = bucketLevel
    BY <1>2, <1>5 DEF bucketLevel
  <2>2. verdict' = <<h, FALSE>>
    BY <1>1, <1>5
  <2>3. QED
    BY <1>2, <1>3, <1>5, <2>1, <2>2 DEF Promise!Refuse
<1>6. QED
  BY <1>4, <1>5

(* A tick is a tick of every bucket. *)
LEMMA TickPromise ==
    ASSUME TypeOK, Tick
    PROVE  Promise!Tick
BY TickLevels DEF Tick, Promise!Tick, Promise!Fill, Fill

(* Lazy refill and idle eviction are invisible: whatever requests arrive,  *)
(* each is answered as a bucket of the host's own would answer it.         *)
THEOREM RefinesTokenBuckets == Spec => LimitsAsPromised
<1>1. Init => Promise!Init
  BY DEF Init, Promise!Init, bucketLevel
<1>2. TypeOK /\ TypeOK' /\ [Next]_vars => [Promise!Next]_<<bucketLevel, verdict>>
  <2> SUFFICES ASSUME TypeOK, TypeOK', [Next]_vars
               PROVE  Promise!Next \/ UNCHANGED <<bucketLevel, verdict>>
    OBVIOUS
  <2>1. CASE Tick
    BY <2>1, TickPromise DEF Promise!Next
  <2>2. ASSUME NEW h \in Hosts, Request(h)
        PROVE  Promise!Next
    BY <2>2, RequestPromise DEF Promise!Next
  <2>3. CASE UNCHANGED vars
    BY <2>3 DEF vars, bucketLevel
  <2>4. QED
    BY <2>1, <2>2, <2>3 DEF Next
<1>3. QED
  BY <1>1, <1>2, TypeCorrect, PTL DEF Spec, LimitsAsPromised, Promise!Spec

-----------------------------------------------------------------------------
(* The dictionary stays swept. *)

(* A request sweeps when that is due, and makes its own bucket young. *)
LEMMA RequestKeepsSwept ==
    ASSUME TypeOK, IdleBounded, NEW h \in Hosts, NEW admitted \in BOOLEAN,
           Consume(h, admitted), ~SweepDue',
           NEW g \in DOMAIN buckets'
    PROVE  buckets'[g].age <= Idle + sweepAge'
<1>1. /\ DOMAIN buckets' = Kept \cup {h}
      /\ buckets'[h].age = 0
      /\ \A k \in Kept \ {h} : buckets'[k] = buckets[k]
  <2>1. buckets'[h] = [tokens |-> IF admitted THEN Held(h) - Cost ELSE Held(h), age |-> 0]
    BY AfterConsume
  <2>2. buckets'[h].age = 0
    BY <2>1
  <2>3. QED
    BY <2>2, AfterConsume
<1>2. sweepAge \in Nat /\ sweepAge' \in Nat /\ Idle \in Nat
  BY LimiterAssumption DEF TypeOK, Consume
<1>3. CASE g = h
  BY <1>1, <1>2, <1>3
<1>4. CASE g # h
  <2>1. g \in Kept /\ buckets'[g] = buckets[g]
    BY <1>1, <1>4
  <2>2. buckets[g] \in Bucket /\ buckets[g].age \in Nat
    BY <2>1, LimiterAssumption DEF Kept, TypeOK, Bucket, MaxAge
  <2>3. CASE SweepDue
    BY <1>2, <2>1, <2>2, <2>3 DEF Kept
  <2>4. CASE ~SweepDue
    <3>1. sweepAge' = sweepAge
      BY <2>4 DEF Consume
    <3>2. buckets[g].age <= Idle + sweepAge
      BY <2>1, <2>4 DEF IdleBounded, Kept
    <3>3. QED
      BY <2>1, <3>1, <3>2
  <2>5. QED
    BY <2>3, <2>4
<1>5. QED
  BY <1>3, <1>4

(* A tick ages the buckets by as much as the time since the last sweep. *)
LEMMA TickKeepsSwept ==
    ASSUME TypeOK, IdleBounded, PassTime, ~SweepDue', NEW g \in DOMAIN buckets'
    PROVE  buckets'[g].age <= Idle + sweepAge'
<1>1. g \in DOMAIN buckets /\ buckets'[g].age = Older(buckets[g].age, MaxAge)
  BY AfterTick
<1>2. buckets[g] \in Bucket /\ buckets[g].age \in 0..MaxAge
  BY <1>1 DEF TypeOK, Bucket
<1>3. /\ sweepAge \in 0..Interval /\ sweepAge' = Older(sweepAge, Interval)
      /\ Interval \in Nat /\ Idle \in Nat /\ MaxAge \in Nat
  BY LimiterAssumption DEF TypeOK, PassTime, MaxAge
<1>4. ~SweepDue /\ sweepAge' = sweepAge + 1
  BY <1>3 DEF SweepDue, Older
<1>5. buckets[g].age <= Idle + sweepAge
  BY <1>1, <1>4 DEF IdleBounded
<1>6. buckets'[g].age <= buckets[g].age + 1
  BY <1>1, <1>2, <1>3 DEF Older
<1>7. buckets'[g].age \in Int
  BY <1>1, <1>2, <1>3 DEF Older
<1>8. QED
  BY <1>2, <1>3, <1>4, <1>5, <1>6, <1>7

(* A client that went away does not stay in the dictionary: between sweeps *)
(* no bucket is older than Idle and the time since the last one.           *)
THEOREM DictionarySwept == Spec => []IdleBounded
<1>1. Init => IdleBounded
  BY DEF Init, IdleBounded
<1>2. TypeOK /\ IdleBounded /\ [Next]_vars => IdleBounded'
  <2> SUFFICES ASSUME TypeOK, IdleBounded, [Next]_vars
               PROVE  IdleBounded'
    OBVIOUS
  <2>1. CASE Tick
    BY <2>1, TickKeepsSwept DEF Tick, IdleBounded
  <2>2. ASSUME NEW h \in Hosts, Request(h)
        PROVE  IdleBounded'
    BY <2>2, RequestKeepsSwept DEF Request, IdleBounded
  <2>3. CASE UNCHANGED vars
    BY <2>3 DEF vars, IdleBounded, SweepDue
  <2>4. QED
    BY <2>1, <2>2, <2>3 DEF Next
<1>3. QED
  BY <1>1, <1>2, TypeCorrect, PTL DEF Spec

-----------------------------------------------------------------------------
(* The bound on any window of time. *)

(* The observation spends from the level the watched host had when it      *)
(* began: what has passed and what is left never exceed a full bucket and  *)
(* what has refilled since.  The bound alone is not inductive, for it says *)
(* nothing of what is left to spend.                                       *)
WindowInv ==
    /\ WindowTypeOK
    /\ watched = Nobody => elapsed = 0 /\ passed = 0
    /\ watched # Nobody =>
        passed * Cost + bucketLevel[watched] <= Capacity + elapsed * Refill

(* What a watched host was let through, and what its bucket holds, was     *)
(* there at first or was refilled since.                                   *)
LEMMA WindowNextInv == WindowInv /\ [WindowNext]_<<vars, watchVars>> => WindowInv'
<1> SUFFICES ASSUME WindowInv, [WindowNext]_<<vars, watchVars>>
             PROVE  WindowInv'
  OBVIOUS
<1> USE WindowAssumption
<1>1. /\ TypeOK /\ elapsed \in Nat /\ passed \in Nat
      /\ watched \in Hosts \cup {Nobody}
      /\ Capacity \in Nat /\ Refill \in Nat /\ Cost \in Nat
  BY LimiterAssumption DEF WindowInv, WindowTypeOK
<1>2. passed * Cost \in Nat /\ elapsed * Refill \in Nat
  BY <1>1
<1>3. CASE UNCHANGED <<vars, watchVars>>
  BY <1>3 DEF vars, watchVars, WindowInv, WindowTypeOK, TypeOK, bucketLevel
<1>4. ASSUME NEW h \in Hosts, Watch(h)
      PROVE  WindowInv'
  <2>1. watched' = h /\ elapsed' = 0 /\ passed' = 0 /\ UNCHANGED <<buckets, sweepAge, verdict>>
    BY <1>4 DEF Watch, WindowInv, vars
  <2>2. WindowTypeOK'
    BY <1>1, <2>1 DEF WindowTypeOK, TypeOK
  <2>3. bucketLevel'[h] \in 0..Capacity
    <3>1. bucketLevel' = bucketLevel
      BY <2>1 DEF bucketLevel
    <3>2. QED
      BY <1>1, <3>1, LevelOf
  <2>4. passed' * Cost = 0 /\ elapsed' * Refill = 0
    BY <1>1, <2>1
  <2>5. QED
    BY <1>1, <2>1, <2>2, <2>3, <2>4 DEF WindowInv
<1>5. ASSUME NEW h \in Hosts, WatchedRequest(h)
      PROVE  WindowInv'
  <2>1. PICK admitted \in BOOLEAN : Consume(h, admitted) /\ verdict' = <<h, admitted>>
    BY <1>5 DEF WatchedRequest, Request
  <2>2. TypeOK'
    BY <1>1, <1>5, RequestKeepsType DEF WatchedRequest
  <2>3. /\ UNCHANGED <<watched, elapsed>>
        /\ passed' = IF h = watched /\ admitted THEN passed + 1 ELSE passed
    BY <1>5, <2>1 DEF WatchedRequest
  <2>4. WindowTypeOK'
    BY <1>1, <2>2, <2>3 DEF WindowTypeOK, WindowInv
  <2>5. bucketLevel' = [bucketLevel EXCEPT ![h] = IF admitted THEN @ - Cost ELSE @]
    BY <1>1, <2>1, <2>2, ConsumeLevels
  <2>6. CASE watched = Nobody
    BY <2>3, <2>4, <2>6 DEF WindowInv
  <2>7. CASE watched # Nobody
    <3>1. /\ watched \in Hosts /\ bucketLevel[watched] \in Int
          /\ passed * Cost + bucketLevel[watched] <= Capacity + elapsed * Refill
      BY <1>1, <2>7, LevelOf DEF WindowInv
    <3>2. CASE h = watched /\ admitted
      <4>1. bucketLevel'[watched] = bucketLevel[watched] - Cost
        BY <2>5, <3>1, <3>2 DEF bucketLevel
      <4>2. passed' * Cost = passed * Cost + Cost
        BY <1>1, <2>3, <3>2
      <4>3. QED
        BY <1>1, <1>2, <2>3, <2>4, <2>7, <3>1, <4>1, <4>2 DEF WindowInv
    <3>3. CASE ~(h = watched /\ admitted)
      <4>1. bucketLevel'[watched] = bucketLevel[watched] /\ passed' = passed
        BY <2>3, <2>5, <3>1, <3>3 DEF bucketLevel
      <4>2. QED
        BY <2>3, <2>4, <2>7, <3>1, <4>1 DEF WindowInv
    <3>4. QED
      BY <3>2, <3>3
  <2>8. QED
    BY <2>6, <2>7
<1>6. CASE WatchedTick
  <2>1. TypeOK' /\ PassTime
    BY <1>1, <1>6, TickKeepsType DEF WatchedTick, Tick
  <2>2. CASE watched = Nobody /\ UNCHANGED watchVars
    BY <2>1, <2>2 DEF watchVars, WindowInv, WindowTypeOK
  <2>3. CASE EndWatch
    BY <2>1, <2>3 DEF EndWatch, WindowInv, WindowTypeOK
  <2>4. CASE /\ watched # Nobody /\ elapsed < MaxWindow
             /\ elapsed' = elapsed + 1 /\ UNCHANGED <<watched, passed>>
    <3>1. WindowTypeOK'
      BY <1>1, <2>1, <2>4 DEF WindowTypeOK
    <3>2. /\ watched \in Hosts /\ bucketLevel[watched] \in Int
          /\ passed * Cost + bucketLevel[watched] <= Capacity + elapsed * Refill
      BY <1>1, <2>4, LevelOf DEF WindowInv
    <3>3. bucketLevel'[watched] = Fill(bucketLevel[watched] + Refill)
      BY <1>1, <2>1, <3>2, TickLevels
    <3>4. bucketLevel'[watched] <= bucketLevel[watched] + Refill
      BY <1>1, <3>2, <3>3 DEF Fill
    <3>5. bucketLevel'[watched] \in Int
      BY <1>1, <3>2, <3>3 DEF Fill
    <3>6. elapsed' * Refill = elapsed * Refill + Refill
      BY <1>1, <2>4, OneMoreTick
    <3>7. QED
      BY <1>1, <1>2, <2>4, <3>1, <3>2, <3>4, <3>5, <3>6 DEF WindowInv
  <2>5. QED
    BY <1>6, <2>2, <2>3, <2>4 DEF WatchedTick
<1>7. QED
  BY <1>3, <1>4, <1>5, <1>6 DEF WindowNext

(* What WindowInv says holds of every watched run. *)
THEOREM WindowInvariance == WindowSpec => []WindowInv
<1>1. WindowInit => WindowInv
  <2> SUFFICES ASSUME WindowInit
               PROVE  WindowInv
    OBVIOUS
  <2>1. TypeOK
    BY TypeInit DEF WindowInit
  <2>2. QED
    BY <2>1, WindowAssumption DEF WindowInit, WindowInv, WindowTypeOK
<1>2. QED
  BY <1>1, WindowNextInv, PTL DEF WindowSpec

(* Whenever a client is looked at, it gets no more than a full bucket and  *)
(* what refilled since then, whatever was evicted in the meantime.         *)
THEOREM WindowLimited == WindowSpec => []WindowBounded
<1>1. WindowInv => WindowBounded
  <2> SUFFICES ASSUME WindowInv, watched # Nobody
               PROVE  passed * Cost <= Capacity + elapsed * Refill
    BY DEF WindowBounded
  <2>1. bucketLevel[watched] \in Nat
    BY LevelOf, LimiterAssumption DEF WindowInv, WindowTypeOK
  <2>2. passed * Cost \in Nat /\ elapsed * Refill \in Nat /\ Capacity \in Nat
    BY LimiterAssumption, WindowAssumption DEF WindowInv, WindowTypeOK
  <2>3. QED
    BY <2>1, <2>2 DEF WindowInv
<1>2. QED
  BY <1>1, WindowInvariance, PTL

-----------------------------------------------------------------------------
(* The pipeline is a limiter that is watched: what the layers around the   *)
(* limiter do is not seen by it, and the observer changes nothing.         *)

(* Every step of the watched limiter is one of the limiter, or none. *)
LEMMA WatchIsSilent == [WindowNext]_<<vars, watchVars>> => [Next]_vars
BY DEF WindowNext, WatchedTick, Watch, WatchedRequest, Next, vars

(* Every step of the pipeline is one of the watched limiter, or none. *)
LEMMA LayersAreSilent == [PipelineNext]_pipelineVars => [WindowNext]_<<vars, watchVars>>
<1> SUFFICES ASSUME [PipelineNext]_pipelineVars
             PROVE  [WindowNext]_<<vars, watchVars>>
  OBVIOUS
<1>1. CASE PipelineTick
  BY <1>1 DEF PipelineTick, WindowNext
<1>2. CASE PipelineWatch
  BY <1>2 DEF PipelineWatch, WindowNext
<1>3. ASSUME NEW h \in Hosts, NEW credential \in Presented, ServeRequest(h, credential)
      PROVE  [WindowNext]_<<vars, watchVars>>
  BY <1>3 DEF ServeRequest, Health, Metrics, Mcp, WindowNext
<1>4. CASE UNCHANGED pipelineVars
  BY <1>4 DEF pipelineVars
<1>5. QED
  BY <1>1, <1>2, <1>3, <1>4 DEF PipelineNext, Served

(* So a run of the pipeline is one of the limiter, watched or not. *)
LEMMA PipelineIsWatched == PipelineSpec => WindowSpec /\ Spec
<1>1. PipelineInit => WindowInit
  BY DEF PipelineInit
<1>2. WindowInit => Init
  BY DEF WindowInit
<1>3. QED
  BY <1>1, <1>2, LayersAreSilent, WatchIsSilent, PTL DEF PipelineSpec, WindowSpec, Spec

(* Behind the probes and in front of the token check, the limiter still    *)
(* answers each client as a bucket of its own would.                       *)
THEOREM PipelineKeepsLimits == PipelineSpec => LimitsAsPromised
BY PipelineIsWatched, RefinesTokenBuckets

(* The pipeline's dictionary of buckets stays swept. *)
THEOREM PipelineSwept == PipelineSpec => []IdleBounded
BY PipelineIsWatched, DictionarySwept

(* No window of time lets through more than a full bucket and its refill.  *)
THEOREM PipelineWindowLimited == PipelineSpec => []WindowBounded
BY PipelineIsWatched, WindowLimited

(* Whatever the layers do, the limiter's state keeps its types, and the    *)
(* answer recorded is the one of the request.                              *)
LEMMA AnswerType ==
    ASSUME [PipelineNext]_pipelineVars, response \in Response \cup {NoResponse}
    PROVE  response' \in Response \cup {NoResponse}
<1>1. CASE PipelineTick \/ PipelineWatch \/ UNCHANGED pipelineVars
  BY <1>1 DEF PipelineTick, PipelineWatch, pipelineVars
<1>2. ASSUME NEW h \in Hosts, NEW credential \in Presented, ServeRequest(h, credential)
      PROVE  response' \in Response
  <2>1. PICK path \in Paths, status \in Statuses : Reply(path, h, credential, status)
    BY <1>2 DEF ServeRequest, Health, Metrics, Mcp, Paths, Statuses
  <2>2. QED
    BY <2>1 DEF Reply, Response
<1>3. QED
  BY <1>1, <1>2 DEF PipelineNext, Served

(* The limiter, its observer and the last answer keep their types. *)
THEOREM PipelineTypes == PipelineSpec => []PipelineTypeOK
<1> DEFINE Answered == response \in Response \cup {NoResponse}
<1>1. PipelineInit => Answered
  BY DEF PipelineInit
<1>2. Answered /\ [PipelineNext]_pipelineVars => Answered'
  BY AnswerType
<1>3. WindowInv /\ Answered => PipelineTypeOK
  BY DEF WindowInv, PipelineTypeOK
<1> HIDE DEF Answered
<1>4. QED
  BY <1>1, <1>2, <1>3, PipelineIsWatched, WindowInvariance, PTL DEF PipelineSpec

(* No layer, and no state of the buckets, lets a request through to the    *)
(* application or the counters without the token, where there is one, nor  *)
(* turns away one that brings it.                                          *)
THEOREM OnlyAuthorizedServed == PipelineSpec => []ServedIsAuthorized
<1>1. PipelineInit => ServedIsAuthorized
  BY DEF PipelineInit, ServedIsAuthorized
<1>2. ServedIsAuthorized /\ [PipelineNext]_pipelineVars => ServedIsAuthorized'
  <2> SUFFICES ASSUME ServedIsAuthorized, [PipelineNext]_pipelineVars
               PROVE  ServedIsAuthorized'
    OBVIOUS
  <2>1. CASE UNCHANGED response
    BY <2>1 DEF ServedIsAuthorized
  <2>2. ASSUME NEW h \in Hosts, NEW credential \in Presented, ServeRequest(h, credential)
        PROVE  ServedIsAuthorized'
    <3>1. CASE Health(h, credential)
      BY <3>1 DEF Health, Reply, ServedIsAuthorized
    <3>2. CASE Metrics(h, credential)
      BY <3>2 DEF Metrics, Reply, ServedIsAuthorized, MetricsAuthorized
    <3>3. CASE Mcp(h, credential)
      BY <3>3 DEF Mcp, Reply, ServedIsAuthorized, StackAuthorized
    <3>4. QED
      BY <2>2, <3>1, <3>2, <3>3 DEF ServeRequest
  <2>3. QED
    BY <2>1, <2>2 DEF PipelineNext, Served, PipelineTick, PipelineWatch, pipelineVars
<1>3. QED
  BY <1>1, <1>2, PTL DEF PipelineSpec

(* What a request that was refused leaves in the buckets is what was there *)
(* before it, a bucket that its sweep evicted included.                    *)
LEMMA RefusedIsFree ==
    ASSUME TypeOK, TypeOK', NEW h \in Hosts, Request(h), ~Admitted
    PROVE  bucketLevel' = bucketLevel
<1>1. PICK admitted \in BOOLEAN : Consume(h, admitted) /\ verdict' = <<h, admitted>>
  BY DEF Request
<1>2. ~admitted
  BY <1>1 DEF Admitted
<1>3. bucketLevel' = [bucketLevel EXCEPT ![h] = IF admitted THEN @ - Cost ELSE @]
  BY <1>1, ConsumeLevels
<1>4. QED
  BY <1>2, <1>3 DEF bucketLevel

(* Neither a probe nor a 429 costs any client a token. *)
THEOREM RefusedPayNothing == PipelineSpec => RefusalsAreFree
<1> DEFINE Free == Served /\ (response'.path # "mcp" \/ response'.status = "too_many_requests")
                   => bucketLevel' = bucketLevel
<1>1. TypeOK /\ TypeOK' /\ [PipelineNext]_pipelineVars => [Free]_pipelineVars
  <2> SUFFICES ASSUME TypeOK, TypeOK', NEW h \in Hosts, NEW credential \in Presented,
                      ServeRequest(h, credential),
                      response'.path # "mcp" \/ response'.status = "too_many_requests"
               PROVE  bucketLevel' = bucketLevel
    BY DEF Served
  <2>1. CASE UNCHANGED vars
    BY <2>1 DEF vars, bucketLevel
  <2>2. CASE Mcp(h, credential)
    <3>1. Request(h) /\ ~Admitted
      BY <2>2 DEF Mcp, WatchedRequest, Reply
    <3>2. QED
      BY <3>1, RefusedIsFree
  <2>3. QED
    BY <2>1, <2>2 DEF ServeRequest, Health, Metrics
<1> HIDE DEF Free
<1>2. PipelineSpec => [][Free]_pipelineVars
  BY <1>1, PipelineIsWatched, TypeCorrect, PTL DEF PipelineSpec
<1>3. QED
  BY <1>2 DEF RefusalsAreFree, Free

=============================================================================
