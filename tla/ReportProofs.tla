------------------------------ MODULE ReportProofs ------------------------------
(***************************************************************************)
(* Proofs about Report: for any length of an hour and of a day, any window *)
(* of days and any range, any sample size and any series of the provider.  *)
(***************************************************************************)
EXTENDS Report, FiniteSetTheorems, SequenceTheorems, WellFoundedInduction, TLAPS

-----------------------------------------------------------------------------
(* Numbers.                                                                *)

(* Every set of naturals that is not empty has a least element: the        *)
(* intervals 0..k for its elements k up to one of them are sets of a       *)
(* finite set, which has no descent without end.                           *)
LEMMA LeastNatural ==
    ASSUME NEW S \in SUBSET Nat, S # {}
    PROVE  \E m \in S : \A k \in S : m <= k
<1>1. PICK n \in S : TRUE
  OBVIOUS
<1> DEFINE T == {0..k : k \in {j \in S : j <= n}}
           R == StrictSubsetOrdering(0..n)
<1>2. IsWellFoundedOn(R, SUBSET (0..n))
  <2>1. IsFiniteSet(0..n)
    BY FS_Interval
  <2>2. FiniteSubsetsOf(0..n) = SUBSET (0..n)
    BY <2>1, FS_FiniteSubsetsOfFinite
  <2>3. IsWellFoundedOn(R, FiniteSubsetsOf(0..n))
    BY FS_StrictSubsetOrderingWellFounded
  <2>4. QED
    BY <2>2, <2>3
<1>3. T \subseteq SUBSET (0..n) /\ T # {}
  OBVIOUS
<1>4. PICK x \in T : \A y \in T : ~(<<y, x>> \in R)
  <2> HIDE DEF T, R
  <2>1. QED
    BY <1>2, <1>3, WFMin
<1>5. PICK m \in S : m <= n /\ x = 0..m
  BY <1>4
<1>6. ASSUME NEW k \in S, k < m
      PROVE  FALSE
  <2>1. 0..k \in T
    BY <1>5, <1>6
  <2>2. <<0..k, 0..m>> \in R
    BY <1>5, <1>6 DEF StrictSubsetOrdering
  <2>3. QED
    BY <1>4, <1>5, <2>1, <2>2
<1>7. QED
  BY <1>5, <1>6

(* Least is what it is named for. *)
LEMMA LeastIsLeast ==
    ASSUME NEW S \in SUBSET Nat, S # {}
    PROVE  Least(S) \in S /\ \A y \in S : Least(S) <= y
BY LeastNatural DEF Least

(* Quotient and remainder. *)
LEMMA Division ==
    ASSUME NEW d \in Nat \ {0}, NEW t \in Int
    PROVE  /\ t \div d \in Int /\ t % d \in 0..d - 1
           /\ t = d * (t \div d) + (t % d)
BY SMTT(20)

LEMMA DivisionIs ==
    ASSUME NEW d \in Nat \ {0}, NEW q \in Int, NEW r \in 0..d - 1
    PROVE  (d * q + r) \div d = q /\ (d * q + r) % d = r
BY SMTT(20)

(* The multiples of a number are that number apart. *)
LEMMA MultiplesApart ==
    ASSUME NEW d \in Nat, NEW p \in Int, NEW q \in Int, p < q
    PROVE  /\ d * p \in Int /\ d * q \in Int /\ d * p + d <= d * q
           /\ d * (p + 1) = d * p + d
BY SMTT(20)

LEMMA Ticks ==
    /\ HourTicks \in Nat /\ HourTicks >= 2
    /\ DayHours \in Nat /\ DayHours >= 2
    /\ DayTicks = HourTicks * DayHours
    /\ DayTicks \in Nat \ {0} /\ DayTicks >= HourTicks + HourTicks
    /\ MaxWait \in Nat /\ 2 * MaxWait <= HourTicks
<1>1. /\ HourTicks \in Nat /\ HourTicks >= 2
      /\ DayHours \in Nat /\ DayHours >= 2
      /\ MaxWait \in Nat /\ 2 * MaxWait <= HourTicks
  BY ReportAssumption
<1>2. HourTicks * DayHours \in Nat /\ DayHours * HourTicks = HourTicks * DayHours
  BY <1>1
<1>3. HourTicks * DayHours >= HourTicks * 2
  BY <1>1
<1>4. QED
  BY <1>1, <1>2, <1>3 DEF DayTicks

(* A moment lies in its day. *)
LEMMA InDay ==
    ASSUME NEW t \in Int
    PROVE  /\ Day(t) \in Int /\ DayTicks * Day(t) \in Int
           /\ DayTicks * Day(t) <= t /\ t < DayTicks * Day(t) + DayTicks
<1>1. DayTicks \in Nat \ {0}
  BY Ticks
<1>2. Day(t) \in Int /\ t = DayTicks * Day(t) + (t % DayTicks) /\ t % DayTicks \in 0..DayTicks - 1
  BY <1>1, Division DEF Day
<1>3. DayTicks * Day(t) \in Int
  BY <1>1, <1>2
<1>4. QED
  BY <1>1, <1>2, <1>3

(* Days come in order, and a moment within a day of another is in its day  *)
(* or in the next.                                                         *)
LEMMA DaysInOrder ==
    ASSUME NEW t \in Int, NEW u \in Int, t <= u
    PROVE  /\ Day(t) <= Day(u)
           /\ u < t + DayTicks => Day(u) <= Day(t) + 1
<1>1. DayTicks \in Nat \ {0}
  BY Ticks
<1> DEFINE p == Day(t)
           q == Day(u)
<1>2. /\ p \in Int /\ DayTicks * p \in Int /\ DayTicks * p <= t /\ t < DayTicks * p + DayTicks
      /\ q \in Int /\ DayTicks * q \in Int /\ DayTicks * q <= u /\ u < DayTicks * q + DayTicks
  BY InDay
<1> HIDE DEF p, q
<1>3. ~(q < p)
  <2>1. q < p => DayTicks * q + DayTicks <= DayTicks * p
    BY <1>1, <1>2, MultiplesApart
  <2>2. QED
    BY <1>1, <1>2, <2>1
<1>4. u < t + DayTicks => ~(p + 1 < q)
  <2>1. DayTicks * (p + 1) = DayTicks * p + DayTicks
    BY <1>1, <1>2
  <2>2. p + 1 < q => DayTicks * (p + 1) + DayTicks <= DayTicks * q
    BY <1>1, <1>2, MultiplesApart
  <2>3. QED
    BY <1>1, <1>2, <2>1, <2>2
<1>5. QED
  BY <1>2, <1>3, <1>4 DEF p, q

(* The day of a moment, from its bounds. *)
LEMMA DayIs ==
    ASSUME NEW t \in Int, NEW d \in Int, DayTicks * d <= t, t < DayTicks * d + DayTicks
    PROVE  Day(t) = d
<1>1. DayTicks \in Nat \ {0} /\ DayTicks * d \in Int
  BY Ticks
<1> DEFINE r == t - DayTicks * d
<1>2. r \in 0..DayTicks - 1 /\ t = DayTicks * d + r
  BY <1>1
<1> HIDE DEF r
<1>3. QED
  BY <1>1, <1>2, DivisionIs DEF Day

-----------------------------------------------------------------------------
(* The call.                                                               *)

(* A call reads the clock at its start, the service of details at most a   *)
(* tick after its handler, and it takes MaxWait at most.                   *)
Timed ==
    /\ read <= asked /\ asked <= read + 1
    /\ asked <= now /\ now <= asked + MaxWait
    /\ request.kind # "details" => asked = read
    /\ request.kind = "range" => Accepts(request.start, request.end, Day(read))

(* What the provider sends: hours one after the other from the first day   *)
(* on, no more than were asked for, and numbers with gaps.                 *)
SeriesOK(series) ==
    /\ \E n \in 0..Expected :
        /\ series.times \in [1..n -> Int]
        /\ \A i \in 1..n : series.times[i] = DayTicks * FirstDay + HourTicks * (i - 1)
    /\ \A v \in Variables : \E m \in 0..Expected : series.values[v] \in [1..m -> {Missing, 0}]

Refused ==
    /\ request.kind = "range"
    /\ ~Accepts(request.start, request.end, Day(read))
    /\ report = [outcome |-> "invalid_request"]

Concluded ==
    \/ report = [outcome |-> "no_data"]
    \/ /\ ~Empty(hourly) /\ request.kind \in {"current", "details"}
       /\ report = WeatherReport(hourly)
    \/ ~Empty(hourly) /\ request.kind = "range" /\ report = RangeReport(hourly)
    \/ /\ ~Empty(hourly) /\ request.kind = "air"
       /\ \E index \in Indices \cup {Missing} : report = AirReport(hourly, index)

(* Each phase knows what came before it: the times, the days accepted, the *)
(* series and what was made of it.                                         *)
ReportInv ==
    /\ ReportTypeOK
    /\ phase = "handled" => request.kind = "details" /\ read <= now /\ now <= read + 1
    /\ phase = "sent" => Timed
    /\ phase = "done" => Refused \/ (Timed /\ SeriesOK(hourly) /\ Concluded)

(* What a request holds, by its kind. *)
LEMMA RequestShape ==
    ASSUME request \in Requests
    PROVE  /\ request.kind \in {"current", "details", "range", "air"}
           /\ request.kind = "range" =>
                /\ request.start \in Int /\ request.end \in Int /\ request.mode \in Modes
                /\ request = [kind |-> "range", start |-> request.start,
                              end |-> request.end, mode |-> request.mode]
           /\ request.kind = "air" => request.variables \in SUBSET Pollutants
BY ReportAssumption DEF Requests

(* The days of a series are whole days, at least one. *)
LEMMA SeriesDays ==
    ASSUME request \in Requests, now \in Nat, read \in Nat, Timed
    PROVE  /\ FirstDay \in Int /\ LastDay \in Int /\ FirstDay <= LastDay
           /\ Expected \in Nat /\ Expected = DayHours * (LastDay - FirstDay + 1)
<1>1. Day(now) \in Int /\ Day(read) \in Int
  BY InDay
<1>2. AqDays \in Nat /\ AqDays >= 2
  BY ReportAssumption
<1>3. FirstDay \in Int /\ LastDay \in Int /\ FirstDay <= LastDay
  <2>1. CASE request.kind = "range"
    BY <2>1, RequestShape DEF Timed, Accepts, FirstDay, LastDay
  <2>2. CASE request.kind = "details"
    BY <1>1, <2>2 DEF FirstDay, LastDay
  <2>3. CASE request.kind = "current"
    BY <1>1, <2>3 DEF FirstDay, LastDay
  <2>4. CASE request.kind = "air"
    BY <1>1, <1>2, <2>4 DEF FirstDay, LastDay
  <2>5. QED
    BY <2>1, <2>2, <2>3, <2>4, RequestShape
<1> DEFINE first == FirstDay
           last == LastDay
<1>4. first \in Int /\ last \in Int /\ first <= last
  BY <1>3
<1>5. Expected = (last - first + 1) * DayHours
  BY DEF Expected
<1> HIDE DEF first, last
<1>6. last - first + 1 \in Nat /\ DayHours \in Nat
  BY <1>4, Ticks
<1>7. (last - first + 1) * DayHours \in Nat
      /\ (last - first + 1) * DayHours = DayHours * (last - first + 1)
  BY <1>6
<1>8. QED
  BY <1>4, <1>5, <1>7 DEF first, last

(* The answers of the provider are such series. *)
LEMMA AnswersAreSeries ==
    ASSUME request \in Requests, now \in Nat, read \in Nat, Timed,
           NEW series \in Answers
    PROVE  SeriesOK(series)
<1> DEFINE first == FirstDay
           expected == Expected
           variables == Variables
<1>1. first \in Int /\ expected \in Nat /\ DayTicks \in Nat /\ HourTicks \in Nat
  BY SeriesDays, Ticks
<1>2. PICK n \in 0..expected, faulty \in variables, length \in 0..expected,
           gap \in {0, 1, expected} :
        series = [times |-> [i \in 1..n |-> first * DayTicks + (i - 1) * HourTicks],
                  values |-> [v \in variables |->
                     IF v = faulty THEN [i \in 1..length |-> IF i = gap THEN Missing ELSE 0]
                                   ELSE [i \in 1..n |-> 0]]]
  BY DEF Answers
<1> HIDE DEF first, expected, variables
<1>3. n \in Nat /\ length \in Nat
  BY <1>1, <1>2
<1>4. /\ series.times \in [1..n -> Int]
      /\ \A i \in 1..n : series.times[i] = DayTicks * first + HourTicks * (i - 1)
  <2>1. series.times = [i \in 1..n |-> first * DayTicks + (i - 1) * HourTicks]
    BY <1>2
  <2>2. ASSUME NEW i \in 1..n
        PROVE  /\ first * DayTicks + (i - 1) * HourTicks = DayTicks * first + HourTicks * (i - 1)
               /\ first * DayTicks + (i - 1) * HourTicks \in Int
    BY <1>1, <1>3
  <2>3. QED
    BY <2>1, <2>2
<1>5. ASSUME NEW v \in variables
      PROVE  \E m \in 0..expected : series.values[v] \in [1..m -> {Missing, 0}]
  <2>1. CASE v = faulty
    <3>1. series.values[v] = [i \in 1..length |-> IF i = gap THEN Missing ELSE 0]
      BY <1>2, <2>1
    <3>2. QED
      BY <1>2, <3>1
  <2>2. CASE v # faulty
    <3>1. series.values[v] = [i \in 1..n |-> 0]
      BY <1>2, <2>2
    <3>2. QED
      BY <1>2, <3>1
  <2>3. QED
    BY <2>1, <2>2
<1>6. QED
  BY <1>2, <1>4, <1>5 DEF SeriesOK, first, expected, variables

-----------------------------------------------------------------------------
(* The invariant.                                                          *)

LEMMA ReportTypes ==
    ASSUME ReportTypeOK
    PROVE  /\ now \in Nat /\ read \in Nat /\ asked \in Nat /\ MaxNow \in Nat
           /\ phase # "idle" => request \in Requests
BY ReportAssumption DEF ReportTypeOK

(* A tick happens only where time may pass. *)
LEMMA TickKeepsReport ==
    ASSUME ReportInv, Tick
    PROVE  ReportInv'
<1>1. /\ now \in Nat /\ read \in Nat /\ asked \in Nat /\ MaxNow \in Nat /\ MaxWait \in Nat
      /\ now' = now + 1 /\ now < MaxNow /\ phase # "done"
      /\ UNCHANGED <<phase, request, read, asked, hourly, report>>
  BY ReportTypes, Ticks DEF Tick, ReportInv
<1>2. ReportTypeOK'
  BY <1>1 DEF ReportInv, ReportTypeOK
<1>3. phase' = "handled" => request'.kind = "details" /\ read' <= now' /\ now' <= read' + 1
  BY <1>1 DEF ReportInv, Tick
<1>4. phase' = "sent" => Timed'
  BY <1>1 DEF ReportInv, Tick, Timed
<1>5. QED
  BY <1>1, <1>2, <1>3, <1>4 DEF ReportInv

(* A request that goes out at once has read the clock once. *)
LEMMA SendKeepsReport ==
    ASSUME ReportInv, phase = "idle", Send, request' \in Requests, read' = now,
           request'.kind = "range" => Accepts(request'.start, request'.end, Day(now))
    PROVE  ReportInv'
<1>1. /\ now \in Nat /\ asked' = now /\ now' = now /\ phase' = "sent" /\ report' = report
      /\ MaxWait \in Nat
  BY ReportTypes, Ticks DEF Send, ReportInv
<1>2. request' # Nothing
  BY DEF Requests, Nothing
<1>3. ReportTypeOK'
  BY <1>1, <1>2 DEF ReportInv, ReportTypeOK
<1>4. Timed'
  BY <1>1 DEF Timed
<1>5. QED
  BY <1>1, <1>3, <1>4 DEF ReportInv

LEMMA DetailsKeepReport ==
    ASSUME ReportInv, HandleDetails \/ AskDetails
    PROVE  ReportInv'
<1>1. now \in Nat /\ read \in Nat /\ asked \in Nat /\ MaxWait \in Nat
  BY ReportTypes, Ticks DEF ReportInv
<1>2. CASE HandleDetails
  <2>1. /\ phase = "idle" /\ phase' = "handled" /\ request' = [kind |-> "details"]
        /\ read' = now /\ now' = now /\ asked' = asked /\ report' = report
    BY <1>2 DEF HandleDetails
  <2>2. request' \in Requests /\ request' # Nothing
    BY <2>1 DEF Requests, Nothing
  <2>3. ReportTypeOK'
    BY <1>1, <2>1, <2>2 DEF ReportInv, ReportTypeOK
  <2>4. QED
    BY <1>1, <2>1, <2>3 DEF ReportInv
<1>3. CASE AskDetails
  <2>1. /\ phase = "handled" /\ phase' = "sent" /\ asked' = now
        /\ UNCHANGED <<now, read, request, report>>
        /\ request.kind = "details" /\ read <= now /\ now <= read + 1
    BY <1>3 DEF AskDetails, Send, ReportInv
  <2>2. ReportTypeOK'
    BY <1>1, <2>1 DEF ReportInv, ReportTypeOK
  <2>3. Timed'
    BY <1>1, <2>1 DEF Timed
  <2>4. QED
    BY <2>1, <2>2, <2>3 DEF ReportInv
<1>4. QED
  BY <1>2, <1>3

LEMMA RangeKeepsReport ==
    ASSUME ReportInv, NEW start \in Days, NEW end \in Days, NEW mode \in Modes,
           AskRange(start, end, mode)
    PROVE  ReportInv'
<1>1. /\ phase = "idle" /\ read' = now
      /\ request' = [kind |-> "range", start |-> start, end |-> end, mode |-> mode]
  BY DEF AskRange
<1>2. /\ request' \in Requests /\ request' # Nothing
      /\ request'.kind = "range" /\ request'.start = start /\ request'.end = end
  BY <1>1 DEF Requests, Nothing
<1>3. CASE Accepts(start, end, Day(now)) /\ Send
  BY <1>1, <1>2, <1>3, SendKeepsReport
<1>4. CASE /\ ~Accepts(start, end, Day(now)) /\ phase' = "done"
           /\ report' = [outcome |-> "invalid_request"]
           /\ UNCHANGED <<now, asked, hourly>>
  <2>1. report' # Nothing /\ report'.outcome \in Outcomes
    BY <1>4 DEF Nothing, Outcomes
  <2>2. ReportTypeOK'
    BY <1>1, <1>2, <1>4, <2>1 DEF ReportInv, ReportTypeOK
  <2>3. Refused'
    BY <1>1, <1>2, <1>4 DEF Refused
  <2>4. QED
    BY <1>4, <2>2, <2>3 DEF ReportInv
<1>5. QED
  BY <1>3, <1>4 DEF AskRange

(* The answer is a series of the request, and becomes a report of its kind. *)
LEMMA AnswerKeepsReport ==
    ASSUME ReportInv, Answer
    PROVE  ReportInv'
<1>1. /\ phase = "sent" /\ phase' = "done" /\ Timed
      /\ now \in Nat /\ read \in Nat /\ request \in Requests
      /\ UNCHANGED <<now, request, read, asked>>
  BY ReportTypes DEF Answer, ReportInv
<1>2. SeriesOK(hourly')
  BY <1>1, AnswersAreSeries DEF Answer
<1>3. Timed'
  BY <1>1 DEF Timed
<1>4. FirstDay' = FirstDay /\ LastDay' = LastDay /\ Variables' = Variables
  BY <1>1 DEF FirstDay, LastDay, Variables
<1>5. Expected' = Expected
  BY <1>4 DEF Expected
<1>6. SeriesOK(hourly)'
  BY <1>2, <1>4, <1>5 DEF SeriesOK
<1>7. Empty(hourly)' <=> Empty(hourly')
  BY <1>1, <1>4 DEF Empty
<1>8. /\ WeatherReport(hourly)' = WeatherReport(hourly')
      /\ RangeReport(hourly)' = RangeReport(hourly')
  BY <1>1, <1>4, <1>5 DEF WeatherReport, RangeReport
<1>9. ASSUME NEW index
      PROVE  AirReport(hourly, index)' = AirReport(hourly', index)
  BY <1>1, <1>4, <1>5 DEF AirReport
<1>10. Concluded'
  <2>1. CASE report' = [outcome |-> "no_data"]
    BY <2>1 DEF Concluded
  <2>2. CASE /\ ~Empty(hourly') /\ request.kind \in {"current", "details"}
             /\ report' = WeatherReport(hourly')
    BY <1>1, <1>7, <1>8, <2>2 DEF Concluded
  <2>3. CASE /\ ~Empty(hourly') /\ request.kind = "range" /\ report' = RangeReport(hourly')
    BY <1>1, <1>7, <1>8, <2>3 DEF Concluded
  <2>4. ASSUME NEW index \in Indices \cup {Missing}, ~Empty(hourly'), request.kind = "air",
               report' = AirReport(hourly', index)
        PROVE  Concluded'
    BY <1>1, <1>7, <1>9, <2>4 DEF Concluded
  <2>5. QED
    BY <2>1, <2>2, <2>3, <2>4 DEF Answer
<1>11. report' # Nothing /\ report'.outcome \in Outcomes
  BY DEF Answer, WeatherReport, RangeReport, AirReport, Nothing, Outcomes
<1>12. ReportTypeOK'
  BY <1>1, <1>11 DEF ReportInv, ReportTypeOK
<1>13. QED
  BY <1>1, <1>3, <1>6, <1>10, <1>12 DEF ReportInv

LEMMA ReportNextInv == ReportInv /\ [ReportNext]_reportVars => ReportInv'
<1> SUFFICES ASSUME ReportInv, [ReportNext]_reportVars
             PROVE  ReportInv'
  OBVIOUS
<1>1. CASE AskCurrent
  <2>1. request' \in Requests /\ request'.kind = "current"
    BY <1>1 DEF AskCurrent, Requests
  <2>2. QED
    BY <1>1, <2>1, SendKeepsReport DEF AskCurrent
<1>2. ASSUME NEW variables \in SUBSET Pollutants \ {{}}, AskAir(variables)
      PROVE  ReportInv'
  <2>1. request' \in Requests /\ request'.kind = "air"
    BY <1>2 DEF AskAir, Requests
  <2>2. QED
    BY <1>2, <2>1, SendKeepsReport DEF AskAir
<1>3. CASE Return
  BY <1>3 DEF Return, ReportInv, ReportTypeOK
<1>4. CASE UNCHANGED reportVars
  <2>1. UNCHANGED <<now, phase, request, read, asked, hourly, report>>
    BY <1>4 DEF reportVars
  <2>2. /\ FirstDay' = FirstDay /\ LastDay' = LastDay /\ Variables' = Variables
        /\ Timed' = Timed /\ Refused' = Refused /\ ReportTypeOK' = ReportTypeOK
    BY <2>1 DEF FirstDay, LastDay, Variables, Timed, Refused, ReportTypeOK
  <2>3. Expected' = Expected
    BY <2>2 DEF Expected
  <2>4. SeriesOK(hourly) => SeriesOK(hourly)'
    BY <2>1, <2>2, <2>3 DEF SeriesOK
  <2>5. /\ Empty(hourly)' = Empty(hourly)
        /\ WeatherReport(hourly)' = WeatherReport(hourly)
        /\ RangeReport(hourly)' = RangeReport(hourly)
        /\ \A index : AirReport(hourly, index)' = AirReport(hourly, index)
    BY <2>1, <2>2, <2>3 DEF Empty, WeatherReport, RangeReport, AirReport
  <2>6. Concluded => Concluded'
    BY <2>1, <2>5 DEF Concluded
  <2>7. QED
    BY <2>1, <2>2, <2>4, <2>6 DEF ReportInv
<1>5. QED
  BY <1>1, <1>2, <1>3, <1>4, TickKeepsReport, DetailsKeepReport, RangeKeepsReport,
     AnswerKeepsReport DEF ReportNext

LEMMA ReportInitInv == ReportInit => ReportInv
BY ReportAssumption DEF ReportInit, ReportInv, ReportTypeOK

(* Whatever a call is asked, and however the clock moves on while it runs, *)
(* its report is made of a series of the days that were asked for.         *)
THEOREM ReportInvariance == ReportSpec => []ReportInv
BY ReportInitInv, ReportNextInv, PTL DEF ReportSpec

(* The call goes through its phases, and is over when it has a report. *)
THEOREM ReportTypeCorrect == ReportSpec => []ReportTypeOK
<1>1. ReportInv => ReportTypeOK
  BY DEF ReportInv
<1>2. QED
  BY <1>1, ReportInvariance, PTL

-----------------------------------------------------------------------------
(* Ranges.                                                                 *)

(* A range is accepted when it has days, not too many, all in the window.  *)
LEMMA AcceptsWindow ==
    ASSUME NEW start \in Int, NEW end \in Int, NEW today \in Int
    PROVE  LET days   == start..end
               window == (today - PastDays)..(today + FutureDays)
           IN  Accepts(start, end, today) <=>
                   ~(days = {} \/ Cardinality(days) > MaxRangeDays \/ ~(days \subseteq window))
<1> DEFINE days == start..end
           window == (today - PastDays)..(today + FutureDays)
<1>1. PastDays \in Nat /\ FutureDays \in Nat /\ MaxRangeDays \in Nat
  BY ReportAssumption
<1>2. start <= end => Cardinality(days) = end - start + 1
  BY FS_Interval
<1>3. days = {} <=> ~(start <= end)
  OBVIOUS
<1>4. start <= end =>
        (days \subseteq window <=> today - PastDays <= start /\ end <= today + FutureDays)
  BY <1>1
<1> HIDE DEF days, window
<1>5. QED
  BY <1>1, <1>2, <1>3, <1>4 DEF Accepts, days, window

(* A range is refused exactly for its days; one that was accepted is still *)
(* within a day of the window when its report is made.                     *)
THEOREM RangesAreInWindow == ReportSpec => []RangeInWindow
<1>1. ReportInv => RangeInWindow
  <2> SUFFICES ASSUME ReportInv, phase = "done", request.kind = "range"
               PROVE  LET days   == request.start..request.end
                          window == (Day(read) - PastDays)..(Day(read) + FutureDays)
                      IN  /\ report.outcome = "invalid_request" <=>
                                 days = {} \/ Cardinality(days) > MaxRangeDays
                                     \/ ~(days \subseteq window)
                          /\ report.outcome # "invalid_request" =>
                                 days \subseteq (Day(now) - PastDays - 1)..(Day(now) + FutureDays)
    BY DEF RangeInWindow
  <2> DEFINE days == request.start..request.end
             window == (Day(read) - PastDays)..(Day(read) + FutureDays)
  <2>1. /\ now \in Nat /\ read \in Nat /\ request.start \in Int /\ request.end \in Int
        /\ Day(now) \in Int /\ Day(read) \in Int /\ PastDays \in Nat /\ FutureDays \in Nat
    BY ReportTypes, RequestShape, InDay, ReportAssumption DEF ReportInv
  <2>2. Accepts(request.start, request.end, Day(read)) <=>
          ~(days = {} \/ Cardinality(days) > MaxRangeDays \/ ~(days \subseteq window))
    BY <2>1, AcceptsWindow
  <2>3. CASE Refused
    <3>1. report.outcome = "invalid_request"
      BY <2>3 DEF Refused
    <3>2. QED
      BY <2>2, <2>3, <3>1 DEF Refused
  <2>4. CASE Timed /\ Concluded
    <3>1. report.outcome # "invalid_request"
      BY <2>4 DEF Concluded, WeatherReport, RangeReport, AirReport
    <3>2. Accepts(request.start, request.end, Day(read)) /\ read <= now /\ now <= read + MaxWait
      BY <2>4 DEF Timed
    <3>3. Day(read) <= Day(now) /\ Day(now) <= Day(read) + 1
      <4>1. now < read + DayTicks
        BY <2>1, <3>2, Ticks
      <4>2. QED
        BY <2>1, <3>2, <4>1, DaysInOrder
    <3>4. days \subseteq (Day(now) - PastDays - 1)..(Day(now) + FutureDays)
      BY <2>1, <3>2, <3>3 DEF Accepts
    <3>5. QED
      BY <2>2, <3>1, <3>2, <3>4
  <2>5. QED
    BY <2>3, <2>4 DEF ReportInv
<1>2. QED
  BY <1>1, ReportInvariance, PTL

-----------------------------------------------------------------------------
(* The series.                                                             *)

(* The hours of a series come one after the other, from the first day on.  *)
LEMMA SeriesTimes ==
    ASSUME ReportInv, phase = "done", ~Refused
    PROVE  /\ Len(hourly.times) \in 0..Expected
           /\ DOMAIN hourly.times = 1..Len(hourly.times)
           /\ \A i \in 1..Len(hourly.times) :
                /\ hourly.times[i] = DayTicks * FirstDay + HourTicks * (i - 1)
                /\ hourly.times[i] \in Int
           /\ \A v \in Variables :
                /\ Len(hourly.values[v]) \in Nat
                /\ DOMAIN hourly.values[v] = 1..Len(hourly.values[v])
                /\ \A i \in 1..Len(hourly.values[v]) : hourly.values[v][i] \in {Missing, 0}
<1>1. SeriesOK(hourly)
  BY DEF ReportInv
<1>2. Expected \in Nat
  BY ReportTypes, SeriesDays DEF ReportInv
<1>3. PICK n \in 0..Expected :
        /\ hourly.times \in [1..n -> Int]
        /\ \A i \in 1..n : hourly.times[i] = DayTicks * FirstDay + HourTicks * (i - 1)
  BY <1>1 DEF SeriesOK
<1>4. Len(hourly.times) = n /\ DOMAIN hourly.times = 1..n
  BY <1>2, <1>3
<1>5. ASSUME NEW v \in Variables
      PROVE  /\ Len(hourly.values[v]) \in Nat
             /\ DOMAIN hourly.values[v] = 1..Len(hourly.values[v])
             /\ \A i \in 1..Len(hourly.values[v]) : hourly.values[v][i] \in {Missing, 0}
  <2>1. PICK m \in 0..Expected : hourly.values[v] \in [1..m -> {Missing, 0}]
    BY <1>1, <1>5 DEF SeriesOK
  <2>2. Len(hourly.values[v]) = m /\ DOMAIN hourly.values[v] = 1..m
    BY <1>2, <2>1
  <2>3. QED
    BY <1>2, <2>1, <2>2
<1>6. QED
  BY <1>3, <1>4, <1>5

(* Its hours are in order. *)
LEMMA SeriesInOrder ==
    ASSUME ReportInv, phase = "done", ~Refused,
           NEW i \in DOMAIN hourly.times, NEW j \in DOMAIN hourly.times, i < j
    PROVE  hourly.times[i] < hourly.times[j]
<1>1. /\ i \in Int /\ j \in Int
      /\ hourly.times[i] = DayTicks * FirstDay + HourTicks * (i - 1)
      /\ hourly.times[j] = DayTicks * FirstDay + HourTicks * (j - 1)
      /\ DayTicks * FirstDay \in Int
  <2>1. FirstDay \in Int /\ DayTicks \in Nat
    BY ReportTypes, SeriesDays, Ticks DEF ReportInv
  <2>2. DayTicks * FirstDay \in Int
    BY <2>1
  <2>3. QED
    BY <2>2, SeriesTimes
<1>2. /\ HourTicks * (i - 1) + HourTicks <= HourTicks * (j - 1)
      /\ HourTicks * (i - 1) \in Int /\ HourTicks * (j - 1) \in Int
  BY <1>1, Ticks, MultiplesApart
<1>3. QED
  BY <1>1, <1>2, Ticks

-----------------------------------------------------------------------------
(* The coverage.                                                           *)

Past(series, reference) == {i \in DOMAIN series.times : series.times[i] <= reference}
Future(series, reference) == {i \in DOMAIN series.times : series.times[i] > reference}
Gaps(series, v, positions) == {i \in positions : ~IsNumber(ValueAt(series.values[v], i))}

(* The fields of the metadata, one by one. *)
LEMMA MetadataFields ==
    ASSUME NEW series, NEW variables, NEW reference, NEW expected
    PROVE  LET c      == SeriesMetadata(series, variables, reference, expected)
               past   == Past(series, reference)
               future == Future(series, reference)
           IN  /\ c.points.past = Cardinality(past) /\ c.points.future = Cardinality(future)
               /\ \A v \in variables :
                    /\ c.missing.past[v] = Cardinality(Gaps(series, v, past))
                    /\ c.missing.future[v] = Cardinality(Gaps(series, v, future))
               /\ c.partial <=>
                    \/ Len(series.times) # expected
                    \/ \E v \in variables : Cardinality(Gaps(series, v, DOMAIN series.times)) > 0
<1> DEFINE c == SeriesMetadata(series, variables, reference, expected)
           past == Past(series, reference)
           future == Future(series, reference)
           group == [past |-> past, future |-> future]
<1>1. group.past = past /\ group.future = future /\ DOMAIN group = {"past", "future"}
      /\ group["past"] = past /\ group["future"] = future
  OBVIOUS
<1>2. /\ c.points = [g \in DOMAIN group |-> Cardinality(group[g])]
      /\ c.missing = [g \in DOMAIN group |->
                        [v \in variables |-> MissingPoints(series, v, group[g])]]
  BY DEF SeriesMetadata, Past, Future
<1>3. c.partial = (\/ Len(series.times) # expected
                   \/ \E v \in variables : MissingPoints(series, v, DOMAIN series.times) > 0)
  BY DEF SeriesMetadata
<1> HIDE DEF c, past, future, group
<1>4. c.points["past"] = Cardinality(past) /\ c.points["future"] = Cardinality(future)
  BY <1>1, <1>2
<1>5. /\ c.missing["past"] = [v \in variables |-> MissingPoints(series, v, past)]
      /\ c.missing["future"] = [v \in variables |-> MissingPoints(series, v, future)]
  BY <1>1, <1>2
<1>6. \A v, positions : MissingPoints(series, v, positions) = Cardinality(Gaps(series, v, positions))
  BY DEF MissingPoints, Gaps
<1>7. c.partial <=>
         \/ Len(series.times) # expected
         \/ \E v \in variables : Cardinality(Gaps(series, v, DOMAIN series.times)) > 0
  BY <1>3, <1>6
<1>8. QED
  BY <1>4, <1>5, <1>6, <1>7 DEF c, past, future

(* A set and what a test makes of it: each element is counted once. *)
LEMMA SplitCounts ==
    ASSUME NEW S, IsFiniteSet(S), NEW A, NEW B, A \cup B = S, A \cap B = {}
    PROVE  /\ IsFiniteSet(A) /\ IsFiniteSet(B)
           /\ Cardinality(A) \in Nat /\ Cardinality(B) \in Nat
           /\ Cardinality(A) + Cardinality(B) = Cardinality(S)
<1>1. IsFiniteSet(A) /\ IsFiniteSet(B)
  BY FS_Subset
<1>2. Cardinality(A) \in Nat /\ Cardinality(B) \in Nat /\ Cardinality(A \cap B) = 0
  BY <1>1, FS_CardinalityType, FS_EmptySet
<1>3. Cardinality(A \cup B) = Cardinality(A) + Cardinality(B) - Cardinality(A \cap B)
  BY <1>1, FS_Union
<1>4. QED
  BY <1>1, <1>2, <1>3

(* The hours up to the reference are the first of the series, and those    *)
(* after it the rest: were the last of the past, or the first of the       *)
(* future, on the wrong side, the counts would not fit.                    *)
LEMMA SplitAtReference ==
    ASSUME ReportInv, phase = "done", ~Refused, NEW reference \in Int
    PROVE  LET past   == Past(hourly, reference)
               future == Future(hourly, reference)
               p      == Cardinality(past)
           IN  /\ p \in Nat /\ Cardinality(future) \in Nat
               /\ p + Cardinality(future) = Len(hourly.times)
               /\ p > 0 => hourly.times[p] <= reference
               /\ Cardinality(future) > 0 => hourly.times[p + 1] > reference
<1> DEFINE past == Past(hourly, reference)
           future == Future(hourly, reference)
           total == Len(hourly.times)
           p == Cardinality(past)
<1>1. total \in Nat /\ DOMAIN hourly.times = 1..total
      /\ \A i \in 1..total : hourly.times[i] \in Int
  <2>1. Expected \in Nat
    BY ReportTypes, SeriesDays DEF ReportInv
  <2>2. QED
    BY <2>1, SeriesTimes
<1>2. \A i, j \in 1..total : i < j => hourly.times[i] < hourly.times[j]
  BY <1>1, SeriesInOrder
<1>3. IsFiniteSet(1..total) /\ Cardinality(1..total) = total
  BY <1>1, FS_Interval
<1>4. past \cup future = 1..total /\ past \cap future = {}
  BY <1>1 DEF Past, Future
<1>5. /\ IsFiniteSet(past) /\ IsFiniteSet(future)
      /\ p \in Nat /\ Cardinality(future) \in Nat /\ p + Cardinality(future) = total
  <2> HIDE DEF past, future
  <2>1. QED
    BY <1>3, <1>4, SplitCounts
<1>6. \A i : i \in past <=> i \in 1..total /\ hourly.times[i] <= reference
  BY <1>1 DEF Past
<1> HIDE DEF past, future, total, p
<1>7. ASSUME p > 0, hourly.times[p] > reference
      PROVE  FALSE
  <2>1. p \in 1..total
    BY <1>1, <1>5, <1>7
  <2>2. past \subseteq 1..p - 1
    BY <1>1, <1>2, <1>7, <1>6, <2>1
  <2>3. IsFiniteSet(1..p - 1) /\ Cardinality(1..p - 1) = p - 1
    <3> DEFINE k == p - 1
    <3>1. k \in Int /\ (1 > k => k = 0) /\ k - 1 + 1 = k
      BY <2>1, <1>1
    <3> HIDE DEF k
    <3>2. IsFiniteSet(1..k) /\ Cardinality(1..k) = k
      BY <3>1, FS_Interval
    <3>3. QED
      BY <3>2 DEF k
  <2>4. p <= p - 1
    BY <2>2, <2>3, FS_Subset DEF p
  <2>5. QED
    BY <1>5, <2>4
<1>8. ASSUME Cardinality(future) > 0, hourly.times[p + 1] <= reference
      PROVE  FALSE
  <2>1. p + 1 \in 1..total
    BY <1>1, <1>5, <1>8
  <2>2. 1..p + 1 \subseteq past
    BY <1>1, <1>2, <1>8, <1>6, <2>1
  <2>3. Cardinality(1..p + 1) = p + 1
    BY <1>5, FS_Interval
  <2>4. p + 1 <= p
    BY <1>5, <2>2, <2>3, FS_Subset DEF p
  <2>5. QED
    BY <1>5, <2>4
<1>9. p > 0 => hourly.times[p] \in Int
  BY <1>1, <1>5
<1>10. Cardinality(future) > 0 => hourly.times[p + 1] \in Int
  BY <1>1, <1>5
<1>11. QED
  BY <1>5, <1>7, <1>8, <1>9, <1>10 DEF past, future, total, p

(* A report of hours is made of a series that is not empty, and split at   *)
(* the call or at the report.                                              *)
LEMMA HoursReported ==
    ASSUME ReportInv, Reported({"range", "air"})
    PROVE  /\ phase = "done" /\ ~Refused /\ Timed /\ request \in Requests
           /\ request.kind \in {"range", "air"}
           /\ ~Empty(hourly)
           /\ \E reference \in Int :
                /\ asked <= reference /\ reference <= now
                /\ report.coverage = SeriesMetadata(hourly, Variables, reference, Expected)
           /\ LET limit == IF request.kind = "air" THEN AqSample ELSE WeatherSample
                  mode  == IF request.kind = "air" THEN "first" ELSE request.mode
              IN  /\ report.metadata = SampleMetadata(Len(hourly.times), limit)
                  /\ report.sample = SampleIndices(Len(hourly.times), limit, mode)
<1>1. /\ phase = "done" /\ report.outcome = "reported" /\ request.kind \in {"range", "air"}
      /\ request \in Requests /\ asked \in Nat /\ now \in Nat
  BY ReportTypes DEF Reported, ReportInv
<1>2. ~Refused
  BY <1>1 DEF Refused
<1>3. Timed /\ Concluded
  BY <1>1, <1>2 DEF ReportInv
<1>4. asked <= now
  BY <1>3 DEF Timed
<1>5. CASE ~Empty(hourly) /\ request.kind = "range" /\ report = RangeReport(hourly)
  <2>1. /\ report.coverage = SeriesMetadata(hourly, Variables, now, Expected)
        /\ report.metadata = SampleMetadata(Len(hourly.times), WeatherSample)
        /\ report.sample = SampleIndices(Len(hourly.times), WeatherSample, request.mode)
    BY <1>5 DEF RangeReport
  <2>2. QED
    BY <1>1, <1>2, <1>3, <1>4, <1>5, <2>1
<1>6. ASSUME NEW index, ~Empty(hourly), request.kind = "air", report = AirReport(hourly, index)
      PROVE  /\ report.coverage = SeriesMetadata(hourly, Variables, asked, Expected)
             /\ report.metadata = SampleMetadata(Len(hourly.times), AqSample)
             /\ report.sample = SampleIndices(Len(hourly.times), AqSample, "first")
  BY <1>6 DEF AirReport
<1>7. CASE /\ ~Empty(hourly) /\ request.kind = "air"
           /\ \E index : report = AirReport(hourly, index)
  <2>1. /\ report.coverage = SeriesMetadata(hourly, Variables, asked, Expected)
        /\ report.metadata = SampleMetadata(Len(hourly.times), AqSample)
        /\ report.sample = SampleIndices(Len(hourly.times), AqSample, "first")
    BY <1>6, <1>7
  <2>2. QED
    BY <1>1, <1>2, <1>3, <1>4, <1>7, <2>1
<1>8. QED
  BY <1>1, <1>3, <1>5, <1>7 DEF Concluded

(* A value is missing where the array is short and where it has a null.    *)
LEMMA GapsAre ==
    ASSUME NEW series, NEW v, NEW positions
    PROVE  Gaps(series, v, positions) =
             {i \in positions : ~(i <= Len(series.values[v])) \/ series.values[v][i] = Missing}
BY DEF Gaps, ValueAt, IsNumber

(* A series passes for complete when it is, and what is missing of it, in  *)
(* the past and in the future, is what its arrays do not hold.             *)
THEOREM CoverageTold == ReportSpec => []CoverageIsTrue
<1>1. ASSUME ReportInv, Reported({"range", "air"})
      PROVE  LET c       == report.coverage
                 total   == Len(hourly.times)
                 without == [v \in Variables |->
                               {i \in 1..total : i > Len(hourly.values[v])
                                                 \/ hourly.values[v][i] = Missing}]
             IN  /\ ~c.partial <=> Whole(hourly)
                 /\ c.points.past + c.points.future = total
                 /\ \A v \in Variables :
                       c.missing.past[v] + c.missing.future[v] = Cardinality(without[v])
                 /\ c.points.past > 0 => hourly.times[c.points.past] <= now
                 /\ c.points.future > 0 => hourly.times[c.points.past + 1] > asked
  <2> DEFINE c       == report.coverage
             total   == Len(hourly.times)
             without == [v \in Variables |->
                           {i \in 1..total : i > Len(hourly.values[v])
                                             \/ hourly.values[v][i] = Missing}]
  <2>1. phase = "done" /\ ~Refused /\ now \in Nat /\ asked \in Nat
    BY <1>1, HoursReported, ReportTypes DEF ReportInv
  <2>2. PICK reference \in Int :
          /\ asked <= reference /\ reference <= now
          /\ c = SeriesMetadata(hourly, Variables, reference, Expected)
    BY <1>1, HoursReported
  <2> DEFINE past == Past(hourly, reference)
             future == Future(hourly, reference)
  <2>3. /\ c.points.past = Cardinality(past) /\ c.points.future = Cardinality(future)
        /\ \A v \in Variables :
             /\ c.missing.past[v] = Cardinality(Gaps(hourly, v, past))
             /\ c.missing.future[v] = Cardinality(Gaps(hourly, v, future))
        /\ c.partial <=>
             \/ total # Expected
             \/ \E v \in Variables : Cardinality(Gaps(hourly, v, DOMAIN hourly.times)) > 0
    BY <2>2, MetadataFields
  <2>4. /\ Cardinality(past) \in Nat /\ Cardinality(future) \in Nat
        /\ Cardinality(past) + Cardinality(future) = total
        /\ Cardinality(past) > 0 => hourly.times[Cardinality(past)] <= reference
        /\ Cardinality(future) > 0 => hourly.times[Cardinality(past) + 1] > reference
    BY <1>1, <2>1, SplitAtReference
  <2>5. /\ total \in Nat /\ DOMAIN hourly.times = 1..total /\ Expected \in Nat
        /\ \A i \in 1..total : hourly.times[i] \in Int
        /\ \A v \in Variables : Len(hourly.values[v]) \in Nat
    <3>1. Expected \in Nat
      BY <1>1, <2>1, HoursReported, ReportTypes, SeriesDays DEF ReportInv
    <3>2. QED
      BY <1>1, <2>1, <3>1, SeriesTimes
  <2>6. past \cup future = 1..total /\ past \cap future = {}
    BY <2>2, <2>5 DEF Past, Future
  <2>7. IsFiniteSet(1..total)
    BY <2>5, FS_Interval
  <2>8. \A v \in Variables : IsFiniteSet(Gaps(hourly, v, 1..total))
    <3>1. \A v \in Variables : Gaps(hourly, v, 1..total) \in SUBSET (1..total)
      BY DEF Gaps
    <3>2. QED
      BY <2>7, <3>1, FS_Subset
  <2>9. \A v \in Variables : without[v] = Gaps(hourly, v, 1..total)
    BY <2>5, GapsAre
  <2>10. \A v \in Variables :
            Cardinality(Gaps(hourly, v, past)) + Cardinality(Gaps(hourly, v, future))
                = Cardinality(Gaps(hourly, v, 1..total))
    <3>1. ASSUME NEW v \in Variables
          PROVE  /\ Gaps(hourly, v, past) \cup Gaps(hourly, v, future) = Gaps(hourly, v, 1..total)
                 /\ Gaps(hourly, v, past) \cap Gaps(hourly, v, future) = {}
      <4> HIDE DEF past, future, total
      <4>1. QED
        BY <2>6 DEF Gaps
    <3>2. QED
      BY <2>8, <3>1, SplitCounts
  <2>11. ~c.partial <=> Whole(hourly)
    <3>1. \A v \in Variables :
            /\ Cardinality(Gaps(hourly, v, 1..total)) \in Nat
            /\ Cardinality(Gaps(hourly, v, 1..total)) = 0 <=> Gaps(hourly, v, 1..total) = {}
      BY <2>8, FS_EmptySet, FS_CardinalityType
    <3>2. ~c.partial <=>
             total = Expected /\ \A v \in Variables : Gaps(hourly, v, 1..total) = {}
      BY <2>3, <2>5, <3>1
    <3>3. \A v \in Variables : Gaps(hourly, v, 1..total) = {}
            <=> \A i \in 1..total : IsNumber(ValueAt(hourly.values[v], i))
      BY DEF Gaps
    <3> HIDE DEF c, total
    <3>4. Whole(hourly) <=>
             total = Expected
             /\ \A v \in Variables : \A i \in 1..total : IsNumber(ValueAt(hourly.values[v], i))
      BY DEF Whole, total
    <3>5. QED
      BY <3>2, <3>3, <3>4
  <2>12. c.points.past > 0 => hourly.times[c.points.past] <= now
    <3> DEFINE p == Cardinality(past)
    <3>1. p > 0 => p \in 1..total
      BY <2>4, <2>5
    <3>2. c.points.past = p
      BY <2>3
    <3>3. p > 0 => hourly.times[p] <= reference
      BY <2>4
    <3> HIDE DEF c, past, future, total, p
    <3>4. QED
      BY <2>1, <2>2, <2>5, <3>1, <3>2, <3>3
  <2>13. c.points.future > 0 => hourly.times[c.points.past + 1] > asked
    <3> DEFINE p == Cardinality(past)
               f == Cardinality(future)
    <3>1. f > 0 => p + 1 \in 1..total
      BY <2>4, <2>5
    <3>2. c.points.past = p /\ c.points.future = f
      BY <2>3
    <3>3. f > 0 => hourly.times[p + 1] > reference
      BY <2>4
    <3> HIDE DEF c, past, future, total, p, f
    <3>4. QED
      BY <2>1, <2>2, <2>5, <3>1, <3>2, <3>3
  <2> HIDE DEF c, past, future, total, without
  <2>14. \A v \in Variables :
            c.missing.past[v] + c.missing.future[v] = Cardinality(without[v])
    BY <2>3, <2>9, <2>10
  <2>15. c.points.past + c.points.future = total
    BY <2>3, <2>4
  <2>16. QED
    BY <2>11, <2>12, <2>13, <2>14, <2>15 DEF c, total, without
<1>2. ReportInv => CoverageIsTrue
  BY <1>1 DEF CoverageIsTrue
<1>3. QED
  BY <1>2, ReportInvariance, PTL

-----------------------------------------------------------------------------
(* The sample.                                                             *)

(* The multiples of a, in units of b, go up by a \div b or one more.       *)
LEMMA EvenSteps ==
    ASSUME NEW a \in Nat, NEW b \in Nat \ {0}, NEW k \in Nat
    PROVE  LET step == ((k + 1) * a) \div b - (k * a) \div b
           IN  /\ step \in {a \div b, a \div b + 1}
               /\ (k * a) \div b \in Int
<1> DEFINE p == a \div b
           t == a % b
           q == (k * a) \div b
           r == (k * a) % b
<1>1. k * a \in Int /\ (k + 1) * a = k * a + a
  OBVIOUS
<1>2. p \in Int /\ t \in 0..b - 1 /\ a = b * p + t
  BY Division
<1>3. q \in Int /\ r \in 0..b - 1 /\ k * a = b * q + r
  BY <1>1, Division
<1> HIDE DEF p, t, q, r
<1>4. (k + 1) * a = b * q + r + (b * p + t)
  BY <1>1, <1>2, <1>3
<1>5. b * (q + p) = b * q + b * p /\ b * (q + p + 1) = b * q + b * p + b
      /\ b * q \in Int /\ b * p \in Int
  BY <1>2, <1>3
<1>6. CASE r + t < b
  <2>1. (k + 1) * a = b * (q + p) + (r + t) /\ r + t \in 0..b - 1 /\ q + p \in Int
    BY <1>2, <1>3, <1>4, <1>5, <1>6
  <2>2. ((k + 1) * a) \div b = q + p
    BY <2>1, DivisionIs
  <2>3. QED
    BY <1>2, <1>3, <2>2 DEF p, q
<1>7. CASE ~(r + t < b)
  <2>1. (k + 1) * a = b * (q + p + 1) + (r + t - b) /\ r + t - b \in 0..b - 1 /\ q + p + 1 \in Int
    BY <1>2, <1>3, <1>4, <1>5, <1>7
  <2>2. ((k + 1) * a) \div b = q + p + 1
    BY <2>1, DivisionIs
  <2>3. QED
    BY <1>2, <1>3, <2>2 DEF p, q
<1>8. QED
  BY <1>6, <1>7

(* They start at none, and reach a after b of them. *)
LEMMA StepsReach ==
    ASSUME NEW a \in Nat, NEW b \in Nat \ {0}
    PROVE  /\ (0 * a) \div b = 0
           /\ (b * a) \div b = a
           /\ \A k \in 0..b : (k * a) \div b \in 0..a
<1>1. (0 * a) \div b = 0
  <2>1. 0 * a = b * 0 + 0 /\ 0 \in 0..b - 1
    OBVIOUS
  <2>2. QED
    BY <2>1, DivisionIs
<1>2. (b * a) \div b = a
  <2>1. b * a = b * a + 0 /\ 0 \in 0..b - 1
    OBVIOUS
  <2>2. QED
    BY <2>1, DivisionIs
<1>3. ASSUME NEW k \in 0..b
      PROVE  (k * a) \div b \in 0..a
  <2> DEFINE q == (k * a) \div b
             r == (k * a) % b
  <2>1. k * a \in Int /\ 0 <= k * a /\ k * a <= b * a
    BY SMTT(30)
  <2>2. q \in Int /\ r \in 0..b - 1 /\ k * a = b * q + r
    BY <2>1, Division
  <2> HIDE DEF q, r
  <2>3. b * q \in Int /\ b * 0 = 0 /\ b * a \in Int
    BY <2>2
  <2>4. ~(a < q)
    <3>1. a < q => b * a + b <= b * q
      BY <2>2, MultiplesApart
    <3>2. QED
      BY <2>1, <2>2, <2>3, <3>1
  <2>5. ~(q < 0)
    <3>1. q < 0 => b * q + b <= b * 0
      BY <2>2, MultiplesApart
    <3>2. QED
      BY <2>1, <2>2, <2>3, <3>1
  <2>6. q \in 0..a
    BY <2>2, <2>4, <2>5
  <2>7. QED
    BY <2>6 DEF q
<1>4. QED
  BY <1>1, <1>2, <1>3

(* A sample of n positions: in order, from the end or ends that mode asks  *)
(* for, next to each other or, when spread, in even steps.                 *)
IsSample(s, n, total, mode) ==
    /\ Len(s) = n /\ DOMAIN s = 1..n
    /\ \A i \in 1..n : s[i] \in 1..total
    /\ mode \in {"first", "spread"} => s[1] = 1
    /\ mode \in {"last", "spread"} => s[n] = total
    /\ \A i \in 1..n - 1 : s[i + 1] - s[i] > 0
    /\ mode # "spread" => \A i \in 1..n - 1 : s[i + 1] - s[i] = 1
    /\ \E step \in Int : \A i \in 1..n - 1 : s[i + 1] - s[i] \in {step, step + 1}

(* What sample_indices returns, in each of its modes. *)
LEMMA SampleShape ==
    ASSUME NEW total \in Nat \ {0}, NEW limit \in Nat \ {0, 1}, NEW mode \in Modes
    PROVE  IsSample(SampleIndices(total, limit, mode),
                    IF total <= limit THEN total ELSE limit, total, mode)
<1> DEFINE s == SampleIndices(total, limit, mode)
<1>1. CASE total <= limit
  <2>1. s = [i \in 1..total |-> i]
    BY <1>1 DEF SampleIndices
  <2> HIDE DEF s
  <2>2. Len(s) = total /\ DOMAIN s = 1..total /\ \A i \in 1..total : s[i] = i
    BY <2>1
  <2>3. \A i \in 1..total - 1 : s[i + 1] - s[i] = 1
    BY <2>2
  <2>4. \E step \in Int : \A i \in 1..total - 1 : s[i + 1] - s[i] \in {step, step + 1}
    BY <2>3
  <2>5. IsSample(s, total, total, mode)
    BY <1>1, <2>2, <2>3, <2>4 DEF IsSample
  <2>6. QED
    BY <1>1, <2>5 DEF s
<1>2. CASE total > limit /\ mode = "first"
  <2>1. s = [i \in 1..limit |-> i]
    BY <1>2 DEF SampleIndices
  <2> HIDE DEF s
  <2>2. Len(s) = limit /\ DOMAIN s = 1..limit /\ \A i \in 1..limit : s[i] = i
    BY <2>1
  <2>3. \A i \in 1..limit - 1 : s[i + 1] - s[i] = 1
    BY <2>2
  <2>4. \E step \in Int : \A i \in 1..limit - 1 : s[i + 1] - s[i] \in {step, step + 1}
    BY <2>3
  <2>5. IsSample(s, limit, total, mode)
    BY <1>2, <2>2, <2>3, <2>4 DEF IsSample
  <2>6. QED
    BY <1>2, <2>5 DEF s
<1>3. CASE total > limit /\ mode = "last"
  <2>1. s = [i \in 1..limit |-> total - limit + i]
    BY <1>3 DEF SampleIndices
  <2> HIDE DEF s
  <2>2. Len(s) = limit /\ DOMAIN s = 1..limit /\ \A i \in 1..limit : s[i] = total - limit + i
    BY <2>1
  <2>3. \A i \in 1..limit - 1 : s[i + 1] - s[i] = 1
    BY <2>2
  <2>4. \E step \in Int : \A i \in 1..limit - 1 : s[i + 1] - s[i] \in {step, step + 1}
    BY <2>3
  <2>5. IsSample(s, limit, total, mode)
    BY <1>3, <2>2, <2>3, <2>4 DEF IsSample
  <2>6. QED
    BY <1>3, <2>5 DEF s
<1>4. CASE total > limit /\ mode = "spread"
  <2> DEFINE a == total - 1
             b == limit - 1
  <2>1. s = [i \in 1..limit |-> ((i - 1) * a) \div b + 1]
    BY <1>4 DEF SampleIndices
  <2>2. /\ a \in Nat /\ b \in Nat \ {0} /\ total = a + 1 /\ limit = b + 1 /\ b < a
    BY <1>4
  <2> HIDE DEF s, a, b
  <2>3. Len(s) = limit /\ DOMAIN s = 1..limit
        /\ \A i \in 1..limit : s[i] = ((i - 1) * a) \div b + 1
    BY <2>1
  <2>4. \A i \in 1..limit : s[i] \in 1..total
    <3>1. \A i \in 1..limit : i - 1 \in 0..b
      BY <2>2
    <3>2. \A i \in 1..limit : ((i - 1) * a) \div b \in 0..a
      BY <2>2, <3>1, StepsReach
    <3>3. QED
      BY <2>2, <2>3, <3>2
  <2>5. s[1] = 1
    <3>1. s[1] = (0 * a) \div b + 1
      BY <2>2, <2>3
    <3>2. QED
      BY <2>2, <3>1, StepsReach
  <2>6. s[limit] = total
    <3>1. s[limit] = (b * a) \div b + 1
      <4>1. limit \in 1..limit /\ limit - 1 = b
        BY <2>2
      <4>2. QED
        BY <2>3, <4>1
    <3>2. QED
      BY <2>2, <3>1, StepsReach
  <2>7. a \div b \in Int /\ a \div b >= 1
    <3> DEFINE p == a \div b
               t == a % b
    <3>1. p \in Int /\ t \in 0..b - 1 /\ a = b * p + t
      BY <2>2, Division
    <3> HIDE DEF p, t
    <3>2. p <= 0 => b * p <= 0
      BY <2>2, <3>1
    <3>3. p >= 1
      BY <2>2, <3>1, <3>2
    <3>4. QED
      BY <3>1, <3>3 DEF p
  <2>8. ASSUME NEW i \in 1..limit - 1
        PROVE  s[i + 1] - s[i] \in {a \div b, a \div b + 1}
    <3> DEFINE k == i - 1
    <3>1. k \in Nat /\ k + 1 = i /\ i \in 1..limit /\ i + 1 \in 1..limit /\ (i + 1) - 1 = k + 1
      BY <2>2
    <3>2. s[i] = (k * a) \div b + 1 /\ s[i + 1] = ((k + 1) * a) \div b + 1
      BY <2>3, <3>1
    <3> HIDE DEF k
    <3>3. /\ ((k + 1) * a) \div b - (k * a) \div b \in {a \div b, a \div b + 1}
          /\ (k * a) \div b \in Int /\ ((k + 1) * a) \div b \in Int
      BY <2>2, <3>1, EvenSteps
    <3> DEFINE x == ((k + 1) * a) \div b
               y == (k * a) \div b
    <3>4. x \in Int /\ y \in Int /\ x - y \in {a \div b, a \div b + 1} /\ s[i] = y + 1 /\ s[i + 1] = x + 1
      BY <3>2, <3>3
    <3> HIDE DEF x, y
    <3>5. s[i + 1] - s[i] = x - y
      BY <3>4
    <3>6. QED
      BY <3>4, <3>5
  <2>9. \A i \in 1..limit - 1 : s[i + 1] - s[i] > 0
    BY <2>7, <2>8
  <2>10. \E step \in Int : \A i \in 1..limit - 1 : s[i + 1] - s[i] \in {step, step + 1}
    BY <2>7, <2>8
  <2>11. IsSample(s, limit, total, mode)
    BY <1>4, <2>3, <2>4, <2>5, <2>6, <2>9, <2>10 DEF IsSample
  <2>12. QED
    BY <1>4, <2>11 DEF s
<1>5. QED
  BY <1>1, <1>2, <1>3, <1>4 DEF Modes

(* The sample is as long as it may be, in order, and evenly spread over    *)
(* the series or an end of it; its metadata tell what is left out.         *)
THEOREM SamplesAreFair == ReportSpec => []SampleIsFair
<1>1. ASSUME ReportInv, Reported({"range", "air"})
      PROVE  LET s     == report.sample
                 total == Len(hourly.times)
                 limit == IF request.kind = "air" THEN AqSample ELSE WeatherSample
                 mode  == IF request.kind = "air" THEN "first" ELSE request.mode
                 gaps  == {s[i + 1] - s[i] : i \in 1..Len(s) - 1}
             IN  /\ \A i \in DOMAIN s : s[i] \in 1..total
                 /\ \A g \in gaps : g > 0
                 /\ Len(s) <= limit /\ Len(s) = report.metadata.returned
                 /\ report.metadata.truncated <=> Len(s) < report.metadata.total
                 /\ report.metadata.truncated => Len(s) = limit
                 /\ mode \in {"first", "spread"} => s[1] = 1
                 /\ mode \in {"last", "spread"} => s[Len(s)] = total
                 /\ mode = "spread" => \A g, h \in gaps : g - h <= 1
                 /\ mode # "spread" => gaps \subseteq {1}
  <2> DEFINE s     == report.sample
             total == Len(hourly.times)
             limit == IF request.kind = "air" THEN AqSample ELSE WeatherSample
             mode  == IF request.kind = "air" THEN "first" ELSE request.mode
             n     == IF total <= limit THEN total ELSE limit
             gaps  == {s[i + 1] - s[i] : i \in 1..Len(s) - 1}
  <2>1. /\ phase = "done" /\ ~Refused /\ Timed /\ request \in Requests
        /\ request.kind \in {"range", "air"} /\ ~Empty(hourly)
        /\ report.metadata = SampleMetadata(total, limit)
        /\ s = SampleIndices(total, limit, mode)
    BY <1>1, HoursReported
  <2>2. total \in Nat \ {0}
    <3>1. Expected \in Nat
      BY <1>1, <2>1, ReportTypes, SeriesDays DEF ReportInv
    <3>2. total \in Nat /\ DOMAIN hourly.times = 1..total
      BY <1>1, <2>1, <3>1, SeriesTimes
    <3>3. total # 0
      <4>1. PICK m \in 0..Expected : hourly.times \in [1..m -> Int]
        BY <1>1, <2>1 DEF ReportInv, SeriesOK
      <4>2. hourly.times \in Seq(Int)
        BY <3>1, <4>1
      <4>3. total = 0 => hourly.times = <<>>
        BY <4>2, EmptySeq
      <4>4. QED
        BY <2>1, <4>3 DEF Empty
    <3>4. QED
      BY <3>2, <3>3
  <2>3. limit \in Nat \ {0, 1} /\ mode \in Modes
    BY <2>1, RequestShape, ReportAssumption DEF Modes
  <2>4. /\ report.metadata.returned = n /\ report.metadata.total = total
        /\ report.metadata.truncated = (total > limit)
    BY <2>1 DEF SampleMetadata
  <2> HIDE DEF s, total, limit, mode
  <2>5. /\ Len(s) = n /\ DOMAIN s = 1..n
        /\ \A i \in 1..n : s[i] \in 1..total
        /\ mode \in {"first", "spread"} => s[1] = 1
        /\ mode \in {"last", "spread"} => s[n] = total
        /\ \A i \in 1..n - 1 : s[i + 1] - s[i] > 0
        /\ mode # "spread" => \A i \in 1..n - 1 : s[i + 1] - s[i] = 1
        /\ \E step \in Int : \A i \in 1..n - 1 : s[i + 1] - s[i] \in {step, step + 1}
    <3>1. IsSample(s, n, total, mode)
      BY <2>1, <2>2, <2>3, SampleShape
    <3> HIDE DEF n
    <3>2. QED
      BY <3>1 DEF IsSample
  <2>6. \A g, h \in gaps : g - h <= 1
    <3>1. PICK step \in Int : \A i \in 1..n - 1 : s[i + 1] - s[i] \in {step, step + 1}
      BY <2>5
    <3>2. \A g \in gaps : g \in {step, step + 1}
      BY <2>5, <3>1
    <3> HIDE DEF gaps
    <3>3. QED
      BY <3>2
  <2>7. (\A g \in gaps : g > 0) /\ (mode # "spread" => gaps \subseteq {1})
    BY <2>5
  <2>8. n <= limit /\ (total > limit <=> n < total) /\ (total > limit => n = limit)
    BY <2>2, <2>3
  <2> HIDE DEF n, gaps
  <2>9. QED
    BY <2>4, <2>5, <2>6, <2>7, <2>8 DEF s, n, gaps, total, limit, mode
<1>2. ReportInv => SampleIsFair
  BY <1>1 DEF SampleIsFair
<1>3. QED
  BY <1>2, ReportInvariance, PTL

-----------------------------------------------------------------------------
(* The current hour.                                                       *)

(* The index chosen is one of the series, and no hour is nearer.           *)
LEMMA ClosestIsNearest ==
    ASSUME NEW times, NEW n \in Nat \ {0}, DOMAIN times = 1..n,
           \A i \in 1..n : times[i] \in Int, NEW t \in Int
    PROVE  /\ Closest(times, t) \in 1..n
           /\ \A j \in 1..n : Distance(times[Closest(times, t)], t) <= Distance(times[j], t)
<1> DEFINE far(i) == Distance(times[i], t)
           apart == {far(i) : i \in 1..n}
           nearest == {i \in 1..n : \A j \in 1..n : far(i) <= far(j)}
<1>1. \A i \in 1..n : far(i) \in Nat
  BY DEF Distance
<1>2. Closest(times, t) = Least(nearest)
  BY DEF Closest
<1> HIDE DEF far
<1>3. apart \in SUBSET Nat /\ apart # {}
  BY <1>1
<1>4. PICK d \in apart : \A e \in apart : d <= e
  BY <1>3, LeastNatural
<1>5. nearest # {} /\ nearest \in SUBSET Nat
  BY <1>4
<1>6. Least(nearest) \in nearest
  BY <1>5, LeastIsLeast
<1>7. QED
  BY <1>2, <1>6 DEF far

(* A moment after the start of a series, in hours and ticks of an hour. *)
LEMMA SinceBase ==
    ASSUME NEW base \in Int, NEW t \in Int, base <= t
    PROVE  /\ (t - base) \div HourTicks \in Nat
           /\ (t - base) % HourTicks \in 0..HourTicks - 1
           /\ HourTicks * ((t - base) \div HourTicks) \in Nat
           /\ t - base = HourTicks * ((t - base) \div HourTicks) + ((t - base) % HourTicks)
<1> DEFINE o == t - base
           q == o \div HourTicks
           r == o % HourTicks
<1>1. HourTicks \in Nat \ {0} /\ o \in Int /\ o >= 0
  BY Ticks
<1> HIDE DEF o
<1>2. q \in Int /\ r \in 0..HourTicks - 1 /\ o = HourTicks * q + r
  BY <1>1, Division
<1> HIDE DEF q, r
<1>3. HourTicks * q \in Int
  BY <1>1, <1>2
<1>4. q >= 0
  <2>1. q <= -1 => HourTicks * q + HourTicks <= 0
    BY <1>1, <1>2
  <2>2. QED
    BY <1>1, <1>2, <1>3, <2>1
<1>5. q \in Nat /\ HourTicks * q \in Nat
  BY <1>1, <1>2, <1>4
<1>6. QED
  BY <1>2, <1>5 DEF q, r, o

(* Of hours that go on beyond a moment, one is within half an hour of it;  *)
(* the last hour is, too, in its first half.                               *)
LEMMA HourNear ==
    ASSUME NEW base \in Int, NEW t \in Int, base <= t, NEW n \in Nat
    PROVE  LET q == (t - base) \div HourTicks
               r == (t - base) % HourTicks
           IN  q + 1 <= n /\ (2 * r <= HourTicks \/ q + 2 <= n)
                   => \E i \in 1..n : 2 * Distance(base + HourTicks * (i - 1), t) <= HourTicks
<1> DEFINE q == (t - base) \div HourTicks
           r == (t - base) % HourTicks
<1>1. HourTicks \in Nat \ {0}
  BY Ticks
<1>2. q \in Nat /\ r \in 0..HourTicks - 1 /\ t - base = HourTicks * q + r
  BY SinceBase
<1> HIDE DEF q, r
<1>3. HourTicks * q \in Int /\ HourTicks * (q + 1) = HourTicks * q + HourTicks
  BY <1>1, <1>2
<1>4. q >= 0
  BY <1>2
<1>5. CASE q + 1 <= n /\ 2 * r <= HourTicks
  <2>1. q + 1 \in 1..n /\ (q + 1) - 1 = q
    BY <1>2, <1>4, <1>5
  <2>2. 2 * Distance(base + HourTicks * q, t) <= HourTicks
    BY <1>1, <1>2, <1>3, <1>5 DEF Distance
  <2>3. QED
    BY <2>1, <2>2
<1>6. CASE q + 2 <= n /\ ~(2 * r <= HourTicks)
  <2>1. q + 2 \in 1..n /\ (q + 2) - 1 = q + 1
    BY <1>2, <1>4, <1>6
  <2>2. 2 * Distance(base + HourTicks * (q + 1), t) <= HourTicks
    BY <1>1, <1>2, <1>3, <1>6 DEF Distance
  <2>3. QED
    BY <2>1, <2>2
<1>7. QED
  BY <1>5, <1>6 DEF q, r

(* How many whole hours fit before a moment. *)
LEMMA HoursBefore ==
    ASSUME NEW base \in Int, NEW t \in Int, base <= t, NEW m \in Nat
    PROVE  LET q == (t - base) \div HourTicks IN
           /\ q \in Nat
           /\ t <= base + HourTicks * m => q <= m
           /\ t < base + HourTicks * m => q < m
<1> DEFINE q == (t - base) \div HourTicks
           r == (t - base) % HourTicks
<1>1. HourTicks \in Nat \ {0}
  BY Ticks
<1>2. q \in Nat /\ r \in 0..HourTicks - 1 /\ t - base = HourTicks * q + r
  BY SinceBase
<1> HIDE DEF q, r
<1>3. HourTicks * q \in Int /\ HourTicks * m \in Int
  BY <1>1, <1>2
<1>4. q >= 0
  BY <1>2
<1>5. q > m => HourTicks * m + HourTicks <= HourTicks * q
  BY <1>1, <1>2, MultiplesApart
<1>6. q = m => HourTicks * q = HourTicks * m
  OBVIOUS
<1>7. QED
  BY <1>1, <1>2, <1>3, <1>4, <1>5, <1>6 DEF q

(* A report of a current hour is made of a series that is not empty.       *)
LEMMA HourReported ==
    ASSUME ReportInv, Reported({"current", "details", "air"})
    PROVE  /\ phase = "done" /\ ~Refused /\ Timed /\ request \in Requests
           /\ request.kind \in {"current", "details", "air"}
           /\ report.current = Closest(hourly.times, asked)
           /\ request.kind = "details" => report.forecast = Forecast(hourly.times, asked)
           /\ request.kind = "air" =>
                \E index \in Indices \cup {Missing} :
                    report.index = [v \in Variables |-> IndexPayload(v, index)]
<1>1. /\ phase = "done" /\ report.outcome = "reported"
      /\ request.kind \in {"current", "details", "air"} /\ request \in Requests
  BY ReportTypes DEF Reported, ReportInv
<1>2. ~Refused
  BY <1>1 DEF Refused
<1>3. Timed /\ Concluded
  BY <1>1, <1>2 DEF ReportInv
<1>4. CASE request.kind \in {"current", "details"} /\ report = WeatherReport(hourly)
  <2>1. /\ report.current = Closest(hourly.times, asked)
        /\ request.kind = "details" => report.forecast = Forecast(hourly.times, asked)
    BY <1>4 DEF WeatherReport
  <2>2. QED
    BY <1>1, <1>2, <1>3, <1>4, <2>1
<1>5. ASSUME NEW index \in Indices \cup {Missing}, request.kind = "air",
             report = AirReport(hourly, index)
      PROVE  /\ report.current = Closest(hourly.times, asked)
             /\ report.index = [v \in Variables |-> IndexPayload(v, index)]
  BY <1>5 DEF AirReport
<1>6. CASE /\ request.kind = "air"
           /\ \E index \in Indices \cup {Missing} : report = AirReport(hourly, index)
  BY <1>1, <1>2, <1>3, <1>5, <1>6
<1>7. QED
  BY <1>1, <1>3, <1>4, <1>6 DEF Concluded


(* The days a current hour is looked for in, and the hours there are.      *)
LEMMA HoursToChooseFrom ==
    ASSUME ReportInv, Reported({"current", "details", "air"}), Whole(hourly)
    PROVE  LET base  == DayTicks * FirstDay
               total == Len(hourly.times)
           IN  /\ base \in Int /\ total \in Nat /\ FirstDay \in Int
               /\ \A i \in 1..total : hourly.times[i] = base + HourTicks * (i - 1)
               /\ request.kind = "current" => total = DayHours
               /\ request.kind # "current" => total >= DayHours + DayHours
               /\ request.kind = "details" =>
                    /\ FirstDay = Day(read) /\ total = DayHours + DayHours
                    /\ base <= asked /\ asked <= base + DayTicks
               /\ request.kind # "details" =>
                    FirstDay = Day(now) /\ base <= now /\ now < base + DayTicks
<1>1. /\ phase = "done" /\ ~Refused /\ Timed /\ request \in Requests
      /\ request.kind \in {"current", "details", "air"}
  BY HourReported
<1>2. /\ now \in Nat /\ read \in Nat /\ asked \in Nat /\ DayTicks \in Nat
      /\ read <= asked /\ asked <= read + 1 /\ DayHours \in Nat
  BY <1>1, ReportTypes, Ticks DEF ReportInv, Timed
<1> DEFINE first == FirstDay
           last == LastDay
<1>3. first \in Int /\ last \in Int /\ Expected \in Nat /\ Expected = DayHours * (last - first + 1)
  BY <1>1, <1>2, SeriesDays
<1>4. Len(hourly.times) = Expected
  BY DEF Whole
<1>5. \A i \in 1..Expected : hourly.times[i] = DayTicks * first + HourTicks * (i - 1)
  BY <1>1, <1>4, SeriesTimes
<1>6. CASE request.kind = "current"
  <2>1. first = Day(now) /\ last = first
    BY <1>6 DEF FirstDay, LastDay
  <2>2. /\ DayTicks * Day(now) \in Int
        /\ DayTicks * Day(now) <= now /\ now < DayTicks * Day(now) + DayTicks
    BY <1>2, InDay
  <2> HIDE DEF first, last
  <2>3. Expected = DayHours
    BY <1>2, <1>3, <2>1
  <2>4. QED
    BY <1>3, <1>4, <1>5, <1>6, <2>1, <2>2, <2>3 DEF first
<1>7. CASE request.kind = "details"
  <2>1. first = Day(read) /\ last = first + 1
    BY <1>7 DEF FirstDay, LastDay
  <2>2. /\ DayTicks * Day(read) \in Int
        /\ DayTicks * Day(read) <= read /\ read < DayTicks * Day(read) + DayTicks
    BY <1>2, InDay
  <2> HIDE DEF first, last
  <2>3. Expected = DayHours + DayHours
    BY <1>2, <1>3, <2>1
  <2>4. DayTicks * first <= asked /\ asked <= DayTicks * first + DayTicks
    BY <1>2, <2>1, <2>2
  <2>5. QED
    <3>1. FirstDay = Day(read) /\ FirstDay \in Int /\ request.kind # "current"
      BY <1>3, <1>7, <2>1 DEF first
    <3>2. DayTicks * FirstDay <= asked /\ asked <= DayTicks * FirstDay + DayTicks
          /\ DayTicks * FirstDay \in Int
      BY <2>1, <2>2, <2>4 DEF first
    <3>3. \A i \in 1..Expected : hourly.times[i] = DayTicks * FirstDay + HourTicks * (i - 1)
      BY <1>5 DEF first
    <3> DEFINE base == DayTicks * FirstDay
               total == Len(hourly.times)
    <3>4. /\ total = DayHours + DayHours /\ total \in Nat /\ total >= DayHours + DayHours
          /\ \A i \in 1..total : hourly.times[i] = base + HourTicks * (i - 1)
      BY <1>2, <1>4, <2>3, <3>3
    <3> HIDE DEF base, total
    <3>5. QED
      BY <1>7, <3>1, <3>2, <3>4 DEF base, total
<1>8. CASE request.kind = "air"
  <2>1. first = Day(now) /\ last = first + AqDays - 1
    BY <1>8 DEF FirstDay, LastDay
  <2>2. /\ DayTicks * Day(now) \in Int
        /\ DayTicks * Day(now) <= now /\ now < DayTicks * Day(now) + DayTicks
    BY <1>2, InDay
  <2>3. AqDays \in Nat /\ AqDays >= 2
    BY ReportAssumption
  <2> HIDE DEF first, last
  <2>4. Expected = DayHours * AqDays
    <3>1. last - first + 1 = AqDays
      BY <1>3, <2>1, <2>3
    <3>2. QED
      BY <1>3, <3>1
  <2>5. Expected >= DayHours + DayHours
    <3>1. DayHours * AqDays >= DayHours * 2
      BY <1>2, <2>3
    <3>2. QED
      BY <1>2, <2>4, <3>1
  <2>6. QED
    BY <1>3, <1>4, <1>5, <1>8, <2>1, <2>2, <2>5 DEF first
<1>9. QED
  BY <1>1, <1>6, <1>7, <1>8

(* One of them is near: the hour of the call or the next, the first one    *)
(* when midnight falls into the exchange; only a series of one day may end *)
(* before.                                                                 *)
LEMMA HourIsNear ==
    ASSUME ReportInv, Reported({"current", "details", "air"}), Whole(hourly)
    PROVE  \/ \E i \in 1..Len(hourly.times) : 2 * Distance(hourly.times[i], asked) <= HourTicks
           \/ /\ request.kind = "current"
              /\ 2 * ((Day(asked) + 1) * DayTicks - asked) < HourTicks
<1> DEFINE base == DayTicks * FirstDay
           total == Len(hourly.times)
           q == (asked - base) \div HourTicks
           r == (asked - base) % HourTicks
<1>1. /\ base \in Int /\ total \in Nat /\ FirstDay \in Int
      /\ \A i \in 1..total : hourly.times[i] = base + HourTicks * (i - 1)
      /\ request.kind = "current" => total = DayHours
      /\ request.kind # "current" => total >= DayHours + DayHours
      /\ request.kind = "details" =>
           /\ FirstDay = Day(read) /\ total = DayHours + DayHours
           /\ base <= asked /\ asked <= base + DayTicks
      /\ request.kind # "details" =>
           FirstDay = Day(now) /\ base <= now /\ now < base + DayTicks
  BY HoursToChooseFrom
<1>2. /\ now \in Nat /\ asked \in Nat /\ asked <= now /\ now <= asked + MaxWait
      /\ request.kind \in {"current", "details", "air"}
  BY HourReported, ReportTypes DEF ReportInv, Timed
<1>3. /\ HourTicks \in Nat /\ HourTicks >= 2 /\ DayHours \in Nat /\ DayHours >= 2
      /\ DayTicks = HourTicks * DayHours /\ DayTicks \in Nat /\ MaxWait \in Nat
      /\ 2 * MaxWait <= HourTicks
  BY Ticks
<1> HIDE DEF base, total
<1>4. CASE asked < base
  <2>1. request.kind # "details" /\ 1 \in 1..total
    BY <1>1, <1>2, <1>3, <1>4
  <2>2. HourTicks * (1 - 1) = 0
    BY <1>3
  <2>3. hourly.times[1] = base
    BY <1>1, <2>1, <2>2
  <2>4. 2 * Distance(base, asked) <= HourTicks
    BY <1>1, <1>2, <1>3, <1>4, <2>1 DEF Distance
  <2>5. QED
    BY <2>1, <2>3, <2>4 DEF total
<1>5. CASE base <= asked
  <2>1. /\ q \in Nat /\ r \in 0..HourTicks - 1
        /\ HourTicks * q \in Nat /\ asked - base = HourTicks * q + r
    BY <1>1, <1>2, <1>5, SinceBase
  <2>2. /\ asked <= base + DayTicks => q <= DayHours
        /\ asked < base + DayTicks => q < DayHours
    BY <1>1, <1>2, <1>3, <1>5, HoursBefore
  <2>3. q + 1 <= total /\ (2 * r <= HourTicks \/ q + 2 <= total)
            => \E i \in 1..total : 2 * Distance(base + HourTicks * (i - 1), asked) <= HourTicks
    BY <1>1, <1>2, <1>5, HourNear
  <2> HIDE DEF q, r
  <2>4. CASE request.kind # "current"
    <3>1. q + 2 <= total
      BY <1>1, <1>2, <1>3, <2>1, <2>2, <2>4
    <3>2. PICK i \in 1..total : 2 * Distance(base + HourTicks * (i - 1), asked) <= HourTicks
      BY <1>1, <2>1, <2>3, <3>1
    <3>3. QED
      BY <1>1, <3>2 DEF total
  <2>5. CASE request.kind = "current" /\ (2 * r <= HourTicks \/ q + 2 <= total)
    <3>1. q + 1 <= total
      BY <1>1, <1>2, <1>3, <2>1, <2>2, <2>5
    <3>2. PICK i \in 1..total : 2 * Distance(base + HourTicks * (i - 1), asked) <= HourTicks
      BY <2>3, <2>5, <3>1
    <3>3. QED
      BY <1>1, <3>2 DEF total
  <2>6. CASE request.kind = "current" /\ ~(2 * r <= HourTicks \/ q + 2 <= total)
    <3>1. q < DayHours /\ q + 1 = DayHours
      BY <1>1, <1>2, <1>3, <2>1, <2>2, <2>6
    <3>2. DayTicks = HourTicks * q + HourTicks
      <4>1. HourTicks * (q + 1) = HourTicks * q + HourTicks
        BY <1>3, <2>1
      <4>2. QED
        BY <1>3, <3>1, <4>1
    <3>3. Day(asked) = FirstDay
      <4>1. DayTicks * FirstDay <= asked /\ asked < DayTicks * FirstDay + DayTicks
        BY <1>1, <1>2, <1>3, <1>5, <2>6 DEF base
      <4>2. QED
        BY <1>1, <1>2, <4>1, DayIs
    <3>4. (Day(asked) + 1) * DayTicks = base + DayTicks
      BY <1>1, <1>3, <3>3 DEF base
    <3>5. 2 * (base + DayTicks - asked) < HourTicks
      BY <1>1, <1>2, <1>3, <2>1, <2>6, <3>2
    <3> DEFINE midnight == (Day(asked) + 1) * DayTicks
    <3>6. midnight = base + DayTicks
      BY <3>4
    <3> HIDE DEF midnight
    <3>7. 2 * (midnight - asked) < HourTicks
      BY <1>1, <1>2, <1>3, <3>5, <3>6
    <3>8. QED
      BY <2>6, <3>7 DEF midnight
  <2>7. QED
    BY <2>4, <2>5, <2>6
<1>6. QED
  BY <1>1, <1>2, <1>4, <1>5

(* The hour chosen is no further off than that one. *)
LEMMA CurrentIsNear ==
    ASSUME ReportInv, Reported({"current", "details", "air"}), Whole(hourly)
    PROVE  \/ 2 * Distance(hourly.times[report.current], asked) <= HourTicks
           \/ /\ request.kind = "current"
              /\ 2 * ((Day(asked) + 1) * DayTicks - asked) < HourTicks
<1> DEFINE total == Len(hourly.times)
           chosen == report.current
<1>1. CASE \E i \in 1..total : 2 * Distance(hourly.times[i], asked) <= HourTicks
  <2>1. PICK i \in 1..total : 2 * Distance(hourly.times[i], asked) <= HourTicks
    BY <1>1
  <2>2. /\ asked \in Int /\ HourTicks \in Int /\ chosen = Closest(hourly.times, asked)
        /\ phase = "done" /\ ~Refused
    BY HourReported, ReportTypes, Ticks DEF ReportInv
  <2>3. /\ total \in Nat /\ DOMAIN hourly.times = 1..total
        /\ \A j \in 1..total : hourly.times[j] \in Int
    BY <2>2, SeriesTimes, HoursToChooseFrom
  <2>4. total \in Nat \ {0}
    BY <2>1, <2>3
  <2>5. /\ chosen \in 1..total
        /\ Distance(hourly.times[chosen], asked) <= Distance(hourly.times[i], asked)
    <3> HIDE DEF total
    <3>1. QED
      BY <2>1, <2>2, <2>3, <2>4, ClosestIsNearest
  <2>6. Distance(hourly.times[chosen], asked) \in Int /\ Distance(hourly.times[i], asked) \in Int
    BY <2>1, <2>2, <2>3, <2>5 DEF Distance
  <2> HIDE DEF total, chosen
  <2>7. 2 * Distance(hourly.times[chosen], asked) <= HourTicks
    BY <2>1, <2>2, <2>5, <2>6
  <2>8. QED
    BY <2>7 DEF chosen
<1>2. QED
  BY <1>1, HourIsNear


-----------------------------------------------------------------------------
(* The category of an air quality index.                                   *)

Upper(k) == CATEGORIES[k].upper
Above(k) == IF k = 1 THEN Missing ELSE Upper(k - 1)
Band(k) == [above |-> Above(k), max |-> Upper(k), label |-> CATEGORIES[k].label]

(* The scale goes up in six steps, to 500, and the reference has a band    *)
(* for each.                                                               *)
LEMMA Scale ==
    /\ DOMAIN CATEGORIES = 1..6
    /\ \A k \in 1..6 : Upper(k) \in 0..500 /\ Above(k) \in Int
    /\ \A j, k \in 1..6 : j < k => Upper(j) < Upper(k)
    /\ Upper(6) = 500
    /\ ReferenceBands = {Band(k) : k \in 1..6}
<1>1. DOMAIN CATEGORIES = 1..6
  BY DEF CATEGORIES
<1>2. /\ Upper(1) = 50 /\ Upper(2) = 100 /\ Upper(3) = 150
      /\ Upper(4) = 200 /\ Upper(5) = 300 /\ Upper(6) = 500
  BY DEF CATEGORIES, Upper
<1>3. 1..6 = {1, 2, 3, 4, 5, 6}
  OBVIOUS
<1>4. \A k \in 1..6 : Upper(k) \in 0..500
  BY <1>2, <1>3
<1>5. \A j, k \in 1..6 : j < k => Upper(j) < Upper(k)
  BY <1>2, <1>3
<1> DEFINE lower == <<Missing, 50, 100, 150, 200, 300>>
<1>6. \A k \in 1..6 : lower[k] = Above(k) /\ Above(k) \in Int
  BY <1>2, <1>3 DEF Above, Missing
<1>7. ReferenceBands =
        {[above |-> lower[k], max |-> Upper(k), label |-> CATEGORIES[k].label] : k \in 1..6}
  BY <1>1 DEF ReferenceBands, Upper
<1> HIDE DEF lower
<1>8. \A k \in 1..6 :
        [above |-> lower[k], max |-> Upper(k), label |-> CATEGORIES[k].label] = Band(k)
  BY <1>6 DEF Band
<1>9. ReferenceBands = {Band(k) : k \in 1..6}
  BY <1>7, <1>8
<1>10. QED
  BY <1>1, <1>2, <1>4, <1>5, <1>6, <1>9

(* A value on the scale lies in one band, and has its label; one beyond    *)
(* the scale lies in none.                                                 *)
LEMMA CategoryOfBand ==
    ASSUME NEW value \in Nat
    PROVE  /\ value <= 500 =>
                \E k \in 1..6 :
                   /\ Category(value) = CATEGORIES[k].label
                   /\ \A j \in 1..6 : Above(j) < value /\ value <= Upper(j) <=> j = k
           /\ value > 500 => Category(value) = "Hazardous"
<1> DEFINE within == {k \in 1..6 : value <= Upper(k)}
<1>1. /\ \A k \in 1..6 : Upper(k) \in 0..500
      /\ \A j, k \in 1..6 : j < k => Upper(j) < Upper(k)
      /\ Upper(6) = 500
  BY Scale
<1>2. /\ within # {} => Category(value) = CATEGORIES[Least(within)].label
      /\ within = {} => Category(value) = "Hazardous"
  <2>1. within = {k \in DOMAIN CATEGORIES : value <= CATEGORIES[k].upper}
    BY Scale DEF Upper
  <2> HIDE DEF within
  <2>2. QED
    BY <2>1 DEF Category
<1>3. ASSUME value <= 500
      PROVE  \E k \in 1..6 :
                /\ Category(value) = CATEGORIES[k].label
                /\ \A j \in 1..6 : Above(j) < value /\ value <= Upper(j) <=> j = k
  <2> DEFINE k == Least(within)
  <2>1. within # {} /\ within \in SUBSET Nat
    BY <1>1, <1>3
  <2>2. k \in within /\ \A j \in within : k <= j
    <3> HIDE DEF within
    <3>1. QED
      BY <2>1, LeastIsLeast
  <2>3. Category(value) = CATEGORIES[k].label
    <3> HIDE DEF within
    <3>1. QED
      BY <1>2, <2>1
  <2> HIDE DEF k
  <2>4. k \in 1..6 /\ value <= Upper(k)
    BY <2>2
  <2>5. ASSUME NEW j \in 1..6, j < k
        PROVE  Upper(j) < value
    <3>1. ~(value <= Upper(j))
      BY <2>2, <2>4, <2>5
    <3>2. Upper(j) \in Int
      BY <1>1
    <3>3. QED
      BY <3>1, <3>2
  <2>6. Above(k) < value
    <3>1. CASE k = 1
      BY <3>1 DEF Above, Missing
    <3>2. CASE k # 1
      <4>1. k - 1 \in 1..6 /\ k - 1 < k
        BY <2>4, <3>2
      <4>2. QED
        BY <2>5, <3>2, <4>1 DEF Above
    <3>3. QED
      BY <3>1, <3>2
  <2>7. ASSUME NEW j \in 1..6, k < j
        PROVE  value <= Above(j)
    <3>1. j # 1 /\ j - 1 \in 1..6 /\ (k = j - 1 \/ k < j - 1)
      BY <2>4, <2>7
    <3> DEFINE i == j - 1
    <3>2. Above(j) = Upper(i) /\ i \in 1..6 /\ (k = i \/ k < i)
      BY <3>1 DEF Above
    <3> HIDE DEF i
    <3>3. Upper(k) \in Int /\ Upper(i) \in Int /\ (k = i \/ Upper(k) < Upper(i))
      BY <1>1, <2>4, <3>2
    <3>4. Upper(k) <= Upper(i)
      BY <3>3
    <3>5. QED
      BY <2>4, <3>2, <3>3, <3>4
  <2>8. ASSUME NEW j \in 1..6
        PROVE  Above(j) < value /\ value <= Upper(j) <=> j = k
    <3>1. j < k \/ j = k \/ k < j
      BY <2>4
    <3>2. Upper(j) \in Int /\ Above(j) \in Int
      BY Scale
    <3>3. CASE j < k
      BY <2>4, <2>5, <3>2, <3>3
    <3>4. CASE j = k
      BY <2>4, <2>6, <3>4
    <3>5. CASE k < j
      BY <2>4, <2>7, <3>2, <3>5
    <3>6. QED
      BY <3>1, <3>3, <3>4, <3>5
  <2>9. QED
    BY <2>3, <2>4, <2>8
<1>4. ASSUME value > 500
      PROVE  Category(value) = "Hazardous"
  <2>1. within = {}
    BY <1>1, <1>4
  <2>2. QED
    BY <1>2, <2>1
<1>5. QED
  BY <1>3, <1>4

(* The payload of an index that is given agrees with the reference.        *)
LEMMA PayloadByReference ==
    ASSUME NEW pollutant, NEW index \in Int,
           IndexPayload(pollutant, index).status = "available"
    PROVE  ByReference(IndexPayload(pollutant, index))
<1> DEFINE p == IndexPayload(pollutant, index)
<1>1. pollutant \in SUBINDICES /\ Category(index) # Unlabelled
  BY DEF IndexPayload
<1>2. /\ p.value = index /\ p.category = Category(index)
      /\ p.beyond_scale <=> index > 500
  BY <1>1 DEF IndexPayload
<1>3. index \in Nat
  BY <1>1 DEF Category
<1> HIDE DEF p
<1>4. CASE index > 500
  <2>1. p.beyond_scale /\ p.category = "Hazardous"
    BY <1>2, <1>3, <1>4, CategoryOfBand
  <2>2. ASSUME NEW b \in ReferenceBands
        PROVE  p.value > b.max
    <3>1. PICK j \in 1..6 : b = Band(j)
      BY Scale
    <3>2. b.max = Upper(j) /\ Upper(j) \in 0..500
      BY <3>1, Scale DEF Band
    <3>3. QED
      BY <1>2, <1>3, <1>4, <3>2
  <2>3. QED
    BY <2>1, <2>2 DEF ByReference, p
<1>5. CASE index <= 500
  <2> DEFINE bands == {b \in ReferenceBands : b.above < p.value /\ p.value <= b.max}
  <2>1. PICK k \in 1..6 :
            /\ Category(index) = CATEGORIES[k].label
            /\ \A j \in 1..6 : Above(j) < index /\ index <= Upper(j) <=> j = k
    BY <1>3, <1>5, CategoryOfBand
  <2>2. \A j \in 1..6 : Band(j).above = Above(j) /\ Band(j).max = Upper(j)
    BY DEF Band
  <2>3. \A b : b \in ReferenceBands <=> \E j \in 1..6 : b = Band(j)
    BY Scale
  <2>4. \A b : b \in bands <=> b = Band(k)
    BY <1>2, <2>1, <2>2, <2>3
  <2> HIDE DEF bands
  <2>5. bands = {Band(k)}
    BY <2>4
  <2>6. Cardinality(bands) = 1
    BY <2>5, FS_Singleton
  <2>7. \A b \in bands : p.category = b.label
    BY <1>2, <2>1, <2>5 DEF Band
  <2>8. ~p.beyond_scale
    BY <1>2, <1>3, <1>5
  <2>9. QED
    BY <2>6, <2>7, <2>8 DEF ByReference, bands, p
<1>6. QED
  BY <1>3, <1>4, <1>5

(* The hour a report calls current is within half an hour of the call, but *)
(* for the end of a day, and the category of its index is the reference's. *)
THEOREM CurrentHoursAreTrue == ReportSpec => []CurrentIsTrue
<1>1. ReportInv => CurrentIsTrue
  <2> SUFFICES ASSUME ReportInv, Reported({"current", "details", "air"}), Whole(hourly)
               PROVE  /\ \/ 2 * Distance(hourly.times[report.current], asked) <= HourTicks
                         \/ /\ request.kind = "current"
                            /\ 2 * ((Day(asked) + 1) * DayTicks - asked) < HourTicks
                      /\ request.kind = "air" =>
                            \A v \in Variables :
                               report.index[v].status = "available" => ByReference(report.index[v])
    BY DEF CurrentIsTrue
  <2>1. ASSUME request.kind = "air", NEW v \in Variables,
               report.index[v].status = "available"
        PROVE  ByReference(report.index[v])
    <3>1. PICK index \in Indices \cup {Missing} :
              report.index = [u \in Variables |-> IndexPayload(u, index)]
      BY <2>1, HourReported
    <3>2. report.index[v] = IndexPayload(v, index)
      BY <2>1, <3>1
    <3>3. index \in Int
      BY <3>1, ReportAssumption DEF Missing
    <3>4. QED
      BY <2>1, <3>2, <3>3, PayloadByReference
  <2>2. QED
    BY <2>1, CurrentIsNear
<1>2. QED
  BY <1>1, ReportInvariance, PTL


-----------------------------------------------------------------------------
(* The forecast.                                                           *)

(* Sums and differences of hours. *)
LEMMA HoursAdd ==
    ASSUME NEW a \in Int, NEW b \in Int
    PROVE  /\ HourTicks * a \in Int /\ HourTicks * b \in Int
           /\ HourTicks * (a + b) = HourTicks * a + HourTicks * b
           /\ HourTicks * (a - b) = HourTicks * a - HourTicks * b
<1>1. HourTicks \in Int
  BY Ticks
<1>2. QED
  BY <1>1, SMTT(20)

(* The hours of a series that starts with a day are whole hours.           *)
LEMMA WholeHours ==
    ASSUME NEW first \in Int, NEW k \in Int
    PROVE  /\ DayTicks * first + HourTicks * k \in Int
           /\ (DayTicks * first + HourTicks * k) % HourTicks = 0
<1> DEFINE m == DayHours * first
<1>1. m \in Int /\ DayTicks * first = HourTicks * m /\ HourTicks \in Nat \ {0}
  <2>1. /\ HourTicks \in Nat \ {0} /\ DayHours \in Nat
        /\ DayTicks = HourTicks * DayHours
    BY Ticks
  <2>2. (HourTicks * DayHours) * first = HourTicks * (DayHours * first)
    BY <2>1, SMTT(20)
  <2>3. QED
    BY <2>1, <2>2
<1> HIDE DEF m
<1>2. DayTicks * first + HourTicks * k = HourTicks * (m + k)
  BY <1>1, HoursAdd
<1> DEFINE n == m + k
<1>3. n \in Int /\ HourTicks * n \in Int /\ 0 \in 0..HourTicks - 1
  BY <1>1
<1> HIDE DEF n
<1>4. (HourTicks * n + 0) % HourTicks = 0 /\ HourTicks * n + 0 = HourTicks * n
  BY <1>1, <1>3, DivisionIs
<1>5. QED
  BY <1>2, <1>3, <1>4 DEF n

(* A whole hour from the start of the series on is one of its hours, or    *)
(* comes after them all.                                                   *)
LEMMA HourOrAfter ==
    ASSUME NEW first \in Int, NEW n \in Nat, NEW t \in Int,
           DayTicks * first <= t, t % HourTicks = 0
    PROVE  \/ \E i \in 1..n : t = DayTicks * first + HourTicks * (i - 1)
           \/ DayTicks * first + HourTicks * n <= t
<1> DEFINE base == DayTicks * first
           q == (t - base) \div HourTicks
           r == (t - base) % HourTicks
<1>1. base \in Int /\ HourTicks \in Nat \ {0}
  BY Ticks
<1>2. /\ q \in Nat /\ r \in 0..HourTicks - 1
      /\ HourTicks * q \in Nat /\ t - base = HourTicks * q + r
  <2> HIDE DEF base
  <2>1. QED
    BY <1>1, SinceBase DEF base
<1>3. (base + HourTicks * q) % HourTicks = 0 /\ base + HourTicks * q \in Int
  <2> HIDE DEF q
  <2>1. QED
    BY <1>2, WholeHours
<1> HIDE DEF base, q, r
<1>4. r = 0
  <2> DEFINE u == base + HourTicks * q
             p == u \div HourTicks
  <2>1. u \in Int /\ u % HourTicks = 0 /\ t = u + r
    BY <1>1, <1>2, <1>3
  <2> HIDE DEF u
  <2>2. p \in Int /\ HourTicks * p \in Int /\ u = HourTicks * p
    BY <1>1, <2>1, Division
  <2> HIDE DEF p
  <2>3. t = HourTicks * p + r
    BY <2>1, <2>2
  <2>4. (HourTicks * p + r) % HourTicks = r
    BY <1>1, <1>2, <2>2, DivisionIs
  <2>5. QED
    BY <2>3, <2>4
<1>5. t = base + HourTicks * q
  BY <1>1, <1>2, <1>4
<1>6. CASE q + 1 <= n
  <2>1. q + 1 \in 1..n /\ (q + 1) - 1 = q
    BY <1>2, <1>6
  <2>2. QED
    BY <1>5, <2>1 DEF base
<1>7. CASE n <= q
  <2>1. HourTicks * n <= HourTicks * q
    <3>1. n < q => HourTicks * n + HourTicks <= HourTicks * q /\ HourTicks * n \in Int
      BY <1>1, <1>2, MultiplesApart
    <3>2. QED
      BY <1>1, <1>2, <1>7, <3>1
  <2>2. HourTicks * n \in Int
    BY <1>1
  <2>3. base + HourTicks * n <= t
    BY <1>1, <1>2, <1>5, <2>1, <2>2
  <2>4. QED
    BY <2>3 DEF base
<1>8. QED
  BY <1>2, <1>6, <1>7

(* The forecast holds whole hours of the twenty-four from the call on, and *)
(* all of them unless the handler read the clock on the day before.        *)
THEOREM ForecastsAreDays == ReportSpec => []ForecastIsADay
<1>1. ASSUME ReportInv, Reported({"details"}), Whole(hourly)
      PROVE  LET rows == {hourly.times[i] : i \in report.forecast}
                 day  == {t \in asked..asked + DayTicks : t % HourTicks = 0}
             IN  /\ rows \subseteq day
                 /\ \A t \in day \ rows : Day(asked) > Day(read) /\ Day(t) > Day(asked)
  <2> DEFINE first == FirstDay
             base == DayTicks * first
             total == Len(hourly.times)
             rows == {hourly.times[i] : i \in report.forecast}
             day == {t \in asked..asked + DayTicks : t % HourTicks = 0}
  <2>1. Reported({"current", "details", "air"}) /\ request.kind = "details"
    BY <1>1 DEF Reported
  <2>2. /\ base \in Int /\ total \in Nat /\ first \in Int
        /\ \A i \in 1..total : hourly.times[i] = base + HourTicks * (i - 1)
        /\ first = Day(read) /\ total = DayHours + DayHours
        /\ base <= asked /\ asked <= base + DayTicks
    BY <1>1, <2>1, HoursToChooseFrom
  <2>3. asked \in Int /\ DayTicks \in Nat \ {0} /\ HourTicks \in Nat \ {0} /\ DayHours \in Nat
        /\ DayTicks = HourTicks * DayHours
    BY <1>1, ReportTypes, Ticks DEF ReportInv
  <2>4. report.forecast = {i \in 1..total : asked <= hourly.times[i] /\ hourly.times[i] <= asked + DayTicks}
    <3>1. report.forecast = Forecast(hourly.times, asked) /\ phase = "done" /\ ~Refused
      BY <1>1, <2>1, HourReported
    <3>2. DOMAIN hourly.times = 1..total
      BY <1>1, <3>1, SeriesTimes
    <3>3. QED
      BY <3>1, <3>2 DEF Forecast
  <2> HIDE DEF first, total
  <2>5. ASSUME NEW i \in report.forecast
        PROVE  hourly.times[i] \in day
    <3>1. i \in 1..total /\ asked <= hourly.times[i] /\ hourly.times[i] <= asked + DayTicks
          /\ hourly.times[i] = base + HourTicks * (i - 1)
      BY <2>2, <2>4, <2>5
    <3> DEFINE k == i - 1
    <3>2. k \in Int
      BY <2>2, <3>1
    <3>3. hourly.times[i] = DayTicks * first + HourTicks * k
      BY <3>1
    <3> HIDE DEF k
    <3>4. hourly.times[i] \in Int /\ hourly.times[i] % HourTicks = 0
      BY <2>2, <3>2, <3>3, WholeHours
    <3>5. QED
      BY <2>3, <3>1, <3>4
  <2>6. ASSUME NEW t \in day \ rows
        PROVE  Day(asked) > Day(read) /\ Day(t) > Day(asked)
    <3>1. t \in Int /\ asked <= t /\ t <= asked + DayTicks /\ t % HourTicks = 0
      BY <2>3, <2>6
    <3>2. ~ \E i \in 1..total : t = base + HourTicks * (i - 1)
      <4>1. ASSUME NEW i \in 1..total, t = base + HourTicks * (i - 1)
            PROVE  FALSE
        <5>1. hourly.times[i] = t
          BY <2>2, <4>1
        <5>2. i \in report.forecast
          BY <2>4, <3>1, <5>1
        <5>3. QED
          BY <2>6, <5>1, <5>2
      <4>2. QED
        BY <4>1
    <3>3. DayTicks * first <= t
      BY <2>2, <2>3, <3>1
    <3>4. base + HourTicks * total <= t
      BY <2>2, <3>1, <3>2, <3>3, HourOrAfter
    <3>5. HourTicks * total = DayTicks + DayTicks
      BY <2>2, <2>3, HoursAdd
    <3> HIDE DEF base
    <3>6. asked = base + DayTicks /\ t = base + DayTicks + DayTicks
      BY <2>2, <2>3, <3>1, <3>4, <3>5
    <3>7. /\ DayTicks * (first + 1) = base + DayTicks
          /\ DayTicks * (first + 2) = base + DayTicks + DayTicks
      BY <2>2, <2>3, SMTT(20) DEF base
    <3>8. Day(asked) = first + 1
      <4> DEFINE d == first + 1
      <4>1. d \in Int /\ DayTicks * d = asked /\ asked < DayTicks * d + DayTicks
        BY <2>2, <2>3, <3>6, <3>7
      <4> HIDE DEF d
      <4>2. Day(asked) = d
        BY <2>3, <4>1, DayIs
      <4>3. QED
        BY <4>2 DEF d
    <3>9. Day(t) = first + 2
      <4> DEFINE d == first + 2
      <4>1. d \in Int /\ DayTicks * d = t /\ t < DayTicks * d + DayTicks
        BY <2>2, <2>3, <3>1, <3>6, <3>7
      <4> HIDE DEF d
      <4>2. Day(t) = d
        BY <3>1, <4>1, DayIs
      <4>3. QED
        BY <4>2 DEF d
    <3>10. QED
      BY <2>2, <3>8, <3>9
  <2> HIDE DEF day
  <2>7. rows \subseteq day
    BY <2>5
  <2> HIDE DEF rows
  <2>8. QED
    BY <2>6, <2>7 DEF rows, day
<1>2. ReportInv => ForecastIsADay
  BY <1>1 DEF ForecastIsADay
<1>3. QED
  BY <1>2, ReportInvariance, PTL

=============================================================================
