-------------------------------- MODULE Report --------------------------------
(***************************************************************************)
(* What a tool says about hours: the day arithmetic, the choice of the     *)
(* current hour, of the forecast and of the sample, the coverage of a      *)
(* series and the air quality category (range_policy.py, series.py,        *)
(* utils.py, air_quality_index.py, weather_service.py,                     *)
(* tools_air_quality.py, presentation/payloads.py).                        *)
(*                                                                         *)
(* One call at a time, over a clock that goes on while it runs: the code   *)
(* reads the clock once or twice before the exchanges, or after them.      *)
(* Time is in ticks, HourTicks to an hour and DayHours to a day.  A value  *)
(* of a series is a number or missing.                                     *)
(***************************************************************************)
EXTENDS Integers, Sequences, FiniteSets

CONSTANTS
    HourTicks, DayHours,   \* the code's 60 minutes and 24 hours
    PastDays, FutureDays,  \* PAST_DAYS, FUTURE_DAYS
    MaxRangeDays,          \* max_date_range_days
    WeatherSample,         \* WEATHER_SAMPLE_LIMIT
    AqSample,              \* AQ_SAMPLE_LIMIT
    AqDays,                \* forecast_days of get_air_quality (5)
    Days,                  \* the days ranges are asked for
    Indices,               \* the values an air quality index may have
    MaxWait,               \* bound on the time a call takes
    MaxNow                 \* bound on the clock

DayTicks == DayHours * HourTicks

(* A call is over well within half an hour (each request is bounded by     *)
(* http_timeout, their number by the retries).                             *)
ASSUME ReportAssumption ==
    /\ {HourTicks, DayHours, WeatherSample, AqSample, AqDays} \subseteq Nat \ {0, 1}
    /\ {PastDays, FutureDays, MaxNow} \subseteq Nat
    /\ MaxRangeDays \in Nat \ {0}
    /\ MaxWait \in Nat /\ 2 * MaxWait <= HourTicks
    /\ Days \subseteq Int
    /\ Indices \subseteq Int

VARIABLES
    now,      \* utc_now
    phase,    \* "idle", "handled", "sent" or "done"
    request,  \* what was asked for
    read,     \* the clock as the handler or the validation read it
    asked,    \* the clock as the service read it: now_utc
    hourly,   \* the provider's series
    report    \* what the call returns or raises

reportVars == <<now, phase, request, read, asked, hourly, report>>

Nothing == <<>>
Missing == -1

Pollutants == {"pm10", "dust"}
SUBINDICES == {"pm10"}
Modes == {"first", "last", "spread"}

Day(t) == t \div DayTicks
Distance(t, u) == IF t <= u THEN u - t ELSE t - u
Least(S) == CHOOSE x \in S : \A y \in S : x <= y

-----------------------------------------------------------------------------
(* Ranges of days: validate_range.                                         *)

AcceptsOneMore(start, end, today) ==
    /\ start <= end
    /\ end - start <= MaxRangeDays
    /\ today - PastDays <= start
    /\ end <= today + FutureDays

Accepts(start, end, today) ==
    /\ start <= end
    /\ end - start + 1 <= MaxRangeDays
    /\ today - PastDays <= start
    /\ end <= today + FutureDays

-----------------------------------------------------------------------------
(* Series.  Positions count from one.                                      *)

ValueAt(values, i) == IF i <= Len(values) THEN values[i] ELSE Missing
IsNumber(v) == v # Missing

(* sample_indices *)
SampleIndicesBehind(total, limit, mode) ==
    IF total <= limit THEN [i \in 1..total |-> i]
    ELSE CASE mode = "first"  -> [i \in 1..limit |-> i]
           [] mode = "last"   -> [i \in 1..limit |-> total - limit + i]
           [] mode = "spread" -> [i \in 1..limit |-> ((i - 1) * total) \div limit + 1]

SampleIndices(total, limit, mode) ==
    IF total <= limit THEN [i \in 1..total |-> i]
    ELSE CASE mode = "first"  -> [i \in 1..limit |-> i]
           [] mode = "last"   -> [i \in 1..limit |-> total - limit + i]
           [] mode = "spread" -> [i \in 1..limit |-> ((i - 1) * (total - 1)) \div (limit - 1) + 1]

SampleMetadata(total, limit) ==
    [returned |-> IF total <= limit THEN total ELSE limit, total |-> total, truncated |-> total > limit]

MissingPoints(series, v, positions) ==
    Cardinality({i \in positions : ~IsNumber(ValueAt(series.values[v], i))})

(* series_metadata.  Arrays that are short do not shift the data. *)
SeriesMetadataByLength(series, variables, reference, expected) ==
    LET all   == DOMAIN series.times
        group == [past |-> {i \in all : series.times[i] <= reference},
                  future |-> {i \in all : series.times[i] > reference}]
    IN  [returned |-> Len(series.times),
         partial |-> Len(series.times) # expected,
         points |-> [g \in DOMAIN group |-> Cardinality(group[g])],
         missing |-> [g \in DOMAIN group |->
                         [v \in variables |-> MissingPoints(series, v, group[g])]]]

SeriesMetadata(series, variables, reference, expected) ==
    LET all   == DOMAIN series.times
        group == [past |-> {i \in all : series.times[i] <= reference},
                  future |-> {i \in all : series.times[i] > reference}]
    IN  [returned |-> Len(series.times),
         partial |-> \/ Len(series.times) # expected
                     \/ \E v \in variables : MissingPoints(series, v, all) > 0,
         points |-> [g \in DOMAIN group |-> Cardinality(group[g])],
         missing |-> [g \in DOMAIN group |->
                         [v \in variables |-> MissingPoints(series, v, group[g])]]]

(* get_closest_utc_index: the first of the nearest. *)
ClosestBefore(times, t) ==
    LET begun == {i \in DOMAIN times : times[i] <= t} IN
    IF begun = {} THEN 1 ELSE Cardinality(begun)

Closest(times, t) ==
    LET nearest == {i \in DOMAIN times :
                       \A j \in DOMAIN times : Distance(times[i], t) <= Distance(times[j], t)}
    IN  Least(nearest)

(* The rows of the next twenty-four hours. *)
Forecast(times, t) == {i \in DOMAIN times : t <= times[i] /\ times[i] <= t + DayTicks}

-----------------------------------------------------------------------------
(* The air quality index.                                                  *)

CATEGORIES ==
    <<[upper |-> 50, label |-> "Good"], [upper |-> 100, label |-> "Moderate"],
      [upper |-> 150, label |-> "Unhealthy for Sensitive Groups"],
      [upper |-> 200, label |-> "Unhealthy"], [upper |-> 300, label |-> "Very Unhealthy"],
      [upper |-> 500, label |-> "Hazardous"]>>

Unlabelled == "none"

Category(value) ==
    LET within == {k \in DOMAIN CATEGORIES : value <= CATEGORIES[k].upper} IN
    CASE value < 0 -> Unlabelled
      [] value >= 0 /\ within # {} -> CATEGORIES[Least(within)].label
      [] value >= 0 /\ within = {} -> "Hazardous"

(* index_payload, of one requested pollutant. *)
IndexPayload(pollutant, index) ==
    LET value == IF pollutant \in SUBINDICES THEN index ELSE Missing
        label == Category(value)
    IN  [value |-> IF label = Unlabelled THEN Missing ELSE value,
         category |-> label,
         status |-> CASE pollutant \notin SUBINDICES -> "not_supported"
                      [] pollutant \in SUBINDICES /\ label # Unlabelled -> "available"
                      [] pollutant \in SUBINDICES /\ label = Unlabelled -> "unavailable",
         beyond_scale |-> label # Unlabelled /\ value > 500]

(* reference_payload: what weather://aqi says of the bands. *)
ReferenceBands ==
    LET lower == <<Missing, 50, 100, 150, 200, 300>> IN
    {[above |-> lower[k], max |-> CATEGORIES[k].upper, label |-> CATEGORIES[k].label] :
        k \in DOMAIN CATEGORIES}

-----------------------------------------------------------------------------
Requests ==
    [kind : {"current", "details"}]
    \cup [kind : {"range"}, start : Days, end : Days, mode : Modes]
    \cup [kind : {"air"}, variables : SUBSET Pollutants \ {{}}]

Outcomes == {"reported", "no_data", "invalid_request"}

ReportTypeOK ==
    /\ now \in 0..MaxNow
    /\ phase \in {"idle", "handled", "sent", "done"}
    /\ request = Nothing \/ request \in Requests
    /\ read \in 0..MaxNow
    /\ asked \in 0..MaxNow
    /\ phase = "idle" <=> request = Nothing
    /\ phase = "done" <=> report # Nothing
    /\ report # Nothing => report.outcome \in Outcomes
    /\ phase = "sent" => read <= asked /\ asked <= now

ReportInit ==
    /\ now = 0
    /\ phase = "idle"
    /\ request = Nothing
    /\ read = 0
    /\ asked = 0
    /\ hourly = Nothing
    /\ report = Nothing

(* The handler of details and its service read the clock one after the     *)
(* other, with nothing to wait for in between.                             *)
Tick ==
    /\ now < MaxNow
    /\ phase # "done"
    /\ phase = "handled" => now = read
    /\ phase = "sent" => now < asked + MaxWait
    /\ now' = now + 1
    /\ UNCHANGED <<phase, request, read, asked, hourly, report>>

Send == phase' = "sent" /\ asked' = now /\ UNCHANGED <<now, hourly, report>>

(* weather_get_current: the provider's series of the day. *)
AskCurrent ==
    /\ phase = "idle"
    /\ request' = [kind |-> "current"]
    /\ read' = now
    /\ Send

(* weather_get_details with a forecast: today and tomorrow. *)
HandleDetails ==
    /\ phase = "idle"
    /\ phase' = "handled"
    /\ request' = [kind |-> "details"]
    /\ read' = now
    /\ UNCHANGED <<now, asked, hourly, report>>

AskDetails ==
    /\ phase = "handled"
    /\ Send
    /\ UNCHANGED <<request, read>>

(* weather_get_by_range *)
AskRangeRefusedQuietly(start, end, mode) ==
    /\ phase = "idle"
    /\ request' = [kind |-> "range", start |-> start, end |-> end, mode |-> mode]
    /\ read' = now
    /\ \/ Accepts(start, end, Day(now)) /\ Send
       \/ /\ ~Accepts(start, end, Day(now))
          /\ phase' = "done"
          /\ UNCHANGED <<now, asked, hourly, report>>

AskRange(start, end, mode) ==
    /\ phase = "idle"
    /\ request' = [kind |-> "range", start |-> start, end |-> end, mode |-> mode]
    /\ read' = now
    /\ \/ Accepts(start, end, Day(now)) /\ Send
       \/ /\ ~Accepts(start, end, Day(now))
          /\ phase' = "done"
          /\ report' = [outcome |-> "invalid_request"]
          /\ UNCHANGED <<now, asked, hourly>>

(* Both air quality tools. *)
AskAir(variables) ==
    /\ phase = "idle"
    /\ request' = [kind |-> "air", variables |-> variables]
    /\ read' = now
    /\ Send

-----------------------------------------------------------------------------
(* The provider answers for the dates of the request, or from its own      *)
(* today on.                                                               *)
FirstDay ==
    CASE request.kind = "range" -> request.start
      [] request.kind = "details" -> Day(read)
      [] request.kind \in {"current", "air"} -> Day(now)

LastDayToday ==
    CASE request.kind = "range" -> request.end
      [] request.kind \in {"current", "details"} -> FirstDay
      [] request.kind = "air" -> FirstDay + AqDays - 1

LastDay ==
    CASE request.kind = "range" -> request.end
      [] request.kind = "details" -> FirstDay + 1
      [] request.kind = "current" -> FirstDay
      [] request.kind = "air" -> FirstDay + AqDays - 1

Expected == (LastDay - FirstDay + 1) * DayHours

Variables == IF request.kind = "air" THEN request.variables ELSE {"temperature_c"}

(* Hours may be left out at the end; the array of one variable may be      *)
(* short, null at either end, or not there.                                *)
Answers ==
    {[times |-> [i \in 1..n |-> FirstDay * DayTicks + (i - 1) * HourTicks],
      values |-> [v \in Variables |->
                     IF v = faulty THEN [i \in 1..length |-> IF i = gap THEN Missing ELSE 0]
                                   ELSE [i \in 1..n |-> 0]]] :
        n \in 0..Expected, faulty \in Variables, length \in 0..Expected, gap \in {0, 1, Expected}}

Whole(series) ==
    /\ Len(series.times) = Expected
    /\ \A v \in Variables, i \in 1..Expected : IsNumber(ValueAt(series.values[v], i))

(* get_current_weather *)
WeatherReport(series) ==
    [outcome |-> "reported",
     current |-> Closest(series.times, asked),
     forecast |-> IF request.kind = "details" THEN Forecast(series.times, asked) ELSE {}]

(* get_weather_by_date_range, then weather_range. *)
RangeReport(series) ==
    [outcome |-> "reported",
     reference |-> now,
     coverage |-> SeriesMetadata(series, Variables, now, Expected),
     metadata |-> SampleMetadata(Len(series.times), WeatherSample),
     sample |-> SampleIndices(Len(series.times), WeatherSample, request.mode)]

(* _query, then air_quality. *)
AirReport(series, index) ==
    [outcome |-> "reported",
     reference |-> asked,
     current |-> Closest(series.times, asked),
     index |-> [v \in Variables |-> IndexPayload(v, index)],
     coverage |-> SeriesMetadata(series, Variables, asked, Expected),
     metadata |-> SampleMetadata(Len(series.times), AqSample),
     sample |-> SampleIndices(Len(series.times), AqSample, "first")]

Empty(series) ==
    \/ series.times = <<>>
    \/ /\ request.kind = "air"
       /\ \A v \in Variables, i \in DOMAIN series.times : ~IsNumber(ValueAt(series.values[v], i))

(* From the answer of the provider on nothing is awaited. *)
Answer ==
    /\ phase = "sent"
    /\ phase' = "done"
    /\ hourly' \in Answers
    /\ \/ Empty(hourly') /\ report' = [outcome |-> "no_data"]
       \/ ~Empty(hourly') /\ request.kind \in {"current", "details"} /\ report' = WeatherReport(hourly')
       \/ ~Empty(hourly') /\ request.kind = "range" /\ report' = RangeReport(hourly')
       \/ /\ ~Empty(hourly') /\ request.kind = "air"
          /\ \E index \in IF Whole(hourly') THEN Indices ELSE {Missing} :
                report' = AirReport(hourly', index)
    /\ UNCHANGED <<now, request, read, asked>>

(* The answer is sent; the next call. *)
Return ==
    /\ phase = "done"
    /\ phase' = "idle"
    /\ request' = Nothing
    /\ hourly' = Nothing
    /\ report' = Nothing
    /\ UNCHANGED <<now, read, asked>>

ReportNext ==
    \/ Tick
    \/ AskCurrent \/ HandleDetails \/ AskDetails
    \/ \E start \in Days, end \in Days, mode \in Modes : AskRange(start, end, mode)
    \/ \E variables \in SUBSET Pollutants \ {{}} : AskAir(variables)
    \/ Answer
    \/ Return

ReportSpec == ReportInit /\ [][ReportNext]_reportVars

-----------------------------------------------------------------------------
Reported(kinds) == phase = "done" /\ report.outcome = "reported" /\ request.kind \in kinds

(* What the resource weather://aqi says of a category that is given.       *)
ByReference(p) ==
    LET bands == {b \in ReferenceBands : b.above < p.value /\ p.value <= b.max} IN
    IF p.beyond_scale
    THEN p.category = "Hazardous" /\ \A b \in ReferenceBands : p.value > b.max
    ELSE Cardinality(bands) = 1 /\ \A b \in bands : p.category = b.label

(* "nearest_hour": the hour reported as current is at most half an hour    *)
(* from the moment of the call, although the answer may come on the next   *)
(* day.  Only weather_get_current, whose series ends with the day, is      *)
(* further off in the last half hour before midnight.  The category of its *)
(* air quality index is the one the reference resource gives the value.    *)
CurrentIsTrue ==
    Reported({"current", "details", "air"}) /\ Whole(hourly) =>
        /\ \/ 2 * Distance(hourly.times[report.current], asked) <= HourTicks
           \/ /\ request.kind = "current"
              /\ 2 * ((Day(asked) + 1) * DayTicks - asked) < HourTicks
        /\ request.kind = "air" =>
              \A v \in Variables :
                 report.index[v].status = "available" => ByReference(report.index[v])

(* The forecast of weather_get_details is every hour of the twenty-four    *)
(* from the call on: the two days asked for hold them all, unless midnight *)
(* falls between the two readings of the clock, when at most the hours of  *)
(* the day after tomorrow are wanting.                                     *)
ForecastIsADay ==
    Reported({"details"}) /\ Whole(hourly) =>
        LET rows == {hourly.times[i] : i \in report.forecast}
            day  == {t \in asked..asked + DayTicks : t % HourTicks = 0}
        IN  /\ rows \subseteq day
            /\ \A t \in day \ rows : Day(asked) > Day(read) /\ Day(t) > Day(asked)

(* A sample is as long as it can be, in order and without repetition, and  *)
(* its metadata say what was left out.  "spread" has both ends and even    *)
(* gaps, "first" and "last" the rows of one end.                           *)
SampleIsFair ==
    Reported({"range", "air"}) =>
        LET s     == report.sample
            total == Len(hourly.times)
            limit == IF request.kind = "air" THEN AqSample ELSE WeatherSample
            mode  == IF request.kind = "air" THEN "first" ELSE request.mode
            gaps  == {s[i + 1] - s[i] : i \in 1..Len(s) - 1}
        IN  /\ \A i \in DOMAIN s : s[i] \in 1..total
            /\ \A g \in gaps : g > 0
            /\ Len(s) <= limit /\ Len(s) = report.metadata.returned
            /\ report.metadata.truncated <=> Len(s) < report.metadata.total
            /\ report.metadata.truncated => Len(s) = limit
            /\ mode \in {"first", "spread"} => s[1] = 1
            /\ mode \in {"last", "spread"} => s[Len(s)] = total
            /\ mode = "spread" => \A g, h \in gaps : g - h <= 1
            /\ mode # "spread" => gaps \subseteq {1}

(* A series passes for complete exactly when every hour of the days asked  *)
(* for has a number in every variable.  The split at the reference leaves  *)
(* no hour out, and puts no hour in the past that was still to come when   *)
(* the report was made, nor in the future when it had begun at the call.   *)
CoverageIsTrue ==
    Reported({"range", "air"}) =>
        LET c       == report.coverage
            total   == Len(hourly.times)
            without == [v \in Variables |->
                          {i \in 1..total : i > Len(hourly.values[v]) \/ hourly.values[v][i] = Missing}]
        IN  /\ ~c.partial <=> Whole(hourly)
            /\ c.points.past + c.points.future = total
            /\ \A v \in Variables : c.missing.past[v] + c.missing.future[v] = Cardinality(without[v])
            /\ c.points.past > 0 => hourly.times[c.points.past] <= now
            /\ c.points.future > 0 => hourly.times[c.points.past + 1] > asked

(* "default maximum 16 days inclusive", "today-92 through today+15 days":  *)
(* a range is refused exactly when it has no day, too many days or a day   *)
(* outside the window at the time of the call; and one that was accepted   *)
(* reaches at most a day into the past beyond the window of its report.    *)
RangeInWindow ==
    phase = "done" /\ request.kind = "range" =>
        LET days   == request.start..request.end
            window == (Day(read) - PastDays)..(Day(read) + FutureDays)
        IN  /\ report.outcome = "invalid_request" <=>
                   days = {} \/ Cardinality(days) > MaxRangeDays \/ ~(days \subseteq window)
            /\ report.outcome # "invalid_request" =>
                   days \subseteq (Day(now) - PastDays - 1)..(Day(now) + FutureDays)

=============================================================================
