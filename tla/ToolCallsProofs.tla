---------------------------- MODULE ToolCallsProofs ----------------------------
(***************************************************************************)
(* Proofs about ToolCalls: for any number of calls and of cities.          *)
(***************************************************************************)
EXTENDS ToolCalls, TLAPS

Awaiting == {"geocoding", "fetching"}

(* CauseIsTrue, SessionsClosed and AskedIsCounted, for one call.           *)
CauseOf(t) ==
    /\ Failed(t) => outcome[t] = Upstream(learnt[t][1], learnt[t][2])
    /\ Ended(t, "no_data") => learnt[t][2] \in NothingThere
    /\ Ended(t, "ok") /\ tool[t] \in RemoteTools
        => Provider(tool[t]) \in asked[t] /\ learnt[t][1] = Provider(tool[t])

SessionOf(t) == session[t] <=> pc[t] \in Awaiting

CountOf(t) == pc[t] = "done" /\ asked[t] # {} => counted[t] = outcome[t].class

(* How far a call is tells whom it has asked and what it has learnt.       *)
ProgressOf(t) ==
    /\ pc[t] = "idle" => asked[t] = {} /\ learnt[t] = NoExchange
    /\ pc[t] \in Awaiting => tool[t] \in RemoteTools /\ city[t] \in Cities
    /\ pc[t] = "geocoding" => learnt[t] = NoExchange
    /\ pc[t] = "fetching" =>
           learnt[t] \in {NoExchange, <<"geocoding", "found">>} /\ Provider(tool[t]) \in asked[t]

TaskInv(t) == ProgressOf(t) /\ CauseOf(t) /\ SessionOf(t) /\ CountOf(t)

ToolInv == ToolTypeOK /\ \A t \in Tasks : TaskInv(t)

-----------------------------------------------------------------------------
(* The exceptions.                                                         *)

LEMMA RaisedType ==
    ASSUME NEW class \in Classes
    PROVE  Raised(class) \in Outcomes /\ Raised(class).class = class
BY DEF Raised, Outcomes

LEMMA UpstreamType ==
    ASSUME NEW service \in Services \cup {"none", "upstream", "weather", "air-quality"},
           NEW reason \in Failures \cup {"none", "circuit_open", "internal_error"}
    PROVE  /\ Upstream(service, reason) \in Outcomes
           /\ Upstream(service, reason).class = "upstream_error"
BY DEF Upstream, Outcomes, Classes, Taxonomy

LEMMA ProviderType ==
    ASSUME NEW tl
    PROVE  Provider(tl) \in Services \ {"geocoding"} /\ ClientLabel(tl) = Provider(tl)
BY DEF Provider, ClientLabel, Services

(* An exception of the taxonomy, and a success, reach the caller as they   *)
(* are.                                                                    *)
LEMMA ReportedAsIs ==
    ASSUME NEW tl, NEW e, e.class \in Taxonomy \cup {"ok"}
    PROVE  Reported(tl, e) = e
<1>1. CASE e.class \in Taxonomy
  <2>1. e.class \notin {"value_error", "exception", "ok", "cancelled"}
    BY <1>1 DEF Taxonomy
  <2>2. QED
    BY <1>1, <2>1 DEF Reported
<1>2. CASE e.class = "ok"
  <2>1. e.class \notin Taxonomy
    BY <1>2 DEF Taxonomy
  <2>2. QED
    BY <1>2, <2>1 DEF Reported
<1>3. QED
  BY <1>1, <1>2

LEMMA InternalErrorType ==
    ASSUME NEW tl
    PROVE  /\ Reported(tl, Raised("exception")) \in Outcomes
           /\ Reported(tl, Raised("exception")).class = "upstream_error"
<1>1. Reported(tl, Raised("exception")) = InternalError(tl)
  BY DEF Reported, Raised, Taxonomy
<1>2. QED
  BY <1>1, UpstreamType DEF InternalError

(* The search for a place reports its own failures; nothing found is no    *)
(* data.                                                                   *)
LEMMA NotLocatedReported ==
    ASSUME NEW tl \in RemoteTools, NEW end \in (Candidates \ {"found"}) \cup Failures
    PROVE  LET r == Reported(tl,
                        CASE end = "absent"    -> Raised("no_data")
                          [] end = "misshapen" -> Raised("exception")
                          [] OTHER             -> Upstream("geocoding", end))
           IN  /\ r \in Outcomes /\ r.class \in {"no_data", "upstream_error"}
               /\ end \in Failures => r = Upstream("geocoding", end)
               /\ r.class = "no_data" => end \in NothingThere
<1>1. CASE end = "absent"
  <2>1. end \notin Failures /\ end \in NothingThere
    BY <1>1 DEF Failures, NothingThere
  <2>2. Raised("no_data") \in Outcomes /\ Raised("no_data").class = "no_data"
    BY RaisedType DEF Classes, Taxonomy
  <2>3. Reported(tl, Raised("no_data")) = Raised("no_data")
    BY <2>2, ReportedAsIs DEF Taxonomy
  <2>4. QED
    BY <1>1, <2>1, <2>2, <2>3
<1>2. CASE end = "misshapen"
  <2>1. end \notin Failures
    BY <1>2 DEF Failures
  <2>2. QED
    BY <1>2, <2>1, InternalErrorType
<1>3. CASE end \in Failures
  <2>1. end # "absent" /\ end # "misshapen"
    BY <1>3 DEF Failures
  <2>2. /\ Upstream("geocoding", end) \in Outcomes
        /\ Upstream("geocoding", end).class = "upstream_error"
    BY <1>3, UpstreamType DEF Services
  <2>3. Reported(tl, Upstream("geocoding", end)) = Upstream("geocoding", end)
    BY <2>2, ReportedAsIs DEF Taxonomy
  <2>4. QED
    BY <2>1, <2>2, <2>3
<1>4. QED
  BY <1>1, <1>2, <1>3 DEF Candidates

(* What a service makes of an answer. *)
LEMMA ProcessedKinds ==
    ASSUME NEW tl \in RemoteTools, NEW end \in Payloads
    PROVE  \/ Processed(tl, end) \in {Ok, Raised("value_error"), Raised("exception"),
                                      Upstream("upstream", "invalid_response")}
           \/ Processed(tl, end) = Raised("no_data") /\ end \in NothingThere
<1>1. CASE end \in {"empty", "bad_times", "misshapen"}
  <2>1. Processed(tl, end) = NoSeries(end)
    BY <1>1 DEF Processed
  <2>2. QED
    BY <1>1, <2>1 DEF NoSeries, NothingThere
<1>2. CASE end \in {"usable", "no_numbers", "unrepresentable"}
  <2>1. Processed(tl, end) = CASE tl \in {"current", "details"} -> Snapshot(tl, end)
                               [] tl = "range" -> DateRange(end)
                               [] tl = "air"   -> AirQuality(end)
    BY <1>2 DEF Processed
  <2>2. Serialized(end) \in {Ok, Upstream("upstream", "invalid_response")}
    BY DEF Serialized
  <2>3. CASE tl \in {"current", "details"}
    BY <2>1, <2>2, <2>3 DEF Snapshot
  <2>4. CASE tl = "range"
    BY <2>1, <2>2, <2>4 DEF DateRange
  <2>5. CASE tl = "air"
    BY <2>1, <2>2, <2>5 DEF AirQuality, NothingThere
  <2>6. QED
    BY <2>3, <2>4, <2>5 DEF RemoteTools, WeatherTools
<1>3. QED
  BY <1>1, <1>2 DEF Payloads

(* A failure of the provider stays that failure; no data is an answer with *)
(* nothing in it.                                                          *)
LEMMA AnswerReported ==
    ASSUME NEW tl \in RemoteTools, NEW end \in Payloads \cup Failures
    PROVE  LET r == Reported(tl, IF end \in Failures THEN Upstream(Provider(tl), end)
                                 ELSE Processed(tl, end))
           IN  /\ r \in Outcomes /\ r.class \in Taxonomy \cup {"ok"}
               /\ end \in Failures => r = Upstream(Provider(tl), end)
               /\ r.class = "no_data" => end \in NothingThere
<1>1. CASE end \in Failures
  <2>1. /\ Upstream(Provider(tl), end) \in Outcomes
        /\ Upstream(Provider(tl), end).class = "upstream_error"
    BY <1>1, UpstreamType, ProviderType
  <2>2. Reported(tl, Upstream(Provider(tl), end)) = Upstream(Provider(tl), end)
    BY <2>1, ReportedAsIs DEF Taxonomy
  <2>3. QED
    BY <1>1, <2>1, <2>2 DEF Taxonomy
<1>2. CASE end \notin Failures
  <2>1. end \in Payloads
    BY <1>2
  <2>2. CASE Processed(tl, end) = Ok
    <3>1. Ok \in Outcomes /\ Ok.class = "ok" /\ Reported(tl, Ok) = Ok
      BY RaisedType, ReportedAsIs DEF Ok, Classes
    <3>2. QED
      BY <1>2, <2>2, <3>1
  <2>3. CASE Processed(tl, end) = Raised("value_error")
    <3>1. Reported(tl, Raised("value_error")) = Raised("invalid_request")
      BY DEF Reported, Raised, Taxonomy
    <3>2. Raised("invalid_request") \in Outcomes /\ Raised("invalid_request").class = "invalid_request"
      BY RaisedType DEF Classes, Taxonomy
    <3>3. QED
      BY <1>2, <2>3, <3>1, <3>2 DEF Taxonomy
  <2>4. CASE Processed(tl, end) = Raised("exception")
    BY <1>2, <2>4, InternalErrorType DEF Taxonomy
  <2>5. CASE Processed(tl, end) = Upstream("upstream", "invalid_response")
    <3>1. LET e == Upstream("upstream", "invalid_response")
          IN  e \in Outcomes /\ e.class = "upstream_error"
      BY UpstreamType DEF Failures
    <3>2. LET e == Upstream("upstream", "invalid_response") IN Reported(tl, e) = e
      BY <3>1, ReportedAsIs DEF Taxonomy
    <3>3. QED
      BY <1>2, <2>5, <3>1, <3>2 DEF Taxonomy
  <2>6. CASE Processed(tl, end) = Raised("no_data") /\ end \in NothingThere
    <3>1. Raised("no_data") \in Outcomes /\ Raised("no_data").class = "no_data"
      BY RaisedType DEF Classes, Taxonomy
    <3>2. Reported(tl, Raised("no_data")) = Raised("no_data")
      BY <3>1, ReportedAsIs DEF Taxonomy
    <3>3. QED
      BY <1>2, <2>6, <3>1, <3>2 DEF Taxonomy
  <2>7. QED
    BY <2>1, <2>2, <2>3, <2>4, <2>5, <2>6, ProcessedKinds
<1>3. QED
  BY <1>1, <1>2

-----------------------------------------------------------------------------
(* The steps.                                                              *)

(* A step of one call leaves the others where they are. *)
Elsewhere(t) ==
    \A s \in Tasks \ {t} :
        /\ pc'[s] = pc[s] /\ tool'[s] = tool[s] /\ city'[s] = city[s] /\ session'[s] = session[s]
        /\ asked'[s] = asked[s] /\ learnt'[s] = learnt[s] /\ outcome'[s] = outcome[s]
        /\ counted'[s] = counted[s]

LEMMA TaskStep ==
    ASSUME ToolInv, NEW t \in Tasks, ToolTypeOK', Elsewhere(t), TaskInv(t)'
    PROVE  ToolInv'
<1>1. ASSUME NEW s \in Tasks \ {t}
      PROVE  TaskInv(s)'
  <2>1. /\ pc'[s] = pc[s] /\ tool'[s] = tool[s] /\ city'[s] = city[s] /\ session'[s] = session[s]
        /\ asked'[s] = asked[s] /\ learnt'[s] = learnt[s] /\ outcome'[s] = outcome[s]
        /\ counted'[s] = counted[s]
    BY <1>1 DEF Elsewhere
  <2>2. TaskInv(s)
    BY <1>1 DEF ToolInv
  <2>3. ProgressOf(s)' /\ SessionOf(s)' /\ CountOf(s)'
    BY <2>1, <2>2 DEF TaskInv, ProgressOf, SessionOf, CountOf
  <2>4. CauseOf(s)'
    BY <2>1, <2>2 DEF TaskInv, CauseOf, Failed, Concluded, Ended
  <2>5. QED
    BY <2>3, <2>4 DEF TaskInv
<1>2. QED
  BY <1>1 DEF ToolInv

(* A call that has asked nobody and ends. *)
LEMMA LocalEnd ==
    ASSUME ToolInv, NEW t \in Tasks, pc[t] = "idle", NEW tl \in Tools, NEW e \in Outcomes,
           e.class \in Classes \ {"none", "no_data"}, e.class = "ok" => tl \notin RemoteTools,
           tool' = [tool EXCEPT ![t] = tl], Finish(t, e),
           Count(t, e) \/ UNCHANGED counted,
           UNCHANGED <<city, places, session, asked, learnt>>
    PROVE  ToolInv'
<1>1. /\ ToolTypeOK /\ asked[t] = {} /\ learnt[t] = NoExchange /\ session[t] = FALSE
  BY DEF ToolInv, TaskInv, ProgressOf, SessionOf, Awaiting, ToolTypeOK
<1>2. ToolTypeOK'
  BY <1>1 DEF ToolTypeOK, Finish, Count
<1>3. /\ pc'[t] = "done" /\ tool'[t] = tl /\ outcome'[t] = e
      /\ asked'[t] = {} /\ learnt'[t] = NoExchange /\ session'[t] = FALSE
  BY <1>1 DEF ToolTypeOK, Finish
<1>4. Elsewhere(t)
  BY <1>1 DEF ToolTypeOK, Elsewhere, Finish, Count
<1>5. TaskInv(t)'
  BY <1>3 DEF TaskInv, ProgressOf, CauseOf, SessionOf, CountOf, Awaiting, Failed, Concluded, Ended
<1>6. QED
  BY <1>2, <1>4, <1>5, TaskStep

LEMMA ReceiveKeepsInv ==
    ASSUME ToolInv, NEW t \in Tasks, NEW tl \in Tools, NEW args \in Arguments(tl),
           Receive(t, tl, args)
    PROVE  ToolInv'
<1>1. pc[t] = "idle" /\ tool' = [tool EXCEPT ![t] = tl]
  BY DEF Receive
<1>2. /\ ToolTypeOK /\ asked[t] = {} /\ learnt[t] = NoExchange /\ session[t] = FALSE
  BY <1>1 DEF ToolInv, TaskInv, ProgressOf, SessionOf, Awaiting, ToolTypeOK
<1>3. CASE Reject(t, tl, args)
  <2>1. PICK class \in {"invalid_request", "tool_error"} : Finish(t, Raised(class))
    BY <1>3 DEF Reject
  <2>2. Raised(class) \in Outcomes /\ Raised(class).class = class /\ class \in Classes
    BY RaisedType DEF Classes, Taxonomy
  <2>3. QED
    BY <1>1, <1>3, <2>1, <2>2, LocalEnd DEF Reject
<1>4. CASE AnswerLocally(t, tl, args)
  <2>1. tl = "time" /\ args \in {"valid", "refused", "extreme"}
    BY <1>4 DEF AnswerLocally, Arguments
  <2>2. PICK class \in {"ok", "invalid_request", "weather_error"} : Leave(t, Raised(class))
    BY <1>4, <2>1 DEF AnswerLocally, Ok
  <2>3. Raised(class) \in Outcomes /\ Raised(class).class = class /\ class \in Classes
    BY RaisedType DEF Classes, Taxonomy
  <2>4. tl \notin RemoteTools
    BY <2>1 DEF RemoteTools, WeatherTools
  <2>5. QED
    BY <1>1, <1>4, <2>2, <2>3, <2>4, LocalEnd DEF AnswerLocally, Leave
<1>5. CASE RefuseRange(t, tl, args)
  <2>1. /\ Raised("invalid_request") \in Outcomes
        /\ Raised("invalid_request").class = "invalid_request"
        /\ "invalid_request" \in Classes
    BY RaisedType DEF Classes, Taxonomy
  <2>2. QED
    BY <1>1, <1>5, <2>1, LocalEnd DEF RefuseRange, Leave
<1>6. ASSUME NEW c \in Cities, Open(t, tl, args, c)
      PROVE  ToolInv'
  <2>1. /\ tl \in RemoteTools /\ Provider(tl) \in Services /\ "geocoding" \in Services
        /\ city' = [city EXCEPT ![t] = c] /\ session' = [session EXCEPT ![t] = TRUE]
        /\ UNCHANGED <<places, learnt, outcome, counted>>
    BY <1>6, ProviderType DEF Open, Services
  <2>2. PICK next \in Awaiting, service \in Services :
            /\ pc' = [pc EXCEPT ![t] = next] /\ Ask(t, service)
            /\ next = "fetching" => service = Provider(tl)
    BY <1>6, <2>1 DEF Open, Awaiting
  <2>3. asked' \in [Tasks -> SUBSET Services] /\ asked'[t] = {service}
    BY <1>2, <2>2 DEF Ask, ToolTypeOK
  <2>4. ToolTypeOK'
    BY <1>1, <1>2, <1>6, <2>1, <2>2, <2>3 DEF ToolTypeOK, Awaiting
  <2>5. /\ pc'[t] = next /\ tool'[t] = tl /\ city'[t] = c /\ session'[t] = TRUE
        /\ learnt'[t] = NoExchange
    BY <1>1, <1>2, <2>1, <2>2 DEF ToolTypeOK
  <2>6. Elsewhere(t)
    BY <1>1, <1>2, <2>1, <2>2 DEF ToolTypeOK, Elsewhere, Ask
  <2>7. TaskInv(t)'
    BY <1>6, <2>1, <2>2, <2>3, <2>5
    DEF TaskInv, ProgressOf, CauseOf, SessionOf, CountOf, Awaiting, Failed, Concluded, Ended
  <2>8. QED
    BY <2>4, <2>6, <2>7, TaskStep
<1>7. ASSUME NEW c \in Cities, ShortCircuit(t, tl, args, c)
      PROVE  ToolInv'
  <2> DEFINE e == Upstream(ClientLabel(tl), "circuit_open")
             lesson == <<"geocoding", "circuit_open">>
  <2>1. e \in Outcomes /\ e.class = "upstream_error" /\ "upstream_error" \in Classes
    BY UpstreamType, ProviderType DEF Classes, Taxonomy
  <2>2. Reported(tl, e) = e
    BY <2>1, ReportedAsIs DEF Taxonomy
  <2>3. lesson \in Exchanges /\ lesson[2] \notin Failures
    BY DEF Exchanges, Services, Failures
  <2> HIDE DEF e, lesson
  <2>4. /\ city' = [city EXCEPT ![t] = c] /\ learnt' = [learnt EXCEPT ![t] = lesson]
        /\ pc' = [pc EXCEPT ![t] = "done"] /\ outcome' = [outcome EXCEPT ![t] = e]
        /\ counted' = [counted EXCEPT ![t] = e.class]
        /\ UNCHANGED <<places, session, asked>>
    BY <1>7, <2>2 DEF ShortCircuit, Leave, Finish, Count, e, lesson
  <2>5. ToolTypeOK'
    BY <1>1, <1>2, <1>7, <2>1, <2>3, <2>4 DEF ToolTypeOK
  <2>6. /\ pc'[t] = "done" /\ tool'[t] = tl /\ outcome'[t] = e /\ learnt'[t] = lesson
        /\ asked'[t] = {} /\ session'[t] = FALSE
    BY <1>1, <1>2, <2>4 DEF ToolTypeOK
  <2>7. Elsewhere(t)
    BY <1>1, <1>2, <2>4 DEF ToolTypeOK, Elsewhere
  <2>8. TaskInv(t)'
    BY <2>1, <2>3, <2>6
    DEF TaskInv, ProgressOf, CauseOf, SessionOf, CountOf, Awaiting, Failed, Concluded, Ended
  <2>9. QED
    BY <2>5, <2>7, <2>8, TaskStep
<1>8. QED
  BY <1>3, <1>4, <1>5, <1>6, <1>7 DEF Receive

(* A call that has asked somebody and ends, however it does: its cause is  *)
(* the lesson of its last exchange.                                        *)
LEMMA AwaitedEnd ==
    ASSUME ToolInv, NEW t \in Tasks, pc[t] \in Awaiting,
           NEW e \in Outcomes, NEW lesson \in Exchanges \cup {NoExchange},
           learnt' = [learnt EXCEPT ![t] = lesson],
           Leave(t, e), CloseSession(t), UNCHANGED <<tool, city, places, asked>>,
           e.class # "cancelled" /\ lesson[2] \in Failures => e = Upstream(lesson[1], lesson[2]),
           e.class = "no_data" => lesson[2] \in NothingThere,
           e.class = "ok" => pc[t] = "fetching" /\ lesson[1] = Provider(tool[t])
    PROVE  ToolInv'
<1>1. /\ ToolTypeOK /\ tool[t] \in RemoteTools
      /\ pc[t] = "fetching" => Provider(tool[t]) \in asked[t]
  BY DEF ToolInv, TaskInv, ProgressOf
<1>2. e.class \in Classes
  BY DEF Outcomes
<1>3. /\ pc' = [pc EXCEPT ![t] = "done"] /\ outcome' = [outcome EXCEPT ![t] = e]
      /\ counted' = [counted EXCEPT ![t] = e.class] /\ session' = [session EXCEPT ![t] = FALSE]
  BY DEF Leave, Finish, Count, CloseSession
<1>4. ToolTypeOK'
  BY <1>1, <1>2, <1>3 DEF ToolTypeOK
<1>5. /\ pc'[t] = "done" /\ outcome'[t] = e /\ counted'[t] = e.class /\ session'[t] = FALSE
      /\ learnt'[t] = lesson /\ tool'[t] = tool[t] /\ asked'[t] = asked[t]
  BY <1>1, <1>3 DEF ToolTypeOK
<1>6. Elsewhere(t)
  BY <1>1, <1>3 DEF ToolTypeOK, Elsewhere
<1>7. TaskInv(t)'
  BY <1>1, <1>5
  DEF TaskInv, ProgressOf, CauseOf, SessionOf, CountOf, Awaiting, Failed, Concluded, Ended
<1>8. QED
  BY <1>4, <1>6, <1>7, TaskStep

LEMMA LocatedKeepsInv == ASSUME ToolInv, NEW t \in Tasks, Located(t) PROVE ToolInv'
<1>1. /\ ToolTypeOK /\ pc[t] = "geocoding" /\ session[t] = TRUE
      /\ tool[t] \in RemoteTools /\ city[t] \in Cities
  BY DEF Located, ToolInv, TaskInv, ProgressOf, SessionOf, Awaiting, ToolTypeOK
<1>2. <<"geocoding", "found">> \in Exchanges /\ Provider(tool[t]) \in Services
  BY ProviderType DEF Exchanges, Services, Candidates
<1>3. /\ pc' = [pc EXCEPT ![t] = "fetching"]
      /\ learnt' = [learnt EXCEPT ![t] = <<"geocoding", "found">>]
      /\ asked' = [asked EXCEPT ![t] = asked[t] \cup {Provider(tool[t])}]
      /\ places' = places \cup {city[t]}
      /\ UNCHANGED <<tool, city, session, outcome, counted>>
  BY DEF Located, Learn, Ask
<1>4. ToolTypeOK'
  BY <1>1, <1>2, <1>3 DEF ToolTypeOK
<1>5. /\ pc'[t] = "fetching" /\ learnt'[t] = <<"geocoding", "found">> /\ session'[t] = TRUE
      /\ Provider(tool[t]) \in asked'[t] /\ tool'[t] = tool[t] /\ city'[t] = city[t]
  BY <1>1, <1>3 DEF ToolTypeOK
<1>6. Elsewhere(t)
  BY <1>1, <1>3 DEF ToolTypeOK, Elsewhere
<1>7. TaskInv(t)'
  BY <1>1, <1>5
  DEF TaskInv, ProgressOf, CauseOf, SessionOf, CountOf, Awaiting, Failed, Concluded, Ended
<1>8. QED
  BY <1>4, <1>6, <1>7, TaskStep

LEMMA NotLocatedKeepsInv ==
    ASSUME ToolInv, NEW t \in Tasks, NEW end \in (Candidates \ {"found"}) \cup Failures,
           NotLocated(t, end)
    PROVE  ToolInv'
<1> DEFINE e == Reported(tool[t],
                    CASE end = "absent"    -> Raised("no_data")
                      [] end = "misshapen" -> Raised("exception")
                      [] OTHER             -> Upstream("geocoding", end))
           lesson == <<"geocoding", end>>
<1>1. pc[t] = "geocoding" /\ pc[t] \in Awaiting /\ tool[t] \in RemoteTools
  BY DEF NotLocated, ToolInv, TaskInv, ProgressOf, Awaiting
<1>2. /\ e \in Outcomes /\ e.class \in {"no_data", "upstream_error"}
      /\ end \in Failures => e = Upstream("geocoding", end)
      /\ e.class = "no_data" => end \in NothingThere
  BY <1>1, NotLocatedReported
<1>3. lesson \in Exchanges /\ lesson[1] = "geocoding" /\ lesson[2] = end
  BY DEF Exchanges, Services
<1>4. /\ learnt' = [learnt EXCEPT ![t] = lesson] /\ Leave(t, e) /\ CloseSession(t)
      /\ UNCHANGED <<tool, city, places, asked>>
  BY DEF NotLocated, Learn
<1> HIDE DEF e, lesson
<1>5. QED
  BY <1>1, <1>2, <1>3, <1>4, AwaitedEnd

LEMMA AnsweredKeepsInv ==
    ASSUME ToolInv, NEW t \in Tasks, NEW end \in Payloads \cup Failures, Answered(t, end)
    PROVE  ToolInv'
<1> DEFINE e == Reported(tool[t],
                    IF end \in Failures THEN Upstream(Provider(tool[t]), end)
                    ELSE Processed(tool[t], end))
           lesson == <<Provider(tool[t]), end>>
<1>1. pc[t] = "fetching" /\ pc[t] \in Awaiting /\ tool[t] \in RemoteTools
  BY DEF Answered, ToolInv, TaskInv, ProgressOf, Awaiting
<1>2. /\ e \in Outcomes
      /\ end \in Failures => e = Upstream(Provider(tool[t]), end)
      /\ e.class = "no_data" => end \in NothingThere
  BY <1>1, AnswerReported
<1>3. lesson \in Exchanges /\ lesson[1] = Provider(tool[t]) /\ lesson[2] = end
  BY ProviderType DEF Exchanges
<1>4. /\ learnt' = [learnt EXCEPT ![t] = lesson] /\ Leave(t, e) /\ CloseSession(t)
      /\ UNCHANGED <<tool, city, places, asked>>
  BY DEF Answered, Learn
<1> HIDE DEF e, lesson
<1>5. QED
  BY <1>1, <1>2, <1>3, <1>4, AwaitedEnd

LEMMA CancelKeepsInv == ASSUME ToolInv, NEW t \in Tasks, Cancel(t) PROVE ToolInv'
<1> DEFINE e == Raised("cancelled")
           lesson == learnt[t]
<1>1. pc[t] \in Awaiting /\ Leave(t, e) /\ CloseSession(t) /\ UNCHANGED <<tool, city, places, asked>>
  BY DEF Cancel, Awaiting
<1>2. e \in Outcomes /\ e.class = "cancelled"
  BY RaisedType DEF Classes
<1>3. lesson \in Exchanges \cup {NoExchange} /\ learnt' = [learnt EXCEPT ![t] = lesson]
  BY DEF Cancel, ToolInv, ToolTypeOK
<1> HIDE DEF e, lesson
<1>4. QED
  BY <1>1, <1>2, <1>3, AwaitedEnd

LEMMA ReturnKeepsInv == ASSUME ToolInv, NEW t \in Tasks, Return(t) PROVE ToolInv'
<1>1. ToolTypeOK /\ session[t] = FALSE
  BY DEF Return, ToolInv, TaskInv, SessionOf, Awaiting, ToolTypeOK
<1>2. ToolTypeOK'
  <2>1. Raised("none") \in Outcomes
    BY RaisedType DEF Classes
  <2>2. QED
    BY <1>1, <2>1 DEF Return, ToolTypeOK
<1>3. pc'[t] = "idle" /\ asked'[t] = {} /\ learnt'[t] = NoExchange /\ session'[t] = FALSE
  BY <1>1 DEF Return, ToolTypeOK
<1>4. Elsewhere(t)
  BY <1>1 DEF Return, ToolTypeOK, Elsewhere
<1>5. TaskInv(t)'
  BY <1>3
  DEF TaskInv, ProgressOf, CauseOf, SessionOf, CountOf, Awaiting, Failed, Concluded, Ended
<1>6. QED
  BY <1>2, <1>4, <1>5, TaskStep

-----------------------------------------------------------------------------
(* The theorems.                                                           *)

LEMMA InitInv == Init => ToolInv
<1> SUFFICES ASSUME Init
             PROVE  ToolInv
  OBVIOUS
<1>1. Raised("none") \in Outcomes
  BY RaisedType DEF Classes
<1>2. ToolTypeOK
  BY <1>1 DEF Init, ToolTypeOK
<1>3. ASSUME NEW t \in Tasks
      PROVE  TaskInv(t)
  BY DEF Init, TaskInv, ProgressOf, CauseOf, SessionOf, CountOf, Awaiting, Failed, Concluded, Ended
<1>4. QED
  BY <1>2, <1>3 DEF ToolInv

LEMMA NextInv == ToolInv /\ [Next]_vars => ToolInv'
<1> SUFFICES ASSUME ToolInv, [Next]_vars
             PROVE  ToolInv'
  OBVIOUS
<1>1. ASSUME UNCHANGED <<pc, tool, city, session, asked, learnt, outcome, counted>>,
             places' \subseteq Cities
      PROVE  ToolInv'
  <2>1. ToolTypeOK'
    BY <1>1 DEF ToolInv, ToolTypeOK
  <2>2. ASSUME NEW t \in Tasks
        PROVE  TaskInv(t)'
    <3>1. TaskInv(t)
      BY DEF ToolInv
    <3>2. QED
      BY <1>1, <3>1
      DEF TaskInv, ProgressOf, CauseOf, SessionOf, CountOf, Failed, Concluded, Ended
  <2>3. QED
    BY <2>1, <2>2 DEF ToolInv
<1>2. ASSUME NEW t \in Tasks, Step(t)
      PROVE  ToolInv'
  BY <1>2, ReceiveKeepsInv, LocatedKeepsInv, NotLocatedKeepsInv, AnsweredKeepsInv,
     CancelKeepsInv, ReturnKeepsInv DEF Step
<1>3. ASSUME NEW c \in Cities, Forget(c)
      PROVE  ToolInv'
  BY <1>1, <1>3 DEF Forget, ToolInv, ToolTypeOK
<1>4. CASE UNCHANGED vars
  BY <1>1, <1>4 DEF vars, ToolInv, ToolTypeOK
<1>5. QED
  BY <1>2, <1>3, <1>4 DEF Next

(* For any number of calls: what a call has asked and learnt goes with how *)
(* far it is, whatever the others do.                                      *)
THEOREM ToolInvariance == Spec => []ToolInv
BY InitInv, NextInv, PTL DEF Spec

(* Calls keep their types. *)
THEOREM ToolTypes == Spec => []ToolTypeOK
<1>1. ToolInv => ToolTypeOK
  BY DEF ToolInv
<1>2. QED
  BY <1>1, ToolInvariance, PTL

(* A failure reaches the agent as that failure of that service, an answer  *)
(* with nothing in it as no data, and success needs an answer.             *)
THEOREM CausesAreTrue == Spec => []CauseIsTrue
<1>1. ToolInv => CauseIsTrue
  BY DEF ToolInv, TaskInv, CauseOf, CauseIsTrue
<1>2. QED
  BY <1>1, ToolInvariance, PTL

(* The HTTP session of a call is open exactly while it awaits an exchange. *)
THEOREM SessionsAreClosed == Spec => []SessionsClosed
<1>1. ToolInv => SessionsClosed
  BY DEF ToolInv, TaskInv, SessionOf, SessionsClosed, Awaiting
<1>2. QED
  BY <1>1, ToolInvariance, PTL

(* A call that asked somebody something is counted as what its caller sees *)
(* of it.                                                                  *)
THEOREM AskedAreCounted == Spec => []AskedIsCounted
<1>1. ToolInv => AskedIsCounted
  BY DEF ToolInv, TaskInv, CountOf, AskedIsCounted
<1>2. QED
  BY <1>1, ToolInvariance, PTL

=============================================================================
