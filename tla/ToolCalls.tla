------------------------------- MODULE ToolCalls -------------------------------
(***************************************************************************)
(* A tool call from WeatherFastMCP.call_tool (server.py) through the tool  *)
(* handlers and their services (tools/) to what the agent is told: the     *)
(* validation, the HTTP session, the two exchanges with the provider, the  *)
(* exception the handler reports and the metric it leaves.                 *)
(*                                                                         *)
(* A call yields only during its two exchanges.  How an exchange retries,  *)
(* queues and trips the breaker is the subject of ResilientClient, what a  *)
(* city resolves to that of Geocoding: here an exchange ends, once, with   *)
(* one of the results the callers tell apart, and the cache is the set of  *)
(* the cities it would answer for.                                         *)
(***************************************************************************)
EXTENDS Integers

CONSTANTS
    Tasks,   \* tool calls that may run at the same time
    Cities   \* normalized city names

VARIABLES
    pc,       \* where each call is
    tool,     \* the tool it resolved to
    city,     \* its city, or NoCity
    places,   \* the cities the geocoding cache would answer for
    session,  \* whether its httpx.AsyncClient is open
    asked,    \* the services that have received a request of it
    learnt,   \* the last exchange: its service and how it ended
    outcome,  \* what it returned or raised
    counted   \* what it added to mcp_weather_tool_calls_total, with the class

vars == <<pc, tool, city, places, session, asked, learnt, outcome, counted>>

NoTool == "none"
NoCity == <<>>
NoExchange == <<>>

(* weather_get_current, weather_get_details, weather_get_by_range, the two *)
(* air quality tools, the three time tools, and a name nobody registered.  *)
WeatherTools == {"current", "details", "range"}
RemoteTools == WeatherTools \cup {"air"}
Tools == RemoteTools \cup {"time", "unknown"}

(* What the arguments are to the validation, each kind where it occurs:    *)
(* refused is a window validate_range rejects, or a timezone or datetime   *)
(* that does not exist; extreme a datetime at the end of the calendar.     *)
Arguments(tl) ==
    CASE tl = "time"    -> {"valid", "ill_formed", "refused", "extreme"}
      [] tl = "range"   -> {"valid", "ill_formed", "refused"}
      [] tl = "unknown" -> {"valid"}
      [] OTHER          -> {"valid", "ill_formed"}

(* service_for_url: the label of the service a request goes to; and        *)
(* service_label of the name of the tool's client, which is the same.      *)
Provider(tl) == IF tl = "air" THEN "air quality" ELSE "weather forecast"
ClientLabel(tl) == Provider(tl)
Services == {"geocoding", "weather forecast", "air quality"}

(* The UpstreamErrors of the HTTP client. *)
Failures == {"http_error", "timeout", "network_error", "invalid_response"}

(* The answers, by what the services and the formatters make of them. *)
Candidates == {"found", "absent", "misshapen"}
Payloads == {"usable", "empty", "no_numbers", "bad_times", "unrepresentable", "misshapen"}

Exchanges ==
    Services \X (Failures \cup {"circuit_open"} \cup Candidates \cup Payloads)

-----------------------------------------------------------------------------
(* Exceptions: their class, and what an UpstreamError carries.             *)

Raised(class) == [class |-> class, service |-> "none", reason |-> "none"]
Upstream(service, reason) ==
    [class |-> "upstream_error", service |-> service, reason |-> reason]

Ok == Raised("ok")
Taxonomy == {"invalid_request", "no_data", "upstream_error", "weather_error"}
Classes == {"none", "ok", "tool_error", "cancelled"} \cup Taxonomy

Outcomes ==
    [class : Classes,
     service : Services \cup {"none", "upstream", "weather", "air-quality"},
     reason : Failures \cup {"none", "circuit_open", "internal_error"}]

(* serialize, which weather_get_current does without. *)
Serialized(payload) ==
    IF payload = "unrepresentable" THEN Upstream("upstream", "invalid_response") ELSE Ok

(* An answer that is no hourly series to any of the services. *)
NoSeries(payload) ==
    CASE payload = "empty"     -> Raised("no_data")
      [] payload = "bad_times" -> Raised("value_error")
      [] payload = "misshapen" -> Raised("exception")

(* get_current_weather, of which weather_get_details serializes the result *)
(* and weather_get_current makes a sentence, whatever the values are.      *)
Snapshot(tl, payload) == IF tl = "details" THEN Serialized(payload) ELSE Ok

(* get_weather_by_date_range and weather_range. *)
DateRange(payload) == Serialized(payload)

(* get_air_quality asks for at least one number, then _query. *)
AirQuality(payload) ==
    IF payload = "no_numbers" THEN Raised("no_data") ELSE Serialized(payload)

Processed(tl, payload) ==
    CASE payload \in {"empty", "bad_times", "misshapen"} -> NoSeries(payload)
      [] payload \in {"usable", "no_numbers", "unrepresentable"} ->
            CASE tl \in {"current", "details"} -> Snapshot(tl, payload)
              [] tl = "range" -> DateRange(payload)
              [] tl = "air"   -> AirQuality(payload)

InternalError(tl) ==
    Upstream(IF tl = "air" THEN "air-quality" ELSE "weather", "internal_error")

ReportedCatchAll(tl, e) ==
    CASE e.class \in {"ok", "cancelled"} -> e
      [] e.class = "value_error" -> Raised("invalid_request")
      [] OTHER -> InternalError(tl)

ReportedUnmapped(tl, e) == IF e.class = "exception" THEN InternalError(tl) ELSE e

(* The except clauses of run_tool, in their order. *)
Reported(tl, e) ==
    CASE e.class \in Taxonomy -> e
      [] e.class = "value_error" -> Raised("invalid_request")
      [] e.class = "exception" -> InternalError(tl)
      [] e.class \in {"ok", "cancelled"} -> e

-----------------------------------------------------------------------------
ToolTypeOK ==
    /\ pc \in [Tasks -> {"idle", "geocoding", "fetching", "done"}]
    /\ tool \in [Tasks -> Tools \cup {NoTool}]
    /\ city \in [Tasks -> Cities \cup {NoCity}]
    /\ places \subseteq Cities
    /\ session \in [Tasks -> BOOLEAN]
    /\ asked \in [Tasks -> SUBSET Services]
    /\ learnt \in [Tasks -> Exchanges \cup {NoExchange}]
    /\ outcome \in [Tasks -> Outcomes]
    /\ counted \in [Tasks -> {"no"} \cup Classes]

Init ==
    /\ pc = [t \in Tasks |-> "idle"]
    /\ tool = [t \in Tasks |-> NoTool]
    /\ city = [t \in Tasks |-> NoCity]
    /\ places = {}
    /\ session = [t \in Tasks |-> FALSE]
    /\ asked = [t \in Tasks |-> {}]
    /\ learnt = [t \in Tasks |-> NoExchange]
    /\ outcome = [t \in Tasks |-> Raised("none")]
    /\ counted = [t \in Tasks |-> "no"]

-----------------------------------------------------------------------------
(* track_tool_async: an ok call, or an error under the exception's class.  *)

CountExceptCancelled(t, e) ==
    counted' = [counted EXCEPT ![t] = IF e.class = "cancelled" THEN "no" ELSE e.class]

Count(t, e) == counted' = [counted EXCEPT ![t] = e.class]

Finish(t, e) ==
    /\ pc' = [pc EXCEPT ![t] = "done"]
    /\ outcome' = [outcome EXCEPT ![t] = e]

(* The call ends inside _call_handler. *)
Leave(t, e) ==
    /\ Finish(t, e)
    /\ Count(t, e)

(* call_tool validates the arguments of the remote tools itself; for the   *)
(* others the SDK does, and it answers for the unknown ones.  No handler   *)
(* runs.                                                                   *)
Reject(t, tl, args) ==
    /\ tl = "unknown" \/ args = "ill_formed"
    /\ Finish(t, Raised(IF tl \in RemoteTools THEN "invalid_request" ELSE "tool_error"))
    /\ UNCHANGED <<city, places, session, asked, learnt, counted>>

(* The tools that need nobody: what get_zoneinfo and fromisoformat refuse  *)
(* is an InvalidRequestError, anything else a plain WeatherMCPError.       *)
AnswerLocally(t, tl, args) ==
    /\ tl = "time"
    /\ args # "ill_formed"
    /\ Leave(t, CASE args = "valid"   -> Ok
                  [] args = "refused" -> Raised("invalid_request")
                  [] args = "extreme" -> Raised("weather_error"))
    /\ UNCHANGED <<city, places, session, asked, learnt>>

(* validate_range comes before the session is opened. *)
RefuseRange(t, tl, args) ==
    /\ tl = "range"
    /\ args = "refused"
    /\ Leave(t, Raised("invalid_request"))
    /\ UNCHANGED <<city, places, session, asked, learnt>>

Ask(t, service) == asked' = [asked EXCEPT ![t] = @ \cup {service}]

(* The session is opened and the city resolved, up to the first await: a   *)
(* city the cache knows goes on to the provider.                           *)
Open(t, tl, args, c) ==
    /\ tl \in RemoteTools
    /\ args = "valid"
    /\ city' = [city EXCEPT ![t] = c]
    /\ session' = [session EXCEPT ![t] = TRUE]
    /\ \/ /\ c \in places
          /\ pc' = [pc EXCEPT ![t] = "fetching"]
          /\ Ask(t, Provider(tl))
       \/ /\ c \notin places
          /\ pc' = [pc EXCEPT ![t] = "geocoding"]
          /\ Ask(t, "geocoding")
    /\ UNCHANGED <<places, learnt, outcome, counted>>

(* The geocoding breaker is open: nothing is sent, the session is closed   *)
(* again, and CircuitOpenError has the name of the client.                 *)
ShortCircuit(t, tl, args, c) ==
    /\ tl \in RemoteTools
    /\ args = "valid"
    /\ c \notin places
    /\ city' = [city EXCEPT ![t] = c]
    /\ learnt' = [learnt EXCEPT ![t] = <<"geocoding", "circuit_open">>]
    /\ Leave(t, Reported(tl, Upstream(ClientLabel(tl), "circuit_open")))
    /\ UNCHANGED <<places, session, asked>>

Receive(t, tl, args) ==
    /\ pc[t] = "idle"
    /\ tool' = [tool EXCEPT ![t] = tl]
    /\ \/ Reject(t, tl, args)
       \/ AnswerLocally(t, tl, args)
       \/ RefuseRange(t, tl, args)
       \/ \E c \in Cities : Open(t, tl, args, c) \/ ShortCircuit(t, tl, args, c)

-----------------------------------------------------------------------------
CloseSessionOnSuccess(t) ==
    session' = [session EXCEPT ![t] = outcome'[t].class # "ok" /\ pc'[t] = "done"]

(* async with leaves the session closed on every way out of it. *)
CloseSession(t) == session' = [session EXCEPT ![t] = FALSE]

Learn(t, service, end) == learnt' = [learnt EXCEPT ![t] = <<service, end>>]

(* The search for the city ends: with a place, which the cache keeps and   *)
(* for which the provider is asked at once, or with an exception.          *)
Located(t) ==
    /\ pc[t] = "geocoding"
    /\ Learn(t, "geocoding", "found")
    /\ places' = places \cup {city[t]}
    /\ pc' = [pc EXCEPT ![t] = "fetching"]
    /\ Ask(t, Provider(tool[t]))
    /\ UNCHANGED <<tool, city, session, outcome, counted>>

(* A second search, in the country alone, is never refused by the breaker: *)
(* the answer of the first has just closed it (record_success), and the    *)
(* call awaits nothing that suspends it before it asks again (allow).      *)
NotLocated(t, end) ==
    /\ pc[t] = "geocoding"
    /\ Learn(t, "geocoding", end)
    /\ Leave(t, Reported(tool[t],
            CASE end = "absent"    -> Raised("no_data")
              [] end = "misshapen" -> Raised("exception")
              [] OTHER             -> Upstream("geocoding", end)))
    /\ CloseSession(t)
    /\ UNCHANGED <<tool, city, places, asked>>

(* The provider answers or fails.  The session is closed before the answer *)
(* is looked at.                                                           *)
Answered(t, end) ==
    /\ pc[t] = "fetching"
    /\ Learn(t, Provider(tool[t]), end)
    /\ Leave(t, Reported(tool[t],
            IF end \in Failures THEN Upstream(Provider(tool[t]), end)
            ELSE Processed(tool[t], end)))
    /\ CloseSession(t)
    /\ UNCHANGED <<tool, city, places, asked>>

(* CancelledError is no Exception: only track_tool_async sees it. *)
Cancel(t) ==
    /\ pc[t] \in {"geocoding", "fetching"}
    /\ Leave(t, Raised("cancelled"))
    /\ CloseSession(t)
    /\ UNCHANGED <<tool, city, places, asked, learnt>>

Return(t) ==
    /\ pc[t] = "done"
    /\ pc' = [pc EXCEPT ![t] = "idle"]
    /\ tool' = [tool EXCEPT ![t] = NoTool]
    /\ city' = [city EXCEPT ![t] = NoCity]
    /\ asked' = [asked EXCEPT ![t] = {}]
    /\ learnt' = [learnt EXCEPT ![t] = NoExchange]
    /\ outcome' = [outcome EXCEPT ![t] = Raised("none")]
    /\ counted' = [counted EXCEPT ![t] = "no"]
    /\ UNCHANGED <<places, session>>

(* A place expires or makes room for another. *)
Forget(c) ==
    /\ c \in places
    /\ places' = places \ {c}
    /\ UNCHANGED <<pc, tool, city, session, asked, learnt, outcome, counted>>

Step(t) ==
    \/ \E tl \in Tools : \E args \in Arguments(tl) : Receive(t, tl, args)
    \/ Located(t)
    \/ \E end \in (Candidates \ {"found"}) \cup Failures : NotLocated(t, end)
    \/ \E end \in Payloads \cup Failures : Answered(t, end)
    \/ Cancel(t)
    \/ Return(t)

Next ==
    \/ \E t \in Tasks : Step(t)
    \/ \E c \in Cities : Forget(c)

Spec == Init /\ [][Next]_vars

-----------------------------------------------------------------------------
Ended(t, class) == pc[t] = "done" /\ outcome[t].class = class

Concluded(t) == pc[t] = "done" /\ outcome[t].class # "cancelled" /\ learnt[t] # NoExchange
Failed(t) == Concluded(t) /\ learnt[t][2] \in Failures

NothingThere == {"absent", "empty", "no_numbers"}

(* "A failure that is reported with the wrong cause makes the agent take   *)
(* the wrong action" (errors.py).  A failure of the provider reaches the   *)
(* agent as that failure of that service, however far into the call it     *)
(* happened; an answer with nothing in it as no data, and only such an     *)
(* answer; and a call succeeds only with an answer of its own provider.    *)
CauseIsTrue ==
    \A t \in Tasks :
        /\ Failed(t) => outcome[t] = Upstream(learnt[t][1], learnt[t][2])
        /\ Ended(t, "no_data") => learnt[t][2] \in NothingThere
        /\ Ended(t, "ok") /\ tool[t] \in RemoteTools
            => Provider(tool[t]) \in asked[t] /\ learnt[t][1] = Provider(tool[t])

(* Whichever way a call ends, by an answer, a failure or a cancellation in *)
(* either exchange, its HTTP session is closed, and it is never used after *)
(* it was closed.                                                          *)
SessionsClosed ==
    \A t \in Tasks : session[t] <=> pc[t] \in {"geocoding", "fetching"}

(* Every call that asked somebody something is counted when it ends, once, *)
(* as ok or under the class of the exception its caller sees, a cancelled  *)
(* one included.                                                           *)
AskedIsCounted ==
    \A t \in Tasks : pc[t] = "done" /\ asked[t] # {} => counted[t] = outcome[t].class

(* "The request was rejected by local validation; the upstream was never   *)
(* called" (InvalidRequestError in errors.py).                             *)
InvalidIsLocal == \A t \in Tasks : Ended(t, "invalid_request") => asked[t] = {}

=============================================================================
