------------------------------ MODULE HttpPipeline ------------------------------
(***************************************************************************)
(* An HTTP request on its way to the MCP application: _ASGIWrapper         *)
(* (server.py) answers the probes and /metrics itself and passes the rest  *)
(* to the Starlette stack of install_security_middleware (middleware.py),  *)
(* whose last added middleware, the rate limiter, is the outermost.  The   *)
(* observer of RateWindow watches one client of it.                        *)
(***************************************************************************)
EXTENDS RateWindow

CONSTANT TokenConfigured  \* whether the server was given an auth token

ASSUME PipelineAssumption == TokenConfigured \in BOOLEAN

VARIABLE response  \* the last request and the answer it got

pipelineVars == <<vars, watchVars, response>>

Paths == {"health", "metrics", "mcp"}

(* What a header that carries a token says to bearer_token_matches; none   *)
(* at all is as good as a wrong one.                                       *)
Credentials == {"wrong", "right"}

(* What a request carries: a header may be repeated, and then it matters   *)
(* whether the first or the last is read.                                  *)
Presented == [first : Credentials, last : Credentials]

Statuses == {"ok", "unauthorized", "too_many_requests"}

Response == [path : Paths, host : Hosts, credential : Presented, status : Statuses]

NoResponse == <<>>

(* _metrics_authorized asks for the token where there is one to match, and *)
(* reads the dictionary that scope_headers makes of the headers, where the *)
(* last of a name is kept.                                                 *)
MetricsAuthorized(credential) == TokenConfigured => credential.last = "right"

(* BearerTokenAuthMiddleware, which is not installed without a token, asks *)
(* request.headers, which has the first of a name.                         *)
StackAuthorized(credential) == TokenConfigured => credential.first = "right"

PipelineTypeOK ==
    /\ WindowTypeOK
    /\ response \in Response \cup {NoResponse}

PipelineInit == WindowInit /\ response = NoResponse

-----------------------------------------------------------------------------
Reply(path, h, credential, status) ==
    response' = [path |-> path, host |-> h, credential |-> credential, status |-> status]

(* /healthz and /health are served in front of the stack. *)
Health(h, credential) ==
    /\ Reply("health", h, credential, "ok")
    /\ UNCHANGED <<vars, watchVars>>

(* /metrics too, but _metrics_authorized is asked first. *)
Metrics(h, credential) ==
    /\ Reply("metrics", h, credential,
             IF MetricsAuthorized(credential) THEN "ok" ELSE "unauthorized")
    /\ UNCHANGED <<vars, watchVars>>

Admitted == verdict'[2]

McpAuthSkipped(h, credential) ==
    /\ WatchedRequest(h)
    /\ Reply("mcp", h, credential, IF Admitted THEN "ok" ELSE "too_many_requests")

(* Everything else passes the rate limiter, then the token check, then     *)
(* reaches the MCP application.                                            *)
Mcp(h, credential) ==
    /\ WatchedRequest(h)
    /\ \/ ~Admitted /\ Reply("mcp", h, credential, "too_many_requests")
       \/ Admitted /\ ~StackAuthorized(credential) /\ Reply("mcp", h, credential, "unauthorized")
       \/ Admitted /\ StackAuthorized(credential) /\ Reply("mcp", h, credential, "ok")

ServeRequest(h, credential) ==
    \/ Health(h, credential)
    \/ Metrics(h, credential)
    \/ Mcp(h, credential)

PipelineTick == WatchedTick /\ UNCHANGED response

PipelineWatch == (\E h \in Hosts : Watch(h)) /\ UNCHANGED response

Served == \E h \in Hosts, credential \in Presented : ServeRequest(h, credential)

PipelineNext == PipelineTick \/ PipelineWatch \/ Served

PipelineSpec == PipelineInit /\ [][PipelineNext]_pipelineVars

-----------------------------------------------------------------------------
(* The token decides, whichever of the two checks is asked, wherever they  *)
(* look, and whatever is in the buckets: nobody reaches the MCP            *)
(* application or the counters without it, and nobody is turned away for   *)
(* the want of it who sends nothing else, or where there is none, or who   *)
(* asks for a probe.                                                       *)
ServedIsAuthorized ==
    response # NoResponse =>
        LET sent == {response.credential.first, response.credential.last} IN
        /\ response.status = "ok" /\ response.path # "health" /\ TokenConfigured
               => "right" \in sent
        /\ response.status = "unauthorized"
               => TokenConfigured /\ response.path # "health" /\ sent # {"right"}

(* Being refused costs nothing: a 429, like a probe, leaves every client   *)
(* with the tokens it had, so asking again too soon never delays the next  *)
(* request that will be let through.                                       *)
RefusalsAreFree ==
    [][Served /\ (response'.path # "mcp" \/ response'.status = "too_many_requests")
       => bucketLevel' = bucketLevel]_pipelineVars

(* "bearer-token auth runs before the rate limiter, so anonymous floods    *)
(* never consume rate budget" (README.md:574-575; the docstring of         *)
(* install_security_middleware): a request answered 401 has taken no token *)
(* from the bucket of its client.                                          *)
UnauthorizedSpendsNothing ==
    [][Served /\ response'.status = "unauthorized" => bucketLevel' = bucketLevel]_pipelineVars

=============================================================================
