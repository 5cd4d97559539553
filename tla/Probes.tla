-------------------------------- MODULE Probes --------------------------------
(***************************************************************************)
(* The scripts that drive a container of the server: the verification of   *)
(* its life cycle, configuration, stdio session and HTTP mode              *)
(* (scripts/verification), the conformance check of the CI and the smoke   *)
(* test.  Each function of theirs that starts a container is a program of  *)
(* a few kinds of step; one of them, or an operator with commands of his   *)
(* own, is run over and over.                                              *)
(*                                                                         *)
(* A script never knows how far the container is: a fixed sleep before a   *)
(* step is no synchronization, so the step may come at any time, and a     *)
(* deadline or a polling loop may run out at any time.                     *)
(***************************************************************************)
EXTENDS Startup, Naturals, Sequences

CONSTANTS
    Attempts,  \* bound on the rounds of a polling loop (the code has 10 to 120)
    Cases      \* environments given to the scripts that take them as arguments

ASSUME ProbesAssumption == Attempts \in Nat /\ Cases \subseteq Launch

VARIABLES
    script,    \* the function that is run, or "operator"
    at,        \* its next step
    target,    \* what it starts the container with
    client,    \* its docker run, if that stays attached to the container
    tries,     \* the rounds left of its loop
    seen,      \* the exit code it has read
    status,    \* the state it has read with the code, if it asked for one
    verdict,   \* what it concludes
    failed,    \* an earlier run has failed
    stray      \* a container that was created and never started is left

probeVars == <<script, at, target, client, tries, seen, status, verdict, failed, stray>>
allVars == <<startVars, probeVars>>

-----------------------------------------------------------------------------
(* The programs.                                                           *)

(* wx_lifecycle.py. *)
RunEof        == <<"run", "close", "wait">>
RunSigtermKeeping == <<"rm", "run", "term", "poll">>

RunSigterm    == <<"rm", "run", "term", "poll", "rm">>
RunSigint     == <<"rm", "run", "int", "poll", "rm">>
RunDockerStop == <<"rm", "run", "term", "grace", "inspect", "rm">>

(* wx_config_matrix.py. *)
RunContainerCase == <<"run", "close", "wait">>
RunLiveCase      == <<"rm", "run", "inspect", "rm">>
RunInputCase     == <<"run", "ask", "try", "close", "wait">>

(* wx_mcp_session.py: initialize, tools/list, and all the rest; and        *)
(* docker-ci-conformance.py, which asks for these two only.                *)
SessionMain == <<"run", "ask", "ask", "try", "close", "wait">>
Conformance == <<"contract", "run", "ask", "ask", "close", "wait">>

(* wx_http_mode.py, a fresh name in each run. *)
RunHttpCase      == <<"run", "reach", "check", "rm">>
RunRateLimitCase == <<"run", "reach", "spend", "rm">>

(* smoke-container.sh. *)
TestStdioGateway  == <<"run", "close", "wait">>
TestHttpTransport == <<"run", "reach", "check", "rm">>
TestHttpLoopback  == <<"run", "reach", "check", "rm">>

Programs ==
    [eof |-> RunEof, sigterm |-> RunSigterm, sigint |-> RunSigint, stop |-> RunDockerStop,
     container |-> RunContainerCase, live |-> RunLiveCase, input |-> RunInputCase,
     session |-> SessionMain, conformance |-> Conformance, http |-> RunHttpCase,
     rate |-> RunRateLimitCase,
     smoke_stdio |-> TestStdioGateway, smoke_http |-> TestHttpTransport,
     smoke_loopback |-> TestHttpLoopback]

Scripts == DOMAIN Programs

HttpMode(token) == [Image EXCEPT !.transport = "http", !.token = token]

(* CONTAINER_CASES, by what run_container_case and run_live_case get.      *)
RefusalCases ==
    {[Image EXCEPT !.settings = "malformed"], [Image EXCEPT !.PORT = "malformed"], HttpMode("unset")}

LiveCases ==
    {Image, [Image EXCEPT !.transport = "http-loopback"], [Image EXCEPT !.transport = "unknown"],
     [Image EXCEPT !.settings = "out_of_range"]}

Targets(s) ==
    CASE s \in {"eof", "sigterm", "sigint", "stop", "input", "smoke_stdio"} -> {Image}
      [] s = "container"      -> RefusalCases
      [] s = "live"           -> LiveCases
      [] s = "session"        -> {[c EXCEPT !.init = TRUE] : c \in Cases}
      [] s = "conformance"    -> {[c EXCEPT !.init = FALSE] : c \in Cases}
      [] s = "http"           -> {HttpMode("set"), HttpMode("unset")}
      [] s = "rate"           -> {HttpMode("set")}
      [] s = "smoke_http"     -> {[HttpMode("set") EXCEPT !.init = FALSE]}
      [] s = "smoke_loopback" -> {[Image EXCEPT !.transport = "http-loopback"]}

ASSUME TargetsAssumption == \A s \in Scripts : Targets(s) \subseteq Launches

(* docker run without -d: the script holds the other end of the input.     *)
Attached == {"eof", "container", "input", "session", "conformance", "smoke_stdio"}

(* docker run --rm. *)
AutoRemoved == Attached \cup {"smoke_http", "smoke_loopback"}

Smoke == {"smoke_stdio", "smoke_http", "smoke_loopback"}

(* docker run -p, of a port that something else on the host may listen on. *)
Published == {"http", "rate", "smoke_http"}

-----------------------------------------------------------------------------
Codes == ExitCodes
Verdicts == {"none", "reported", "pass", "fail", "raised"}

Length(s) == IF s = "operator" THEN 0 ELSE Len(Programs[s])
End == Length(script) + 1
Ended == script # "operator" /\ at = End

ProbeTypeOK ==
    /\ StartupTypeOK
    /\ script \in Scripts \cup {"operator"}
    /\ at \in 1..End
    /\ target \in Launch \cup {Nothing}
    /\ client \in {"none", "attached", "killed"}
    /\ tries \in 0..Attempts
    /\ seen \in Codes
    /\ status \in {"none", "running", "exited"}
    /\ verdict \in Verdicts
    /\ failed \in BOOLEAN
    /\ stray \in BOOLEAN

ProbeInit ==
    /\ StartupInit
    /\ script \in Scripts \cup {"operator"}
    /\ at = 1
    /\ target = Nothing
    /\ client = "none"
    /\ tries = Attempts
    /\ seen = "none"
    /\ status = "none"
    /\ verdict = "none"
    /\ failed = FALSE
    /\ stray = FALSE

Step(kind) == script # "operator" /\ at < End /\ Programs[script][at] = kind

Proceed == at' = at + 1 /\ tries' = Attempts

Conclude(v) == at' = End /\ verdict' = v /\ tries' = Attempts

(* What a script makes of the exit code at its end.                        *)
Judge(c) ==
    CASE script \in {"conformance", "smoke_stdio"} -> IF c = "0" THEN "pass" ELSE "fail"
      [] script = "session" -> "pass"
      [] script \notin {"conformance", "smoke_stdio", "session"} -> "reported"

(* The user of the image and the service of docker-compose.yml, looked at  *)
(* before a container is started.                                          *)
Contract ==
    /\ Step("contract")
    /\ \/ Proceed /\ UNCHANGED verdict
       \/ Conclude("fail")
    /\ UNCHANGED <<startVars, script, target, client, seen, status, failed, stray>>

(* docker run: refused when the name is still taken, which ends the        *)
(* script, by CalledProcessError or by set -e; and so does a port that is  *)
(* taken, after the container has been created, under its fresh name.      *)
Run ==
    /\ Step("run")
    /\ \/ /\ phase = "absent"
          /\ target' \in Targets(script)
          /\ phase' = "shell"
          /\ launch' = target'
          /\ client' = IF script \in Attached THEN "attached" ELSE "none"
          /\ Proceed
          /\ UNCHANGED <<argv, runVars, stdin, interrupted, code, verdict>>
          /\ UNCHANGED stray
       \/ /\ phase # "absent"
          /\ Conclude("raised")
          /\ UNCHANGED <<startVars, target, client, stray>>
       \/ /\ phase = "absent" /\ script \in Published
          /\ Conclude("raised")
          /\ stray' = (stray \/ script \notin AutoRemoved)
          /\ UNCHANGED <<startVars, target, client>>
    /\ UNCHANGED <<script, seen, status, failed>>

(* docker rm -f.  At the end of a program, what is left is the report.     *)
Rm ==
    /\ Step("rm")
    /\ IF phase = "absent" THEN UNCHANGED startVars ELSE Remove
    /\ Proceed
    /\ verdict' = IF at + 1 = End /\ verdict = "none" THEN "reported" ELSE verdict
    /\ UNCHANGED <<script, target, client, seen, status, failed, stray>>

(* docker kill, which nobody checks. *)
SendSignal ==
    /\ \/ Step("term") /\ IF phase \in Live THEN Terminate ELSE UNCHANGED startVars
       \/ Step("int") /\ IF phase \in Live THEN Interrupt ELSE UNCHANGED startVars
    /\ Proceed
    /\ UNCHANGED <<script, target, client, seen, status, verdict, failed, stray>>

(* docker stop waits, and kills what has not stopped.                      *)
Grace ==
    /\ Step("grace")
    /\ IF phase \in Live THEN Kill ELSE UNCHANGED startVars
    /\ Proceed
    /\ UNCHANGED <<script, target, client, seen, status, verdict, failed, stray>>

(* docker inspect: the exit code of a container that is still running is 0.  *)
Inspected == IF phase = "exited" THEN code ELSE "0"

State == IF phase = "exited" THEN "exited" ELSE "running"

PollUnchecked ==
    /\ Step("poll")
    /\ status' = State
    /\ seen' = Inspected
    /\ IF status' = "running" /\ tries > 0
       THEN tries' = tries - 1 /\ UNCHANGED at
       ELSE Proceed
    /\ UNCHANGED <<startVars, script, target, client, verdict, failed, stray>>

(* One round of the loop over docker inspect, until the container is no    *)
(* longer running, and only then the code is taken, or until the rounds    *)
(* are used up.                                                            *)
Poll ==
    /\ Step("poll")
    /\ status' = State
    /\ seen' = IF status' = "exited" THEN Inspected ELSE "none"
    /\ IF status' = "running" /\ tries > 0
       THEN tries' = tries - 1 /\ UNCHANGED at
       ELSE Proceed
    /\ UNCHANGED <<startVars, script, target, client, verdict, failed, stray>>

(* One look, once: run_live_case asks for the status too, and reports both *)
(* whatever they are; run_docker_stop asks for the code alone.             *)
Inspect ==
    /\ Step("inspect")
    /\ seen' = Inspected
    /\ status' = IF script = "live" THEN State ELSE status
    /\ Proceed
    /\ UNCHANGED <<startVars, script, target, client, verdict, failed, stray>>

-----------------------------------------------------------------------------
(* Attached scripts.                                                       *)

CloseEnd == IF phase \in Live /\ stdin = "open" THEN CloseInput ELSE UNCHANGED startVars

(* The script gives up and kills its docker run; the container only loses  *)
(* its input.                                                              *)
KillClient ==
    /\ CloseEnd
    /\ client' = "killed"
    /\ Conclude("fail")
    /\ UNCHANGED <<script, target, seen, status, failed, stray>>

(* A request is answered by a serving container.  An answer that does not  *)
(* come, in time or ever, is an error for "ask"; "try" puts up with it,    *)
(* unless the pipe is broken.                                              *)
AskLeniently ==
    /\ Step("ask") \/ Step("try")
    /\ Proceed
    /\ UNCHANGED <<startVars, script, target, client, seen, status, verdict, failed, stray>>

Ask ==
    \/ /\ Step("ask") \/ Step("try")
       /\ phase = "serving" \/ Step("try")
       /\ Proceed
       /\ UNCHANGED <<startVars, script, target, client, seen, status, verdict, failed, stray>>
    \/ /\ Step("ask") \/ (Step("try") /\ phase \notin Live)
       /\ KillClient

Close ==
    /\ Step("close")
    /\ CloseEnd
    /\ Proceed
    /\ UNCHANGED <<script, target, client, seen, status, verdict, failed, stray>>

(* docker run returns with the exit code of the container, which is gone   *)
(* by then.                                                                *)
AwaitExit ==
    /\ Step("wait")
    /\ phase = "exited"
    /\ seen' = code
    /\ Remove
    /\ client' = "none"
    /\ Conclude(Judge(code))
    /\ UNCHANGED <<script, target, status, failed, stray>>

(* The smoke test has no deadline. *)
Expire ==
    /\ Step("wait")
    /\ script \notin Smoke
    /\ phase \in Live
    /\ KillClient

-----------------------------------------------------------------------------
(* HTTP scripts.                                                           *)

(* Through the published port, or from inside the container. *)
Reachable ==
    phase = "serving" /\ (IF script = "smoke_loopback" THEN bound # "none" ELSE bound = "remote")

WaitForOneMore ==
    /\ Step("reach")
    /\ IF Reachable THEN Proceed ELSE tries' = tries - 1 /\ UNCHANGED at
    /\ UNCHANGED <<startVars, script, target, client, seen, status, verdict, failed, stray>>

WaitForReady ==
    /\ Step("reach")
    /\ Reachable
    /\ Proceed
    /\ UNCHANGED <<startVars, script, target, client, seen, status, verdict, failed, stray>>

(* The loop over GET /healthz.  Without an answer run_http_case reads the  *)
(* log, then the exit code, of a container that may still be running, and  *)
(* cleans up, like run_rate_limit_case, which reads nothing; while fail of *)
(* the smoke test exits, and the trap on RETURN with its docker rm is      *)
(* never run.  The log is that of a refusal only if that came before it.   *)
WaitFor ==
    /\ Step("reach")
    /\ \/ /\ Reachable
          /\ Proceed
          /\ UNCHANGED <<seen, verdict>>
       \/ /\ ~Reachable
          /\ tries > 0
          /\ tries' = tries - 1
          /\ UNCHANGED <<at, seen, verdict>>
       \/ /\ ~Reachable
          /\ tries = 0
          /\ IF script \in Smoke
             THEN Conclude("fail") /\ UNCHANGED seen
             ELSE /\ seen' = IF script = "http" THEN Inspected ELSE seen
                  /\ \/ verdict' = "fail"
                     \/ script = "http" /\ target.token = "unset" /\ seen' = "1" /\ verdict' = "pass"
                  /\ at' = End - 1
                  /\ tries' = Attempts
    /\ UNCHANGED <<startVars, script, target, client, status, failed, stray>>

(* The requests with and without the token: refused without, where there   *)
(* is one.                                                                 *)
Satisfied == phase = "serving" /\ (auth \/ script = "smoke_loopback")

CheckAnswers ==
    /\ Step("check")
    /\ IF script \in Smoke /\ ~Satisfied
       THEN Conclude("fail")
       ELSE verdict' = (IF Satisfied THEN "pass" ELSE "fail") /\ Proceed
    /\ UNCHANGED <<startVars, script, target, client, seen, status, failed, stray>>

(* Six requests against a budget of three a minute: three are served and   *)
(* three refused, unless they take so long that a token comes back.        *)
Spend ==
    /\ Step("spend")
    /\ verdict' \in (IF phase = "serving" /\ taken["limiter"] = "valid" THEN {"pass", "fail"} ELSE {"fail"})
    /\ Proceed
    /\ UNCHANGED <<startVars, script, target, client, seen, status, failed, stray>>

-----------------------------------------------------------------------------
(* The daemon removes a container started with --rm; that of an attached   *)
(* script when its docker run has seen the exit, or is gone.               *)
AutoRemove ==
    /\ script \in AutoRemoved
    /\ client # "attached"
    /\ phase = "exited"
    /\ Remove
    /\ UNCHANGED probeVars

(* The script is run again; what the model has no room for is a second     *)
(* container beside one that was left without a name.                      *)
Again ==
    /\ Ended
    /\ script \in Attached => phase = "absent"
    /\ at' = 1
    /\ target' = Nothing
    /\ client' = "none"
    /\ seen' = "none"
    /\ status' = "none"
    /\ verdict' = "none"
    /\ failed' = (failed \/ verdict = "fail")
    /\ UNCHANGED <<startVars, script, tries, stray>>

(* Somebody removes by hand what was left. *)
CleanUp ==
    /\ Ended
    /\ \/ phase # "absent" /\ Remove /\ UNCHANGED probeVars
       \/ /\ stray /\ stray' = FALSE
          /\ UNCHANGED <<startVars, script, at, target, client, tries, seen, status, verdict, failed>>

ScriptStep ==
    \/ Contract \/ Run \/ Rm \/ SendSignal \/ Grace \/ Poll \/ Inspect
    \/ Ask \/ Close \/ AwaitExit \/ Expire
    \/ WaitFor \/ CheckAnswers \/ Spend

Container == (Process \/ Drained) /\ UNCHANGED probeVars

Operator == script = "operator" /\ StartupNext /\ UNCHANGED probeVars

ProbeNext == Operator \/ Container \/ ScriptStep \/ AutoRemove \/ CleanUp \/ Again

ProbeSpec ==
    /\ ProbeInit /\ [][ProbeNext]_allVars
    /\ WF_allVars(Process /\ UNCHANGED probeVars)
    /\ WF_allVars(ScriptStep)
    /\ WF_allVars(AutoRemove)

-----------------------------------------------------------------------------
(* An exit code that a script reports tells what happened to the container *)
(* it started: 1 and 2 that the launch was wrong in itself (or the address *)
(* taken), the others but 0 the signal the script sent, however early it   *)
(* came.  0 is also what docker gives for a container that is still        *)
(* running.  The loops over the status never take that for an end; the     *)
(* report of run_live_case has a 0 only next to the status that explains   *)
(* it; and the 0 of run_http_case, which nothing explains, only comes with *)
(* a failure.  Everywhere else 0 says that the container had served until  *)
(* the end of its input, or was interrupted before.                        *)
CodeIsTrue ==
    Ended =>
        /\ seen = "2" => Verdict(target) = "2"
        /\ seen = "1" => Verdict(target) = "1" \/ AsksForHttp(target)
        /\ seen = "0" =>
               \/ Verdict(target) = "accepted" /\ script \in Attached \cup {"sigint"}
               \/ script = "live" /\ status = "running"
               \/ script = "http" /\ verdict = "fail"
        /\ seen = "143" => script \in {"sigterm", "stop"}
        /\ seen = "137" => script = "stop"
        /\ seen = "130" => script = "sigint"
        /\ status = "running" => seen = "none" \/ script = "live"

(* A script that passes has had its answers: of a container that was       *)
(* accepted and has ended well, or refused for the want of a token where   *)
(* that is what was to be shown.                                           *)
VerdictIsEarned ==
    verdict = "pass" =>
        \/ Verdict(target) = "accepted" /\ script \in Attached /\ Reach(target) = "pipe"
            /\ (script # "session" => seen = "0")
        \/ Verdict(target) = "accepted" /\ script \notin Attached /\ Reach(target) # "pipe"
        \/ script = "http" /\ target.token = "unset" /\ seen = "1"

(* A script leaves a container behind only when it fails, by killing its   *)
(* docker run or by the way out of the smoke test; a docker run is refused *)
(* only after such a failure, for its name, or for its port; and only the  *)
(* ones that are refused the port leave what they created, if they did not *)
(* ask for its removal.                                                    *)
LeftoversHaveCause ==
    /\ Ended /\ phase # "absent" =>
        \/ verdict = "fail" /\ (client = "killed" \/ script \in Smoke)
        \/ verdict \in {"fail", "raised"} /\ failed /\ script \in Smoke
    /\ verdict = "raised" => (failed /\ script \in Smoke) \/ script \in Published
    /\ stray => script \in {"http", "rate"}

(* Every run of a script ends, whatever becomes of its container, the ones *)
(* without a deadline included.                                            *)
ScriptEnds == script # "operator" /\ at = 1 ~> Ended

=============================================================================
