------------------------------ MODULE ProbesProofs ------------------------------
(***************************************************************************)
(* Proofs about Probes: for every set of launches, every environment the   *)
(* scripts are given, and any number of rounds of their loops.             *)
(***************************************************************************)
EXTENDS Probes, StartupProofs

(* The place of docker run in a program. *)
RunAt(s) == IF s \in {"sigterm", "sigint", "stop", "live", "conformance"} THEN 2 ELSE 1

Driven == script # "operator"
Before == Driven /\ at <= RunAt(script)
During == Driven /\ RunAt(script) < at /\ at < End

(* What the exit code of a container that has ended says of its launch,    *)
(* and of the script that brought the end about.                           *)
CodeMeans(c, l) ==
    /\ c = "2" => Verdict(l) = "2"
    /\ c = "1" => Verdict(l) = "1" \/ AsksForHttp(l)
    /\ c = "0" =>
           /\ Verdict(l) = "accepted"
           /\ script \in Attached \cup {"sigint"}
           /\ script \in Attached => Reach(l) = "pipe"
    /\ c = "143" => script \in {"sigterm", "stop"}
    /\ c = "137" => script = "stop"
    /\ c = "130" => script = "sigint"

(* The container is the one the script has started, or, before it has      *)
(* started one, the one an earlier run has left.                           *)
TargetKnown ==
    /\ Before => target = Nothing
    /\ During => target \in Targets(script)
    /\ Driven => target \in Targets(script) \cup {Nothing}
    /\ target = Nothing => seen = "none"

ContainerKnown ==
    Driven =>
        /\ phase # "absent" => launch \in Targets(script)
        /\ phase # "absent" /\ target # Nothing => launch = target
        /\ stdin = "closed" => script \in Attached
        /\ interrupted => script = "sigint"
        /\ phase # "draining"
        /\ phase = "exited" => CodeMeans(code, launch)

(* A 0 may also have been read of a container that was still running.      *)
OfRunning(c, s, v) ==
    c = "0" /\ ((script = "live" /\ s = "running") \/ (script = "http" /\ v = "fail"))

ReadKnown(c, s, v) ==
    /\ CodeMeans(c, target) \/ OfRunning(c, s, v)
    /\ s # "none" => script \in {"sigterm", "sigint", "live"}
    /\ s = "running" => c = "none" \/ script = "live"

SeenKnown == ReadKnown(seen, status, verdict)

(* A docker run that is attached holds the container's name.               *)
ClientKnown ==
    script \in Attached =>
        /\ Before => phase = "absent"
        /\ During => client = "attached" /\ phase # "absent"
        /\ Ended => phase = "absent" \/ (verdict = "fail" /\ client = "killed")

(* A session that has had its first answer is one that served, and docker  *)
(* stop returns when the container has ended.                              *)
AnswerKnown ==
    /\ script \in {"session", "conformance"} /\ During /\ at > RunAt(script) + 1 =>
           phase = "serving" \/ (phase = "exited" /\ code = "0")
    /\ script = "stop" /\ During => phase # "absent" /\ (at = 5 => phase = "exited")

(* The others clean up at both ends, except the smoke test.                *)
NameKnown ==
    Driven /\ script \notin Attached =>
        /\ at = 1 => phase = "absent" \/ (script \in Smoke /\ failed)
        /\ at = 2 /\ Before => phase = "absent"
        /\ Ended => \/ phase = "absent"
                    \/ script \in Smoke /\ (verdict = "fail" \/ (verdict = "raised" /\ failed))

VerdictKnown ==
    /\ verdict # "none" => Driven
    /\ verdict # "none" /\ ~Ended => at = End - 1 /\ script \notin Attached
    /\ verdict = "raised" => (failed /\ script \in Smoke) \/ script \in Published
    /\ stray => script \in {"http", "rate"}
    /\ VerdictIsEarned

ProbeInv ==
    /\ StartupInv
    /\ ProbeTypeOK
    /\ TargetKnown
    /\ ContainerKnown
    /\ SeenKnown
    /\ ClientKnown
    /\ AnswerKnown
    /\ NameKnown
    /\ VerdictKnown

-----------------------------------------------------------------------------
(* The programs.                                                           *)

LEMMA ScriptNames ==
    Scripts = {"eof", "sigterm", "sigint", "stop", "container", "live", "input", "session",
               "conformance", "http", "rate", "smoke_stdio", "smoke_http", "smoke_loopback"}
BY DEF Scripts, Programs

(* The step a script is at, spelled out. *)
LEMMA ProgramLength ==
    ASSUME NEW s \in Scripts
    PROVE  /\ s \in {"eof", "container", "smoke_stdio"} => Len(Programs[s]) = 3
           /\ s \in {"live", "http", "rate", "smoke_http", "smoke_loopback"} => Len(Programs[s]) = 4
           /\ s \in {"sigterm", "sigint", "input"} => Len(Programs[s]) = 5
           /\ s \in {"stop", "session", "conformance"} => Len(Programs[s]) = 6
<1> USE DEF Programs
<1>1. /\ Len(RunEof) = 3 /\ Len(RunContainerCase) = 3 /\ Len(TestStdioGateway) = 3
      /\ Len(RunLiveCase) = 4 /\ Len(RunHttpCase) = 4 /\ Len(RunRateLimitCase) = 4
      /\ Len(TestHttpTransport) = 4 /\ Len(TestHttpLoopback) = 4
      /\ Len(RunSigterm) = 5 /\ Len(RunSigint) = 5 /\ Len(RunInputCase) = 5
      /\ Len(RunDockerStop) = 6 /\ Len(SessionMain) = 6 /\ Len(Conformance) = 6
  BY DEF RunEof, RunContainerCase, TestStdioGateway, RunLiveCase, RunHttpCase,
         RunRateLimitCase, TestHttpTransport, TestHttpLoopback, RunSigterm, RunSigint,
         RunInputCase, RunDockerStop, SessionMain, Conformance
<1>2. s \in {"eof", "container", "smoke_stdio"} => Len(Programs[s]) = 3
  BY <1>1
<1>3. s \in {"live", "http", "rate", "smoke_http", "smoke_loopback"} => Len(Programs[s]) = 4
  BY <1>1
<1>4. s \in {"sigterm", "sigint", "input"} => Len(Programs[s]) = 5
  BY <1>1
<1>5. s \in {"stop", "session", "conformance"} => Len(Programs[s]) = 6
  BY <1>1
<1>6. QED
  BY <1>2, <1>3, <1>4, <1>5

LEMMA SignalPrograms ==
    /\ Programs["sigterm"] = <<"rm", "run", "term", "poll", "rm">>
    /\ Programs["sigint"] = <<"rm", "run", "int", "poll", "rm">>
    /\ Programs["stop"] = <<"rm", "run", "term", "grace", "inspect", "rm">>
    /\ Programs["live"] = <<"rm", "run", "inspect", "rm">>
BY DEF Programs, RunSigterm, RunSigint, RunDockerStop, RunLiveCase

LEMMA AttachedPrograms ==
    /\ Programs["eof"] = <<"run", "close", "wait">>
    /\ Programs["container"] = <<"run", "close", "wait">>
    /\ Programs["smoke_stdio"] = <<"run", "close", "wait">>
    /\ Programs["input"] = <<"run", "ask", "try", "close", "wait">>
    /\ Programs["session"] = <<"run", "ask", "ask", "try", "close", "wait">>
    /\ Programs["conformance"] = <<"contract", "run", "ask", "ask", "close", "wait">>
BY DEF Programs, RunEof, RunContainerCase, TestStdioGateway, RunInputCase, SessionMain, Conformance

LEMMA HttpPrograms ==
    /\ Programs["http"] = <<"run", "reach", "check", "rm">>
    /\ Programs["rate"] = <<"run", "reach", "spend", "rm">>
    /\ Programs["smoke_http"] = <<"run", "reach", "check", "rm">>
    /\ Programs["smoke_loopback"] = <<"run", "reach", "check", "rm">>
BY DEF Programs, RunHttpCase, RunRateLimitCase, TestHttpTransport, TestHttpLoopback

(* How long a program is, and where its parts are. *)
LEMMA ProgramShape ==
    ASSUME NEW s \in Scripts
    PROVE  /\ Len(Programs[s]) \in 3..6
           /\ RunAt(s) \in {1, 2} /\ RunAt(s) + 1 < Len(Programs[s])
           /\ s \in {"session", "conformance"} => RunAt(s) + 2 < Len(Programs[s])
<1>1. Len(Programs[s]) \in 3..6
  BY ScriptNames, ProgramLength
<1>2. RunAt(s) \in {1, 2}
  BY DEF RunAt
<1>3. Len(Programs[s]) = 3 => RunAt(s) = 1
  <2>1. ASSUME s \in {"sigterm", "sigint", "stop", "live", "conformance"}
        PROVE  Len(Programs[s]) # 3
    BY <2>1, ProgramLength
  <2>2. QED
    BY <2>1 DEF RunAt
<1>4. s \in {"session", "conformance"} => Len(Programs[s]) = 6
  BY ProgramLength
<1> DEFINE length == Len(Programs[s])
           start == RunAt(s)
<1> HIDE DEF length, start
<1>5. length \in 3..6 /\ start \in {1, 2} /\ (length = 3 => start = 1)
  BY <1>1, <1>2, <1>3 DEF length, start
<1>6. start + 1 < length /\ (length = 6 => start + 2 < length)
  BY <1>5
<1>7. QED
  BY <1>4, <1>5, <1>6 DEF length, start

(* What each kind of step tells of the script and of the place in it.      *)
StepShape(s, i) ==
    LET kind == Programs[s][i]
        last == Len(Programs[s])
    IN  /\ kind = "contract" => s = "conformance" /\ i = 1
        /\ kind = "run" <=> i = RunAt(s)
        /\ kind = "rm" => s \notin Attached /\ ((i = 1 /\ RunAt(s) = 2) \/ i = last)
        /\ kind = "term" => s \in {"sigterm", "stop"} /\ i = 3
        /\ kind = "int" => s = "sigint" /\ i = 3
        /\ kind = "grace" => s = "stop" /\ i = 4
        /\ kind = "poll" => s \in {"sigterm", "sigint"} /\ i = 4
        /\ kind = "inspect" => (s = "stop" /\ i = 5) \/ (s = "live" /\ i = 3)
        /\ kind \in {"ask", "try", "close"} => s \in Attached /\ RunAt(s) < i /\ i < last
        /\ s \in {"session", "conformance"} /\ i = RunAt(s) + 1 => kind = "ask"
        /\ kind = "wait" <=> s \in Attached /\ i = last
        /\ kind = "reach" => s \in {"http", "rate", "smoke_http", "smoke_loopback"} /\ i = 2
        /\ kind = "check" => s \in {"http", "smoke_http", "smoke_loopback"} /\ i = 3
        /\ kind = "spend" => s = "rate" /\ i = 3
        /\ s \notin Attached => Programs[s][last] = "rm"

LEMMA StepShapes ==
    ASSUME NEW s \in Scripts, NEW i \in 1..Len(Programs[s])
    PROVE  StepShape(s, i)
<1> USE DEF StepShape, RunAt, Attached
<1>1. CASE s \in {"sigterm", "sigint", "stop", "live"}
  <2>1. CASE s = "sigterm"
    BY <2>1, ProgramLength, SignalPrograms
  <2>2. CASE s = "sigint"
    BY <2>2, ProgramLength, SignalPrograms
  <2>3. CASE s = "stop"
    BY <2>3, ProgramLength, SignalPrograms
  <2>4. CASE s = "live"
    BY <2>4, ProgramLength, SignalPrograms
  <2>5. QED
    BY <1>1, <2>1, <2>2, <2>3, <2>4
<1>2. CASE s \in Attached
  <2>1. CASE s \in {"eof", "container", "smoke_stdio"}
    <3>1. i \in 1..3 /\ Programs[s] = <<"run", "close", "wait">> /\ Len(Programs[s]) = 3
      BY <2>1, ProgramLength, AttachedPrograms
    <3>2. QED
      BY <2>1, <3>1
  <2>2. CASE s = "input"
    BY <2>2, ProgramLength, AttachedPrograms
  <2>3. CASE s = "session"
    BY <2>3, ProgramLength, AttachedPrograms
  <2>4. CASE s = "conformance"
    BY <2>4, ProgramLength, AttachedPrograms
  <2>5. QED
    BY <1>2, <2>1, <2>2, <2>3, <2>4
<1>3. CASE s \in {"http", "rate", "smoke_http", "smoke_loopback"}
  <2>1. CASE s = "rate"
    BY <2>1, ProgramLength, HttpPrograms
  <2>2. CASE s # "rate"
    <3>1. /\ i \in 1..4 /\ Programs[s] = <<"run", "reach", "check", "rm">>
          /\ Len(Programs[s]) = 4
      BY <1>3, <2>2, ProgramLength, HttpPrograms
    <3>2. QED
      BY <1>3, <2>2, <3>1
  <2>3. QED
    BY <2>1, <2>2
<1>4. QED
  BY <1>1, <1>2, <1>3, ScriptNames

(* Where a script can be. *)
LEMMA Places ==
    ASSUME ProbeTypeOK, Driven
    PROVE  /\ script \in Scripts
           /\ End \in 4..7 /\ End = Len(Programs[script]) + 1
           /\ at \in 1..End
           /\ RunAt(script) \in {1, 2} /\ RunAt(script) + 2 < End
           /\ script \in {"session", "conformance"} => RunAt(script) + 3 < End
<1> DEFINE length == Len(Programs[script])
           start == RunAt(script)
<1>1. script \in Scripts /\ at \in 1..End /\ End = length + 1
  BY DEF ProbeTypeOK, Driven, End, Length
<1>2. /\ length \in 3..6 /\ start \in {1, 2} /\ start + 1 < length
      /\ script \in {"session", "conformance"} => start + 2 < length
  BY <1>1, ProgramShape
<1> HIDE DEF length, start
<1>3. /\ End \in 4..7 /\ start + 2 < End
      /\ script \in {"session", "conformance"} => start + 3 < End
  BY <1>1, <1>2
<1>4. QED
  BY <1>1, <1>2, <1>3 DEF length, start

(* Where a script is when it takes a step of a kind. *)
LEMMA StepPlaces ==
    ASSUME ProbeTypeOK, NEW kind, Step(kind)
    PROVE  /\ Driven /\ at < End /\ ~Ended
           /\ kind = "contract" => script = "conformance" /\ at = 1 /\ RunAt(script) = 2
           /\ kind = "run" <=> at = RunAt(script)
           /\ kind = "rm" =>
                  script \notin Attached /\ ((at = 1 /\ RunAt(script) = 2) \/ at + 1 = End)
           /\ kind = "term" => script \in {"sigterm", "stop"} /\ During /\ at = 3 /\ at + 1 < End
           /\ kind = "int" => script = "sigint" /\ During /\ at = 3 /\ at + 1 < End
           /\ kind = "grace" => script = "stop" /\ During /\ at + 1 < End
           /\ kind \in {"poll", "inspect"} => script \notin Attached /\ During /\ at + 1 < End
           /\ kind = "poll" => script \in {"sigterm", "sigint"}
           /\ kind = "inspect" => script = "live" \/ (script = "stop" /\ at = 5)
           /\ kind \in {"ask", "try", "close"} =>
                  script \in Attached /\ During /\ at + 1 < End
           /\ script \in {"session", "conformance"} /\ at = RunAt(script) + 1 => kind = "ask"
           /\ kind = "wait" => script \in Attached /\ During
           /\ script \in Attached /\ at + 1 = End => kind = "wait"
           /\ kind = "reach" =>
                  /\ script \in {"http", "rate", "smoke_http", "smoke_loopback"}
                  /\ During /\ at = 2 /\ End = 5
           /\ kind = "check" =>
                  /\ script \in {"http", "smoke_http", "smoke_loopback"}
                  /\ During /\ at = 3 /\ End = 5
           /\ kind = "spend" => script = "rate" /\ During /\ at = 3 /\ End = 5
<1> DEFINE length == Len(Programs[script])
<1>1. Driven /\ at < End /\ Programs[script][at] = kind
  BY DEF Step, Driven
<1>2. script \in Scripts /\ End = length + 1 /\ at \in 1..End /\ End \in 4..7 /\ length \in 3..6
  BY <1>1, Places, ProgramShape
<1>3. RunAt(script) \in {1, 2} /\ RunAt(script) + 2 < End
  BY <1>1, Places
<1>4. at \in 1..length /\ at # End
  BY <1>1, <1>2
<1>5. ~Ended
  BY <1>4 DEF Ended
<1>6. StepShape(script, at)
  BY <1>2, <1>4, StepShapes
<1>7. script \in {"http", "rate", "smoke_http", "smoke_loopback"} => length = 4 /\ RunAt(script) = 1
  BY <1>2, ProgramLength DEF RunAt
<1>8. /\ script \in {"sigterm", "sigint", "stop", "live"} => RunAt(script) = 2 /\ script \notin Attached
      /\ script = "conformance" => RunAt(script) = 2
  BY DEF RunAt, Attached
<1>9. script \in {"sigterm", "sigint"} => length = 5
  BY <1>2, ProgramLength
<1>10. (script = "stop" => length = 6) /\ (script = "live" => length = 4)
  BY <1>2, ProgramLength
<1> HIDE DEF length
<1>11. During <=> RunAt(script) < at
  BY <1>1 DEF During
<1>12. /\ kind = "contract" => script = "conformance" /\ at = 1
       /\ kind = "run" <=> at = RunAt(script)
       /\ kind = "rm" => script \notin Attached /\ ((at = 1 /\ RunAt(script) = 2) \/ at = length)
       /\ kind = "term" => script \in {"sigterm", "stop"} /\ at = 3
       /\ kind = "int" => script = "sigint" /\ at = 3
       /\ kind = "grace" => script = "stop" /\ at = 4
       /\ kind = "poll" => script \in {"sigterm", "sigint"} /\ at = 4
       /\ kind = "inspect" => (script = "stop" /\ at = 5) \/ (script = "live" /\ at = 3)
       /\ kind \in {"ask", "try", "close"} =>
              script \in Attached /\ RunAt(script) < at /\ at < length
       /\ script \in {"session", "conformance"} /\ at = RunAt(script) + 1 => kind = "ask"
       /\ kind = "wait" <=> script \in Attached /\ at = length
       /\ kind = "reach" => script \in {"http", "rate", "smoke_http", "smoke_loopback"} /\ at = 2
       /\ kind = "check" => script \in {"http", "smoke_http", "smoke_loopback"} /\ at = 3
       /\ kind = "spend" => script = "rate" /\ at = 3
  BY <1>1, <1>6 DEF StepShape, length
<1>13. /\ at < length <=> at + 1 < End
       /\ at = length <=> at + 1 = End
       /\ length = 4 => End = 5
       /\ at = length => RunAt(script) < at
       /\ 2 < at => RunAt(script) < at
       /\ at = 3 => RunAt(script) < at
       /\ at = 4 => RunAt(script) < at
       /\ at = 3 /\ length \in {5, 6} => at + 1 < End
       /\ at = 4 /\ length \in {5, 6} => at + 1 < End
       /\ at = 5 /\ length = 6 => at + 1 < End
       /\ at = 3 /\ length = 4 => at + 1 < End
       /\ at = 5 => RunAt(script) < at
       /\ at = 2 /\ RunAt(script) = 1 => RunAt(script) < at
  BY <1>2, <1>3, <1>4
<1>14. kind = "contract" => script = "conformance" /\ at = 1 /\ RunAt(script) = 2
  BY <1>8, <1>12
<1>15. kind = "rm" => script \notin Attached /\ ((at = 1 /\ RunAt(script) = 2) \/ at + 1 = End)
  BY <1>12, <1>13
<1>16. kind \in {"term", "int", "grace"} => During /\ at + 1 < End
  BY <1>9, <1>10, <1>11, <1>12, <1>13
<1>17. kind \in {"poll", "inspect"} => script \notin Attached /\ During /\ at + 1 < End
  BY <1>8, <1>9, <1>10, <1>11, <1>12, <1>13
<1>18. kind \in {"ask", "try", "close"} => script \in Attached /\ During /\ at + 1 < End
  BY <1>11, <1>12, <1>13
<1>19. /\ kind = "wait" => script \in Attached /\ During
       /\ script \in Attached /\ at + 1 = End => kind = "wait"
  BY <1>11, <1>12, <1>13
<1>20. kind \in {"reach", "check", "spend"} => During /\ End = 5
  BY <1>7, <1>11, <1>12, <1>13
<1>21. QED
  BY <1>1, <1>5, <1>12, <1>14, <1>15, <1>16, <1>17, <1>18, <1>19, <1>20

-----------------------------------------------------------------------------
(* What the containers are started with.                                   *)

LEMMA ImageIsAccepted ==
    Image \in Launch /\ Verdict(Image) = "accepted" /\ Reach(Image) = "pipe" /\ ~AsksForHttp(Image)
<1>1. Image \in Launch /\ AskedTransport(Image) = "stdio"
  BY DEF Image, Launch, Transports, Numbers, Hosts, Modes, AskedTransport
<1>2. ~AsksForHttp(Image)
  BY <1>1 DEF Image, AsksForHttp, HttpModes, Modes
<1>3. ~AsksForRemote(Image) /\ Reach(Image) = "pipe"
  BY <1>2 DEF AsksForRemote, Reach
<1>4. ~Misused(Image) /\ ~Misconfigured(Image) /\ ~Exposed(Image)
  BY <1>1, <1>3 DEF Image, Misused, Misconfigured, Malformed, Exposed
<1>5. QED
  BY <1>1, <1>2, <1>3, <1>4 DEF Verdict

LEMMA TargetIsLaunch ==
    ASSUME NEW s \in Scripts, NEW l \in Targets(s)
    PROVE  l \in Launches /\ l \in Launch /\ l # Nothing
BY TargetsAssumption, StartupAssumption DEF Launch, Nothing

LEMMA ImageTargets ==
    ASSUME NEW s \in {"eof", "sigterm", "sigint", "stop", "input", "smoke_stdio"}
    PROVE  Targets(s) = {Image}
BY DEF Targets

(* What is asked over HTTP is a container that serves HTTP. *)
LEMMA HttpTargets ==
    ASSUME NEW s \in {"http", "rate", "smoke_http", "smoke_loopback"}, NEW l \in Targets(s)
    PROVE  AsksForHttp(l) /\ Reach(l) # "pipe"
<1>1. l.mode = "none" /\ l.transport \in {"http", "http-loopback"}
  BY DEF Targets, HttpMode, Image
<1>2. AsksForHttp(l)
  BY <1>1 DEF AsksForHttp, AskedTransport, Transports
<1>3. QED
  BY <1>2 DEF Reach

-----------------------------------------------------------------------------
(* What a container does by itself, or when it is removed.                 *)

(* A process that ends by itself has refused, has failed to bind, or has   *)
(* come to the end of its input; and one that serves does nothing else.    *)
LEMMA ProcessEnds ==
    ASSUME StartupInv, Process
    PROVE  /\ phase \in Live /\ phase # "draining" /\ phase' \notin {"absent", "draining"}
           /\ UNCHANGED <<launch, stdin, interrupted>>
           /\ phase = "serving" => phase' = "exited" /\ code' = "0"
           /\ phase' = "exited" =>
                  /\ code' \in {"0", "1", "2"}
                  /\ code' = "2" => Verdict(launch) = "2"
                  /\ code' = "1" => Verdict(launch) = "1" \/ AsksForHttp(launch)
                  /\ code' = "0" =>
                         /\ Verdict(launch) = "accepted"
                         /\ interrupted \/ (stdin = "closed" /\ Reach(launch) = "pipe")
<1>1. /\ phase \in Live /\ phase # "draining" /\ phase' \notin {"absent", "draining"}
      /\ UNCHANGED <<launch, stdin, interrupted>>
      /\ phase' = "exited" => code' \in {"0", "1", "2"}
  BY DEF Process, Dispatch, Import, Parse, Check, Register, Prepare, Open, OpenStdio, OpenHttp,
         FailToBind, EndOfInput, Exit, Continue, Live, Shelled, Computing
<1>2. phase = "serving" => EndOfInput
  BY DEF Process, Dispatch, Import, Parse, Check, Register, Prepare, Open, OpenStdio, OpenHttp,
         FailToBind
<1>3. ASSUME phase' = "exited", code' \in {"1", "2"}
      PROVE  /\ code' = "2" => Verdict(launch) = "2"
             /\ code' = "1" => Verdict(launch) = "1" \/ AsksForHttp(launch)
  <2>1. StateOf \in {"starting", "serving"} /\ StateOf' = "exited"
    BY <1>1, <1>3, StateByPhase DEF StateOf, Live, Serving, Shelled, Computing
  <2>2. Promise!Next
    BY <2>1, ProcessPromised, ProcessKeepsInv DEF Promise!vars
  <2>3. Promise!Refuse \/ Promise!Fail
    BY <1>3, <2>1, <2>2
    DEF Promise!Next, Promise!Start, Promise!Serve, Promise!Note, Promise!Finish,
        Promise!Signalled, Promise!Remove, Promise!End
  <2>4. Reach(launch) # "pipe" => AsksForHttp(launch)
    BY DEF Reach, AsksForRemote
  <2>5. QED
    BY <1>3, <2>3, <2>4 DEF Promise!Refuse, Promise!Fail, Promise!End
<1>4. ASSUME phase' = "exited", code' = "0"
      PROVE  /\ Verdict(launch) = "accepted"
             /\ interrupted \/ (stdin = "closed" /\ Reach(launch) = "pipe")
  <2>1. \/ phase = "opening" /\ interrupted
        \/ phase = "serving" /\ argv.mode = "stdio" /\ stdin = "closed"
    BY <1>4 DEF Process, Dispatch, Import, Parse, Check, Register, Prepare, Open, OpenStdio,
                OpenHttp, FailToBind, EndOfInput, Exit, Continue
  <2>2. phase \in Prepared /\ phase \in Dispatched
    BY <2>1 DEF Prepared, Registered, Checked, Parsed, Dispatched, Computing
  <2>3. QED
    BY <2>1, <2>2, LaunchOfPhase, ReachAsArgued
<1>5. QED
  BY <1>1, <1>2, <1>3, <1>4 DEF EndOfInput, Exit

-----------------------------------------------------------------------------
(* How the parts of the invariant move.                                    *)

(* The program of a script stays, and so do its places. *)
LEMMA SameScript ==
    ASSUME UNCHANGED script
    PROVE  /\ End' = End /\ RunAt(script)' = RunAt(script) /\ Driven' = Driven
           /\ Targets(script)' = Targets(script)
           /\ Before' <=> Driven /\ at' <= RunAt(script)
           /\ During' <=> Driven /\ RunAt(script) < at' /\ at' < End
           /\ Ended' <=> Driven /\ at' = End
<1>1. End' = End /\ RunAt(script)' = RunAt(script) /\ Driven' = Driven
      /\ Targets(script)' = Targets(script)
  BY DEF End, Length, RunAt, Driven, Targets
<1>2. QED
  BY <1>1 DEF Before, During, Ended, Driven

(* What does not look at the container. *)
LEMMA ProbeVarsStutter ==
    ASSUME ProbeInv, UNCHANGED probeVars, StartupTypeOK'
    PROVE  /\ ProbeTypeOK' /\ TargetKnown' /\ SeenKnown' /\ VerdictKnown'
           /\ Driven' = Driven /\ Before' = Before /\ During' = During /\ Ended' = Ended
<1>1. UNCHANGED <<script, at, target, client, tries, seen, status, verdict, failed, stray>>
  BY DEF probeVars
<1>2. /\ End' = End /\ Driven' = Driven /\ Before' = Before /\ During' = During /\ Ended' = Ended
      /\ Targets(script)' = Targets(script)
  BY <1>1, SameScript DEF Before, During, Ended, Driven
<1>3. ProbeTypeOK'
  BY <1>1, <1>2 DEF ProbeInv, ProbeTypeOK
<1>4. TargetKnown'
  BY <1>1, <1>2 DEF ProbeInv, TargetKnown
<1>5. SeenKnown'
  BY <1>1 DEF ProbeInv, SeenKnown, ReadKnown, OfRunning, CodeMeans
<1>6. VerdictKnown'
  BY <1>1, <1>2 DEF ProbeInv, VerdictKnown, VerdictIsEarned
<1>7. QED
  BY <1>2, <1>3, <1>4, <1>5, <1>6

(* Nothing is known of what an operator does. *)
LEMMA OperatorKeepsInv ==
    ASSUME ProbeInv, ~Driven, UNCHANGED probeVars, StartupInv'
    PROVE  ProbeInv'
<1>1. /\ ProbeTypeOK' /\ TargetKnown' /\ SeenKnown' /\ VerdictKnown'
      /\ ~Driven' /\ script' = "operator"
  BY ProbeVarsStutter DEF StartupInv, Driven, probeVars
<1>2. ContainerKnown' /\ ClientKnown' /\ AnswerKnown' /\ NameKnown'
  BY <1>1 DEF ContainerKnown, ClientKnown, AnswerKnown, NameKnown, Attached, Driven
<1>3. QED
  BY <1>1, <1>2 DEF ProbeInv

(* The container ends, with a code that means what it says. *)
LEMMA ExitKnown ==
    ASSUME ProbeInv, Driven, UNCHANGED <<script, target, launch, stdin, interrupted>>,
           phase # "absent", phase' = "exited", CodeMeans(code', launch)
    PROVE  ContainerKnown'
<1>1. CodeMeans(code, launch)'
  BY DEF CodeMeans
<1>2. QED
  BY <1>1, SameScript DEF ProbeInv, ContainerKnown

LEMMA ContainerStutter ==
    ASSUME ProbeInv, UNCHANGED <<script, target, phase, launch, interrupted, code>>,
           stdin' = stdin \/ script \in Attached
    PROVE  ContainerKnown'
<1>1. CodeMeans(code, launch) => CodeMeans(code, launch)'
  BY DEF CodeMeans
<1>2. QED
  BY <1>1, SameScript DEF ProbeInv, ContainerKnown

LEMMA RemoveKnown ==
    ASSUME Remove
    PROVE  ContainerKnown' /\ phase' = "absent"
BY DEF Remove, ContainerKnown

(* The container goes on by itself, under whichever script. *)
LEMMA ContainerKeepsInv == ASSUME ProbeInv, Container PROVE ProbeInv'
<1>1. StartupInv' /\ UNCHANGED probeVars
  BY StartupNextInv DEF Container, ProbeInv, StartupNext
<1>2. ASSUME Driven
      PROVE  ProbeInv'
  <2>1. Process
    BY <1>2 DEF Container, Drained, ProbeInv, ContainerKnown
  <2>2. /\ phase \in Live /\ phase' \notin {"absent", "draining"}
        /\ UNCHANGED <<launch, stdin, interrupted>>
        /\ phase = "serving" => phase' = "exited" /\ code' = "0"
        /\ phase' = "exited" =>
               /\ code' \in {"0", "1", "2"}
               /\ code' = "2" => Verdict(launch) = "2"
               /\ code' = "1" => Verdict(launch) = "1" \/ AsksForHttp(launch)
               /\ code' = "0" =>
                      /\ Verdict(launch) = "accepted"
                      /\ interrupted \/ (stdin = "closed" /\ Reach(launch) = "pipe")
    BY <2>1, ProcessEnds DEF ProbeInv
  <2>3. phase \notin {"absent", "exited"}
    BY <2>2 DEF Live, Shelled, Computing
  <2>4. UNCHANGED <<script, at, target, client, verdict, failed>>
    BY <1>1 DEF probeVars
  <2>5. phase' = "exited" => CodeMeans(code', launch)
    <3>1. /\ interrupted => script = "sigint"
          /\ stdin = "closed" => script \in Attached
          /\ "sigint" \notin Attached
      BY <1>2 DEF ProbeInv, ContainerKnown, Attached
    <3>2. QED
      BY <2>2, <3>1 DEF CodeMeans
  <2>6. ContainerKnown'
    <3>1. CASE phase' = "exited"
      BY <1>2, <2>2, <2>3, <2>4, <2>5, <3>1, ExitKnown
    <3>2. CASE phase' # "exited"
      BY <1>2, <2>2, <2>3, <2>4, <3>2, SameScript DEF ProbeInv, ContainerKnown
    <3>3. QED
      BY <3>1, <3>2
  <2>7. /\ ProbeTypeOK' /\ TargetKnown' /\ SeenKnown' /\ VerdictKnown'
        /\ Before' = Before /\ During' = During /\ Ended' = Ended /\ Driven' = Driven
    BY <1>1, ProbeVarsStutter DEF StartupInv
  <2>8. ClientKnown'
    BY <2>2, <2>3, <2>4, <2>7 DEF ProbeInv, ClientKnown
  <2>9. AnswerKnown'
    BY <2>2, <2>3, <2>4, <2>7, SameScript DEF ProbeInv, AnswerKnown
  <2>10. NameKnown'
    BY <2>2, <2>3, <2>4, <2>7 DEF ProbeInv, NameKnown
  <2>11. QED
    BY <1>1, <2>6, <2>7, <2>8, <2>9, <2>10 DEF ProbeInv
<1>3. QED
  BY <1>1, <1>2, OperatorKeepsInv

(* The container is removed while nobody is attached to it. *)
LEMMA RemovedKeepsInv ==
    ASSUME ProbeInv, Remove, UNCHANGED probeVars, AutoRemove \/ Ended
    PROVE  ProbeInv'
<1>1. StartupInv'
  BY RemoveKeepsInv DEF ProbeInv
<1>2. /\ ProbeTypeOK' /\ TargetKnown' /\ SeenKnown' /\ VerdictKnown'
      /\ Before' = Before /\ During' = During /\ Ended' = Ended /\ Driven' = Driven
  BY <1>1, ProbeVarsStutter DEF StartupInv
<1>3. ContainerKnown' /\ phase' = "absent"
  BY RemoveKnown
<1>4. script \in Attached \cup {"stop"} => ~During
  <2>1. CASE AutoRemove
    BY <2>1 DEF AutoRemove, AutoRemoved, Attached, ProbeInv, ClientKnown
  <2>2. CASE Ended
    <3>1. Driven
      BY <2>2 DEF Ended, Driven
    <3>2. QED
      BY <2>2, <3>1, Places DEF ProbeInv, Ended, During
  <2>3. QED
    BY <2>1, <2>2
<1>5. script' = script /\ at' = at
  BY DEF probeVars
<1>6. ClientKnown' /\ NameKnown'
  BY <1>2, <1>3, <1>4, <1>5 DEF ClientKnown, NameKnown
<1>7. AnswerKnown'
  BY <1>2, <1>4, <1>5 DEF AnswerKnown, Attached
<1>8. QED
  BY <1>1, <1>2, <1>3, <1>6, <1>7 DEF ProbeInv

(* What was created and never started is in nobody's way. *)
LEMMA PruneKeepsInv ==
    ASSUME ProbeInv, stray' = FALSE, UNCHANGED startVars,
           UNCHANGED <<script, at, target, client, tries, seen, status, verdict, failed>>
    PROVE  ProbeInv'
<1>1. StartupInv' /\ UNCHANGED <<phase, launch, stdin, interrupted, code>>
  BY StutterKeepsInv DEF ProbeInv, startVars
<1>2. /\ End' = End /\ Driven' = Driven /\ Before' = Before /\ During' = During /\ Ended' = Ended
      /\ Targets(script)' = Targets(script) /\ RunAt(script)' = RunAt(script)
  BY SameScript DEF Before, During, Ended, Driven
<1>3. ProbeTypeOK'
  BY <1>1, <1>2 DEF ProbeInv, StartupInv, ProbeTypeOK
<1>4. TargetKnown'
  BY <1>2 DEF ProbeInv, TargetKnown
<1>5. SeenKnown'
  BY DEF ProbeInv, SeenKnown, ReadKnown, OfRunning, CodeMeans
<1>6. VerdictKnown'
  BY <1>2 DEF ProbeInv, VerdictKnown, VerdictIsEarned
<1>7. ContainerKnown'
  BY <1>1, ContainerStutter
<1>8. ClientKnown' /\ NameKnown'
  BY <1>1, <1>2 DEF ProbeInv, ClientKnown, NameKnown
<1>9. AnswerKnown'
  BY <1>1, <1>2 DEF ProbeInv, AnswerKnown
<1>10. QED
  BY <1>1, <1>3, <1>4, <1>5, <1>6, <1>7, <1>8, <1>9 DEF ProbeInv

LEMMA TidyKeepsInv == ASSUME ProbeInv, AutoRemove \/ CleanUp PROVE ProbeInv'
BY RemovedKeepsInv, PruneKeepsInv DEF AutoRemove, CleanUp

-----------------------------------------------------------------------------
(* The steps of a script.                                                  *)

(* Until its last step nothing has been concluded. *)
LEMMA OpenVerdict ==
    ASSUME ProbeInv, Driven, at + 1 < End
    PROVE  verdict = "none" /\ ~Ended
<1>1. at \in 1..End /\ End \in 4..7
  BY Places DEF ProbeInv
<1>2. at # End /\ at # End - 1
  BY <1>1
<1>3. QED
  BY <1>2 DEF ProbeInv, VerdictKnown, Ended

(* A step in the middle of a program. *)
LEMMA MoveOn ==
    ASSUME ProbeInv, StartupInv', During, at + 1 < End,
           at' = at \/ at' = at + 1,
           tries' \in 0..Attempts, seen' \in Codes, status' \in {"none", "running", "exited"},
           ReadKnown(seen', status', verdict),
           UNCHANGED <<script, target, client, verdict, failed, stray>>,
           ContainerKnown', AnswerKnown',
           script \in Attached => phase' # "absent"
    PROVE  ProbeInv'
<1>1. /\ Driven /\ at \in 1..End /\ End \in 4..7 /\ RunAt(script) \in {1, 2}
      /\ RunAt(script) < at
  BY Places DEF ProbeInv, During
<1>2. verdict = "none"
  BY <1>1, OpenVerdict
<1>3. at' \in 1..End /\ RunAt(script) < at' /\ at' < End /\ at' # 1 /\ at' # End
  BY <1>1
<1>4. End' = End /\ Driven' /\ ~Before' /\ During' /\ ~Ended'
      /\ Targets(script)' = Targets(script)
  BY <1>1, <1>3, SameScript
<1>5. ProbeTypeOK'
  BY <1>3, <1>4 DEF ProbeInv, StartupInv, ProbeTypeOK
<1>6. target \in Targets(script) /\ target # Nothing
  BY TargetIsLaunch, Places, <1>1 DEF ProbeInv, TargetKnown
<1>7. TargetKnown'
  BY <1>4, <1>6 DEF TargetKnown
<1>8. SeenKnown'
  BY DEF SeenKnown, ReadKnown, OfRunning, CodeMeans
<1>9. ClientKnown'
  BY <1>4 DEF ProbeInv, ClientKnown
<1>10. NameKnown'
  BY <1>3, <1>4 DEF NameKnown
<1>11. VerdictKnown'
  BY <1>2 DEF ProbeInv, VerdictKnown, VerdictIsEarned
<1>12. QED
  BY <1>5, <1>7, <1>8, <1>9, <1>10, <1>11 DEF ProbeInv

(* A script ends, with a container that is gone, or one that it has left   *)
(* for a reason.                                                           *)
LEMMA Conclusion ==
    ASSUME ProbeInv, StartupInv', Driven, at' = End, tries' = Attempts, UNCHANGED <<script, failed>>,
           target' \in {target, Nothing}, target' = Nothing => seen' = "none",
           client' \in {"none", "attached", "killed"},
           seen' \in Codes, SeenKnown', UNCHANGED status,
           verdict' \in Verdicts,
           verdict' = "raised" => (failed /\ script \in Smoke) \/ script \in Published,
           stray' \in BOOLEAN, stray' => script \in {"http", "rate"},
           VerdictIsEarned', ContainerKnown',
           \/ phase' = "absent"
           \/ script \in Attached /\ verdict' = "fail" /\ client' = "killed"
           \/ script \in Smoke \ Attached /\ (verdict' = "fail" \/ (verdict' = "raised" /\ failed))
    PROVE  ProbeInv'
<1>1. End \in 4..7 /\ RunAt(script) \in {1, 2} /\ RunAt(script) + 2 < End
  BY Places DEF ProbeInv
<1>2. at' \in 1..End /\ ~(at' <= RunAt(script)) /\ ~(at' < End) /\ at' # 1
  BY <1>1
<1>3. End' = End /\ Driven' /\ ~Before' /\ ~During' /\ Ended'
      /\ Targets(script)' = Targets(script)
  BY <1>1, <1>2, SameScript
<1>4. ProbeTypeOK'
  BY <1>2, <1>3, ProbesAssumption DEF ProbeInv, StartupInv, ProbeTypeOK
<1>5. TargetKnown'
  BY <1>3 DEF ProbeInv, TargetKnown
<1>7. ClientKnown' /\ NameKnown'
  BY <1>2, <1>3 DEF ClientKnown, NameKnown
<1>8. AnswerKnown'
  BY <1>3 DEF AnswerKnown
<1>9. VerdictKnown'
  BY <1>3 DEF VerdictKnown
<1>10. QED
  BY <1>4, <1>5, <1>7, <1>8, <1>9 DEF ProbeInv

(* A step before the docker run, or the one before it: nothing is known    *)
(* yet but that the name is free.                                          *)
LEMMA StepBefore ==
    ASSUME ProbeInv, StartupInv', Driven, at + 1 = RunAt(script), at' = at + 1,
           tries' = Attempts, UNCHANGED <<script, target, client, seen, status, verdict, failed, stray>>,
           ContainerKnown', phase' = "absent"
    PROVE  ProbeInv'
<1>1. End \in 4..7 /\ RunAt(script) \in {1, 2} /\ RunAt(script) + 2 < End /\ at \in 1..End
  BY Places DEF ProbeInv
<1>2. /\ at' \in 1..End /\ at' = RunAt(script) /\ at' < End /\ at' # 1
      /\ at <= RunAt(script) /\ at + 1 < End
  BY <1>1
<1>3. /\ End' = End /\ Driven' /\ Before' /\ ~During' /\ ~Ended' /\ Before
      /\ Targets(script)' = Targets(script)
  BY <1>1, <1>2, SameScript DEF Before
<1>4. target = Nothing /\ seen = "none" /\ verdict = "none"
  BY <1>2, <1>3, OpenVerdict DEF ProbeInv, TargetKnown
<1>5. ProbeTypeOK'
  BY <1>2, <1>3, ProbesAssumption DEF ProbeInv, StartupInv, ProbeTypeOK
<1>6. TargetKnown' /\ SeenKnown'
  BY <1>3, <1>4 DEF ProbeInv, TargetKnown, SeenKnown, ReadKnown, OfRunning, CodeMeans
<1>7. ClientKnown' /\ NameKnown' /\ AnswerKnown'
  BY <1>2, <1>3 DEF ClientKnown, NameKnown, AnswerKnown
<1>8. VerdictKnown'
  BY <1>4 DEF ProbeInv, VerdictKnown, VerdictIsEarned
<1>9. QED
  BY <1>5, <1>6, <1>7, <1>8 DEF ProbeInv

LEMMA ContractKeepsInv == ASSUME ProbeInv, Contract PROVE ProbeInv'
<1>1. /\ script = "conformance" /\ at = 1 /\ RunAt(script) = 2 /\ Driven
      /\ UNCHANGED <<script, target, client, seen, status, failed, stray>> /\ UNCHANGED startVars
  BY StepPlaces DEF Contract, ProbeInv
<1>2. StartupInv' /\ ContainerKnown' /\ phase' = phase
  BY <1>1, StutterKeepsInv, ContainerStutter DEF ProbeInv, startVars
<1>3. Before /\ script \in Attached
  BY <1>1 DEF Before, Attached
<1>4. phase' = "absent" /\ target = Nothing /\ seen = "none"
  BY <1>2, <1>3 DEF ProbeInv, ClientKnown, TargetKnown
<1>5. CASE Proceed /\ UNCHANGED verdict
  BY <1>1, <1>2, <1>4, <1>5, StepBefore DEF Proceed
<1>6. CASE Conclude("fail")
  <2>1. SeenKnown' /\ VerdictIsEarned'
    BY <1>1, <1>4, <1>6
    DEF Conclude, ProbeInv, SeenKnown, ReadKnown, OfRunning, CodeMeans, VerdictIsEarned
  <2>2. QED
    BY <1>1, <1>2, <1>4, <1>6, <2>1, Conclusion
    DEF Conclude, Verdicts, ProbeInv, ProbeTypeOK, VerdictKnown
<1>7. QED
  BY <1>5, <1>6 DEF Contract

(* What is started is what the script asks for, under a name that is free. *)
LEMMA RunKeepsInv == ASSUME ProbeInv, Run PROVE ProbeInv'
<1>1. /\ Driven /\ at = RunAt(script) /\ UNCHANGED <<script, seen, status, failed>>
      /\ at \in 1..End /\ End \in 4..7 /\ RunAt(script) \in {1, 2} /\ RunAt(script) + 2 < End
      /\ script \in Scripts
  BY StepPlaces, Places DEF Run, ProbeInv
<1>2. Before /\ at + 1 < End
  BY <1>1 DEF Before
<1>3. target = Nothing /\ seen = "none" /\ verdict = "none"
  BY <1>1, <1>2, OpenVerdict DEF ProbeInv, TargetKnown
<1>4. CASE /\ phase = "absent"
           /\ target' \in Targets(script)
           /\ phase' = "shell"
           /\ launch' = target'
           /\ client' = IF script \in Attached THEN "attached" ELSE "none"
           /\ Proceed
           /\ UNCHANGED <<argv, runVars, stdin, interrupted, code, verdict, stray>>
  <2>1. target' \in Launches /\ target' \in Launch /\ target' # Nothing
    BY <1>1, <1>4, TargetIsLaunch
  <2>2. StartupInv'
    BY <1>4, <2>1, StartKeepsInv DEF ProbeInv, Start
  <2>3. at' = RunAt(script) + 1 /\ at' < End /\ at' \in 1..End /\ at' # 1 /\ at' # RunAt(script)
        /\ ~(at' <= RunAt(script)) /\ RunAt(script) < at' /\ at' # End
        /\ ~(at' > RunAt(script) + 1)
    BY <1>1, <1>4 DEF Proceed
  <2>4. /\ End' = End /\ Driven' /\ ~Before' /\ During' /\ ~Ended'
        /\ Targets(script)' = Targets(script) /\ RunAt(script)' = RunAt(script)
    BY <1>1, <2>3, SameScript
  <2>5. ProbeTypeOK'
    BY <1>1, <1>4, <2>1, <2>2, <2>3, <2>4, ProbesAssumption
    DEF ProbeInv, StartupInv, ProbeTypeOK, Proceed
  <2>6. TargetKnown' /\ SeenKnown'
    BY <1>1, <1>3, <1>4, <2>1, <2>4
    DEF ProbeInv, TargetKnown, SeenKnown, ReadKnown, OfRunning, CodeMeans
  <2>7. ContainerKnown'
    BY <1>1, <1>4, <2>4 DEF ProbeInv, ContainerKnown
  <2>8. ClientKnown' /\ NameKnown' /\ AnswerKnown'
    BY <1>1, <1>4, <2>3, <2>4 DEF ClientKnown, NameKnown, AnswerKnown
  <2>9. VerdictKnown'
    BY <1>1, <1>3, <1>4 DEF ProbeInv, VerdictKnown, VerdictIsEarned
  <2>10. QED
    BY <2>2, <2>5, <2>6, <2>7, <2>8, <2>9 DEF ProbeInv
<1>5. ASSUME Conclude("raised"), UNCHANGED <<startVars, target, client>>
      PROVE  /\ StartupInv' /\ ContainerKnown' /\ SeenKnown' /\ VerdictIsEarned'
             /\ at' = End /\ verdict' = "raised" /\ tries' = Attempts /\ phase' = phase
             /\ client' \in {"none", "attached", "killed"} /\ seen' \in Codes
             /\ verdict' \in Verdicts
  <2>1. StartupInv' /\ ContainerKnown'
    BY <1>1, <1>5, StutterKeepsInv, ContainerStutter DEF ProbeInv, startVars
  <2>2. SeenKnown' /\ VerdictIsEarned'
    BY <1>1, <1>3, <1>5
    DEF Conclude, ProbeInv, SeenKnown, ReadKnown, OfRunning, CodeMeans, VerdictIsEarned
  <2>3. QED
    BY <1>1, <1>5, <2>1, <2>2 DEF Conclude, Verdicts, ProbeInv, ProbeTypeOK, startVars
<1>6. CASE phase # "absent" /\ Conclude("raised") /\ UNCHANGED <<startVars, target, client, stray>>
  <2>1. script \in Smoke \ Attached /\ failed
    BY <1>1, <1>2, <1>6 DEF ProbeInv, ClientKnown, NameKnown
  <2>2. stray' \in BOOLEAN /\ (stray' => script \in {"http", "rate"})
    BY <1>6 DEF ProbeInv, ProbeTypeOK, VerdictKnown
  <2>3. QED
    BY <1>1, <1>3, <1>5, <1>6, <2>1, <2>2, Conclusion
<1>7. CASE /\ phase = "absent" /\ script \in Published /\ Conclude("raised")
           /\ stray' = (stray \/ script \notin AutoRemoved) /\ UNCHANGED <<startVars, target, client>>
  <2>1. stray' \in BOOLEAN /\ (stray' => script \in {"http", "rate"})
    BY <1>7 DEF ProbeInv, ProbeTypeOK, VerdictKnown, Published, AutoRemoved
  <2>2. QED
    BY <1>1, <1>3, <1>5, <1>7, <2>1, Conclusion
<1>8. QED
  BY <1>4, <1>6, <1>7 DEF Run

LEMMA RmKeepsInv == ASSUME ProbeInv, Rm PROVE ProbeInv'
<1>1. /\ Driven /\ script \notin Attached
      /\ UNCHANGED <<script, target, client, seen, status, failed, stray>>
      /\ ((at = 1 /\ RunAt(script) = 2) \/ at + 1 = End)
      /\ at' = at + 1 /\ tries' = Attempts /\ at \in 1..End /\ End \in 4..7
      /\ verdict' = IF at + 1 = End /\ verdict = "none" THEN "reported" ELSE verdict
  BY StepPlaces, Places DEF Rm, ProbeInv, Proceed
<1>2. StartupInv' /\ ContainerKnown' /\ phase' = "absent"
  <2>1. CASE phase = "absent" /\ UNCHANGED startVars
    BY <1>1, <2>1, StutterKeepsInv, ContainerStutter DEF ProbeInv, startVars
  <2>2. CASE Remove
    BY <2>2, RemoveKeepsInv, RemoveKnown DEF ProbeInv
  <2>3. QED
    BY <2>1, <2>2 DEF Rm
<1>3. CASE at = 1 /\ RunAt(script) = 2
  <2>1. at + 1 = RunAt(script) /\ at + 1 # End
    BY <1>1, <1>3
  <2>2. QED
    BY <1>1, <1>2, <2>1, StepBefore
<1>4. CASE at + 1 = End
  <2>1. /\ SeenKnown' /\ (verdict' = "raised" => (failed /\ script \in Smoke) \/ script \in Published)
        /\ stray' \in BOOLEAN /\ (stray' => script \in {"http", "rate"})
    BY <1>1 DEF ProbeInv, SeenKnown, ReadKnown, OfRunning, CodeMeans, VerdictKnown, ProbeTypeOK
  <2>2. VerdictIsEarned'
    BY <1>1 DEF ProbeInv, VerdictKnown, VerdictIsEarned
  <2>3. /\ target' \in {target, Nothing} /\ (target' = Nothing => seen' = "none")
        /\ client' \in {"none", "attached", "killed"} /\ seen' \in Codes /\ verdict' \in Verdicts
    BY <1>1 DEF ProbeInv, TargetKnown, ProbeTypeOK, Verdicts
  <2>4. QED
    BY <1>1, <1>2, <1>4, <2>1, <2>2, <2>3, Conclusion
<1>5. QED
  BY <1>1, <1>3, <1>4

(* A script that sends signals has started the image as it is: stdio. *)
LEMMA SignalledImage ==
    ASSUME ProbeInv, script \in {"sigterm", "sigint", "stop"}, phase \in Live
    PROVE  /\ launch = Image
           /\ phase \in Dispatched => argv.mode = "stdio"
           /\ ~Drain
<1>1. Driven /\ phase # "absent"
  BY DEF Driven, Live, Shelled, Computing
<1>2. launch = Image
  BY <1>1, ImageTargets DEF ProbeInv, ContainerKnown
<1>3. phase \in Dispatched => argv.mode = "stdio"
  <2>1. SUFFICES ASSUME phase \in Dispatched
                 PROVE  argv.mode = "stdio"
    OBVIOUS
  <2>2. argv.mode \in Modes /\ argv.mode \notin HttpModes
    BY <1>2, <2>1, LaunchOfPhase, ReachAsArgued, ImageIsAccepted DEF ProbeInv, Arguments
  <2>3. QED
    BY <2>2 DEF HttpModes
<1>4. ~Drain
  BY <1>3 DEF Drain, HttpModes, Dispatched
<1>5. QED
  BY <1>2, <1>3, <1>4

(* A signal ends the container with its own code, is noted, or is lost. *)
LEMMA SendSignalKeepsInv == ASSUME ProbeInv, SendSignal PROVE ProbeInv'
<1>1. /\ During /\ at = 3 /\ at + 1 < End /\ Driven
      /\ \/ script \in {"sigterm", "stop"} /\ ((phase \in Live /\ Terminate) \/ UNCHANGED startVars)
         \/ script = "sigint" /\ ((phase \in Live /\ Interrupt) \/ UNCHANGED startVars)
      /\ UNCHANGED <<script, target, client, seen, status, verdict, failed, stray>>
      /\ at' = at + 1 /\ tries' = Attempts
  BY StepPlaces DEF SendSignal, ProbeInv, Proceed
<1>2. script \in {"sigterm", "sigint", "stop"} /\ script \notin Attached
  BY <1>1 DEF Attached
<1>3. StartupInv'
  BY <1>1, StutterKeepsInv, SignalKeepsInv DEF ProbeInv, Signal
<1>4. ContainerKnown'
  <2>1. CASE UNCHANGED startVars
    BY <1>1, <2>1, ContainerStutter DEF startVars
  <2>2. ASSUME phase \in Live
        PROVE  launch = Image /\ phase # "draining" /\ phase # "absent" /\ ~Drain
    BY <1>1, <1>2, <2>2, SignalledImage DEF ProbeInv, ContainerKnown, Live, Shelled, Computing
  <2>3. ASSUME phase \in Live, NEW c, Exit(c), CodeMeans(c, launch)
        PROVE  ContainerKnown'
    BY <1>1, <2>2, <2>3, ExitKnown DEF Exit
  <2>4. CASE script \in {"sigterm", "stop"} /\ phase \in Live /\ Terminate
    <3>1. Exit("143") \/ UNCHANGED startVars
      BY <2>2, <2>4 DEF Terminate, Default
    <3>2. CodeMeans("143", launch)
      BY <2>4 DEF CodeMeans
    <3>3. QED
      BY <2>1, <2>3, <2>4, <3>1, <3>2
  <2>5. CASE script = "sigint" /\ phase \in Live /\ Interrupt
    <3>1. CodeMeans("130", launch) /\ CodeMeans("0", launch)
      BY <1>2, <2>2, <2>5, ImageIsAccepted DEF CodeMeans
    <3>2. CASE interrupted' = TRUE /\ UNCHANGED <<phase, launch, argv, runVars, stdin, code>>
      <4>1. CodeMeans(code, launch) => CodeMeans(code, launch)'
        BY <1>1, <3>2 DEF CodeMeans
      <4>2. Driven' /\ Targets(script)' = Targets(script)
        BY <1>1, SameScript
      <4>3. QED
        BY <1>1, <2>5, <3>2, <4>1, <4>2 DEF ProbeInv, ContainerKnown
    <3>3. \/ Exit("130") \/ Exit("0") \/ UNCHANGED startVars
          \/ interrupted' = TRUE /\ UNCHANGED <<phase, launch, argv, runVars, stdin, code>>
      BY <2>2, <2>5 DEF Interrupt, Default
    <3>4. QED
      BY <2>1, <2>3, <2>5, <3>1, <3>2, <3>3
  <2>6. QED
    BY <1>1, <2>1, <2>4, <2>5
<1>5. AnswerKnown'
  <2>1. script = "stop" => phase' # "absent"
    <3>1. Terminate => phase' \in {"exited", "draining"} \/ UNCHANGED startVars
      BY DEF Terminate, Drain, Default, Exit, Continue
    <3>2. UNCHANGED startVars => phase' = phase
      BY DEF startVars
    <3>3. QED
      BY <1>1, <3>1, <3>2 DEF ProbeInv, AnswerKnown
  <2>2. QED
    BY <1>1, <1>2, <2>1 DEF AnswerKnown
<1>6. /\ ReadKnown(seen', status', verdict) /\ tries' \in 0..Attempts /\ seen' \in Codes
      /\ status' \in {"none", "running", "exited"}
  BY <1>1, ProbesAssumption DEF ProbeInv, SeenKnown, ProbeTypeOK
<1>7. QED
  BY <1>1, <1>2, <1>3, <1>4, <1>5, <1>6, MoveOn

LEMMA GraceKeepsInv == ASSUME ProbeInv, Grace PROVE ProbeInv'
<1>1. /\ During /\ at + 1 < End /\ Driven /\ script = "stop"
      /\ UNCHANGED <<script, target, client, seen, status, verdict, failed, stray>>
      /\ at' = at + 1 /\ tries' = Attempts
  BY StepPlaces DEF Grace, ProbeInv, Proceed
<1>2. StartupInv' /\ ContainerKnown'
  <2>1. CASE UNCHANGED startVars
    BY <1>1, <2>1, StutterKeepsInv, ContainerStutter DEF ProbeInv, startVars
  <2>2. CASE phase \in Live /\ Kill
    <3>1. StartupInv'
      BY <2>2, SignalKeepsInv DEF ProbeInv, Signal
    <3>2. CodeMeans("137", launch) /\ phase # "absent"
      BY <1>1, <2>2 DEF CodeMeans, Live, Shelled, Computing
    <3>3. QED
      BY <1>1, <2>2, <3>1, <3>2, ExitKnown DEF Kill, Exit
  <2>3. QED
    BY <2>1, <2>2 DEF Grace
<1>3. AnswerKnown' /\ script \notin Attached
  <2>1. phase' = "exited"
    BY <1>1 DEF Grace, Kill, Exit, startVars, ProbeInv, ProbeTypeOK, StartupTypeOK, Phases, AnswerKnown
  <2>2. QED
    BY <1>1, <2>1 DEF AnswerKnown, Attached
<1>4. /\ ReadKnown(seen', status', verdict) /\ tries' \in 0..Attempts /\ seen' \in Codes
      /\ status' \in {"none", "running", "exited"}
  BY <1>1, ProbesAssumption DEF ProbeInv, SeenKnown, ProbeTypeOK
<1>5. QED
  BY <1>1, <1>2, <1>3, <1>4, MoveOn

(* While a script is at it, the container is the one it has started. *)
LEMMA DuringTarget ==
    ASSUME ProbeInv, During
    PROVE  /\ Driven /\ script \in Scripts /\ target \in Targets(script) /\ target # Nothing
           /\ phase # "absent" => launch = target
           /\ phase = "exited" => CodeMeans(code, target)
           /\ Inspected \in Codes
           /\ IF phase = "exited" THEN CodeMeans(Inspected, target) ELSE Inspected = "0"
<1>1. Driven /\ script \in Scripts /\ target \in Targets(script)
  BY Places DEF ProbeInv, TargetKnown, During
<1>2. target # Nothing
  BY <1>1, TargetIsLaunch
<1>3. phase # "absent" => launch = target
  BY <1>1, <1>2 DEF ProbeInv, ContainerKnown
<1>4. phase = "exited" => CodeMeans(code, target)
  BY <1>1, <1>3 DEF ProbeInv, ContainerKnown
<1>5. Inspected \in Codes
  BY DEF Inspected, Codes, ExitCodes, ProbeInv, StartupInv, StartupTypeOK
<1>6. IF phase = "exited" THEN CodeMeans(Inspected, target) ELSE Inspected = "0"
  BY <1>4 DEF Inspected
<1>7. QED
  BY <1>1, <1>2, <1>3, <1>4, <1>5, <1>6

(* A round of a loop, which takes no code of a container that is running,  *)
(* or a look at one that may be.                                           *)
LEMMA InspectKeepsInv == ASSUME ProbeInv, Poll \/ Inspect PROVE ProbeInv'
<1>1. /\ During /\ at + 1 < End /\ Driven /\ script \notin Attached
      /\ UNCHANGED <<script, target, client, verdict, failed, stray>> /\ UNCHANGED startVars
      /\ Poll => script \in {"sigterm", "sigint"}
      /\ Inspect => script = "live" \/ (script = "stop" /\ at = 5)
  BY StepPlaces DEF Poll, Inspect, ProbeInv
<1>2. (at' = at \/ at' = at + 1) /\ tries' \in 0..Attempts /\ (Inspect => at' = at + 1)
  BY ProbesAssumption DEF Poll, Inspect, Proceed, ProbeInv, ProbeTypeOK
<1>3. StartupInv' /\ ContainerKnown'
  BY <1>1, StutterKeepsInv, ContainerStutter DEF ProbeInv, startVars
<1>4. AnswerKnown'
  <2>1. script = "stop" => at' # 5 /\ phase' # "absent"
    BY <1>1, <1>2 DEF ProbeInv, AnswerKnown, startVars
  <2>2. QED
    BY <1>1, <2>1 DEF AnswerKnown, Attached
<1>5. /\ seen' \in Codes /\ status' \in {"none", "running", "exited"}
      /\ ReadKnown(seen', status', verdict)
  <2>1. CASE Poll
    <3>1. status' \in {"running", "exited"} /\ (status' = "exited" <=> phase = "exited")
          /\ seen' = IF status' = "exited" THEN Inspected ELSE "none"
      BY <2>1 DEF Poll, State
    <3>2. seen' \in Codes /\ CodeMeans(seen', target)
      BY <1>1, <3>1, DuringTarget DEF CodeMeans, Codes, ExitCodes
    <3>3. QED
      BY <1>1, <2>1, <3>1, <3>2 DEF ReadKnown
  <2>2. CASE Inspect /\ script = "live"
    <3>1. status' = (IF phase = "exited" THEN "exited" ELSE "running") /\ seen' = Inspected
      BY <2>2 DEF Inspect, State
    <3>2. QED
      BY <1>1, <2>2, <3>1, DuringTarget DEF ReadKnown, OfRunning
  <2>3. CASE Inspect /\ script = "stop" /\ at = 5
    <3>1. phase = "exited" /\ status = "none"
      BY <1>1, <2>3 DEF ProbeInv, AnswerKnown, SeenKnown, ReadKnown
    <3>2. seen' = Inspected /\ status' = "none"
      BY <2>3, <3>1 DEF Inspect
    <3>3. QED
      BY <1>1, <3>1, <3>2, DuringTarget DEF ReadKnown
  <2>4. QED
    BY <1>1, <2>1, <2>2, <2>3
<1>6. QED
  BY <1>1, <1>2, <1>3, <1>4, <1>5, MoveOn

-----------------------------------------------------------------------------
(* Attached scripts.                                                       *)

(* Closing the input leaves the container running. *)
LEMMA CloseEndKnown ==
    ASSUME ProbeInv, CloseEnd, UNCHANGED <<script, target>>, script \in Attached
    PROVE  /\ StartupInv' /\ ContainerKnown'
           /\ UNCHANGED <<phase, launch, code>>
<1>1. CASE UNCHANGED startVars
  BY <1>1, StutterKeepsInv, ContainerStutter DEF ProbeInv, startVars
<1>2. CASE CloseInput
  BY <1>2, CloseInputKeepsInv, ContainerStutter DEF ProbeInv, CloseInput
<1>3. QED
  BY <1>1, <1>2 DEF CloseEnd

(* A script that gives up leaves its container. *)
LEMMA KillClientKeepsInv ==
    ASSUME ProbeInv, KillClient, During, script \in Attached
    PROVE  ProbeInv'
<1>1. /\ Driven /\ CloseEnd /\ client' = "killed" /\ at' = End /\ verdict' = "fail"
      /\ tries' = Attempts /\ UNCHANGED <<script, target, seen, status, failed, stray>>
  BY DEF KillClient, Conclude, During
<1>2. StartupInv' /\ ContainerKnown'
  BY <1>1, CloseEndKnown
<1>3. SeenKnown' /\ seen' \in Codes /\ verdict' \in Verdicts /\ VerdictIsEarned'
      /\ (target' = Nothing => seen' = "none") /\ stray' \in BOOLEAN
      /\ (stray' => script \in {"http", "rate"})
  BY <1>1 DEF ProbeInv, SeenKnown, ReadKnown, OfRunning, TargetKnown, ProbeTypeOK, Verdicts,
              VerdictIsEarned, VerdictKnown, CodeMeans
<1>4. QED
  BY <1>1, <1>2, <1>3, Conclusion

(* The next step of a session that goes on has had an answer before it. *)
LEMMA AnswerMoves ==
    ASSUME ProbeInv, During, NEW kind, Step(kind), UNCHANGED <<script, phase, code>>,
           script \in Attached,
           at' = at + 1, kind = "ask" => phase = "serving"
    PROVE  AnswerKnown'
<1>1. /\ script \in {"session", "conformance"} /\ at = RunAt(script) + 1 => kind = "ask"
      /\ at \in 1..End /\ End \in 4..7 /\ RunAt(script) \in {1, 2} /\ RunAt(script) < at
  BY StepPlaces, Places DEF ProbeInv, During
<1>2. at = RunAt(script) + 1 \/ at > RunAt(script) + 1
  BY <1>1
<1>3. QED
  BY <1>1, <1>2 DEF ProbeInv, AnswerKnown, Attached

LEMMA AskKeepsInv == ASSUME ProbeInv, Ask PROVE ProbeInv'
<1>1. PICK kind \in {"ask", "try"} :
          /\ Step(kind)
          /\ \/ /\ phase = "serving" \/ kind = "try"
                /\ Proceed
                /\ UNCHANGED <<startVars, script, target, client, seen, status, verdict, failed, stray>>
             \/ KillClient
  BY DEF Ask
<1>2. script \in Attached /\ During /\ at + 1 < End /\ Driven
  BY <1>1, StepPlaces DEF ProbeInv
<1>3. CASE /\ phase = "serving" \/ kind = "try"
           /\ Proceed
           /\ UNCHANGED <<startVars, script, target, client, seen, status, verdict, failed, stray>>
  <2>1. at' = at + 1 /\ tries' \in 0..Attempts
    BY <1>3, ProbesAssumption DEF Proceed
  <2>2. StartupInv' /\ ContainerKnown' /\ UNCHANGED <<phase, code>>
    BY <1>3, StutterKeepsInv, ContainerStutter DEF ProbeInv, startVars
  <2>3. AnswerKnown'
    BY <1>1, <1>2, <1>3, <2>1, <2>2, AnswerMoves
  <2>4. seen' \in Codes /\ status' \in {"none", "running", "exited"}
        /\ ReadKnown(seen', status', verdict)
    BY <1>3 DEF ProbeInv, SeenKnown, ProbeTypeOK
  <2>5. phase' # "absent"
    BY <1>2, <2>2 DEF ProbeInv, ClientKnown
  <2>6. QED
    BY <1>2, <1>3, <2>1, <2>2, <2>3, <2>4, <2>5, MoveOn
<1>4. QED
  BY <1>1, <1>2, <1>3, KillClientKeepsInv

LEMMA CloseKeepsInv == ASSUME ProbeInv, Close PROVE ProbeInv'
<1>1. script \in Attached /\ During /\ at + 1 < End /\ Driven /\ Step("close")
  BY StepPlaces DEF ProbeInv, Close
<1>2. /\ CloseEnd /\ at' = at + 1 /\ tries' \in 0..Attempts
      /\ UNCHANGED <<script, target, client, seen, status, verdict, failed, stray>>
  BY ProbesAssumption DEF Close, Proceed
<1>3. StartupInv' /\ ContainerKnown' /\ UNCHANGED <<phase, code>>
  BY <1>1, <1>2, CloseEndKnown
<1>4. AnswerKnown'
  BY <1>1, <1>2, <1>3, AnswerMoves
<1>5. seen' \in Codes /\ status' \in {"none", "running", "exited"}
      /\ ReadKnown(seen', status', verdict)
  BY <1>2 DEF ProbeInv, SeenKnown, ProbeTypeOK
<1>6. phase' # "absent"
  BY <1>1, <1>3 DEF ProbeInv, ClientKnown
<1>7. QED
  BY <1>1, <1>2, <1>3, <1>4, <1>5, <1>6, MoveOn

(* A session passes when its container has ended well: it has had answers  *)
(* by then, so the code can be no other.                                   *)
LEMMA AwaitExitKeepsInv == ASSUME ProbeInv, AwaitExit PROVE ProbeInv'
<1>1. script \in Attached /\ During /\ Driven /\ Step("wait")
  BY StepPlaces DEF ProbeInv, AwaitExit
<1>2. /\ phase = "exited" /\ seen' = code /\ Remove /\ client' = "none"
      /\ at' = End /\ verdict' = Judge(code) /\ tries' = Attempts
      /\ UNCHANGED <<script, target, status, failed, stray>>
  BY DEF AwaitExit, Conclude
<1>3. CodeMeans(code, target) /\ target # Nothing /\ seen' \in Codes
  BY <1>1, <1>2, DuringTarget DEF ProbeInv, StartupInv, StartupTypeOK, Codes
<1>4. script = "session" => code = "0"
  <2>1. SUFFICES ASSUME script = "session"
                 PROVE  code = "0"
    OBVIOUS
  <2>2. /\ at = RunAt(script) + 1 => "wait" = "ask"
        /\ at \in 1..End /\ End \in 4..7 /\ RunAt(script) \in {1, 2} /\ RunAt(script) < at
    BY <1>1, <2>1, StepPlaces, Places DEF ProbeInv, During
  <2>3. at > RunAt(script) + 1
    BY <2>2
  <2>4. QED
    BY <1>1, <1>2, <2>1, <2>3 DEF ProbeInv, AnswerKnown
<1>5. verdict' \in {"pass", "fail", "reported"} /\ (verdict' = "pass" => code = "0")
  <2>1. CASE script \in {"conformance", "smoke_stdio"}
    BY <1>2, <2>1 DEF Judge
  <2>2. CASE script = "session"
    BY <1>2, <1>4, <2>2 DEF Judge
  <2>3. CASE script \notin {"conformance", "smoke_stdio", "session"}
    BY <1>2, <2>3 DEF Judge
  <2>4. QED
    BY <2>1, <2>2, <2>3
<1>6. VerdictIsEarned'
  BY <1>1, <1>2, <1>3, <1>5 DEF VerdictIsEarned, CodeMeans
<1>7. SeenKnown' /\ stray' \in BOOLEAN /\ (stray' => script \in {"http", "rate"})
  <2>1. status = "none"
    BY <1>1 DEF ProbeInv, SeenKnown, ReadKnown, Attached
  <2>2. QED
    BY <1>2, <1>3, <2>1
    DEF SeenKnown, ReadKnown, CodeMeans, ProbeInv, ProbeTypeOK, VerdictKnown
<1>8. StartupInv' /\ ContainerKnown' /\ phase' = "absent"
  BY <1>2, RemoveKeepsInv, RemoveKnown DEF ProbeInv
<1>9. QED
  BY <1>1, <1>2, <1>3, <1>5, <1>6, <1>7, <1>8, Conclusion DEF Verdicts

LEMMA ExpireKeepsInv == ASSUME ProbeInv, Expire PROVE ProbeInv'
BY StepPlaces, KillClientKeepsInv DEF ProbeInv, Expire

-----------------------------------------------------------------------------
(* HTTP scripts.                                                           *)

(* What a script concludes before it cleans up. *)
LEMMA Decision ==
    ASSUME ProbeInv, During, script \in {"http", "rate", "smoke_http", "smoke_loopback"},
           at' = End - 1, tries' = Attempts,
           UNCHANGED <<startVars, script, target, client, status, failed, stray>>,
           seen' \in Codes, SeenKnown', verdict' \in {"pass", "fail"},
           verdict' = "pass" =>
               \/ Verdict(target) = "accepted" /\ Reach(target) # "pipe"
               \/ script = "http" /\ target.token = "unset" /\ seen' = "1"
    PROVE  ProbeInv'
<1>1. /\ Driven /\ at \in 1..End /\ End \in 4..7 /\ RunAt(script) \in {1, 2}
      /\ RunAt(script) + 2 < End
  BY Places DEF ProbeInv, During
<1>2. /\ at' \in 1..End /\ RunAt(script) < at' /\ at' < End /\ at' # 1 /\ at' # End
      /\ ~(at' <= RunAt(script))
  BY <1>1
<1>3. /\ End' = End /\ Driven' /\ ~Before' /\ During' /\ ~Ended'
      /\ Targets(script)' = Targets(script)
  BY <1>1, <1>2, SameScript
<1>4. StartupInv' /\ ContainerKnown'
  BY StutterKeepsInv, ContainerStutter DEF ProbeInv, startVars
<1>5. ProbeTypeOK'
  BY <1>2, <1>3, <1>4, ProbesAssumption DEF ProbeInv, StartupInv, ProbeTypeOK, Verdicts
<1>6. TargetKnown'
  BY <1>3, DuringTarget DEF TargetKnown
<1>7. script \notin Attached /\ script # "stop"
  BY DEF Attached
<1>8. ClientKnown' /\ NameKnown'
  BY <1>2, <1>3, <1>7 DEF ClientKnown, NameKnown
<1>9. AnswerKnown'
  BY <1>7 DEF AnswerKnown, Attached
<1>10. VerdictKnown'
  BY <1>3, <1>7 DEF ProbeInv, VerdictKnown, VerdictIsEarned
<1>11. QED
  BY <1>4, <1>5, <1>6, <1>8, <1>9, <1>10 DEF ProbeInv

(* The smoke test fails, and leaves its container. *)
LEMMA SmokeFails ==
    ASSUME ProbeInv, During, script \in Smoke \ Attached, Conclude("fail"),
           UNCHANGED <<startVars, script, target, client, seen, status, failed, stray>>
    PROVE  ProbeInv'
<1>1. Driven /\ at' = End /\ verdict' = "fail" /\ tries' = Attempts
  BY DEF Conclude, During
<1>2. StartupInv' /\ ContainerKnown'
  BY StutterKeepsInv, ContainerStutter DEF ProbeInv, startVars
<1>3. /\ SeenKnown' /\ seen' \in Codes /\ verdict' \in Verdicts /\ VerdictIsEarned'
      /\ client' \in {"none", "attached", "killed"}
      /\ target' = Nothing => seen' = "none"
      /\ stray' \in BOOLEAN /\ (stray' => script \in {"http", "rate"})
  BY <1>1 DEF ProbeInv, SeenKnown, ReadKnown, OfRunning, TargetKnown, ProbeTypeOK, Verdicts,
              VerdictIsEarned, VerdictKnown, CodeMeans
<1>4. QED
  BY <1>1, <1>2, <1>3, Conclusion

LEMMA WaitForKeepsInv == ASSUME ProbeInv, WaitFor PROVE ProbeInv'
<1>1. /\ script \in {"http", "rate", "smoke_http", "smoke_loopback"} /\ During /\ at = 2 /\ End = 5
      /\ UNCHANGED startVars /\ UNCHANGED <<script, target, client, status, failed, stray>>
  BY StepPlaces DEF ProbeInv, WaitFor
<1>2. script \notin Attached /\ script # "stop"
  BY <1>1 DEF Attached
<1>3. CASE /\ Proceed \/ (tries > 0 /\ tries' = tries - 1 /\ UNCHANGED at)
           /\ UNCHANGED <<seen, verdict>>
  <2>1. (at' = at \/ at' = at + 1) /\ tries' \in 0..Attempts /\ at + 1 < End
    BY <1>1, <1>3, ProbesAssumption DEF Proceed, ProbeInv, ProbeTypeOK
  <2>2. StartupInv' /\ ContainerKnown' /\ AnswerKnown'
    BY <1>1, StutterKeepsInv, ContainerStutter DEF ProbeInv, startVars, AnswerKnown
  <2>3. seen' \in Codes /\ status' \in {"none", "running", "exited"}
        /\ ReadKnown(seen', status', verdict)
    BY <1>1, <1>3 DEF ProbeInv, SeenKnown, ProbeTypeOK
  <2>4. QED
    BY <1>1, <1>2, <1>3, <2>1, <2>2, <2>3, MoveOn
<1>4. CASE script \in Smoke /\ Conclude("fail") /\ UNCHANGED seen
  BY <1>1, <1>2, <1>4, SmokeFails
<1>5. CASE /\ seen' = IF script = "http" THEN Inspected ELSE seen
           /\ \/ verdict' = "fail"
              \/ script = "http" /\ target.token = "unset" /\ seen' = "1" /\ verdict' = "pass"
           /\ at' = End - 1
           /\ tries' = Attempts
  <2>1. status = "none"
    BY <1>1 DEF ProbeInv, SeenKnown, ReadKnown
  <2>2. seen' \in Codes /\ SeenKnown'
    <3>1. CASE script = "http"
      BY <1>1, <1>5, <2>1, <3>1, DuringTarget DEF SeenKnown, ReadKnown, OfRunning, CodeMeans
    <3>2. CASE script # "http"
      BY <1>1, <1>5, <2>1, <3>2
      DEF ProbeInv, ProbeTypeOK, SeenKnown, ReadKnown, OfRunning, CodeMeans
    <3>3. QED
      BY <3>1, <3>2
  <2>3. /\ verdict' \in {"pass", "fail"}
        /\ verdict' = "pass" => script = "http" /\ target.token = "unset" /\ seen' = "1"
    BY <1>5
  <2>4. QED
    BY <1>1, <1>2, <1>5, <2>2, <2>3, Decision
<1>6. QED
  BY <1>3, <1>4, <1>5 DEF WaitFor

(* A container that answers over HTTP is the one that was started, and has *)
(* been accepted.                                                          *)
LEMMA ServingTarget ==
    ASSUME ProbeInv, During, script \in {"http", "rate", "smoke_http", "smoke_loopback"},
           phase = "serving"
    PROVE  Verdict(target) = "accepted" /\ Reach(target) # "pipe"
<1>1. target \in Targets(script) /\ launch = target
  BY DuringTarget
<1>2. phase \in Dispatched /\ phase \in Prepared
  BY DEF Prepared, Registered, Checked, Parsed, Dispatched, Computing
<1>3. QED
  BY <1>1, <1>2, LaunchOfPhase, HttpTargets DEF ProbeInv

LEMMA AnswersKeepInv == ASSUME ProbeInv, CheckAnswers \/ Spend PROVE ProbeInv'
<1>1. /\ script \in {"http", "rate", "smoke_http", "smoke_loopback"} /\ During /\ at = 3 /\ End = 5
      /\ UNCHANGED startVars /\ UNCHANGED <<script, target, client, seen, status, failed, stray>>
  BY StepPlaces DEF ProbeInv, CheckAnswers, Spend
<1>2. script \notin Attached
  BY <1>1 DEF Attached
<1>3. CASE script \in Smoke /\ Conclude("fail")
  BY <1>1, <1>2, <1>3, SmokeFails
<1>4. CASE Proceed /\ verdict' \in {"pass", "fail"} /\ (verdict' = "pass" => phase = "serving")
  <2>1. at' = End - 1 /\ tries' = Attempts
    BY <1>1, <1>4 DEF Proceed
  <2>2. seen' \in Codes /\ SeenKnown'
    <3>1. verdict = "none"
      BY <1>1, OpenVerdict DEF During
    <3>2. QED
      BY <1>1, <3>1 DEF ProbeInv, SeenKnown, ReadKnown, OfRunning, CodeMeans, ProbeTypeOK
  <2>3. verdict' = "pass" => Verdict(target) = "accepted" /\ Reach(target) # "pipe"
    BY <1>1, <1>4, ServingTarget
  <2>4. QED
    BY <1>1, <1>2, <1>4, <2>1, <2>2, <2>3, Decision
<1>5. QED
  BY <1>3, <1>4 DEF CheckAnswers, Spend, Satisfied

(* The name an earlier run has left taken is the smoke test's. *)
LEMMA AgainKeepsInv == ASSUME ProbeInv, Again PROVE ProbeInv'
<1>1. /\ Driven /\ Ended /\ at' = 1 /\ target' = Nothing /\ client' = "none" /\ seen' = "none"
      /\ status' = "none" /\ verdict' = "none" /\ failed' = (failed \/ verdict = "fail")
      /\ UNCHANGED <<script, tries, stray>> /\ UNCHANGED startVars
      /\ script \in Attached => phase = "absent"
  BY DEF Again, Ended, Driven
<1>2. End \in 4..7 /\ RunAt(script) \in {1, 2}
  BY <1>1, Places DEF ProbeInv
<1>3. /\ at' \in 1..End /\ at' <= RunAt(script) /\ ~(RunAt(script) < at') /\ at' < End
      /\ at' # End /\ at' # 2
  BY <1>1, <1>2
<1>4. /\ End' = End /\ Driven' /\ Before' /\ ~During' /\ ~Ended'
      /\ Targets(script)' = Targets(script)
  BY <1>1, <1>3, SameScript
<1>5. StartupInv' /\ phase' = phase
  BY <1>1, StutterKeepsInv DEF ProbeInv, startVars
<1>6. ProbeTypeOK'
  BY <1>1, <1>3, <1>4, <1>5 DEF ProbeInv, StartupInv, ProbeTypeOK, Codes, ExitCodes, Verdicts
<1>7. TargetKnown' /\ SeenKnown' /\ VerdictKnown'
  BY <1>1, <1>4
  DEF ProbeInv, TargetKnown, SeenKnown, ReadKnown, OfRunning, CodeMeans, VerdictKnown, VerdictIsEarned
<1>8. ContainerKnown'
  <2>1. CodeMeans(code, launch) => CodeMeans(code, launch)'
    BY <1>1 DEF CodeMeans, startVars
  <2>2. QED
    BY <1>1, <1>4, <2>1 DEF ProbeInv, ContainerKnown, startVars
<1>9. ClientKnown' /\ AnswerKnown'
  BY <1>1, <1>4, <1>5 DEF ClientKnown, AnswerKnown
<1>10. NameKnown'
  BY <1>1, <1>3, <1>4, <1>5 DEF ProbeInv, NameKnown
<1>11. QED
  BY <1>5, <1>6, <1>7, <1>8, <1>9, <1>10 DEF ProbeInv

-----------------------------------------------------------------------------
(* The theorems.                                                           *)

LEMMA ProbeInitInv == ProbeInit => ProbeInv
<1> SUFFICES ASSUME ProbeInit
             PROVE  ProbeInv
  OBVIOUS
<1>1. /\ StartupInit /\ script \in Scripts \cup {"operator"} /\ at = 1 /\ target = Nothing
      /\ client = "none" /\ tries = Attempts /\ seen = "none" /\ verdict = "none" /\ failed = FALSE
      /\ status = "none" /\ stray = FALSE
  BY DEF ProbeInit
<1>2. StartupInv /\ phase = "absent" /\ stdin = "open" /\ ~interrupted
  BY <1>1, StartupInitInv DEF StartupInit
<1>3. 1 \in 1..End /\ (Driven => 1 <= RunAt(script) /\ End # 1 /\ ~(RunAt(script) < 1))
  <2>1. CASE script = "operator"
    BY <2>1 DEF End, Length, Driven
  <2>2. CASE script \in Scripts
    <3> DEFINE length == Len(Programs[script])
               start == RunAt(script)
    <3>1. length \in 3..6 /\ start \in {1, 2}
      BY <2>2, ProgramShape
    <3>2. script # "operator"
      BY <2>2, ScriptNames
    <3>3. End = length + 1
      BY <3>2 DEF End, Length
    <3> HIDE DEF length, start
    <3>4. 1 \in 1..End /\ End # 1 /\ 1 <= start /\ ~(start < 1)
      BY <3>1, <3>3
    <3>5. QED
      BY <3>4 DEF start
  <2>3. QED
    BY <1>1, <2>1, <2>2
<1>4. ProbeTypeOK
  <2>1. Attempts \in 0..Attempts
    BY ProbesAssumption
  <2>2. "none" \in Codes /\ "none" \in Verdicts
    BY DEF Codes, ExitCodes, Verdicts
  <2>3. QED
    BY <1>1, <1>2, <1>3, <2>1, <2>2 DEF StartupInv, ProbeTypeOK
<1>5. ~During /\ ~Ended
  BY <1>1, <1>3 DEF During, Ended, Driven
<1>6. TargetKnown /\ SeenKnown /\ VerdictKnown
  BY <1>1, <1>5
  DEF TargetKnown, SeenKnown, ReadKnown, OfRunning, CodeMeans, VerdictKnown, VerdictIsEarned
<1>7. ContainerKnown /\ ClientKnown /\ NameKnown /\ AnswerKnown
  BY <1>1, <1>2, <1>5 DEF ContainerKnown, ClientKnown, NameKnown, AnswerKnown
<1>8. QED
  BY <1>2, <1>4, <1>6, <1>7 DEF ProbeInv

LEMMA ScriptStepKeepsInv == ASSUME ProbeInv, ScriptStep PROVE ProbeInv'
BY ContractKeepsInv, RunKeepsInv, RmKeepsInv, SendSignalKeepsInv, GraceKeepsInv, InspectKeepsInv,
   AskKeepsInv, CloseKeepsInv, AwaitExitKeepsInv, ExpireKeepsInv, WaitForKeepsInv,
   AnswersKeepInv DEF ScriptStep

LEMMA ProbeNextInv == ProbeInv /\ [ProbeNext]_allVars => ProbeInv'
<1> SUFFICES ASSUME ProbeInv, [ProbeNext]_allVars
             PROVE  ProbeInv'
  OBVIOUS
<1>1. CASE Operator
  <2>1. StartupInv' /\ ~Driven /\ UNCHANGED probeVars
    BY <1>1, StartupNextInv DEF Operator, ProbeInv, Driven
  <2>2. QED
    BY <2>1, OperatorKeepsInv
<1>2. CASE UNCHANGED allVars
  <2>1. StartupInv' /\ UNCHANGED probeVars /\ UNCHANGED startVars
    BY <1>2, StutterKeepsInv DEF allVars, ProbeInv
  <2>2. /\ ProbeTypeOK' /\ TargetKnown' /\ SeenKnown' /\ VerdictKnown'
        /\ Driven' = Driven /\ Before' = Before /\ During' = During /\ Ended' = Ended
    BY <2>1, ProbeVarsStutter DEF StartupInv
  <2>3. UNCHANGED <<script, at, target, client, verdict, failed, phase, launch, stdin, interrupted, code>>
    BY <2>1 DEF probeVars, startVars
  <2>4. ContainerKnown'
    BY <2>3, ContainerStutter
  <2>5. ClientKnown' /\ NameKnown'
    BY <2>2, <2>3 DEF ProbeInv, ClientKnown, NameKnown
  <2>6. AnswerKnown'
    BY <2>2, <2>3, SameScript DEF ProbeInv, AnswerKnown
  <2>7. QED
    BY <2>1, <2>2, <2>4, <2>5, <2>6 DEF ProbeInv
<1>3. QED
  BY <1>1, <1>2, ContainerKeepsInv, ScriptStepKeepsInv, TidyKeepsInv, AgainKeepsInv
  DEF ProbeNext

(* For every set of launches and any number of rounds: a script and its    *)
(* container never get out of step.                                        *)
THEOREM ProbeInvariance == ProbeSpec => []ProbeInv
BY ProbeInitInv, ProbeNextInv, PTL DEF ProbeSpec

(* The scripts and the container keep their types. *)
THEOREM ProbeTypes == ProbeSpec => []ProbeTypeOK
<1>1. ProbeInv => ProbeTypeOK
  BY DEF ProbeInv
<1>2. QED
  BY <1>1, ProbeInvariance, PTL

(* An exit code that a script reports tells what happened to the container *)
(* it started, however early its signals and its end of input came, but    *)
(* for the 0 of a container that was still running: that is reported with  *)
(* the status, or with a failure.                                          *)
THEOREM CodesAreTrue == ProbeSpec => []CodeIsTrue
<1>1. ProbeInv => CodeIsTrue
  BY DEF ProbeInv, SeenKnown, ReadKnown, OfRunning, CodeMeans, CodeIsTrue
<1>2. QED
  BY <1>1, ProbeInvariance, PTL

(* A script only passes for what it set out to show. *)
THEOREM VerdictsAreEarned == ProbeSpec => []VerdictIsEarned
<1>1. ProbeInv => VerdictIsEarned
  BY DEF ProbeInv, VerdictKnown
<1>2. QED
  BY <1>1, ProbeInvariance, PTL

(* What is left behind, and a name that is refused, are the doing of a     *)
(* script that has failed, or of a port that was taken.                    *)
THEOREM LeftoversAreCaused == ProbeSpec => []LeftoversHaveCause
<1>1. ProbeInv => LeftoversHaveCause
  <2> SUFFICES ASSUME ProbeInv
               PROVE  LeftoversHaveCause
    OBVIOUS
  <2>1. /\ verdict = "raised" => (failed /\ script \in Smoke) \/ script \in Published
        /\ stray => script \in {"http", "rate"}
    BY DEF ProbeInv, VerdictKnown
  <2>2. Ended => Driven
    BY DEF Ended, Driven
  <2>3. CASE script \in Attached
    BY <2>1, <2>3 DEF ProbeInv, ClientKnown, LeftoversHaveCause
  <2>4. CASE script \notin Attached
    BY <2>1, <2>2, <2>4 DEF ProbeInv, NameKnown, LeftoversHaveCause
  <2>5. QED
    BY <2>3, <2>4
<1>2. QED
  BY <1>1, ProbeInvariance, PTL

(* Whatever a script does to a container is what can happen to one: all    *)
(* that is proved of the start-up holds under the scripts.                 *)
THEOREM ProbesAreStarts == ProbeSpec => StartsAsPromised
<1>1. ProbeInv => StartupInv
  BY DEF ProbeInv
<1>2. ProbeInit => StartupInit
  BY DEF ProbeInit
<1>3. ProbeInv /\ ProbeInv' /\ [ProbeNext]_allVars => [StartupNext]_startVars
  <2> SUFFICES ASSUME ProbeInv, ProbeNext
               PROVE  [StartupNext]_startVars
    BY DEF allVars
  <2>1. CASE Run
    <3>1. CASE phase = "absent" /\ phase' = "shell"
      <4>1. script \in Scripts /\ target' \in Targets(script) /\ launch' = target'
        BY <2>1, <3>1, StepPlaces, Places DEF Run, ProbeInv, startVars
      <4>2. Start
        BY <2>1, <3>1, <4>1, TargetIsLaunch DEF Run, Start, startVars
      <4>3. QED
        BY <4>2 DEF StartupNext
    <3>2. QED
      BY <2>1, <3>1 DEF Run
  <2>2. CASE SendSignal \/ Grace
    BY <2>2 DEF SendSignal, Grace, StartupNext, Signal
  <2>3. CASE Rm \/ AwaitExit \/ AutoRemove \/ CleanUp
    BY <2>3 DEF Rm, AwaitExit, AutoRemove, CleanUp, StartupNext
  <2>4. CASE Ask \/ Close \/ Expire
    BY <2>4 DEF Ask, Close, Expire, KillClient, CloseEnd, StartupNext
  <2>5. CASE Contract \/ Poll \/ Inspect \/ WaitFor \/ CheckAnswers \/ Spend \/ Again
    BY <2>5 DEF Contract, Poll, Inspect, WaitFor, CheckAnswers, Spend, Again
  <2>6. CASE Operator \/ Container
    BY <2>6 DEF Operator, Container, StartupNext
  <2>7. QED
    BY <2>1, <2>2, <2>3, <2>4, <2>5, <2>6 DEF ProbeNext, ScriptStep
<1>4. QED
  BY <1>1, <1>2, <1>3, StartsInit, StepPromised, ProbeInvariance, PTL
  DEF ProbeSpec, StartsAsPromised, Promise!Spec

(* Under the scripts too, nobody reaches the server from the network       *)
(* without the operator's token.                                           *)
THEOREM ProbesStayAuthenticated == ProbeSpec => []RemoteIsAuthenticated
<1>1. ProbeInv => RemoteIsAuthenticated
  BY InvImpliesRemote DEF ProbeInv
<1>2. QED
  BY <1>1, ProbeInvariance, PTL

(* And the settings in force are the environment's. *)
THEOREM ProbesStayInForce == ProbeSpec => []SettingsInForce
<1>1. ProbeInv => SettingsInForce
  BY InvImpliesInForce DEF ProbeInv
<1>2. QED
  BY <1>1, ProbeInvariance, PTL

=============================================================================
