----------------------------- MODULE StartupProofs -----------------------------
(***************************************************************************)
(* Proofs about Startup: for every set of launches.                        *)
(***************************************************************************)
EXTENDS Startup, TLAPS

(* How far a container is when it has been given its arguments, when they  *)
(* have been parsed, checked, the tools registered, and the host accepted. *)
Dispatched == Computing \cup {"serving", "draining"}
Parsed == Dispatched \ {"importing", "parsing"}
Checked == Parsed \ {"checking"}
Registered == Checked \ {"registering"}
Prepared == Registered \ {"running"}
Serving == {"serving", "draining"}

(* What each phase knows of the launch.                                    *)
LaunchKnown ==
    /\ phase # "absent" => launch \in Launches
    /\ phase \in Dispatched => Transport(launch) # "unknown" /\ argv = CommandLine(launch)

ParseKnown ==
    phase \in Parsed =>
        /\ ~argv.stray
        /\ argv.port # "malformed"
        /\ ~(argv.port = "unset" /\ Malformed(PortText(launch)))

CheckKnown ==
    phase \in Checked => ~Unreadable(launch) /\ ~OutOfRange(launch, argv)

SettingsKnown ==
    /\ phase \in {"parsing", "checking"} =>
           settings = IF Unreadable(launch) THEN "default" ELSE FromEnv(launch)
    /\ phase \in Checked => settings = FromEnv(launch)

TakenKnown ==
    /\ phase = "absent" => \A r \in Readers : taken[r] = "none"
    /\ phase \in Live =>
           \A r \in Readers \ {"logging"} : taken[r] \in {"none", FromEnv(launch)}
    /\ phase \in Prepared => taken["logging"] = FromEnv(launch)

RegisterKnown == phase \in Registered => registry /\ advertised = Catalogue

ServeKnown ==
    /\ phase \in Prepared => ~Unsafe(launch, argv)
    /\ phase \notin Serving => bound = "none"
    /\ phase \in Serving /\ argv.mode = "stdio" => phase = "serving" /\ bound = "none"
    /\ phase \in Serving /\ argv.mode # "stdio" => bound = argv.host /\ auth = HasToken(launch)

StartupInv ==
    /\ StartupTypeOK
    /\ LaunchKnown
    /\ ParseKnown
    /\ CheckKnown
    /\ SettingsKnown
    /\ TakenKnown
    /\ RegisterKnown
    /\ ServeKnown

-----------------------------------------------------------------------------
(* The command line.                                                       *)

(* The entrypoint finds the transport the operator asked for.              *)
LEMMA TransportAsAsked ==
    ASSUME NEW l \in Launch
    PROVE  /\ Transport(l) = AskedTransport(l)
           /\ Transport(l) \in Transports \cup {"unknown"}
BY DEF Launch, Transport, AskedTransport, Transports

(* What it passes on has the types of the options. *)
LEMMA CommandLineType ==
    ASSUME NEW l \in Launch
    PROVE  CommandLine(l) \in Arguments
<1> DEFINE t == Transport(l)
<1>1. t \in Transports \cup {"unknown"}
  BY TransportAsAsked
<1>2. /\ l.mode \in Modes \cup {"none"} /\ l.host \in Hosts \cup {"none"}
      /\ l.PORT \in Numbers /\ l.remote \in BOOLEAN
  BY DEF Launch
<1> HIDE DEF t
<1>3. Override(l.mode, IF t = "stdio" THEN "stdio" ELSE "streamable-http") \in Modes
  BY <1>2 DEF Override, Modes
<1>4. Override(l.host, IF t = "http" THEN "remote" ELSE "loopback") \in Hosts
  BY <1>2 DEF Override, Hosts
<1>5. (CASE t = "stdio" -> "unset"
         [] t # "stdio" /\ l.PORT \in {"unset", "empty"} -> "valid"
         [] t # "stdio" /\ l.PORT \notin {"unset", "empty"} -> l.PORT) \in Numbers
  BY <1>2 DEF Numbers
<1>6. QED
  BY <1>2, <1>3, <1>4, <1>5 DEF CommandLine, Arguments, t

(* The arguments, option by option. *)
LEMMA CommandLineFields ==
    ASSUME NEW l \in Launch
    PROVE  LET t == Transport(l)
               args == CommandLine(l)
           IN  /\ args.mode = Override(l.mode, IF t = "stdio" THEN "stdio" ELSE "streamable-http")
               /\ args.host = Override(l.host, IF t = "http" THEN "remote" ELSE "loopback")
               /\ t = "stdio" => args.port = "unset"
               /\ t # "stdio" /\ l.PORT \in {"unset", "empty"} => args.port = "valid"
               /\ t # "stdio" /\ l.PORT \notin {"unset", "empty"} => args.port = l.PORT
               /\ args.remote = (l.remote \/ t = "http")
               /\ args.stray = (l.positional = "stray")
<1> DEFINE t == Transport(l)
           args == CommandLine(l)
           port == CASE t = "stdio" -> "unset"
                     [] t # "stdio" /\ l.PORT \in {"unset", "empty"} -> "valid"
                     [] t # "stdio" /\ l.PORT \notin {"unset", "empty"} -> l.PORT
<1>1. args = [mode |-> Override(l.mode, IF t = "stdio" THEN "stdio" ELSE "streamable-http"),
              host |-> Override(l.host, IF t = "http" THEN "remote" ELSE "loopback"),
              port |-> port,
              remote |-> l.remote \/ t = "http",
              stray |-> l.positional = "stray"]
  BY DEF CommandLine
<1>2. /\ t = "stdio" => port = "unset"
      /\ t # "stdio" /\ l.PORT \in {"unset", "empty"} => port = "valid"
      /\ t # "stdio" /\ l.PORT \notin {"unset", "empty"} => port = l.PORT
  OBVIOUS
<1> HIDE DEF t, args, port
<1>3. QED
  BY <1>1, <1>2 DEF t, args

(* A transport is asked for over HTTP exactly when the arguments say so,   *)
(* and where it is to be reached is the host in them.                      *)
LEMMA ReachAsArgued ==
    ASSUME NEW l \in Launch, Transport(l) # "unknown"
    PROVE  LET args == CommandLine(l)
           IN  /\ AsksForHttp(l) <=> args.mode \in HttpModes
               /\ AsksForRemote(l) <=> args.mode \in HttpModes /\ args.host = "remote"
               /\ args.mode = "stdio" => Reach(l) = "pipe"
               /\ args.mode # "stdio" => Reach(l) = args.host
<1> DEFINE t == Transport(l)
           args == CommandLine(l)
<1>1. t = AskedTransport(l) /\ t \in Transports
  BY TransportAsAsked
<1>2. /\ args.mode = Override(l.mode, IF t = "stdio" THEN "stdio" ELSE "streamable-http")
      /\ args.host = Override(l.host, IF t = "http" THEN "remote" ELSE "loopback")
  BY CommandLineFields
<1>3. l.mode \in Modes \cup {"none"} /\ l.host \in Hosts \cup {"none"}
  BY DEF Launch
<1> HIDE DEF t, args
<1>4. AsksForHttp(l) <=> args.mode \in HttpModes
  BY <1>1, <1>2, <1>3 DEF AsksForHttp, Override, HttpModes, Modes, Transports
<1>5. AsksForRemote(l) <=> args.mode \in HttpModes /\ args.host = "remote"
  BY <1>1, <1>2, <1>3, <1>4 DEF AsksForRemote, Override, Hosts, Transports
<1>6. args \in Arguments
  BY CommandLineType DEF args
<1>7. args.mode \in Modes /\ args.host \in Hosts
  BY <1>6 DEF Arguments
<1>8. args.mode = "stdio" <=> args.mode \notin HttpModes
  BY <1>7 DEF HttpModes
<1>9. args.mode = "stdio" => Reach(l) = "pipe"
  BY <1>4, <1>5, <1>8 DEF Reach
<1>10. args.mode # "stdio" => Reach(l) = args.host
  BY <1>4, <1>5, <1>7, <1>8 DEF Reach, Hosts
<1>11. QED
  BY <1>4, <1>5, <1>9, <1>10 DEF args

-----------------------------------------------------------------------------
(* What each phase refuses is what is wrong with the launch, and nothing   *)
(* else is refused.                                                        *)

LEMMA UnknownIsMisused ==
    ASSUME NEW l \in Launch, Transport(l) = "unknown"
    PROVE  Verdict(l) = "2"
BY TransportAsAsked DEF Verdict, Misused

LEMMA UnparsedIsMisused ==
    ASSUME NEW l \in Launch, Transport(l) # "unknown"
    PROVE  Misused(l) <=> CommandLine(l).stray \/ CommandLine(l).port = "malformed"
<1>1. Transport(l) = AskedTransport(l) /\ l.PORT \in Numbers
  BY TransportAsAsked DEF Launch
<1>2. QED
  BY <1>1, CommandLineFields DEF Misused, Numbers

LEMMA UncheckedIsMisconfigured ==
    ASSUME NEW l \in Launch, Transport(l) # "unknown", ~Misused(l)
    PROVE  Misconfigured(l) <=> Unreadable(l) \/ OutOfRange(l, CommandLine(l))
<1> DEFINE t == Transport(l)
           args == CommandLine(l)
<1>1. /\ t = AskedTransport(l)
      /\ l.PORT \in Numbers /\ l.weatherPort \in Numbers
      /\ l.settings \in {"malformed", "out_of_range", "valid"}
  BY TransportAsAsked DEF Launch
<1>2. /\ t = "stdio" => args.port = "unset"
      /\ t # "stdio" /\ l.PORT \in {"unset", "empty"} => args.port = "valid"
      /\ t # "stdio" /\ l.PORT \notin {"unset", "empty"} => args.port = l.PORT
  BY CommandLineFields
<1> HIDE DEF t, args
<1>3. t # "stdio" => l.PORT # "malformed"
  BY <1>1 DEF Misused
<1>4. Unreadable(l) \/ OutOfRange(l, args)
        <=> \/ l.settings # "valid"
            \/ Malformed(PortText(l))
            \/ Port(l, args) = "out_of_range"
  BY <1>1 DEF Unreadable, OutOfRange
<1>5. CASE t = "stdio"
  BY <1>1, <1>2, <1>4, <1>5 DEF Misconfigured, Malformed, PortText, Port, Numbers, args
<1>6. CASE t # "stdio"
  BY <1>1, <1>2, <1>3, <1>4, <1>6 DEF Misconfigured, Malformed, PortText, Port, Numbers, args
<1>7. QED
  BY <1>5, <1>6

LEMMA UnsafeIsExposed ==
    ASSUME NEW l \in Launch, Transport(l) # "unknown"
    PROVE  Exposed(l) <=> Unsafe(l, CommandLine(l))
<1>1. Transport(l) = AskedTransport(l) /\ l.remote \in BOOLEAN
  BY TransportAsAsked DEF Launch
<1>2. QED
  BY <1>1, ReachAsArgued, CommandLineFields DEF Exposed, Unsafe, HasToken

-----------------------------------------------------------------------------
(* The invariant.                                                          *)

LEMMA StartupInitInv == StartupInit => StartupInv
BY DEF StartupInit, StartupInv, StartupTypeOK, LaunchKnown, ParseKnown, CheckKnown,
       SettingsKnown, TakenKnown, RegisterKnown, ServeKnown, Phases, Values, ExitCodes,
       Dispatched, Parsed, Checked, Registered, Prepared, Serving, Live, Shelled, Computing

(* However it ends, nothing of what is known of the launch is lost.        *)
LEMMA ExitKeepsInv ==
    ASSUME StartupInv, phase \in Live, NEW c \in ExitCodes \ {"none"}, Exit(c)
    PROVE  StartupInv'
<1> USE DEF Live, Shelled, Computing
<1>1. StartupTypeOK'
  BY DEF Exit, StartupInv, StartupTypeOK, Phases
<1>2. LaunchKnown'
  BY DEF Exit, StartupInv, LaunchKnown, Dispatched
<1>3. ParseKnown' /\ CheckKnown' /\ SettingsKnown' /\ TakenKnown' /\ RegisterKnown'
  BY DEF Exit, ParseKnown, CheckKnown, SettingsKnown, TakenKnown, RegisterKnown,
         Dispatched, Parsed, Checked, Registered, Prepared
<1>4. ServeKnown'
  BY DEF Exit, ServeKnown, Prepared, Registered, Checked, Parsed, Dispatched, Serving
<1>5. QED
  BY <1>1, <1>2, <1>3, <1>4 DEF StartupInv

LEMMA StartKeepsInv == ASSUME StartupInv, Start PROVE StartupInv'
<1> USE DEF Live, Shelled, Computing, Dispatched, Parsed, Checked, Registered, Prepared, Serving
<1>1. /\ phase = "absent" /\ phase' = "shell" /\ launch' \in Launches
      /\ UNCHANGED <<argv, settings, taken, registry, advertised, bound, auth>>
      /\ UNCHANGED <<stdin, interrupted, code>>
  BY DEF Start, runVars
<1>2. launch' # Nothing
  BY <1>1, StartupAssumption DEF Launch, Nothing
<1>3. StartupTypeOK'
  BY <1>1, <1>2 DEF StartupInv, StartupTypeOK, Phases
<1>4. TakenKnown' /\ ServeKnown'
  BY <1>1 DEF StartupInv, TakenKnown, ServeKnown
<1>5. LaunchKnown' /\ ParseKnown' /\ CheckKnown' /\ SettingsKnown' /\ RegisterKnown'
  BY <1>1 DEF LaunchKnown, ParseKnown, CheckKnown, SettingsKnown, RegisterKnown
<1>6. QED
  BY <1>3, <1>4, <1>5 DEF StartupInv

LEMMA DispatchKeepsInv == ASSUME StartupInv, Dispatch PROVE StartupInv'
<1> USE DEF Live, Shelled, Computing, Dispatched, Parsed, Checked, Registered, Prepared, Serving
<1>1. CASE Transport(launch) = "unknown" /\ Exit("2")
  BY <1>1, ExitKeepsInv DEF Dispatch, ExitCodes
<1>2. CASE /\ Transport(launch) # "unknown"
           /\ argv' = CommandLine(launch)
           /\ Continue("importing")
           /\ UNCHANGED runVars
  <2>1. /\ phase = "shell" /\ phase' = "importing" /\ launch \in Launches
        /\ UNCHANGED <<launch, settings, taken, registry, advertised, bound, auth>>
        /\ UNCHANGED <<stdin, interrupted, code>>
    BY <1>2 DEF Dispatch, Continue, runVars, StartupInv, LaunchKnown
  <2>2. argv' \in Arguments
    BY <1>2, <2>1, CommandLineType, StartupAssumption
  <2>3. StartupTypeOK'
    BY <2>1, <2>2 DEF StartupInv, StartupTypeOK, Phases
  <2>4. LaunchKnown'
    BY <1>2, <2>1 DEF LaunchKnown
  <2>5. TakenKnown' /\ ServeKnown'
    BY <2>1 DEF StartupInv, TakenKnown, ServeKnown
  <2>6. ParseKnown' /\ CheckKnown' /\ SettingsKnown' /\ RegisterKnown'
    BY <2>1 DEF ParseKnown, CheckKnown, SettingsKnown, RegisterKnown
  <2>7. QED
    BY <2>3, <2>4, <2>5, <2>6 DEF StartupInv
<1>3. QED
  BY <1>1, <1>2 DEF Dispatch

(* A step of the computation leaves the launch and the end alone. *)
LEMMA ContinueKeeps ==
    ASSUME StartupInv, NEW next \in Dispatched, phase \in Dispatched, Continue(next),
           argv' = argv, settings' \in Values, taken' \in [Readers -> Values],
           registry' \in BOOLEAN, advertised' \subseteq Catalogue,
           bound' \in Hosts \cup {"none"}, auth' \in BOOLEAN
    PROVE  StartupTypeOK' /\ LaunchKnown'
<1> USE DEF Live, Shelled, Computing, Dispatched
<1>1. phase' = next /\ UNCHANGED <<launch, argv, stdin, interrupted, code>>
  BY DEF Continue
<1>2. StartupTypeOK'
  BY <1>1 DEF StartupInv, StartupTypeOK, Phases
<1>3. LaunchKnown'
  BY <1>1 DEF StartupInv, LaunchKnown
<1>4. QED
  BY <1>2, <1>3

(* The settings an environment stands for. *)
LEMMA FromEnvType ==
    ASSUME StartupInv, phase \in Dispatched
    PROVE  launch \in Launch /\ FromEnv(launch) \in {"malformed", "out_of_range", "valid"}
BY StartupAssumption
   DEF StartupInv, LaunchKnown, FromEnv, Launch, Dispatched, Computing

LEMMA ImportKeepsInv == ASSUME StartupInv, Import PROVE StartupInv'
<1> USE DEF Live, Shelled, Computing, Dispatched, Parsed, Checked, Registered, Prepared, Serving
<1>1. /\ phase = "importing" /\ phase' = "parsing"
      /\ settings' = IF Unreadable(launch) THEN "default" ELSE FromEnv(launch)
      /\ UNCHANGED <<launch, argv, taken, registry, advertised, bound, auth>>
  BY DEF Import, Continue
<1>2. settings' \in Values
  BY <1>1, FromEnvType DEF Values
<1>3. StartupTypeOK' /\ LaunchKnown'
  BY <1>1, <1>2, ContinueKeeps DEF Import, StartupInv, StartupTypeOK
<1>4. SettingsKnown'
  BY <1>1 DEF SettingsKnown
<1>5. TakenKnown' /\ ServeKnown'
  BY <1>1 DEF StartupInv, TakenKnown, ServeKnown
<1>6. ParseKnown' /\ CheckKnown' /\ RegisterKnown'
  BY <1>1 DEF ParseKnown, CheckKnown, RegisterKnown
<1>7. QED
  BY <1>3, <1>4, <1>5, <1>6 DEF StartupInv

(* Reading the settings once more keeps the types. *)
LEMMA TakeType ==
    ASSUME StartupInv, NEW reader \in Readers, settings' \in Values, Take(reader)
    PROVE  /\ taken' \in [Readers -> Values]
           /\ taken'[reader] = settings'
           /\ \A r \in Readers \ {reader} : taken'[r] = taken[r]
BY DEF StartupInv, StartupTypeOK, Take

LEMMA ParseKeepsInv == ASSUME StartupInv, Parse PROVE StartupInv'
<1> USE DEF Live, Shelled, Computing, Dispatched, Parsed, Checked, Registered, Prepared, Serving
<1>1. CASE Exit("1") \/ Exit("2")
  BY <1>1, ExitKeepsInv DEF Parse, ExitCodes
<1>2. CASE /\ ~(argv.stray \/ argv.port = "malformed")
           /\ ~(argv.port = "unset" /\ Malformed(PortText(launch)))
           /\ UNCHANGED settings
           /\ Take("logging")
           /\ Continue("checking")
           /\ UNCHANGED <<argv, registry, advertised, bound, auth>>
  <2>1. /\ phase = "parsing" /\ phase' = "checking"
        /\ UNCHANGED <<launch, argv, settings, registry, advertised, bound, auth>>
    BY <1>2 DEF Parse, Continue
  <2>2. /\ taken' \in [Readers -> Values]
        /\ \A r \in Readers \ {"logging"} : taken'[r] = taken[r]
    BY <1>2, <2>1, TakeType DEF Readers, StartupInv, StartupTypeOK
  <2>3. StartupTypeOK' /\ LaunchKnown'
    BY <1>2, <2>1, <2>2, ContinueKeeps DEF StartupInv, StartupTypeOK
  <2>4. ParseKnown'
    BY <1>2, <2>1 DEF ParseKnown
  <2>5. SettingsKnown' /\ ServeKnown'
    BY <2>1 DEF StartupInv, SettingsKnown, ServeKnown
  <2>6. TakenKnown'
    BY <2>1, <2>2 DEF StartupInv, TakenKnown
  <2>7. CheckKnown' /\ RegisterKnown'
    BY <2>1 DEF CheckKnown, RegisterKnown
  <2>8. QED
    BY <2>3, <2>4, <2>5, <2>6, <2>7 DEF StartupInv
<1>3. QED
  BY <1>1, <1>2 DEF Parse

LEMMA CheckKeepsInv == ASSUME StartupInv, Check PROVE StartupInv'
<1> USE DEF Live, Shelled, Computing, Dispatched, Parsed, Checked, Registered, Prepared, Serving
<1>1. CASE Exit("1")
  BY <1>1, ExitKeepsInv DEF Check, ExitCodes
<1>2. CASE /\ ~(Unreadable(launch) \/ OutOfRange(launch, argv))
           /\ Continue("registering")
           /\ UNCHANGED <<argv, runVars>>
  <2>1. /\ phase = "checking" /\ phase' = "registering"
        /\ UNCHANGED <<launch, argv, settings, taken, registry, advertised, bound, auth>>
    BY <1>2 DEF Check, Continue, runVars
  <2>2. StartupTypeOK' /\ LaunchKnown'
    BY <1>2, <2>1, ContinueKeeps DEF StartupInv, StartupTypeOK
  <2>3. CheckKnown'
    BY <1>2, <2>1 DEF CheckKnown
  <2>4. SettingsKnown'
    BY <1>2, <2>1 DEF StartupInv, SettingsKnown
  <2>5. ParseKnown' /\ TakenKnown' /\ ServeKnown' /\ RegisterKnown'
    BY <2>1 DEF StartupInv, ParseKnown, TakenKnown, ServeKnown, RegisterKnown
  <2>6. QED
    BY <2>2, <2>3, <2>4, <2>5 DEF StartupInv
<1>3. QED
  BY <1>1, <1>2 DEF Check

LEMMA RegisterKeepsInv == ASSUME StartupInv, Register PROVE StartupInv'
<1> USE DEF Live, Shelled, Computing, Dispatched, Parsed, Checked, Registered, Prepared, Serving
<1>1. /\ phase = "registering" /\ phase' = "running"
      /\ registry' /\ registry' \in BOOLEAN /\ advertised' = Catalogue
      /\ UNCHANGED <<launch, argv, settings, bound, auth>>
  BY DEF Register, Continue
<1>2. /\ taken' \in [Readers -> Values]
      /\ taken'["prompts"] = settings
      /\ \A r \in Readers \ {"prompts"} : taken'[r] = taken[r]
  BY <1>1, TakeType DEF Register, Readers, StartupInv, StartupTypeOK
<1>3. StartupTypeOK' /\ LaunchKnown'
  BY <1>1, <1>2, ContinueKeeps DEF Register, StartupInv, StartupTypeOK
<1>4. TakenKnown'
  BY <1>1, <1>2 DEF StartupInv, TakenKnown, SettingsKnown
<1>5. RegisterKnown'
  BY <1>1 DEF RegisterKnown
<1>6. ParseKnown' /\ CheckKnown' /\ SettingsKnown' /\ ServeKnown'
  BY <1>1 DEF StartupInv, ParseKnown, CheckKnown, SettingsKnown, ServeKnown
<1>7. QED
  BY <1>3, <1>4, <1>5, <1>6 DEF StartupInv

(* The settings are read again, and everybody who reads them afterwards    *)
(* reads the ones that were checked.                                       *)
LEMMA PrepareKeepsInv == ASSUME StartupInv, Prepare PROVE StartupInv'
<1> USE DEF Live, Shelled, Computing, Dispatched, Parsed, Checked, Registered, Prepared, Serving
<1>1. /\ phase = "running"
      /\ settings' = FromEnv(launch) /\ settings' \in Values
      /\ UNCHANGED <<launch, argv, registry, advertised, bound, auth, stdin, interrupted>>
  BY FromEnvType DEF Prepare, Continue, Values
<1>2. /\ taken' \in [Readers -> Values]
      /\ taken'["logging"] = FromEnv(launch)
      /\ \A r \in Readers \ {"logging"} : taken'[r] = taken[r]
  BY <1>1, TakeType DEF Prepare, Readers, StartupInv, StartupTypeOK
<1>3. CASE /\ Unsafe(launch, argv)
           /\ phase' = "exited" /\ code' = "1"
  <2>1. StartupTypeOK'
    BY <1>1, <1>2, <1>3 DEF StartupInv, StartupTypeOK, Phases, ExitCodes
  <2>2. LaunchKnown' /\ ServeKnown'
    BY <1>1, <1>3 DEF StartupInv, LaunchKnown, ServeKnown
  <2>3. ParseKnown' /\ CheckKnown' /\ SettingsKnown' /\ TakenKnown' /\ RegisterKnown'
    BY <1>3 DEF ParseKnown, CheckKnown, SettingsKnown, TakenKnown, RegisterKnown
  <2>4. QED
    BY <2>1, <2>2, <2>3 DEF StartupInv
<1>4. CASE ~Unsafe(launch, argv) /\ Continue("opening")
  <2>1. phase' = "opening"
    BY <1>4 DEF Continue
  <2>2. StartupTypeOK' /\ LaunchKnown'
    BY <1>1, <1>2, <1>4, ContinueKeeps DEF StartupInv, StartupTypeOK
  <2>3. SettingsKnown'
    BY <1>1, <2>1 DEF SettingsKnown
  <2>4. TakenKnown'
    BY <1>1, <1>2, <2>1 DEF StartupInv, TakenKnown
  <2>5. ServeKnown'
    BY <1>1, <1>4, <2>1 DEF StartupInv, ServeKnown
  <2>6. ParseKnown' /\ CheckKnown' /\ RegisterKnown'
    BY <1>1, <2>1 DEF StartupInv, ParseKnown, CheckKnown, RegisterKnown
  <2>7. QED
    BY <2>2, <2>3, <2>4, <2>5, <2>6 DEF StartupInv
<1>5. QED
  BY <1>3, <1>4 DEF Prepare

LEMMA OpenStdioKeepsInv == ASSUME StartupInv, OpenStdio PROVE StartupInv'
<1> USE DEF Live, Shelled, Computing, Dispatched, Parsed, Checked, Registered, Prepared, Serving
<1>1. CASE Exit("0")
  BY <1>1, ExitKeepsInv DEF OpenStdio, ExitCodes
<1>2. CASE Continue("serving") /\ UNCHANGED <<argv, runVars>>
  <2>1. /\ phase = "opening" /\ phase' = "serving" /\ argv.mode = "stdio"
        /\ UNCHANGED <<launch, argv, settings, taken, registry, advertised, bound, auth>>
    BY <1>2 DEF OpenStdio, Continue, runVars
  <2>2. StartupTypeOK' /\ LaunchKnown'
    BY <1>2, <2>1, ContinueKeeps DEF StartupInv, StartupTypeOK
  <2>3. SettingsKnown' /\ TakenKnown' /\ ServeKnown'
    BY <2>1 DEF StartupInv, SettingsKnown, TakenKnown, ServeKnown
  <2>4. ParseKnown' /\ CheckKnown' /\ RegisterKnown'
    BY <2>1 DEF StartupInv, ParseKnown, CheckKnown, RegisterKnown
  <2>5. QED
    BY <2>2, <2>3, <2>4 DEF StartupInv
<1>3. QED
  BY <1>1, <1>2 DEF OpenStdio

(* What listens requires the token that the check of the host has asked    *)
(* for.                                                                    *)
LEMMA OpenHttpKeepsInv == ASSUME StartupInv, OpenHttp PROVE StartupInv'
<1> USE DEF Live, Shelled, Computing, Dispatched, Parsed, Checked, Registered, Prepared, Serving
<1>1. CASE Exit("0")
  BY <1>1, ExitKeepsInv DEF OpenHttp, ExitCodes
<1>2. CASE /\ UNCHANGED settings
           /\ Take("limiter")
           /\ auth' = HasToken(launch)
           /\ bound' = argv.host
           /\ Continue("serving")
           /\ UNCHANGED <<argv, registry, advertised>>
  <2>1. /\ phase = "opening" /\ phase' = "serving" /\ argv.mode \in HttpModes
        /\ auth' = HasToken(launch) /\ bound' = argv.host
        /\ UNCHANGED <<launch, argv, settings, registry, advertised>>
    BY <1>2 DEF OpenHttp, Continue
  <2>2. /\ taken' \in [Readers -> Values]
        /\ taken'["limiter"] = settings
        /\ \A r \in Readers \ {"limiter"} : taken'[r] = taken[r]
    BY <1>2, <2>1, TakeType DEF Readers, StartupInv, StartupTypeOK
  <2>3. argv \in Arguments
    BY <2>1, FromEnvType, CommandLineType DEF StartupInv, LaunchKnown
  <2>4. bound' \in Hosts /\ auth' \in BOOLEAN
    BY <2>1, <2>3 DEF Arguments, HasToken
  <2>5. StartupTypeOK' /\ LaunchKnown'
    BY <1>2, <2>1, <2>2, <2>4, ContinueKeeps DEF StartupInv, StartupTypeOK
  <2>6. TakenKnown'
    BY <2>1, <2>2 DEF StartupInv, TakenKnown, SettingsKnown, Readers
  <2>7. ServeKnown'
    BY <2>1 DEF StartupInv, ServeKnown, HttpModes
  <2>8. ParseKnown' /\ CheckKnown' /\ SettingsKnown' /\ RegisterKnown'
    BY <2>1 DEF StartupInv, ParseKnown, CheckKnown, SettingsKnown, RegisterKnown
  <2>9. QED
    BY <2>5, <2>6, <2>7, <2>8 DEF StartupInv
<1>3. QED
  BY <1>1, <1>2 DEF OpenHttp

(* What the process does by itself. *)
LEMMA ProcessKeepsInv == ASSUME StartupInv, Process PROVE StartupInv'
<1>1. CASE FailToBind \/ EndOfInput
  BY <1>1, ExitKeepsInv DEF FailToBind, EndOfInput, ExitCodes, Live, Computing
<1>2. QED
  BY <1>1, DispatchKeepsInv, ImportKeepsInv, ParseKeepsInv, CheckKeepsInv, RegisterKeepsInv,
     PrepareKeepsInv, OpenStdioKeepsInv, OpenHttpKeepsInv DEF Process, Open

-----------------------------------------------------------------------------
(* What is done to it.                                                     *)

LEMMA StutterKeepsInv == ASSUME StartupInv, UNCHANGED startVars PROVE StartupInv'
BY DEF startVars, runVars, StartupInv, StartupTypeOK, LaunchKnown, ParseKnown, CheckKnown,
       SettingsKnown, TakenKnown, RegisterKnown, ServeKnown

(* The input and a noted interrupt are in no other part of the invariant.  *)
LEMMA NoteKeepsInv ==
    ASSUME StartupInv, UNCHANGED <<phase, launch, argv, runVars, code>>,
           stdin' \in {"open", "closed"}, interrupted' \in BOOLEAN
    PROVE  StartupInv'
BY DEF runVars, StartupInv, StartupTypeOK, LaunchKnown, ParseKnown, CheckKnown,
       SettingsKnown, TakenKnown, RegisterKnown, ServeKnown

LEMMA CloseInputKeepsInv == ASSUME StartupInv, CloseInput PROVE StartupInv'
BY NoteKeepsInv DEF CloseInput, StartupInv, StartupTypeOK

LEMMA DrainKeepsInv == ASSUME StartupInv, Drain PROVE StartupInv'
<1> USE DEF Live, Shelled, Computing, Dispatched, Parsed, Checked, Registered, Prepared, Serving
<1>1. /\ phase = "serving" /\ phase' = "draining" /\ argv.mode \in HttpModes
      /\ UNCHANGED <<launch, argv, settings, taken, registry, advertised, bound, auth>>
  BY DEF Drain, Continue, runVars
<1>2. StartupTypeOK' /\ LaunchKnown'
  BY <1>1, ContinueKeeps DEF Drain, StartupInv, StartupTypeOK
<1>3. ServeKnown'
  BY <1>1 DEF StartupInv, ServeKnown, HttpModes
<1>4. ParseKnown' /\ CheckKnown' /\ SettingsKnown' /\ TakenKnown' /\ RegisterKnown'
  BY <1>1 DEF StartupInv, ParseKnown, CheckKnown, SettingsKnown, TakenKnown, RegisterKnown
<1>5. QED
  BY <1>2, <1>3, <1>4 DEF StartupInv

LEMMA SignalKeepsInv == ASSUME StartupInv, Signal PROVE StartupInv'
<1>1. ASSUME NEW c \in {"130", "143"}, phase \in Live, Default(c)
      PROVE  StartupInv'
  BY <1>1, ExitKeepsInv, StutterKeepsInv DEF Default, ExitCodes
<1>2. CASE Terminate
  BY <1>1, <1>2, ExitKeepsInv, StutterKeepsInv, DrainKeepsInv DEF Terminate, ExitCodes, Live
<1>3. CASE Interrupt
  <2>1. CASE /\ phase \in Computing \ {"importing"} /\ interrupted' = TRUE
             /\ UNCHANGED <<phase, launch, argv, runVars, stdin, code>>
    BY <2>1, NoteKeepsInv DEF StartupInv, StartupTypeOK
  <2>2. CASE phase \in Computing /\ (Exit("0") \/ Exit("130"))
    BY <2>2, ExitKeepsInv DEF ExitCodes, Live
  <2>3. QED
    BY <1>1, <1>3, <2>1, <2>2, ExitKeepsInv, StutterKeepsInv, DrainKeepsInv
    DEF Interrupt, ExitCodes, Live, Shelled, Computing
<1>4. CASE Kill
  BY <1>4, ExitKeepsInv DEF Kill, ExitCodes
<1>5. QED
  BY <1>2, <1>3, <1>4 DEF Signal

LEMMA DrainedKeepsInv == ASSUME StartupInv, Drained PROVE StartupInv'
BY ExitKeepsInv DEF Drained, ExitCodes, Live

(* A removed container leaves nothing behind. *)
LEMMA RemoveKeepsInv == ASSUME StartupInv, Remove PROVE StartupInv'
BY DEF Remove, StartupInv, StartupTypeOK, LaunchKnown, ParseKnown, CheckKnown,
       SettingsKnown, TakenKnown, RegisterKnown, ServeKnown, Phases, Values, ExitCodes,
       Dispatched, Parsed, Checked, Registered, Prepared, Serving, Live, Shelled, Computing

LEMMA StartupNextInv == StartupInv /\ [StartupNext]_startVars => StartupInv'
BY StartKeepsInv, ProcessKeepsInv, DrainedKeepsInv, CloseInputKeepsInv, SignalKeepsInv,
   RemoveKeepsInv, StutterKeepsInv DEF StartupNext

-----------------------------------------------------------------------------
(* For every set of launches: each phase knows what the earlier ones have  *)
(* seen to, whatever signal or end of input comes in between.              *)
THEOREM StartupInvariance == StartupSpec => []StartupInv
BY StartupInitInv, StartupNextInv, PTL DEF StartupSpec

LEMMA InvImpliesRemote == StartupInv => RemoteIsAuthenticated
<1> SUFFICES ASSUME StartupInv, bound = "remote"
             PROVE  auth /\ launch.token = "set" /\ AsksForRemote(launch)
  BY DEF RemoteIsAuthenticated
<1>1. /\ phase \in Serving /\ argv.mode # "stdio"
      /\ bound = argv.host /\ auth = HasToken(launch)
  BY DEF StartupInv, ServeKnown
<1>2. /\ phase \in Dispatched /\ phase \in Prepared
  BY <1>1 DEF Serving, Prepared, Registered, Checked, Parsed, Dispatched
<1>3. launch \in Launch /\ Transport(launch) # "unknown" /\ argv = CommandLine(launch)
  BY <1>2, FromEnvType DEF StartupInv, LaunchKnown
<1>4. argv.mode \in HttpModes
  BY <1>1, <1>3, CommandLineType DEF Arguments, HttpModes
<1>5. ~Unsafe(launch, argv)
  BY <1>2 DEF StartupInv, ServeKnown
<1>6. HasToken(launch)
  BY <1>1, <1>4, <1>5 DEF Unsafe
<1>7. AsksForRemote(launch)
  BY <1>1, <1>3, <1>4, ReachAsArgued
<1>8. QED
  BY <1>1, <1>6, <1>7 DEF HasToken

(* Whatever the server is started with, nobody reaches it from the network *)
(* without the operator's token.                                           *)
THEOREM AlwaysAuthenticated == StartupSpec => []RemoteIsAuthenticated
BY StartupInvariance, InvImpliesRemote, PTL

LEMMA InvImpliesInForce == StartupInv => SettingsInForce
<1> SUFFICES ASSUME StartupInv, phase \in Serving, NEW r \in Readers
             PROVE  taken[r] \in {"none", settings} /\ settings = launch.settings
  BY DEF SettingsInForce, Serving
<1>1. phase \in Live /\ phase \in Prepared /\ phase \in Checked
  BY DEF Serving, Prepared, Registered, Checked, Parsed, Dispatched, Live
<1>2. settings = FromEnv(launch)
  BY <1>1 DEF StartupInv, SettingsKnown
<1>3. taken[r] \in {"none", FromEnv(launch)}
  BY <1>1 DEF StartupInv, TakenKnown
<1>4. QED
  BY <1>2, <1>3 DEF FromEnv

(* The defaults of an unreadable environment never survive the start.      *)
THEOREM AlwaysInForce == StartupSpec => []SettingsInForce
BY StartupInvariance, InvImpliesInForce, PTL

-----------------------------------------------------------------------------
(* Refinement of Lifecycle.                                                *)

(* What Lifecycle sees of a container. *)
LEMMA StateByPhase ==
    ASSUME StartupInv
    PROVE  /\ phase \in Shelled \cup Computing => StateOf = "starting" /\ ReachOf = "none"
           /\ phase \in Serving => StateOf = "serving" /\ ReachOf = Override(bound, "pipe")
           /\ phase \in {"absent", "exited"} => StateOf = phase /\ ReachOf = "none"
<1>1. phase \in Serving => advertised = Catalogue
  BY DEF StartupInv, RegisterKnown, Serving, Registered, Checked, Parsed, Dispatched
<1>2. phase \in Shelled \cup Computing => StateOf = "starting"
  BY DEF StateOf, Shelled, Computing
<1>3. phase \in Serving => StateOf = "serving"
  BY <1>1 DEF StateOf, Serving, Shelled, Computing
<1>4. phase \in {"absent", "exited"} => StateOf = phase
  BY DEF StateOf, Shelled, Computing
<1>5. QED
  BY <1>2, <1>3, <1>4 DEF ReachOf, Shelled, Computing, Serving

LEMMA StartsInit == StartupInit => Promise!Init
BY DEF StartupInit, Promise!Init, StateOf, ReachOf, Shelled, Computing, Nothing, Promise!Nothing

(* Every end of the process is an end of the container. *)
LEMMA ExitEnds ==
    ASSUME StartupInv', NEW c, Exit(c)
    PROVE  Promise!End(c)
<1>1. phase' = "exited" /\ code' = c /\ UNCHANGED <<launch, interrupted>>
  BY DEF Exit
<1>2. StateOf' = "exited" /\ ReachOf' = "none"
  BY <1>1 DEF StateOf, ReachOf, Shelled, Computing
<1>3. QED
  BY <1>1, <1>2 DEF Promise!End

(* A refusal is the verdict on the launch. *)
LEMMA RefusalRefuses ==
    ASSUME StartupInv, StartupInv', phase \in Shelled \cup Computing,
           NEW c \in {"1", "2"}, c = Verdict(launch),
           phase' = "exited", code' = c, UNCHANGED <<launch, interrupted>>
    PROVE  Promise!Refuse
<1>1. StateOf = "starting"
  BY StateByPhase
<1>2. StateOf' = "exited" /\ ReachOf' = "none"
  BY DEF StateOf, ReachOf, Shelled, Computing
<1>3. QED
  BY <1>1, <1>2 DEF Promise!Refuse, Promise!End

(* What is known of a launch that has come so far. *)
LEMMA LaunchOfPhase ==
    ASSUME StartupInv, phase \in Dispatched
    PROVE  /\ launch \in Launch /\ Transport(launch) # "unknown" /\ argv = CommandLine(launch)
           /\ argv \in Arguments
           /\ phase \in Parsed => ~Misused(launch)
           /\ phase \in Checked => ~Misused(launch) /\ ~Misconfigured(launch)
           /\ phase \in Prepared => Verdict(launch) = "accepted"
<1>1. launch \in Launch /\ Transport(launch) # "unknown" /\ argv = CommandLine(launch)
  BY FromEnvType DEF StartupInv, LaunchKnown
<1>2. argv \in Arguments
  BY <1>1, CommandLineType
<1>3. phase \in Parsed => ~Misused(launch)
  BY <1>1, UnparsedIsMisused DEF StartupInv, ParseKnown
<1>4. phase \in Checked => ~Misused(launch) /\ ~Misconfigured(launch)
  BY <1>1, <1>3, UncheckedIsMisconfigured DEF StartupInv, CheckKnown, Checked
<1>5. phase \in Prepared => ~Exposed(launch)
  BY <1>1, UnsafeIsExposed DEF StartupInv, ServeKnown
<1>6. phase \in Prepared => Verdict(launch) = "accepted"
  BY <1>4, <1>5 DEF Verdict, Prepared, Registered
<1>7. QED
  BY <1>1, <1>2, <1>3, <1>4, <1>6

LEMMA DispatchPromised ==
    ASSUME StartupInv, StartupInv', Dispatch
    PROVE  Promise!Next \/ UNCHANGED Promise!vars
<1>1. phase = "shell" /\ launch \in Launch
  BY StartupAssumption DEF Dispatch, StartupInv, LaunchKnown
<1>2. CASE Transport(launch) = "unknown" /\ Exit("2")
  <2>1. Verdict(launch) = "2"
    BY <1>1, <1>2, UnknownIsMisused
  <2>2. QED
    BY <1>1, <1>2, <2>1, RefusalRefuses DEF Exit, Shelled, Promise!Next
<1>3. CASE Continue("importing")
  <2>1. phase' = "importing" /\ UNCHANGED <<launch, interrupted, code>>
    BY <1>3 DEF Continue
  <2>2. QED
    BY <1>1, <2>1 DEF Promise!vars, StateOf, ReachOf, Shelled, Computing
<1>4. QED
  BY <1>2, <1>3 DEF Dispatch

LEMMA ParsePromised ==
    ASSUME StartupInv, StartupInv', Parse
    PROVE  Promise!Next \/ UNCHANGED Promise!vars
<1>1. phase = "parsing" /\ phase \in Dispatched /\ phase \in Shelled \cup Computing
  BY DEF Parse, Dispatched, Computing
<1>2. /\ launch \in Launch /\ Transport(launch) # "unknown" /\ argv = CommandLine(launch)
      /\ argv \in Arguments
  BY <1>1, LaunchOfPhase
<1>3. CASE (argv.stray \/ argv.port = "malformed") /\ Exit("2")
  <2>1. Verdict(launch) = "2"
    BY <1>2, <1>3, UnparsedIsMisused DEF Verdict
  <2>2. QED
    BY <1>1, <1>3, <2>1, RefusalRefuses DEF Exit, Promise!Next
<1>4. CASE /\ ~(argv.stray \/ argv.port = "malformed")
           /\ Malformed(PortText(launch))
           /\ Exit("1")
  <2>1. ~Misused(launch)
    BY <1>2, <1>4, UnparsedIsMisused
  <2>2. Misconfigured(launch)
    BY <1>2, <1>4, <2>1, UncheckedIsMisconfigured DEF Unreadable
  <2>3. Verdict(launch) = "1"
    BY <2>1, <2>2 DEF Verdict
  <2>4. QED
    BY <1>1, <1>4, <2>3, RefusalRefuses DEF Exit, Promise!Next
<1>5. CASE Continue("checking")
  <2>1. phase' = "checking" /\ UNCHANGED <<launch, interrupted, code>>
    BY <1>5 DEF Continue
  <2>2. QED
    BY <1>1, <2>1 DEF Promise!vars, StateOf, ReachOf, Shelled, Computing
<1>6. QED
  BY <1>3, <1>4, <1>5 DEF Parse

LEMMA CheckPromised ==
    ASSUME StartupInv, StartupInv', Check
    PROVE  Promise!Next \/ UNCHANGED Promise!vars
<1>1. /\ phase = "checking" /\ phase \in Dispatched /\ phase \in Parsed
      /\ phase \in Shelled \cup Computing
  BY DEF Check, Dispatched, Parsed, Computing
<1>2. CASE (Unreadable(launch) \/ OutOfRange(launch, argv)) /\ Exit("1")
  <2>1. ~Misused(launch) /\ Misconfigured(launch)
    BY <1>1, <1>2, LaunchOfPhase, UncheckedIsMisconfigured
  <2>2. Verdict(launch) = "1"
    BY <2>1 DEF Verdict
  <2>3. QED
    BY <1>1, <1>2, <2>2, RefusalRefuses DEF Exit, Promise!Next
<1>3. CASE Continue("registering")
  <2>1. phase' = "registering" /\ UNCHANGED <<launch, interrupted, code>>
    BY <1>3 DEF Continue
  <2>2. QED
    BY <1>1, <2>1 DEF Promise!vars, StateOf, ReachOf, Shelled, Computing
<1>4. QED
  BY <1>2, <1>3 DEF Check

LEMMA PreparePromised ==
    ASSUME StartupInv, StartupInv', Prepare
    PROVE  Promise!Next \/ UNCHANGED Promise!vars
<1>1. /\ phase = "running" /\ phase \in Dispatched /\ phase \in Checked
      /\ phase \in Shelled \cup Computing
  BY DEF Prepare, Dispatched, Parsed, Checked, Computing
<1>2. CASE /\ Unsafe(launch, argv)
           /\ phase' = "exited" /\ code' = "1"
           /\ UNCHANGED <<launch, stdin, interrupted>>
  <2>1. ~Misused(launch) /\ Exposed(launch)
    BY <1>1, <1>2, LaunchOfPhase, UnsafeIsExposed
  <2>2. Verdict(launch) = "1"
    BY <2>1 DEF Verdict
  <2>3. QED
    BY <1>1, <1>2, <2>2, RefusalRefuses DEF Promise!Next
<1>3. CASE Continue("opening")
  <2>1. phase' = "opening" /\ UNCHANGED <<launch, interrupted, code>>
    BY <1>3 DEF Continue
  <2>2. QED
    BY <1>1, <2>1 DEF Promise!vars, StateOf, ReachOf, Shelled, Computing
<1>4. QED
  BY <1>2, <1>3 DEF Prepare

(* Import and Register go on. *)
LEMMA SilentPromised ==
    ASSUME Import \/ Register
    PROVE  UNCHANGED Promise!vars
<1>1. /\ phase \in {"importing", "registering"} /\ phase' \in {"parsing", "running"}
      /\ UNCHANGED <<launch, interrupted, code>>
  BY DEF Import, Register, Continue
<1>2. QED
  BY <1>1 DEF Promise!vars, StateOf, ReachOf, Shelled, Computing

(* A container that is opened has been accepted: it serves where it was    *)
(* asked to, unless it is to stop or cannot.                               *)
LEMMA OpenPromised ==
    ASSUME StartupInv, StartupInv', Open \/ FailToBind
    PROVE  Promise!Next
<1>1. /\ phase = "opening" /\ phase \in Dispatched /\ phase \in Prepared
      /\ phase \in Shelled \cup Computing
  BY DEF Open, OpenStdio, OpenHttp, FailToBind, Dispatched, Parsed, Checked, Registered,
         Prepared, Computing
<1>2. /\ StateOf = "starting" /\ ReachOf = "none"
      /\ Verdict(launch) = "accepted" /\ argv \in Arguments
      /\ argv.mode = "stdio" => Reach(launch) = "pipe"
      /\ argv.mode # "stdio" => Reach(launch) = argv.host
  BY <1>1, StateByPhase, LaunchOfPhase, ReachAsArgued
<1>3. argv.host \in Hosts
  BY <1>2 DEF Arguments
<1>4. CASE interrupted /\ Exit("0")
  BY <1>2, <1>4, ExitEnds DEF Promise!Finish, Promise!Next
<1>5. CASE FailToBind
  <2>1. Reach(launch) # "pipe" /\ Exit("1")
    BY <1>2, <1>3, <1>5 DEF FailToBind, HttpModes, Hosts
  <2>2. QED
    BY <1>2, <2>1, ExitEnds DEF Promise!Fail, Promise!Next
<1>6. CASE /\ ~interrupted /\ Continue("serving")
           /\ Override(bound', "pipe") = Reach(launch)
  <2>1. phase' = "serving" /\ UNCHANGED <<launch, interrupted, code>>
    BY <1>6 DEF Continue
  <2>2. StateOf' = "serving" /\ ReachOf' = Override(bound', "pipe")
    BY <2>1 DEF StateOf, ReachOf, StartupInv, RegisterKnown, Registered, Checked, Parsed,
                Dispatched, Shelled, Computing
  <2>3. QED
    BY <1>2, <1>6, <2>1, <2>2 DEF Promise!Serve, Promise!Next
<1>7. CASE OpenStdio /\ ~interrupted
  <2>1. argv.mode = "stdio" /\ Continue("serving") /\ bound' = bound
    BY <1>7 DEF OpenStdio, runVars
  <2>2. bound = "none"
    BY <1>1 DEF StartupInv, ServeKnown, Serving
  <2>3. QED
    BY <1>2, <1>6, <1>7, <2>1, <2>2 DEF Override
<1>8. CASE OpenHttp /\ ~interrupted
  <2>1. argv.mode # "stdio" /\ Continue("serving") /\ bound' = argv.host
    BY <1>8 DEF OpenHttp, HttpModes
  <2>2. QED
    BY <1>2, <1>3, <1>6, <1>8, <2>1 DEF Override, Hosts
<1>9. QED
  BY <1>4, <1>5, <1>7, <1>8 DEF Open, OpenStdio, OpenHttp

LEMMA ProcessPromised ==
    ASSUME StartupInv, StartupInv', Process
    PROVE  Promise!Next \/ UNCHANGED Promise!vars
<1>1. CASE EndOfInput
  <2>1. StateOf = "serving" /\ Exit("0")
    BY <1>1, StateByPhase DEF EndOfInput, Serving
  <2>2. QED
    BY <2>1, ExitEnds DEF Promise!Finish, Promise!Next
<1>2. QED
  BY <1>1, DispatchPromised, SilentPromised, ParsePromised, CheckPromised, PreparePromised,
     OpenPromised DEF Process

(* From serving to draining nothing changes for the outside. *)
LEMMA DrainPromised ==
    ASSUME StartupInv, StartupInv', Drain
    PROVE  UNCHANGED Promise!vars
<1>1. /\ phase = "serving" /\ phase' = "draining"
      /\ UNCHANGED <<launch, advertised, bound, interrupted, code>>
  BY DEF Drain, Continue, runVars
<1>2. QED
  BY <1>1 DEF Promise!vars, StateOf, ReachOf, Shelled, Computing

LEMMA DrainedPromised ==
    ASSUME StartupInv, StartupInv', Drained
    PROVE  Promise!Next
<1>1. StateOf = "serving" /\ (Exit("0") \/ Exit("143"))
  BY StateByPhase DEF Drained, Serving
<1>2. QED
  BY <1>1, ExitEnds DEF Promise!Finish, Promise!Signalled, Promise!Next

(* A signal ends the container under its own code, is noted, is ignored,   *)
(* or lets it drain.                                                       *)
LEMMA SignalPromised ==
    ASSUME StartupInv, StartupInv', Signal
    PROVE  Promise!Next \/ UNCHANGED Promise!vars
<1>1. ASSUME phase \in Live, NEW c \in {"130", "137", "143"}, Exit(c)
      PROVE  Promise!Next
  <2>1. StateOf \in {"starting", "serving"}
    BY <1>1, StateByPhase DEF Live, Serving
  <2>2. QED
    BY <1>1, <2>1, ExitEnds DEF Promise!Signalled, Promise!Next
<1>2. CASE UNCHANGED startVars
  BY <1>2 DEF startVars, runVars, Promise!vars, StateOf, ReachOf
<1>3. CASE Terminate \/ Kill
  BY <1>1, <1>2, <1>3, DrainPromised DEF Terminate, Kill, Default, Live
<1>4. CASE Interrupt
  <2>1. CASE phase \in Computing /\ interrupted /\ Exit("0")
    <3>1. StateOf = "starting"
      BY <2>1, StateByPhase
    <3>2. QED
      BY <2>1, <3>1, ExitEnds DEF Promise!Finish, Promise!Next
  <2>2. CASE /\ phase \in Computing /\ interrupted' = TRUE
             /\ UNCHANGED <<phase, launch, argv, runVars, stdin, code>>
    <3>1. StateOf = "starting" /\ StateOf' = StateOf /\ ReachOf' = ReachOf
      BY <2>2, StateByPhase DEF StateOf, ReachOf, runVars
    <3>2. QED
      BY <2>2, <3>1 DEF Promise!Note, Promise!Next
  <2>3. QED
    BY <1>1, <1>2, <1>4, <2>1, <2>2, DrainPromised
    DEF Interrupt, Default, Live, Shelled, Computing
<1>5. QED
  BY <1>3, <1>4 DEF Signal

LEMMA StartPromised ==
    ASSUME StartupInv, Start
    PROVE  Promise!Next
<1>1. /\ phase = "absent" /\ phase' = "shell" /\ launch' \in Launches
      /\ UNCHANGED <<interrupted, code>>
  BY DEF Start
<1>2. StateOf = "absent" /\ ReachOf = "none" /\ StateOf' = "starting" /\ ReachOf' = "none"
  BY <1>1 DEF StateOf, ReachOf, Shelled, Computing
<1>3. QED
  BY <1>1, <1>2 DEF Promise!Start, Promise!Next

LEMMA RemovePromised ==
    ASSUME StartupInv, Remove
    PROVE  Promise!Next
<1>1. StateOf # "absent"
  BY StateByPhase DEF Remove, StartupInv, StartupTypeOK, Phases, Live, Serving
<1>2. /\ launch' = Nothing /\ interrupted' = FALSE /\ code' = "none"
      /\ StateOf' = "absent" /\ ReachOf' = "none"
  BY DEF Remove, StateOf, ReachOf, Shelled, Computing
<1>3. QED
  BY <1>1, <1>2 DEF Promise!Remove, Promise!Next, Nothing, Promise!Nothing

(* Every step of a container is one the promise allows. *)
LEMMA StepPromised ==
    StartupInv /\ StartupInv' /\ [StartupNext]_startVars => [Promise!Next]_(Promise!vars)
<1>1. UNCHANGED startVars => UNCHANGED Promise!vars
  BY DEF startVars, runVars, Promise!vars, StateOf, ReachOf
<1>2. CloseInput => UNCHANGED Promise!vars
  BY DEF CloseInput, runVars, Promise!vars, StateOf, ReachOf
<1>3. QED
  BY <1>1, <1>2, StartPromised, ProcessPromised, DrainedPromised, SignalPromised,
     RemovePromised DEF StartupNext

(* The server as it starts implements what it promises: whatever the       *)
(* spelling of a launch, it is refused exactly when it is wrong in itself. *)
THEOREM RefinesLifecycle == StartupSpec => StartsAsPromised
BY StartsInit, StepPromised, StartupInvariance, PTL
DEF StartupSpec, StartsAsPromised, Promise!Spec

=============================================================================
