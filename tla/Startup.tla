------------------------------- MODULE Startup -------------------------------
(***************************************************************************)
(* One container of the server, from docker run to its removal: the        *)
(* entrypoint script resolves the transport (docker-entrypoint.sh), the    *)
(* CLI reads the environment, builds the server and runs it (config.py,    *)
(* __main__.py, main and run_server of server.py), and an end of input, a  *)
(* signal or a refusal ends it.                                            *)
(*                                                                         *)
(* Until it serves, the process is one synchronous computation; what can   *)
(* come in between is a signal, whose effect depends on how far it got.    *)
(* A value of the environment is what the parsers make of it: unset,       *)
(* empty, blank, malformed, out of range or usable.                        *)
(***************************************************************************)
CONSTANT Launches  \* the command lines and environments to start with

Transports == {"stdio", "http", "http-loopback"}
Numbers == {"unset", "empty", "malformed", "out_of_range", "valid"}
Hosts == {"loopback", "remote"}
Modes == {"stdio", "sse", "streamable-http"}
HttpModes == Modes \ {"stdio"}

(* MCP_TRANSPORT, the first argument, the options after it, PORT,          *)
(* MCP_WEATHER_PORT, MCP_WEATHER_HOST, the token, the other settings, and  *)
(* docker run --init.                                                      *)
Launch ==
    [transport : Transports \cup {"unset", "blank", "unknown"},
     positional : Transports \cup {"none", "stray"},
     mode : Modes \cup {"none"},
     host : Hosts \cup {"none"},
     remote : BOOLEAN,
     PORT : Numbers,
     weatherPort : Numbers,
     weatherHost : Hosts \cup {"unset"},
     token : {"unset", "blank", "set"},
     settings : {"malformed", "out_of_range", "valid"},
     init : BOOLEAN]

(* docker run --init of the image as it is built: ENV MCP_TRANSPORT=stdio, *)
(* CMD ["stdio"].                                                          *)
Image ==
    [transport |-> "stdio", positional |-> "stdio", mode |-> "none", host |-> "none",
     remote |-> FALSE, PORT |-> "unset", weatherPort |-> "unset", weatherHost |-> "unset",
     token |-> "unset", settings |-> "valid", init |-> TRUE]

ASSUME StartupAssumption == Launches \subseteq Launch

VARIABLES
    phase,       \* how far the container is
    launch,      \* what it was started with
    argv,        \* the arguments of python -m percival_weather_mcp
    settings,    \* the configurable values of _runtime_settings
    taken,       \* those of them that others have read once and kept
    registry,    \* tool_handlers
    advertised,  \* what the server object app offers
    bound,       \* the host it listens on
    auth,        \* whether BearerTokenAuthMiddleware is installed
    stdin,       \* whether its input is still open
    interrupted, \* a SIGINT that asyncio.run has noted
    code         \* its exit code

runVars == <<settings, taken, registry, advertised, bound, auth>>
startVars == <<phase, launch, argv, runVars, stdin, interrupted, code>>

Nothing == <<>>

Shelled == {"shell"}
Computing == {"importing", "parsing", "checking", "registering", "running", "opening"}
Live == Shelled \cup Computing \cup {"serving", "draining"}
Phases == {"absent", "exited"} \cup Live

Values == {"none", "default", "malformed", "out_of_range", "valid"}
Readers == {"logging", "prompts", "limiter"}
Catalogue == {"tools", "status", "prompts", "resources"}
ExitCodes == {"none", "0", "1", "2", "130", "137", "143"}

Arguments ==
    [mode : Modes, host : Hosts, port : Numbers, remote : BOOLEAN, stray : BOOLEAN]

StartupTypeOK ==
    /\ phase \in Phases
    /\ launch \in Launches \cup {Nothing}
    /\ argv \in Arguments \cup {Nothing}
    /\ settings \in Values
    /\ taken \in [Readers -> Values]
    /\ registry \in BOOLEAN
    /\ advertised \subseteq Catalogue
    /\ bound \in Hosts \cup {"none"}
    /\ auth \in BOOLEAN
    /\ stdin \in {"open", "closed"}
    /\ interrupted \in BOOLEAN
    /\ code \in ExitCodes
    /\ phase = "absent" <=> launch = Nothing
    /\ phase = "exited" <=> code # "none"

StartupInit ==
    /\ phase = "absent"
    /\ launch = Nothing
    /\ argv = Nothing
    /\ settings = "none"
    /\ taken = [r \in Readers |-> "none"]
    /\ registry = FALSE
    /\ advertised = {}
    /\ bound = "none"
    /\ auth = FALSE
    /\ stdin = "open"
    /\ interrupted = FALSE
    /\ code = "none"

-----------------------------------------------------------------------------
(* docker-entrypoint.sh.                                                   *)

(* MCP_TRANSPORT first, unless it is empty; blanks are only stripped after *)
(* the choice.                                                             *)
TransportArgumentFirst(l) ==
    LET chosen == IF l.positional \in Transports THEN l.positional
                  ELSE IF l.transport # "unset" THEN l.transport ELSE "stdio"
    IN  IF chosen = "blank" THEN "stdio" ELSE chosen

Transport(l) ==
    LET chosen == IF l.transport # "unset" THEN l.transport
                  ELSE IF l.positional \in Transports THEN l.positional ELSE "stdio"
    IN  IF chosen = "blank" THEN "stdio" ELSE chosen

Override(option, default) == IF option = "none" THEN default ELSE option

(* What the script passes on; the options of the operator come last.       *)
CommandLine(l) ==
    LET t == Transport(l) IN
    [mode |-> Override(l.mode, IF t = "stdio" THEN "stdio" ELSE "streamable-http"),
     host |-> Override(l.host, IF t = "http" THEN "remote" ELSE "loopback"),
     port |-> CASE t = "stdio" -> "unset"
                [] t # "stdio" /\ l.PORT \in {"unset", "empty"} -> "valid"
                [] t # "stdio" /\ l.PORT \notin {"unset", "empty"} -> l.PORT,
     remote |-> l.remote \/ t = "http",
     stray |-> l.positional = "stray"]

-----------------------------------------------------------------------------
(* config.py.                                                              *)

(* read_port: PORT, even an empty one, over MCP_WEATHER_PORT. *)
PortText(l) == IF l.PORT # "unset" THEN l.PORT ELSE l.weatherPort

Malformed(number) == number \in {"empty", "malformed"}

(* from_env raises; it reads the port before an argument replaces it.      *)
Unreadable(l) == Malformed(PortText(l)) \/ l.settings = "malformed"

(* The port of main: --port, or read_port. *)
Port(l, args) == IF args.port # "unset" THEN args.port ELSE PortText(l)

(* validate raises, on the values main has put together. *)
OutOfRange(l, args) == Port(l, args) = "out_of_range" \/ l.settings = "out_of_range"

(* Settings.from_env, with the defaults where it is not given. *)
FromEnv(l) == l.settings

-----------------------------------------------------------------------------
Exit(c) ==
    /\ phase' = "exited"
    /\ code' = c
    /\ bound' = "none"
    /\ UNCHANGED <<launch, argv, settings, taken, registry, advertised, auth, stdin, interrupted>>

Continue(next) == phase' = next /\ UNCHANGED <<launch, stdin, interrupted, code>>

Start ==
    /\ phase = "absent"
    /\ phase' = "shell"
    /\ launch' \in Launches
    /\ UNCHANGED <<argv, runVars, stdin, interrupted, code>>

(* An unknown transport is refused, anything else becomes a command line.  *)
Dispatch ==
    /\ phase = "shell"
    /\ \/ /\ Transport(launch) = "unknown"
          /\ Exit("2")
       \/ /\ Transport(launch) # "unknown"
          /\ argv' = CommandLine(launch)
          /\ Continue("importing")
          /\ UNCHANGED runVars

(* The import of config never raises: an environment it cannot read is     *)
(* left to main, with the defaults meanwhile.                              *)
Import ==
    /\ phase = "importing"
    /\ settings' = IF Unreadable(launch) THEN "default" ELSE FromEnv(launch)
    /\ Continue("parsing")
    /\ UNCHANGED <<argv, taken, registry, advertised, bound, auth>>

Take(reader) == taken' = [taken EXCEPT ![reader] = settings']

(* parse_args, read_port, the token, and the first configure_logging.      *)
Parse ==
    /\ phase = "parsing"
    /\ \/ /\ argv.stray \/ argv.port = "malformed"
          /\ Exit("2")
       \/ /\ ~(argv.stray \/ argv.port = "malformed")
          /\ argv.port = "unset" /\ Malformed(PortText(launch))
          /\ Exit("1")
       \/ /\ ~(argv.stray \/ argv.port = "malformed")
          /\ ~(argv.port = "unset" /\ Malformed(PortText(launch)))
          /\ UNCHANGED settings
          /\ Take("logging")
          /\ Continue("checking")
          /\ UNCHANGED <<argv, registry, advertised, bound, auth>>

(* The ConfigurationErrors of from_env and validate; the Settings are only *)
(* checked here, and not kept.                                             *)
CheckRangeOnly ==
    /\ phase = "checking"
    /\ \/ /\ OutOfRange(launch, argv)
          /\ Exit("1")
       \/ /\ ~OutOfRange(launch, argv)
          /\ Continue("registering")
          /\ UNCHANGED <<argv, runVars>>

Check ==
    /\ phase = "checking"
    /\ \/ /\ Unreadable(launch) \/ OutOfRange(launch, argv)
          /\ Exit("1")
       \/ /\ ~(Unreadable(launch) \/ OutOfRange(launch, argv))
          /\ Continue("registering")
          /\ UNCHANGED <<argv, runVars>>

(* register_all_tools, then create_fastmcp_server, which offers nothing    *)
(* while tool_handlers is empty.                                           *)
Register ==
    /\ phase = "registering"
    /\ registry' = TRUE
    /\ advertised' = IF registry' THEN Catalogue ELSE {}
    /\ UNCHANGED settings
    /\ Take("prompts")
    /\ Continue("running")
    /\ UNCHANGED <<argv, bound, auth>>

HasToken(l) == l.token = "set"

(* validate_http_runtime_security raises. *)
UnsafeTokenOnly(l, args) ==
    args.mode = "streamable-http" /\ args.host = "remote" /\ (~args.remote \/ ~HasToken(l))

Unsafe(l, args) ==
    args.mode \in HttpModes /\ args.host = "remote" /\ (~args.remote \/ ~HasToken(l))

(* run_server up to the transport: the settings once more, kept this time, *)
(* logging after them, and the check of the host.  app is reused.          *)
Prepare ==
    /\ phase = "running"
    /\ settings' = FromEnv(launch)
    /\ Take("logging")
    /\ \/ /\ Unsafe(launch, argv)
          /\ phase' = "exited" /\ code' = "1"
          /\ UNCHANGED <<launch, stdin, interrupted>>
       \/ /\ ~Unsafe(launch, argv)
          /\ Continue("opening")
    /\ UNCHANGED <<argv, registry, advertised, bound, auth>>

(* run_stdio_async, its signal handlers installed.  An interrupt that came *)
(* earlier has cancelled the main task: it ends at its first await.        *)
OpenStdioDrained ==
    /\ phase = "opening"
    /\ argv.mode = "stdio"
    /\ IF interrupted
       THEN Exit("0")
       ELSE /\ phase' = "serving"
            /\ stdin' = "open"
            /\ UNCHANGED <<launch, argv, runVars, interrupted, code>>

OpenStdio ==
    /\ phase = "opening"
    /\ argv.mode = "stdio"
    /\ IF interrupted
       THEN Exit("0")
       ELSE Continue("serving") /\ UNCHANGED <<argv, runVars>>

(* _run_http_transport: the limiter takes its rate, the token is required  *)
(* where there is one, and uvicorn binds the port.                         *)
OpenHttp ==
    /\ phase = "opening"
    /\ argv.mode \in HttpModes
    /\ IF interrupted
       THEN Exit("0")
       ELSE /\ UNCHANGED settings
            /\ Take("limiter")
            /\ auth' = HasToken(launch)
            /\ bound' = argv.host
            /\ Continue("serving")
            /\ UNCHANGED <<argv, registry, advertised>>

(* The address is in use. *)
FailToBind == phase = "opening" /\ argv.mode \in HttpModes /\ ~interrupted /\ Exit("1")

Open == OpenStdio \/ OpenHttp

-----------------------------------------------------------------------------
(* The end.                                                                *)

(* Whoever holds the other end closes the input. *)
CloseInput ==
    /\ phase \in Live
    /\ stdin = "open"
    /\ stdin' = "closed"
    /\ UNCHANGED <<phase, launch, argv, runVars, interrupted, code>>

(* An EOF ends the stdio session. *)
EndOfInput ==
    /\ phase = "serving"
    /\ argv.mode = "stdio"
    /\ stdin = "closed"
    /\ Exit("0")

Drain ==
    /\ phase = "serving"
    /\ argv.mode \in HttpModes
    /\ Continue("draining")
    /\ UNCHANGED <<argv, runVars>>

(* uvicorn is done with its connections and raises the signal again.       *)
Drained == phase = "draining" /\ \E c \in {"0", "143"} : Exit(c)

(* A signal without a handler ends a process, except process 1, which      *)
(* python is without --init: then it is ignored.                           *)
Default(c) == IF launch.init THEN Exit(c) ELSE UNCHANGED startVars

(* SIGTERM: nobody handles it before the transport does. *)
Terminate ==
    \/ phase \in Shelled \cup Computing /\ Default("143")
    \/ phase = "serving" /\ argv.mode = "stdio" /\ Exit("143")
    \/ Drain
    \/ phase = "draining" /\ UNCHANGED startVars

(* SIGINT: python handles it from the start, as an exception while it      *)
(* imports and through asyncio.run once main is running, which notes the   *)
(* first and raises at the second.                                         *)
Interrupt ==
    \/ phase = "shell" /\ Default("130")
    \/ phase = "importing" /\ Exit("130")
    \/ /\ phase \in Computing \ {"importing"}
       /\ IF interrupted
          THEN Exit("0")
          ELSE interrupted' = TRUE /\ UNCHANGED <<phase, launch, argv, runVars, stdin, code>>
    \/ phase = "serving" /\ argv.mode = "stdio" /\ Exit("130")
    \/ Drain
    \/ phase = "draining" /\ UNCHANGED startVars

Kill == phase \in Live /\ Exit("137")

(* docker rm -f, whatever state it is in. *)
Remove ==
    /\ phase # "absent"
    /\ phase' = "absent"
    /\ launch' = Nothing
    /\ argv' = Nothing
    /\ settings' = "none"
    /\ taken' = [r \in Readers |-> "none"]
    /\ registry' = FALSE
    /\ advertised' = {}
    /\ bound' = "none"
    /\ auth' = FALSE
    /\ stdin' = "open"
    /\ interrupted' = FALSE
    /\ code' = "none"

(* What the process does by itself, and what is done to it. *)
Process ==
    \/ Dispatch \/ Import \/ Parse \/ Check \/ Register \/ Prepare
    \/ Open \/ FailToBind \/ EndOfInput

Signal == Terminate \/ Interrupt \/ Kill

StartupNext ==
    \/ Start
    \/ Process \/ Drained
    \/ CloseInput \/ Signal \/ Remove

(* The process is scheduled; connections may be held open for ever.        *)
StartupFairness == WF_startVars(Process)

StartupSpec == StartupInit /\ [][StartupNext]_startVars /\ StartupFairness

-----------------------------------------------------------------------------
(* What a launch asks for, as README.md tells the operator.                *)

(* The transport a launch asks for: the variable's, whatever the argument; *)
(* without one the argument's, and stdio without either.                   *)
AskedTransport(l) ==
    CASE l.transport \in Transports \cup {"unknown"} -> l.transport
      [] l.transport = "unset" /\ l.positional \in Transports -> l.positional
      [] l.transport = "blank" \/ (l.transport = "unset" /\ l.positional \notin Transports) -> "stdio"

AsksForHttp(l) ==
    \/ l.mode \in HttpModes
    \/ l.mode = "none" /\ AskedTransport(l) \in {"http", "http-loopback"}

AsksForRemote(l) ==
    AsksForHttp(l) /\ (l.host = "remote" \/ (l.host = "none" /\ AskedTransport(l) = "http"))

(* A command line nobody can parse. *)
Misused(l) ==
    \/ AskedTransport(l) = "unknown"
    \/ l.positional = "stray"
    \/ AskedTransport(l) # "stdio" /\ l.PORT = "malformed"

(* A number that is none or is out of range, wherever it is read from; the *)
(* script only passes PORT on.                                             *)
Misconfigured(l) ==
    \/ l.settings # "valid"
    \/ l.PORT \in {"empty", "malformed", "out_of_range"}
    \/ l.PORT = "unset" /\ Malformed(l.weatherPort)
    \/ l.PORT = "unset" /\ l.weatherPort = "out_of_range" /\ AskedTransport(l) = "stdio"

(* Open to the network without a token, or without saying so. *)
Exposed(l) ==
    AsksForRemote(l) /\ (l.token # "set" \/ ~(l.remote \/ AskedTransport(l) = "http"))

Verdict(l) ==
    IF Misused(l) THEN "2" ELSE IF Misconfigured(l) \/ Exposed(l) THEN "1" ELSE "accepted"

Reach(l) ==
    CASE AsksForRemote(l) -> "remote"
      [] AsksForHttp(l) /\ ~AsksForRemote(l) -> "loopback"
      [] ~AsksForHttp(l) -> "pipe"

StateOf ==
    CASE phase \in Shelled \cup Computing -> "starting"
      [] phase \in {"serving", "draining"} -> IF advertised = Catalogue THEN "serving" ELSE "incomplete"
      [] phase \in {"absent", "exited"} -> phase

ReachOf ==
    IF phase \in {"serving", "draining"} THEN Override(bound, "pipe") ELSE "none"

Promise == INSTANCE Lifecycle WITH
    state <- StateOf,
    reach <- ReachOf,
    noted <- interrupted

(* "The server refuses to start on this error" (config.py): whatever the   *)
(* spellings and places of a launch's options, it is refused exactly when  *)
(* it is wrong in itself, with the code of its mistake, and otherwise      *)
(* serves, with its whole catalogue, where it was asked to and nowhere     *)
(* else.  It reports success only after it has served or was interrupted.  *)
StartsAsPromised == Promise!Spec

(* Nothing is reachable from the network without the operator's token, and *)
(* unless the operator has said so.                                        *)
RemoteIsAuthenticated ==
    bound = "remote" => auth /\ launch.token = "set" /\ AsksForRemote(launch)

(* Whoever has read its settings once, the log handler, the prompts and    *)
(* the rate limiter, has read the ones in force: the defaults that stand   *)
(* in for an unreadable environment never survive the start.               *)
SettingsInForce ==
    phase \in {"serving", "draining"} =>
        \A r \in Readers : taken[r] \in {"none", settings} /\ settings = launch.settings

(* An EOF that comes at any time, before the server reads it or after,     *)
(* ends a container that serves stdio.                                     *)
EofEnds ==
    stdin = "closed" /\ ~AsksForHttp(launch) ~> phase \in {"exited", "absent"}

(* "Bind host for the HTTP transports" (README.md, of MCP_WEATHER_HOST):   *)
(* where the command line names no host, it is the environment's.          *)
HostFromEnvironment ==
    bound # "none" /\ launch.weatherHost # "unset" /\ launch.host = "none"
        /\ AskedTransport(launch) = "stdio"
        => bound = launch.weatherHost

=============================================================================
