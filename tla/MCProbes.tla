------------------------------- MODULE MCProbes -------------------------------
(***************************************************************************)
(* Probes for TLC.  An operator's launches vary the transport and the      *)
(* options, then the numbers and the settings, then the host; a script     *)
(* polls twice, and is also given wrong environments.                      *)
(***************************************************************************)
EXTENDS Probes

Plain == [Image EXCEPT !.init = FALSE]

ByOptions ==
    {[Plain EXCEPT !.transport = t, !.positional = p, !.mode = m, !.host = h,
                   !.remote = r, !.token = k] :
        t \in Transports \cup {"unset", "blank", "unknown"},
        p \in Transports \cup {"none", "stray"},
        m \in Modes \cup {"none"},
        h \in Hosts \cup {"none"},
        r \in BOOLEAN,
        k \in {"blank", "set"}}

ByNumbers ==
    {[Image EXCEPT !.transport = t, !.PORT = n, !.weatherPort = w, !.settings = s, !.token = "set"] :
        t \in {"stdio", "http"},
        n \in Numbers,
        w \in Numbers,
        s \in {"malformed", "out_of_range", "valid"}}

ByHost ==
    {[Plain EXCEPT !.mode = m, !.host = h, !.weatherHost = w, !.remote = TRUE, !.token = "set"] :
        m \in HttpModes,
        h \in Hosts \cup {"none"},
        w \in Hosts}

Environments ==
    {Image, HttpMode("set"), HttpMode("unset"),
     [Image EXCEPT !.settings = "malformed"], [Image EXCEPT !.transport = "unknown"]}

Scripted ==
    (UNION {Targets(s) : s \in Scripts \ {"session", "conformance"}})
    \cup Environments \cup {[c EXCEPT !.init = FALSE] : c \in Environments}

MCLaunches == ByOptions \cup ByNumbers \cup ByHost \cup Scripted

=============================================================================
