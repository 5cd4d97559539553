--------------------------- MODULE MCResilientClient ---------------------------
(***************************************************************************)
(* ResilientClient for TLC.  c1 and c2 geocode (they pass the breaker), c3 *)
(* asks for a forecast (it does not).                                      *)
(***************************************************************************)
EXTENDS ResilientClient

CONSTANTS c1, c2, c3, k1, k2, k3

(* One task has a client of its own, the other two share one. *)
ClientOfMixed == [c \in Tasks |-> IF c = c1 THEN k1 ELSE k2]

(* Every task calls through get_shared_client(). *)
ClientOfShared == [c \in Tasks |-> k1]

(* Every tool call builds a ResilientHttpClient of its own. *)
ClientOfOwn == [c \in Tasks |-> CASE c = c1 -> k1 [] c = c2 -> k2 [] c = c3 -> k3]

InFlightAll == {c \in Tasks : pc[c] = "inflight"}

(* "a global asyncio semaphore to cap concurrent in-flight requests"       *)
(* (http_client.py:5-6), "Maximum in-flight outbound HTTP requests"        *)
(* (README.md:350): the process has at most http_max_concurrency requests  *)
(* on the wire.                                                            *)
ProcessInFlightBounded == Cardinality(InFlightAll) <= MaxConcurrency

=============================================================================
