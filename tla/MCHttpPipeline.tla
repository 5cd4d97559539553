----------------------------- MODULE MCHttpPipeline -----------------------------
(***************************************************************************)
(* HttpPipeline for TLC, with two clients and a token configured.          *)
(***************************************************************************)
EXTENDS HttpPipeline, TLC

CONSTANTS h1, h2

Clients == Permutations({h1, h2})

=============================================================================
