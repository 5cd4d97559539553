------------------------------ MODULE MCToolCalls ------------------------------
(***************************************************************************)
(* ToolCalls for TLC: two calls about two cities.                          *)
(***************************************************************************)
EXTENDS ToolCalls, TLC

CONSTANTS t1, t2, c1, c2

Alike == Permutations({t1, t2}) \cup Permutations({c1, c2})

=============================================================================
