------------------------------- MODULE MCReport -------------------------------
(***************************************************************************)
(* Report for TLC: three hours to a day, four ticks to an hour, a clock    *)
(* that runs past one midnight, ranges that reach a day beyond the window  *)
(* on either side, and every boundary of the air quality categories.       *)
(***************************************************************************)
EXTENDS Report

MCDays == -3..3

MCIndices ==
    {Missing, 0, 50, 51, 100, 101, 150, 151, 200, 201, 300, 301, 500, 501}

=============================================================================
