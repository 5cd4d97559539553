------------------------------ MODULE MCGeocoding ------------------------------
(***************************************************************************)
(* Geocoding for TLC: a city with a country alias that two callers spell   *)
(* in two ways, one with another suffix and one without, one cache entry.  *)
(***************************************************************************)
EXTENDS Geocoding, TLC

CONSTANTS t1, t2, torontoCA, TorontoCA, salemOR, oslo, kToronto, kSalem, kOslo

Normalized ==
    (torontoCA :> kToronto) @@ (TorontoCA :> kToronto) @@ (salemOR :> kSalem) @@ (oslo :> kOslo)

Suffixes ==
    (torontoCA :> "alias") @@ (TorontoCA :> "alias") @@ (salemOR :> "other") @@ (oslo :> "none")

(* In the region, in the country, named otherwise, or none of it. *)
CandidatesTold ==
    {[inRegion |-> r, inCountry |-> c, named |-> n] : r, c, n \in BOOLEAN}
CandidatesApart ==
    {d \in CandidatesTold : Cardinality({f \in DOMAIN d : d[f]}) <= 1}

Callers == Permutations({t1, t2})

=============================================================================
