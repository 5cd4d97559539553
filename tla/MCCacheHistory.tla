----------------------------- MODULE MCCacheHistory -----------------------------
(***************************************************************************)
(* CacheHistory for TLC: three places, one of them spelled in two ways,    *)
(* share two entries.                                                      *)
(***************************************************************************)
EXTENDS CacheHistory, TLC

CONSTANTS paris, PARIS, oslo, lima, kParis, kOslo, kLima, p1, p2

(* The provider may change its mind about a place. *)
Providers == Permutations({p1, p2})

Normalized == (paris :> kParis) @@ (PARIS :> kParis) @@ (oslo :> kOslo) @@ (lima :> kLima)

=============================================================================
