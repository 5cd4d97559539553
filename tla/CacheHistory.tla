------------------------------ MODULE CacheHistory ------------------------------
(***************************************************************************)
(* GeocodingCache with a history variable: what was last stored under each *)
(* key and how long ago, which the cache itself forgets with the entry.    *)
(***************************************************************************)
EXTENDS GeocodingCache

VARIABLE written  \* per key: the value stored last and its age, up to TTL

historyVars == <<cacheVars, written>>

Nothing == <<>>

HistoryInit == Init /\ written = [k \in Keys |-> Nothing]

StoreSeen(city, v) ==
    /\ Store(city, v)
    /\ written' = [written EXCEPT ![KeyOf[city]] = [value |-> v, age |-> 0]]

LookupSeen(reader, city) == Lookup(reader, city) /\ UNCHANGED written

ClearSeen == Clear /\ written' = [k \in Keys |-> Nothing]

TickSeen ==
    /\ Tick
    /\ written' = [k \in Keys |->
            IF written[k] # Nothing /\ written[k].age < TTL
            THEN [written[k] EXCEPT !.age = @ + 1]
            ELSE written[k]]

HistoryNext ==
    \/ ClearSeen
    \/ TickSeen
    \/ \E city \in Cities :
        \/ \E reader \in Kinds : LookupSeen(reader, city)
        \/ \E v \in Values : StoreSeen(city, v)

HistorySpec == HistoryInit /\ [][HistoryNext]_historyVars

-----------------------------------------------------------------------------
Promise == INSTANCE TtlStore WITH
    stored <- written,
    Keys <- Keys,
    Values <- Values,
    Readable <- Readable

(* No lookup ever returns a place that was stored too long ago or has been *)
(* overwritten, and none forgets a place that is young enough, unless      *)
(* MaxSize other places came in after it: expired entries make room first. *)
CachesAsPromised == Promise!Spec

=============================================================================
