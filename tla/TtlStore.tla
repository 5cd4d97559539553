-------------------------------- MODULE TtlStore --------------------------------
(***************************************************************************)
(* What GeocodingCache promises: a lookup answers with what was stored     *)
(* last under the key, while it is younger than TTL.  It may answer with   *)
(* nothing earlier only if MaxSize other keys were stored no earlier.      *)
(***************************************************************************)
EXTENDS Integers, FiniteSets

CONSTANTS Keys, Values, TTL, MaxSize, Readable(_, _)

VARIABLES
    stored,   \* per key: what was stored last, and how long ago
    answer    \* the last lookup: its key and what it found, if anything

Nothing == <<>>

Init ==
    /\ stored = [k \in Keys |-> Nothing]
    /\ answer = <<>>

Written == {k \in Keys : stored[k] # Nothing}

(* The keys that may have taken the place of k. *)
Rivals(k) == {j \in Written \ {k} : stored[j].age <= stored[k].age}

Fresh(k) == k \in Written /\ stored[k].age < TTL

Store(k, v) ==
    /\ stored' = [stored EXCEPT ![k] = [value |-> v, age |-> 0]]
    /\ UNCHANGED answer

(* A reader of one kind cannot use every value. *)
Hit(k, reader) ==
    /\ Fresh(k)
    /\ Readable(reader, stored[k].value)
    /\ answer' = <<k, {stored[k].value}>>
    /\ UNCHANGED stored

Forget(k, reader) ==
    /\ Fresh(k) /\ Readable(reader, stored[k].value) => Cardinality(Rivals(k)) >= MaxSize
    /\ answer' = <<k, {}>>
    /\ UNCHANGED stored

Clear ==
    /\ stored' = [k \in Keys |-> Nothing]
    /\ UNCHANGED answer

Tick ==
    /\ stored' = [k \in Keys |->
            IF k \in Written /\ stored[k].age < TTL
            THEN [stored[k] EXCEPT !.age = @ + 1]
            ELSE stored[k]]
    /\ UNCHANGED answer

Readers == {"location", "coordinates"}

Next ==
    \/ Clear
    \/ Tick
    \/ \E k \in Keys :
        \/ \E v \in Values : Store(k, v)
        \/ \E reader \in Readers : Hit(k, reader) \/ Forget(k, reader)

Spec == Init /\ [][Next]_<<stored, answer>>

=============================================================================
