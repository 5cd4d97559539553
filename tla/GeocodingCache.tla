----------------------------- MODULE GeocodingCache -----------------------------
(***************************************************************************)
(* GeocodingCache (http_client.py), the process-wide cache of geocoded     *)
(* places.  Every operation holds the threading.Lock from its first read   *)
(* to its last write, so each is one step whichever thread calls it.       *)
(*                                                                         *)
(* expires_at is kept as what is left of it: monotonic() >= expires_at is  *)
(* ttl = 0.                                                                *)
(***************************************************************************)
EXTENDS Integers, FiniteSets

CONSTANTS
    Cities,    \* city names as callers spell them
    Keys,      \* their normal forms
    KeyOf,     \* _key: strip().lower()
    Places,    \* resolved places
    TTL,       \* _ttl_seconds
    MaxSize    \* _max_size

ASSUME CacheAssumption ==
    /\ IsFiniteSet(Keys)
    /\ KeyOf \in [Cities -> Keys]
    /\ TTL \in Nat \ {0}
    /\ MaxSize \in Nat \ {0}

VARIABLES
    entries,   \* _entries: for some keys, the value and the time left
    answer     \* the last lookup: its key and what it returned, if not None

cacheVars == <<entries, answer>>

(* set_location stores a ResolvedLocation, set a pair of coordinates. *)
Kinds == {"location", "coordinates"}
Values == [kind : Kinds, place : Places]
Entry == [value : Values, ttl : 0..TTL]

TypeOK ==
    /\ DOMAIN entries \subseteq Keys
    /\ entries \in [DOMAIN entries -> Entry]
    /\ answer \in {<<>>} \cup (Keys \X SUBSET Values)

Init ==
    /\ entries = [k \in {} |-> <<>>]
    /\ answer = <<>>

-----------------------------------------------------------------------------
Expired(k) == entries[k].ttl = 0

(* _get drops the entry it finds expired. *)
DropExpired(k) ==
    IF k \in DOMAIN entries /\ Expired(k)
    THEN [j \in DOMAIN entries \ {k} |-> entries[j]]
    ELSE entries

(* get_location has no use for a pair of coordinates, get has for both.    *)
Readable(reader, v) == reader = "location" => v.kind = "location"

Found(reader, k) ==
    k \in DOMAIN entries /\ ~Expired(k) /\ Readable(reader, entries[k].value)

(* get_location, and get. *)
Lookup(reader, city) ==
    LET k == KeyOf[city] IN
    /\ answer' = <<k, IF Found(reader, k) THEN {entries[k].value} ELSE {}>>
    /\ entries' = DropExpired(k)

-----------------------------------------------------------------------------
(* The entry _store makes room with: one that expires first. *)
Oldest(k) == k \in DOMAIN entries /\ \A j \in DOMAIN entries : entries[k].ttl <= entries[j].ttl

Newest(k) == k \in DOMAIN entries /\ \A j \in DOMAIN entries : entries[k].ttl >= entries[j].ttl

(* The entries that stay when k is stored: all of them, when k has one     *)
(* already or there is room; the keyed dictionary never grows past         *)
(* MaxSize.                                                                *)
StayingOffByOne(k, stay) ==
    \/ /\ k \in DOMAIN entries \/ Cardinality(DOMAIN entries) <= MaxSize
       /\ stay = DOMAIN entries
    \/ /\ k \notin DOMAIN entries /\ Cardinality(DOMAIN entries) > MaxSize
       /\ \E old \in DOMAIN entries : Oldest(old) /\ stay = DOMAIN entries \ {old}

StayingNewestOut(k, stay) ==
    \/ /\ k \in DOMAIN entries \/ Cardinality(DOMAIN entries) < MaxSize
       /\ stay = DOMAIN entries
    \/ /\ k \notin DOMAIN entries /\ Cardinality(DOMAIN entries) >= MaxSize
       /\ \E new \in DOMAIN entries : Newest(new) /\ stay = DOMAIN entries \ {new}

Staying(k, stay) ==
    \/ /\ k \in DOMAIN entries \/ Cardinality(DOMAIN entries) < MaxSize
       /\ stay = DOMAIN entries
    \/ /\ k \notin DOMAIN entries /\ Cardinality(DOMAIN entries) >= MaxSize
       /\ \E old \in DOMAIN entries : Oldest(old) /\ stay = DOMAIN entries \ {old}

StoreAsSpelled(city, v) ==
    \E stay \in SUBSET DOMAIN entries :
        /\ Staying(city, stay)
        /\ entries' = [j \in stay \cup {city} |->
                IF j = city THEN [value |-> v, ttl |-> TTL] ELSE entries[j]]
        /\ UNCHANGED answer

(* set_location, and set. *)
Store(city, v) ==
    LET k == KeyOf[city] IN
    \E stay \in SUBSET DOMAIN entries :
        /\ Staying(k, stay)
        /\ entries' = [j \in stay \cup {k} |->
                IF j = k THEN [value |-> v, ttl |-> TTL] ELSE entries[j]]
        /\ UNCHANGED answer

Clear == entries' = [k \in {} |-> <<>>] /\ UNCHANGED answer

PassTime ==
    entries' = [k \in DOMAIN entries |->
        IF Expired(k) THEN entries[k] ELSE [entries[k] EXCEPT !.ttl = @ - 1]]

Tick == PassTime /\ UNCHANGED answer

Next ==
    \/ Clear
    \/ Tick
    \/ \E city \in Cities :
        \/ \E reader \in Kinds : Lookup(reader, city)
        \/ \E v \in Values : Store(city, v)

Spec == Init /\ [][Next]_cacheVars

-----------------------------------------------------------------------------
(* The cache never holds more than MaxSize entries, expired ones included. *)
SizeBounded == Cardinality(DOMAIN entries) <= MaxSize

=============================================================================
