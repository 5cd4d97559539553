------------------------------- MODULE Geocoding -------------------------------
(***************************************************************************)
(* GeocodingService.resolve (tools/geocoding_service.py) run by several    *)
(* tasks over the process-wide cache: the lookup, one or two searches of   *)
(* the provider, the choice among its candidates, and the store.           *)
(*                                                                         *)
(* A task yields only while a search is under way, so everything from an   *)
(* answer to the next search, or to the end, is one step; what the cache   *)
(* said before the search may be out of date after it.                     *)
(*                                                                         *)
(* What the choice tells apart of a candidate is whether it lies in the    *)
(* region the suffix of the city names, in the country it is an alias of,  *)
(* or is otherwise named by the suffix.                                    *)
(***************************************************************************)
EXTENDS GeocodingCache, Functions

CONSTANTS
    Tasks,        \* resolve calls that may run at the same time
    Suffix,       \* what follows the last comma of a city, as it is spelled
    Candidates,   \* the kinds of candidates the provider may answer with
    MaxAnswer     \* bound on the candidates in an answer (the code asks for 10)

Candidate == [inRegion : BOOLEAN, inCountry : BOOLEAN, named : BOOLEAN]

(* No comma, an alias of COUNTRY_ALIASES, or anything else. *)
SuffixKinds == {"none", "alias", "other"}

ASSUME GeocodingAssumption ==
    /\ Suffix \in [Cities -> SuffixKinds]
    /\ Candidates \subseteq Candidate
    /\ MaxAnswer \in Nat

(* resolve compares suffixes by casefold(), and the cache compares whole   *)
(* names by lower(): spellings that share an entry ask for the same, as    *)
(* c.lower().casefold() = c.casefold() for every character c.              *)
ASSUME SpellingAssumption ==
    \A c, d \in Cities : KeyOf[c] = KeyOf[d] => Suffix[c] = Suffix[d]

(* A ResolvedLocation: the candidate selected, and country_filter. *)
Resolved == [selected : Candidate, filtered : BOOLEAN]

ASSUME PlacesAssumption == Places = Resolved

VARIABLES
    pc,       \* where each task is in resolve
    wanted,   \* the city it resolves
    offered,  \* the candidates of its first search
    result    \* what it returned or raised

taskVars == <<pc, wanted, offered, result>>
geoVars == <<cacheVars, taskVars>>

PCs == {"idle", "searching", "retrying", "done"}

NoCity == <<>>

Outcomes == {"none", "found", "not_found", "failed", "cancelled"}

GeoTypeOK ==
    /\ TypeOK
    /\ \A k \in DOMAIN entries : entries[k].value.kind = "location"
    /\ pc \in [Tasks -> PCs]
    /\ wanted \in [Tasks -> Cities \cup {NoCity}]
    /\ offered \in [Tasks -> SUBSET Candidates]
    /\ \A t \in Tasks :
        /\ result[t].outcome \in Outcomes
        /\ result[t].outcome = "found" <=> result[t].place \in {{p} : p \in Resolved}

Nowhere == {}
Outcome(o, place) == [outcome |-> o, place |-> place]

GeoInit ==
    /\ Init
    /\ pc = [t \in Tasks |-> "idle"]
    /\ wanted = [t \in Tasks |-> NoCity]
    /\ offered = [t \in Tasks |-> {}]
    /\ result = [t \in Tasks |-> Outcome("none", Nowhere)]

-----------------------------------------------------------------------------
(* The positions of the candidates kept; what the provider puts first      *)
(* stays first.                                                            *)

InRegion(answers) == {i \in DOMAIN answers : answers[i].inRegion}
InCountry(answers) == {i \in DOMAIN answers : answers[i].inCountry}
IsNamed(answers) == {i \in DOMAIN answers : answers[i].named}

(* The first search is by the whole text.  A region wins over a country of *)
(* the same name, and an unknown suffix has to be part of the identity.    *)
FirstChoiceSuffixDropped(suffix, answers) ==
    IF suffix # "none" /\ InRegion(answers) # {} THEN InRegion(answers) ELSE DOMAIN answers

FirstChoiceCountryFirst(suffix, answers) ==
    CASE suffix = "none"  -> DOMAIN answers
      [] suffix = "alias" -> InCountry(answers)
      [] OTHER            -> IsNamed(answers)

FirstChoice(suffix, answers) ==
    LET regional == InRegion(answers) IN
    CASE suffix = "none" -> DOMAIN answers
      [] suffix # "none" /\ regional # {} -> regional
      [] suffix = "alias" /\ regional = {} -> InCountry(answers)
      [] suffix = "other" /\ regional = {} -> IsNamed(answers)

(* country, which is None again when a region matched. *)
Filtered(suffix, answers) == suffix = "alias" /\ InRegion(answers) = {}

(* The second search is by the name alone, in the country of the alias. *)
SecondChoice(answers) == InCountry(answers)

SearchesAgain(suffix, answers) == suffix = "alias" /\ FirstChoice(suffix, answers) = {}

-----------------------------------------------------------------------------
End(t, r) ==
    /\ pc' = [pc EXCEPT ![t] = "done"]
    /\ result' = [result EXCEPT ![t] = r]

(* The cache is asked; a miss goes on to the first search. *)
Resolve(t, city) ==
    /\ pc[t] = "idle"
    /\ Lookup("location", city)
    /\ wanted' = [wanted EXCEPT ![t] = city]
    /\ IF Found("location", KeyOf[city])
       THEN End(t, Outcome("found", {entries[KeyOf[city]].value.place}))
       ELSE pc' = [pc EXCEPT ![t] = "searching"] /\ UNCHANGED result
    /\ UNCHANGED offered

First(kept) == {i \in kept : \A j \in kept : i <= j}

(* The end of resolve: NoDataError, or the first candidate kept, which     *)
(* goes to the cache and to the caller.                                    *)
Select(t, answers, kept, filtered) ==
    \/ /\ kept = {}
       /\ End(t, Outcome("not_found", Nowhere))
       /\ UNCHANGED cacheVars
    \/ \E i \in First(kept) :
        LET place == [selected |-> answers[i], filtered |-> filtered] IN
            /\ Store(wanted[t], [kind |-> "location", place |-> place])
            /\ End(t, Outcome("found", {place}))

SuffixOf(t) == Suffix[wanted[t]]

FirstAnswer(t, answers) ==
    /\ pc[t] = "searching"
    /\ offered' = [offered EXCEPT ![t] = Range(answers)]
    /\ \/ /\ SearchesAgain(SuffixOf(t), answers)
          /\ pc' = [pc EXCEPT ![t] = "retrying"]
          /\ UNCHANGED <<result, cacheVars>>
       \/ /\ ~SearchesAgain(SuffixOf(t), answers)
          /\ Select(t, answers, FirstChoice(SuffixOf(t), answers),
                          Filtered(SuffixOf(t), answers))
    /\ UNCHANGED wanted

SecondAnswer(t, answers) ==
    /\ pc[t] = "retrying"
    /\ Select(t, answers, SecondChoice(answers), TRUE)
    /\ UNCHANGED <<wanted, offered>>

(* An UpstreamError of the client, or a result without its coordinates. *)
Fail(t) ==
    /\ pc[t] \in {"searching", "retrying"}
    /\ End(t, Outcome("failed", Nowhere))
    /\ UNCHANGED <<wanted, offered, cacheVars>>

Cancel(t) ==
    /\ pc[t] \in {"searching", "retrying"}
    /\ End(t, Outcome("cancelled", Nowhere))
    /\ UNCHANGED <<wanted, offered, cacheVars>>

Return(t) ==
    /\ pc[t] = "done"
    /\ pc' = [pc EXCEPT ![t] = "idle"]
    /\ wanted' = [wanted EXCEPT ![t] = NoCity]
    /\ offered' = [offered EXCEPT ![t] = {}]
    /\ result' = [result EXCEPT ![t] = Outcome("none", Nowhere)]
    /\ UNCHANGED cacheVars

GeoTick == Tick /\ UNCHANGED taskVars

ProviderAnswers == UNION {[1..n -> Candidates] : n \in 0..MaxAnswer}

GeoNext ==
    \/ GeoTick
    \/ \E t \in Tasks :
        \/ \E city \in Cities : Resolve(t, city)
        \/ \E answers \in ProviderAnswers : FirstAnswer(t, answers) \/ SecondAnswer(t, answers)
        \/ Fail(t)
        \/ Cancel(t)
        \/ Return(t)

GeoSpec == GeoInit /\ [][GeoNext]_geoVars

-----------------------------------------------------------------------------
(* What a suffix asks of a place. *)
Honours(suffix, c) ==
    \/ suffix = "none"
    \/ suffix = "alias" /\ (c.inRegion \/ c.inCountry)
    \/ suffix = "other" /\ (c.inRegion \/ c.named)

(* No caller is ever given a place that ignores the suffix it typed, from  *)
(* the provider or from the cache, whoever filled it and however the city  *)
(* was spelled then.                                                       *)
SuffixHonoured ==
    /\ \A t \in Tasks : \A p \in result[t].place : Honours(SuffixOf(t), p.selected)
    /\ \A city \in Cities : KeyOf[city] \in DOMAIN entries =>
        Honours(Suffix[city], entries[KeyOf[city]].value.place.selected)

(* "No location found" is the truth: no candidate of the search by the     *)
(* whole text was what the suffix asks for.                                *)
NotFoundIsTrue ==
    \A t \in Tasks : result[t].outcome = "not_found" =>
        \A c \in offered[t] : ~Honours(SuffixOf(t), c)

(* A place in the region the suffix names is preferred to one in a country *)
(* of that name, and is not reported as filtered by country.               *)
RegionFirst ==
    \A t \in Tasks : \A p \in result[t].place :
        SuffixOf(t) # "none" /\ (\E c \in offered[t] : c.inRegion)
            => p.selected.inRegion /\ ~p.filtered

=============================================================================
