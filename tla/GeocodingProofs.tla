---------------------------- MODULE GeocodingProofs ----------------------------
(***************************************************************************)
(* Proofs about Geocoding: for any number of tasks, any cities, suffixes   *)
(* and answers of the provider, and every size and time to live of the     *)
(* cache they share.                                                       *)
(***************************************************************************)
EXTENDS Geocoding, GeocodingCacheProofs

(* A place for an entry honours the suffix of every spelling of its key.   *)
HonoursKey(k, c) == \A city \in Cities : KeyOf[city] = k => Honours(Suffix[city], c)

(* What the cache holds is of the kind that resolve stores, and honours    *)
(* the suffix of whoever may ask for it.                                   *)
CacheHonours ==
    \A k \in DOMAIN entries :
        /\ entries[k].value.kind = "location"
        /\ HonoursKey(k, entries[k].value.place.selected)

Result == [outcome : Outcomes, place : SUBSET Resolved]

TasksTyped ==
    /\ pc \in [Tasks -> PCs]
    /\ wanted \in [Tasks -> Cities \cup {NoCity}]
    /\ offered \in [Tasks -> SUBSET Candidates]
    /\ result \in [Tasks -> Result]

(* How far a task is, and what it knows by then.  A task that searches a   *)
(* second time does so because nothing honoured the suffix the first time. *)
ProgressOf(t) ==
    /\ pc[t] # "idle" => wanted[t] \in Cities
    /\ pc[t] # "done" => result[t].outcome = "none"
    /\ pc[t] \in {"idle", "searching"} => offered[t] = {}
    /\ pc[t] = "retrying" =>
        /\ SuffixOf(t) = "alias"
        /\ \A c \in offered[t] : ~Honours("alias", c)

(* What a task returns is found, or is not there to be found. *)
ResultOf(t) ==
    /\ result[t].outcome = "found" => \E p \in Resolved : result[t].place = {p}
    /\ result[t].outcome # "found" => result[t].place = {}
    /\ result[t].outcome = "not_found" => \A c \in offered[t] : ~Honours(SuffixOf(t), c)
    /\ \A p \in result[t].place :
        /\ Honours(SuffixOf(t), p.selected)
        /\ SuffixOf(t) # "none" /\ (\E c \in offered[t] : c.inRegion)
            => p.selected.inRegion /\ ~p.filtered

GeoInv ==
    /\ CacheInv
    /\ CacheHonours
    /\ TasksTyped
    /\ \A t \in Tasks : ProgressOf(t) /\ ResultOf(t)

-----------------------------------------------------------------------------
(* The cache.                                                              *)

(* A lookup drops at most an entry. *)
LEMMA LookupKeepsHonours ==
    ASSUME CacheHonours, NEW reader, NEW city, Lookup(reader, city)
    PROVE  CacheHonours'
<1>1. /\ DOMAIN entries' \subseteq DOMAIN entries
      /\ \A j \in DOMAIN entries' : entries'[j] = entries[j]
  BY DropExpiredEntries DEF Lookup
<1>2. QED
  BY <1>1 DEF CacheHonours

(* A store adds one entry, and keeps others as they are. *)
LEMMA StoreKeepsHonours ==
    ASSUME CacheInv, CacheHonours, NEW city \in Cities, NEW place \in Resolved,
           Honours(Suffix[city], place.selected),
           Store(city, [kind |-> "location", place |-> place])
    PROVE  CacheInv' /\ CacheHonours'
<1> DEFINE k == KeyOf[city]
           v == [kind |-> "location", place |-> place]
<1>1. v \in Values
  BY PlacesAssumption DEF Values, Kinds
<1>2. v.kind = "location" /\ v.place = place
  OBVIOUS
<1> HIDE DEF v
<1>3. Store(city, v)
  BY DEF v
<1>4. CacheInv'
  BY <1>1, <1>3, StoreKeepsInv
<1>5. PICK stay \in SUBSET DOMAIN entries :
          /\ DOMAIN entries' = stay \cup {k}
          /\ entries'[k] = [value |-> v, ttl |-> TTL]
          /\ \A j \in stay \ {k} : entries'[j] = entries[j]
  BY <1>1, <1>3, StoreShape DEF CacheInv
<1>6. entries'[k].value.kind = "location" /\ entries'[k].value.place = place
  BY <1>2, <1>5
<1> HIDE DEF k
<1>7. ASSUME NEW j \in DOMAIN entries'
      PROVE  /\ entries'[j].value.kind = "location"
             /\ HonoursKey(j, entries'[j].value.place.selected)
  <2>1. CASE j = k
    <3>1. \A other \in Cities : KeyOf[other] = KeyOf[city] => Suffix[other] = Suffix[city]
      BY SpellingAssumption
    <3>2. HonoursKey(KeyOf[city], place.selected)
      BY <3>1 DEF HonoursKey
    <3>3. QED
      BY <1>6, <2>1, <3>2 DEF k
  <2>2. CASE j # k
    BY <1>5, <2>2 DEF CacheHonours
  <2>3. QED
    BY <2>1, <2>2
<1>8. QED
  BY <1>4, <1>7 DEF CacheHonours

(* Time changes no value. *)
LEMMA TickKeepsHonours ==
    ASSUME CacheInv, CacheHonours, Tick
    PROVE  CacheInv' /\ CacheHonours'
<1>1. CacheInv'
  BY CacheNextInv DEF Next
<1>2. /\ DOMAIN entries' = DOMAIN entries
      /\ \A k \in DOMAIN entries : entries'[k].value = entries[k].value
  BY TickShape DEF CacheInv
<1>3. QED
  BY <1>1, <1>2 DEF CacheHonours

-----------------------------------------------------------------------------
(* The choice.                                                             *)

(* What is kept of an answer honours the suffix; when nothing is kept,     *)
(* nothing there honours it; and when a candidate lies in the region, only *)
(* those that do are kept, and the country is not a filter.                *)
LEMMA FirstChoiceHonours ==
    ASSUME NEW suffix \in SuffixKinds, NEW answers \in ProviderAnswers
    PROVE  LET kept == FirstChoice(suffix, answers) IN
           /\ kept \subseteq DOMAIN answers
           /\ \A i \in kept : Honours(suffix, answers[i])
           /\ kept = {} => \A c \in Range(answers) : ~Honours(suffix, c)
           /\ suffix # "none" /\ (\E c \in Range(answers) : c.inRegion)
                => /\ \A i \in kept : answers[i].inRegion
                   /\ ~Filtered(suffix, answers)
<1> DEFINE kept == FirstChoice(suffix, answers)
<1>1. \A c \in Range(answers) : \E i \in DOMAIN answers : c = answers[i]
  BY DEF Range
<1>2. CASE suffix = "none"
  <2>1. kept = DOMAIN answers
    BY <1>2 DEF FirstChoice
  <2>2. QED
    BY <1>1, <1>2, <2>1 DEF Honours
<1>3. CASE suffix # "none" /\ InRegion(answers) # {}
  <2>1. kept = InRegion(answers)
    BY <1>3 DEF FirstChoice, SuffixKinds
  <2>2. QED
    BY <1>1, <1>3, <2>1 DEF Honours, InRegion, Filtered, SuffixKinds
<1>4. CASE suffix = "alias" /\ InRegion(answers) = {}
  <2>1. kept = InCountry(answers)
    BY <1>4 DEF FirstChoice
  <2>2. QED
    BY <1>1, <1>4, <2>1 DEF Honours, InRegion, InCountry
<1>5. CASE suffix = "other" /\ InRegion(answers) = {}
  <2>1. kept = IsNamed(answers)
    BY <1>5 DEF FirstChoice
  <2>2. QED
    BY <1>1, <1>5, <2>1 DEF Honours, InRegion, IsNamed
<1>6. QED
  BY <1>2, <1>3, <1>4, <1>5 DEF SuffixKinds

(* The provider answers with candidates. *)
LEMMA AnswersAreCandidates ==
    ASSUME NEW answers \in ProviderAnswers
    PROVE  /\ Range(answers) \subseteq Candidates
           /\ \A i \in DOMAIN answers : answers[i] \in Candidate /\ answers[i] \in Range(answers)
<1>1. PICK n \in 0..MaxAnswer : answers \in [1..n -> Candidates]
  BY DEF ProviderAnswers
<1>2. QED
  BY <1>1, GeocodingAssumption DEF Range

-----------------------------------------------------------------------------
(* The tasks.                                                              *)

(* A step of one task leaves the others where they are.                    *)
LEMMA OtherTasks ==
    ASSUME GeoInv, NEW t \in Tasks, NEW u \in Tasks, u # t,
           pc'[u] = pc[u], wanted'[u] = wanted[u],
           offered'[u] = offered[u], result'[u] = result[u]
    PROVE  ProgressOf(u)' /\ ResultOf(u)'
BY DEF GeoInv, ProgressOf, ResultOf, SuffixOf

(* The suffix a task looks for is the one of the city as it spells it.     *)
LEMMA SuffixType ==
    ASSUME GeoInv, NEW t \in Tasks, pc[t] # "idle"
    PROVE  /\ wanted[t] \in Cities /\ SuffixOf(t) \in SuffixKinds
           /\ SuffixOf(t) = Suffix[wanted[t]]
<1>1. wanted[t] \in Cities
  BY DEF GeoInv, ProgressOf
<1>2. QED
  BY <1>1, GeocodingAssumption DEF SuffixOf

(* The end of a task, which found nothing or one of the places it kept.    *)
Ended(t, answers, kept, filtered) ==
    /\ pc' = [pc EXCEPT ![t] = "done"]
    /\ \/ kept = {} /\ result' = [result EXCEPT ![t] = Outcome("not_found", {})]
       \/ \E i \in kept : \E place \in Resolved :
            /\ place = [selected |-> answers[i], filtered |-> filtered]
            /\ result' = [result EXCEPT ![t] = Outcome("found", {place})]

(* Where Select leaves the cache and the task. *)
LEMMA SelectKeeps ==
    ASSUME GeoInv, NEW t \in Tasks, pc[t] # "idle",
           NEW answers \in ProviderAnswers, NEW kept \in SUBSET DOMAIN answers,
           NEW filtered \in BOOLEAN, Select(t, answers, kept, filtered),
           \A i \in kept : Honours(SuffixOf(t), answers[i])
    PROVE  CacheInv' /\ CacheHonours' /\ Ended(t, answers, kept, filtered)
<1>1. CASE /\ kept = {} /\ End(t, Outcome("not_found", Nowhere)) /\ UNCHANGED cacheVars
  <2>1. CacheInv'
    BY <1>1, CacheNextInv DEF GeoInv
  <2>2. CacheHonours'
    BY <1>1 DEF GeoInv, CacheHonours, cacheVars
  <2>3. QED
    BY <1>1, <2>1, <2>2 DEF End, Nowhere, Ended
<1>2. ASSUME NEW i \in First(kept),
             Store(wanted[t], [kind |-> "location",
                               place |-> [selected |-> answers[i], filtered |-> filtered]]),
             End(t, Outcome("found", {[selected |-> answers[i], filtered |-> filtered]}))
      PROVE  CacheInv' /\ CacheHonours' /\ Ended(t, answers, kept, filtered)
  <2> DEFINE place == [selected |-> answers[i], filtered |-> filtered]
  <2>1. i \in kept /\ answers[i] \in Candidate
    BY AnswersAreCandidates DEF First
  <2>2. place \in Resolved /\ place.selected = answers[i]
    BY <2>1 DEF Resolved
  <2>3. /\ wanted[t] \in Cities
        /\ Honours(Suffix[wanted[t]], answers[i])
    BY <2>1, SuffixType
  <2>4. /\ Store(wanted[t], [kind |-> "location", place |-> place])
        /\ End(t, Outcome("found", {place}))
    BY <1>2
  <2> HIDE DEF place
  <2>5. CacheInv' /\ CacheHonours'
    BY <2>2, <2>3, <2>4, StoreKeepsHonours DEF GeoInv
  <2>6. place = [selected |-> answers[i], filtered |-> filtered]
    BY DEF place
  <2>7. QED
    BY <2>1, <2>2, <2>4, <2>5, <2>6 DEF End, Ended
<1>3. QED
  BY <1>1, <1>2 DEF Select

(* A step of one task keeps the invariant if it does so for that task and  *)
(* for the cache.                                                          *)
LEMMA OneTask ==
    ASSUME GeoInv, NEW t \in Tasks,
           NEW p \in PCs, NEW w \in Cities \cup {NoCity}, NEW o \in SUBSET Candidates,
           NEW r \in Result,
           CacheInv', CacheHonours',
           pc' = [pc EXCEPT ![t] = p], wanted' = [wanted EXCEPT ![t] = w],
           offered' = [offered EXCEPT ![t] = o], result' = [result EXCEPT ![t] = r],
           (pc'[t] = p /\ wanted'[t] = w /\ offered'[t] = o /\ result'[t] = r)
                => ProgressOf(t)' /\ ResultOf(t)'
    PROVE  GeoInv'
<1>1. TasksTyped'
  BY DEF GeoInv, TasksTyped
<1>2. pc'[t] = p /\ wanted'[t] = w /\ offered'[t] = o /\ result'[t] = r
  BY DEF GeoInv, TasksTyped
<1>3. ASSUME NEW u \in Tasks, u # t
      PROVE  ProgressOf(u)' /\ ResultOf(u)'
  <2>1. /\ pc'[u] = pc[u] /\ wanted'[u] = wanted[u]
        /\ offered'[u] = offered[u] /\ result'[u] = result[u]
    BY <1>3 DEF GeoInv, TasksTyped
  <2>2. QED
    BY <1>3, <2>1, OtherTasks
<1>4. QED
  BY <1>1, <1>2, <1>3 DEF GeoInv

(* A component that a step leaves alone is set to what it is. *)
LEMMA Unchanged ==
    ASSUME GeoInv, NEW t \in Tasks
    PROVE  /\ pc = [pc EXCEPT ![t] = pc[t]] /\ pc[t] \in PCs
           /\ wanted = [wanted EXCEPT ![t] = wanted[t]] /\ wanted[t] \in Cities \cup {NoCity}
           /\ offered = [offered EXCEPT ![t] = offered[t]] /\ offered[t] \in SUBSET Candidates
           /\ result = [result EXCEPT ![t] = result[t]] /\ result[t] \in Result
BY DEF GeoInv, TasksTyped

(* The results a task may end with. *)
LEMMA OutcomeTypes ==
    /\ \A o \in {"none", "not_found", "failed", "cancelled"} :
        /\ Outcome(o, {}) \in Result
        /\ Outcome(o, {}).outcome = o /\ Outcome(o, {}).place = {}
    /\ \A p \in Resolved :
        /\ Outcome("found", {p}) \in Result
        /\ Outcome("found", {p}).outcome = "found" /\ Outcome("found", {p}).place = {p}
BY DEF Outcome, Result, Outcomes

(* The lookup answers with a place that honours the suffix, or a search    *)
(* begins with nothing offered.                                            *)
LEMMA ResolveKeepsInv ==
    ASSUME GeoInv, NEW t \in Tasks, NEW city \in Cities, Resolve(t, city)
    PROVE  GeoInv'
<1> DEFINE k == KeyOf[city]
<1>1. k \in Keys
  BY CacheAssumption
<1>2. CacheInv' /\ CacheHonours'
  BY LookupKeepsInv, LookupKeepsHonours DEF Resolve, GeoInv, Kinds
<1>3. pc[t] = "idle" /\ offered[t] = {} /\ result[t].outcome = "none" /\ result[t].place = {}
  BY DEF Resolve, GeoInv, ProgressOf, ResultOf
<1>4. wanted' = [wanted EXCEPT ![t] = city] /\ offered' = [offered EXCEPT ![t] = {}]
  BY <1>3, Unchanged DEF Resolve
<1>5. CASE Found("location", k)
  <2> DEFINE place == entries[k].value.place
  <2>1. k \in DOMAIN entries
    BY <1>5 DEF Found
  <2>2. place \in Resolved /\ Honours(Suffix[city], place.selected)
    BY <2>1, EntryType, PlacesAssumption DEF GeoInv, CacheInv, CacheHonours, HonoursKey, Values
  <2>3. pc' = [pc EXCEPT ![t] = "done"] /\ result' = [result EXCEPT ![t] = Outcome("found", {place})]
    BY <1>5 DEF Resolve, End
  <2> HIDE DEF place
  <2>4. (pc'[t] = "done" /\ wanted'[t] = city /\ offered'[t] = {}
         /\ result'[t] = Outcome("found", {place}))
        => ProgressOf(t)' /\ ResultOf(t)'
    <3> SUFFICES ASSUME pc'[t] = "done", wanted'[t] = city, offered'[t] = {},
                        result'[t] = Outcome("found", {place})
                 PROVE  ProgressOf(t)' /\ ResultOf(t)'
      OBVIOUS
    <3>1. result'[t].outcome = "found" /\ result'[t].place = {place} /\ SuffixOf(t)' = Suffix[city]
      BY <2>2, OutcomeTypes DEF SuffixOf
    <3>2. ProgressOf(t)'
      BY <3>1 DEF ProgressOf
    <3>3. ResultOf(t)'
      BY <2>2, <3>1 DEF ResultOf
    <3>4. QED
      BY <3>2, <3>3
  <2>5. "done" \in PCs /\ Outcome("found", {place}) \in Result
    BY <2>2, OutcomeTypes DEF PCs
  <2>6. QED
    BY <1>2, <1>4, <2>3, <2>4, <2>5, OneTask
<1>6. CASE ~Found("location", k)
  <2>1. pc' = [pc EXCEPT ![t] = "searching"] /\ result' = [result EXCEPT ![t] = result[t]]
    BY <1>6, Unchanged DEF Resolve
  <2>2. (pc'[t] = "searching" /\ wanted'[t] = city /\ offered'[t] = {} /\ result'[t] = result[t])
        => ProgressOf(t)' /\ ResultOf(t)'
    BY <1>3 DEF ProgressOf, ResultOf
  <2>3. "searching" \in PCs
    BY DEF PCs
  <2>4. QED
    BY <1>2, <1>4, <2>1, <2>2, <2>3, Unchanged, OneTask
<1>7. QED
  BY <1>5, <1>6

(* A first answer is chosen from, or found to call for a second search. *)
LEMMA FirstAnswerKeepsInv ==
    ASSUME GeoInv, NEW t \in Tasks, NEW answers \in ProviderAnswers, FirstAnswer(t, answers)
    PROVE  GeoInv'
<1> DEFINE suffix == SuffixOf(t)
           seen == Range(answers)
           kept == FirstChoice(suffix, answers)
           filtered == Filtered(suffix, answers)
<1>1. /\ pc[t] = "searching" /\ result[t].outcome = "none" /\ result[t].place = {}
      /\ wanted' = wanted /\ offered' = [offered EXCEPT ![t] = seen]
  BY DEF FirstAnswer, GeoInv, ProgressOf, ResultOf
<1>2. wanted[t] \in Cities /\ suffix \in SuffixKinds
  BY <1>1, SuffixType
<1>3. wanted'[t] = wanted[t] => SuffixOf(t)' = suffix
  BY DEF SuffixOf
<1>4. seen \in SUBSET Candidates
  BY AnswersAreCandidates
<1>5. /\ kept \subseteq DOMAIN answers
      /\ \A i \in kept : Honours(suffix, answers[i])
      /\ kept = {} => \A c \in seen : ~Honours(suffix, c)
      /\ suffix # "none" /\ (\E c \in seen : c.inRegion)
            => /\ \A i \in kept : answers[i].inRegion
               /\ ~filtered
  BY <1>2, FirstChoiceHonours
<1>6. filtered \in BOOLEAN
  BY DEF Filtered
<1>7. /\ SearchesAgain(suffix, answers) => suffix = "alias" /\ kept = {}
      /\ \/ /\ SearchesAgain(suffix, answers)
            /\ pc' = [pc EXCEPT ![t] = "retrying"]
            /\ UNCHANGED <<result, cacheVars>>
         \/ Select(t, answers, kept, filtered)
  BY DEF FirstAnswer, SearchesAgain
<1> HIDE DEF suffix, seen, kept, filtered
<1>8. CASE /\ suffix = "alias" /\ kept = {}
           /\ pc' = [pc EXCEPT ![t] = "retrying"]
           /\ UNCHANGED <<result, cacheVars>>
  <2>1. CacheInv'
    BY <1>8, CacheNextInv DEF GeoInv
  <2>2. CacheHonours'
    BY <1>8 DEF GeoInv, CacheHonours, cacheVars
  <2>3. (pc'[t] = "retrying" /\ wanted'[t] = wanted[t] /\ offered'[t] = seen
         /\ result'[t] = result[t])
        => ProgressOf(t)' /\ ResultOf(t)'
    BY <1>1, <1>2, <1>3, <1>5, <1>8 DEF ProgressOf, ResultOf
  <2>4. /\ "retrying" \in PCs
        /\ wanted[t] \in Cities \cup {NoCity} /\ wanted' = [wanted EXCEPT ![t] = wanted[t]]
        /\ result[t] \in Result /\ result' = [result EXCEPT ![t] = result[t]]
    BY <1>1, <1>8, Unchanged DEF PCs
  <2>5. QED
    BY <1>1, <1>4, <1>8, <2>1, <2>2, <2>3, <2>4, OneTask
<1>9. CASE Select(t, answers, kept, filtered)
  <2>1. CacheInv' /\ CacheHonours' /\ Ended(t, answers, kept, filtered)
    <3>1. /\ pc[t] # "idle" /\ kept \in SUBSET DOMAIN answers
          /\ \A i \in kept : Honours(SuffixOf(t), answers[i])
      BY <1>1, <1>5 DEF suffix
    <3>2. QED
      BY <1>6, <1>9, <3>1, SelectKeeps
  <2>2. /\ "done" \in PCs /\ pc' = [pc EXCEPT ![t] = "done"]
        /\ wanted[t] \in Cities \cup {NoCity} /\ wanted' = [wanted EXCEPT ![t] = wanted[t]]
    BY <1>1, <2>1, Unchanged DEF PCs, Ended
  <2>3. CASE kept = {} /\ result' = [result EXCEPT ![t] = Outcome("not_found", {})]
    <3> DEFINE r == Outcome("not_found", {})
    <3>1. r \in Result /\ r.outcome = "not_found" /\ r.place = {}
      BY OutcomeTypes
    <3> HIDE DEF r
    <3>2. (pc'[t] = "done" /\ wanted'[t] = wanted[t] /\ offered'[t] = seen /\ result'[t] = r)
          => ProgressOf(t)' /\ ResultOf(t)'
      BY <1>2, <1>3, <1>5, <2>3, <3>1 DEF ProgressOf, ResultOf
    <3>3. result' = [result EXCEPT ![t] = r]
      BY <2>3 DEF r
    <3>4. QED
      BY <1>1, <1>4, <2>1, <2>2, <3>1, <3>2, <3>3, OneTask
  <2>4. ASSUME NEW i \in kept, NEW place \in Resolved,
               place = [selected |-> answers[i], filtered |-> filtered],
               result' = [result EXCEPT ![t] = Outcome("found", {place})]
        PROVE  GeoInv'
    <3> DEFINE r == Outcome("found", {place})
    <3>1. r \in Result /\ r.outcome = "found" /\ r.place = {place}
      BY OutcomeTypes
    <3>2. place.selected = answers[i] /\ place.filtered = filtered
      BY <2>4
    <3> HIDE DEF r
    <3>3. (pc'[t] = "done" /\ wanted'[t] = wanted[t] /\ offered'[t] = seen /\ result'[t] = r)
          => ProgressOf(t)' /\ ResultOf(t)'
      BY <1>2, <1>3, <1>5, <2>4, <3>1, <3>2 DEF ProgressOf, ResultOf
    <3>4. result' = [result EXCEPT ![t] = r]
      BY <2>4 DEF r
    <3>5. QED
      BY <1>1, <1>4, <2>1, <2>2, <3>1, <3>3, <3>4, OneTask
  <2>5. QED
    BY <2>1, <2>3, <2>4 DEF Ended
<1>10. QED
  BY <1>7, <1>8, <1>9

(* A second answer is in the country of the alias, or the place is not     *)
(* there.                                                                  *)
LEMMA SecondAnswerKeepsInv ==
    ASSUME GeoInv, NEW t \in Tasks, NEW answers \in ProviderAnswers, SecondAnswer(t, answers)
    PROVE  GeoInv'
<1> DEFINE kept == SecondChoice(answers)
<1>1. /\ pc[t] = "retrying" /\ SuffixOf(t) = "alias" /\ wanted[t] \in Cities
      /\ \A c \in offered[t] : ~Honours("alias", c)
      /\ wanted' = wanted /\ offered' = offered
      /\ Select(t, answers, kept, TRUE)
  BY DEF SecondAnswer, GeoInv, ProgressOf
<1>2. wanted'[t] = wanted[t] => SuffixOf(t)' = "alias"
  BY <1>1 DEF SuffixOf
<1>3. /\ kept \subseteq DOMAIN answers
      /\ \A i \in kept : Honours("alias", answers[i])
  BY DEF SecondChoice, InCountry, Honours
<1>4. \A c \in offered[t] : ~c.inRegion
  BY <1>1 DEF Honours
<1> HIDE DEF kept
<1>5. CacheInv' /\ CacheHonours' /\ Ended(t, answers, kept, TRUE)
  <2>1. /\ pc[t] # "idle" /\ kept \in SUBSET DOMAIN answers
        /\ \A i \in kept : Honours(SuffixOf(t), answers[i])
    BY <1>1, <1>3
  <2>2. QED
    BY <1>1, <2>1, SelectKeeps
<1>6. /\ "done" \in PCs /\ pc' = [pc EXCEPT ![t] = "done"]
      /\ wanted[t] \in Cities \cup {NoCity} /\ wanted' = [wanted EXCEPT ![t] = wanted[t]]
      /\ offered[t] \in SUBSET Candidates /\ offered' = [offered EXCEPT ![t] = offered[t]]
  BY <1>1, <1>5, Unchanged DEF PCs, Ended
<1>7. CASE result' = [result EXCEPT ![t] = Outcome("not_found", {})]
  <2> DEFINE r == Outcome("not_found", {})
  <2>1. r \in Result /\ r.outcome = "not_found" /\ r.place = {}
    BY OutcomeTypes
  <2> HIDE DEF r
  <2>2. (pc'[t] = "done" /\ wanted'[t] = wanted[t] /\ offered'[t] = offered[t] /\ result'[t] = r)
        => ProgressOf(t)' /\ ResultOf(t)'
    BY <1>1, <1>2, <2>1 DEF ProgressOf, ResultOf
  <2>3. result' = [result EXCEPT ![t] = r]
    BY <1>7 DEF r
  <2>4. QED
    BY <1>5, <1>6, <2>1, <2>2, <2>3, OneTask
<1>8. ASSUME NEW i \in kept, NEW place \in Resolved,
             place = [selected |-> answers[i], filtered |-> TRUE],
             result' = [result EXCEPT ![t] = Outcome("found", {place})]
      PROVE  GeoInv'
  <2> DEFINE r == Outcome("found", {place})
  <2>1. r \in Result /\ r.outcome = "found" /\ r.place = {place} /\ place.selected = answers[i]
    BY <1>8, OutcomeTypes
  <2> HIDE DEF r
  <2>2. (pc'[t] = "done" /\ wanted'[t] = wanted[t] /\ offered'[t] = offered[t] /\ result'[t] = r)
        => ProgressOf(t)' /\ ResultOf(t)'
    BY <1>1, <1>2, <1>3, <1>4, <1>8, <2>1 DEF ProgressOf, ResultOf
  <2>3. result' = [result EXCEPT ![t] = r]
    BY <1>8 DEF r
  <2>4. QED
    BY <1>5, <1>6, <2>1, <2>2, <2>3, OneTask
<1>9. QED
  BY <1>5, <1>7, <1>8 DEF Ended

(* A failure or a cancellation ends with no place, a return with no trace. *)
LEMMA EndKeepsInv ==
    ASSUME GeoInv, NEW t \in Tasks, Fail(t) \/ Cancel(t) \/ Return(t)
    PROVE  GeoInv'
<1>1. UNCHANGED cacheVars
  BY DEF Fail, Cancel, Return
<1>2. CacheInv'
  BY <1>1, CacheNextInv DEF GeoInv
<1>3. CacheHonours'
  BY <1>1 DEF GeoInv, CacheHonours, cacheVars
<1>4. ASSUME NEW o \in {"failed", "cancelled"}, pc[t] \in {"searching", "retrying"},
             End(t, Outcome(o, {})), UNCHANGED <<wanted, offered>>
      PROVE  GeoInv'
  <2> DEFINE r == Outcome(o, {})
  <2>1. r \in Result /\ r.outcome = o /\ r.place = {} /\ wanted[t] \in Cities
    BY <1>4, OutcomeTypes, SuffixType
  <2>2. pc' = [pc EXCEPT ![t] = "done"] /\ result' = [result EXCEPT ![t] = r]
    BY <1>4 DEF End
  <2> HIDE DEF r
  <2>3. (pc'[t] = "done" /\ wanted'[t] = wanted[t] /\ offered'[t] = offered[t] /\ result'[t] = r)
        => ProgressOf(t)' /\ ResultOf(t)'
    BY <1>4, <2>1 DEF ProgressOf, ResultOf
  <2>4. "done" \in PCs
    BY DEF PCs
  <2>5. QED
    BY <1>2, <1>3, <1>4, <2>1, <2>2, <2>3, <2>4, Unchanged, OneTask
<1>5. CASE Return(t)
  <2> DEFINE r == Outcome("none", {})
  <2>1. r \in Result /\ r.outcome = "none" /\ r.place = {}
    BY OutcomeTypes
  <2>2. /\ pc' = [pc EXCEPT ![t] = "idle"] /\ wanted' = [wanted EXCEPT ![t] = NoCity]
        /\ offered' = [offered EXCEPT ![t] = {}] /\ result' = [result EXCEPT ![t] = r]
    BY <1>5 DEF Return, Nowhere
  <2> HIDE DEF r
  <2>3. (pc'[t] = "idle" /\ wanted'[t] = NoCity /\ offered'[t] = {} /\ result'[t] = r)
        => ProgressOf(t)' /\ ResultOf(t)'
    BY <2>1 DEF ProgressOf, ResultOf
  <2>4. "idle" \in PCs
    BY DEF PCs
  <2>5. QED
    BY <1>2, <1>3, <2>1, <2>2, <2>3, <2>4, OneTask
<1>6. QED
  BY <1>4, <1>5 DEF Fail, Cancel, Nowhere

-----------------------------------------------------------------------------
LEMMA GeoInitInv == GeoInit => GeoInv
<1> SUFFICES ASSUME GeoInit
             PROVE  GeoInv
  OBVIOUS
<1>1. CacheInv
  BY CacheInitInv DEF GeoInit
<1>2. CacheHonours
  BY DEF GeoInit, Init, CacheHonours
<1>3. TasksTyped
  BY OutcomeTypes DEF GeoInit, TasksTyped, PCs, Nowhere
<1>4. ASSUME NEW t \in Tasks
      PROVE  ProgressOf(t) /\ ResultOf(t)
  <2>1. pc[t] = "idle" /\ offered[t] = {} /\ result[t].outcome = "none" /\ result[t].place = {}
    BY OutcomeTypes DEF GeoInit, Nowhere
  <2>2. QED
    BY <2>1 DEF ProgressOf, ResultOf
<1>5. QED
  BY <1>1, <1>2, <1>3, <1>4 DEF GeoInv

(* Every step keeps the invariant. *)
LEMMA GeoNextInv == GeoInv /\ [GeoNext]_geoVars => GeoInv'
<1> SUFFICES ASSUME GeoInv, [GeoNext]_geoVars
             PROVE  GeoInv'
  OBVIOUS
<1>1. ASSUME UNCHANGED taskVars, CacheInv', CacheHonours'
      PROVE  GeoInv'
  BY <1>1 DEF taskVars, GeoInv, TasksTyped, ProgressOf, ResultOf, SuffixOf
<1>2. CASE GeoTick
  BY <1>1, <1>2, TickKeepsHonours DEF GeoTick, GeoInv
<1>3. CASE UNCHANGED geoVars
  <2>1. CacheInv'
    BY <1>3, CacheNextInv DEF GeoInv, geoVars
  <2>2. CacheHonours'
    BY <1>3 DEF GeoInv, CacheHonours, cacheVars, geoVars
  <2>3. QED
    BY <1>1, <1>3, <2>1, <2>2 DEF geoVars
<1>4. QED
  BY <1>2, <1>3, ResolveKeepsInv, FirstAnswerKeepsInv, SecondAnswerKeepsInv, EndKeepsInv
  DEF GeoNext

(* The cache and the tasks agree on what the suffix of a city asks for, in *)
(* every interleaving of the tasks.                                        *)
THEOREM GeoInvariance == GeoSpec => []GeoInv
BY GeoInitInv, GeoNextInv, PTL DEF GeoSpec

(* A resolve that ended found a place, and only then has one to give. *)
THEOREM GeoTypes == GeoSpec => []GeoTypeOK
<1>1. GeoInv => GeoTypeOK
  <2> SUFFICES ASSUME GeoInv
               PROVE  GeoTypeOK
    OBVIOUS
  <2>1. ASSUME NEW t \in Tasks
        PROVE  /\ result[t].outcome \in Outcomes
               /\ result[t].outcome = "found" <=> result[t].place \in {{p} : p \in Resolved}
    BY DEF GeoInv, TasksTyped, Result, ResultOf
  <2>2. QED
    BY <2>1 DEF GeoInv, GeoTypeOK, CacheInv, CacheHonours, TasksTyped
<1>2. QED
  BY <1>1, GeoInvariance, PTL

(* Nobody is given a place that ignores the suffix, by the provider or by  *)
(* what another task left in the cache.                                    *)
THEOREM SuffixesAreHonoured == GeoSpec => []SuffixHonoured
<1>1. GeoInv => SuffixHonoured
  BY DEF GeoInv, CacheHonours, HonoursKey, ResultOf, SuffixHonoured
<1>2. QED
  BY <1>1, GeoInvariance, PTL

(* A task that says a place was not found has been offered none that would *)
(* have done.                                                              *)
THEOREM NothingWasThere == GeoSpec => []NotFoundIsTrue
<1>1. GeoInv => NotFoundIsTrue
  BY DEF GeoInv, ResultOf, NotFoundIsTrue
<1>2. QED
  BY <1>1, GeoInvariance, PTL

(* A region is preferred to a country of the same name. *)
THEOREM RegionsComeFirst == GeoSpec => []RegionFirst
<1>1. GeoInv => RegionFirst
  BY DEF GeoInv, ResultOf, RegionFirst
<1>2. QED
  BY <1>1, GeoInvariance, PTL

(* The tasks share a cache of at most MaxSize places. *)
THEOREM SharedCacheIsBounded == GeoSpec => []SizeBounded
<1>1. GeoInv => SizeBounded
  BY DEF GeoInv, CacheInv
<1>2. QED
  BY <1>1, GeoInvariance, PTL

=============================================================================
