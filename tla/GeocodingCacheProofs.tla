-------------------------- MODULE GeocodingCacheProofs --------------------------
(***************************************************************************)
(* Proofs about GeocodingCache and CacheHistory: for every set of keys,    *)
(* every time to live and every size.                                      *)
(***************************************************************************)
EXTENDS CacheHistory, FiniteSetTheorems, TLAPS

CacheInv == TypeOK /\ SizeBounded

-----------------------------------------------------------------------------
(* The entries.                                                            *)

LEMMA EntriesFinite ==
    ASSUME TypeOK
    PROVE  IsFiniteSet(DOMAIN entries) /\ Cardinality(DOMAIN entries) \in Nat
<1>1. IsFiniteSet(DOMAIN entries)
  BY FS_Subset, CacheAssumption DEF TypeOK
<1>2. QED
  BY <1>1, FS_CardinalityType

LEMMA EntryType ==
    ASSUME TypeOK, NEW k \in DOMAIN entries
    PROVE  /\ k \in Keys /\ entries[k].value \in Values /\ entries[k].ttl \in 0..TTL
           /\ entries[k] = [value |-> entries[k].value, ttl |-> entries[k].ttl]
           /\ Expired(k) <=> entries[k].ttl = 0
BY DEF TypeOK, Entry, Expired

(* An expired entry is dropped, the others stay as they are. *)
LEMMA DropExpiredEntries ==
    ASSUME NEW k
    PROVE  /\ DOMAIN DropExpired(k) \subseteq DOMAIN entries
           /\ \A j \in DOMAIN DropExpired(k) : DropExpired(k)[j] = entries[j]
           /\ \A j \in DOMAIN entries \ DOMAIN DropExpired(k) : Expired(j)
<1>1. CASE k \in DOMAIN entries /\ Expired(k)
  BY <1>1 DEF DropExpired
<1>2. CASE ~(k \in DOMAIN entries /\ Expired(k))
  BY <1>2 DEF DropExpired
<1>3. QED
  BY <1>1, <1>2

LEMMA LookupKeepsInv ==
    ASSUME CacheInv, NEW reader \in Kinds, NEW city \in Cities, Lookup(reader, city)
    PROVE  CacheInv'
<1> DEFINE k == KeyOf[city]
           rest == DropExpired(k)
<1>1. k \in Keys
  BY CacheAssumption
<1>2. /\ answer' = <<k, IF Found(reader, k) THEN {entries[k].value} ELSE {}>>
      /\ entries' = rest
  BY DEF Lookup
<1>3. /\ DOMAIN rest \subseteq DOMAIN entries
      /\ \A j \in DOMAIN rest : rest[j] = entries[j]
      /\ rest = [j \in DOMAIN rest |-> rest[j]]
  BY DropExpiredEntries DEF DropExpired, CacheInv, TypeOK
<1>4. Found(reader, k) => entries[k].value \in Values
  BY EntryType DEF Found, CacheInv
<1> HIDE DEF k, rest
<1>5. answer' \in Keys \X SUBSET Values
  BY <1>1, <1>2, <1>4
<1>6. DOMAIN entries' \subseteq Keys /\ entries' \in [DOMAIN entries' -> Entry]
  <2>1. \A j \in DOMAIN rest : rest[j] \in Entry
    BY <1>3 DEF CacheInv, TypeOK
  <2>2. QED
    BY <1>2, <1>3, <2>1 DEF CacheInv, TypeOK
<1>7. SizeBounded'
  <2>1. Cardinality(DOMAIN rest) <= Cardinality(DOMAIN entries)
        /\ Cardinality(DOMAIN rest) \in Nat /\ Cardinality(DOMAIN entries) \in Nat
    BY <1>3, EntriesFinite, FS_Subset, FS_CardinalityType DEF CacheInv
  <2>2. QED
    BY <1>2, <2>1, CacheAssumption DEF CacheInv, SizeBounded
<1>8. QED
  BY <1>5, <1>6, <1>7 DEF CacheInv, TypeOK

(* The entries after a store: the one stored, and those that stayed; there *)
(* is room for it.                                                         *)
LEMMA StoreShape ==
    ASSUME TypeOK, NEW city \in Cities, NEW v \in Values, Store(city, v)
    PROVE  LET k == KeyOf[city] IN
           /\ k \in Keys
           /\ \E stay \in SUBSET DOMAIN entries :
                  /\ Staying(k, stay)
                  /\ DOMAIN entries' = stay \cup {k}
                  /\ entries'[k] = [value |-> v, ttl |-> TTL]
                  /\ \A j \in stay \ {k} : entries'[j] = entries[j]
                  /\ entries' = [j \in stay \cup {k} |-> entries'[j]]
           /\ answer' = answer
<1> DEFINE k == KeyOf[city]
<1>1. k \in Keys
  BY CacheAssumption
<1>2. PICK stay \in SUBSET DOMAIN entries :
          /\ Staying(k, stay)
          /\ entries' = [j \in stay \cup {k} |->
                  IF j = k THEN [value |-> v, ttl |-> TTL] ELSE entries[j]]
          /\ UNCHANGED answer
  BY DEF Store
<1> HIDE DEF k
<1>3. /\ DOMAIN entries' = stay \cup {k}
      /\ entries'[k] = [value |-> v, ttl |-> TTL]
      /\ \A j \in stay \ {k} : entries'[j] = entries[j]
      /\ entries' = [j \in stay \cup {k} |-> entries'[j]]
  BY <1>2
<1>4. QED
  BY <1>1, <1>2, <1>3 DEF k

LEMMA StoreKeepsInv ==
    ASSUME CacheInv, NEW city \in Cities, NEW v \in Values, Store(city, v)
    PROVE  CacheInv'
<1> DEFINE k == KeyOf[city]
<1>1. k \in Keys /\ answer' = answer
  BY StoreShape DEF CacheInv
<1>2. PICK stay \in SUBSET DOMAIN entries :
          /\ Staying(k, stay)
          /\ DOMAIN entries' = stay \cup {k}
          /\ entries'[k] = [value |-> v, ttl |-> TTL]
          /\ \A j \in stay \ {k} : entries'[j] = entries[j]
          /\ entries' = [j \in stay \cup {k} |-> entries'[j]]
  BY StoreShape DEF CacheInv
<1> HIDE DEF k
<1>3. [value |-> v, ttl |-> TTL] \in Entry
  BY CacheAssumption DEF Entry
<1>4. DOMAIN entries' \subseteq Keys /\ entries' \in [DOMAIN entries' -> Entry]
  <2>1. \A j \in stay \cup {k} : entries'[j] \in Entry
    BY <1>2, <1>3 DEF CacheInv, TypeOK
  <2>2. QED
    BY <1>1, <1>2, <2>1 DEF CacheInv, TypeOK
<1>5. SizeBounded'
  <2> DEFINE size == Cardinality(DOMAIN entries)
  <2>1. IsFiniteSet(DOMAIN entries) /\ size \in Nat /\ size <= MaxSize
    BY EntriesFinite DEF CacheInv, SizeBounded
  <2>2. CASE k \in DOMAIN entries /\ stay = DOMAIN entries
    <3>1. stay \cup {k} = DOMAIN entries
      BY <2>2
    <3>2. QED
      BY <1>2, <2>1, <3>1 DEF SizeBounded
  <2>3. CASE size < MaxSize /\ stay = DOMAIN entries
    <3>1. Cardinality(stay \cup {k}) \in {size, size + 1}
      BY <2>1, <2>3, FS_AddElement
    <3>2. QED
      BY <1>2, <2>1, <2>3, <3>1, CacheAssumption DEF SizeBounded
  <2>4. ASSUME NEW old \in DOMAIN entries, stay = DOMAIN entries \ {old}
        PROVE  SizeBounded'
    <3>1. IsFiniteSet(stay) /\ Cardinality(stay) = size - 1
      BY <2>1, <2>4, FS_RemoveElement
    <3>2. Cardinality(stay \cup {k}) \in {Cardinality(stay), Cardinality(stay) + 1}
      BY <3>1, FS_AddElement
    <3>3. Cardinality(stay \cup {k}) <= MaxSize
      BY <2>1, <3>1, <3>2, CacheAssumption
    <3>4. QED
      BY <1>2, <3>3 DEF SizeBounded
  <2>5. QED
    BY <1>2, <2>2, <2>3, <2>4 DEF Staying
<1>6. QED
  BY <1>1, <1>4, <1>5 DEF CacheInv, TypeOK

(* Time only lowers what is left. *)
LEMMA TickShape ==
    ASSUME TypeOK, Tick
    PROVE  /\ DOMAIN entries' = DOMAIN entries /\ answer' = answer
           /\ entries' = [k \in DOMAIN entries |-> entries'[k]]
           /\ \A k \in DOMAIN entries :
                  /\ entries'[k] \in Entry
                  /\ entries'[k].value = entries[k].value
                  /\ entries'[k].ttl = IF entries[k].ttl = 0 THEN 0 ELSE entries[k].ttl - 1
<1>1. /\ answer' = answer
      /\ entries' = [k \in DOMAIN entries |->
            IF Expired(k) THEN entries[k] ELSE [entries[k] EXCEPT !.ttl = @ - 1]]
  BY DEF Tick, PassTime
<1>2. ASSUME NEW k \in DOMAIN entries
      PROVE  /\ entries'[k] \in Entry
             /\ entries'[k].value = entries[k].value
             /\ entries'[k].ttl = IF entries[k].ttl = 0 THEN 0 ELSE entries[k].ttl - 1
  <2>1. entries[k] \in Entry /\ entries[k].ttl \in 0..TTL
    BY DEF TypeOK, Entry
  <2>2. CASE entries[k].ttl = 0
    BY <1>1, <2>1, <2>2 DEF Expired
  <2>3. CASE entries[k].ttl # 0
    <3>1. entries'[k] = [entries[k] EXCEPT !.ttl = @ - 1]
      BY <1>1, <2>3 DEF Expired
    <3>2. entries[k].ttl - 1 \in 0..TTL
      BY <2>1, <2>3, CacheAssumption
    <3>3. QED
      BY <2>1, <2>3, <3>1, <3>2 DEF Entry
  <2>4. QED
    BY <2>2, <2>3
<1>3. QED
  BY <1>1, <1>2

LEMMA CacheInitInv == Init => CacheInv
<1> SUFFICES ASSUME Init
             PROVE  CacheInv
  OBVIOUS
<1>1. DOMAIN entries = {} /\ answer = <<>> /\ entries = [k \in {} |-> <<>>]
  BY DEF Init
<1>2. TypeOK
  BY <1>1 DEF TypeOK
<1>3. SizeBounded
  BY <1>1, FS_EmptySet, CacheAssumption DEF SizeBounded
<1>4. QED
  BY <1>2, <1>3 DEF CacheInv

LEMMA CacheNextInv == CacheInv /\ [Next]_cacheVars => CacheInv'
<1> SUFFICES ASSUME CacheInv, [Next]_cacheVars
             PROVE  CacheInv'
  OBVIOUS
<1>1. CASE Clear
  <2>1. DOMAIN entries' = {} /\ answer' = answer /\ entries' = [k \in {} |-> <<>>]
    BY <1>1 DEF Clear
  <2>2. TypeOK'
    BY <2>1 DEF CacheInv, TypeOK
  <2>3. SizeBounded'
    BY <2>1, FS_EmptySet, CacheAssumption DEF SizeBounded
  <2>4. QED
    BY <2>2, <2>3 DEF CacheInv
<1>2. CASE Tick
  <2>1. TypeOK
    BY DEF CacheInv
  <2>2. /\ DOMAIN entries' = DOMAIN entries /\ answer' = answer
        /\ entries' = [k \in DOMAIN entries |-> entries'[k]]
        /\ \A k \in DOMAIN entries : entries'[k] \in Entry
    BY <1>2, <2>1, TickShape
  <2>3. QED
    BY <2>2 DEF CacheInv, TypeOK, SizeBounded
<1>3. CASE UNCHANGED cacheVars
  BY <1>3 DEF cacheVars, CacheInv, TypeOK, SizeBounded
<1>4. QED
  BY <1>1, <1>2, <1>3, LookupKeepsInv, StoreKeepsInv DEF Next

(* The cache never grows past its size, whatever is stored under whatever  *)
(* spelling.                                                               *)
THEOREM SizeIsBounded == Spec => []SizeBounded
<1>1. CacheInv => SizeBounded
  BY DEF CacheInv
<1>2. QED
  BY <1>1, CacheInitInv, CacheNextInv, PTL DEF Spec

-----------------------------------------------------------------------------
(* The history.                                                            *)

Written == [value : Values, age : 0..TTL]

WrittenType == written \in [Keys -> Written \cup {Nothing}]

(* An entry is what was stored last, and its time and its age add up.      *)
KeptIsWritten ==
    \A k \in DOMAIN entries :
        /\ written[k] # Nothing
        /\ entries[k].value = written[k].value
        /\ entries[k].ttl = TTL - written[k].age

(* A key that is missing too early has enough rivals.                      *)
MissingIsRivalled ==
    \A k \in Keys \ DOMAIN entries :
        Promise!Fresh(k) => Cardinality(Promise!Rivals(k)) >= MaxSize

HistoryInv ==
    /\ CacheInv
    /\ WrittenType
    /\ KeptIsWritten
    /\ MissingIsRivalled

LEMMA WrittenFields ==
    ASSUME WrittenType, NEW k \in Keys
    PROVE  /\ k \in Promise!Written <=> written[k] # Nothing
           /\ k \in Promise!Written => written[k].value \in Values /\ written[k].age \in 0..TTL
           /\ Promise!Fresh(k) <=> k \in Promise!Written /\ written[k].age < TTL
           /\ \A j : j \in Promise!Rivals(k) <=>
                     j \in Promise!Written /\ j # k /\ written[j].age <= written[k].age
<1>1. k \in Promise!Written <=> written[k] # Nothing
  BY DEF Promise!Written, Promise!Nothing, Nothing
<1>2. written[k] # Nothing => written[k].value \in Values /\ written[k].age \in 0..TTL
  BY DEF WrittenType, Written
<1>3. \A j : j \in Promise!Rivals(k) <=>
             j \in Promise!Written /\ j # k /\ written[j].age <= written[k].age
  BY DEF Promise!Rivals
<1>4. QED
  BY <1>1, <1>2, <1>3 DEF Promise!Fresh

LEMMA RivalsFinite ==
    ASSUME NEW k
    PROVE  /\ Promise!Rivals(k) \subseteq Keys /\ Promise!Written \subseteq Keys
           /\ IsFiniteSet(Promise!Rivals(k)) /\ Cardinality(Promise!Rivals(k)) \in Nat
<1>1. Promise!Rivals(k) \subseteq Keys /\ Promise!Written \subseteq Keys
  BY DEF Promise!Rivals, Promise!Written
<1>2. IsFiniteSet(Promise!Rivals(k))
  BY <1>1, FS_Subset, CacheAssumption
<1>3. QED
  BY <1>1, <1>2, FS_CardinalityType

(* More rivals are enough rivals. *)
LEMMA RivalsGrow ==
    ASSUME NEW k, Cardinality(Promise!Rivals(k)) >= MaxSize,
           Promise!Rivals(k) \subseteq Promise!Rivals(k)'
    PROVE  Cardinality(Promise!Rivals(k)') >= MaxSize
<1>1. Promise!Rivals(k)' \subseteq Keys
  BY DEF Promise!Rivals, Promise!Written
<1>2. IsFiniteSet(Promise!Rivals(k)')
  BY <1>1, FS_Subset, CacheAssumption
<1>3. /\ Cardinality(Promise!Rivals(k)) <= Cardinality(Promise!Rivals(k)')
      /\ Cardinality(Promise!Rivals(k)) \in Nat /\ Cardinality(Promise!Rivals(k)') \in Nat
  BY <1>2, FS_Subset, FS_CardinalityType
<1>4. QED
  BY <1>3, CacheAssumption

LEMMA LookupSeenKeepsInv ==
    ASSUME HistoryInv, NEW reader \in Kinds, NEW city \in Cities, LookupSeen(reader, city)
    PROVE  HistoryInv'
<1>1. CacheInv' /\ written' = written
  BY LookupKeepsInv DEF HistoryInv, LookupSeen
<1>2. /\ DOMAIN entries' \subseteq DOMAIN entries
      /\ \A j \in DOMAIN entries' : entries'[j] = entries[j]
      /\ \A j \in DOMAIN entries \ DOMAIN entries' : Expired(j)
  BY DropExpiredEntries DEF LookupSeen, Lookup
<1>3. KeptIsWritten'
  BY <1>1, <1>2 DEF HistoryInv, KeptIsWritten
<1>4. MissingIsRivalled'
  <2> SUFFICES ASSUME NEW k \in Keys \ DOMAIN entries', Promise!Fresh(k)
               PROVE  Cardinality(Promise!Rivals(k)) >= MaxSize
    BY <1>1 DEF MissingIsRivalled, Promise!Fresh, Promise!Rivals, Promise!Written
  <2>1. written[k].age \in 0..TTL /\ written[k].age < TTL
    BY WrittenFields DEF HistoryInv
  <2>2. k \notin DOMAIN entries
    <3>1. SUFFICES ASSUME k \in DOMAIN entries
                   PROVE  FALSE
      OBVIOUS
    <3>2. entries[k].ttl = 0 /\ entries[k].ttl = TTL - written[k].age
      BY <1>2, <3>1 DEF HistoryInv, KeptIsWritten, Expired
    <3>3. QED
      BY <2>1, <3>2, CacheAssumption
  <2>3. QED
    BY <2>2 DEF HistoryInv, MissingIsRivalled
<1>5. QED
  BY <1>1, <1>3, <1>4 DEF HistoryInv, WrittenType

LEMMA ClearSeenKeepsInv == ASSUME HistoryInv, ClearSeen PROVE HistoryInv'
<1>1. CacheInv'
  BY CacheNextInv DEF HistoryInv, ClearSeen, Next
<1>2. DOMAIN entries' = {} /\ written' = [k \in Keys |-> Nothing]
  BY DEF ClearSeen, Clear
<1>3. WrittenType' /\ KeptIsWritten'
  BY <1>2 DEF WrittenType, KeptIsWritten
<1>4. MissingIsRivalled'
  BY <1>2 DEF MissingIsRivalled, Promise!Fresh, Promise!Written, Promise!Nothing, Nothing
<1>5. QED
  BY <1>1, <1>3, <1>4 DEF HistoryInv

(* Ages keep their order as they grow. *)
LEMMA TickSeenKeepsInv == ASSUME HistoryInv, TickSeen PROVE HistoryInv'
<1>1. CacheInv' /\ TypeOK /\ Tick
  BY CacheNextInv DEF HistoryInv, TickSeen, Next, CacheInv
<1>2. /\ DOMAIN entries' = DOMAIN entries
      /\ \A k \in DOMAIN entries :
             /\ entries'[k].value = entries[k].value
             /\ entries'[k].ttl = IF entries[k].ttl = 0 THEN 0 ELSE entries[k].ttl - 1
  BY <1>1, TickShape
<1>3. WrittenType
  BY DEF HistoryInv
<1>4. ASSUME NEW k \in Keys
      PROVE  /\ written'[k] \in Written \cup {Nothing}
             /\ written'[k] # Nothing <=> written[k] # Nothing
             /\ written[k] # Nothing =>
                    /\ written'[k].value = written[k].value
                    /\ written'[k].age = IF written[k].age < TTL THEN written[k].age + 1
                                         ELSE written[k].age
  <2>1. written'[k] = IF written[k] # Nothing /\ written[k].age < TTL
                      THEN [written[k] EXCEPT !.age = @ + 1]
                      ELSE written[k]
    BY DEF TickSeen
  <2>2. written[k] \in Written \cup {Nothing}
    BY <1>3 DEF WrittenType
  <2>3. CASE written[k] # Nothing /\ written[k].age < TTL
    <3>1. written[k].value \in Values /\ written[k].age + 1 \in 0..TTL
      BY <2>2, <2>3, CacheAssumption DEF Written
    <3>2. written'[k] = [value |-> written[k].value, age |-> written[k].age + 1]
      BY <2>1, <2>2, <2>3 DEF Written
    <3>3. written'[k] # Nothing
      BY <3>2 DEF Nothing
    <3>4. QED
      BY <2>3, <3>1, <3>2, <3>3 DEF Written
  <2>4. CASE ~(written[k] # Nothing /\ written[k].age < TTL)
    BY <2>1, <2>2, <2>4
  <2>5. QED
    BY <2>3, <2>4
<1>5. WrittenType'
  <2>1. written' = [k \in Keys |-> written'[k]]
    BY DEF TickSeen
  <2>2. QED
    BY <1>4, <2>1 DEF WrittenType
<1>6. KeptIsWritten'
  <2> SUFFICES ASSUME NEW k \in DOMAIN entries
               PROVE  /\ written'[k] # Nothing
                      /\ entries'[k].value = written'[k].value
                      /\ entries'[k].ttl = TTL - written'[k].age
    BY <1>2 DEF KeptIsWritten
  <2>1. k \in Keys /\ entries[k].ttl \in 0..TTL
    BY <1>1, EntryType
  <2>2. /\ written[k] # Nothing /\ entries[k].value = written[k].value
        /\ entries[k].ttl = TTL - written[k].age
    BY DEF HistoryInv, KeptIsWritten
  <2>3. written[k].age \in 0..TTL
    BY <1>3, <2>1, <2>2, WrittenFields
  <2>4. entries'[k].ttl = TTL - written'[k].age
    BY <1>2, <1>4, <2>1, <2>2, <2>3, CacheAssumption
  <2>5. QED
    BY <1>2, <1>4, <2>1, <2>2, <2>4
<1>7. MissingIsRivalled'
  <2> SUFFICES ASSUME NEW k \in Keys \ DOMAIN entries', Promise!Fresh(k)'
               PROVE  Cardinality(Promise!Rivals(k)') >= MaxSize
    BY DEF MissingIsRivalled
  <2>1. k \in Keys /\ k \notin DOMAIN entries
    BY <1>2
  <2>2. written'[k] # Nothing /\ written'[k].age < TTL
    BY DEF Promise!Fresh, Promise!Written, Promise!Nothing, Nothing
  <2>3. written[k] # Nothing /\ written[k].age \in 0..TTL
    BY <1>3, <1>4, <2>1, <2>2, WrittenFields
  <2>4. written[k].age < TTL /\ written'[k].age = written[k].age + 1
    BY <1>4, <2>1, <2>2, <2>3
  <2>5. Promise!Fresh(k)
    BY <1>3, <2>1, <2>3, <2>4, WrittenFields
  <2>6. Cardinality(Promise!Rivals(k)) >= MaxSize
    BY <2>1, <2>5 DEF HistoryInv, MissingIsRivalled
  <2>7. ASSUME NEW j \in Promise!Rivals(k)
        PROVE  j \in Promise!Rivals(k)'
    <3>1. j \in Keys /\ j # k /\ written[j] # Nothing /\ written[j].age <= written[k].age
      BY <2>7 DEF Promise!Rivals, Promise!Written, Promise!Nothing, Nothing
    <3>2. written[j].age \in 0..TTL
      BY <1>3, <3>1, WrittenFields
    <3>3. written'[j] # Nothing /\ written'[j].age \in {written[j].age, written[j].age + 1}
      BY <1>4, <3>1
    <3>4. written'[j].age <= written'[k].age
      BY <2>3, <2>4, <3>1, <3>2, <3>3
    <3>5. QED
      BY <3>1, <3>3, <3>4 DEF Promise!Rivals, Promise!Written, Promise!Nothing, Nothing
  <2>8. QED
    BY <2>6, <2>7, RivalsGrow
<1>8. QED
  BY <1>1, <1>5, <1>6, <1>7 DEF HistoryInv

(* What makes room is an entry that expires first: every other key in the  *)
(* cache, and the one stored, are its rivals.                              *)
LEMMA StoreSeenKeepsInv ==
    ASSUME HistoryInv, NEW city \in Cities, NEW v \in Values, StoreSeen(city, v)
    PROVE  HistoryInv'
<1> DEFINE k == KeyOf[city]
<1>1. CacheInv' /\ TypeOK /\ k \in Keys /\ WrittenType
  BY StoreKeepsInv, CacheAssumption DEF HistoryInv, StoreSeen, CacheInv
<1>2. PICK stay \in SUBSET DOMAIN entries :
          /\ Staying(k, stay)
          /\ DOMAIN entries' = stay \cup {k}
          /\ entries'[k] = [value |-> v, ttl |-> TTL]
          /\ \A j \in stay \ {k} : entries'[j] = entries[j]
  BY <1>1, StoreShape DEF StoreSeen
<1>3. written' = [written EXCEPT ![k] = [value |-> v, age |-> 0]]
  BY DEF StoreSeen
<1> HIDE DEF k
<1>4. [value |-> v, age |-> 0] \in Written /\ [value |-> v, age |-> 0] # Nothing
  BY CacheAssumption DEF Written, Nothing
<1>5. /\ written'[k] = [value |-> v, age |-> 0]
      /\ \A j \in Keys \ {k} : written'[j] = written[j]
  BY <1>1, <1>3 DEF WrittenType
<1>6. WrittenType'
  BY <1>1, <1>3, <1>4 DEF WrittenType
<1>7. KeptIsWritten'
  <2> SUFFICES ASSUME NEW j \in stay \cup {k}
               PROVE  /\ written'[j] # Nothing
                      /\ entries'[j].value = written'[j].value
                      /\ entries'[j].ttl = TTL - written'[j].age
    BY <1>2 DEF KeptIsWritten
  <2>1. CASE j = k
    BY <1>2, <1>4, <1>5, <2>1, CacheAssumption
  <2>2. CASE j # k
    <3>1. j \in DOMAIN entries /\ j \in Keys /\ entries'[j] = entries[j] /\ written'[j] = written[j]
      BY <1>1, <1>2, <1>5, <2>2 DEF TypeOK
    <3>2. QED
      BY <3>1 DEF HistoryInv, KeptIsWritten
  <2>3. QED
    BY <2>1, <2>2
<1>8. MissingIsRivalled'
  <2> SUFFICES ASSUME NEW j \in Keys \ DOMAIN entries', Promise!Fresh(j)'
               PROVE  Cardinality(Promise!Rivals(j)') >= MaxSize
    BY DEF MissingIsRivalled
  <2>1. j \in Keys /\ j # k /\ j \notin stay /\ written'[j] = written[j]
    BY <1>2, <1>5
  <2>2. written[j] # Nothing /\ written[j].age \in 0..TTL /\ written[j].age < TTL
    <3>1. written'[j] # Nothing /\ written'[j].age < TTL
      BY DEF Promise!Fresh, Promise!Written, Promise!Nothing, Nothing
    <3>2. QED
      BY <1>1, <2>1, <3>1, WrittenFields
  <2>3. Promise!Fresh(j)
    BY <1>1, <2>1, <2>2, WrittenFields
  <2>4. k \in Promise!Rivals(j)'
    BY <1>1, <1>4, <1>5, <2>1, <2>2
    DEF Promise!Rivals, Promise!Written, Promise!Nothing, Nothing
  <2>5. ASSUME NEW i \in Keys \ {k}
        PROVE  i \in Promise!Rivals(j)' <=> i \in Promise!Rivals(j)
    BY <1>5, <2>1, <2>5 DEF Promise!Rivals, Promise!Written, Promise!Nothing, Nothing
  <2>6. CASE j \notin DOMAIN entries
    <3>1. Cardinality(Promise!Rivals(j)) >= MaxSize
      BY <2>1, <2>3, <2>6 DEF HistoryInv, MissingIsRivalled
    <3>2. Promise!Rivals(j) \subseteq Promise!Rivals(j)'
      BY <2>4, <2>5, RivalsFinite
    <3>3. QED
      BY <3>1, <3>2, RivalsGrow
  <2>7. CASE j \in DOMAIN entries
    <3>1. /\ k \notin DOMAIN entries /\ Cardinality(DOMAIN entries) >= MaxSize
          /\ \E old \in DOMAIN entries : Oldest(old) /\ stay = DOMAIN entries \ {old}
      BY <1>2, <2>1, <2>7 DEF Staying
    <3>2. Oldest(j) /\ stay = DOMAIN entries \ {j}
      BY <2>1, <2>7, <3>1
    <3>3. ASSUME NEW i \in stay
          PROVE  i \in Promise!Rivals(j)
      <4>1. i \in DOMAIN entries /\ i \in Keys /\ i # j /\ entries[j].ttl <= entries[i].ttl
        BY <1>1, <3>2, <3>3 DEF Oldest, TypeOK
      <4>2. /\ written[i] # Nothing /\ entries[i].ttl = TTL - written[i].age
            /\ entries[j].ttl = TTL - written[j].age
        BY <2>7, <4>1 DEF HistoryInv, KeptIsWritten
      <4>3. written[i].age \in 0..TTL
        BY <1>1, <4>1, <4>2, WrittenFields
      <4>4. written[i].age <= written[j].age
        BY <2>2, <4>1, <4>2, <4>3, CacheAssumption
      <4>5. QED
        BY <4>1, <4>2, <4>4 DEF Promise!Rivals, Promise!Written, Promise!Nothing, Nothing
    <3>4. stay \cup {k} \subseteq Promise!Rivals(j)'
      BY <1>1, <2>4, <2>5, <3>1, <3>2, <3>3 DEF TypeOK
    <3>5. Cardinality(stay \cup {k}) >= MaxSize
      <4> DEFINE size == Cardinality(DOMAIN entries)
      <4>1. IsFiniteSet(DOMAIN entries) /\ size \in Nat /\ size >= MaxSize
        BY <1>1, <3>1, EntriesFinite
      <4>2. IsFiniteSet(stay) /\ Cardinality(stay) = size - 1
        BY <2>7, <3>2, <4>1, FS_RemoveElement
      <4>3. k \notin stay
        BY <3>1
      <4>4. Cardinality(stay \cup {k}) = Cardinality(stay) + 1
        BY <4>2, <4>3, FS_AddElement
      <4> HIDE DEF size
      <4>5. QED
        BY <4>1, <4>2, <4>4, CacheAssumption
    <3>6. /\ Cardinality(stay \cup {k}) <= Cardinality(Promise!Rivals(j)')
          /\ Cardinality(stay \cup {k}) \in Nat /\ Cardinality(Promise!Rivals(j)') \in Nat
      <4>1. Promise!Rivals(j)' \subseteq Keys
        BY DEF Promise!Rivals, Promise!Written
      <4>2. IsFiniteSet(Promise!Rivals(j)')
        BY <4>1, FS_Subset, CacheAssumption
      <4>3. QED
        BY <3>4, <4>2, FS_Subset, FS_CardinalityType
    <3>7. QED
      BY <3>5, <3>6, CacheAssumption
  <2>8. QED
    BY <2>6, <2>7
<1>9. QED
  BY <1>1, <1>6, <1>7, <1>8 DEF HistoryInv

LEMMA HistoryNextInv == HistoryInv /\ [HistoryNext]_historyVars => HistoryInv'
<1>1. ASSUME HistoryInv, UNCHANGED historyVars
      PROVE  HistoryInv'
  <2>1. UNCHANGED <<entries, answer, written>>
    BY <1>1 DEF historyVars, cacheVars
  <2>2. QED
    BY <1>1, <2>1
    DEF HistoryInv, CacheInv, TypeOK, SizeBounded, WrittenType, KeptIsWritten, MissingIsRivalled,
        Promise!Fresh, Promise!Rivals, Promise!Written
<1>2. QED
  BY <1>1, ClearSeenKeepsInv, TickSeenKeepsInv, LookupSeenKeepsInv, StoreSeenKeepsInv
  DEF HistoryNext

LEMMA HistoryInitInv == HistoryInit => HistoryInv
<1> SUFFICES ASSUME HistoryInit
             PROVE  HistoryInv
  OBVIOUS
<1>1. CacheInv /\ DOMAIN entries = {} /\ written = [k \in Keys |-> Nothing]
  BY CacheInitInv DEF HistoryInit, Init
<1>2. WrittenType /\ KeptIsWritten
  BY <1>1 DEF WrittenType, KeptIsWritten
<1>3. MissingIsRivalled
  BY <1>1 DEF MissingIsRivalled, Promise!Fresh, Promise!Written, Promise!Nothing, Nothing
<1>4. QED
  BY <1>1, <1>2, <1>3 DEF HistoryInv

(* What is in the cache is what was stored last, and what is missing too   *)
(* early has made room for others.                                         *)
THEOREM HistoryInvariance == HistorySpec => []HistoryInv
BY HistoryInitInv, HistoryNextInv, PTL DEF HistorySpec

(* The cache with its history is bounded as well. *)
THEOREM HistorySizeIsBounded == HistorySpec => []SizeBounded
<1>1. HistoryInv => SizeBounded
  BY DEF HistoryInv, CacheInv
<1>2. QED
  BY <1>1, HistoryInvariance, PTL

-----------------------------------------------------------------------------
(* Refinement of TtlStore.                                                 *)

(* A lookup finds what is fresh, or has a reason not to. *)
LEMMA LookupPromised ==
    ASSUME HistoryInv, NEW reader \in Kinds, NEW city \in Cities, LookupSeen(reader, city)
    PROVE  LET k == KeyOf[city] IN Promise!Hit(k, reader) \/ Promise!Forget(k, reader)
<1> DEFINE k == KeyOf[city]
<1>1. k \in Keys /\ WrittenType /\ written' = written
  BY CacheAssumption DEF HistoryInv, LookupSeen
<1>2. answer' = <<k, IF Found(reader, k) THEN {entries[k].value} ELSE {}>>
  BY DEF LookupSeen, Lookup
<1> HIDE DEF k
<1>3. ASSUME k \in DOMAIN entries
      PROVE  /\ Expired(k) <=> ~Promise!Fresh(k)
             /\ entries[k].value = written[k].value
  <2>1. /\ written[k] # Nothing /\ entries[k].value = written[k].value
        /\ entries[k].ttl = TTL - written[k].age
    BY <1>3 DEF HistoryInv, KeptIsWritten
  <2>2. written[k].age \in 0..TTL /\ k \in Promise!Written
    BY <1>1, <2>1, WrittenFields
  <2>3. entries[k].ttl = 0 <=> ~(written[k].age < TTL)
    BY <2>1, <2>2, CacheAssumption
  <2>4. QED
    BY <2>1, <2>2, <2>3 DEF Expired, Promise!Fresh
<1>4. CASE Found(reader, k)
  <2>1. /\ k \in DOMAIN entries /\ ~Expired(k) /\ Readable(reader, entries[k].value)
        /\ answer' = <<k, {entries[k].value}>>
    BY <1>2, <1>4 DEF Found
  <2>2. Promise!Hit(k, reader)
    BY <1>1, <1>3, <2>1 DEF Promise!Hit
  <2>3. QED
    BY <2>2 DEF k
<1>5. CASE ~Found(reader, k)
  <2>1. answer' = <<k, {}>>
    BY <1>2, <1>5
  <2>2. ASSUME Promise!Fresh(k), Readable(reader, written[k].value)
        PROVE  Cardinality(Promise!Rivals(k)) >= MaxSize
    <3>1. k \notin DOMAIN entries
      BY <1>3, <1>5, <2>2 DEF Found
    <3>2. QED
      BY <1>1, <2>2, <3>1 DEF HistoryInv, MissingIsRivalled
  <2>3. Promise!Forget(k, reader)
    BY <1>1, <2>1, <2>2
    DEF Promise!Forget, Promise!Cardinality, Promise!IsFiniteSet, Cardinality, IsFiniteSet
  <2>4. QED
    BY <2>3 DEF k
<1>6. QED
  BY <1>4, <1>5

LEMMA TickPromised ==
    ASSUME HistoryInv, TickSeen
    PROVE  Promise!Tick
<1>1. answer' = answer
  BY DEF TickSeen, Tick
<1>2. \A k \in Keys : k \in Promise!Written <=> written[k] # Nothing
  BY DEF Promise!Written, Promise!Nothing, Nothing
<1>3. written' = [k \in Keys |->
            IF k \in Promise!Written /\ written[k].age < TTL
            THEN [written[k] EXCEPT !.age = @ + 1]
            ELSE written[k]]
  BY <1>2 DEF TickSeen
<1>4. QED
  BY <1>1, <1>3 DEF Promise!Tick

LEMMA StepKeepsPromise ==
    HistoryInv /\ [HistoryNext]_historyVars => [Promise!Next]_<<written, answer>>
<1> SUFFICES ASSUME HistoryInv, [HistoryNext]_historyVars
             PROVE  [Promise!Next]_<<written, answer>>
  OBVIOUS
<1>1. CASE ClearSeen
  BY <1>1 DEF ClearSeen, Clear, Promise!Clear, Promise!Next, Promise!Nothing, Nothing
<1>2. CASE TickSeen
  BY <1>2, TickPromised DEF Promise!Next
<1>3. ASSUME NEW city \in Cities, NEW reader \in Kinds, LookupSeen(reader, city)
      PROVE  Promise!Next
  <2>1. KeyOf[city] \in Keys /\ reader \in Promise!Readers
    BY CacheAssumption DEF Kinds, Promise!Readers
  <2>2. QED
    BY <1>3, <2>1, LookupPromised DEF Promise!Next
<1>4. ASSUME NEW city \in Cities, NEW v \in Values, StoreSeen(city, v)
      PROVE  Promise!Next
  <2>1. KeyOf[city] \in Keys
    BY CacheAssumption
  <2>2. Promise!Store(KeyOf[city], v)
    BY <1>4 DEF StoreSeen, Store, Promise!Store
  <2>3. QED
    BY <2>1, <2>2 DEF Promise!Next
<1>5. CASE UNCHANGED historyVars
  BY <1>5 DEF historyVars, cacheVars
<1>6. QED
  BY <1>1, <1>2, <1>3, <1>4, <1>5 DEF HistoryNext

(* The cache implements its promise: it answers with what was stored last  *)
(* while that is fresh, and forgets it early only for MaxSize others.      *)
THEOREM CacheKeepsPromise == HistorySpec => CachesAsPromised
<1>1. HistoryInit => Promise!Init
  BY DEF HistoryInit, Init, Promise!Init, Promise!Nothing, Nothing
<1>2. QED
  BY <1>1, HistoryInvariance, StepKeepsPromise, PTL
  DEF HistorySpec, CachesAsPromised, Promise!Spec

=============================================================================
