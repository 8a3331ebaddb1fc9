---------------------------- MODULE CacheProofs ----------------------------
(***************************************************************************)
(* Proofs about the response cache, for any sets of keys, messages and     *)
(* clients and for any configuration that CheckConfig accepts.             *)
(***************************************************************************)
EXTENDS Cache, FiniteSetTheorems, WellFoundedInduction, TLAPS

-----------------------------------------------------------------------------
(* Lifetimes *)

\* Every non-empty set of natural numbers has a least element.
LEMMA LeastNatural ==
  ASSUME NEW S \in SUBSET Nat, S # {}
  PROVE  \E t \in S : \A u \in S : t <= u
<1>1. IsWellFoundedOn(OpToRel(<, Nat), Nat)
  BY NatLessThanWellFounded
<1>2. PICK t \in S : \A u \in S : ~(<<u, t>> \in OpToRel(<, Nat))
  BY <1>1, WFMin
<1>3. \A u \in S : ~(u < t)
  BY <1>2 DEF OpToRel
<1> QED
  BY <1>3

\* The longest time that an element may be valid.
Longest == IF TtlFromResp /\ TtlMax > Ttl THEN TtlMax ELSE Ttl

\* The lifetime of a message is a natural number, and no longer than that.
LEMMA LifetimeBound ==
  ASSUME NEW msg \in Msg
  PROVE  Lifetime(msg) \in Nat /\ Lifetime(msg) <= Longest
<1> DEFINE ttls == IF AnswerTtls[msg] = {} THEN {0} ELSE AnswerTtls[msg]
           value == CHOOSE t \in ttls : \A u \in ttls : t <= u
<1>1. ttls \in SUBSET Nat /\ ttls # {}
  BY DataAssumption
<1>2. value \in Nat
  <2>1. \E t \in ttls : \A u \in ttls : t <= u
    BY <1>1, LeastNatural
  <2> HIDE DEF ttls
  <2>2. value \in ttls
    BY <2>1
  <2> QED BY <2>2, <1>1
<1> HIDE DEF value
<1>3. getLowestTtl(msg, Ttl, TtlMax) =
        IF value < Ttl THEN Ttl ELSE IF value > TtlMax THEN TtlMax ELSE value
  BY DEF getLowestTtl, value
<1> QED
  BY <1>2, <1>3, ConfigAssumption DEF Lifetime, Longest

-----------------------------------------------------------------------------
(* Maps: what Store, Delete and eviction leave behind *)

\* mm2 holds some of the elements of mm1, unchanged.
Submap(mm2, mm1) ==
  /\ DOMAIN mm2 \subseteq DOMAIN mm1
  /\ mm2 = [x \in DOMAIN mm2 |-> mm1[x]]

\* Deleting a key leaves a submap.
LEMMA DeleteSubmap ==
  ASSUME NEW mm, NEW k
  PROVE  Submap(Delete(mm, k), mm) /\ DOMAIN Delete(mm, k) = DOMAIN mm \ {k}
BY DEF Submap, Delete, Restrict

\* One round of eviction keeps the map or deletes one of its keys, and without
\* onlyStale it deletes one when the map has Capacity elements.
LEMMA EvictOnce ==
  ASSUME NEW mm, NEW onlyStale \in BOOLEAN,
         NEW mm2 \in evictRandomInternal(mm, onlyStale)
  PROVE  /\ mm2 = mm \/ \E k \in DOMAIN mm : mm2 = Delete(mm, k)
         /\ ~onlyStale /\ Cardinality(DOMAIN mm) = Capacity =>
              \E k \in DOMAIN mm : mm2 = Delete(mm, k)
BY DEF evictRandomInternal

\* Eviction only ever deletes.
LEMMA EvictSubmap ==
  ASSUME NEW mm, Submap(mm, mm), NEW mm2 \in EvictRandom(mm)
  PROVE  Submap(mm2, mm)
<1>1. PICK mm1 \in evictRandomInternal(mm, TRUE) :
        mm2 \in evictRandomInternal(mm1, FALSE)
  BY DEF EvictRandom
<1>2. Submap(mm1, mm)
  <2>1. mm1 = mm \/ \E k \in DOMAIN mm : mm1 = Delete(mm, k)
    BY EvictOnce
  <2> QED
    BY <2>1, DeleteSubmap
<1>3. Submap(mm2, mm1)
  <2>1. mm2 = mm1 \/ \E k \in DOMAIN mm1 : mm2 = Delete(mm1, k)
    BY <1>1, EvictOnce
  <2>2. Submap(mm1, mm1)
    BY <1>2 DEF Submap
  <2> QED
    BY <2>1, <2>2, DeleteSubmap
<1>4. \A x \in DOMAIN mm2 : mm2[x] = mm[x]
  BY <1>2, <1>3 DEF Submap
<1>5. mm2 = [x \in DOMAIN mm2 |-> mm2[x]]
  BY <1>3 DEF Submap
<1>6. DOMAIN mm2 \subseteq DOMAIN mm
  BY <1>2, <1>3 DEF Submap
<1>7. mm2 = [x \in DOMAIN mm2 |-> mm[x]]
  BY <1>4, <1>5, Zenon
<1> QED
  BY <1>6, <1>7 DEF Submap

\* Deleting a key that is there makes a finite map one element smaller.
LEMMA DeleteCardinality ==
  ASSUME NEW mm, IsFiniteSet(DOMAIN mm), NEW k \in DOMAIN mm
  PROVE  /\ IsFiniteSet(DOMAIN Delete(mm, k))
         /\ Cardinality(DOMAIN Delete(mm, k)) = Cardinality(DOMAIN mm) - 1
<1>1. DOMAIN Delete(mm, k) = DOMAIN mm \ {k}
  BY DeleteSubmap
<1> QED
  BY <1>1, FS_RemoveElement

\* A map of at most Capacity elements is left with fewer than Capacity.
LEMMA EvictCardinality ==
  ASSUME NEW mm, IsFiniteSet(DOMAIN mm), Capacity > 0,
         Cardinality(DOMAIN mm) <= Capacity, NEW mm2 \in EvictRandom(mm)
  PROVE  IsFiniteSet(DOMAIN mm2) /\ Cardinality(DOMAIN mm2) < Capacity
<1>1. PICK mm1 \in evictRandomInternal(mm, TRUE) :
        mm2 \in evictRandomInternal(mm1, FALSE)
  BY DEF EvictRandom
<1>2. IsFiniteSet(DOMAIN mm1) /\ Cardinality(DOMAIN mm1) <= Capacity
  <2>1. CASE mm1 = mm
    BY <2>1
  <2>2. CASE \E k \in DOMAIN mm : mm1 = Delete(mm, k)
    BY <2>2, DeleteCardinality, FS_CardinalityType, ConfigAssumption
  <2> QED
    BY <2>1, <2>2, EvictOnce
<1>3. Cardinality(DOMAIN mm1) \in Nat
  BY <1>2, FS_CardinalityType
<1>4. CASE Cardinality(DOMAIN mm1) = Capacity
  <2>1. PICK k \in DOMAIN mm1 : mm2 = Delete(mm1, k)
    BY <1>1, <1>4, EvictOnce
  <2> QED
    BY <2>1, <1>2, <1>3, <1>4, DeleteCardinality
<1>5. CASE Cardinality(DOMAIN mm1) # Capacity
  <2>1. mm2 = mm1
    BY <1>1, <1>5 DEF evictRandomInternal
  <2> QED
    BY <2>1, <1>2, <1>3, <1>5, ConfigAssumption
<1> QED
  BY <1>4, <1>5

-----------------------------------------------------------------------------
(* Types *)

\* A new element is an element.
LEMMA NewElemType ==
  ASSUME now \in Nat, NEW msg \in Msg
  PROVE  newElem(msg) \in elem
<1>1. 0 \in 0..(UintMod - 1)
  BY DataAssumption
<1>2. Lifetime(msg) \in Nat
  BY LifetimeBound
<1> QED
  BY <1>1, <1>2, ConfigAssumption DEF newElem, elem

\* The hit counters wrap around within their type.
LEMMA CounterType ==
  ASSUME NEW n \in 0..(UintMod - 1)
  PROVE  (n + 1) % UintMod \in 0..(UintMod - 1)
BY DataAssumption

\* The map keeps its type under every write.
MapType(mm) == DOMAIN mm \subseteq Key /\ mm \in [DOMAIN mm -> elem]

\* A submap of a typed map is typed.
LEMMA SubmapType ==
  ASSUME NEW mm, MapType(mm), NEW mm2, Submap(mm2, mm)
  PROVE  MapType(mm2)
BY DEF MapType, Submap

\* Storing an element keeps the type.
LEMMA StoreType ==
  ASSUME NEW mm, MapType(mm), NEW k \in Key, NEW e \in elem
  PROVE  MapType(Store(mm, k, e))
BY DEF MapType, Store

\* InsertMessage leaves a submap of the map, or of the map with the new
\* element stored.
LEMMA InsertMap ==
  ASSUME TypeOK, NEW c \in Client, NEW k \in Key, NEW msg \in Msg,
         InsertMessage(c, k, msg)
  PROVE  \/ m' = m
         \/ m' \in EvictRandom(m)
         \/ Stores(k) /\ m' \in EvictRandom(Store(m, k, newElem(msg)))
BY DEF InsertMessage, MapWrite

\* InsertMessage keeps the type of the map.
LEMMA InsertMapType ==
  ASSUME TypeOK, NEW c \in Client, NEW k \in Key, NEW msg \in Msg,
         InsertMessage(c, k, msg)
  PROVE  MapType(m')
<1>1. MapType(m) /\ Submap(m, m)
  BY DEF TypeOK, MapType, Submap
<1> DEFINE mm == Store(m, k, newElem(msg))
<1>2. MapType(mm) /\ Submap(mm, mm)
  BY <1>1, NewElemType, StoreType DEF TypeOK, MapType, Submap
<1> HIDE DEF mm
<1>3. CASE m' \in EvictRandom(m)
  BY <1>1, <1>3, EvictSubmap, SubmapType
<1>4. CASE m' \in EvictRandom(mm)
  BY <1>2, <1>4, EvictSubmap, SubmapType
<1> QED
  BY <1>1, <1>3, <1>4, InsertMap DEF mm

\* The part of TypeOK about the clients, one conjunct of it.
CallType ==
  /\ pc \in [Client -> Stage]
  /\ call \in [Client -> Call \cup {NoCall}]
  /\ \A c \in Client : pc[c] # "idle" => call[c] \in Call

\* The parts that TypeOK is made of.
LEMMA TypeParts ==
  TypeOK <=> /\ MapType(m)
             /\ CallType
             /\ now \in Nat
             /\ dumping \in BOOLEAN
             /\ status \in {"up", "panic", "fatal"}
BY DEF TypeOK, MapType, CallType

\* Returning from Hit keeps the types of the calls.
LEMMA ReturnType ==
  ASSUME CallType, NEW c \in Client, Return(c)
  PROVE  CallType'
BY DEF CallType, Return, Stage

\* A step of a client keeps the types.
LEMMA ClientStepType ==
  ASSUME TypeOK, NEW c \in Client, ClientStep(c)
  PROVE  TypeOK'
<1> USE TypeParts
<1>1. MapType(m) /\ CallType
  OBVIOUS
<1>2. ASSUME NEW k \in Key, NEW msg \in Msg, InsertMessage(c, k, msg)
      PROVE  TypeOK'
  <2>1. MapType(m')
    BY <1>2, InsertMapType
  <2>2. CallType'
    BY <1>2 DEF InsertMessage, CallType
  <2>3. (now \in Nat)' /\ (dumping \in BOOLEAN)'
    BY <1>2 DEF InsertMessage
  <2>4. (status \in {"up", "panic", "fatal"})'
    BY <1>2 DEF InsertMessage, MapWrite
  <2> QED BY <2>1, <2>2, <2>3, <2>4 DEF TypeOK, MapType, CallType
<1>3. ASSUME NEW k \in Key, NEW returnStale \in BOOLEAN, Search(c, k, returnStale)
      PROVE  TypeOK'
  <2>1. k \in DOMAIN m /\ m[k] \in elem
    BY <1>3 DEF Search, Found, MapType
  <2>2. call'[c] \in Call
    BY <1>3, <2>1 DEF Search, Call, elem, CallType, TypeOK
  <2>3. CallType'
    BY <1>3, <2>2 DEF Search, CallType, Stage
  <2> QED BY <1>3, <2>3 DEF Search, TypeOK, MapType, CallType
<1>4. ASSUME NEW k \in Key, Miss(c, k)
      PROVE  TypeOK'
  BY <1>4 DEF Miss, vars, TypeOK
<1>5. ASSUME TestExpiration(c)
      PROVE  TypeOK'
  <2>1. CallType'
    <3>1. call[c] \in Call
      BY <1>5 DEF TestExpiration, CallType
    <3>2. CASE Return(c)
      BY <3>2, ReturnType
    <3>3. CASE /\ pc' = [pc EXCEPT ![c] = "count"]
               /\ call' = [call EXCEPT ![c].valid = Before(call[c].expiration)]
      <4>1. Before(call[c].expiration) \in BOOLEAN
        BY DEF Before
      <4>2. [call[c] EXCEPT !.valid = Before(call[c].expiration)] \in Call
        BY <3>1, <4>1 DEF Call
      <4> QED BY <3>3, <4>2 DEF CallType, Stage
    <3>4. CASE pc' = [pc EXCEPT ![c] = "drop"] /\ UNCHANGED call
      BY <3>1, <3>4 DEF CallType, Stage
    <3> QED BY <1>5, <3>2, <3>3, <3>4 DEF TestExpiration
  <2> QED BY <1>5, <2>1 DEF TestExpiration, TypeOK, MapType, CallType
<1>6. ASSUME CountHit(c)
      PROVE  TypeOK'
  <2> DEFINE k == call[c].key
  <2>1. MapType(m')
    <3>1. CASE UNCHANGED m
      BY <3>1 DEF MapType
    <3>2. CASE k \in DOMAIN m /\ m' = [m EXCEPT ![k].hits = (@ + 1) % UintMod]
      <4>1. m[k] \in elem
        BY <3>2 DEF MapType
      <4>2. [m[k] EXCEPT !.hits = (@ + 1) % UintMod] \in elem
        BY <4>1, CounterType DEF elem
      <4> QED BY <3>2, <4>2 DEF MapType
    <3>3. CASE k \in DOMAIN m /\ m' = [m EXCEPT ![k].staleHits = (@ + 1) % UintMod]
      <4>1. m[k] \in elem
        BY <3>3 DEF MapType
      <4>2. [m[k] EXCEPT !.staleHits = (@ + 1) % UintMod] \in elem
        BY <4>1, CounterType DEF elem
      <4> QED BY <3>3, <4>2 DEF MapType
    <3> QED BY <1>6, <3>1, <3>2, <3>3 DEF CountHit
  <2>2. CallType'
    BY <1>6 DEF CountHit, CallType, Stage
  <2> QED BY <1>6, <2>1, <2>2 DEF CountHit, TypeOK, MapType, CallType
<1>7. ASSUME TestStale(c)
      PROVE  TypeOK'
  <2>1. CallType'
    <3>1. CASE Return(c)
      BY <3>1, ReturnType
    <3>2. CASE pc' = [pc EXCEPT ![c] = "dropServe"] /\ UNCHANGED call
      BY <1>7, <3>2 DEF TestStale, CallType, Stage
    <3> QED BY <1>7, <3>1, <3>2 DEF TestStale
  <2> QED BY <1>7, <2>1 DEF TestStale, TypeOK, MapType, CallType
<1>8. ASSUME Remove(c)
      PROVE  TypeOK'
  <2>1. CallType'
    BY <1>8, ReturnType DEF Remove
  <2>2. MapType(m')
    BY <1>8, DeleteSubmap, SubmapType DEF Remove, MapWrite
  <2> QED BY <1>8, <2>1, <2>2 DEF Remove, MapWrite, TypeOK, MapType, CallType
<1> QED
  BY <1>2, <1>3, <1>4, <1>5, <1>6, <1>7, <1>8 DEF ClientStep

\* The variables keep their types in every behaviour (cache.go, hit.go).
THEOREM TypeCorrect == Spec => []TypeOK
<1>1. Init => TypeOK
  <2> SUFFICES ASSUME Init PROVE TypeOK
    OBVIOUS
  <2>1. MapType(m)
    BY DEF Init, MapType
  <2>2. CallType
    BY DEF Init, CallType, Stage
  <2> QED BY <2>1, <2>2, TypeParts DEF Init
<1>2. TypeOK /\ [Next]_vars => TypeOK'
  <2> SUFFICES ASSUME TypeOK, [Next]_vars
               PROVE  TypeOK'
    OBVIOUS
  <2>1. CASE \E c \in Client : ClientStep(c)
    BY <2>1, ClientStepType
  <2>2. CASE DumpStart \/ DumpEnd \/ Tick
    <3>1. MapType(m') /\ CallType' /\ UNCHANGED status
      BY <2>2, TypeParts DEF DumpStart, DumpEnd, Tick, MapType, CallType
    <3>2. now' \in Nat
      BY <2>2 DEF DumpStart, DumpEnd, Tick, TypeOK
    <3>3. dumping' \in BOOLEAN
      BY <2>2 DEF DumpStart, DumpEnd, Tick, TypeOK
    <3> QED BY <3>1, <3>2, <3>3 DEF TypeOK, MapType, CallType
  <2>3. CASE UNCHANGED vars
    BY <2>3 DEF vars, TypeOK
  <2> QED BY <2>1, <2>2, <2>3 DEF Next
<1> QED
  BY <1>1, <1>2, PTL DEF Spec

-----------------------------------------------------------------------------
(* Capacity *)

\* Finiteness makes the cardinality of BelowCapacity meaningful.
Bounded == IsFiniteSet(DOMAIN m) /\ BelowCapacity

\* Storing one element adds at most one to the size of a finite map.
LEMMA StoreCardinality ==
  ASSUME NEW mm, IsFiniteSet(DOMAIN mm), NEW k, NEW e
  PROVE  /\ IsFiniteSet(DOMAIN Store(mm, k, e))
         /\ Cardinality(DOMAIN Store(mm, k, e)) <= Cardinality(DOMAIN mm) + 1
<1>1. DOMAIN Store(mm, k, e) = DOMAIN mm \cup {k}
  BY DEF Store
<1> QED
  BY <1>1, FS_AddElement, FS_CardinalityType

\* Deleting keys keeps the cache bounded.
LEMMA SmallerBounded ==
  ASSUME Bounded, DOMAIN m' \subseteq DOMAIN m
  PROVE  Bounded'
<1>1. /\ IsFiniteSet(DOMAIN m')
      /\ Cardinality(DOMAIN m') \in Nat
      /\ Cardinality(DOMAIN m) \in Nat
      /\ Cardinality(DOMAIN m') <= Cardinality(DOMAIN m)
  BY FS_Subset, FS_CardinalityType DEF Bounded
<1> QED
  BY <1>1, ConfigAssumption DEF Bounded, BelowCapacity

\* A step of a client keeps the cache below its capacity.
LEMMA ClientStepBounded ==
  ASSUME TypeOK, Bounded, NEW c \in Client, ClientStep(c)
  PROVE  Bounded'
<1>1. ASSUME NEW k \in Key, NEW msg \in Msg, InsertMessage(c, k, msg)
      PROVE  Bounded'
  <2>1. /\ Capacity > 0 /\ IsFiniteSet(DOMAIN m)
        /\ Cardinality(DOMAIN m) \in Nat /\ Cardinality(DOMAIN m) < Capacity
    BY <1>1, FS_CardinalityType, ConfigAssumption
       DEF InsertMessage, Bounded, BelowCapacity
  <2> DEFINE mm == Store(m, k, newElem(msg))
  <2>2. IsFiniteSet(DOMAIN mm) /\ Cardinality(DOMAIN mm) <= Capacity
    <3>1. /\ IsFiniteSet(DOMAIN mm)
          /\ Cardinality(DOMAIN mm) <= Cardinality(DOMAIN m) + 1
      BY <2>1, StoreCardinality
    <3>2. Cardinality(DOMAIN mm) \in Nat
      BY <3>1, FS_CardinalityType
    <3> HIDE DEF mm
    <3> QED BY <2>1, <3>1, <3>2, ConfigAssumption
  <2> HIDE DEF mm
  <2>3. CASE m' = m
    BY <2>3, SmallerBounded
  <2>4. CASE m' \in EvictRandom(m)
    <3>1. IsFiniteSet(DOMAIN m') /\ Cardinality(DOMAIN m') < Capacity
      BY <2>1, <2>4, EvictCardinality, ConfigAssumption
    <3> QED BY <2>1, <3>1 DEF Bounded, BelowCapacity
  <2>5. CASE m' \in EvictRandom(mm)
    <3>1. IsFiniteSet(DOMAIN m') /\ Cardinality(DOMAIN m') < Capacity
      BY <2>1, <2>2, <2>5, EvictCardinality
    <3> QED BY <2>1, <3>1 DEF Bounded, BelowCapacity
  <2> QED BY <1>1, <2>3, <2>4, <2>5, InsertMap DEF mm
<1>2. CASE UNCHANGED m
  BY <1>2, SmallerBounded
<1>3. CASE CountHit(c)
  BY <1>3, SmallerBounded DEF CountHit
<1>4. CASE Remove(c)
  BY <1>4, SmallerBounded, DeleteSubmap DEF Remove, MapWrite
<1> QED
  BY <1>1, <1>2, <1>3, <1>4
     DEF ClientStep, Search, Miss, TestExpiration, TestStale, vars

\* cache.go:134-163: for every capacity and any number of clients, the cache
\* holds fewer elements than its capacity between two critical sections.
THEOREM CapacityBound == Spec => []BelowCapacity
<1>1. Init => Bounded
  BY FS_EmptySet, ConfigAssumption DEF Init, Bounded, BelowCapacity
<1>2. TypeOK /\ Bounded /\ [Next]_vars => Bounded'
  <2> SUFFICES ASSUME TypeOK, Bounded, [Next]_vars
               PROVE  Bounded'
    OBVIOUS
  <2>1. CASE \E c \in Client : ClientStep(c)
    BY <2>1, ClientStepBounded
  <2>2. CASE UNCHANGED m
    BY <2>2, SmallerBounded
  <2> QED BY <2>1, <2>2 DEF Next, DumpStart, DumpEnd, Tick, vars
<1>3. Bounded => BelowCapacity
  BY DEF Bounded
<1> QED
  BY <1>1, <1>2, <1>3, TypeCorrect, PTL DEF Spec

-----------------------------------------------------------------------------
(* The age of what is served *)

\* The two dates of an element were computed at the same time, so they tell
\* how long the element was meant to live.
DatesAgree(exp, staleExp) ==
  LET stored == staleExp - StaleTtl
  IN  stored <= exp /\ exp <= stored + Longest

MapDates(mm) ==
  \A k \in DOMAIN mm : DatesAgree(mm[k].expiration, mm[k].staleExpiration)

\* A call began in the past and holds the dates of an element.
CallDates ==
  \A c \in Client : pc[c] # "idle" =>
    /\ call[c].start <= now
    /\ DatesAgree(call[c].expiration, call[c].staleExpiration)

Ages == MapDates(m) /\ CallDates /\ FreshUnlessAsked

\* The longest lifetime is a number.
LEMMA LongestType == Longest \in Nat
BY ConfigAssumption DEF Longest

\* The dates of a submap agree if those of the map do.
LEMMA SubmapDates ==
  ASSUME NEW mm, MapDates(mm), NEW mm2, Submap(mm2, mm)
  PROVE  MapDates(mm2)
BY DEF MapDates, Submap

\* The element that InsertMessage stores has dates that agree.
LEMMA StoreDates ==
  ASSUME now \in Nat, NEW mm, MapDates(mm), NEW k, NEW msg \in Msg
  PROVE  MapDates(Store(mm, k, newElem(msg)))
<1> DEFINE e == newElem(msg)
<1>1. DatesAgree(e.expiration, e.staleExpiration)
  BY LifetimeBound, LongestType, ConfigAssumption DEF DatesAgree, newElem
<1> HIDE DEF e
<1>2. MapDates(Store(mm, k, e))
  BY <1>1 DEF MapDates, Store
<1> QED BY <1>2 DEF e

\* A step of a client keeps the dates in order.
LEMMA ClientStepAges ==
  ASSUME TypeOK, TypeOK', Ages, NEW c \in Client, ClientStep(c)
  PROVE  Ages'
<1>1. MapDates(m) /\ CallDates /\ FreshUnlessAsked /\ now \in Nat /\ UNCHANGED now
  BY DEF Ages, TypeOK, ClientStep, InsertMessage, Search, Miss, TestExpiration,
         CountHit, TestStale, Remove, vars
<1>2. pc \in [Client -> Stage] /\ call \in [Client -> Call \cup {NoCall}]
  BY DEF TypeOK
<1>3. ASSUME UNCHANGED <<pc, call>>
      PROVE  CallDates' /\ FreshUnlessAsked'
  BY <1>1, <1>3 DEF CallDates, FreshUnlessAsked, Serving
<1>4. ASSUME Return(c)
      PROVE  CallDates' /\ FreshUnlessAsked'
  BY <1>1, <1>2, <1>4 DEF Return, CallDates, FreshUnlessAsked, Serving
<1>5. ASSUME NEW k \in Key, NEW msg \in Msg, InsertMessage(c, k, msg)
      PROVE  Ages'
  <2> DEFINE mm == Store(m, k, newElem(msg))
  <2>1. Submap(m, m) /\ Submap(mm, mm)
    BY DEF TypeOK, Submap, Store
  <2>2. MapDates(mm)
    BY <1>1, StoreDates
  <2> HIDE DEF mm
  <2>3. MapDates(m')
    BY <1>1, <1>5, <2>1, <2>2, InsertMap, EvictSubmap, SubmapDates DEF mm
  <2> QED BY <1>3, <1>5, <2>3 DEF InsertMessage, Ages
<1>6. ASSUME NEW k \in Key, NEW returnStale \in BOOLEAN, Search(c, k, returnStale)
      PROVE  Ages'
  <2>1. k \in DOMAIN m /\ DatesAgree(m[k].expiration, m[k].staleExpiration)
    BY <1>1, <1>6 DEF Search, Found, MapDates
  <2>2. CallDates'
    BY <1>1, <1>2, <1>6, <2>1 DEF Search, CallDates
  <2>3. FreshUnlessAsked'
    BY <1>1, <1>2, <1>6 DEF Search, FreshUnlessAsked, Serving
  <2> QED BY <1>1, <1>6, <2>2, <2>3 DEF Search, Ages
<1>7. ASSUME TestExpiration(c)
      PROVE  Ages'
  <2>1. call[c] \in Call /\ pc[c] = "found"
    BY <1>7 DEF TestExpiration, TypeOK
  <2>2. CASE /\ Before(call[c].expiration) \/ call[c].returnStale
             /\ pc' = [pc EXCEPT ![c] = "count"]
             /\ call' = [call EXCEPT ![c].valid = Before(call[c].expiration)]
    <3>1. \A d \in Client :
            /\ call'[d].start = call[d].start
            /\ call'[d].expiration = call[d].expiration
            /\ call'[d].staleExpiration = call[d].staleExpiration
            /\ call'[d].returnStale = call[d].returnStale
      BY <1>2, <2>1, <2>2 DEF Call
    <3>2. CallDates'
      BY <1>1, <1>2, <2>1, <2>2, <3>1 DEF CallDates
    <3>3. FreshUnlessAsked'
      <4> SUFFICES ASSUME NEW d \in Client, Serving(d)', ~call[d].returnStale
                   PROVE  call[d].start < call[d].expiration
        BY <3>1 DEF FreshUnlessAsked
      <4>1. CASE d = c
        BY <1>1, <2>1, <2>2, <4>1 DEF CallDates, Before, Call
      <4>2. CASE d # c
        BY <1>1, <1>2, <2>2, <4>2 DEF FreshUnlessAsked, Serving
      <4> QED BY <4>1, <4>2
    <3> QED BY <1>1, <1>7, <3>2, <3>3 DEF TestExpiration, Ages
  <2>3. CASE pc' = [pc EXCEPT ![c] = "drop"] /\ UNCHANGED call
    <3>1. CallDates' /\ FreshUnlessAsked'
      BY <1>1, <1>2, <2>1, <2>3 DEF CallDates, FreshUnlessAsked, Serving
    <3> QED BY <1>1, <1>7, <3>1 DEF TestExpiration, Ages
  <2>4. CASE Return(c)
    BY <1>1, <1>4, <1>7, <2>4 DEF TestExpiration, Ages
  <2> QED BY <1>7, <2>2, <2>3, <2>4 DEF TestExpiration
<1>8. ASSUME CountHit(c)
      PROVE  Ages'
  <2>1. \A k \in DOMAIN m' : /\ k \in DOMAIN m
                             /\ m'[k].expiration = m[k].expiration
                             /\ m'[k].staleExpiration = m[k].staleExpiration
    BY <1>8 DEF CountHit, TypeOK, elem
  <2>2. MapDates(m')
    BY <1>1, <2>1 DEF MapDates
  <2>3. CallDates' /\ FreshUnlessAsked'
    BY <1>1, <1>2, <1>8 DEF CountHit, CallDates, FreshUnlessAsked, Serving
  <2> QED BY <2>2, <2>3 DEF Ages
<1>9. ASSUME TestStale(c)
      PROVE  Ages'
  <2>1. CASE pc' = [pc EXCEPT ![c] = "dropServe"] /\ UNCHANGED call
    <3>1. CallDates' /\ FreshUnlessAsked'
      BY <1>1, <1>2, <1>9, <2>1 DEF TestStale, CallDates, FreshUnlessAsked, Serving
    <3> QED BY <1>1, <1>9, <3>1 DEF TestStale, Ages
  <2>2. CASE Return(c)
    BY <1>1, <1>4, <1>9, <2>2 DEF TestStale, Ages
  <2> QED BY <1>9, <2>1, <2>2 DEF TestStale
<1>10. ASSUME Remove(c)
       PROVE  Ages'
  <2>1. MapDates(m')
    BY <1>1, <1>10, DeleteSubmap, SubmapDates DEF Remove, MapWrite
  <2> QED BY <1>4, <1>10, <2>1 DEF Remove, Ages
<1>11. ASSUME NEW k \in Key, Miss(c, k)
       PROVE  Ages'
  BY <1>1, <1>3, <1>11 DEF Miss, vars, Ages
<1> QED
  BY <1>5, <1>6, <1>7, <1>8, <1>9, <1>10, <1>11 DEF ClientStep

\* The dates stay in order in every behaviour.
LEMMA AgesInvariant == Spec => []Ages
<1>1. Init => Ages
  BY DEF Init, Ages, MapDates, CallDates, FreshUnlessAsked, Serving
<1>2. TypeOK /\ TypeOK' /\ Ages /\ [Next]_vars => Ages'
  <2> SUFFICES ASSUME TypeOK, TypeOK', Ages, [Next]_vars
               PROVE  Ages'
    OBVIOUS
  <2>1. CASE \E c \in Client : ClientStep(c)
    BY <2>1, ClientStepAges
  <2>2. CASE UNCHANGED <<m, pc, call>> /\ now <= now'
    <3>1. MapDates(m')
      BY <2>2 DEF Ages, MapDates
    <3>2. FreshUnlessAsked'
      BY <2>2 DEF Ages, FreshUnlessAsked, Serving
    <3>3. CallDates'
      <4> SUFFICES ASSUME NEW c \in Client, pc[c] # "idle"
                   PROVE  /\ call[c].start <= now'
                          /\ DatesAgree(call[c].expiration, call[c].staleExpiration)
        BY <2>2 DEF CallDates
      <4>1. call[c].start \in Nat /\ now \in Nat /\ now' \in Nat
        BY DEF TypeOK, Call
      <4> QED BY <2>2, <4>1 DEF Ages, CallDates
    <3> QED BY <3>1, <3>2, <3>3 DEF Ages
  <2>3. now \in Nat
    BY DEF TypeOK
  <2> QED BY <2>1, <2>2, <2>3 DEF Next, DumpStart, DumpEnd, Tick, vars
<1> QED
  BY <1>1, <1>2, TypeCorrect, PTL DEF Spec

\* hit.go:13-21: whatever the clients interleave, a call of Hit that did not
\* ask for stale answers returns a message that was valid when it began.
THEOREM FreshAnswers == Spec => []FreshUnlessAsked
<1>1. Ages => FreshUnlessAsked
  BY DEF Ages
<1> QED
  BY <1>1, AgesInvariant, PTL

\* cache.go:179-188: such a message was stored less than the configured
\* lifetime ago, for all TTLs of responses and all limits.
THEOREM AnswerAge == Spec => []ServedAge
<1>1. TypeOK /\ Ages => ServedAge
  <2> SUFFICES ASSUME TypeOK, Ages, NEW c \in Client,
                      Serving(c), ~call[c].returnStale
               PROVE  call[c].start - (call[c].staleExpiration - StaleTtl) < Longest
    BY DEF ServedAge, Longest
  <2>1. call[c] \in Call /\ pc[c] # "idle"
    BY DEF Serving, TypeOK
  <2>2. call[c].start < call[c].expiration
    BY DEF Ages, FreshUnlessAsked
  <2>3. DatesAgree(call[c].expiration, call[c].staleExpiration)
    BY <2>1 DEF Ages, CallDates
  <2> QED
    BY <2>1, <2>2, <2>3, LongestType, ConfigAssumption DEF Call, DatesAgree
<1> QED
  BY <1>1, AgesInvariant, TypeCorrect, PTL

-----------------------------------------------------------------------------
(* Renewal *)

\* The step formula of NeverShortened, for one key.
Extends(k) ==
  /\ m'[k].expiration >= m[k].expiration
  /\ m'[k].staleExpiration >= m[k].staleExpiration

\* cache.go:173-188: of several answers that race for a key none shortens the
\* life that another one gave it, for all TTLs of responses and all limits.
THEOREM LifeNeverShortened == Spec => NeverShortened
<1>1. ASSUME TypeOK, Ages, [Next]_vars, NEW k \in DOMAIN m \cap DOMAIN m'
      PROVE  Extends(k)
  <2>0. m[k] \in elem /\ m[k].expiration \in Nat /\ m[k].staleExpiration \in Nat /\ now \in Nat
    BY <1>1 DEF TypeOK, elem
  <2>1. ASSUME m'[k].expiration = m[k].expiration,
               m'[k].staleExpiration = m[k].staleExpiration
        PROVE  Extends(k)
    BY <2>0, <2>1 DEF Extends
  <2>2. ASSUME NEW c \in Client, NEW j \in Key, NEW msg \in Msg,
               InsertMessage(c, j, msg)
        PROVE  Extends(k)
    <3> DEFINE mm == Store(m, j, newElem(msg))
    <3>1. Submap(m, m) /\ Submap(mm, mm)
      BY <1>1 DEF TypeOK, Submap, Store
    <3>2. CASE m' \in EvictRandom(m)
      <4>1. m'[k] = m[k]
        BY <1>1, <3>1, <3>2, EvictSubmap DEF Submap
      <4> QED BY <2>1, <4>1
    <3>3. CASE Stores(j) /\ m' \in EvictRandom(mm)
      <4>1. Submap(m', mm)
        <5> HIDE DEF mm
        <5> QED BY <3>1, <3>3, EvictSubmap
      <4>2. m'[k] = mm[k]
        BY <1>1, <4>1 DEF Submap
      <4>3. CASE k # j
        <5>1. m'[k] = m[k]
          BY <1>1, <4>2, <4>3 DEF Store
        <5> QED BY <2>1, <5>1
      <4>4. CASE k = j
        <5>1. m'[k] = newElem(msg)
          BY <4>2, <4>4 DEF Store
        <5>2. /\ m'[k].expiration = now + Lifetime(msg)
              /\ m'[k].staleExpiration = now + StaleTtl
          BY <5>1 DEF newElem
        <5>3. now > m[k].expiration
          BY <1>1, <3>3, <4>4 DEF Stores, After
        <5>4. m[k].staleExpiration - StaleTtl <= m[k].expiration
          BY <1>1 DEF Ages, MapDates, DatesAgree
        <5>5. Lifetime(msg) \in Nat /\ StaleTtl \in Nat
          BY LifetimeBound, ConfigAssumption
        <5> QED BY <2>0, <5>2, <5>3, <5>4, <5>5 DEF Extends
      <4> QED BY <4>3, <4>4
    <3>4. CASE m' = m
      BY <2>1, <3>4
    <3> QED BY <1>1, <2>2, <3>2, <3>3, <3>4, InsertMap
  <2>3. ASSUME NEW c \in Client, CountHit(c)
        PROVE  Extends(k)
    <3>1. m'[k].expiration = m[k].expiration /\ m'[k].staleExpiration = m[k].staleExpiration
      BY <1>1, <2>0, <2>3 DEF CountHit, TypeOK, elem
    <3> QED BY <2>1, <3>1
  <2>4. ASSUME NEW c \in Client, Remove(c)
        PROVE  Extends(k)
    <3>1. m'[k] = m[k]
      BY <1>1, <2>4 DEF Remove, MapWrite, Delete, Restrict
    <3> QED BY <2>1, <3>1
  <2>5. m' = m => Extends(k)
    BY <2>1
  <2> QED
    BY <1>1, <2>2, <2>3, <2>4, <2>5
       DEF Next, ClientStep, Search, Miss, TestExpiration, TestStale,
           DumpStart, DumpEnd, Tick, vars
<1>2. TypeOK /\ Ages /\ [Next]_vars =>
        [\A k \in DOMAIN m \cap DOMAIN m' :
           /\ m'[k].expiration >= m[k].expiration
           /\ m'[k].staleExpiration >= m[k].staleExpiration]_vars
  BY <1>1 DEF Extends
<1> QED
  BY <1>2, TypeCorrect, AgesInvariant, PTL DEF Spec, NeverShortened

-----------------------------------------------------------------------------
(* One client *)

\* The element that the only client found is still there when it counts the
\* hit.
StillThere ==
  /\ NeverPanics
  /\ \A c \in Client : pc[c] \in {"found", "count"} => call[c].key \in DOMAIN m

\* hit.go:26-32: with a single goroutine Hit never dereferences a missing
\* element.  (With two it can: the gap between Search and the counter is open
\* to removal and eviction.)
THEOREM OneClientNeverPanics ==
  ASSUME NEW c0, Client = {c0}
  PROVE  Spec => []NeverPanics
<1>1. Init => StillThere
  BY DEF Init, StillThere, NeverPanics
<1>2. TypeOK /\ StillThere /\ [Next]_vars => StillThere'
  <2> SUFFICES ASSUME TypeOK, StillThere, [Next]_vars
               PROVE  StillThere'
    OBVIOUS
  <2>1. c0 \in Client /\ pc \in [Client -> Stage]
        /\ call \in [Client -> Call \cup {NoCall}]
    BY DEF TypeOK
  <2>2. ASSUME NEW k \in Key, NEW msg \in Msg, InsertMessage(c0, k, msg)
        PROVE  StillThere'
    BY <2>1, <2>2 DEF InsertMessage, MapWrite, StillThere, NeverPanics
  <2>3. ASSUME NEW k \in Key, NEW r \in BOOLEAN, Search(c0, k, r)
        PROVE  StillThere'
    BY <2>1, <2>3 DEF Search, Found, StillThere, NeverPanics
  <2>4. CASE TestExpiration(c0)
    <3>1. call[c0] \in Call
      BY <2>1, <2>4 DEF TestExpiration, TypeOK
    <3>2. call'[c0].key = call[c0].key \/ pc'[c0] = "idle"
      BY <2>1, <2>4, <3>1 DEF TestExpiration, Return, Call
    <3> QED BY <2>1, <2>4, <3>2 DEF TestExpiration, StillThere, NeverPanics
  <2>5. CASE CountHit(c0)
    BY <2>1, <2>5 DEF CountHit, StillThere, NeverPanics
  <2>6. CASE TestStale(c0)
    BY <2>1, <2>6 DEF TestStale, Return, StillThere, NeverPanics
  <2>7. CASE Remove(c0)
    BY <2>1, <2>7 DEF Remove, MapWrite, Return, StillThere, NeverPanics
  <2>8. CASE UNCHANGED <<m, pc, call, status>>
    BY <2>8 DEF StillThere, NeverPanics
  <2> QED
    BY <2>1, <2>2, <2>3, <2>4, <2>5, <2>6, <2>7, <2>8
       DEF Next, ClientStep, Miss, DumpStart, DumpEnd, Tick, vars
<1>3. StillThere => NeverPanics
  BY DEF StillThere
<1> QED
  BY <1>1, <1>2, <1>3, TypeCorrect, PTL DEF Spec

\* While the only client is in Hit, the element that it found does not change
\* its date, and it is dropped only after one of the two dates that were read.
Held ==
  \A c \in Client :
    /\ pc[c] # "idle" /\ call[c].key \in DOMAIN m =>
         m[call[c].key].expiration = call[c].expiration
    /\ pc[c] = "drop" => call[c].expiration <= now
    /\ pc[c] = "dropServe" => call[c].staleExpiration < now

\* A step of the only client keeps Held.
LEMMA ClientStepHeld ==
  ASSUME NEW c0, Client = {c0}, TypeOK, TypeOK', Held, ClientStep(c0)
  PROVE  Held'
<1>1. /\ c0 \in Client /\ pc \in [Client -> Stage]
      /\ call \in [Client -> Call \cup {NoCall}] /\ now \in Nat
  BY DEF TypeOK
<1>2. ASSUME pc'[c0] = "idle" PROVE Held'
  BY <1>2 DEF Held
<1>3. ASSUME NEW k \in Key, NEW msg \in Msg, InsertMessage(c0, k, msg) PROVE Held'
  BY <1>2, <1>3 DEF InsertMessage
<1>4. ASSUME NEW k \in Key, NEW r \in BOOLEAN, Search(c0, k, r) PROVE Held'
  BY <1>1, <1>4 DEF Search, Held
<1>5. CASE TestExpiration(c0)
  <2>1. call[c0] \in Call /\ UNCHANGED <<m, now>> /\ pc[c0] = "found"
    BY <1>1, <1>5 DEF TestExpiration, TypeOK
  <2>2. CASE pc'[c0] = "count"
    <3>1. call'[c0].key = call[c0].key /\ call'[c0].expiration = call[c0].expiration
      BY <1>1, <1>5, <2>1, <2>2 DEF TestExpiration, Return, Call
    <3> QED BY <1>1, <2>1, <2>2, <3>1 DEF Held
  <2>3. CASE pc'[c0] = "drop"
    <3>1. UNCHANGED call /\ ~Before(call[c0].expiration)
      BY <1>1, <1>5, <2>3 DEF TestExpiration, Return
    <3>2. call[c0].expiration <= now
      BY <1>1, <2>1, <3>1 DEF Before, Call
    <3> QED BY <1>1, <2>1, <2>3, <3>1, <3>2 DEF Held
  <2> QED BY <1>1, <1>2, <1>5, <2>2, <2>3 DEF TestExpiration, Return
<1>6. CASE CountHit(c0)
  <2>1. UNCHANGED <<call, now>> /\ pc[c0] = "count" /\ pc'[c0] \in {"count", "counted"}
    BY <1>1, <1>6 DEF CountHit
  <2>2. \A k \in DOMAIN m' : k \in DOMAIN m /\ m'[k].expiration = m[k].expiration
    BY <1>6 DEF CountHit, TypeOK, elem
  <2> QED BY <1>1, <2>1, <2>2 DEF Held
<1>7. CASE TestStale(c0)
  <2>1. UNCHANGED <<m, now>> /\ pc[c0] = "counted"
    BY <1>7 DEF TestStale
  <2>2. CASE pc'[c0] = "dropServe"
    BY <1>1, <1>7, <2>1, <2>2 DEF TestStale, Return, After, Held
  <2> QED BY <1>1, <1>2, <1>7, <2>2 DEF TestStale, Return
<1>8. CASE Remove(c0)
  BY <1>1, <1>2, <1>8 DEF Remove, Return
<1>9. ASSUME NEW k \in Key, Miss(c0, k) PROVE Held'
  BY <1>2, <1>9 DEF Miss, vars
<1> QED
  BY <1>3, <1>4, <1>5, <1>6, <1>7, <1>8, <1>9 DEF ClientStep

\* hit.go:13-14 and 34-41: with a single goroutine and a stale period at least
\* as long as the longest lifetime, Hit removes only elements whose TTL is over.
\* (With a shorter stale period it removes valid ones.)
THEOREM OneClientRemovesExpired ==
  ASSUME NEW c0, Client = {c0}, Longest <= StaleTtl
  PROVE  Spec => HitRemovesExpired
<1>1. Init => Held
  BY DEF Init, Held
<1>2. TypeOK /\ TypeOK' /\ Held /\ [Next]_vars => Held'
  <2> SUFFICES ASSUME TypeOK, TypeOK', Held, [Next]_vars PROVE Held'
    OBVIOUS
  <2>1. CASE ClientStep(c0)
    BY <2>1, ClientStepHeld
  <2>2. CASE UNCHANGED <<m, pc, call>> /\ now <= now'
    <3> SUFFICES ASSUME NEW c \in Client
                 PROVE  /\ pc[c] = "drop" => call[c].expiration <= now'
                        /\ pc[c] = "dropServe" => call[c].staleExpiration < now'
      BY <2>2 DEF Held
    <3>1. now \in Nat /\ now' \in Nat
      BY DEF TypeOK
    <3>2. pc[c] \in {"drop", "dropServe"} =>
            call[c].expiration \in Nat /\ call[c].staleExpiration \in Nat
      BY DEF TypeOK, Call
    <3> QED BY <2>2, <3>1, <3>2 DEF Held
  <2>3. now \in Nat
    BY DEF TypeOK
  <2> QED BY <2>1, <2>2, <2>3 DEF Next, DumpStart, DumpEnd, Tick, vars
<1>3. TypeOK /\ Ages /\ Held =>
        \A c \in Client : pc[c] \in {"drop", "dropServe"} /\ call[c].key \in DOMAIN m =>
          ~Before(m[call[c].key].expiration)
  <2> SUFFICES ASSUME TypeOK, Ages, Held, NEW c \in Client,
                      pc[c] \in {"drop", "dropServe"}, call[c].key \in DOMAIN m
               PROVE  ~Before(m[call[c].key].expiration)
    OBVIOUS
  <2>1. /\ call[c] \in Call /\ now \in Nat
        /\ m[call[c].key].expiration = call[c].expiration
        /\ pc[c] = "drop" => call[c].expiration <= now
        /\ pc[c] = "dropServe" => call[c].staleExpiration < now
    BY DEF TypeOK, Held
  <2>2. DatesAgree(call[c].expiration, call[c].staleExpiration)
    BY DEF Ages, CallDates
  <2>3. call[c].expiration <= call[c].staleExpiration
    BY <2>1, <2>2, LongestType, ConfigAssumption DEF DatesAgree, Call
  <2> QED BY <2>1, <2>3 DEF Before, Call
<1>4. TypeOK /\ Ages /\ Held =>
        [\A c \in Client :
           pc[c] \in {"drop", "dropServe"} /\ pc'[c] = "idle"
              /\ call[c].key \in DOMAIN m =>
             ~Before(m[call[c].key].expiration)]_vars
  BY <1>3
<1> QED
  BY <1>1, <1>2, <1>4, TypeCorrect, AgesInvariant, PTL DEF Spec, HitRemovesExpired
=============================================================================
