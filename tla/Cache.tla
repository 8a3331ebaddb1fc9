------------------------------- MODULE Cache -------------------------------
(***************************************************************************)
(* The response cache of go-dnsmasq (src/cache/cache.go, src/cache/hit.go) *)
(* as its concurrent users see it.  Every DNS request runs in a goroutine  *)
(* of its own (a Client here) that calls Hit and InsertMessage; the HTTP   *)
(* control server calls DumpCache.                                         *)
(*                                                                         *)
(* One action is one section of code run under the cache's RWMutex, or one *)
(* reading of the clock between two such sections.  Hit takes the mutex up *)
(* to three times (Search, the hit counter, Remove) and gives it back in   *)
(* between, so a call of Hit is a sequence of actions that other clients   *)
(* can interleave with.  InsertMessage is one critical section.  DumpCache *)
(* takes no lock at all.                                                   *)
(***************************************************************************)
EXTENDS Integers, FiniteSets, Functions

CONSTANTS
  Key,          \* the cache keys (question name and type, DNSSEC, transport)
  Msg,          \* the DNS messages that are stored
  AnswerTtls,   \* AnswerTtls[msg]: the TTLs of the records in msg.Answer
  Client,       \* the goroutines that use the cache
  Capacity,     \* c.capacity, the flag --rcache
  Ttl,          \* c.ttl and c.ttlMinSeconds, the flag --rcache-ttl
  StaleTtl,     \* c.staleTtl, the flag --rstale-ttl
  TtlFromResp,  \* c.ttlFromResp, the flag --rcache-ttl-from-resp
  TtlMax,       \* c.ttlMaxSeconds, the flag --rcache-ttl-max
  UintMod,      \* the number of values of Go's uint (the hit counters wrap)
  MaxNow,       \* bound: the last second of the modelled clock
  NoCall        \* the client has no call of Hit in progress

(***************************************************************************)
(* What CheckConfig (src/server/config.go:98-126) lets through.            *)
(***************************************************************************)
ASSUME ConfigAssumption ==
  /\ Capacity \in Nat
  /\ Ttl \in Nat \ {0}
  /\ StaleTtl \in Nat
  /\ TtlMax \in Nat
  /\ TtlFromResp \in BOOLEAN

ASSUME DataAssumption ==
  /\ AnswerTtls \in [Msg -> SUBSET Nat]
  /\ UintMod \in Nat \ {0}
  /\ MaxNow \in Nat

VARIABLES
  m,        \* the map c.m: a function from the cached keys to elements
  now,      \* the wall clock, in seconds
  pc,       \* pc[c]: how far c's call of Hit has come, "idle" outside calls
  call,     \* call[c]: the parameters and local variables of that call
  dumping,  \* DumpCache is iterating over c.m
  status    \* "up", or how the process died: "panic" or "fatal"

vars == <<m, now, pc, call, dumping, status>>

-----------------------------------------------------------------------------
(* Elements of the cache and the clock *)

elem == [expiration : Nat, msg : Msg, staleExpiration : Nat,
         hits : 0..(UintMod - 1), staleHits : 0..(UintMod - 1),
         ttlSeconds : Nat]

\* time.Since(t) < 0 and time.Since(t) > 0
Before(t) == now < t
After(t) == now > t

\* Mutant: the upper limit is forgotten.
getLowestTtl_noMax(msg, min, max) ==
  LET ttls  == IF AnswerTtls[msg] = {} THEN {0} ELSE AnswerTtls[msg]
      value == CHOOSE t \in ttls : \A u \in ttls : t <= u
  IN  IF value < min THEN min ELSE value

\* The lowest TTL of the answers (0 without answers), clamped to min..max.
getLowestTtl(msg, min, max) ==
  LET ttls  == IF AnswerTtls[msg] = {} THEN {0} ELSE AnswerTtls[msg]
      value == CHOOSE t \in ttls : \A u \in ttls : t <= u
  IN  IF value < min THEN min ELSE IF value > max THEN max ELSE value

Lifetime(msg) == IF TtlFromResp THEN getLowestTtl(msg, Ttl, TtlMax) ELSE Ttl

\* Mutant: the stale period is counted backwards from the insertion.
newElem_backwards(msg) ==
  [expiration |-> now + Lifetime(msg), msg |-> msg,
   staleExpiration |-> now - StaleTtl, hits |-> 0, staleHits |-> 0,
   ttlSeconds |-> IF TtlFromResp THEN Lifetime(msg) ELSE 0]

newElem(msg) ==
  [expiration |-> now + Lifetime(msg), msg |-> msg,
   staleExpiration |-> now + StaleTtl, hits |-> 0, staleHits |-> 0,
   ttlSeconds |-> IF TtlFromResp THEN Lifetime(msg) ELSE 0]

Store(mm, k, e) == [x \in DOMAIN mm \cup {k} |-> IF x = k THEN e ELSE mm[x]]
Delete(mm, k) == Restrict(mm, DOMAIN mm \ {k})

-----------------------------------------------------------------------------
(* Eviction.  Go visits a map in random order, so each operator yields the *)
(* set of maps that it may leave behind.                                   *)

\* Mutant: returns while len(c.m) <= Capacity.
evictRandomInternal_late(mm, onlyStale) ==
  IF Cardinality(DOMAIN mm) = Capacity + 1
  THEN {IF onlyStale /\ ~After(mm[k].staleExpiration) THEN mm ELSE Delete(mm, k) :
          k \in DOMAIN mm}
  ELSE {mm}

\* The loop counts i from Capacity - len(c.m) downwards and deletes the
\* element it visits when i = 0.  With len(c.m) = Capacity that is the first
\* one, whichever it is; with a longer map i starts below 0 and never gets
\* there, with a shorter one the function returns at once.
evictRandomInternal(mm, onlyStale) ==
  IF Cardinality(DOMAIN mm) = Capacity
  THEN {IF onlyStale /\ ~After(mm[k].staleExpiration) THEN mm ELSE Delete(mm, k) :
          k \in DOMAIN mm}
  ELSE {mm}

EvictRandom(mm) ==
  UNION {evictRandomInternal(m1, FALSE) : m1 \in evictRandomInternal(mm, TRUE)}

-----------------------------------------------------------------------------
Init ==
  /\ m = [k \in {} |-> {}]
  /\ now = 0
  /\ pc = [c \in Client |-> "idle"]
  /\ call = [c \in Client |-> NoCall]
  /\ dumping = FALSE
  /\ status = "up"

\* A write to c.m.  DumpCache iterates without the lock: when it meets the
\* write the Go runtime kills the process ("concurrent map iteration and map
\* write"), otherwise nothing is noticed.
MapWrite(mm) ==
  \/ m' = mm /\ UNCHANGED status
  \/ dumping /\ status' = "fatal" /\ UNCHANGED m

\* Mutant: every answer is stored, also over one that is still valid.
Stores_always(k) == TRUE

\* InsertMessage replaces an element only after its TTL and before the end of
\* its stale period.
Stores(k) ==
  k \in DOMAIN m =>
    After(m[k].expiration) /\ Before(m[k].staleExpiration)

\* Without a message to store only the eviction is left; it changes nothing as
\* long as the cache is below its capacity.
InsertMessage(c, k, msg) ==
  /\ status = "up"
  /\ pc[c] = "idle"
  /\ Capacity > 0
  /\ \/ /\ Stores(k)
        /\ \E mm \in EvictRandom(Store(m, k, newElem(msg))) : MapWrite(mm)
     \/ /\ ~Stores(k)
        /\ m' \in EvictRandom(m)
        /\ UNCHANGED status
  /\ UNCHANGED <<now, pc, call, dumping>>

-----------------------------------------------------------------------------
(* Hit(question, ..., keepStale, returnStale), up to its return.  A client *)
(* is back at "idle" when its call has returned.                           *)

\* What every caller passes: s.config.RStaleTtl > 0.
keepStale == StaleTtl > 0

Found(k) == Capacity > 0 /\ k \in DOMAIN m

Return(c) ==
  /\ pc' = [pc EXCEPT ![c] = "idle"]
  /\ call' = [call EXCEPT ![c] = NoCall]

\* Search, under the read lock, finds an element and copies it out.
Search(c, k, returnStale) ==
  /\ status = "up"
  /\ pc[c] = "idle"
  /\ Found(k)
  /\ pc' = [pc EXCEPT ![c] = "found"]
  /\ call' = [call EXCEPT ![c] =
       [key |-> k, returnStale |-> returnStale, msg |-> m[k].msg,
        expiration |-> m[k].expiration, staleExpiration |-> m[k].staleExpiration,
        valid |-> FALSE, start |-> now]]
  /\ UNCHANGED <<m, now, dumping, status>>

\* Search finds nothing: Hit returns nil and leaves no trace.
Miss(c, k) ==
  /\ status = "up"
  /\ pc[c] = "idle"
  /\ ~Found(k)
  /\ UNCHANGED vars

\* Mutant: keepStale is taken for returnStale.
TestExpiration_keepForReturn(c) ==
  /\ status = "up"
  /\ pc[c] = "found"
  /\ LET valid == Before(call[c].expiration)
     IN \/ /\ valid \/ keepStale
           /\ pc' = [pc EXCEPT ![c] = "count"]
           /\ call' = [call EXCEPT ![c].valid = valid]
        \/ /\ ~(valid \/ keepStale)
           /\ pc' = [pc EXCEPT ![c] = "drop"]
           /\ UNCHANGED call
  /\ UNCHANGED <<m, now, dumping, status>>

\* valid := time.Since(exp) < 0, and the branches that it decides.
TestExpiration(c) ==
  /\ status = "up"
  /\ pc[c] = "found"
  /\ LET valid == Before(call[c].expiration)
     IN \/ /\ valid \/ call[c].returnStale
           /\ pc' = [pc EXCEPT ![c] = "count"]
           /\ call' = [call EXCEPT ![c].valid = valid]
        \/ /\ ~(valid \/ call[c].returnStale) /\ ~keepStale
           /\ pc' = [pc EXCEPT ![c] = "drop"]
           /\ UNCHANGED call
        \/ /\ ~(valid \/ call[c].returnStale) /\ keepStale
           /\ Return(c)
  /\ UNCHANGED <<m, now, dumping, status>>

\* c.m[key].hits++ or c.m[key].staleHits++ under the write lock.  Without an
\* element c.m[key] is nil, and the increment panics.
CountHit(c) ==
  /\ status = "up"
  /\ pc[c] = "count"
  /\ LET k == call[c].key
     IN \/ /\ k \notin DOMAIN m
           /\ status' = "panic"
           /\ UNCHANGED <<m, pc>>
        \/ /\ k \in DOMAIN m
           /\ m' = IF call[c].valid
                   THEN [m EXCEPT ![k].hits = (@ + 1) % UintMod]
                   ELSE [m EXCEPT ![k].staleHits = (@ + 1) % UintMod]
           /\ pc' = [pc EXCEPT ![c] = "counted"]
           /\ UNCHANGED status
  /\ UNCHANGED <<now, call, dumping>>

\* time.Since(staleExp) > 0: the element goes before the message is returned.
TestStale(c) ==
  /\ status = "up"
  /\ pc[c] = "counted"
  /\ \/ /\ After(call[c].staleExpiration)
        /\ pc' = [pc EXCEPT ![c] = "dropServe"]
        /\ UNCHANGED call
     \/ /\ ~After(call[c].staleExpiration)
        /\ Return(c)
  /\ UNCHANGED <<m, now, dumping, status>>

\* Remove(key) under the write lock; Hit then returns nil ("drop") or the
\* message ("dropServe").
Remove(c) ==
  /\ status = "up"
  /\ pc[c] \in {"drop", "dropServe"}
  /\ MapWrite(Delete(m, call[c].key))
  /\ Return(c)
  /\ UNCHANGED <<now, dumping>>

-----------------------------------------------------------------------------
(* The control server and the clock *)

DumpStart ==
  /\ status = "up" /\ ~dumping
  /\ dumping' = TRUE
  /\ UNCHANGED <<m, now, pc, call, status>>

DumpEnd ==
  /\ status = "up" /\ dumping
  /\ dumping' = FALSE
  /\ UNCHANGED <<m, now, pc, call, status>>

Tick ==
  /\ status = "up"
  /\ now < MaxNow
  /\ now' = now + 1
  /\ UNCHANGED <<m, pc, call, dumping, status>>

\* What client c may do: its next call, or the next section of its Hit.
ClientStep(c) ==
  \/ \E k \in Key, msg \in Msg : InsertMessage(c, k, msg)
  \/ \E k \in Key, returnStale \in BOOLEAN : Search(c, k, returnStale)
  \/ \E k \in Key : Miss(c, k)
  \/ TestExpiration(c)
  \/ CountHit(c)
  \/ TestStale(c)
  \/ Remove(c)

Next ==
  \/ \E c \in Client : ClientStep(c)
  \/ DumpStart
  \/ DumpEnd
  \/ Tick

Spec == Init /\ [][Next]_vars

-----------------------------------------------------------------------------
(* Properties *)

Call == [key : Key, returnStale : BOOLEAN, msg : Msg, expiration : Nat,
         staleExpiration : Nat, valid : BOOLEAN, start : Nat]

Stage == {"idle", "found", "count", "counted", "drop", "dropServe"}

\* The types of the variables; a client has a call exactly while Hit runs.
TypeOK ==
  /\ DOMAIN m \subseteq Key
  /\ m \in [DOMAIN m -> elem]
  /\ now \in Nat
  /\ pc \in [Client -> Stage]
  /\ call \in [Client -> Call \cup {NoCall}]
  /\ \A c \in Client : pc[c] # "idle" => call[c] \in Call
  /\ dumping \in BOOLEAN
  /\ status \in {"up", "panic", "fatal"}

\* Hit is going to return the message that it holds.
Serving(c) == pc[c] \in {"count", "counted", "dropServe"}

\* cache.go:134-163.  Between two calls the cache holds fewer elements than
\* its capacity.  evictRandomInternal acts only on a map of exactly Capacity
\* elements, so a map that once grew past that size would never shrink again:
\* this bound is what keeps the cache from growing for ever.
BelowCapacity ==
  IF Capacity = 0 THEN DOMAIN m = {} ELSE Cardinality(DOMAIN m) < Capacity

\* hit.go:13-21.  A call of Hit that did not ask for stale answers never
\* returns a message whose TTL was over when the call began, whatever other
\* clients do to the element meanwhile.
FreshUnlessAsked ==
  \A c \in Client :
    Serving(c) /\ ~call[c].returnStale => call[c].start < call[c].expiration

\* cache.go:179-188 and 260-276, hit.go:18.  Without stale answers, what Hit
\* returns was stored less than the configured lifetime before the call:
\* --rcache-ttl seconds, or, with --rcache-ttl-from-resp, the larger of the
\* two limits that the TTLs of a response are clamped to.
ServedAge ==
  LET stored(c) == call[c].staleExpiration - StaleTtl
      longest   == IF TtlFromResp /\ TtlMax > Ttl THEN TtlMax ELSE Ttl
  IN  \A c \in Client :
        Serving(c) /\ ~call[c].returnStale => call[c].start - stored(c) < longest

\* cache.go:173-188.  Several clients resolve the same question at once and
\* insert their answers in any order, with TTLs of their own: none of them
\* shortens the life, or the stale life, that another one gave the key.
NeverShortened ==
  [][\A k \in DOMAIN m \cap DOMAIN m' :
       /\ m'[k].expiration >= m[k].expiration
       /\ m'[k].staleExpiration >= m[k].staleExpiration]_vars

\* hit.go:26-32.  Hit finds the element again that Search showed it; it never
\* dereferences a missing one.
NeverPanics == status # "panic"

\* cache.go:9-10 and 78-110.  DumpCache can be called while the server runs.
DumpIsSafe == status # "fatal"

\* hit.go:13-14, README.md "--rcache-ttl: TTL for entries in the response
\* cache".  What Hit removes is an element whose TTL is over.
HitRemovesExpired ==
  [][\A c \in Client :
       pc[c] \in {"drop", "dropServe"} /\ pc'[c] = "idle"
          /\ call[c].key \in DOMAIN m =>
         ~Before(m[call[c].key].expiration)]_vars
=============================================================================
