---------------------------- MODULE ServerProofs ----------------------------
(***************************************************************************)
(* Proofs about the request handlers and the cache that they share, for    *)
(* any number of handlers and any set of requests.                         *)
(*                                                                         *)
(* The inductive invariant says of every message, wherever it is held (in  *)
(* the cache, in a call of Hit in progress, by a handler), which request   *)
(* it answers: a message belongs to a cache key, and a handler only ever   *)
(* holds messages that belong to the key of its request.                   *)
(***************************************************************************)
EXTENDS Server, TLAPS

-----------------------------------------------------------------------------
(* The inductive invariant *)

\* msg is a message under the cache key k.
Under(msg, k) == msg \in Message /\ CacheKey(msg.question) = k

\* msg may be stored when only positive messages are to be.
Storable(msg) == RCacheNonNegative /\ msg.rcode # "NOERROR" => isReverse(msg.question)

\* What the cache holds belongs to its key and could be stored.
MapFits(mm) ==
  \A k \in DOMAIN mm : "msg" \in DOMAIN mm[k] /\ Under(mm[k].msg, k) /\ Storable(mm[k].msg)

\* The variables of the handlers are functions on the handlers.
Domains ==
  /\ pc = [c \in Client |-> pc[c]] /\ call = [c \in Client |-> call[c]]
  /\ at = [c \in Client |-> at[c]] /\ req = [c \in Client |-> req[c]]
  /\ mStale = [c \in Client |-> mStale[c]] /\ resp = [c \in Client |-> resp[c]]
  /\ reply = [c \in Client |-> reply[c]] /\ written = [c \in Client |-> written[c]]

\* The types of the variables of one handler.
Typed(c) ==
  /\ pc[c] \in {"idle", "found", "count", "counted", "drop", "dropServe"}
  /\ at[c] \in {"idle", "hit", "hitStale", "local", "fail", "reverse", "forward", "store"}
  /\ req[c] \in Request \cup {NoMsg}
  /\ mStale[c] \in Message \cup {NoMsg} /\ resp[c] \in Message \cup {NoMsg}
  /\ reply[c] \in Message \cup {NoMsg} /\ written[c] \in 0..1

\* A handler that is not idle has a request, on a path that fits it, and has
\* written nothing before it stores.  A call of Hit is made for its request.
\* All messages that it holds or has written belong to its request.
Fits(c) ==
  /\ at[c] # "idle" => req[c] \in Request
  /\ at[c] \notin {"idle", "store"} => written[c] = 0
  /\ at[c] = "reverse" => isReverse(req[c])
  /\ pc[c] # "idle" => /\ at[c] \in {"hit", "hitStale"} /\ "msg" \in DOMAIN call[c]
                       /\ Under(call[c].msg, CacheKey(req[c]))
  /\ mStale[c] # NoMsg => at[c] # "idle" /\ Under(mStale[c], CacheKey(req[c]))
  /\ at[c] = "store" => Under(resp[c], CacheKey(req[c])) /\ Storable(resp[c])
  /\ reply[c] # NoMsg => req[c] \in Request /\ Under(reply[c], CacheKey(req[c]))

SInv == Domains /\ MapFits(m) /\ \A c \in Client : Typed(c) /\ Fits(c)

-----------------------------------------------------------------------------
(* Messages *)

\* The messages that a handler makes for its request.
LEMMA NewMsgFits ==
  ASSUME NEW rq \in Request, NEW rcode \in {"NOERROR", "NXDOMAIN", "SERVFAIL", "REFUSED"}
  PROVE  Under(NewMsg(rq, rcode), CacheKey(rq)) /\ NewMsg(rq, rcode).rcode = rcode
<1> DEFINE msg == NewMsg(rq, rcode)
           size == IF rcode = "NOERROR" THEN Size[rq.name] ELSE 1
<1>1. /\ rq.type \in {"A", "PTR", "TXT"} /\ rq.class \in {"IN", "CH"}
      /\ rq.dnssec \in BOOLEAN /\ rq.tcp \in BOOLEAN
  BY RequestAssumption
<1>2. size \in 1..3
  BY RequestAssumption
<1>3. Question(rq) \in [name : {x.name : x \in Request}, type : {"A", "PTR", "TXT"},
                        dnssec : BOOLEAN, tcp : BOOLEAN, class : {"IN", "CH"}]
  BY <1>1 DEF Question
<1>4. msg = [question |-> Question(rq), rcode |-> rcode, complete |-> TRUE, tc |-> FALSE,
             size |-> size]
  BY DEF NewMsg
<1> HIDE DEF msg, size
<1>5. msg \in Message
  BY <1>2, <1>3, <1>4 DEF Message
<1>6. msg.question = Question(rq) /\ msg.rcode = rcode
  BY <1>4
<1>7. CacheKey(Question(rq)) = CacheKey(rq)
  BY DEF CacheKey, Question
<1> QED BY <1>5, <1>6, <1>7 DEF Under, msg

\* Fit leaves question and response code alone.
LEMMA FitFits ==
  ASSUME NEW k, NEW msg, Under(msg, k), NEW bufsize \in 1..2
  PROVE  /\ Under(Fit(msg, bufsize), k)
         /\ Fit(msg, bufsize).rcode = msg.rcode /\ Fit(msg, bufsize).question = msg.question
<1> DEFINE cut == [msg EXCEPT !.complete = FALSE, !.tc = TRUE, !.size = bufsize]
<1>1. msg \in Message /\ CacheKey(msg.question) = k
  BY DEF Under
<1>2. bufsize \in 1..3
  OBVIOUS
<1>3. cut \in Message
  BY <1>1, <1>2 DEF Message
<1>4. cut.rcode = msg.rcode /\ cut.question = msg.question
  BY <1>1 DEF Message
<1> QED BY <1>1, <1>3, <1>4 DEF Fit, Under

\* What is written of a message fits the request that it belongs to.
LEMMA FittedFits ==
  ASSUME NEW rq \in Request, NEW msg, Under(msg, CacheKey(rq))
  PROVE  /\ Under(Fitted(rq, msg), CacheKey(rq))
         /\ ~(rq.tcp /\ Overflow(msg, 2)) => Fitted(rq, msg).rcode = msg.rcode
<1>1. rq.bufsize \in 1..2
  BY RequestAssumption
<1> QED BY <1>1, NewMsgFits, FitFits DEF Fitted

\* What ServeDNSForward yields fits the request, stale or not.
LEMMA ForwardedFits ==
  ASSUME NEW c \in Client, req[c] \in Request, NEW stale,
         stale # NoMsg => Under(stale, CacheKey(req[c])), NEW f \in Forwarded(c, stale)
  PROVE  Under(f.msg, CacheKey(req[c]))
<1>1. req[c].bufsize \in 1..2
  BY RequestAssumption
<1>2. PICK o \in R!Outcomes(stale # NoMsg, TRUE) \cup R!Outcomes(stale # NoMsg, FALSE) :
        f = [msg |-> IF o.stale THEN stale ELSE Upstream(req[c], o.rcode), stale |-> o.stale]
  BY DEF Forwarded
<1>3. o.rcode \in {"NOERROR", "NXDOMAIN", "SERVFAIL", "REFUSED"} /\ (o.stale => stale # NoMsg)
  BY DEF R!Outcomes, R!Rcode
<1>4. Under(Upstream(req[c], o.rcode), CacheKey(req[c]))
  BY <1>1, <1>3, NewMsgFits, FitFits DEF Upstream
<1> QED BY <1>2, <1>3, <1>4

\* Messages under a key agree on everything but the class of the question.
LEMMA UnderMeans ==
  ASSUME NEW rq \in Request, NEW msg, Under(msg, CacheKey(rq))
  PROVE  /\ [msg.question EXCEPT !.class = rq.class] = Question(rq)
         /\ isReverse(msg.question) <=> isReverse(rq)
<1>1. msg.question \in [name : {x.name : x \in Request}, type : {"A", "PTR", "TXT"},
                        dnssec : BOOLEAN, tcp : BOOLEAN, class : {"IN", "CH"}]
  BY DEF Under, Message
<1>2. /\ msg.question.name = rq.name /\ msg.question.type = rq.type
      /\ msg.question.dnssec = rq.dnssec /\ msg.question.tcp = rq.tcp
  <2>1. CacheKey(msg.question) = CacheKey(rq)
    BY DEF Under
  <2>2. \A x : /\ CacheKey(x).name = x.name /\ CacheKey(x).type = x.type
               /\ CacheKey(x).dnssec = x.dnssec /\ CacheKey(x).tcp = x.tcp
    BY DEF CacheKey
  <2> QED BY <2>1, <2>2
<1>3. [msg.question EXCEPT !.class = rq.class] = Question(rq)
  BY <1>1, <1>2 DEF Question
<1> QED BY <1>2, <1>3 DEF isReverse

-----------------------------------------------------------------------------
(* The cache *)

\* Eviction leaves a part of the map.
LEMMA EvictFits ==
  ASSUME NEW mm, MapFits(mm), NEW mm2 \in C!EvictRandom(mm)
  PROVE  MapFits(mm2)
<1>1. ASSUME NEW m1, MapFits(m1), NEW k PROVE MapFits(C!Delete(m1, k))
  BY <1>1 DEF MapFits, C!Delete, C!Restrict
<1>2. ASSUME NEW m1, MapFits(m1), NEW b \in BOOLEAN, NEW m2 \in C!evictRandomInternal(m1, b)
      PROVE  MapFits(m2)
  BY <1>1, <1>2 DEF C!evictRandomInternal
<1>3. PICK m1 \in C!evictRandomInternal(mm, TRUE) : mm2 \in C!evictRandomInternal(m1, FALSE)
  BY DEF C!EvictRandom
<1> QED BY <1>2, <1>3

\* InsertMessage keeps what is in the cache in order.
LEMMA InsertFits ==
  ASSUME MapFits(m), NEW c \in Client, NEW msg, Under(msg, CacheKey(req[c])), Storable(msg),
         Insert(c, msg)
  PROVE  MapFits(m') /\ UNCHANGED <<pc, call>>
<1> DEFINE k == CacheKey(req[c])
<1>1. CASE UNCHANGED cache
  BY <1>1 DEF cache
<1>2. CASE C!InsertMessage(c, k, msg)
  <2>1. C!newElem(msg).msg = msg /\ "msg" \in DOMAIN C!newElem(msg)
    BY DEF C!newElem
  <2>2. MapFits(C!Store(m, k, C!newElem(msg)))
    <3> DEFINE e == C!newElem(msg)
    <3> HIDE DEF e, k
    <3> QED BY <2>1 DEF MapFits, C!Store, e, k
  <2>3. \/ m' \in C!EvictRandom(C!Store(m, k, C!newElem(msg)))
        \/ m' \in C!EvictRandom(m)
        \/ m' = m
    BY <1>2 DEF C!InsertMessage, C!MapWrite
  <2>4. UNCHANGED <<pc, call>>
    BY <1>2 DEF C!InsertMessage
  <2> QED BY <2>2, <2>3, <2>4, EvictFits
<1> QED BY <1>1, <1>2 DEF Insert

-----------------------------------------------------------------------------
(* Steps of one handler *)

\* Only the variables of handler c change.
Only(c) ==
  /\ pc' = [pc EXCEPT ![c] = pc'[c]] /\ call' = [call EXCEPT ![c] = call'[c]]
  /\ at' = [at EXCEPT ![c] = at'[c]] /\ req' = [req EXCEPT ![c] = req'[c]]
  /\ mStale' = [mStale EXCEPT ![c] = mStale'[c]] /\ resp' = [resp EXCEPT ![c] = resp'[c]]
  /\ reply' = [reply EXCEPT ![c] = reply'[c]] /\ written' = [written EXCEPT ![c] = written'[c]]

\* A step of one handler does not disturb the others.
LEMMA OneHandler ==
  ASSUME SInv, NEW c \in Client, Only(c), MapFits(m'), Typed(c)', Fits(c)'
  PROVE  SInv'
<1>1. Domains'
  BY DEF SInv, Domains, Only
<1>2. ASSUME NEW d \in Client, d # c PROVE Typed(d)' /\ Fits(d)'
  <2>1. /\ pc'[d] = pc[d] /\ call'[d] = call[d] /\ at'[d] = at[d] /\ req'[d] = req[d]
        /\ mStale'[d] = mStale[d] /\ resp'[d] = resp[d] /\ reply'[d] = reply[d]
        /\ written'[d] = written[d]
    BY <1>2 DEF SInv, Domains, Only
  <2>2. Typed(d)'
    BY <2>1 DEF SInv, Typed
  <2>3. Fits(d)'
    BY <2>1 DEF SInv, Fits
  <2> QED BY <2>2, <2>3
<1> QED BY <1>1, <1>2 DEF SInv

\* A new request.
LEMMA ReceiveStep ==
  ASSUME SInv, NEW c \in Client, NEW rq \in Request, Receive(c, rq)
  PROVE  SInv'
<1>1. Domains /\ MapFits(m) /\ Typed(c) /\ Fits(c)
  BY DEF SInv
<1>2. /\ at[c] = "idle" /\ at'[c] = "hit" /\ req'[c] = rq /\ reply'[c] = NoMsg /\ written'[c] = 0
      /\ UNCHANGED <<m, pc, call, mStale, resp>>
  BY <1>1 DEF Receive, Goto, cache, Domains
<1>3. Only(c)
  BY <1>1 DEF Receive, Goto, cache, Domains, Only
<1>4. Typed(c)'
  BY <1>1, <1>2 DEF Typed
<1>5. Fits(c)'
  BY <1>1, <1>2 DEF Fits
<1> QED BY <1>1, <1>2, <1>3, <1>4, <1>5, OneHandler

\* What Hit does with the variables of the cache: it keeps the map in order,
\* and its call in progress belongs to the request.
LEMMA HitFits ==
  ASSUME SInv, NEW c \in Client, at[c] \in {"hit", "hitStale"},
         \/ C!Search(c, CacheKey(req[c]), at[c] = "hitStale")
         \/ C!Miss(c, CacheKey(req[c]))
         \/ C!TestExpiration(c) \/ C!CountHit(c) \/ C!TestStale(c) \/ C!Remove(c)
  PROVE  /\ MapFits(m')
         /\ pc' = [pc EXCEPT ![c] = pc'[c]] /\ call' = [call EXCEPT ![c] = call'[c]]
         /\ pc'[c] \in {"idle", "found", "count", "counted", "drop", "dropServe"}
         /\ pc'[c] # "idle" => "msg" \in DOMAIN call'[c] /\ Under(call'[c].msg, CacheKey(req[c]))
<1> USE DEF C!Stage
<1>1. Domains /\ MapFits(m) /\ Typed(c) /\ Fits(c)
  BY DEF SInv
<1>2. pc = [x \in Client |-> pc[x]] /\ call = [x \in Client |-> call[x]]
  BY <1>1 DEF Domains
<1>3. CASE C!Search(c, CacheKey(req[c]), at[c] = "hitStale")
  <2>1. CacheKey(req[c]) \in DOMAIN m
    BY <1>3 DEF C!Search, C!Found
  <2>2. "msg" \in DOMAIN call'[c] /\ call'[c].msg = m[CacheKey(req[c])].msg
    BY <1>2, <1>3 DEF C!Search
  <2>3. Under(call'[c].msg, CacheKey(req[c]))
    BY <1>1, <2>1, <2>2 DEF MapFits
  <2> QED BY <1>1, <1>2, <1>3, <2>2, <2>3 DEF C!Search
<1>4. CASE C!Miss(c, CacheKey(req[c]))
  BY <1>1, <1>2, <1>4 DEF C!Miss, C!vars
<1>5. CASE C!TestExpiration(c)
  <2>1. UNCHANGED m /\ pc[c] # "idle"
    BY <1>5 DEF C!TestExpiration
  <2>2. \/ /\ pc' = [pc EXCEPT ![c] = "count"]
           /\ call' = [call EXCEPT ![c].valid = C!Before(call[c].expiration)]
        \/ pc' = [pc EXCEPT ![c] = "drop"] /\ call' = call
        \/ pc' = [pc EXCEPT ![c] = "idle"] /\ call' = [call EXCEPT ![c] = NoCall]
    BY <1>5 DEF C!TestExpiration, C!Return
  <2> QED BY <1>1, <1>2, <2>1, <2>2 DEF Fits
<1>6. CASE C!CountHit(c)
  <2>1. pc[c] # "idle" /\ UNCHANGED call /\ (pc' = pc \/ pc' = [pc EXCEPT ![c] = "counted"])
    BY <1>6 DEF C!CountHit
  <2>2. MapFits(m')
    <3>1. CASE m' = m
      BY <1>1, <3>1
    <3>2. CASE \E k \in DOMAIN m : \E v : m' = [m EXCEPT ![k].hits = v]
      BY <1>1, <3>2 DEF MapFits
    <3>3. CASE \E k \in DOMAIN m : \E v : m' = [m EXCEPT ![k].staleHits = v]
      BY <1>1, <3>3 DEF MapFits
    <3> QED BY <1>6, <3>1, <3>2, <3>3 DEF C!CountHit
  <2> QED BY <1>1, <1>2, <2>1, <2>2 DEF Fits, Typed
<1>7. CASE C!TestStale(c)
  BY <1>1, <1>2, <1>7 DEF C!TestStale, C!Return, Fits
<1>8. CASE C!Remove(c)
  <2>1. MapFits(C!Delete(m, call[c].key))
    BY <1>1 DEF MapFits, C!Delete, C!Restrict
  <2> QED BY <1>1, <1>2, <1>8, <2>1 DEF C!Remove, C!MapWrite, C!Return
<1> QED BY <1>3, <1>4, <1>5, <1>6, <1>7, <1>8

\* Hit returns a message under the key of the request, or none.
LEMMA HitReturnsFits ==
  ASSUME SInv, NEW c \in Client, at[c] \in {"hit", "hitStale"}, MapFits(m'),
         pc' = [pc EXCEPT ![c] = pc'[c]], call' = [call EXCEPT ![c] = call'[c]],
         pc'[c] = "idle",
         NEW msg, msg # NoMsg => Under(msg, CacheKey(req[c])), HitReturns(c, msg)
  PROVE  SInv'
<1>1. Domains /\ Typed(c) /\ Fits(c) /\ req[c] \in Request
  BY DEF SInv, Fits
<1>2. CASE FirstHit(c, msg) /\ msg = NoMsg
  <2>1. /\ at' = [at EXCEPT ![c] = Route(req[c])]
        /\ UNCHANGED <<req, mStale, resp, reply, written>>
    BY <1>2 DEF FirstHit, Goto
  <2>2. /\ Route(req[c]) \in {"local", "fail", "reverse", "hitStale"}
        /\ Route(req[c]) = "reverse" => isReverse(req[c])
    BY DEF Route
  <2>3. at'[c] = Route(req[c])
    BY <1>1, <2>1 DEF Domains
  <2>4. Only(c)
    BY <1>1, <2>1 DEF Only, Domains
  <2>5. Typed(c)' /\ Fits(c)'
    BY <1>1, <2>1, <2>2, <2>3 DEF Typed, Fits
  <2> QED BY <2>4, <2>5, OneHandler
<1>3. CASE FirstHit(c, msg) /\ msg # NoMsg
  <2>1. /\ reply' = [reply EXCEPT ![c] = Fitted(req[c], msg)]
        /\ written' = [written EXCEPT ![c] = written[c] + 1]
        /\ at' = [at EXCEPT ![c] = "idle"] /\ mStale' = [mStale EXCEPT ![c] = NoMsg]
        /\ resp' = [resp EXCEPT ![c] = NoMsg] /\ UNCHANGED req
    BY <1>3 DEF FirstHit, Write, Return, Goto
  <2>2. Under(Fitted(req[c], msg), CacheKey(req[c]))
    BY <1>1, <1>3, FittedFits
  <2>3. /\ reply'[c] = Fitted(req[c], msg) /\ written'[c] = written[c] + 1 /\ at'[c] = "idle"
        /\ mStale'[c] = NoMsg /\ resp'[c] = NoMsg /\ req'[c] = req[c]
    BY <1>1, <2>1 DEF Domains
  <2>4. Only(c)
    BY <1>1, <2>1 DEF Only, Domains
  <2>5. Typed(c)'
    BY <1>1, <2>2, <2>3 DEF Typed, Fits, Under
  <2>6. Fits(c)'
    BY <1>1, <2>2, <2>3 DEF Fits
  <2> QED BY <2>4, <2>5, <2>6, OneHandler
<1>4. CASE SecondHit(c, msg)
  <2>1. /\ mStale' = [mStale EXCEPT ![c] = msg] /\ at' = [at EXCEPT ![c] = "forward"]
        /\ UNCHANGED <<req, resp, reply, written>>
    BY <1>4 DEF SecondHit, Goto
  <2>2. mStale'[c] = msg /\ at'[c] = "forward"
    BY <1>1, <2>1 DEF Domains
  <2>3. Only(c)
    BY <1>1, <2>1 DEF Only, Domains
  <2>4. Typed(c)' /\ Fits(c)'
    BY <1>1, <2>1, <2>2 DEF Typed, Fits, Under
  <2> QED BY <2>3, <2>4, OneHandler
<1> QED BY <1>2, <1>3, <1>4 DEF HitReturns

\* A section of Hit.
LEMMA HitStep == ASSUME SInv, NEW c \in Client, Hit(c) PROVE SInv'
<1>1. Domains /\ Typed(c) /\ Fits(c) /\ at[c] \in {"hit", "hitStale"}
  BY DEF SInv, Hit
<1>2. /\ MapFits(m')
      /\ pc' = [pc EXCEPT ![c] = pc'[c]] /\ call' = [call EXCEPT ![c] = call'[c]]
      /\ pc'[c] \in {"idle", "found", "count", "counted", "drop", "dropServe"}
      /\ pc'[c] # "idle" => "msg" \in DOMAIN call'[c] /\ Under(call'[c].msg, CacheKey(req[c]))
  BY <1>1, HitFits DEF Hit
<1>3. CASE UNCHANGED handler
  <2>1. UNCHANGED <<at, req, mStale, resp, reply, written>>
    BY <1>3 DEF handler
  <2>2. Only(c)
    BY <1>1, <1>2, <2>1 DEF Only, Domains
  <2>3. Typed(c)' /\ Fits(c)'
    BY <1>1, <1>2, <2>1 DEF Typed, Fits
  <2> QED BY <1>2, <2>2, <2>3, OneHandler
<1>4. CASE C!Miss(c, CacheKey(req[c])) /\ HitReturns(c, NoMsg)
  <2>1. pc'[c] = "idle"
    BY <1>4 DEF C!Miss, C!vars
  <2> QED BY <1>1, <1>2, <1>4, <2>1, HitReturnsFits
<1>5. CASE /\ C!TestExpiration(c) \/ C!CountHit(c) \/ C!TestStale(c) \/ C!Remove(c)
           /\ pc'[c] = "idle"
           /\ HitReturns(c, IF C!Serving(c) THEN [call[c].msg EXCEPT !.tc = FALSE] ELSE NoMsg)
  <2> DEFINE msg == IF C!Serving(c) THEN [call[c].msg EXCEPT !.tc = FALSE] ELSE NoMsg
  <2>1. C!Serving(c) => Under(call[c].msg, CacheKey(req[c]))
    BY <1>1 DEF C!Serving, Fits
  <2>2. ASSUME NEW x, Under(x, CacheKey(req[c]))
        PROVE  Under([x EXCEPT !.tc = FALSE], CacheKey(req[c]))
    BY <2>2 DEF Under, Message
  <2>3. msg # NoMsg => Under(msg, CacheKey(req[c]))
    BY <2>1, <2>2
  <2> HIDE DEF msg
  <2>4. HitReturns(c, msg)
    BY <1>5 DEF msg
  <2> QED BY <1>1, <1>2, <1>5, <2>3, <2>4, HitReturnsFits
<1> QED BY <1>3, <1>4, <1>5 DEF Hit

\* A handler writes a message and returns or keeps it; the cache is in order.
LEMMA WriteFits ==
  ASSUME SInv, NEW c \in Client, at[c] \notin {"idle", "hit", "hitStale", "store"},
         MapFits(m'), UNCHANGED <<pc, call, req>>,
         NEW msg, Under(msg, CacheKey(req[c])), Write(c, msg),
         Return(c) \/ (Keep(c, msg) /\ Storable(msg))
  PROVE  SInv'
<1>1. Domains /\ Typed(c) /\ Fits(c)
  BY DEF SInv
<1>2. /\ reply' = [reply EXCEPT ![c] = msg] /\ written' = [written EXCEPT ![c] = written[c] + 1]
      /\ mStale' = [mStale EXCEPT ![c] = NoMsg]
      /\ \/ at' = [at EXCEPT ![c] = "idle"] /\ resp' = [resp EXCEPT ![c] = NoMsg]
         \/ /\ at' = [at EXCEPT ![c] = "store"] /\ resp' = [resp EXCEPT ![c] = msg]
            /\ Storable(msg)
  BY DEF Write, Return, Keep, Goto
<1>3. /\ reply'[c] = msg /\ written'[c] = 1 /\ mStale'[c] = NoMsg
      /\ \/ at'[c] = "idle" /\ resp'[c] = NoMsg
         \/ at'[c] = "store" /\ resp'[c] = msg /\ Storable(msg)
  <2>1. written[c] = 0
    BY <1>1 DEF Fits
  <2> QED BY <1>1, <1>2, <2>1 DEF Domains
<1>4. Only(c)
  BY <1>1, <1>2 DEF Only, Domains
<1>5. req[c] \in Request /\ pc[c] = "idle"
  BY <1>1 DEF Fits, Typed
<1>6. Typed(c)'
  BY <1>1, <1>3 DEF Typed, Under
<1>7. Fits(c)'
  BY <1>1, <1>3, <1>5 DEF Fits
<1> QED BY <1>4, <1>6, <1>7, OneHandler

\* The deferred function, with an answer of the server's own.
LEMMA LocalStep == ASSUME SInv, NEW c \in Client, Local(c) PROVE SInv'
<1> DEFINE msg == Fitted(req[c], NewMsg(req[c], "NOERROR"))
<1>1. MapFits(m) /\ Fits(c) /\ at[c] = "local" /\ req[c] \in Request
  BY DEF SInv, Fits, Local
<1>2. Under(msg, CacheKey(req[c]))
  BY <1>1, NewMsgFits, FittedFits
<1>3. MapFits(m') /\ UNCHANGED <<pc, call>>
  <2>1. CASE UNCHANGED cache
    BY <1>1, <2>1 DEF cache
  <2>2. CASE ~(req[c].tcp /\ Overflow(NewMsg(req[c], "NOERROR"), 2)) /\ Insert(c, msg)
    <3>1. msg.rcode = "NOERROR"
      BY <1>1, <2>2, NewMsgFits, FittedFits
    <3>2. Storable(msg)
      BY <3>1 DEF Storable
    <3> QED BY <1>1, <1>2, <2>2, <3>2, InsertFits
  <2> QED BY <2>1, <2>2 DEF Local
<1>4. Write(c, msg) /\ Return(c) /\ UNCHANGED req
  BY DEF Local
<1> HIDE DEF msg
<1> QED BY <1>1, <1>2, <1>3, <1>4, WriteFits

\* The deferred function, with a server failure.
LEMMA LocalFailureStep == ASSUME SInv, NEW c \in Client, LocalFailure(c) PROVE SInv'
<1>1. MapFits(m) /\ Fits(c) /\ at[c] = "fail" /\ req[c] \in Request
  BY DEF SInv, Fits, LocalFailure
<1>2. Under(NewMsg(req[c], "SERVFAIL"), CacheKey(req[c]))
  BY <1>1, NewMsgFits
<1> QED BY <1>1, <1>2, WriteFits DEF LocalFailure, cache

\* ServeDNSReverse: whatever it writes may be stored.
LEMMA ReverseStep == ASSUME SInv, NEW c \in Client, ServeDNSReverse(c) PROVE SInv'
<1>1. MapFits(m) /\ Fits(c) /\ at[c] = "reverse" /\ req[c] \in Request /\ isReverse(req[c])
  BY DEF SInv, Fits, ServeDNSReverse
<1>2. UNCHANGED <<m, pc, call, req>>
  BY DEF ServeDNSReverse, cache
<1>3. ASSUME NEW msg, Under(msg, CacheKey(req[c])), Write(c, msg), Keep(c, msg)
      PROVE  SInv'
  <2>1. Storable(msg)
    BY <1>1, <1>3, UnderMeans DEF Storable
  <2> QED BY <1>1, <1>2, <1>3, <2>1, WriteFits
<1>4. CASE InHosts(req[c])
  BY <1>1, <1>3, <1>4, NewMsgFits DEF ServeDNSReverse
<1>5. CASE \E f \in Forwarded(c, NoMsg) : Write(c, f.msg) /\ Keep(c, f.msg)
  <2>1. PICK f \in Forwarded(c, NoMsg) : Write(c, f.msg) /\ Keep(c, f.msg)
    BY <1>5
  <2> QED BY <1>1, <1>3, <2>1, ForwardedFits
<1> QED BY <1>4, <1>5 DEF ServeDNSReverse

\* ServeDNSForward: what is stored is new, and positive if it has to be.
LEMMA ForwardStep == ASSUME SInv, NEW c \in Client, Forward(c) PROVE SInv'
<1>1. MapFits(m) /\ Fits(c) /\ at[c] = "forward" /\ req[c] \in Request
  BY DEF SInv, Fits, Forward
<1>2. UNCHANGED <<m, pc, call, req>>
  BY DEF Forward, cache
<1>3. PICK f \in Forwarded(c, mStale[c]) :
        /\ Write(c, f.msg)
        /\ IF ~f.stale /\ storeInCache(f.msg) THEN Keep(c, f.msg) ELSE Return(c)
  BY DEF Forward
<1>4. Under(f.msg, CacheKey(req[c]))
  BY <1>1, ForwardedFits DEF Fits
<1>5. Return(c) \/ (Keep(c, f.msg) /\ Storable(f.msg))
  BY <1>3 DEF storeInCache, Storable
<1> QED BY <1>1, <1>2, <1>3, <1>4, <1>5, WriteFits

\* The message that was kept is stored.
LEMMA StoreStep == ASSUME SInv, NEW c \in Client, Store(c) PROVE SInv'
<1>1. Domains /\ MapFits(m) /\ Typed(c) /\ Fits(c) /\ at[c] = "store" /\ Insert(c, resp[c])
  BY DEF SInv, Store
<1>2. MapFits(m') /\ UNCHANGED <<pc, call>>
  BY <1>1, InsertFits DEF Fits
<1>3. /\ at' = [at EXCEPT ![c] = "idle"] /\ mStale' = [mStale EXCEPT ![c] = NoMsg]
      /\ resp' = [resp EXCEPT ![c] = NoMsg] /\ UNCHANGED <<req, reply, written>>
  BY DEF Store, Return, Goto
<1>4. at'[c] = "idle" /\ mStale'[c] = NoMsg /\ resp'[c] = NoMsg
  BY <1>1, <1>3 DEF Domains
<1>5. Only(c)
  BY <1>1, <1>2, <1>3 DEF Only, Domains
<1>6. Typed(c)' /\ Fits(c)'
  BY <1>1, <1>2, <1>3, <1>4 DEF Typed, Fits
<1> QED BY <1>2, <1>5, <1>6, OneHandler

-----------------------------------------------------------------------------
(* The theorems *)

\* The inductive invariant holds throughout: every message in the cache, in a
\* call of Hit or in a handler belongs to the key that it is held for.
THEOREM ServerInvariant == Spec => []SInv
<1>1. ASSUME Init PROVE SInv
  <2>1. /\ m = [k \in {} |-> {}] /\ pc = [c \in Client |-> "idle"]
        /\ call = [c \in Client |-> NoCall]
    BY <1>1 DEF Init, C!Init
  <2>2. Domains
    BY <1>1, <2>1 DEF Init, Domains
  <2>3. MapFits(m)
    BY <2>1 DEF MapFits
  <2>4. ASSUME NEW c \in Client PROVE Typed(c) /\ Fits(c)
    BY <1>1, <2>1 DEF Init, Typed, Fits
  <2> QED BY <2>2, <2>3, <2>4 DEF SInv
<1>2. ASSUME SInv, [Next]_vars PROVE SInv'
  <2>1. ASSUME NEW c \in Client, ServeDNS(c) PROVE SInv'
    <3>1. CASE ForwardPanics(c)
      BY <1>2, <3>1 DEF ForwardPanics, cache, handler, SInv, Domains, Typed, Fits
    <3>2. CASE \/ Hit(c) \/ Local(c) \/ LocalFailure(c) \/ ServeDNSReverse(c)
               \/ Forward(c) \/ Store(c)
      BY <1>2, <3>2, HitStep, LocalStep, LocalFailureStep, ReverseStep, ForwardStep, StoreStep
    <3> QED BY <2>1, <3>1, <3>2 DEF ServeDNS
  <2>2. ASSUME NEW c \in Client, NEW rq \in Request, Receive(c, rq) PROVE SInv'
    BY <1>2, <2>2, ReceiveStep
  <2>3. CASE Tick \/ UNCHANGED vars
    <3>1. UNCHANGED <<m, pc, call, at, req, mStale, resp, reply, written>>
      BY <2>3 DEF Tick, C!Tick, vars, cache, handler
    <3> QED BY <1>2, <3>1 DEF SInv, Domains, Typed, Fits
  <2> QED BY <1>2, <2>1, <2>2, <2>3 DEF Next
<1> QED BY <1>1, <1>2, PTL DEF Spec

\* server.go:133-309.  The variables of the handlers keep their types, and no
\* handler writes a second message to its client.
THEOREM ServerTypeCorrect == Spec => []TypeOK
<1>1. ASSUME SInv, panicked \in BOOLEAN PROVE TypeOK
  <2>1. \A c \in Client : Typed(c)
    BY <1>1 DEF SInv
  <2>2. ASSUME NEW S, NEW f, f = [c \in Client |-> f[c]], \A c \in Client : f[c] \in S
        PROVE  f \in [Client -> S]
    BY <2>2
  <2>3. Domains
    BY <1>1 DEF SInv
  <2> QED BY <1>1, <2>1, <2>2, <2>3 DEF Typed, Domains, TypeOK
<1>2. Init => panicked \in BOOLEAN
  BY DEF Init
<1>3. panicked \in BOOLEAN /\ [Next]_vars => (panicked \in BOOLEAN)'
  BY DEF Next, ServeDNS, ForwardPanics, vars
<1> QED BY <1>1, <1>2, <1>3, ServerInvariant, PTL DEF Spec

\* cache.go:216-228, hit.go, forwarding.go.  However many handlers run at the
\* same time, a client gets a message for the name, type, transport and DNSSEC
\* bit of its own request.
THEOREM QuestionAnswered == Spec => []AnswersTheQuestion
<1>1. ASSUME SInv PROVE AnswersTheQuestion
  <2>1. \A c \in Client : Fits(c)
    BY <1>1 DEF SInv
  <2> QED BY <2>1, UnderMeans DEF Fits, AnswersTheQuestion
<1> QED BY <1>1, ServerInvariant, PTL

\* server.go:258-305, forwarding.go:308-321.  With --rcache-non-negative the
\* only negative messages in the cache are those of reverse lookups.
THEOREM NegativesAreReverse == Spec => []NegativesOnlyReverse
<1>1. ASSUME SInv PROVE NegativesOnlyReverse
  BY <1>1 DEF SInv, MapFits, Storable, NegativesOnlyReverse
<1> QED BY <1>1, ServerInvariant, PTL

\* server.go:133-309 with cache.go and hit.go.  The handlers use the cache only
\* in the ways that module Cache allows, so what is proved of Cache for any
\* clients holds while they run.
THEOREM CacheUsedAsSpecified == Spec => C!Spec
<1>1. Init => C!Init
  BY DEF Init
<1>2. ASSUME SInv, [Next]_vars PROVE [C!Next]_(C!vars)
  <2>1. UNCHANGED cache => UNCHANGED C!vars
    BY DEF cache, C!vars
  <2>2. ASSUME NEW c \in Client, req[c] \in Request, NEW msg \in Message, Insert(c, msg)
        PROVE  [C!Next]_(C!vars)
    BY <2>1, <2>2 DEF Insert, C!Next, C!ClientStep
  <2>3. ASSUME NEW c \in Client, Hit(c) PROVE C!Next
    <3>1. CacheKey(req[c]) \in {CacheKey(rq) : rq \in Request}
      BY <1>2, <2>3 DEF SInv, Fits, Hit
    <3> QED BY <2>3, <3>1 DEF Hit, C!Next, C!ClientStep
  <2>4. ASSUME NEW c \in Client, Local(c) PROVE [C!Next]_(C!vars)
    <3>1. req[c] \in Request
      BY <1>2, <2>4 DEF SInv, Fits, Local
    <3>2. Fitted(req[c], NewMsg(req[c], "NOERROR")) \in Message
      BY <3>1, NewMsgFits, FittedFits DEF Under
    <3> QED BY <2>1, <2>2, <2>4, <3>1, <3>2 DEF Local
  <2>5. ASSUME NEW c \in Client, Store(c) PROVE [C!Next]_(C!vars)
    <3>1. req[c] \in Request /\ resp[c] \in Message
      BY <1>2, <2>5 DEF SInv, Fits, Store, Under
    <3> QED BY <2>2, <2>5, <3>1 DEF Store
  <2>6. ASSUME NEW c \in Client, \/ LocalFailure(c) \/ ServeDNSReverse(c)
                                    \/ Forward(c) \/ ForwardPanics(c)
        PROVE  UNCHANGED cache
    BY <2>6 DEF LocalFailure, ServeDNSReverse, Forward, ForwardPanics
  <2>7. ASSUME NEW c \in Client, NEW rq \in Request, Receive(c, rq) PROVE UNCHANGED cache
    BY <2>7 DEF Receive
  <2>8. Tick => C!Next
    BY DEF Tick, C!Next
  <2>9. UNCHANGED vars => UNCHANGED cache
    BY DEF vars
  <2> QED BY <1>2, <2>1, <2>3, <2>4, <2>5, <2>6, <2>7, <2>8, <2>9 DEF Next, ServeDNS
<1> QED BY <1>1, <1>2, ServerInvariant, PTL DEF Spec, C!Spec

=============================================================================
