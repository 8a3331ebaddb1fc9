------------------------------- MODULE Server -------------------------------
(***************************************************************************)
(* ServeDNS and ServeDNSReverse (src/server/server.go, forwarding.go): the *)
(* handler that runs in a goroutine of its own for every DNS request, with *)
(* the response cache (module Cache) that all of them share.  What         *)
(* ServeDNSForward does in between is one step here, with the outcomes     *)
(* that module Resolve allows and module Forward is shown to produce; the  *)
(* upstreams answer the question that they were asked.                     *)
(*                                                                         *)
(* A client of the cache is a handler.  The handler's own control point is *)
(* at[c]; while it is inside Hit, Cache's pc[c] says where.  The cache     *)
(* dump of the control server is left to the module Cache.                 *)
(***************************************************************************)
EXTENDS Integers, FiniteSets

CONSTANTS
  Client,             \* the handlers that may run at the same time
  Request,            \* the requests: [name, type, class, dnssec, tcp, bufsize]
  Hosts,              \* the <<name, type>> with records in the hosts file
  Reverse4, Reverse6, \* the names in in-addr.arpa. and in ip6.arpa.
  ChaosNames,         \* version.bind. and the like
  Size,               \* Size[name]: the size of the whole answer, 1..3
  Capacity, Ttl, StaleTtl, \* --rcache, --rcache-ttl, --rstale-ttl
  RCacheNonNegative,  \* --rcache-non-negative
  MaxNow,             \* bound: the last second of the clock
  NoCall,             \* Cache: no call of Hit in progress
  NoMsg               \* a nil message; also: no request, no reply yet

ASSUME RequestAssumption ==
  \A rq \in Request :
    /\ rq.type \in {"A", "PTR", "TXT"} /\ rq.class \in {"IN", "CH"}
    /\ rq.dnssec \in BOOLEAN /\ rq.tcp \in BOOLEAN
    /\ rq.bufsize \in 1..2 /\ (rq.tcp => rq.bufsize = 2)
    /\ Size[rq.name] \in 1..3

VARIABLES
  m, now, pc, call, dumping, status,  \* the cache, as in Cache
  at,       \* at[c]: the control point of handler c
  req,      \* req[c]: its request
  mStale,   \* mStale[c]: the stale message that it found
  resp,     \* resp[c]: the message that it is about to store
  reply,    \* reply[c]: the last message written to its client
  written,  \* written[c]: how many were written
  panicked  \* forwarding has panicked, which ends the process

cache == <<m, now, pc, call, dumping, status>>
handler == <<at, req, mStale, resp, reply, written>>
vars == <<cache, handler, panicked>>

-----------------------------------------------------------------------------
(* Questions and messages *)

\* Mutant: requests with and without DNSSEC share a key.
CacheKey_noDnssec(rq) == [name |-> rq.name, type |-> rq.type, dnssec |-> FALSE, tcp |-> rq.tcp]

\* cache.Key: the class of the question is not part of it.
CacheKey(rq) == [name |-> rq.name, type |-> rq.type, dnssec |-> rq.dnssec, tcp |-> rq.tcp]

\* What matters of a message: the question that it answers, its response code,
\* its size, whether records are missing from it, and the TC bit.  The sizes:
\* 1 fits 512 octets, 2 fits the larger buffers, 3 fits none of them.
Message == [question : [name : {rq.name : rq \in Request}, type : {"A", "PTR", "TXT"},
                        dnssec : BOOLEAN, tcp : BOOLEAN, class : {"IN", "CH"}],
            rcode : {"NOERROR", "NXDOMAIN", "SERVFAIL", "REFUSED"},
            size : 1..3, complete : BOOLEAN, tc : BOOLEAN]

Question(rq) == [name |-> rq.name, type |-> rq.type, dnssec |-> rq.dnssec,
                 tcp |-> rq.tcp, class |-> rq.class]

NewMsg(rq, rcode) ==
  [question |-> Question(rq), rcode |-> rcode, complete |-> TRUE, tc |-> FALSE,
   size |-> IF rcode = "NOERROR" THEN Size[rq.name] ELSE 1]

\* Fit: false in the second place means overflow.  With UDP the message is cut
\* to the buffer and marked.
Overflow(msg, bufsize) == msg.size > bufsize
Fit(msg, bufsize) ==
  IF Overflow(msg, bufsize)
  THEN [msg EXCEPT !.complete = FALSE, !.tc = TRUE, !.size = bufsize]
  ELSE msg

\* What an upstream answers to a forwarded request: it honours the buffer size
\* of the client, which is passed on.
Upstream(rq, rcode) ==
  IF rq.tcp THEN NewMsg(rq, rcode) ELSE Fit(NewMsg(rq, rcode), rq.bufsize)

\* With TCP an overflow is answered with a server failure.
Fitted(rq, msg) ==
  IF rq.tcp /\ Overflow(msg, 2) THEN NewMsg(rq, "SERVFAIL") ELSE Fit(msg, rq.bufsize)

\* s.AddressRecords and s.PTRRecords: the hosts file has records.
InHosts(rq) == <<rq.name, rq.type>> \in Hosts
isReverse(rq) == (rq.type = "PTR" /\ rq.name \in Reverse4) \/ rq.name \in Reverse6
isChaosAnswer(rq) == rq.type = "TXT" /\ rq.name \in ChaosNames

-----------------------------------------------------------------------------
C == INSTANCE Cache WITH
  Key <- {CacheKey(rq) : rq \in Request}, Msg <- Message,
  AnswerTtls <- [msg \in Message |-> {}], TtlFromResp <- FALSE, TtlMax <- 0,
  UintMod <- 1

R == INSTANCE Resolve WITH NoReply <- NoMsg, Panicked <- NoCall,
       staleRes <- FALSE, positive <- FALSE, answer <- NoMsg

Init ==
  /\ C!Init
  /\ at = [c \in Client |-> "idle"]
  /\ req = [c \in Client |-> NoMsg]
  /\ mStale = [c \in Client |-> NoMsg]
  /\ resp = [c \in Client |-> NoMsg]
  /\ reply = [c \in Client |-> NoMsg]
  /\ written = [c \in Client |-> 0]
  /\ panicked = FALSE

Goto(c, label) == at' = [at EXCEPT ![c] = label]

\* ServeDNS returns; its local variables are gone.
Return(c) ==
  /\ Goto(c, "idle")
  /\ mStale' = [mStale EXCEPT ![c] = NoMsg]
  /\ resp' = [resp EXCEPT ![c] = NoMsg]

\* w.WriteMsg(msg)
Write(c, msg) ==
  /\ reply' = [reply EXCEPT ![c] = msg]
  /\ written' = [written EXCEPT ![c] = @ + 1]

\* s.rcache.InsertMessage, which does nothing without a cache.
Insert(c, msg) ==
  IF Capacity > 0 THEN C!InsertMessage(c, CacheKey(req[c]), msg) ELSE UNCHANGED cache

\* A request arrives, and its handler starts.
Receive(c, rq) ==
  /\ status = "up"
  /\ at[c] = "idle"
  /\ Goto(c, "hit")
  /\ req' = [req EXCEPT ![c] = rq]
  /\ reply' = [reply EXCEPT ![c] = NoMsg]
  /\ written' = [written EXCEPT ![c] = 0]
  /\ UNCHANGED <<cache, mStale, resp>>

\* Where ServeDNS goes on after a cache miss.
Route(rq) ==
  IF rq.type = "A" /\ InHosts(rq) THEN "local"
  ELSE IF isReverse(rq) THEN "reverse"
  ELSE IF rq.class = "CH" THEN IF isChaosAnswer(rq) THEN "local" ELSE "fail"
  ELSE "hitStale"

\* Mutant: no return after the cached message has been written.
FirstHit_goesOn(c, msg) ==
  /\ IF msg = NoMsg THEN UNCHANGED <<reply, written>> ELSE Write(c, Fitted(req[c], msg))
  /\ Goto(c, Route(req[c]))
  /\ UNCHANGED <<req, mStale, resp>>

\* What ServeDNS does with the result of the first call of Hit.
FirstHit(c, msg) ==
  /\ \/ /\ msg = NoMsg
        /\ Goto(c, Route(req[c]))
        /\ UNCHANGED <<mStale, resp, reply, written>>
     \/ /\ msg # NoMsg
        /\ Write(c, Fitted(req[c], msg))
        /\ Return(c)
  /\ UNCHANGED req

\* The second call of Hit, before forwarding, may return a stale message.
SecondHit(c, msg) ==
  /\ mStale' = [mStale EXCEPT ![c] = msg]
  /\ Goto(c, "forward")
  /\ UNCHANGED <<req, resp, reply, written>>

HitReturns(c, msg) ==
  \/ at[c] = "hit" /\ FirstHit(c, msg)
  \/ at[c] = "hitStale" /\ SecondHit(c, msg)

\* Hit, section by section.  What it returns has the TC bit cleared.
Hit(c) ==
  /\ at[c] \in {"hit", "hitStale"}
  /\ \/ C!Search(c, CacheKey(req[c]), at[c] = "hitStale") /\ UNCHANGED handler
     \/ C!Miss(c, CacheKey(req[c])) /\ HitReturns(c, NoMsg)
     \/ /\ C!TestExpiration(c) \/ C!CountHit(c) \/ C!TestStale(c) \/ C!Remove(c)
        /\ \/ pc'[c] # "idle" /\ UNCHANGED handler
           \/ /\ pc'[c] = "idle"
              /\ HitReturns(c, IF C!Serving(c) THEN [call[c].msg EXCEPT !.tc = FALSE]
                               ELSE NoMsg)

\* The deferred function, for an answer from the hosts file or about the
\* server itself: fit, store and write it.
Local(c) ==
  /\ status = "up"
  /\ at[c] = "local"
  /\ LET rq == req[c]
         msg == NewMsg(rq, "NOERROR")
     IN  /\ IF rq.tcp /\ Overflow(msg, 2) THEN UNCHANGED cache
            ELSE Insert(c, Fitted(rq, msg))
         /\ Write(c, Fitted(rq, msg))
  /\ Return(c)
  /\ UNCHANGED req

\* Mutant: the deferred function returns without writing the failure.
LocalFailure_silent(c) ==
  /\ status = "up"
  /\ at[c] = "fail"
  /\ Return(c)
  /\ UNCHANGED <<cache, req, reply, written>>

\* The deferred function, for a server failure: it is not stored.
LocalFailure(c) ==
  /\ status = "up"
  /\ at[c] = "fail"
  /\ Write(c, NewMsg(req[c], "SERVFAIL"))
  /\ Return(c)
  /\ UNCHANGED <<cache, req>>

\* What ServeDNSForward(w, req, stale) may write and return: a message, and
\* whether it is the stale one.
Forwarded(c, stale) ==
  {[msg |-> IF o.stale THEN stale ELSE Upstream(req[c], o.rcode), stale |-> o.stale] :
     o \in {o \in R!Outcomes(stale # NoMsg, TRUE) \cup R!Outcomes(stale # NoMsg, FALSE) :
              o.stale => o.rcode = stale.rcode}}

\* A message has been written and is kept to be stored.
Keep(c, msg) ==
  /\ Goto(c, "store")
  /\ resp' = [resp EXCEPT ![c] = msg]
  /\ mStale' = [mStale EXCEPT ![c] = NoMsg]

\* ServeDNSReverse: the hosts file, else the upstreams.  No stale message is
\* looked for, and what was written is stored whatever its response code.
ServeDNSReverse(c) ==
  /\ status = "up"
  /\ at[c] = "reverse"
  /\ \/ /\ InHosts(req[c])
        /\ Write(c, NewMsg(req[c], "NOERROR"))
        /\ Keep(c, NewMsg(req[c], "NOERROR"))
     \/ /\ ~InHosts(req[c])
        /\ \E f \in Forwarded(c, NoMsg) : Write(c, f.msg) /\ Keep(c, f.msg)
  /\ UNCHANGED <<cache, req>>

\* Mutant: the flag is not looked at.
storeInCache_always(msg) == TRUE

\* With --rcache-non-negative only NOERROR messages are stored.
storeInCache(msg) == RCacheNonNegative => msg.rcode = "NOERROR"

\* All other requests are forwarded; a stale message is not stored again.
Forward(c) ==
  /\ status = "up"
  /\ at[c] = "forward"
  /\ \E f \in Forwarded(c, mStale[c]) :
       /\ Write(c, f.msg)
       /\ IF ~f.stale /\ storeInCache(f.msg) THEN Keep(c, f.msg) ELSE Return(c)
  /\ UNCHANGED <<cache, req>>

\* Instead of an answer: ServeDNSForward panics (SearchPanics of Forward).
ForwardPanics(c) ==
  /\ status = "up"
  /\ at[c] = "forward" \/ (at[c] = "reverse" /\ ~InHosts(req[c]))
  /\ panicked' = TRUE
  /\ UNCHANGED <<cache, handler>>

\* The InsertMessage at the end of the handler, after the reply is written.
Store(c) ==
  /\ status = "up"
  /\ at[c] = "store"
  /\ Insert(c, resp[c])
  /\ Return(c)
  /\ UNCHANGED <<req, reply, written>>

ServeDNS(c) ==
  /\ ~panicked
  /\ \/ /\ \/ Hit(c) \/ Local(c) \/ LocalFailure(c) \/ ServeDNSReverse(c)
           \/ Forward(c) \/ Store(c)
        /\ UNCHANGED panicked
     \/ ForwardPanics(c)

Tick == C!Tick /\ UNCHANGED handler

Next ==
  \/ \E c \in Client : ServeDNS(c)
  \/ /\ ~panicked
     /\ (\E c \in Client, rq \in Request : Receive(c, rq)) \/ Tick
     /\ UNCHANGED panicked

\* The scheduler runs every handler, and exchanges with upstreams time out.
Spec == Init /\ [][Next]_vars /\ \A c \in Client : WF_vars(ServeDNS(c))

-----------------------------------------------------------------------------
(* Properties *)

\* The types of the handlers' variables; no handler writes twice.
TypeOK ==
  /\ at \in [Client -> {"idle", "hit", "hitStale", "local", "fail", "reverse",
                        "forward", "store"}]
  /\ req \in [Client -> Request \cup {NoMsg}]
  /\ \A f \in {mStale, resp, reply} : f \in [Client -> Message \cup {NoMsg}]
  /\ written \in [Client -> 0..1]
  /\ panicked \in BOOLEAN

\* cache.go:216-228.  Whatever other handlers store meanwhile, a request is
\* answered with a message for its own name, type, transport and DNSSEC bit.
AnswersTheQuestion ==
  \A c \in Client : reply[c] # NoMsg =>
    [reply[c].question EXCEPT !.class = req[c].class] = Question(req[c])

\* server.go:258-305.  With --rcache-non-negative the negative messages in the
\* cache are those of reverse lookups, whichever handlers store them and when.
NegativesOnlyReverse ==
  RCacheNonNegative =>
    \A k \in DOMAIN m : m[k].msg.rcode # "NOERROR" => isReverse(m[k].msg.question)

\* README.md:29 "Allows only positive records to be stored in cache."
OnlyPositiveCached ==
  RCacheNonNegative => \A k \in DOMAIN m : m[k].msg.rcode = "NOERROR"

\* server.go:133-309.  Every request is answered unless the process dies.
EveryRequestAnswered ==
  \A c \in Client :
    at[c] # "idle" ~> (at[c] = "idle" /\ written[c] = 1) \/ status # "up" \/ panicked

\* server.go:199 "Overflow with udp always results in TC."
IncompleteIsMarked ==
  \A c \in Client : reply[c] # NoMsg /\ ~reply[c].complete => reply[c].tc

\* README.md:28 "If TTL expires and all upstream servers are not available,
\* then the state record will be served": a failure never takes the place of a
\* positive message in the cache.
PositiveSurvives ==
  [][\A k \in DOMAIN m \cap DOMAIN m' :
       m[k].msg.rcode = "NOERROR" => m'[k].msg.rcode # "SERVFAIL"]_vars
=============================================================================
