------------------------------ MODULE Forward ------------------------------
(***************************************************************************)
(* ServeDNSForward, forwardSearch and forwardQuery of                      *)
(* src/server/forwarding.go: how one query is resolved with the upstream   *)
(* nameservers.  The three functions run in the goroutine of the request   *)
(* and share nothing that they write with other requests but the metrics,  *)
(* so one request is modelled, without them.  What every upstream answers, *)
(* or whether it answers at all, is chosen anew at each exchange.          *)
(*                                                                         *)
(* Names are numbers: 0 is the name in the client's question, i is that    *)
(* name qualified with the i-th search domain.                             *)
(***************************************************************************)
EXTENDS Integers, FiniteSets

CONSTANTS
  MaxNameservers,   \* bound: nameservers configured
  MaxStubServers,   \* bound: servers of a stub zone
  MaxDomains,       \* bound: search domains configured
  MaxNdots,         \* bound: the flags --ndots and --fwd-ndots
  MaxDots,          \* bound: dots in the name of the question
  MaxOdd,           \* bound: odd replies to one query, see OddReplies
  Zone,             \* the stub zones
  Default,          \* stands for "no stub zone": the configured nameservers
  None,             \* a nil message
  Failed,           \* the error of an exchange: timeout, refused connection...
  NoQuestion        \* an empty question section

ASSUME BoundsAssumption ==
  /\ MaxNameservers \in Nat /\ MaxStubServers \in Nat /\ MaxDomains \in Nat
  /\ MaxNdots \in Nat /\ MaxDots \in Nat /\ MaxOdd \in Nat
  /\ Default \notin Zone

VARIABLES
  config,    \* s.config
  q,         \* what forwarding looks at in the question
  staleRes,  \* the parameter staleRes: None or a message
  pc,        \* the control point
  absolute,  \* absoluteRes, absoluteErr; None while ~didAbsolute
  search,    \* searchRes, searchErr; None while ~didSearch
  name,      \* the name that is being asked for
  ret,       \* where forwardQuery returns to
  zone,      \* the zone whose servers forwardQuery uses
  nsIdx,     \* its loop counter
  r,         \* the last result of forwardQuery
  nodata,    \* forwardSearch's nodata
  reply,     \* the message written to the client, None before
  asked      \* history: the exchanges made

input == <<config, q, staleRes>>
lookup == <<absolute, search>>
query == <<name, ret, zone, nsIdx>>
vars == <<input, pc, lookup, query, r, nodata, reply, asked>>

-----------------------------------------------------------------------------
(* Configuration, questions and messages *)

\* What CheckConfig lets through, with the settings that it corrects.
Config ==
  {c \in [NoRec : BOOLEAN, Nameservers : 0..MaxNameservers,
          SearchDomains : 0..MaxDomains, EnableSearch : BOOLEAN,
          Ndots : 1..MaxNdots, FwdNdots : 0..MaxNdots,
          RCacheNonNegative : BOOLEAN, Stub : [Zone -> 1..MaxStubServers]] :
     /\ ~c.NoRec => c.Nameservers > 0
     /\ c.EnableSearch => c.SearchDomains > 0}

\* nameDots is -1 for the root name, which has no labels.  hasSuffix holds the
\* search domains that the name ends in, zones the stub zones that each of the
\* names matches.
Question(c) ==
  {x \in [nameDots : -1..MaxDots, hasSuffix : SUBSET (1..c.SearchDomains),
          zones : [0..c.SearchDomains -> SUBSET Zone]] :
     x.nameDots = -1 => x.hasSuffix = {}}

Rcode == {"NOERROR", "NXDOMAIN", "SERVFAIL", "REFUSED"}

\* The part of a message that matters: its response code, whether it has
\* answers and the TC bit, the name in its question, the name its answers
\* belong to, and whether forwardSearch put a CNAME in front of them.
Message == [rcode : Rcode, answers : BOOLEAN, tc : BOOLEAN,
            question : 0..MaxDomains \cup {NoQuestion}, owner : 0..MaxDomains,
            cname : BOOLEAN]

ASSUME ResultAssumption == None # Failed /\ None \notin Message /\ Failed \notin Message
ASSUME QuestionAssumption == NoQuestion \notin 0..MaxDomains

Msg(rcode, answers, tc, n) ==
  [rcode |-> rcode, answers |-> answers, tc |-> tc, question |-> n,
   owner |-> n, cname |-> FALSE]

\* new(dns.Msg).SetRcode(req, rcode)
SetRcode(rcode) == Msg(rcode, FALSE, FALSE, 0)

\* The usual replies about name n: NOERROR with and without answers, cut or
\* not, and negative ones.
UsualReplies(n) ==
  {Msg("NOERROR", answers, FALSE, n) : answers \in BOOLEAN} \cup
  {Msg("NOERROR", answers, TRUE, n) : answers \in BOOLEAN} \cup
  {Msg(rc, FALSE, FALSE, n) : rc \in Rcode \ {"NOERROR"}}

\* Replies that an upstream may give as well: a negative one with records (a
\* CNAME to a name that does not exist), and any one without a question.  The
\* client library compares nothing but the ids.  The TC bit of a negative reply
\* is never looked at.
OddReplies(n) ==
  {Msg(rc, TRUE, FALSE, n) : rc \in Rcode \ {"NOERROR"}} \cup
  {[msg EXCEPT !.question = NoQuestion] : msg \in UsualReplies(n)}

Success(res) == res \notin {Failed, None} /\ res.rcode = "NOERROR"
Negative(res) == res \notin {Failed, None} /\ res.rcode # "NOERROR"
NoData(res) == Success(res) /\ ~res.answers /\ ~res.tc

Odd(res) == (Negative(res) /\ res.answers) \/ (res # Failed /\ res.question = NoQuestion)

\* The results of one exchange about name n.  The name that results from
\* qualifying the root name begins with a dot and cannot be packed.
Exchanged(n) ==
  IF q.nameDots = -1 /\ n > 0 THEN {Failed}
  ELSE {Failed} \cup UsualReplies(n) \cup
       IF Cardinality({e \in asked : Odd(e.result)}) < MaxOdd THEN OddReplies(n) ELSE {}

searchEnabled == config.EnableSearch /\ config.SearchDomains > 0
LongEnough == q.nameDots >= config.FwdNdots

-----------------------------------------------------------------------------
Init ==
  /\ config \in Config
  /\ q \in Question(config)
  /\ staleRes \in {None, SetRcode("NOERROR")}
  /\ pc = "start"
  /\ absolute = None /\ search = None
  /\ name = 0 /\ ret = "start" /\ zone = Default /\ nsIdx = 0
  /\ r = None /\ nodata = None
  /\ reply = None
  /\ asked = {}

\* writeMsg and return.
Write(msg, isStale) ==
  /\ reply' = [msg |-> msg, stale |-> isStale]
  /\ pc' = "done"

Goto(label) == pc' = label /\ UNCHANGED reply

\* A call of forwardQuery for name n that returns to label.
forwardQuery(n, label) ==
  /\ name' = n
  /\ ret' = label
  /\ pc' = "query"
  /\ UNCHANGED <<reply, zone, nsIdx>>

-----------------------------------------------------------------------------
(* forwardQuery *)

\* The servers of a matching stub zone (any one: Go visits the map of zones in
\* random order), or the configured nameservers.
ChooseServers ==
  /\ pc = "query"
  /\ \/ /\ q.zones[name] = {}
        /\ zone' = Default
     \/ zone' \in q.zones[name]
  /\ nsIdx' = 1
  /\ r' = None
  /\ Goto("exchange")
  /\ UNCHANGED <<input, lookup, name, ret, nodata, asked>>

nservers == IF zone = Default THEN config.Nameservers ELSE config.Stub[zone]

\* Mutant: every answer of a server is taken, a negative one too.
TryAnother_never(res) == res = Failed

\* The loop goes on to the next server.
TryAnother(res) ==
  res = Failed \/ (config.RCacheNonNegative /\ Negative(res))

\* Mutant: after the last server the first one is asked again.
Exchange_wraps ==
  /\ pc = "exchange"
  /\ nsIdx <= nservers
  /\ \E res \in Exchanged(name) :
       /\ r' = res
       /\ asked' = asked \cup {[name |-> name, zone |-> zone,
                                server |-> nsIdx, result |-> res]}
       /\ \/ /\ TryAnother(res)
             /\ nsIdx' = (nsIdx % nservers) + 1
             /\ Goto("exchange")
          \/ /\ ~TryAnother(res)
             /\ UNCHANGED nsIdx
             /\ Goto(ret)
  /\ UNCHANGED <<input, lookup, name, ret, zone, nodata>>

\* One exchange with the server at nsIdx.
Exchange ==
  /\ pc = "exchange"
  /\ nsIdx <= nservers
  /\ \E res \in Exchanged(name) :
       /\ r' = res
       /\ asked' = asked \cup {[name |-> name, zone |-> zone,
                                server |-> nsIdx, result |-> res]}
       /\ \/ /\ TryAnother(res) /\ nsIdx < nservers
             /\ nsIdx' = nsIdx + 1
             /\ Goto("exchange")
          \/ /\ ~(TryAnother(res) /\ nsIdx < nservers)
             /\ UNCHANGED nsIdx
             /\ Goto(ret)
  /\ UNCHANGED <<input, lookup, name, ret, zone, nodata>>

-----------------------------------------------------------------------------
(* ServeDNSForward up to the search *)

\* Mutant: names that are too short are not refused.
Refuses_noShort == config.NoRec \/ config.Nameservers = 0

Refuses ==
  \/ config.NoRec
  \/ config.Nameservers = 0
  \/ ~LongEnough /\ ~config.EnableSearch

Refuse ==
  /\ pc = "start"
  /\ Refuses
  /\ Write(SetRcode("REFUSED"), FALSE)
  /\ UNCHANGED <<input, lookup, query, r, nodata, asked>>

Start ==
  /\ pc = "start"
  /\ ~Refuses
  /\ Goto("first")
  /\ UNCHANGED <<input, lookup, query, r, nodata, asked>>

\* Mutant: the name needs one dot more than --ndots says.
First_offByOne ==
  /\ pc = "first"
  /\ \/ /\ q.nameDots > config.Ndots /\ LongEnough
        /\ forwardQuery(0, "firstReturn")
     \/ /\ ~(q.nameDots > config.Ndots /\ LongEnough)
        /\ Goto("search")
        /\ UNCHANGED query
  /\ UNCHANGED <<input, lookup, r, nodata, asked>>

\* The initial absolute lookup, if the name has enough dots for one.
First ==
  /\ pc = "first"
  /\ \/ /\ q.nameDots >= config.Ndots /\ LongEnough
        /\ forwardQuery(0, "firstReturn")
     \/ /\ ~(q.nameDots >= config.Ndots /\ LongEnough)
        /\ Goto("search")
        /\ UNCHANGED query
  /\ UNCHANGED <<input, lookup, r, nodata, asked>>

\* Mutant: didAbsolute is not set.
AbsoluteReturn_forgets(label, next) ==
  /\ pc = label
  /\ \/ Success(r) /\ Write(r, FALSE)
     \/ ~Success(r) /\ Goto(next)
  /\ UNCHANGED <<input, absolute, search, query, r, nodata, asked>>

\* Mutant: no return after the positive answer has been written.
AbsoluteReturn_goesOn(label, next) ==
  /\ pc = label
  /\ absolute' = r
  /\ \/ Success(r) /\ reply' = [msg |-> r, stale |-> FALSE] /\ pc' = next
     \/ ~Success(r) /\ Goto(next)
  /\ UNCHANGED <<input, search, query, r, nodata, asked>>

\* What follows an absolute lookup: a positive result ends the request.
AbsoluteReturn(label, next) ==
  /\ pc = label
  /\ absolute' = r
  /\ \/ Success(r) /\ Write(r, FALSE)
     \/ ~Success(r) /\ Goto(next)
  /\ UNCHANGED <<input, search, query, r, nodata, asked>>

FirstReturn == AbsoluteReturn("firstReturn", "search")

-----------------------------------------------------------------------------
(* forwardSearch *)

StartSearch ==
  /\ pc = "search"
  /\ \/ absolute # Failed /\ searchEnabled /\ Goto("domain")
     \/ ~(absolute # Failed /\ searchEnabled) /\ Goto("last")
  /\ name' = 0
  /\ r' = None
  /\ UNCHANGED <<input, lookup, ret, zone, nsIdx, nodata, asked>>

\* Mutant: the loop runs past the last search domain.
DomainsLeft_past == {i \in 1..(config.SearchDomains + 1) : i > name /\ i \notin q.hasSuffix}

\* The domains that are left after the one in name, without the skipped ones.
DomainsLeft == {i \in 1..config.SearchDomains : i > name /\ i \notin q.hasSuffix}

\* The head of the loop over the search domains.
NextDomain ==
  /\ pc = "domain"
  /\ \/ \E i \in DomainsLeft :
          (\A j \in DomainsLeft : i <= j) /\ forwardQuery(i, "domainReturn")
     \/ DomainsLeft = {} /\ Goto("searchReturn") /\ UNCHANGED query
  /\ UNCHANGED <<input, lookup, r, nodata, asked>>

\* Mutant: a NOERROR reply without answers counts as NODATA although it was cut.
DomainReturn_cutIsNoData ==
  /\ pc = "domainReturn"
  /\ nodata' = IF Success(r) /\ ~r.answers THEN r ELSE nodata
  /\ LET continue == r # Failed /\ ((Success(r) /\ ~r.answers) \/ r.rcode \in {"NXDOMAIN", "SERVFAIL"})
     IN  Goto(IF continue THEN "domain" ELSE "searchReturn")
  /\ UNCHANGED <<input, lookup, query, r, asked>>

\* The body of the loop after forwardQuery: which results end the search.
DomainReturn ==
  /\ pc = "domainReturn"
  /\ nodata' = IF NoData(r) THEN r ELSE nodata
  /\ LET continue == r # Failed /\ (NoData(r) \/ r.rcode \in {"NXDOMAIN", "SERVFAIL"})
     IN  Goto(IF continue THEN "domain" ELSE "searchReturn")
  /\ UNCHANGED <<input, lookup, query, r, asked>>

\* Mutant: a NODATA answer is kept only if no exchange failed.
Found_failFirst ==
  IF r = Failed THEN None
  ELSE IF r # None /\ ~Success(r) /\ nodata # None THEN nodata
  ELSE r

\* The message that forwardSearch returns if it asked anybody: a NODATA answer
\* rather than a negative one or none at all, None if the last exchange failed.
Found ==
  IF r # None /\ ~Success(r) /\ nodata # None THEN nodata
  ELSE IF r = Failed THEN None
  ELSE r

\* Mutant: the question of a NODATA answer is not restored after a failure.
SearchResult_keepsQuestion ==
  IF r = None THEN SetRcode("NXDOMAIN")
  ELSE IF Found = None THEN Failed
  ELSE IF r = Failed THEN Found
  ELSE [Found EXCEPT !.question = 0, !.cname = Success(r) /\ r.answers]

\* What forwardSearch returns: NXDOMAIN if there was nothing to search, else
\* Found with the client's question in place of the qualified one.
SearchResult ==
  IF r = None THEN SetRcode("NXDOMAIN")
  ELSE IF Found = None THEN Failed
  ELSE [Found EXCEPT !.question = 0, !.cname = Success(r) /\ r.answers]

\* There is no question to restore: r.Question[0] is out of range.
NothingToRestore == Found # None /\ Found.question = NoQuestion

SearchReturn ==
  /\ pc = "searchReturn"
  /\ ~NothingToRestore
  /\ search' = SearchResult
  /\ \/ Success(SearchResult) /\ Write(SearchResult, FALSE)
     \/ ~Success(SearchResult) /\ Goto("last")
  /\ UNCHANGED <<input, absolute, query, r, nodata, asked>>

\* The index panics.  Nobody recovers from it, the process ends.
SearchPanics ==
  /\ pc = "searchReturn"
  /\ NothingToRestore
  /\ Goto("panic")
  /\ UNCHANGED <<input, lookup, query, r, nodata, asked>>

-----------------------------------------------------------------------------
(* ServeDNSForward after the search *)

\* The absolute lookup, unless it was made before or the search failed.
Last ==
  /\ pc = "last"
  /\ \/ /\ search # Failed /\ absolute = None /\ LongEnough
        /\ forwardQuery(0, "lastReturn")
     \/ /\ ~(search # Failed /\ absolute = None /\ LongEnough)
        /\ Goto("finish")
        /\ UNCHANGED query
  /\ UNCHANGED <<input, lookup, r, nodata, asked>>

LastReturn == AbsoluteReturn("lastReturn", "finish")

\* Mutant: the result of the search goes before that of the absolute lookup.
NegativeResult_searchFirst ==
  IF search \notin {None, Failed} THEN SetRcode(search.rcode)
  ELSE IF absolute \notin {None, Failed} THEN absolute
  ELSE SetRcode("SERVFAIL")

\* The result without a positive answer: that of the absolute lookup, else the
\* response code of the search, else SERVFAIL.
NegativeResult ==
  IF absolute \notin {None, Failed} THEN absolute
  ELSE IF search \notin {None, Failed} THEN SetRcode(search.rcode)
  ELSE SetRcode("SERVFAIL")

Finish ==
  /\ pc = "finish"
  /\ Write(IF staleRes # None THEN staleRes ELSE NegativeResult, staleRes # None)
  /\ UNCHANGED <<input, lookup, query, r, nodata, asked>>

-----------------------------------------------------------------------------
Next ==
  \/ Refuse \/ Start \/ First \/ FirstReturn
  \/ StartSearch \/ NextDomain \/ DomainReturn \/ SearchReturn \/ SearchPanics
  \/ Last \/ LastReturn \/ Finish
  \/ ChooseServers \/ Exchange

\* The goroutine runs on, and every exchange ends: the upstream clients are
\* made with read and write timeouts (server.go:48-49).
Spec == Init /\ [][Next]_vars /\ WF_vars(Next)

-----------------------------------------------------------------------------
(* Properties *)

Result == Message \cup {Failed, None}
Label == {"start", "first", "firstReturn", "search", "domain", "domainReturn",
          "searchReturn", "last", "lastReturn", "finish", "query", "exchange",
          "done", "panic"}

\* The types of the variables.
TypeOK ==
  /\ config \in Config /\ q \in Question(config)
  /\ staleRes \in Message \cup {None}
  /\ pc \in Label /\ ret \in Label
  /\ absolute \in Result /\ search \in Result /\ r \in Result
  /\ nodata \in Message \cup {None}
  /\ name \in 0..config.SearchDomains
  /\ zone \in Zone \cup {Default} /\ nsIdx \in Nat
  /\ reply \in [msg : Message, stale : BOOLEAN] \cup {None}
  /\ asked \subseteq [name : 0..config.SearchDomains, zone : Zone \cup {Default},
                      server : Nat \ {0}, result : Message \cup {Failed}]

\* forwarding.go:205-209, 240-252.  No NOERROR answer of an upstream is lost,
\* whatever the later search domains and servers come up with: the client gets
\* NOERROR, not a stale message, and answers if some upstream had any.
PositiveWins ==
  reply # None =>
    \A e \in asked : Success(e.result) =>
      /\ reply.msg.rcode = "NOERROR" /\ ~reply.stale
      /\ e.result.answers => reply.msg.answers

\* forwarding.go:124-126.  A negative reply repeats what the last server asked
\* about the literal name answered, if it did answer.
LiteralDecides ==
  reply # None /\ ~reply.stale /\ reply.msg.rcode # "NOERROR" =>
    \A e \in asked :
      /\ e.name = 0 /\ e.result # Failed
      /\ \A d \in asked : d.name = 0 => d.server <= e.server
      => reply.msg = e.result

\* forwarding.go:143-164.  A response code is made up in one case only: it is
\* what some upstream answered, or SERVFAIL when some exchange failed; but when
\* the name ends in all the search domains and the absolute lookup was not made
\* or failed, it is the NXDOMAIN of a search that asked nobody.
RcodeEvidenced ==
  reply # None /\ ~reply.stale /\ ~Refuses =>
    \/ \E e \in asked : e.result # Failed /\ e.result.rcode = reply.msg.rcode
    \/ reply.msg.rcode = "SERVFAIL" /\ \E e \in asked : e.result = Failed
    \/ /\ reply.msg.rcode = "NXDOMAIN"
       /\ searchEnabled /\ q.hasSuffix = 1..config.SearchDomains
       /\ absolute \in {None, Failed}

\* forwarding.go:229-251.  A reply that is not stale has the client's question,
\* or it is what an upstream answered about the literal name without repeating
\* the question; answers found for a qualified name are linked to the client's
\* name with a CNAME.
AnswerLinked ==
  reply # None /\ ~reply.stale =>
    /\ \/ reply.msg.question = 0
       \/ /\ reply.msg.question = NoQuestion
          /\ \E e \in asked : e.name = 0 /\ e.result = reply.msg
    /\ reply.msg.answers /\ reply.msg.owner # 0 => reply.msg.cname

\* README.md "Resolve logic" and forwarding.go:55-82.  A name with enough dots
\* is asked for literally before it is qualified, one with fewer dots after
\* that; the search domains come in order, without those the name ends in, and
\* only while the earlier ones gave NODATA, something negative or nothing.
ResolveOrder ==
  \A e \in asked :
    LET named(n) == {d \in asked : d.name = n}
        domains  == 1..config.SearchDomains \ q.hasSuffix
        literalFirst == q.nameDots >= config.Ndots /\ LongEnough
    IN  /\ e.name > 0 =>
             /\ e.name \in domains
             /\ literalFirst => named(0) # {}
             /\ \A i \in domains : i < e.name =>
                  named(i) # {} /\ \A d \in named(i) : Success(d.result) => NoData(d.result)
        /\ e.name = 0 =>
             /\ LongEnough
             /\ ~literalFirst /\ searchEnabled /\ domains # {} =>
                  \E i \in domains : named(i) # {}

\* README.md "additional servers are considered fallbacks" and "try other
\* upstream servers if status is not NOERROR".  A server is asked only after
\* all those before it failed (or, with --rcache-non-negative, answered
\* negatively), and then every server gets its chance before the reply.
FallbackOrder ==
  LET passedOver(e) == e.result = Failed \/ (config.RCacheNonNegative /\ Negative(e.result))
      at(e, n) == {d \in asked : d.name = e.name /\ d.zone = e.zone /\ d.server = n}
      servers(e) == IF e.zone = Default THEN config.Nameservers ELSE config.Stub[e.zone]
  IN  \A e \in asked :
        /\ \A n \in 1..(e.server - 1) : \E d \in at(e, n) : passedOver(d)
        /\ reply # None /\ passedOver(e) /\ e.server < servers(e) =>
             at(e, e.server + 1) # {}

\* forwarding.go:73, 99-118.  No server is asked the same thing twice.
AskedOnce ==
  [][asked' # asked \/ (pc = "exchange" /\ pc' # pc) =>
       ~\E e \in asked : e.name = name /\ e.zone = zone /\ e.server = nsIdx]_vars

\* server.go:48-49 and all loops of forwarding.go: whatever the upstreams do, a
\* query is answered in the end, or the process ends because a reply about a
\* qualified name came without a question.
Answered ==
  <>(\/ reply # None
     \/ pc = "panic" /\ \E e \in asked :
          e.name > 0 /\ e.result # Failed /\ e.result.question = NoQuestion)

\* The promise of Resolve, about this query.
Promise == INSTANCE Resolve WITH
  NoReply <- None,
  Panicked <- Failed,
  staleRes <- staleRes # None,
  positive <- \E e \in asked : Success(e.result),
  answer <- IF pc = "panic" THEN Failed
            ELSE IF reply = None THEN None
            ELSE [rcode |-> reply.msg.rcode, stale |-> reply.stale]

\* forwarding.go:16-174.  What forwarding does is what Resolve promises: one
\* message in the end, NOERROR if an upstream answered so, else the stale one if
\* there is one and the query is not refused, else a negative one; or the panic.
KeepsPromise == Promise!Spec
=============================================================================
