--------------------------- MODULE ForwardProofs ---------------------------
(***************************************************************************)
(* Proofs about the forwarding of one query, for any number of servers,    *)
(* stub zones, search domains and dots.                                    *)
(*                                                                         *)
(* The inductive invariant follows the control point: what is known about  *)
(* the results that are held (Control, Results), about the exchanges of    *)
(* each name (Chain), about the names that were asked for (Order), and     *)
(* about the positive answers among them (Positive).                       *)
(***************************************************************************)
EXTENDS Forward, TLAPS

-----------------------------------------------------------------------------
(* The inductive invariant *)

\* forwardQuery has been called for label, up to the step at label.
In(label) == pc = label \/ (pc \in {"query", "exchange"} /\ ret = label)

\* forwardSearch runs.
InSearch == pc \in {"domain", "searchReturn"} \/ In("domainReturn")

domains == 1..config.SearchDomains \ q.hasSuffix
literalFirst == q.nameDots >= config.Ndots /\ LongEnough
Linked(msg) == msg.question = 0 /\ (msg.answers /\ msg.owner # 0 => msg.cname)

\* A message about the literal name; a positive result without answers.
Literally(msg) == msg.question \in {0, NoQuestion} /\ msg.owner = 0
Empty(res) == Success(res) => NoData(res)

\* Which results are there at which control point.
Control ==
  /\ pc \in {"query", "exchange"} => ret \in {"firstReturn", "domainReturn", "lastReturn"}
  /\ pc = "exchange" => nsIdx > 0
  /\ pc # "done" => reply = None
  /\ pc \in {"start", "first"} => asked = {} /\ absolute = None /\ search = None /\ r = None
  /\ pc \in {"start", "first", "search"} \/ In("firstReturn") => nodata = None
  /\ pc \notin {"start", "done"} => ~Refuses
  /\ In("firstReturn") => name = 0 /\ absolute = None /\ search = None /\ literalFirst
  /\ In("domainReturn") => name \in domains
  /\ In("lastReturn") => name = 0 /\ absolute = None /\ LongEnough
  /\ InSearch => absolute # Failed /\ searchEnabled
  /\ pc = "search" \/ InSearch => (absolute = None => ~literalFirst) /\ search = None
  /\ pc \in {"last", "finish"} \/ In("lastReturn") =>
       (search = None => absolute = Failed \/ ~searchEnabled)
  /\ pc = "finish" /\ absolute = None => search = Failed \/ ~LongEnough

\* Where the results come from.
Results ==
  /\ pc \in {"firstReturn", "domainReturn", "lastReturn"} => r # None
  /\ r # None => \E e \in asked : e.result = r
  /\ pc # "query" /\ r \notin {None, Failed} =>
       r.question \in {name, NoQuestion} /\ r.owner = name
  /\ nodata # None => NoData(nodata) /\ \E e \in asked : e.result = nodata
  /\ absolute # None => \E e \in asked : e.result = absolute
  /\ absolute \notin {None, Failed} => Literally(absolute)
  /\ search = Failed => \E e \in asked : e.result = Failed
  /\ search \notin {None, Failed} =>
       \/ \E e \in asked : e.result # Failed /\ e.result.rcode = search.rcode
       \/ search.rcode = "NXDOMAIN" /\ domains = {} /\ searchEnabled
  /\ pc \in {"domain", "searchReturn"} /\ r = None =>
       nodata = None /\ name = 0 /\ (pc = "searchReturn" => domains = {})

\* Server k of zone z was asked about name n, and its result passed over.
PassedOver(n, z, k) == \E d \in asked :
  d.name = n /\ d.zone = z /\ d.server = k /\ TryAnother(d.result)

servers(z) == IF z = Default THEN config.Nameservers ELSE config.Stub[z]

\* The exchanges about one name: a chain of servers of one zone, all but the
\* last passed over.
Chain ==
  /\ \A e, d \in asked : e.name = d.name => e.zone = d.zone /\ (e.server = d.server => e = d)
  /\ \A e \in asked : \A k \in 1..(e.server - 1) : PassedOver(e.name, e.zone, k)
  /\ pc = "query" => \A e \in asked : e.name # name
  /\ pc = "exchange" =>
       /\ \A e \in asked : e.name = name =>
            e.zone = zone /\ e.server < nsIdx /\ TryAnother(e.result)
       /\ \A k \in 1..(nsIdx - 1) : PassedOver(name, zone, k)
  /\ \A e \in asked : TryAnother(e.result) /\ e.server < servers(e.zone) =>
       \/ \E d \in asked : d.name = e.name /\ d.zone = e.zone /\ d.server = e.server + 1
       \/ pc = "exchange" /\ e.name = name /\ e.server = nsIdx - 1
  /\ pc \in {"firstReturn", "domainReturn", "lastReturn"} =>
       \A e \in asked : e.name = name => e.result = r \/ TryAnother(e.result)

\* The last exchange about the literal name had the result in absolute.
Literal ==
  /\ pc \in {"firstReturn", "lastReturn"} =>
       \E e \in asked : e.name = 0 /\ e.result = r /\ \A d \in asked : d.name = 0 => d.server <= e.server
  /\ absolute # None =>
       \E e \in asked : e.name = 0 /\ e.result = absolute /\ \A d \in asked : d.name = 0 => d.server <= e.server
  /\ absolute = None /\ ~In("firstReturn") /\ ~In("lastReturn") => \A e \in asked : e.name # 0

\* The names that were asked for, and what the earlier ones did not give.
Order ==
  /\ \A e \in asked : e.name > 0 => e.name \in domains
  /\ pc = "search" \/ In("firstReturn") => \A e \in asked : e.name = 0
  /\ InSearch => \A e \in asked : e.name <= name
  /\ InSearch => \A i \in domains : i < name \/ (i = name /\ pc = "domain") =>
       /\ \E e \in asked : e.name = i
       /\ \A e \in asked : e.name = i => Empty(e.result)
  /\ pc \in {"domain", "domainReturn", "searchReturn"} =>
       name = 0 \/ \E e \in asked : e.name = name
  /\ pc = "searchReturn" \/ search # None => domains = {} \/ \E e \in asked : e.name \in domains

\* Positive answers are held until the reply is made from one.
Positive ==
  \A e \in asked : Success(e.result) =>
    \/ pc \in {"firstReturn", "domainReturn", "searchReturn", "lastReturn"} /\ e.result = r
    \/ InSearch /\ NoData(e.result) /\ nodata # None
    \/ pc = "panic"
    \/ pc = "done" /\ reply.msg.rcode = "NOERROR" /\ ~reply.stale
         /\ (e.result.answers => reply.msg.answers)

IInv ==
  /\ TypeOK /\ Control /\ Results /\ Chain /\ Literal /\ Order /\ Positive
  /\ LiteralDecides /\ RcodeEvidenced /\ AnswerLinked /\ ResolveOrder

-----------------------------------------------------------------------------
(* Types *)

\* What is known of the settings.
LEMMA ConfigFields ==
  ASSUME config \in Config, q \in Question(config)
  PROVE  /\ config.SearchDomains \in 0..MaxDomains /\ MaxDomains \in Nat
         /\ config.Nameservers \in Nat /\ config.Ndots \in Nat /\ config.FwdNdots \in Nat
         /\ config.NoRec \in BOOLEAN /\ config.EnableSearch \in BOOLEAN
         /\ config.RCacheNonNegative \in BOOLEAN
         /\ config.EnableSearch => config.SearchDomains > 0
         /\ \A z \in Zone : config.Stub[z] \in Nat
         /\ q.nameDots \in Int /\ q.hasSuffix \subseteq 1..config.SearchDomains
         /\ \A n \in 0..config.SearchDomains : q.zones[n] \subseteq Zone
<1>1. /\ config \in [NoRec : BOOLEAN, Nameservers : 0..MaxNameservers,
                      SearchDomains : 0..MaxDomains, EnableSearch : BOOLEAN,
                      Ndots : 1..MaxNdots, FwdNdots : 0..MaxNdots,
                      RCacheNonNegative : BOOLEAN, Stub : [Zone -> 1..MaxStubServers]]
      /\ config.EnableSearch => config.SearchDomains > 0
  BY DEF Config
<1>2. q \in [nameDots : -1..MaxDots, hasSuffix : SUBSET (1..config.SearchDomains),
             zones : [0..config.SearchDomains -> SUBSET Zone]]
  BY DEF Question
<1>3. config.NoRec \in BOOLEAN /\ config.EnableSearch \in BOOLEAN
      /\ config.RCacheNonNegative \in BOOLEAN
  BY <1>1, Zenon
<1>4. /\ config.SearchDomains \in 0..MaxDomains /\ MaxDomains \in Nat
      /\ config.Nameservers \in Nat /\ config.Ndots \in Nat /\ config.FwdNdots \in Nat
      /\ \A z \in Zone : config.Stub[z] \in Nat
  BY <1>1, BoundsAssumption
<1>5. q.nameDots \in -1..MaxDots
  BY <1>2
<1>6. q.hasSuffix \subseteq 1..config.SearchDomains
      /\ \A n \in 0..config.SearchDomains : q.zones[n] \subseteq Zone
  BY <1>2
<1>7. q.nameDots \in Int
  BY <1>5, BoundsAssumption
<1> QED BY <1>1, <1>3, <1>4, <1>6, <1>7

\* The messages that the code makes up.
LEMMA SetRcodeType ==
  ASSUME NEW rcode \in Rcode
  PROVE  SetRcode(rcode) \in Message /\ Linked(SetRcode(rcode)) /\ SetRcode(rcode).rcode = rcode
BY BoundsAssumption DEF SetRcode, Msg, Message, Linked

\* What an exchange about name n may yield.
LEMMA ExchangedType ==
  ASSUME config \in Config, q \in Question(config),
         NEW n \in 0..config.SearchDomains, NEW res \in Exchanged(n)
  PROVE  /\ res \in Message \cup {Failed} /\ res # None
         /\ res # Failed => res.question \in {n, NoQuestion} /\ res.owner = n
<1> DEFINE About(msg) == msg \in Message /\ msg.question \in {n, NoQuestion} /\ msg.owner = n
<1>1. n \in 0..MaxDomains
  BY ConfigFields
<1>2. ASSUME NEW rc \in Rcode, NEW a \in BOOLEAN, NEW tc \in BOOLEAN
      PROVE  About(Msg(rc, a, tc, n))
  BY <1>1 DEF Msg, Message
<1>3. ASSUME NEW msg, About(msg) PROVE About([msg EXCEPT !.question = NoQuestion])
  <2> DEFINE bare == [msg EXCEPT !.question = NoQuestion]
  <2>1. msg \in Message /\ msg.owner = n
    BY <1>3
  <2>2. bare \in Message
    BY <2>1 DEF Message
  <2>3. bare.question = NoQuestion /\ bare.owner = msg.owner
    BY <2>1 DEF Message
  <2> QED BY <2>1, <2>2, <2>3
<1>4. ASSUME NEW msg \in UsualReplies(n) PROVE About(msg)
  <2>1. \/ \E a, tc \in BOOLEAN : msg = Msg("NOERROR", a, tc, n)
        \/ \E rc \in Rcode \ {"NOERROR"} : msg = Msg(rc, FALSE, FALSE, n)
    BY DEF UsualReplies
  <2>2. "NOERROR" \in Rcode
    BY DEF Rcode
  <2> HIDE DEF About
  <2>3. CASE \E a, tc \in BOOLEAN : msg = Msg("NOERROR", a, tc, n)
    BY <1>2, <2>2, <2>3
  <2>4. CASE \E rc \in Rcode \ {"NOERROR"} : msg = Msg(rc, FALSE, FALSE, n)
    BY <1>2, <2>4
  <2> QED BY <2>1, <2>3, <2>4
<1>5. ASSUME NEW msg \in OddReplies(n) PROVE About(msg)
  <2>1. CASE \E rc \in Rcode \ {"NOERROR"} : msg = Msg(rc, TRUE, FALSE, n)
    BY <1>2, <2>1
  <2>2. CASE \E x \in UsualReplies(n) : msg = [x EXCEPT !.question = NoQuestion]
    BY <1>3, <1>4, <2>2
  <2> QED BY <2>1, <2>2 DEF OddReplies
<1>6. res = Failed \/ res \in UsualReplies(n) \/ res \in OddReplies(n)
  BY DEF Exchanged
<1>7. res = Failed \/ About(res)
  BY <1>4, <1>5, <1>6
<1> QED BY <1>7, ResultAssumption

\* The result of the search has the type of a result.
LEMMA SearchResultType ==
  ASSUME TypeOK
  PROVE  SearchResult \in Message \cup {Failed}
<1>1. SetRcode("NXDOMAIN") \in Message
  BY SetRcodeType DEF Rcode
<1>2. ASSUME NEW msg \in Message, NEW b \in BOOLEAN
      PROVE  [msg EXCEPT !.question = 0, !.cname = b] \in Message
  <2>1. 0 \in 0..MaxDomains
    BY BoundsAssumption
  <2> QED BY <2>1 DEF Message
<1>3. Found \in Message \cup {None}
  BY DEF Found, TypeOK, Result
<1>4. r # None => (Success(r) /\ r.answers) \in BOOLEAN
  BY DEF TypeOK, Result, Success, Message
<1> QED BY <1>1, <1>2, <1>3, <1>4 DEF SearchResult

\* writeMsg and return.
LEMMA WriteType ==
  ASSUME NEW msg \in Message, NEW b \in BOOLEAN, Write(msg, b)
  PROVE  reply' \in [msg : Message, stale : BOOLEAN] /\ pc' = "done"
BY DEF Write

\* Every step keeps the types.
LEMMA TypeStep == ASSUME TypeOK, Control, Next PROVE TypeOK'
<1> USE DEF input, lookup, query
<1>1. /\ config.SearchDomains \in 0..MaxDomains /\ MaxDomains \in Nat
      /\ \A n \in 0..config.SearchDomains : q.zones[n] \subseteq Zone
  BY ConfigFields DEF TypeOK
<1>3. CASE Refuse
  BY <1>3, SetRcodeType DEF Refuse, Write, TypeOK, Label, Rcode
<1>4. CASE Start
  BY <1>4 DEF Start, Goto, TypeOK, Label
<1>5. CASE First
  BY <1>1, <1>5 DEF First, forwardQuery, Goto, TypeOK, Label
<1>6. ASSUME NEW label, NEW next \in Label, AbsoluteReturn(label, next)
      PROVE  TypeOK'
  <2>1. CASE Success(r) /\ Write(r, FALSE)
    <3>1. r \in Message
      BY <2>1 DEF Success, TypeOK, Result
    <3> QED BY <1>6, <2>1, <3>1, WriteType DEF AbsoluteReturn, TypeOK, Label, Result
  <2>2. CASE Goto(next)
    BY <1>6, <2>2 DEF AbsoluteReturn, Goto, TypeOK
  <2> QED BY <1>6, <2>1, <2>2 DEF AbsoluteReturn
<1>7. CASE StartSearch
  BY <1>1, <1>7 DEF StartSearch, Goto, TypeOK, Label, Result
<1>8. CASE NextDomain
  BY <1>1, <1>8 DEF NextDomain, DomainsLeft, forwardQuery, Goto, TypeOK, Label
<1>9. CASE DomainReturn
  <2>1. nodata' \in Message \cup {None}
    BY <1>9 DEF DomainReturn, NoData, Success, TypeOK, Result
  <2> QED BY <1>9, <2>1 DEF DomainReturn, Goto, TypeOK, Label
<1>10. CASE SearchReturn
  <2>1. SearchResult \in Message \cup {Failed}
    BY SearchResultType
  <2>2. CASE Success(SearchResult) /\ Write(SearchResult, FALSE)
    <3>1. SearchResult \in Message
      BY <2>1, <2>2 DEF Success
    <3>2. reply' \in [msg : Message, stale : BOOLEAN] /\ pc' = "done"
      BY <2>2, <3>1, WriteType
    <3> QED BY <1>10, <3>1, <3>2 DEF SearchReturn, TypeOK, Label, Result
  <2>3. CASE Goto("last")
    BY <1>10, <2>1, <2>3 DEF SearchReturn, Goto, TypeOK, Label, Result
  <2> QED BY <1>10, <2>2, <2>3 DEF SearchReturn
<1>11. CASE Last
  BY <1>1, <1>11 DEF Last, forwardQuery, Goto, TypeOK, Label
<1>12. CASE Finish
  <2>1. ASSUME NEW rc \in Rcode PROVE SetRcode(rc) \in Message
    BY SetRcodeType
  <2>2. NegativeResult \in Message
    BY <2>1 DEF NegativeResult, TypeOK, Result, Message, Rcode
  <2>3. reply' \in [msg : Message, stale : BOOLEAN] /\ pc' = "done"
    BY <1>12, <2>2 DEF Finish, Write, TypeOK
  <2> QED BY <1>12, <2>3 DEF Finish, TypeOK, Label
<1>13. CASE ChooseServers
  <2>1. zone' \in Zone \cup {Default}
    BY <1>1, <1>13 DEF ChooseServers, TypeOK
  <2> QED BY <1>13, <2>1 DEF ChooseServers, Goto, TypeOK, Label, Result
<1>14. CASE Exchange
  <2>1. PICK res \in Exchanged(name) :
          /\ r' = res
          /\ asked' = asked \cup {[name |-> name, zone |-> zone, server |-> nsIdx, result |-> res]}
          /\ nsIdx' \in {nsIdx, nsIdx + 1} /\ pc' \in {"exchange", ret} /\ reply' = reply
    BY <1>14 DEF Exchange, Goto
  <2>2. res \in Message \cup {Failed}
    BY ExchangedType DEF TypeOK
  <2>3. asked' \subseteq [name : 0..config.SearchDomains, zone : Zone \cup {Default},
                          server : Nat \ {0}, result : Message \cup {Failed}]
    BY <1>14, <2>1, <2>2 DEF Exchange, TypeOK, Control
  <2> QED BY <1>14, <2>1, <2>2, <2>3 DEF Exchange, TypeOK, Label, Result
<1>15. CASE SearchPanics
  BY <1>15 DEF SearchPanics, Goto, TypeOK, Label
<1> QED
  BY <1>3, <1>4, <1>5, <1>6, <1>7, <1>8, <1>9, <1>10, <1>11, <1>12, <1>13, <1>14, <1>15
     DEF Next, FirstReturn, LastReturn, Label

-----------------------------------------------------------------------------
(* Every step keeps the parts of the invariant *)

\* The request and the configuration do not change.
LEMMA SameInput ==
  ASSUME Next
  PROVE  /\ UNCHANGED <<config, q, staleRes>>
         /\ Refuses' = Refuses /\ LongEnough' = LongEnough /\ literalFirst' = literalFirst
         /\ searchEnabled' = searchEnabled /\ domains' = domains
<1>1. UNCHANGED <<config, q, staleRes>>
  BY DEF Next, Refuse, Start, First, FirstReturn, AbsoluteReturn, StartSearch, NextDomain,
         DomainReturn, SearchReturn, SearchPanics, Last, LastReturn, Finish, ChooseServers, Exchange, input
<1> QED BY <1>1 DEF Refuses, LongEnough, literalFirst, searchEnabled, domains

\* What one exchange does.
LEMMA ExchangeStep ==
  ASSUME TypeOK, Exchange
  PROVE  /\ pc = "exchange" /\ nsIdx <= nservers
         /\ UNCHANGED <<input, lookup, name, ret, zone, nodata>> /\ reply' = reply
         /\ r' \in Message \cup {Failed} /\ r' # None
         /\ r' # Failed => r'.question \in {name, NoQuestion} /\ r'.owner = name
         /\ \E new \in asked' :
              /\ asked' = asked \cup {new}
              /\ new.name = name /\ new.zone = zone /\ new.server = nsIdx /\ new.result = r'
         /\ \/ /\ TryAnother(r') /\ nsIdx < nservers
               /\ nsIdx' = nsIdx + 1 /\ pc' = "exchange"
            \/ ~(TryAnother(r') /\ nsIdx < nservers) /\ nsIdx' = nsIdx /\ pc' = ret
<1>1. PICK res \in Exchanged(name) :
        /\ r' = res
        /\ asked' = asked \cup {[name |-> name, zone |-> zone, server |-> nsIdx, result |-> res]}
        /\ \/ /\ TryAnother(res) /\ nsIdx < nservers
              /\ nsIdx' = nsIdx + 1 /\ pc' = "exchange" /\ reply' = reply
           \/ /\ ~(TryAnother(res) /\ nsIdx < nservers)
              /\ nsIdx' = nsIdx /\ pc' = ret /\ reply' = reply
  BY DEF Exchange, Goto
<1>2. r' = res
  BY <1>1
<1> DEFINE new == [name |-> name, zone |-> zone, server |-> nsIdx, result |-> res]
<1>3. new.name = name /\ new.zone = zone /\ new.server = nsIdx /\ new.result = res
  OBVIOUS
<1>4. asked' = asked \cup {new} /\ new \in asked'
  BY <1>1
<1> HIDE DEF new
<1>5. \E x \in asked' : /\ asked' = asked \cup {x} /\ x.name = name /\ x.zone = zone
                        /\ x.server = nsIdx /\ x.result = r'
  BY <1>1, <1>3, <1>4
<1>6. pc = "exchange" /\ nsIdx <= nservers /\ UNCHANGED <<input, lookup, name, ret, zone, nodata>>
  BY DEF Exchange
<1>7. /\ reply' = reply
      /\ \/ /\ TryAnother(r') /\ nsIdx < nservers
            /\ nsIdx' = nsIdx + 1 /\ pc' = "exchange"
         \/ ~(TryAnother(r') /\ nsIdx < nservers) /\ nsIdx' = nsIdx /\ pc' = ret
  BY <1>1, Zenon
<1>8. /\ r' \in Message \cup {Failed} /\ r' # None
      /\ r' # Failed => r'.question \in {name, NoQuestion} /\ r'.owner = name
  <2>1. \A x \in Exchanged(name) :
          /\ x \in Message \cup {Failed} /\ x # None
          /\ x # Failed => x.question \in {name, NoQuestion} /\ x.owner = name
    BY ExchangedType DEF TypeOK
  <2>2. r' \in Exchanged(name)
    BY <1>2
  <2> QED BY <2>1, <2>2
<1> QED BY <1>5, <1>6, <1>7, <1>8

\* Every step keeps Control.
LEMMA ControlStep == ASSUME IInv, Next PROVE Control'
<1> USE SameInput DEF In, InSearch, input, lookup, query
<1>1. TypeOK /\ Control
  BY DEF IInv
<1>2. CASE Refuse
  BY <1>1, <1>2 DEF Refuse, Write, Control
<1>3. CASE Start
  BY <1>1, <1>3 DEF Start, Goto, Control
<1>4. CASE First
  BY <1>1, <1>4 DEF First, forwardQuery, Goto, Control, literalFirst
<1>5. CASE FirstReturn
  <2>1. absolute' = r /\ r # None
    BY <1>5 DEF FirstReturn, AbsoluteReturn, IInv, Results
  <2> QED BY <1>1, <1>5, <2>1 DEF FirstReturn, AbsoluteReturn, Write, Goto, Control
<1>6. CASE StartSearch
  BY <1>1, <1>6 DEF StartSearch, Goto, Control
<1>7. CASE NextDomain
  BY <1>1, <1>7 DEF NextDomain, DomainsLeft, domains, forwardQuery, Goto, Control
<1>8. CASE DomainReturn
  BY <1>1, <1>8 DEF DomainReturn, Goto, Control
<1>9. CASE SearchReturn
  <2>1. search' # None
    BY <1>1, <1>9, SearchResultType, ResultAssumption DEF SearchReturn
  <2> QED BY <1>1, <1>9, <2>1 DEF SearchReturn, Write, Goto, Control
<1>10. CASE Last
  BY <1>1, <1>10 DEF Last, forwardQuery, Goto, Control
<1>11. CASE LastReturn
  <2>1. absolute' = r /\ r # None
    BY <1>11 DEF LastReturn, AbsoluteReturn, IInv, Results
  <2> QED BY <1>1, <1>11, <2>1, ResultAssumption DEF LastReturn, AbsoluteReturn, Write, Goto, Control
<1>12. CASE Finish
  BY <1>1, <1>12 DEF Finish, Write, Control, TypeOK
<1>13. CASE ChooseServers
  BY <1>1, <1>13 DEF ChooseServers, Goto, Control, TypeOK
<1>14. CASE Exchange
  <2>1. pc = "exchange" /\ UNCHANGED <<reply, name, ret, absolute, search, nodata>>
    BY <1>14 DEF Exchange, Goto
  <2>2. (pc' = "exchange" /\ nsIdx' > 0) \/ pc' = ret
    BY <1>1, <1>14, ExchangeStep DEF TypeOK
  <2> QED BY <1>1, <2>1, <2>2 DEF Control
<1>15. CASE SearchPanics
  BY <1>1, <1>15 DEF SearchPanics, Goto, Control
<1> QED
  BY <1>2, <1>3, <1>4, <1>5, <1>6, <1>7, <1>8, <1>9, <1>10, <1>11, <1>12, <1>13, <1>14, <1>15
     DEF Next

\* What the search returns, in the terms of Results.
LEMMA SearchResultOrigin ==
  ASSUME IInv, pc = "searchReturn"
  PROVE  /\ SearchResult = Failed => r = Failed /\ nodata = None
         /\ Success(SearchResult) => Linked(SearchResult)
         /\ SearchResult # Failed =>
              \/ /\ r = None /\ SearchResult.rcode = "NXDOMAIN"
              \/ /\ r \notin {None, Failed} /\ Success(r)
                 /\ SearchResult.rcode = r.rcode /\ SearchResult.answers = r.answers
              \/ /\ r \notin {None, Failed} /\ ~Success(r) /\ nodata = None
                 /\ SearchResult.rcode = r.rcode
              \/ /\ r # None /\ ~Success(r) /\ nodata # None
                 /\ SearchResult.rcode = "NOERROR" /\ nodata.rcode = "NOERROR"
<1> DEFINE linked == Success(r) /\ r.answers
           msg == [Found EXCEPT !.question = 0, !.cname = linked]
<1>1. CASE r = None
  BY <1>1, SetRcodeType, ResultAssumption DEF SearchResult, Rcode
<1>2. CASE r = Failed /\ nodata = None
  <2>1. Found = None
    BY <1>2 DEF Found
  <2> QED BY <1>2, <2>1, ResultAssumption DEF SearchResult, Success
<1>3. ASSUME Found \in Message
      PROVE  /\ msg \in Message /\ msg # Failed /\ msg.question = 0
             /\ msg.rcode = Found.rcode /\ msg.answers = Found.answers
             /\ linked \in BOOLEAN => msg.cname = linked
  <2>1. 0 \in 0..MaxDomains
    BY BoundsAssumption
  <2>2. linked \in BOOLEAN
    BY DEF IInv, TypeOK, Result, Success, Message
  <2>3. msg \in Message
    BY <1>3, <2>1, <2>2 DEF Message
  <2>4. /\ msg.question = 0 /\ msg.rcode = Found.rcode /\ msg.answers = Found.answers
        /\ msg.cname = linked
    BY <1>3 DEF Message
  <2> QED BY <2>3, <2>4, ResultAssumption
<1>4. CASE r # None /\ ~Success(r) /\ nodata # None
  <2>1. Found = nodata /\ nodata \in Message /\ nodata.rcode = "NOERROR" /\ ~nodata.answers
    BY <1>4 DEF Found, IInv, TypeOK, Results, NoData, Success
  <2>2. SearchResult = msg
    BY <1>4, <2>1, ResultAssumption DEF SearchResult
  <2> HIDE DEF msg
  <2> QED BY <1>3, <1>4, <2>1, <2>2 DEF Linked
<1>5. CASE r \notin {None, Failed} /\ (Success(r) \/ nodata = None)
  <2>1. Found = r /\ r \in Message
    BY <1>5 DEF Found, IInv, TypeOK, Result
  <2>2. SearchResult = msg
    BY <1>5, <2>1, ResultAssumption DEF SearchResult
  <2>3. linked \in BOOLEAN
    BY <2>1 DEF Success, Message
  <2>4. msg \in Message /\ msg.question = 0 /\ msg.rcode = r.rcode /\ msg.answers = r.answers
        /\ msg.cname = linked /\ msg # Failed
    BY <1>3, <2>1, <2>3
  <2>5. Success(msg) => Success(r)
    BY <1>5, <2>4 DEF Success
  <2>6. Success(msg) => Linked(msg)
    BY <2>4, <2>5 DEF Linked
  <2> HIDE DEF msg
  <2>7. CASE Success(r)
    BY <1>5, <2>2, <2>4, <2>6, <2>7, Zenon
  <2>8. CASE ~Success(r)
    BY <1>5, <2>2, <2>4, <2>6, <2>8, Zenon
  <2> QED BY <2>7, <2>8
<1>6. r = Failed => ~Success(r)
  BY DEF Success
<1> QED BY <1>1, <1>2, <1>4, <1>5, <1>6

\* Every step keeps Results.
LEMMA ResultsStep == ASSUME IInv, Next PROVE Results'
<1> USE SameInput DEF input, lookup, query
<1>1. TypeOK /\ Control /\ Results
  BY DEF IInv
<1>2. CASE Refuse
  BY <1>1, <1>2 DEF Refuse, Write, Results, Literally, NoData, Success
<1>3. CASE Start
  BY <1>1, <1>3 DEF Start, Goto, Results, Literally, NoData, Success
<1>4. CASE First
  BY <1>1, <1>4 DEF First, forwardQuery, Goto, Results, Literally, NoData, Success
<1>5. CASE FirstReturn
  BY <1>1, <1>5 DEF FirstReturn, AbsoluteReturn, Write, Goto, Results, Literally, NoData, Success,
                    Control, In
<1>6. CASE StartSearch
  BY <1>1, <1>6 DEF StartSearch, Goto, Results, Literally, NoData, Success, Control
<1>7. CASE NextDomain
  BY <1>1, <1>7 DEF NextDomain, forwardQuery, Goto, Results, Literally, NoData, Success,
                    DomainsLeft, domains
<1>8. CASE DomainReturn
  BY <1>1, <1>8 DEF DomainReturn, Goto, Results, Literally, NoData, Success
<1>9. CASE SearchReturn
  BY <1>1, <1>9, SearchResultOrigin DEF SearchReturn, Write, Goto, Results, Literally, NoData,
     Success, Control, InSearch, In
<1>10. CASE Last
  BY <1>1, <1>10 DEF Last, forwardQuery, Goto, Results, Literally, NoData, Success
<1>11. CASE LastReturn
  BY <1>1, <1>11 DEF LastReturn, AbsoluteReturn, Write, Goto, Results, Literally, NoData, Success,
                     Control, In
<1>12. CASE Finish
  BY <1>1, <1>12 DEF Finish, Write, Results, Literally, NoData, Success
<1>13. CASE ChooseServers
  BY <1>1, <1>13 DEF ChooseServers, Goto, Results, Literally, NoData, Success
<1>14. CASE Exchange
  <2>1. \E e \in asked' : e.result = r'
    BY <1>1, <1>14, ExchangeStep
  <2>2. asked \subseteq asked'
    BY <1>1, <1>14, ExchangeStep
  <2> QED BY <1>1, <1>14, <2>1, <2>2, ExchangeStep DEF Results, Literally, NoData, Success, Control
<1>15. CASE SearchPanics
  BY <1>1, <1>15 DEF SearchPanics, Goto, Results, Literally, NoData, Success
<1> QED
  BY <1>2, <1>3, <1>4, <1>5, <1>6, <1>7, <1>8, <1>9, <1>10, <1>11, <1>12, <1>13, <1>14, <1>15
     DEF Next

\* A step without an exchange that starts no query keeps Chain.
LEMMA ChainQuiet ==
  ASSUME Chain, UNCHANGED <<asked, config>>, pc # "exchange",
         pc' \notin {"query", "exchange", "firstReturn", "domainReturn", "lastReturn"}
  PROVE  Chain'
BY DEF Chain, PassedOver, TryAnother, Negative, servers

\* A call of forwardQuery about a name that was not asked for keeps Chain.
LEMMA ChainQuery ==
  ASSUME Chain, UNCHANGED <<asked, config>>, pc # "exchange", pc' = "query",
         \A e \in asked : e.name # name'
  PROVE  Chain'
BY DEF Chain, PassedOver, TryAnother, Negative, servers

\* Every step keeps Chain.
LEMMA ChainStep == ASSUME IInv, Next PROVE Chain'
<1> USE SameInput DEF input, lookup, query
<1>1. TypeOK /\ Control /\ Chain /\ Literal /\ Order
  BY DEF IInv
<1>2. CASE Refuse \/ Start \/ FirstReturn \/ StartSearch \/ DomainReturn \/ SearchReturn
           \/ SearchPanics \/ LastReturn \/ Finish
  <2>1. UNCHANGED asked /\ pc # "exchange"
    BY <1>2 DEF Refuse, Start, FirstReturn, AbsoluteReturn, StartSearch, DomainReturn,
                SearchReturn, SearchPanics, LastReturn, Finish
  <2>2. pc' \in {"done", "first", "search", "domain", "last", "searchReturn", "finish", "panic"}
    BY <1>2 DEF Refuse, Start, FirstReturn, AbsoluteReturn, StartSearch, DomainReturn,
                SearchReturn, SearchPanics, LastReturn, Finish, Write, Goto
  <2> QED BY <1>1, <2>1, <2>2, ChainQuiet
<1>3. CASE First
  <2>1. asked = {}
    BY <1>1, <1>3 DEF First, Control
  <2> QED BY <1>1, <1>3, <2>1, ChainQuiet, ChainQuery DEF First, forwardQuery, Goto
<1>4. CASE NextDomain
  <2>1. \A e \in asked : e.name <= name /\ e.name \in Nat /\ name \in Nat
    BY <1>1, <1>4 DEF NextDomain, Order, InSearch, TypeOK
  <2>2. ASSUME NEW i \in DomainsLeft, forwardQuery(i, "domainReturn")
        PROVE  Chain'
    <3>1. i > name /\ i \in Nat
      BY DEF DomainsLeft
    <3>2. \A e \in asked : e.name # name'
      BY <2>1, <2>2, <3>1 DEF forwardQuery
    <3> QED BY <1>1, <1>4, <2>2, <3>2, ChainQuery DEF NextDomain, forwardQuery
  <2>3. CASE Goto("searchReturn")
    BY <1>1, <1>4, <2>3, ChainQuiet DEF NextDomain, Goto
  <2> QED BY <1>4, <2>2, <2>3 DEF NextDomain
<1>5. CASE Last
  <2>1. CASE forwardQuery(0, "lastReturn") /\ absolute = None
    <3>1. \A e \in asked : e.name # 0
      BY <1>1, <1>5, <2>1 DEF Last, Literal, In
    <3> QED BY <1>1, <1>5, <2>1, <3>1, ChainQuery DEF Last, forwardQuery
  <2>2. CASE Goto("finish")
    BY <1>1, <1>5, <2>2, ChainQuiet DEF Last, Goto
  <2> QED BY <1>5, <2>1, <2>2 DEF Last
<1>6. CASE ChooseServers
  <2>1. /\ \A e \in asked : e.name # name
        /\ pc = "query" /\ pc' = "exchange" /\ nsIdx' = 1 /\ UNCHANGED <<asked, name>>
    BY <1>1, <1>6 DEF ChooseServers, Goto, Chain
  <2> QED BY <1>1, <2>1 DEF Chain, PassedOver, TryAnother, Negative, servers
<1>7. CASE Exchange
  <2>1. PICK new \in asked' :
          /\ asked' = asked \cup {new}
          /\ new.name = name /\ new.zone = zone /\ new.server = nsIdx /\ new.result = r'
    BY <1>1, <1>7, ExchangeStep
  <2>2. /\ pc = "exchange" /\ UNCHANGED <<config, name, zone>>
        /\ \/ TryAnother(r') /\ nsIdx < nservers /\ nsIdx' = nsIdx + 1 /\ pc' = "exchange"
           \/ ~(TryAnother(r') /\ nsIdx < nservers) /\ nsIdx' = nsIdx /\ pc' = ret
    BY <1>1, <1>7, ExchangeStep
  <2>3. /\ nsIdx \in Nat /\ nsIdx > 0 /\ nservers = servers(zone)
        /\ \A e \in asked : e.server \in Nat
    BY <1>1, <2>2 DEF TypeOK, Control, nservers, servers
  <2>4. /\ \A x : TryAnother(x)' <=> TryAnother(x)
        /\ \A z : servers(z)' = servers(z)
    BY <2>2 DEF TryAnother, Negative, servers
  <2>5. \A e \in asked : e.name = name => e.zone = zone /\ e.server < nsIdx /\ TryAnother(e.result)
    BY <1>1, <2>2 DEF Chain
  <2>6. \A n, z, k : PassedOver(n, z, k) => PassedOver(n, z, k)'
    BY <2>1, <2>4 DEF PassedOver
  <2>7. (\A e, d \in asked : e.name = d.name => e.zone = d.zone /\ (e.server = d.server => e = d))'
    BY <1>1, <2>1, <2>3, <2>5 DEF Chain
  <2>8. (\A e \in asked : \A k \in 1..(e.server - 1) : PassedOver(e.name, e.zone, k))'
    BY <1>1, <2>1, <2>2, <2>6 DEF Chain
  <2>9. pc' = "exchange" =>
          /\ TryAnother(r') /\ nsIdx' = nsIdx + 1
          /\ \A e \in asked' : e.name = name =>
               e.zone = zone /\ e.server < nsIdx' /\ TryAnother(e.result)
    BY <1>1, <2>1, <2>2, <2>3, <2>5 DEF Control
  <2>10. pc' = "exchange" => \A k \in 1..(nsIdx' - 1) : PassedOver(name, zone, k)'
    <3>1. SUFFICES ASSUME pc' = "exchange", NEW k \in 1..(nsIdx' - 1)
                   PROVE  PassedOver(name, zone, k)'
      OBVIOUS
    <3>2. CASE k = nsIdx
      BY <2>1, <2>2, <2>4, <2>9, <3>1, <3>2 DEF PassedOver
    <3>3. CASE k \in 1..(nsIdx - 1)
      BY <1>1, <2>2, <2>6, <3>3 DEF Chain
    <3> QED BY <2>3, <2>9, <3>1, <3>2, <3>3
  <2>11. ASSUME NEW e \in asked', TryAnother(e.result), e.server < servers(e.zone)
         PROVE  \/ \E d \in asked' : d.name = e.name /\ d.zone = e.zone /\ d.server = e.server + 1
                \/ pc' = "exchange" /\ e.name = name /\ e.server = nsIdx' - 1
    <3>1. CASE e = new
      BY <2>1, <2>2, <2>3, <2>11, <3>1
    <3>2. CASE e \in asked /\ e.name = name /\ e.server = nsIdx - 1
      BY <2>1, <2>3, <2>5, <3>2
    <3>3. CASE e \in asked /\ \E d \in asked :
                 d.name = e.name /\ d.zone = e.zone /\ d.server = e.server + 1
      BY <2>1, <3>3
    <3> QED BY <1>1, <2>1, <2>11, <3>1, <3>2, <3>3 DEF Chain
  <2>12. pc' # "exchange" => \A e \in asked' : e.name = name => e.result = r' \/ TryAnother(e.result)
    BY <2>1, <2>5
  <2>13. pc' # "query"
    BY <1>1, <2>2 DEF Control
  <2> QED BY <2>2, <2>4, <2>7, <2>8, <2>9, <2>10, <2>11, <2>12, <2>13 DEF Chain
<1> QED
  BY <1>2, <1>3, <1>4, <1>5, <1>6, <1>7 DEF Next

\* Every step keeps Literal.
LEMMA LiteralStep == ASSUME IInv, Next PROVE Literal'
<1> USE DEF input, lookup, query, In
<1>1. TypeOK /\ Control /\ Results /\ Chain /\ Literal
  BY DEF IInv
<1>2. CASE Refuse \/ Start \/ First \/ StartSearch \/ NextDomain \/ DomainReturn \/ SearchReturn
           \/ SearchPanics \/ Last \/ Finish \/ ChooseServers
  <2>1. UNCHANGED <<asked, absolute>>
    BY <1>2 DEF Refuse, Start, First, StartSearch, NextDomain, DomainReturn, SearchReturn, SearchPanics, Last,
                Finish, ChooseServers
  <2>2. pc' \notin {"firstReturn", "lastReturn"} /\ pc \notin {"firstReturn", "lastReturn"}
    BY <1>2 DEF Refuse, Start, First, StartSearch, NextDomain, DomainReturn, SearchReturn, SearchPanics, Last,
                Finish, ChooseServers, Write, Goto, forwardQuery
  <2>3. pc \in {"query", "exchange"} => pc' \in {"query", "exchange"} /\ ret' = ret
    BY <1>2 DEF Refuse, Start, First, StartSearch, NextDomain, DomainReturn, SearchReturn, SearchPanics, Last,
                Finish, ChooseServers, Goto
  <2> QED BY <1>1, <2>1, <2>2, <2>3 DEF Literal
<1>3. CASE FirstReturn \/ LastReturn
  <2>1. /\ pc \in {"firstReturn", "lastReturn"} /\ pc' \in {"search", "finish", "done"}
        /\ absolute' = r /\ UNCHANGED asked
    BY <1>3 DEF FirstReturn, LastReturn, AbsoluteReturn, Write, Goto
  <2>2. r # None
    BY <1>1, <2>1 DEF Results
  <2> QED BY <1>1, <2>1, <2>2 DEF Literal
<1>4. CASE Exchange
  <2>1. PICK new \in asked' :
          /\ asked' = asked \cup {new}
          /\ new.name = name /\ new.server = nsIdx /\ new.result = r'
    BY <1>1, <1>4, ExchangeStep
  <2>2. /\ pc = "exchange" /\ UNCHANGED <<absolute, ret, name>>
        /\ pc' \in {"exchange", ret}
    BY <1>1, <1>4, ExchangeStep
  <2>3. nsIdx \in Nat /\ (\A e \in asked : e.server \in Nat /\ (e.name = name => e.server < nsIdx))
    BY <1>1, <2>2 DEF TypeOK, Chain
  <2>4. CASE ret = "domainReturn"
    <3>1. name # 0
      BY <1>1, <2>2, <2>4 DEF Control, domains
    <3> QED BY <1>1, <2>1, <2>2, <2>4, <3>1 DEF Literal
  <2>5. CASE ret \in {"firstReturn", "lastReturn"}
    <3>1. name = 0 /\ absolute = None
      BY <1>1, <2>2, <2>5 DEF Control
    <3>2. \A d \in asked' : d.name = 0 => d.server <= new.server
      BY <2>1, <2>3, <3>1
    <3> QED BY <2>1, <2>2, <2>5, <3>1, <3>2 DEF Literal
  <2> QED BY <1>1, <2>2, <2>4, <2>5 DEF Control
<1> QED
  BY <1>2, <1>3, <1>4 DEF Next

\* The results that let the search go on are no answers.
LEMMA ContinueWithoutAnswers ==
  ASSUME IInv, pc = "domainReturn", r # Failed,
         NoData(r) \/ r.rcode \in {"NXDOMAIN", "SERVFAIL"}
  PROVE  \A e \in asked : e.name = name => Empty(e.result)
<1>1. Empty(r)
  BY DEF Empty, Success
<1>2. \A e \in asked : TryAnother(e.result) => Empty(e.result)
  BY DEF TryAnother, Negative, Empty, Success
<1> QED BY <1>1, <1>2 DEF IInv, Chain

\* Every step keeps Order.
LEMMA OrderStep == ASSUME IInv, Next PROVE Order'
<1> USE SameInput DEF input, lookup, query, In, InSearch
<1>1. TypeOK /\ Control /\ Results /\ Literal /\ Order
  BY DEF IInv
<1>2. CASE Refuse \/ Start \/ Finish \/ LastReturn \/ Last
  <2>1. UNCHANGED <<asked, search>>
    BY <1>2 DEF Refuse, Start, Finish, LastReturn, AbsoluteReturn, Last
  <2>2. pc' \in {"done", "first", "finish"} \/ (pc' = "query" /\ ret' = "lastReturn")
    BY <1>2 DEF Refuse, Start, Finish, LastReturn, AbsoluteReturn, Last, Write, Goto, forwardQuery
  <2> QED BY <1>1, <2>1, <2>2 DEF Order
<1>3. CASE First
  <2>1. asked = {} /\ search = None
    BY <1>1, <1>3 DEF First, Control
  <2> QED BY <1>1, <1>3, <2>1 DEF First, forwardQuery, Goto, Order
<1>4. CASE FirstReturn
  BY <1>1, <1>4 DEF FirstReturn, AbsoluteReturn, Write, Goto, Order
<1>5. CASE StartSearch
  <2>1. \A e \in asked : e.name = 0
    BY <1>1, <1>5 DEF StartSearch, Order
  <2>2. \A i \in domains : i > 0 /\ i \in Nat
    BY <1>1, ConfigFields DEF domains, TypeOK
  <2> QED BY <1>1, <1>5, <2>1, <2>2 DEF StartSearch, Goto, Order
<1>6. CASE NextDomain
  <2>1. /\ \A e \in asked : e.name <= name /\ e.name \in Nat
        /\ \A i \in domains : i <= name =>
             /\ \E e \in asked : e.name = i
             /\ \A e \in asked : e.name = i => Empty(e.result)
        /\ name \in Nat /\ domains \subseteq Nat
    BY <1>1, <1>6, ConfigFields DEF NextDomain, Order, TypeOK, domains
  <2>2. UNCHANGED <<asked, search>> /\ pc = "domain"
    BY <1>6 DEF NextDomain
  <2>3. ASSUME NEW i \in DomainsLeft, \A j \in DomainsLeft : i <= j,
               forwardQuery(i, "domainReturn")
        PROVE  Order'
    <3>1. i \in domains /\ i > name /\ \A j \in domains : j < i => j <= name
      BY <2>1, <2>3 DEF DomainsLeft, domains
    <3>2. \A e \in asked : e.name <= i
      BY <2>1, <3>1
    <3> QED BY <1>1, <2>1, <2>2, <2>3, <3>1, <3>2 DEF forwardQuery, Order
  <2>4. CASE DomainsLeft = {} /\ Goto("searchReturn") /\ UNCHANGED query
    <3>1. \A i \in domains : i <= name
      BY <2>1, <2>4 DEF DomainsLeft, domains
    <3>2. domains = {} \/ \E e \in asked : e.name \in domains
      BY <2>1, <3>1
    <3> QED BY <1>1, <2>1, <2>2, <2>4, <3>2 DEF Goto, Order
  <2> QED BY <1>6, <2>3, <2>4 DEF NextDomain
<1>7. CASE DomainReturn
  <2>1. UNCHANGED <<asked, search, name, ret>> /\ pc = "domainReturn" /\ name \in domains
    BY <1>1, <1>7 DEF DomainReturn, Control
  <2>2. \E e \in asked : e.name = name
    BY <1>1, <2>1, ConfigFields DEF Order, domains, TypeOK
  <2>3. \/ pc' = "searchReturn"
        \/ pc' = "domain" /\ \A e \in asked : e.name = name => Empty(e.result)
    BY <1>7, ContinueWithoutAnswers DEF DomainReturn, Goto
  <2> QED BY <1>1, <2>1, <2>2, <2>3 DEF Order
<1>8. CASE SearchReturn \/ SearchPanics
  BY <1>1, <1>8 DEF SearchReturn, SearchPanics, Write, Goto, Order
<1>9. CASE ChooseServers
  BY <1>1, <1>9 DEF ChooseServers, Goto, Order
<1>10. CASE Exchange
  <2>1. PICK new \in asked' : asked' = asked \cup {new} /\ new.name = name
    BY <1>1, <1>10, ExchangeStep
  <2>2. pc = "exchange" /\ pc' \in {"exchange", ret} /\ UNCHANGED <<ret, name, search>>
    BY <1>1, <1>10, ExchangeStep
  <2>3. name \in Nat /\ (ret = "domainReturn" => name \in domains) /\ (ret # "domainReturn" => name = 0)
    BY <1>1, <2>2 DEF Control, TypeOK
  <2>4. pc' # "domain" /\ pc' # "searchReturn" /\ pc' # "search"
    BY <1>1, <2>2 DEF Control
  <2>5. ASSUME ret = "domainReturn", NEW i \in domains, i < name
        PROVE  /\ \E e \in asked' : e.name = i
               /\ \A e \in asked' : e.name = i => Empty(e.result)
    <3>1. /\ \E e \in asked : e.name = i
          /\ \A e \in asked : e.name = i => Empty(e.result)
      BY <1>1, <2>2, <2>5 DEF Order
    <3>2. new.name # i
      BY <1>1, <2>1, <2>3, <2>5, ConfigFields DEF domains, TypeOK
    <3> QED BY <2>1, <3>1, <3>2
  <2>6. ret = "domainReturn" => \A e \in asked' : e.name <= name
    BY <1>1, <2>1, <2>2, <2>3 DEF Order
  <2>7. \A e \in asked' : e.name > 0 => e.name \in domains
    BY <1>1, <2>1, <2>3 DEF Order
  <2>8. ret = "firstReturn" => \A e \in asked' : e.name = 0
    BY <1>1, <2>1, <2>2, <2>3 DEF Order
  <2>9. search # None => domains = {} \/ \E e \in asked' : e.name \in domains
    BY <1>1, <2>1 DEF Order
  <2> QED BY <2>1, <2>2, <2>3, <2>4, <2>5, <2>6, <2>7, <2>8, <2>9 DEF Order
<1> QED
  BY <1>2, <1>3, <1>4, <1>5, <1>6, <1>7, <1>8, <1>9, <1>10 DEF Next

\* Every step keeps Positive.
LEMMA PositiveStep == ASSUME IInv, Next PROVE Positive'
<1> USE SameInput DEF input, lookup, query, In, InSearch
<1>1. TypeOK /\ Control /\ Results /\ Positive
  BY DEF IInv
<1>2. CASE Refuse \/ Start \/ First
  <2>1. asked' = {}
    BY <1>1, <1>2 DEF Refuse, Start, First, Control
  <2> QED BY <2>1 DEF Positive
<1>3. CASE StartSearch \/ Last \/ Finish
  <2>1. pc \in {"search", "last", "finish"} /\ UNCHANGED asked
    BY <1>3 DEF StartSearch, Last, Finish
  <2>2. \A e \in asked : ~Success(e.result)
    BY <1>1, <2>1 DEF Positive
  <2> QED BY <2>1, <2>2 DEF Positive
<1>4. ASSUME NEW label \in {"firstReturn", "lastReturn"}, NEW next \in {"search", "finish"},
             AbsoluteReturn(label, next)
      PROVE  Positive'
  <2>1. pc = label /\ UNCHANGED asked /\ \A e \in asked : Success(e.result) => e.result = r
    BY <1>1, <1>4 DEF AbsoluteReturn, Positive
  <2>2. CASE Success(r) /\ Write(r, FALSE)
    BY <2>1, <2>2 DEF Positive, Write, Success
  <2>3. CASE ~Success(r)
    BY <2>1, <2>3 DEF Positive
  <2> QED BY <1>4, <2>2, <2>3 DEF AbsoluteReturn
<1>5. CASE NextDomain
  <2>1. /\ pc = "domain" /\ UNCHANGED <<asked, nodata>>
        /\ \A e \in asked : Success(e.result) => NoData(e.result) /\ nodata # None
    BY <1>1, <1>5 DEF NextDomain, Positive
  <2>2. pc' = "searchReturn" \/ (pc' = "query" /\ ret' = "domainReturn")
    BY <1>5 DEF NextDomain, forwardQuery, Goto
  <2> QED BY <2>1, <2>2 DEF Positive
<1>6. CASE DomainReturn
  <2>1. /\ pc = "domainReturn" /\ UNCHANGED <<asked, r>> /\ r # None
        /\ nodata' = IF NoData(r) THEN r ELSE nodata
        /\ \/ pc' = "searchReturn"
           \/ pc' = "domain" /\ r # Failed /\ (NoData(r) \/ r.rcode \in {"NXDOMAIN", "SERVFAIL"})
    BY <1>1, <1>6 DEF DomainReturn, Goto, Results
  <2>2. SUFFICES ASSUME NEW e \in asked, Success(e.result)
                 PROVE  \/ pc' = "searchReturn" /\ e.result = r
                        \/ NoData(e.result) /\ nodata' # None
    BY <2>1 DEF Positive
  <2>3. CASE e.result = r
    BY <2>1, <2>2, <2>3 DEF Success, NoData
  <2>4. CASE NoData(e.result) /\ nodata # None
    BY <2>1, <2>4
  <2> QED BY <1>1, <2>1, <2>2, <2>3, <2>4 DEF Positive
<1>7. CASE SearchReturn
  <2>1. pc = "searchReturn" /\ UNCHANGED asked
    BY <1>7 DEF SearchReturn
  <2>2. \A e \in asked : Success(e.result) =>
          e.result = r \/ (NoData(e.result) /\ nodata # None)
    BY <1>1, <2>1 DEF Positive
  <2>3. ASSUME NEW e \in asked, Success(e.result)
        PROVE  /\ Success(SearchResult)
               /\ e.result.answers => SearchResult.answers
    <3>1. r # None
      BY <1>1, <2>1, <2>2, <2>3 DEF Results, Success
    <3>2. SearchResult # Failed /\ SearchResult.rcode = "NOERROR"
      BY <2>1, <2>2, <2>3, <3>1, SearchResultOrigin DEF Success
    <3>3. e.result.answers => SearchResult.answers
      BY <2>1, <2>2, <2>3, <3>1, SearchResultOrigin DEF Success, NoData
    <3> QED BY <1>1, <3>2, <3>3, SearchResultType, ResultAssumption DEF Success
  <2>4. CASE Success(SearchResult) /\ Write(SearchResult, FALSE)
    BY <2>1, <2>3, <2>4 DEF Positive, Write, Success
  <2>5. CASE ~Success(SearchResult)
    BY <2>1, <2>3, <2>5 DEF Positive
  <2> QED BY <1>7, <2>4, <2>5 DEF SearchReturn
<1>8. CASE ChooseServers
  BY <1>1, <1>8 DEF ChooseServers, Goto, Positive
<1>9. CASE Exchange
  <2>1. PICK new \in asked' : asked' = asked \cup {new} /\ new.result = r'
    BY <1>1, <1>9, ExchangeStep
  <2>2. /\ pc = "exchange" /\ UNCHANGED <<nodata, ret>>
        /\ \/ TryAnother(r') /\ pc' = "exchange"
           \/ pc' = ret
    BY <1>1, <1>9, ExchangeStep
  <2>3. TryAnother(r') => ~Success(r')
    BY DEF TryAnother, Success, Negative
  <2>4. ret \in {"firstReturn", "domainReturn", "lastReturn"}
    BY <1>1, <2>2 DEF Control
  <2> QED BY <1>1, <2>1, <2>2, <2>3, <2>4 DEF Positive
<1>10. CASE SearchPanics
  BY <1>10 DEF SearchPanics, Goto, Positive
<1> QED
  BY <1>2, <1>3, <1>4, <1>5, <1>6, <1>7, <1>8, <1>9, <1>10 DEF Next, FirstReturn, LastReturn

\* The four places where a reply is written, and what is written there.
LEMMA Replies ==
  ASSUME IInv, Next, reply' # None
  PROVE  /\ UNCHANGED asked
         /\ \/ /\ asked = {} /\ Refuses
               /\ reply'.msg = SetRcode("REFUSED") /\ ~reply'.stale
            \/ /\ pc \in {"firstReturn", "lastReturn"} /\ Success(r)
               /\ reply'.msg = r /\ ~reply'.stale
            \/ /\ pc = "searchReturn" /\ Success(SearchResult)
               /\ reply'.msg = SearchResult /\ ~reply'.stale
            \/ /\ pc = "finish" /\ staleRes # None
               /\ reply'.msg = staleRes /\ reply'.stale
            \/ /\ pc = "finish" /\ staleRes = None /\ absolute' = absolute
               /\ reply'.msg = NegativeResult /\ ~reply'.stale
<1> USE DEF input, lookup, query
<1>1. TypeOK /\ Control /\ pc' = "done"
  BY ControlStep DEF IInv, Control
<1>2. CASE Refuse
  BY <1>1, <1>2 DEF Refuse, Write, Control
<1>3. CASE Start \/ First \/ StartSearch \/ NextDomain \/ DomainReturn \/ Last \/ ChooseServers
           \/ SearchPanics
  BY <1>1, <1>3 DEF Start, First, StartSearch, NextDomain, DomainReturn, Last, ChooseServers, SearchPanics,
                    Goto, forwardQuery
<1>4. CASE FirstReturn \/ LastReturn
  BY <1>1, <1>4 DEF FirstReturn, LastReturn, AbsoluteReturn, Write, Goto
<1>5. CASE SearchReturn
  BY <1>1, <1>5 DEF SearchReturn, Write, Goto
<1>6. CASE Finish
  <2>1. /\ pc = "finish" /\ UNCHANGED <<asked, absolute>>
        /\ reply' = [msg |-> IF staleRes # None THEN staleRes ELSE NegativeResult,
                     stale |-> staleRes # None]
    BY <1>6 DEF Finish, Write
  <2>2. CASE staleRes # None
    BY <2>1, <2>2
  <2>3. CASE staleRes = None
    BY <2>1, <2>3
  <2> QED BY <2>2, <2>3
<1>7. CASE Exchange
  BY <1>1, <1>7, ExchangeStep DEF Control
<1> QED
  BY <1>2, <1>3, <1>4, <1>5, <1>6, <1>7 DEF Next

\* Every step keeps AnswerLinked.
LEMMA LinkedStep == ASSUME IInv, Next PROVE AnswerLinked'
<1> DEFINE Literal0(msg) == Literally(msg) /\ \E e \in asked : e.name = 0 /\ e.result = msg
<1>1. TypeOK /\ Control /\ Results /\ Literal
  BY DEF IInv
<1>2. ASSUME NEW rc \in Rcode PROVE Linked(SetRcode(rc))
  BY SetRcodeType
<1>3. pc \in {"firstReturn", "lastReturn"} /\ Success(r) => Literal0(r)
  BY <1>1 DEF Control, Results, Literal, In, Success, Literally
<1>4. pc = "searchReturn" /\ Success(SearchResult) => Linked(SearchResult)
  BY SearchResultOrigin
<1>5. Linked(NegativeResult) \/ Literal0(NegativeResult)
  <2>1. search \notin {None, Failed} => search.rcode \in Rcode
    BY <1>1 DEF TypeOK, Result, Message
  <2>2. absolute \notin {None, Failed} => Literal0(absolute)
    BY <1>1 DEF Results, Literal
  <2> QED BY <1>2, <2>1, <2>2 DEF NegativeResult, Rcode
<1>6. Linked(SetRcode("REFUSED"))
  BY <1>2 DEF Rcode
<1>7. ASSUME reply' # None, ~reply'.stale
      PROVE  asked' = asked /\ (Linked(reply'.msg) \/ Literal0(reply'.msg))
  BY <1>3, <1>4, <1>5, <1>6, <1>7, Replies
<1>8. reply'.msg.owner = 0 => (reply'.msg.owner # 0 => reply'.msg.cname)
  OBVIOUS
<1> QED BY <1>7, <1>8 DEF AnswerLinked, Linked, Literally

\* Every step keeps LiteralDecides.
LEMMA LiteralDecidesStep == ASSUME IInv, Next PROVE LiteralDecides'
<1>1. TypeOK /\ Control /\ Results /\ Chain /\ Literal
  BY DEF IInv
<1>2. SUFFICES ASSUME reply' # None, ~reply'.stale, reply'.msg.rcode # "NOERROR",
                      NEW e \in asked', e.name = 0, e.result # Failed,
                      \A d \in asked' : d.name = 0 => d.server <= e.server
               PROVE  reply'.msg = e.result
  BY DEF LiteralDecides
<1>3. pc = "finish" /\ asked' = asked /\ reply'.msg = NegativeResult
  BY <1>2, Replies DEF Success
<1>4. absolute # None
  BY <1>1, <1>2, <1>3 DEF Literal, In
<1>5. PICK d \in asked : /\ d.name = 0 /\ d.result = absolute
                         /\ \A x \in asked : x.name = 0 => x.server <= d.server
  BY <1>1, <1>4 DEF Literal
<1>6. d.server = e.server
  <2>1. d.server \in Nat /\ e.server \in Nat
    BY <1>1, <1>2, <1>3, <1>5 DEF TypeOK
  <2> QED BY <1>2, <1>3, <1>5, <2>1
<1>7. d = e
  BY <1>1, <1>2, <1>3, <1>5, <1>6 DEF Chain
<1> QED BY <1>2, <1>3, <1>4, <1>5, <1>7 DEF NegativeResult

\* Every step keeps RcodeEvidenced.
LEMMA EvidencedStep == ASSUME IInv, Next PROVE RcodeEvidenced'
<1> DEFINE Evidence(rc) == \E e \in asked : e.result # Failed /\ e.result.rcode = rc
<1>1. TypeOK /\ Control /\ Results
  BY DEF IInv
<1>2. SUFFICES ASSUME reply' # None, ~reply'.stale, ~Refuses
               PROVE  \/ Evidence(reply'.msg.rcode)
                      \/ reply'.msg.rcode = "SERVFAIL" /\ \E e \in asked : e.result = Failed
                      \/ /\ reply'.msg.rcode = "NXDOMAIN"
                         /\ searchEnabled /\ q.hasSuffix = 1..config.SearchDomains
                         /\ absolute' \in {None, Failed}
  <2>1. reply' # None => asked' = asked
    BY Replies
  <2>2. UNCHANGED <<config, q>> /\ searchEnabled' = searchEnabled /\ Refuses' = Refuses
    BY SameInput
  <2> QED BY <2>1, <2>2 DEF RcodeEvidenced
<1>3. CASE pc \in {"firstReturn", "lastReturn"} /\ Success(r) /\ reply'.msg = r
  BY <1>1, <1>3 DEF Results, Success
<1>4. CASE pc = "searchReturn" /\ Success(SearchResult) /\ reply'.msg = SearchResult
  <2>1. \/ r \notin {None, Failed} /\ reply'.msg.rcode = r.rcode
        \/ nodata # None /\ reply'.msg.rcode = nodata.rcode
    BY <1>4, SearchResultOrigin DEF Success
  <2>2. nodata # None => nodata # Failed
    BY <1>1, ResultAssumption DEF TypeOK
  <2> QED BY <1>1, <2>1, <2>2 DEF Results
<1>5. CASE pc = "finish" /\ reply'.msg = NegativeResult /\ absolute' = absolute
  <2>1. CASE absolute \notin {None, Failed}
    BY <1>1, <1>5, <2>1 DEF NegativeResult, Results
  <2>2. CASE absolute \in {None, Failed} /\ search \notin {None, Failed}
    <3>1. search.rcode \in Rcode
      BY <1>1, <2>2 DEF TypeOK, Result, Message
    <3>2. reply'.msg.rcode = search.rcode
      BY <1>5, <2>2, <3>1, SetRcodeType DEF NegativeResult
    <3>3. domains = {} => q.hasSuffix = 1..config.SearchDomains
      BY <1>1, ConfigFields DEF domains, TypeOK
    <3> QED BY <1>1, <1>5, <2>2, <3>2, <3>3 DEF Results
  <2>3. CASE absolute \in {None, Failed} /\ search \in {None, Failed}
    <3>1. reply'.msg.rcode = "SERVFAIL"
      BY <1>5, <2>3, SetRcodeType DEF NegativeResult, Rcode
    <3>2. absolute = Failed \/ search = Failed
      <4>1. ~Refuses
        BY <1>1, <1>5 DEF Control
      <4>2. config.EnableSearch => searchEnabled
        BY <1>1, ConfigFields DEF searchEnabled, TypeOK
      <4>3. absolute = None => search = Failed \/ ~LongEnough
        BY <1>1, <1>5 DEF Control
      <4>4. search = None => absolute = Failed \/ ~searchEnabled
        BY <1>1, <1>5 DEF Control
      <4> QED BY <2>3, <4>1, <4>2, <4>3, <4>4 DEF Refuses
    <3> QED BY <1>1, <3>1, <3>2, ResultAssumption DEF Results
  <2> QED BY <2>1, <2>2, <2>3
<1> QED BY <1>2, <1>3, <1>4, <1>5, Replies

\* Every step keeps ResolveOrder.
LEMMA ResolveOrderStep == ASSUME IInv, Next PROVE ResolveOrder'
<1> USE SameInput
<1>1. TypeOK /\ Control /\ Results /\ Literal /\ Order /\ ResolveOrder
  BY DEF IInv
<1>2. CASE UNCHANGED asked
  BY <1>1, <1>2 DEF ResolveOrder, LongEnough
<1>3. CASE Exchange
  <2>1. PICK new \in asked' : asked' = asked \cup {new} /\ new.name = name
    BY <1>1, <1>3, ExchangeStep
  <2>2. /\ pc = "exchange" /\ ret \in {"firstReturn", "domainReturn", "lastReturn"}
        /\ name \in Nat /\ domains \subseteq Nat /\ \A e \in asked : e.name \in Nat
    BY <1>1, <1>3, ExchangeStep, ConfigFields DEF Control, TypeOK, domains
  <2>3. ASSUME NEW e \in asked', e.name > 0
        PROVE  /\ e.name \in domains
               /\ literalFirst => \E d \in asked' : d.name = 0
               /\ \A i \in domains : i < e.name =>
                    /\ \E d \in asked' : d.name = i
                    /\ \A d \in asked' : d.name = i => (Success(d.result) => NoData(d.result))
    <3>1. CASE ret = "domainReturn"
      <4>1. name \in domains /\ name > 0
        BY <1>1, <2>2, <3>1, ConfigFields DEF Control, In, domains, TypeOK
      <4>2. literalFirst => \E d \in asked : d.name = 0
        BY <1>1, <2>2, <3>1 DEF Control, Literal, In, InSearch
      <4>3. ASSUME NEW i \in domains, i < name
            PROVE  /\ \E d \in asked' : d.name = i
                   /\ \A d \in asked' : d.name = i => Empty(d.result)
        <5>1. /\ \E d \in asked : d.name = i
              /\ \A d \in asked : d.name = i => Empty(d.result)
          BY <1>1, <2>2, <3>1, <4>3 DEF Order, InSearch, In
        <5> QED BY <2>1, <2>2, <4>3, <5>1
      <4>4. e.name \in domains /\ e.name <= name
        BY <1>1, <2>1, <2>2, <2>3, <3>1, <4>1 DEF Order, InSearch, In
      <4> QED BY <2>1, <2>2, <4>1, <4>2, <4>3, <4>4 DEF Empty
    <3>2. CASE ret # "domainReturn"
      <4>1. name = 0
        BY <1>1, <2>2, <3>2 DEF Control, In
      <4>2. e \in asked /\ \A d \in asked' : d.name > 0 => d \in asked
        BY <2>1, <2>3, <4>1
      <4>3. /\ e.name \in domains
            /\ literalFirst => \E d \in asked : d.name = 0
            /\ \A i \in domains : i < e.name =>
                 /\ \E d \in asked : d.name = i
                 /\ \A d \in asked : d.name = i => (Success(d.result) => NoData(d.result))
        BY <1>1, <2>3, <4>2 DEF ResolveOrder, domains, literalFirst
      <4>4. \A i \in domains : i > 0
        BY <1>1, ConfigFields DEF domains, TypeOK
      <4> QED BY <2>1, <4>2, <4>3, <4>4
    <3> QED BY <3>1, <3>2
  <2>4. ASSUME NEW e \in asked', e.name = 0
        PROVE  /\ LongEnough
               /\ ~literalFirst /\ searchEnabled /\ domains # {} =>
                    \E i \in domains : \E d \in asked' : d.name = i
    <3>1. CASE e \in asked
      <4>1. /\ LongEnough
            /\ ~literalFirst /\ searchEnabled /\ domains # {} =>
                 \E i \in domains : \E d \in asked : d.name = i
        BY <1>1, <2>4, <3>1 DEF ResolveOrder, domains, literalFirst
      <4> QED BY <2>1, <4>1
    <3>2. CASE e = new
      <4>1. name = 0 /\ ret \in {"firstReturn", "lastReturn"}
        BY <1>1, <2>1, <2>2, <2>4, <3>2, ConfigFields DEF Control, In, domains, TypeOK
      <4>2. CASE ret = "firstReturn"
        BY <1>1, <2>2, <4>2 DEF Control, In, literalFirst
      <4>3. CASE ret = "lastReturn"
        <5>1. LongEnough /\ absolute = None /\ (search = None => absolute = Failed \/ ~searchEnabled)
          BY <1>1, <2>2, <4>3 DEF Control, In
        <5>2. search # None => domains = {} \/ \E d \in asked : d.name \in domains
          BY <1>1 DEF Order
        <5> QED BY <2>1, <5>1, <5>2, ResultAssumption
      <4> QED BY <4>1, <4>2, <4>3
    <3> QED BY <2>1, <3>1, <3>2
  <2>5. LongEnough' = LongEnough
    OBVIOUS
  <2> QED BY <2>3, <2>4, <2>5 DEF ResolveOrder, domains, literalFirst
<1> QED
  BY <1>2, <1>3 DEF Next, Refuse, Start, First, FirstReturn, LastReturn, AbsoluteReturn, StartSearch,
     NextDomain, DomainReturn, SearchReturn, SearchPanics, Last, Finish, ChooseServers

-----------------------------------------------------------------------------
(* The invariant *)

\* The invariant holds before the request is looked at.
LEMMA InitInvariant == Init => IInv
<1> SUFFICES ASSUME Init PROVE IInv
  OBVIOUS
<1> USE DEF In, InSearch
<1>1. staleRes \in Message \cup {None}
  BY SetRcodeType DEF Init, Rcode
<1>2. config.SearchDomains \in Nat
  BY ConfigFields DEF Init
<1>3. TypeOK
  BY <1>1, <1>2 DEF Init, TypeOK, Label, Result
<1>4. Control
  BY DEF Init, Control
<1>5. Results
  BY <1>1, ResultAssumption DEF Init, Results
<1>6. Chain /\ Literal /\ Order /\ Positive
  BY DEF Init, Chain, Literal, Order, Positive
<1>7. LiteralDecides /\ RcodeEvidenced /\ AnswerLinked /\ ResolveOrder
  BY DEF Init, LiteralDecides, RcodeEvidenced, AnswerLinked, ResolveOrder
<1> QED BY <1>3, <1>4, <1>5, <1>6, <1>7 DEF IInv

\* Every step keeps the invariant.
LEMMA NextInvariant == IInv /\ [Next]_vars => IInv'
<1>1. CASE IInv /\ Next
  <2>1. TypeOK' /\ Control' /\ Results' /\ Chain'
    BY <1>1, TypeStep, ControlStep, ResultsStep, ChainStep DEF IInv
  <2>2. Literal' /\ Order' /\ Positive'
    BY <1>1, LiteralStep, OrderStep, PositiveStep
  <2>3. LiteralDecides' /\ RcodeEvidenced' /\ AnswerLinked' /\ ResolveOrder'
    BY <1>1, LiteralDecidesStep, EvidencedStep, LinkedStep, ResolveOrderStep
  <2> QED BY <2>1, <2>2, <2>3 DEF IInv
<1>2. CASE IInv /\ UNCHANGED vars
  <2>1. /\ UNCHANGED <<config, q, staleRes, pc, absolute, search, name, ret, zone, nsIdx>>
        /\ UNCHANGED <<r, nodata, reply, asked>>
    BY <1>2 DEF vars, input, lookup, query
  <2>2. /\ domains' = domains /\ literalFirst' = literalFirst /\ Refuses' = Refuses
        /\ searchEnabled' = searchEnabled /\ LongEnough' = LongEnough
    BY <2>1 DEF domains, literalFirst, Refuses, searchEnabled, LongEnough
  <2>3. TypeOK' /\ Control'
    BY <1>2, <2>1, <2>2 DEF IInv, TypeOK, Control, In, InSearch
  <2>4. Results' /\ Literal' /\ Order' /\ Positive'
    BY <1>2, <2>1, <2>2 DEF IInv, Results, Literal, Order, Positive, In, InSearch
  <2>5. Chain'
    BY <1>2, <2>1 DEF IInv, Chain, PassedOver, TryAnother, servers
  <2>6. LiteralDecides' /\ RcodeEvidenced' /\ AnswerLinked' /\ ResolveOrder'
    BY <1>2, <2>1, <2>2 DEF IInv, LiteralDecides, RcodeEvidenced, AnswerLinked, ResolveOrder
  <2> QED BY <2>3, <2>4, <2>5, <2>6 DEF IInv
<1> QED BY <1>1, <1>2

\* The inductive invariant of the forwarding of one query holds throughout.
THEOREM ForwardInvariant == Spec => []IInv
BY InitInvariant, NextInvariant, PTL DEF Spec

-----------------------------------------------------------------------------
(* The promise *)

\* Exchanges are not forgotten.
LEMMA AskedGrows == ASSUME IInv, Next PROVE asked \subseteq asked'
<1>1. CASE Exchange
  BY <1>1, ExchangeStep DEF IInv
<1> QED
  BY <1>1 DEF Next, Refuse, Start, First, FirstReturn, LastReturn, AbsoluteReturn, StartSearch,
     NextDomain, DomainReturn, SearchReturn, SearchPanics, Last, Finish, ChooseServers

\* A reply is one that Resolve allows.
LEMMA OutcomePromised ==
  ASSUME IInv, IInv', Next, reply' # None
  PROVE  [rcode |-> reply'.msg.rcode, stale |-> reply'.stale] \in
           Promise!Outcomes(staleRes # None, \E e \in asked : Success(e.result))
<1> DEFINE positive == \E e \in asked : Success(e.result)
           rcode == reply'.msg.rcode
           stale == reply'.stale
<1> USE DEF Promise!Rcode
<1>1. rcode \in Rcode /\ stale \in BOOLEAN /\ asked' = asked /\ pc' = "done"
  BY Replies DEF IInv, TypeOK, Message, Control
<1>2. positive => rcode = "NOERROR" /\ ~stale
  BY <1>1 DEF IInv, Positive, In, InSearch
<1>3. CASE asked = {} /\ rcode = "REFUSED" /\ ~stale
  BY <1>1, <1>3 DEF Promise!Outcomes, Rcode
<1>4. CASE rcode = "NOERROR" /\ ~stale /\ positive
  BY <1>1, <1>4 DEF Promise!Outcomes, Rcode
<1>5. CASE stale /\ staleRes # None
  BY <1>1, <1>2, <1>5 DEF Promise!Outcomes, Rcode
<1>6. CASE ~stale /\ staleRes = None /\ (rcode = "NOERROR" => positive)
  BY <1>1, <1>2, <1>6 DEF Promise!Outcomes, Rcode
<1>7. pc \in {"firstReturn", "lastReturn"} /\ Success(r) => r.rcode = "NOERROR" /\ positive
  BY DEF IInv, Results, Success
<1>8. pc = "searchReturn" /\ Success(SearchResult) => SearchResult.rcode = "NOERROR" /\ positive
  <2>1. SUFFICES ASSUME pc = "searchReturn", Success(SearchResult)
                 PROVE  SearchResult.rcode = "NOERROR" /\ positive
    OBVIOUS
  <2>2. Success(r) \/ nodata # None
    BY <2>1, SearchResultOrigin DEF Success
  <2>3. Success(r) => \E e \in asked : e.result = r
    BY DEF IInv, Results, Success
  <2>4. nodata # None => \E e \in asked : Success(e.result)
    BY DEF IInv, Results, NoData
  <2> QED BY <2>1, <2>2, <2>3, <2>4 DEF Success
<1>9. pc = "finish" /\ NegativeResult.rcode = "NOERROR" => positive
  <2>1. absolute \notin {None, Failed} => \E e \in asked : e.result = absolute
    BY DEF IInv, Results
  <2>2. search \notin {None, Failed} /\ search.rcode = "NOERROR" =>
          \E e \in asked : e.result # Failed /\ e.result.rcode = "NOERROR"
    BY DEF IInv, Results
  <2>3. \A e \in asked : e.result # Failed /\ e.result.rcode = "NOERROR" => Success(e.result)
    BY ResultAssumption DEF IInv, TypeOK, Success
  <2>4. /\ SetRcode("SERVFAIL").rcode = "SERVFAIL"
        /\ search \notin {None, Failed} => SetRcode(search.rcode).rcode = search.rcode
    BY DEF SetRcode, Msg
  <2>5. CASE absolute \notin {None, Failed}
    BY <2>1, <2>3, <2>5 DEF NegativeResult
  <2>6. CASE absolute \in {None, Failed} /\ search \notin {None, Failed}
    BY <2>2, <2>3, <2>4, <2>6 DEF NegativeResult
  <2>7. CASE absolute \in {None, Failed} /\ search \in {None, Failed}
    BY <2>4, <2>7 DEF NegativeResult
  <2> QED BY <2>5, <2>6, <2>7
<1>10. SetRcode("REFUSED").rcode = "REFUSED"
  BY DEF SetRcode, Msg
<1>11. \/ asked = {} /\ rcode = "REFUSED" /\ ~stale
       \/ rcode = "NOERROR" /\ ~stale /\ positive
       \/ stale /\ staleRes # None
       \/ ~stale /\ staleRes = None /\ (rcode = "NOERROR" => positive)
  <2> HIDE DEF positive
  <2> QED BY <1>7, <1>8, <1>9, <1>10, Replies
<1> QED BY <1>3, <1>4, <1>5, <1>6, <1>11

-----------------------------------------------------------------------------
(* The theorems *)

\* forwarding.go:19-304.  The variables of ServeDNSForward, forwardSearch and
\* forwardQuery keep their types; among others, no server number is ever 0 and
\* nothing but a message is written to the client.
THEOREM ForwardTypeCorrect == Spec => []TypeOK
<1>1. IInv => TypeOK
  BY DEF IInv
<1> QED BY <1>1, ForwardInvariant, PTL

\* forwarding.go:205-209, 240-252.  A NOERROR answer of any upstream reaches the
\* client as NOERROR, and with answers if there were any, whatever came before
\* and after it.
THEOREM PositiveAnswersWin == Spec => []PositiveWins
<1>1. IInv => PositiveWins
  BY DEF IInv, Control, Positive, InSearch, In, PositiveWins
<1> QED BY <1>1, ForwardInvariant, PTL

\* forwarding.go:124-126.  A negative reply is what the last server asked about
\* the literal name answered.
THEOREM LiteralResultDecides == Spec => []LiteralDecides
<1>1. IInv => LiteralDecides
  BY DEF IInv
<1> QED BY <1>1, ForwardInvariant, PTL

\* forwarding.go:143-164.  No response code is made up, but for the NXDOMAIN of
\* a search without domains and the SERVFAIL of a failed exchange.
THEOREM RcodesEvidenced == Spec => []RcodeEvidenced
<1>1. IInv => RcodeEvidenced
  BY DEF IInv
<1> QED BY <1>1, ForwardInvariant, PTL

\* forwarding.go:229-251.  Every reply has the client's question, with a CNAME
\* in front of answers that were found for a qualified name.
THEOREM AnswersLinked == Spec => []AnswerLinked
<1>1. IInv => AnswerLinked
  BY DEF IInv
<1> QED BY <1>1, ForwardInvariant, PTL

\* forwarding.go:55-82, 186-219.  The literal name and the search domains are
\* asked for in the documented order.
THEOREM NamesInOrder == Spec => []ResolveOrder
<1>1. IInv => ResolveOrder
  BY DEF IInv
<1> QED BY <1>1, ForwardInvariant, PTL

\* forwarding.go:257-304.  The servers are asked in order, each one only after
\* the results of all those before it were passed over, and all of them get
\* their chance before the client gets a reply.
THEOREM ServersInOrder == Spec => []FallbackOrder
<1>1. ASSUME IInv PROVE FallbackOrder
  <2>1. Chain /\ (reply # None => pc # "exchange")
    BY <1>1 DEF IInv, Control
  <2>2. \A e \in asked : \A n \in 1..(e.server - 1) :
          \E d \in {d \in asked : d.name = e.name /\ d.zone = e.zone /\ d.server = n} :
            d.result = Failed \/ (config.RCacheNonNegative /\ Negative(d.result))
    BY <2>1 DEF Chain, PassedOver, TryAnother
  <2>3. \A e \in asked :
          /\ reply # None
          /\ e.result = Failed \/ (config.RCacheNonNegative /\ Negative(e.result))
          /\ e.server < servers(e.zone)
          => {d \in asked : d.name = e.name /\ d.zone = e.zone /\ d.server = e.server + 1} # {}
    BY <2>1 DEF Chain, TryAnother
  <2> QED BY <2>2, <2>3 DEF FallbackOrder, servers
<1> QED BY <1>1, ForwardInvariant, PTL

\* forwarding.go:73, 99-118.  No server is asked twice about a name, although
\* the absolute lookup can be reached before and after the search.
THEOREM NobodyAskedTwice == Spec => AskedOnce
<1> DEFINE Fresh == asked' # asked \/ (pc = "exchange" /\ pc' # pc) =>
                      ~\E e \in asked : e.name = name /\ e.zone = zone /\ e.server = nsIdx
<1>1. ASSUME IInv, [Next]_vars PROVE [Fresh]_vars
  <2>1. TypeOK /\ Chain
    BY <1>1 DEF IInv
  <2>2. pc = "exchange" => Fresh
    <3>1. pc = "exchange" => \A e \in asked : e.name = name =>
                               e.server < nsIdx /\ e.server \in Nat /\ nsIdx \in Nat
      BY <2>1 DEF Chain, TypeOK
    <3> QED BY <3>1
  <2>3. CASE Next /\ pc # "exchange"
    <3>1. asked' = asked
      BY <2>3 DEF Next, Refuse, Start, First, FirstReturn, LastReturn, AbsoluteReturn, StartSearch,
         NextDomain, DomainReturn, SearchReturn, SearchPanics, Last, Finish, ChooseServers, Exchange
    <3> QED BY <2>3, <3>1
  <2> QED BY <1>1, <2>2, <2>3
<1> QED BY <1>1, ForwardInvariant, PTL DEF Spec, AskedOnce

\* forwarding.go:16-18.  ServeDNSForward keeps, as far as safety goes, the
\* promise that the request handler relies on: it writes one message, once, and
\* which one depends as Resolve says on the stale message and on whether an
\* upstream answered NOERROR.
THEOREM PromiseKept == Spec => Promise!Init /\ [][Promise!Next]_(Promise!vars)
<1> DEFINE positive == \E e \in asked : Success(e.result)
           answer == IF pc = "panic" THEN Failed
                     ELSE IF reply = None THEN None
                     ELSE [rcode |-> reply.msg.rcode, stale |-> reply.stale]
<1>1. Init => Promise!Init
  BY DEF Init, Promise!Init
<1>2. ASSUME IInv, IInv', [Next]_vars PROVE [Promise!Next]_(Promise!vars)
  <2>1. CASE UNCHANGED vars
    <3>1. UNCHANGED <<staleRes, asked, pc, reply>>
      BY <2>1 DEF vars, input
    <3> QED BY <3>1 DEF Promise!vars
  <2>2. Next => pc \notin {"done", "panic"}
    BY DEF Next, Refuse, Start, First, FirstReturn, LastReturn, AbsoluteReturn, StartSearch,
           NextDomain, DomainReturn, SearchReturn, SearchPanics, Last, Finish, ChooseServers, Exchange
  <2>3. Next => reply = None /\ answer = None /\ staleRes' = staleRes
    BY <1>2, <2>2, SameInput DEF IInv, Control
  <2>4. CASE Next /\ pc' = "panic"
    <3>1. UNCHANGED asked
      BY <2>4, ExchangeStep, <1>2 DEF IInv, Control, Next, Refuse, Start, First, FirstReturn,
         LastReturn, AbsoluteReturn, StartSearch, NextDomain, DomainReturn, SearchReturn,
         SearchPanics, Last, Finish, ChooseServers
    <3> QED BY <2>3, <2>4, <3>1 DEF Promise!Next, Promise!Panic
  <2>5. CASE Next /\ pc' # "panic" /\ reply' = None
    <3>1. positive => positive'
      BY <1>2, <2>5, AskedGrows
    <3> QED BY <2>3, <2>5, <3>1 DEF Promise!Next, Promise!Learn, Promise!vars
  <2>6. CASE Next /\ reply' # None
    <3>1. asked' = asked /\ pc' # "panic"
      BY <1>2, <2>6, Replies DEF IInv, Control
    <3>2. [rcode |-> reply'.msg.rcode, stale |-> reply'.stale]
            \in Promise!Outcomes(staleRes # None, positive)
      BY <1>2, <2>6, OutcomePromised
    <3> QED BY <2>3, <2>6, <3>1, <3>2 DEF Promise!Next, Promise!Answer
  <2> QED BY <1>2, <2>1, <2>4, <2>5, <2>6
<1> QED BY <1>1, <1>2, ForwardInvariant, PTL DEF Spec

=============================================================================
