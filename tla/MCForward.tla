----------------------------- MODULE MCForward -----------------------------
(***************************************************************************)
(* Small instances of Forward for TLC: the bounds are in the .cfg files.   *)
(***************************************************************************)
EXTENDS Forward

\* Two shapes of configuration within the bounds: many servers, search domains
\* and dots without stub zones, or overlapping stub zones with one nameserver
\* and one search domain.
Searching ==
  /\ \A n \in DOMAIN q.zones : q.zones[n] = {}
  /\ \A z \in Zone : config.Stub[z] = 1
Stubbed ==
  /\ config.Nameservers <= 1 /\ config.SearchDomains <= 1
  /\ config.Ndots = 1 /\ config.FwdNdots = 0 /\ q.nameDots \in 0..1 /\ q.hasSuffix = {}
  /\ \E n \in DOMAIN q.zones : q.zones[n] # {}

MCInit == Init /\ (Searching \/ Stubbed)

\* Odd replies are given to some of the queries only: two nameservers or two
\* search domains that are all tried, one setting of the dots, and nothing that
\* is refused at once.
MayBeOdd ==
  /\ Searching
  /\ config.Nameservers + config.SearchDomains <= 3 /\ q.hasSuffix = {}
  /\ config.Ndots = 1 /\ config.FwdNdots <= 1 /\ q.nameDots <= 1
  /\ ~Refuses

MCNext == Next /\ (MayBeOdd \/ \A e \in asked' : ~Odd(e.result))
MCSpec == MCInit /\ [][MCNext]_vars /\ WF_vars(MCNext)
=============================================================================
