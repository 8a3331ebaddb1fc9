------------------------------ MODULE MCServer ------------------------------
(***************************************************************************)
(* Small instances of Server for TLC.                                      *)
(***************************************************************************)
EXTENDS Server

Rq(name, type, class, dnssec, tcp, bufsize) ==
  [name |-> name, type |-> type, class |-> class, dnssec |-> dnssec,
   tcp |-> tcp, bufsize |-> bufsize]

MCReverse4 == {"ptr"}
MCReverse6 == {"ip6"}
MCChaosNames == {"version"}
MCSize == [n \in {"www", "host", "many", "ptr", "ip6", "version"} |->
             CASE n = "many" -> 3 [] n = "host" -> 2 [] OTHER -> 1]
MCHosts == {<<"host", "A">>, <<"many", "A">>, <<"ip6", "PTR">>}

\* Requests for every branch of Route and of the deferred function; answers
\* are cached for requests with UDP.
PathRequest ==
  {Rq("www", "A", "IN", FALSE, FALSE, 1), Rq("www", "A", "IN", TRUE, FALSE, 2),
   Rq("many", "A", "IN", FALSE, TRUE, 2), Rq("ptr", "PTR", "IN", FALSE, FALSE, 1),
   Rq("ip6", "PTR", "IN", FALSE, FALSE, 1), Rq("version", "TXT", "CH", FALSE, FALSE, 1),
   Rq("host", "TXT", "CH", FALSE, FALSE, 1)}

\* The same question with two buffer sizes.
SizeRequest ==
  {Rq("host", "A", "IN", FALSE, FALSE, 1), Rq("host", "A", "IN", FALSE, FALSE, 2)}

\* One reverse lookup that the hosts file does not answer.
ReverseRequest == {Rq("ptr", "PTR", "IN", FALSE, FALSE, 1)}

\* One question that is forwarded.
ForwardedRequest == {Rq("www", "A", "IN", FALSE, FALSE, 1)}
=============================================================================
