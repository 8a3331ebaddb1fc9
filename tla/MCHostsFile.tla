---------------------------- MODULE MCHostsFile ----------------------------
(***************************************************************************)
(* A small instance of HostsFile for TLC.                                  *)
(***************************************************************************)
EXTENDS HostsFile

Entry(ip, words) == [ip |-> ip, words |-> words]
Named(name) == [wildcard |-> FALSE, name |-> name]
Wildcard(name) == [wildcard |-> TRUE, name |-> name]

MCLabel == {"www", "WWW", "db", "DB", "x"}
MCLower == [l \in MCLabel |->
              CASE l = "WWW" -> "www" [] l = "DB" -> "db" [] OTHER -> l]

\* The example of README.md:104-110; the same name with addresses of both
\* families, in both cases and twice, below a wildcard; a skipped address; a
\* name of one letter.
MCContent ==
  {<<Entry("10.0.0.1", <<Named(<<"www", "db">>)>>), Entry("10.0.0.2", <<Wildcard(<<"db">>)>>)>>,
   <<Entry("10.0.0.2", <<Wildcard(<<"DB">>), Named(<<"WWW", "DB">>)>>),
     Entry("10.0.0.2", <<Named(<<"www", "db">>)>>),
     Entry("2001::1", <<Named(<<"www", "db">>), Wildcard(<<"db">>)>>)>>,
   <<Entry("fe80::1", <<Named(<<"db">>)>>), Entry("2001::1", <<Named(<<"db">>)>>)>>,
   <<Entry("10.0.0.1", <<Named(<<"x">>)>>)>>}

MCName == {<<"www", "db">>, <<"x", "db">>, <<"db">>, <<"x", "www", "db">>}
=============================================================================
