---------------------------- MODULE MCLifecycle ----------------------------
(***************************************************************************)
(* A small instance of Lifecycle for TLC.                                  *)
(***************************************************************************)
EXTENDS Lifecycle

MCUserFile ==
  {<<"nameserver", "a", "newline", "search", "newline", "nameserver", "b", "newline">>,
   <<"newline", "nameserver", "b">>}

Flag(nameservers, defaultResolver, noRec, systemd, bad) ==
  [nameservers |-> nameservers, defaultResolver |-> defaultResolver,
   noRec |-> noRec, systemd |-> systemd, bad |-> bad]

MCFlags ==
  {Flag(<<>>, TRUE, FALSE, FALSE, "nothing"), Flag(<<>>, FALSE, FALSE, TRUE, "nothing"),
   Flag(<<"c">>, TRUE, TRUE, TRUE, "nothing"), Flag(<<>>, TRUE, FALSE, FALSE, "flags"),
   Flag(<<>>, TRUE, FALSE, FALSE, "config")}
=============================================================================
