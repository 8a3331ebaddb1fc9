------------------------------ MODULE MCCache ------------------------------
(***************************************************************************)
(* Small instances of Cache for TLC.                                       *)
(***************************************************************************)
EXTENDS Cache, TLC

CONSTANTS short, long, none   \* the messages of the instances

\* A message with one short-lived record, one whose shortest record lives
\* long, and one without answers.
MCAnswerTtls ==
  [msg \in Msg |-> CASE msg = short -> {1, 4} [] msg = long -> {4} [] OTHER -> {}]

Symmetric == Permutations(Key) \cup Permutations(Client)
=============================================================================
