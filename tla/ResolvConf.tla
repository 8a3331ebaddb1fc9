---------------------------- MODULE ResolvConf -----------------------------
(***************************************************************************)
(* The contents of /etc/resolv.conf and what go-dnsmasq makes of them      *)
(* (updateResolvConf of src/resolvconf/resolvconf.go, ResolvConf of        *)
(* src/server/config.go).                                                  *)
(*                                                                         *)
(* The file is a sequence of tokens, the unit in which it is overwritten   *)
(* and cut off: "nameserver", an address, "added" (RESOLVCONF_COMMENT_ADD),*)
(* "disabled" (RESOLVCONF_COMMENT_OUT), "newline", or any other word.      *)
(***************************************************************************)
EXTENDS Naturals, Sequences, FiniteSets, SequencesExt

CONSTANT Word  \* addresses and whatever else others write

Token == Word \cup {"nameserver", "added", "disabled", "newline"}
Text == Seq(Token)

\* strings.SplitAfter(f, "\n"), without the empty string at the end.
Lines[f \in Text] ==
  IF f = <<>> THEN <<>>
  ELSE LET end == CHOOSE i \in DOMAIN f :
             /\ f[i] = "newline" \/ i = Len(f)
             /\ \A k \in 1..(i - 1) : f[k] # "newline"
       IN  <<SubSeq(f, 1, end)>> \o Lines[SubSeq(f, end + 1, Len(f))]

Joined[lines \in Seq(Text)] ==
  IF lines = <<>> THEN <<>> ELSE Head(lines) \o Joined[Tail(lines)]

\* resolvConfPattern: the lines that end with the mark of an addition go.
Added(line) == \E i \in DOMAIN line :
  line[i] = "added" /\ (i = Len(line) \/ line[i + 1] = "newline")
Kept[lines \in Seq(Text)] ==
  IF lines = <<>> THEN <<>>
  ELSE (IF Added(Head(lines)) THEN <<>> ELSE Head(lines)) \o Kept[Tail(lines)]
StripAdded(f) == Kept[Lines[f]]

\* "comment out active nameservers only", "uncomment lines we commented"
CommentOut(line) == IF line[1] = "nameserver" THEN <<"disabled">> \o line ELSE line
Uncomment[line \in Text] ==
  IF line = <<>> THEN <<>>
  ELSE (IF Head(line) = "disabled" THEN <<>> ELSE <<Head(line)>>) \o Uncomment[Tail(line)]

\* What updateResolvConf(insert, path) writes for the contents f, one write
\* after the other.
Writes(insert, f) ==
  LET lines == Lines[StripAdded(f)]
  IN  <<insert>> \o [i \in DOMAIN lines |->
                       IF insert = <<>> THEN Uncomment[lines[i]] ELSE CommentOut(lines[i])]

\* A write at an offset leaves what comes after it in place.
WriteAt(f, pos, text) ==
  SubSeq(f, 1, pos) \o text \o SubSeq(f, pos + Len(text) + 1, Len(f))

\* The contents after Clean, if nothing interferes.
Cleaned(f) == Joined[Writes(<<>>, f)]

\* The insertion of StoreAddress.
Entry(address) == <<"nameserver", address, "added", "newline">>

\* dns.ClientConfigFromFile(...).Servers
Server(line) ==
  IF Len(line) > 1 /\ line[1] = "nameserver" /\ line[2] # "newline" THEN <<line[2]>> ELSE <<>>
ServersIn[lines \in Seq(Text)] ==
  IF lines = <<>> THEN <<>> ELSE Server(Head(lines)) \o ServersIn[Tail(lines)]
Servers(f) == ServersIn[Lines[f]]
=============================================================================
