----------------------------- MODULE HostsFile -----------------------------
(***************************************************************************)
(* The hosts file (src/hostsfile/hostsfile.go, utils.go): loading it,      *)
(* polling it for changes, and the lookups that the request handlers make  *)
(* (AddressRecords and PTRRecords of src/server/server.go).                *)
(*                                                                         *)
(* A name is a sequence of labels, a word of the file a name that may have *)
(* the prefix "*.", a line an address with words, the file a sequence of   *)
(* lines.  Comments, blank lines and white space are left out: such lines  *)
(* have no usable address.  The file belongs to somebody else, who may     *)
(* replace it, rewrite it in place or remove it at any time.               *)
(***************************************************************************)
EXTENDS Integers, Sequences, SequencesExt

CONSTANTS
  Label,          \* the labels of names
  Content,        \* the contents that the file may have: sequences of lines
  IPv4, IPv6,     \* the addresses that are loaded; other ones are skipped
  Lower,          \* Lower[l]: the label l in lower case
  OneLetter,      \* the labels of one letter
  Name,           \* the names that handlers look up, in lower case
  MaxEdits,       \* bound: changes of the file
  ReadErrors      \* whether reading a file that exists may fail

Word == [wildcard : BOOLEAN, name : Seq(Label)]
Line == [ip : STRING, words : Seq(Word)]

ASSUME HostsAssumption ==
  /\ \A c \in Content : c \in Seq(Line)
  /\ IPv4 \cap IPv6 = {}
  /\ Lower \in [Label -> Label] /\ \A l \in Label : Lower[Lower[l]] = Lower[l]
  /\ \A n \in Name : n \in Seq(Label)
  /\ MaxEdits \in Nat
  /\ ReadErrors \in BOOLEAN

VARIABLES
  config,    \* whether there is a path, and whether --hostsfile-poll is positive
  disk,      \* the file: [present, lines, mtime]
  rest,      \* the lines that a writer in the middle of its work has yet to write
  edits,     \* how often the file was changed
  pc,        \* the control point of NewHostsfile, then of monitorHostEntries
  stat,      \* mtime and size that monitorHostEntries has just read
  seen,      \* hf.mtime and hf.size: what it saw at its last reload
  hosts,     \* h.hosts
  loaded,    \* history: the lines that h.hosts was made from
  failed,    \* history: the last reading of the file failed
  status     \* whether the process runs

file == <<disk, rest, edits>>
vars == <<config, file, pc, stat, seen, hosts, loaded, failed, status>>

-----------------------------------------------------------------------------
(* Parsing *)

\* hostname
Host == [domain : Seq(Label), ip : STRING, ipv6 : BOOLEAN, wildcard : BOOLEAN]

lower(name) == [i \in DOMAIN name |-> Lower[name[i]]]

\* Mutant: the case of the file is kept.
newHostname_keepsCase(word, ip) ==
  [domain |-> word.name, ip |-> ip, ipv6 |-> ip \in IPv6, wildcard |-> word.wildcard]

newHostname(word, ip) ==
  [domain |-> lower(word.name), ip |-> ip, ipv6 |-> ip \in IPv6,
   wildcard |-> word.wildcard]

Usable(line) == line.ip \in IPv4 \cup IPv6

parseLine(line) ==
  IF Usable(line) THEN [i \in DOMAIN line.words |-> newHostname(line.words[i], line.ip)]
  ELSE <<>>

\* v[0:2] on a word of one letter.
Panics(lines) ==
  \E i \in DOMAIN lines : Usable(lines[i]) /\
    \E j \in DOMAIN lines[i].words :
      /\ ~lines[i].words[j].wildcard
      /\ Len(lines[i].words[j].name) = 1 /\ lines[i].words[j].name[1] \in OneLetter

parseLines[lines \in Seq(Line)] ==
  IF lines = <<>> THEN <<>> ELSE parseLine(Head(lines)) \o parseLines[Tail(lines)]

\* Mutant: a new entry is put in front of the others.
add_front(list, host) == IF host \in ToSet(list) THEN list ELSE <<host>> \o list

\* hostlist.add: an entry that is there already is not added again.
add(list, host) == IF host \in ToSet(list) THEN list ELSE Append(list, host)
addAll[hs \in Seq(Host)] ==
  IF hs = <<>> THEN <<>> ELSE add(addAll[Front(hs)], Last(hs))

newHostlist(lines) == addAll[parseLines[lines]]

-----------------------------------------------------------------------------
(* Lookups.  Each holds the read lock from beginning to end. *)

\* The entries of a list that are wanted, in its order.
Among(list, wanted) ==
  LET among[l \in Seq(Host)] ==
        IF l = <<>> THEN <<>>
        ELSE (IF Head(l) \in wanted THEN <<Head(l)>> ELSE <<>>) \o among[Tail(l)]
  IN  among[list]

\* The entries for a name itself; those that match it with a wildcard, which
\* stands for exactly one label.
Exact(list, name) == {h \in ToSet(list) : ~h.wildcard /\ h.domain = name}
Matches(list, name) ==
  {h \in ToSet(list) : h.wildcard /\ Len(name) = Len(h.domain) + 1 /\ Tail(name) = h.domain}

\* Mutant: wildcards are used although the name is listed itself.
FindHosts_both(list, name) == Among(list, Exact(list, name) \cup Matches(list, name))

\* hostlist.FindHosts: the entries for the name itself, else the wildcards.
FindHosts(list, name) ==
  IF Exact(list, name) # {} THEN Among(list, Exact(list, name))
  ELSE Among(list, Matches(list, name))

\* AddressRecords: the addresses of the family that the question asks for.
AddressRecords(list, name, type) ==
  LET hs == FindHosts(list, name)
      found == Among(hs, {h \in ToSet(hs) : type = "ANY" \/ (h.ip \in IPv6 <=> type = "AAAA")})
  IN  [i \in DOMAIN found |-> found[i].ip]

\* FindReverse and PTRRecords: the domain of the first entry with the address.
FindReverse(list, ip) ==
  LET found == Among(list, {h \in ToSet(list) : h.ip = ip})
  IN  IF found = <<>> THEN {} ELSE {found[1].domain}

-----------------------------------------------------------------------------
(* The file and its writers *)

Size(lines) == Len(lines)

\* hostsFileMetadata
Stamp == [mtime |-> disk.mtime, size |-> Size(disk.lines)]

Init ==
  /\ config \in {[path |-> FALSE, poll |-> FALSE], [path |-> TRUE, poll |-> FALSE],
                 [path |-> TRUE, poll |-> TRUE]}
  /\ disk \in [present : BOOLEAN, lines : Content, mtime : {1}]
  /\ rest = <<>>
  /\ edits = 0
  /\ pc = "new"
  /\ stat = [mtime |-> 0, size |-> 0]
  /\ seen = [mtime |-> 0, size |-> 0]
  /\ hosts = <<>> /\ loaded = <<>>
  /\ failed = FALSE
  /\ status = "up"

\* The file is replaced or, with some lines held back, rewritten in place.
\* Two changes have different mtimes.
Edit(lines, n) ==
  /\ edits < MaxEdits
  /\ rest = <<>>
  /\ disk' = [present |-> TRUE, lines |-> SubSeq(lines, 1, n), mtime |-> disk.mtime + 1]
  /\ rest' = SubSeq(lines, n + 1, Len(lines))
  /\ edits' = edits + 1
  /\ UNCHANGED <<config, pc, stat, seen, hosts, loaded, failed, status>>

\* A rewriting ends, perhaps within the same tick of the file system's clock.
EditEnds ==
  /\ rest # <<>>
  /\ \E tick \in 0..1 :
       disk' = [disk EXCEPT !.lines = @ \o rest, !.mtime = @ + tick]
  /\ rest' = <<>>
  /\ UNCHANGED <<config, edits, pc, stat, seen, hosts, loaded, failed, status>>

Unlink ==
  /\ edits < MaxEdits
  /\ rest = <<>> /\ disk.present
  /\ disk' = [disk EXCEPT !.present = FALSE]
  /\ edits' = edits + 1
  /\ UNCHANGED <<config, rest, pc, stat, seen, hosts, loaded, failed, status>>

-----------------------------------------------------------------------------
(* NewHostsfile and monitorHostEntries *)

\* os.ReadFile returns an error.
ReadFails == ~disk.present \/ ReadErrors

\* loadHostEntries without an error: the list is replaced under the lock.
loadHostEntries ==
  /\ disk.present /\ ~Panics(disk.lines)
  /\ hosts' = newHostlist(disk.lines)
  /\ loaded' = disk.lines
  /\ failed' = FALSE
  /\ UNCHANGED status

\* parseLine panics, and the process ends.
LoadPanics ==
  /\ disk.present /\ Panics(disk.lines)
  /\ status' = "panic"
  /\ UNCHANGED <<hosts, loaded, failed>>

\* NewHostsfile.  An error is fatal; without a path the list stays empty.
NewHostsfile ==
  /\ status = "up"
  /\ pc = "new"
  /\ \/ /\ ~config.path
        /\ UNCHANGED <<hosts, loaded, failed, status>>
     \/ config.path /\ (loadHostEntries \/ LoadPanics)
     \/ /\ config.path /\ ReadFails
        /\ status' = "fatal"
        /\ UNCHANGED <<hosts, loaded, failed>>
  /\ pc' = IF config.path /\ config.poll THEN "wait" ELSE "serve"
  /\ UNCHANGED <<config, file, stat, seen>>

\* Mutant: the size is not compared.
Changed_mtimeOnly == disk.present /\ seen.mtime # disk.mtime

\* The file is there, and its mtime or its size is another one.
Changed == disk.present /\ seen # Stamp

\* A tick: stating the file failed, or it has not changed.
PollNothing ==
  /\ status = "up"
  /\ pc = "wait"
  /\ ~Changed
  /\ UNCHANGED vars

\* A tick: there is something to reload.
PollChange ==
  /\ status = "up"
  /\ pc = "wait"
  /\ Changed
  /\ stat' = Stamp
  /\ pc' = "load"
  /\ UNCHANGED <<config, file, seen, hosts, loaded, failed, status>>

\* The file is read, perhaps after it has changed again.
Reload ==
  /\ status = "up"
  /\ pc = "load"
  /\ \/ loadHostEntries
     \/ LoadPanics
     \/ /\ ReadFails
        /\ failed' = TRUE
        /\ UNCHANGED <<hosts, loaded, status>>
  /\ pc' = "record"
  /\ UNCHANGED <<config, file, stat, seen>>

\* Mutant: the metadata of the file are read again after the reload.
Record_statsAgain ==
  /\ status = "up"
  /\ pc = "record"
  /\ seen' = Stamp
  /\ pc' = "wait"
  /\ UNCHANGED <<config, file, stat, hosts, loaded, failed, status>>

\* h.file.mtime, h.file.size = mtime, size, after a failed reload too.
Record ==
  /\ status = "up"
  /\ pc = "record"
  /\ seen' = stat
  /\ pc' = "wait"
  /\ UNCHANGED <<config, file, stat, hosts, loaded, failed, status>>

monitorHostEntries == PollNothing \/ PollChange \/ Reload \/ Record

Writer == (\E lines \in Content : \E n \in 0..Len(lines) : Edit(lines, n)) \/ EditEnds \/ Unlink

Next == NewHostsfile \/ monitorHostEntries \/ Writer

\* The ticker goes on, and a writer ends what it began.
Spec ==
  /\ Init /\ [][Next]_vars
  /\ WF_vars(NewHostsfile) /\ WF_vars(monitorHostEntries) /\ WF_vars(EditEnds)

-----------------------------------------------------------------------------
(* Properties *)

Meta == [mtime : Nat, size : Nat]

\* The types of the variables; the domains in the list are in lower case.
TypeOK ==
  /\ config \in [path : BOOLEAN, poll : BOOLEAN] /\ (config.poll => config.path)
  /\ disk \in [present : BOOLEAN, lines : Seq(Line), mtime : Nat] /\ rest \in Seq(Line)
  /\ edits \in 0..MaxEdits
  /\ pc \in {"new", "serve", "wait", "load", "record"}
  /\ stat \in Meta /\ seen \in Meta
  /\ hosts \in Seq(Host) /\ loaded \in Seq(Line)
  /\ \A i \in DOMAIN hosts : hosts[i].domain = lower(hosts[i].domain)
  /\ failed \in BOOLEAN
  /\ status \in {"up", "panic", "fatal"}

\* The addresses that lines give to a name itself, or by a wildcard.
Listed(lines, name, wildcard) ==
  {lines[i].ip : i \in {i \in DOMAIN lines :
     /\ Usable(lines[i])
     /\ \E j \in DOMAIN lines[i].words :
          LET word == lines[i].words[j]
          IN  /\ word.wildcard = wildcard
              /\ name = IF wildcard THEN <<name[1]>> \o lower(word.name)
                        ELSE lower(word.name)}}

\* utils.go:66-90 and server.go:311-350.  Lookups of a name give what the lines
\* that were loaded say, whatever their order, case and repetitions: the
\* addresses of the name, else those of the wildcards for its first label, each
\* address once.  A wildcard stands for one label only, as hostsfile_test.go:143
\* expects, where README.md:103 says any subdomain.
LookupMeaning ==
  \A name \in Name, type \in {"A", "AAAA", "ANY"} :
    LET records == AddressRecords(hosts, name, type)
        exact == Listed(loaded, name, FALSE)
        family == CASE type = "A" -> IPv4 [] type = "AAAA" -> IPv6
                  [] OTHER -> IPv4 \cup IPv6
    IN  /\ ToSet(records) =
             family \cap (IF exact # {} THEN exact ELSE Listed(loaded, name, TRUE))
        /\ IsInjective(records)

\* The line gives the address to a name, or by a wildcard.
Gives(line, ip) == Usable(line) /\ line.ip = ip /\ line.words # <<>>

\* The first word of the first line that gives the address: none if none does.
FirstWord(lines, ip) ==
  {lower(lines[i].words[1].name) : i \in {i \in DOMAIN lines :
     /\ Gives(lines[i], ip)
     /\ \A j \in DOMAIN lines : Gives(lines[j], ip) => i <= j}}

\* hostsfile.go:77-88.  A reverse lookup gives the name that comes first with the
\* address in the lines that were loaded, whatever repetitions were left out,
\* and nothing if no line gives the address.  For a wildcard that is its bare
\* domain, a name that has the address only if another word says so.
ReverseMeaning ==
  \A ip \in IPv4 \cup IPv6 : FindReverse(hosts, ip) = FirstWord(loaded, ip)

\* hostsfile.go:111-136.  An update of the file is not overlooked, whenever it
\* comes: if the poller sees nothing new and its last reading did not fail,
\* then the list is that of the file as it is now.
NoLostUpdate ==
  status = "up" /\ pc = "wait" /\ disk.present /\ seen = Stamp /\ ~failed =>
    hosts = newHostlist(disk.lines)

\* README.md:50 "--hostsfile-poll: How frequently to poll hosts file for
\* changes".  Once the file is left alone, the list becomes that of the file
\* and stays so, unless the last reading failed: that one is not repeated.
PicksUpChanges ==
  <>[](status = "up" /\ config.poll /\ disk.present /\ ~failed =>
         hosts = newHostlist(disk.lines))
=============================================================================
