----------------------------- MODULE Lifecycle -----------------------------
(***************************************************************************)
(* The life of the process (app.Action in src/main.go, Run in              *)
(* src/server/server.go): start, registration in /etc/resolv.conf,         *)
(* signals, the ways to end, and the next start.  The file survives the    *)
(* process, which may die between any two of its writes.                   *)
(***************************************************************************)
EXTENDS ResolvConf

CONSTANTS
  UserFile,    \* what others write to /etc/resolv.conf
  Self,        \* the address of --listen
  Flags,       \* [nameservers, defaultResolver, noRec, systemd, bad]
  MaxStarts,   \* bound: starts of the process
  MaxKills,    \* bound: kills and crashes
  MaxEdits,    \* bound: changes of the file by others
  OpenErrors,  \* whether the file may be impossible to open
  WriteErrors  \* whether a seek, a write or the truncation may fail

ASSUME LifecycleAssumption ==
  /\ Self \in Word \ {"nameserver", "added", "disabled", "newline"}
  /\ \A u \in UserFile : u \in Text /\ {Self, "added", "disabled"} \cap ToSet(u) = {}
  /\ \A fl \in Flags :
       /\ fl.bad \in {"nothing", "flags", "config"}
       /\ fl.nameservers \in Text /\ Self \notin ToSet(fl.nameservers)

VARIABLES
  file,       \* the contents of /etc/resolv.conf
  user,       \* what others wrote there last
  pc,         \* the control point of app.Action; "down": there is no process
  flags,      \* the flags of the process
  notified,   \* signal.Notify was called
  sig,        \* the goroutine for signals waits to send on exitReason
  upstreams,  \* config.Nameservers
  opened,     \* updateResolvConf has opened and read the file
  writes,     \* what it has yet to write
  pos,        \* its offset
  err,        \* the last updateResolvConf failed, or ResolvConf since
  exit,       \* how the last process ended
  torn,       \* history: an update was left half-way since others wrote the file
  count       \* starts, kills and edits, for the bounds

update == <<opened, writes, pos, err>>
process == <<flags, notified, sig, upstreams>>
vars == <<file, user, pc, process, update, exit, torn, count>>

Updating == pc \in {"clean", "register", "restore"}
HalfWay == opened /\ pos > 0

Init ==
  /\ user \in UserFile
  /\ file = user
  /\ pc = "down"
  /\ flags \in Flags
  /\ notified = FALSE /\ sig = FALSE
  /\ upstreams = <<>>
  /\ opened = FALSE /\ writes = <<>> /\ pos = 0 /\ err = FALSE
  /\ exit = "none"
  /\ torn = FALSE
  /\ count = [starts |-> 0, kills |-> 0, edits |-> 0]

\* The process ends; deferred functions do not run.
Exit(how) ==
  /\ pc' = "down"
  /\ exit' = how
  /\ torn' = (torn \/ HalfWay)
  /\ opened' = FALSE /\ writes' = <<>> /\ pos' = 0
  /\ UNCHANGED <<file, user, process, err>>

Start(fl) ==
  /\ pc = "down"
  /\ count.starts < MaxStarts
  /\ count' = [count EXCEPT !.starts = @ + 1]
  /\ pc' = "flags"
  /\ flags' = fl
  /\ notified' = FALSE /\ sig' = FALSE
  /\ upstreams' = <<>>
  /\ exit' = "none"
  /\ UNCHANGED <<file, user, update, torn>>

-----------------------------------------------------------------------------
(* updateResolvConf, called by StoreAddress and Clean *)

insert == IF pc = "register" THEN Entry(Self) ELSE <<>>

\* Mutant: the file is not closed.
UpdateReturns_leaks(failed) ==
  /\ UNCHANGED opened
  /\ writes' = <<>> /\ pos' = 0
  /\ err' = failed
  /\ torn' = (torn \/ (failed /\ HalfWay))
  /\ pc' = CASE pc = "clean" -> "config" [] pc = "register" -> "running"
           [] pc = "restore" -> "down"
  /\ exit' = IF pc = "restore" THEN "clean" ELSE exit
  /\ UNCHANGED <<user, process, count>>

\* updateResolvConf returns to app.Action, which takes no notice of an error.
UpdateReturns(failed) ==
  /\ opened' = FALSE /\ writes' = <<>> /\ pos' = 0
  /\ err' = failed
  /\ torn' = (torn \/ (failed /\ HalfWay))
  /\ pc' = CASE pc = "clean" -> "config" [] pc = "register" -> "running"
           [] pc = "restore" -> "down"
  /\ exit' = IF pc = "restore" THEN "clean" ELSE exit
  /\ UNCHANGED <<user, process, count>>

\* Mutant: the offset is not set back after reading.
Open_noSeek ==
  /\ Updating /\ ~opened
  /\ opened' = TRUE
  /\ writes' = Writes(insert, file)
  /\ pos' = Len(file)
  /\ UNCHANGED <<file, user, pc, process, err, exit, torn, count>>

\* Mutant: Clean at the start leaves the nameservers commented out.
Open_onlyStrips ==
  /\ Updating /\ ~opened
  /\ opened' = TRUE
  /\ writes' = IF pc = "clean" THEN <<StripAdded(file)>> ELSE Writes(insert, file)
  /\ pos' = 0
  /\ UNCHANGED <<file, user, pc, process, err, exit, torn, count>>

\* The file is opened and read, and the offset set back to 0.
Open ==
  /\ Updating /\ ~opened
  /\ opened' = TRUE
  /\ writes' = Writes(insert, file)
  /\ pos' = 0
  /\ UNCHANGED <<file, user, pc, process, err, exit, torn, count>>

\* f.WriteString(insert), then f.WriteString(line) for every line.
WriteString ==
  /\ opened /\ writes # <<>>
  /\ file' = WriteAt(file, pos, Head(writes))
  /\ pos' = pos + Len(Head(writes))
  /\ writes' = Tail(writes)
  /\ UNCHANGED <<user, pc, process, opened, err, exit, torn, count>>

\* f.Truncate(pos), and the file is closed.
Truncate ==
  /\ opened /\ writes = <<>>
  /\ file' = SubSeq(file, 1, pos)
  /\ UpdateReturns(FALSE)

\* Opening or reading fails, or setting the offset, a write or the truncation
\* does; there is no way back.
UpdateFails ==
  /\ Updating
  /\ (~opened /\ OpenErrors) \/ (opened /\ WriteErrors)
  /\ UNCHANGED file
  /\ UpdateReturns(TRUE)

-----------------------------------------------------------------------------
(* app.Action *)

\* Mutant: the traces of an earlier process are not removed first.
ParseFlags_noClean ==
  /\ pc = "flags"
  /\ \/ flags.bad = "flags" /\ Exit("fatal") /\ UNCHANGED count
     \/ /\ flags.bad # "flags"
        /\ pc' = "config"
        /\ err' = FALSE
        /\ UNCHANGED <<file, user, process, opened, writes, pos, exit, torn, count>>

\* The flags are looked through; log.Fatalf if one is invalid.  Then Clean.
ParseFlags ==
  /\ pc = "flags"
  /\ \/ flags.bad = "flags" /\ Exit("fatal") /\ UNCHANGED count
     \/ /\ flags.bad # "flags"
        /\ pc' = "clean"
        /\ UNCHANGED <<file, user, process, update, exit, torn, count>>

\* server.ResolvConf: the nameservers of the host, unless the flags name some.
\* That the file cannot be read is only logged.
ReadResolvConf ==
  /\ pc = "config"
  /\ \/ /\ upstreams' = IF flags.nameservers = <<>> THEN Servers(file) ELSE flags.nameservers
        /\ UNCHANGED err
     \/ /\ OpenErrors
        /\ upstreams' = flags.nameservers
        /\ err' = TRUE
  /\ pc' = "check"
  /\ UNCHANGED <<file, user, flags, notified, sig, opened, writes, pos, exit, torn, count>>

\* CheckConfig, the stub zones, the hosts file: log.Fatal if one is unusable.
Unusable == flags.bad = "config" \/ (~flags.noRec /\ upstreams = <<>>)

Check ==
  /\ pc = "check"
  /\ \/ Unusable /\ Exit("fatal") /\ UNCHANGED count
     \/ /\ ~Unusable
        /\ pc' = IF flags.defaultResolver THEN "register" ELSE "running"
        /\ UNCHANGED <<file, user, process, update, exit, torn, count>>

\* Mutant: the end is waited for by a registered process only.
Receive_registered ==
  /\ pc = "running" /\ sig /\ flags.defaultResolver
  /\ pc' = "restore"
  /\ UNCHANGED <<file, user, process, update, exit, torn, count>>

\* Mutant: the deferred function is forgotten.
Receive_noDefer ==
  /\ pc = "running" /\ sig
  /\ Exit("clean") /\ UNCHANGED count

\* exitErr = <-exitReason is nil: the deferred functions run.
Receive ==
  /\ pc = "running" /\ sig
  /\ \/ /\ flags.defaultResolver
        /\ pc' = "restore"
        /\ UNCHANGED <<file, user, process, update, exit, torn, count>>
     \/ /\ ~flags.defaultResolver
        /\ Exit("clean") /\ UNCHANGED count

\* Run returns an error to app.Action, which calls log.Fatalf.
RunFails ==
  /\ pc = "running" /\ flags.systemd
  /\ Exit("fatal") /\ UNCHANGED count

\* A listener ends with an error and calls log.Fatalf in its own goroutine.
ListenFails ==
  /\ pc \in {"running", "restore"}
  /\ Exit("fatal") /\ UNCHANGED count

-----------------------------------------------------------------------------
(* Signals, kills, and other writers of the file *)

Notify ==
  /\ pc # "down" /\ ~notified
  /\ notified' = TRUE
  /\ UNCHANGED <<file, user, pc, flags, sig, upstreams, update, exit, torn, count>>

\* SIGINT, SIGTERM or SIGQUIT; without signal.Notify it kills.
Signal ==
  /\ pc # "down"
  /\ \/ /\ notified /\ ~sig
        /\ sig' = TRUE
        /\ UNCHANGED <<file, user, pc, flags, notified, upstreams, update, exit, torn, count>>
     \/ ~notified /\ Exit("killed") /\ UNCHANGED count

\* SIGKILL, a panic in a handler, the machine loses power.
Kill ==
  /\ pc # "down"
  /\ count.kills < MaxKills
  /\ count' = [count EXCEPT !.kills = @ + 1]
  /\ Exit("killed")

\* A DHCP client or the administrator writes the file anew; not between the
\* reading and the end of an update, which would overwrite it.
Edit(u) ==
  /\ ~opened
  /\ count.edits < MaxEdits
  /\ count' = [count EXCEPT !.edits = @ + 1]
  /\ file' = u /\ user' = u
  /\ torn' = FALSE
  /\ UNCHANGED <<pc, process, update, exit>>

Main ==
  \/ ParseFlags \/ Open \/ WriteString \/ Truncate \/ UpdateFails
  \/ ReadResolvConf \/ Check \/ Receive

Next ==
  \/ Main \/ RunFails \/ ListenFails \/ Notify \/ Signal \/ Kill
  \/ \E fl \in Flags : Start(fl)
  \/ \E u \in UserFile : Edit(u)

\* The main goroutine is scheduled and its system calls return.
Spec == Init /\ [][Next]_vars /\ WF_vars(Main)

-----------------------------------------------------------------------------
(* Properties *)

\* The types of the variables; the file is open during an update only.
TypeOK ==
  /\ pc \in {"down", "flags", "clean", "config", "check", "register", "running", "restore"}
  /\ flags \in Flags /\ notified \in BOOLEAN /\ sig \in BOOLEAN
  /\ opened \in BOOLEAN /\ (opened => Updating) /\ err \in BOOLEAN
  /\ pos \in 0..Len(file)
  /\ exit \in {"none", "clean", "fatal", "killed"}
  /\ torn \in BOOLEAN

\* resolvconf.go:24-88.  Whatever sequence of starts, exits, kills and changes
\* by others led here: as long as no update was left half-way, Clean would give
\* back exactly what others wrote to the file.
Restorable == ~torn /\ ~opened => Cleaned(file) = user

\* main.go:358-361 "Restoring /etc/resolv.conf".  A process that was told to
\* end by a signal, at whatever point, leaves the file as others wrote it.
RestoredAtExit == exit = "clean" /\ ~torn /\ ~err => file = user

\* main.go:285-290.  The server never takes itself for an upstream, even after
\* a process that died with its address in the file, in the middle of writing
\* it or not.
NeverSelf == [][~err => Self \notin ToSet(upstreams')]_upstreams

\* README.md:18 "Automatically set upstream nameservers ... from resolv.conf".
\* They are those that others wrote, in their order, though an earlier process
\* may have died with all of them commented out.
UsersServers ==
  [][pc = "config" /\ pc' = "check" /\ flags.nameservers = <<>> /\ ~err' /\ ~torn =>
       upstreams' = Servers(user)]_vars

\* main.go:188-194, 376-381.  A process that has a signal ends.
SignalEnds == sig ~> pc = "down"
=============================================================================
