# go-dnsmasq in TLA+

Specifications, model-checking configurations and proofs for go-dnsmasq, a DNS
forwarder with a response cache, search domains, stub zones and a hosts file.
They are written from the Go code under `src/`; line numbers refer to it.

## The system

| Component | Code | State | Operations |
|---|---|---|---|
| Response cache | `cache/cache.go`, `cache/hit.go` | a map from question keys to elements (message, end of TTL, end of the stale period, counters), an RWMutex | `InsertMessage`, `Hit` (which uses `Search` and `Remove`), `EvictRandom`, `DumpCache`, `CacheSize` |
| Forwarding | `server/forwarding.go` | local to a request: results of the absolute and the search lookup, loop counters | `ServeDNSForward`, `forwardSearch`, `forwardQuery`, `ServeDNSReverse` |
| Request handler | `server/server.go` | local to a request; shares cache, hosts and metrics | `ServeDNS` and its deferred function, `AddressRecords`, `PTRRecords`, `RoundRobin`, `Run` |
| Message fitting | `server/msg.go` | none | `Fit` |
| Configuration | `server/config.go` | `Config` | `ResolvConf`, `CheckConfig` |
| Metrics | `server/stats.go`, `stats/graphite.go` | counters | `Inc`, export |
| Hosts file | `hostsfile/*.go` | host list, mtime and size of the file, an RWMutex | parse, `FindHosts`, `FindReverse`, poll and reload |
| Control server | `control/control.go` | none | `/ping`, `/stats`, `/dump` |
| Registration | `resolvconf/resolvconf.go` | `/etc/resolv.conf` | `StoreAddress`, `Clean` |
| Process | `main.go` | flags | start, signals, exit |

How they interact: the DNS library calls `ServeDNS` in a new goroutine for each
request.  A handler asks the cache, then the hosts file, then the cache again
for a stale message, then the upstream servers one after the other (each
exchange ends by an answer or by a timeout), writes the reply, and stores it in
the cache.  Handlers share the cache, the host list and the counters, nothing
else.  The control server reads the cache from HTTP goroutines.  A poller
reloads the host list.  The main goroutine registers the server in
`/etc/resolv.conf`, waits for a signal or an error, and undoes the registration
in a deferred function; the file is shared with the processes before and after
this one and with whoever else writes it.

What is hard: `Hit` takes and gives back the mutex up to three times and acts on
dates it copied out before; the dump takes no lock; answers to the same question
race to be stored; TTL and stale period can be in either order; eviction acts at
one exact size; four settings decide the order of lookups, and each lookup can
fail in several ways; six paths write the reply.  The poller reads metadata and
contents of a file in two system calls while others write it; resolv.conf is
rewritten in place, line by line, and `log.Fatal` skips deferred functions.
`server_test.go` is commented
out as a whole, so none of the forwarding behaviour is tested in the repository.

What makes each component correct:

* cache: bounded; no expired message unless asked for; what is found is served
  or removed, never dereferenced when gone; no answer shortens the life of one
  that came before;
* forwarding: answered in the end, once, whatever the upstreams reply; a positive
  answer is never lost; the response code is evidenced by an exchange; documented
  order of lookups and of servers; the reply is to the client's question;
* handler: one reply per request, to the right question; what may not be cached
  is not cached; truncation is signalled;
* fitting: what is kept fits, as many records as fit are kept, and a cut is
  signalled;
* hosts file: lookups mean what the file says, no update is overlooked, and it
  is picked up in the end;
* process: a signal ends it, `/etc/resolv.conf` is put back at exit or at the
  next start, and the server never forwards to itself.

## Modules

| Module | What it is |
|---|---|
| `Cache` | the response cache and its concurrent clients |
| `CacheProofs` | theorems about `Cache` |
| `Forward` | one query through `ServeDNSForward`, `forwardSearch`, `forwardQuery` |
| `ForwardProofs` | theorems about `Forward`, the refinement of `Resolve` among them |
| `Resolve` | abstract: what `ServeDNSForward` promises to its caller |
| `Server` | concurrent handlers; composes `Cache` with the promise of `Resolve` |
| `ServerProofs` | theorems about `Server`, and that it uses `Cache` as specified |
| `HostsFile` | the hosts file: parsing, lookups, the poller, and writers of the file |
| `HostsFileProofs` | that no update of the hosts file is lost, and that lookups mean what it says |
| `ResolvConf` | pure operators: what `updateResolvConf` makes of the contents of a file |
| `ResolvConfProofs` | what those operators compute, for contents of any length |
| `Lifecycle` | processes one after the other, and `/etc/resolv.conf`; uses `ResolvConf` |
| `LifecycleProofs` | theorems about `Lifecycle` |
| `RecursionProofs` | induction over lengths and recursive functions on sequences, for `HostsFileProofs` and `ResolvConfProofs` |
| `Fit` | one call of `Fit` on any message |
| `FitProofs` | theorems about `Fit` |
| `MCCache`, `MCForward`, `MCServer`, `MCHostsFile`, `MCLifecycle`, `MCFit` | the instances for TLC |

Definitions that end in `_something` after the name of another definition are
mutants: plausible bugs used to see that a property can fail.  They are not part
of the specifications.

### Cache

`m` is the map, `pc[c]` and `call[c]` the progress and the local variables of
`Hit` in goroutine `c`, `now` the clock in seconds, `dumping` the iteration of
`DumpCache`, `status` whether the process still runs.  Each action is one
critical section or one reading of the clock:

| Action | Code |
|---|---|
| `InsertMessage` | cache.go:167-198, one critical section, eviction included |
| `Search`, `Miss` | cache.go:202-214 under the read lock, called from hit.go:17 |
| `TestExpiration` | hit.go:18-21 and 39-43, `valid` |
| `CountHit` | hit.go:26-32; a missing element is the nil dereference |
| `TestStale` | hit.go:34 |
| `Remove` | cache.go:126-130, called from hit.go:35 and 41 |
| `DumpStart`, `DumpEnd` | cache.go:78-110, without a lock |
| `Tick` | the clock |

Go visits maps in random order, so the eviction operators yield sets of maps.
A map write while `dumping` may be met by the iteration; the runtime then kills
the process (`MapWrite`).  The counters wrap modulo `UintMod`.  Times are whole
seconds: equality of `now` and a date, which real clocks hardly hit, stays
possible and is neither before nor after, as in the code.

### Forward

Names are numbers (0 the client's name, `i` the name qualified with the `i`-th
search domain).  `config` ranges over all settings that `CheckConfig` accepts
within the bounds, `q` over what forwarding looks at in the question: the number
of dots (-1 for the root name), which search domains it ends in, which stub
zones each name matches.  Both are chosen in `Init` and fixed.  `pc`, `ret`,
`zone` and `nsIdx` are the control state of the three functions, `absolute`,
`search`, `r` and `nodata` their results, `asked` a history of the exchanges.
`Exchange` picks any outcome: an error, an answer with or without records or the
TC bit, NXDOMAIN, SERVFAIL, another code (`UsualReplies`), and, up to `MaxOdd`
times in a query, a negative reply with records or any reply without a question
section (`OddReplies`): the client library compares ids only.  Without a question
there is nothing to restore at forwarding.go:245 and 250, and `SearchPanics` ends
the process.  The number of odd replies is bounded for TLC only; the proofs hold
for every bound.  Two oddities are left out: a reply with records and the TC bit
and a negative code (the bit is never looked at then), and more than one question.
Message ids, compression, logging and metrics are left out.

`Resolve` says that one message is written: NOERROR if some upstream answered so;
if none did, the stale message if there is one, also in place of a negative answer
of an upstream (forwarding.go:132, 148), unless the query is refused; else a
negative one.  Its one other end is the panic.  `KeepsPromise` is the refinement
`Forward => Resolve`, with the fairness.

### Server

`at[c]` is the control point of a handler, `Cache`'s actions are used as they are
while it is inside `Hit` or `InsertMessage`.  The forwarding step takes any
outcome that `Resolve` allows, the panic included, which ends the process
(`panicked`); otherwise an upstream answers the question it was asked.  A message
has the question it answers, a response code, one of three sizes, whether records
are missing, and the TC bit.  `Fit` is modelled by its effect on those.  The reply
and the insertion that follows it are two steps on the forwarding paths (another
handler can come in between) and one step on the local path, where the insertion
is first.  The hosts file does not change here (its changes are the subject of
`HostsFile`).  `RoundRobin` permutes a private copy of the answers and is left
out.

### HostsFile

A name is a sequence of labels, a line of the file an address with words.
`newHostlist` (the recursive functions `parseLines` and `addAll`), `FindHosts`,
`AddressRecords` and `FindReverse` follow the code over such lists, in the order
of the list (`Among`); `Listed` and `FirstWord`, the references they are compared with,
speak of the lines of the file only.  `disk` is the file, `rest` what a writer in the middle
of an in-place rewrite has yet to write, `seen` the recorded mtime and size,
`stat` the pair just read.

| Action | Code |
|---|---|
| `NewHostsfile` | hostsfile.go:41-67; an error is fatal in main.go:340 |
| `PollNothing`, `PollChange` | hostsfile.go:113-123, the stat and the comparison |
| `Reload` | hostsfile.go:125-127 and 90-101; may fail, or panic in `parseLine` |
| `Record` | hostsfile.go:131-135, after a failed reload too |
| `Edit`, `EditEnds`, `Unlink` | others: replace, or rewrite in place in two parts; remove |

A lookup holds the read lock from beginning to end and the list is replaced as a
whole, so lookups are operators and not actions.  The size of a file is its
number of lines: two contents with as many lines have equal sizes, the worst
case for the comparison.  Two changes by different writers are assumed to have
different mtimes; the two parts of one rewrite need not.

### ResolvConf and Lifecycle

`/etc/resolv.conf` is a sequence of tokens (`nameserver`, the mark of an added
line, the mark of a disabled line, newline, and any `Word`: addresses and other
text), because updates overwrite it from the start and may stop anywhere.  `Writes` gives the
strings that `updateResolvConf` writes, one `WriteString` each.  `pc` is the
control point of `app.Action`, `writes`, `pos` and `opened` the state of the
update in progress, `sig` the signal goroutine, `flags` what matters of the
command line.  `user` and `torn` are history: what others wrote last, and whether
an update was left half-way since.

| Action | Code |
|---|---|
| `Start`, `Notify`, `Signal` | main.go:186-194; a signal before `signal.Notify` kills |
| `ParseFlags` | main.go:196-285, fatal if a flag is invalid |
| `Open`, `WriteString`, `Truncate`, `UpdateFails` | resolvconf.go:39-88, for `Clean` and for `StoreAddress` |
| `ReadResolvConf` | config.go:70-96, the nameservers |
| `Check` | main.go:292-352: `CheckConfig`, stub zones, hosts file |
| `Receive` | main.go:376-383 and the deferred functions |
| `RunFails`, `ListenFails` | main.go:366-379; server.go:84-117, `log.Fatalf` in a goroutine |
| `Kill`, `Edit` | others |

`UpdateFails` stands for a failure of the opening, of any write, and of the seek and
the truncation at the end (resolvconf.go:82-87).

Lines are not indented (`Clean` removes the indentation of a line that was
commented out), and nobody else writes the file between the reading and the end
of an update (it would be overwritten).

### Fit

`length[k]` is the length of the message with its first `k` answers, any
increasing function; `extra` the length of the additional section.  `Begin` is
the part before the loop, `Grow` and `Shrink` its two branches, `End` what
follows it.

## Runs

All passing runs say `CHECK_DEADLOCK FALSE`: a request ends, the clock has a
last value, and the process may die.

| Run | Bounds | What it shows |
|---|---|---|
| `cache_shared` | 2 clients, 3 keys, capacity 3, TTLs 1..2, stale period 3, 5 seconds | `TypeOK`; `BelowCapacity`; `FreshUnlessAsked`; `ServedAge`; `NeverShortened` |
| `cache_panic` | 2 clients, 2 keys | violated: `NeverPanics` |
| `cache_dump` | 1 client | violated: `DumpIsSafe` |
| `cache_race_drops` | 2 clients, stale period longer than the TTL | violated: `HitRemovesExpired`, by a race |
| `forward` | up to 2 nameservers, 2 search domains, 2 dots, all flags; or 2 overlapping stub zones with up to 2 servers and 1 search domain; up to 2 odd replies where nameservers and search domains are 3 at most and one setting of the dots | `TypeOK`, `PositiveWins`, `LiteralDecides`, `RcodeEvidenced`, `AnswerLinked`, `ResolveOrder`, `FallbackOrder`, `AskedOnce`, the liveness property `Answered`, the refinement `KeepsPromise` |
| `server_paths` | 2 handlers, 7 requests for the branches of `Route` and of the deferred function, capacity 2, TTL 1, stale period 2, 3 seconds | `TypeOK` (nobody writes twice), `AnswersTheQuestion`, `NegativesOnlyReverse`, the liveness property `EveryRequestAnswered` |
| `server_truncated` | 1 handler, one name, two buffer sizes | violated: `IncompleteIsMarked` |
| `server_late` | 2 handlers, one question, 4 seconds | violated: `PositiveSurvives` |
| `server_reverse` | 1 handler, one reverse lookup | violated: `OnlyPositiveCached` |
| `hosts` | 4 contents, 2 changes in any number of parts, failing reads | `TypeOK` (lower case), `LookupMeaning`, `ReverseMeaning`, `NoLostUpdate`, `PicksUpChanges` |
| `lifecycle` | 3 starts, 1 kill, 1 change by others, 2 user files, 5 command lines, failing opens and writes | `TypeOK`, `Restorable`, `RestoredAtExit`, `NeverSelf`, `UsersServers`, `SignalEnds` |
| `fit` | 6 answers, length 9, additional section 2, all sizes | `TypeOK`, `CutsClosely`, `CutIsMarked`, `Closer` |

Why the bounds are enough: two clients are enough to interleave with the gap of
a third's `Hit`, as each gap is a property of two; three keys with capacity three
make eviction happen and leave two elements to choose from; the clock passes the
TTL, the stale period and the date after each.  In `cache_shared` the counters
have one value only (no property reads them).  With two servers and two domains
every loop of forwarding ends early, ends late and is left by `break`; the
settings around `--ndots` and `--fwd-ndots` take all orders.  Two odd replies
are one lookup that an odd reply ends and another one after it, which is where
results of different lookups meet; `MayBeOdd` names the queries that get them.
Stub zones are
checked with one search domain, which the name does not end in, and one setting
of the dots, because the choice
of servers does not look at either.  Two changes of the hosts file cover one
between the stat and the reading and one between the reading and the recording;
the proof covers any number.  Three starts let a process die in the repair of
what another one left behind, and a third one read the result.  Symmetry in keys
and clients is used for invariants and action properties only.

Fairness: `Forward` has weak fairness of its next step, `Server` of the steps of
each handler, `HostsFile` of the poller and of a writer that has begun,
`Lifecycle` of the main goroutine.  Goroutines are scheduled, `Lock` is not held
across blocking calls, the DNS clients have read and write timeouts
(server.go:48-49), and a ticker goes on ticking.  No fairness is assumed of
arriving requests, the clock, the dump, signals, failures or changes of files.

## What the violated runs show

* `cache_panic`: another goroutine removes or evicts the element between
  `Search` and the counter in `Hit` (hit.go:17-32); `c.m[key]` is nil and the
  process panics.
* `cache_dump`: `DumpCache` iterates while a handler writes (cache.go:94).
* `cache_race_drops`: two clients hit an element at the end of its stale period;
  one removes it, a fresh answer is stored, and the other, acting on the date
  that it copied out before, removes that (hit.go:34-35).
* `server_truncated`: a local answer that was cut for one client is stored and
  later served with the TC bit cleared (server.go:235-237, hit.go:25).
* `server_late`: a handler that found no stale message before it asked the
  upstreams stores its SERVFAIL over a positive message that has come and
  expired in the meantime.
* `server_reverse`: reverse lookups ignore `--rcache-non-negative`
  (server.go:260-262).

Other divergences that the models show and no run is spent on:

* Cache, dates: with `--rstale-ttl` below `--rcache-ttl`, and the default is 0, the
  first hit on a valid element removes it (hit.go:34); that test comes after the
  decision to return the message, so a message is served once more after its
  stale period (hit.go:21-37), which the test of the cache accepts; an element
  past its stale period is not renewed, the fresh answer is dropped
  (cache.go:176).
* Cache, size: `InsertMessage` evicts whenever the map has reached the capacity, so
  at most capacity - 1 elements are kept and `--rcache 1` caches nothing
  (cache.go:134-140); eviction looks at one random element before it evicts a
  live one (cache.go:142-149), against "First evict only stale records".
* Cache, key: it has no class, so CHAOS and IN requests for one name and type get
  each other's answers (cache.go:218-226).
* Forwarding, a reply without a question section: the client library accepts it,
  and after a search lookup it is an index out of range at forwarding.go:245 or
  250, which ends the process (`SearchPanics`).
* Forwarding, stale messages: one also replaces a negative answer of an upstream
  that is available (forwarding.go:132, 148), where README.md:28 and 39 speak of
  upstreams that are not available; reverse lookups get no stale messages; stale
  messages are written without `Fit`.
* Forwarding, order: the root name has -1 dots and is refused with `--fwd-ndots 0`
  (forwarding.go:21, 31); `forwardQuery` tries all servers (forwarding.go:257
  says once); when the name ends in all search domains the search asks nobody
  and yields NXDOMAIN, and if the absolute lookup then fails, because the
  upstreams are down, the client gets this NXDOMAIN instead of SERVFAIL
  (forwarding.go:143-157, 221-225).
* Hosts file: a wildcard matches one label only (utils.go:82-84), which README.md:103
  does not say and a test (hostsfile_test.go:143-145) expects; `LookupMeaning`
  follows the test; a reverse lookup of a wildcard's address gives the wildcard's
  bare domain, which need not have the address (hostsfile.go:77-88;
  `ReverseMeaning` states it so); a reload that fails is not repeated until the
  file changes again (hostsfile.go:125-134; `PicksUpChanges` leaves it out); a
  file that is replaced by one with the same mtime and size is not noticed; a
  host name of one letter makes `parseLine` panic, at start or at a reload
  (utils.go:174).
* Registration: a process that dies between two writes of `updateResolvConf`
  leaves a mixture of old and new lines, and lines of the user may be lost for
  good (resolvconf.go:57-80); a listener that fails after the registration, for
  instance because the port is taken, ends the process with `log.Fatalf`, the
  deferred `Clean` does not run, and the host is left with a dead nameserver
  until the next start (server.go:107, main.go:358); `main.go:378` logs the
  wrong variable.
* `Fit`: a message of exactly the size of the buffer is treated as too long
  (msg.go:19) and loses a record; one record that is too long by itself is kept
  although the message would fit without it (msg.go:49), where msg.go:9-13 and
  26 say that the result fits; the search is linear, not binary, in the number
  of records that fit.

## Proofs

`CacheProofs` proves, for every set of keys, messages and clients, every
accepted configuration (`ConfigAssumption`, what `CheckConfig` lets through) and
all TTLs of responses (`DataAssumption`):

* `TypeCorrect`: `Spec => []TypeOK`.
* `CapacityBound`: `Spec => []BelowCapacity`.  The inductive invariant adds that
  the map is finite.  `InsertMessage` adds at most one element to fewer than
  `Capacity`, so eviction meets at most `Capacity`, where it deletes exactly one
  (`EvictCardinality`).  A map of more than `Capacity` would stay: the bound is
  not self-correcting, which is why it must be an invariant.
* `FreshAnswers`: `Spec => []FreshUnlessAsked` and `AnswerAge`:
  `Spec => []ServedAge`.  The inductive invariant `Ages` relates the two dates of
  every element and of every copy in a running `Hit` (both were computed at
  insertion, so their difference is the lifetime, at most `Longest`), and says
  that a call began no later than now.
* `LifeNeverShortened`: `Spec => NeverShortened`.  An element is replaced only when
  its TTL is over, so the new TTL ends later; and `Ages` says that it was stored
  no later than now, so the new stale period ends no earlier.
* `OneClientNeverPanics`: with one client `Spec => []NeverPanics`.  The invariant
  `StillThere` holds because only the client itself could remove the element.
* `OneClientRemovesExpired`: with one client and a stale period at least as long
  as `Longest`, `Spec => HitRemovesExpired`.  The invariant `Held` says that the
  element does not change its date under a running `Hit`.  `cache_race_drops`
  shows that two clients are too many; that a shorter stale period removes valid
  elements is the first of the other divergences above.

`LifetimeBound` rests on `LeastNatural`, that a non-empty set of numbers has a
least element, which makes the `CHOOSE` of `getLowestTtl` defined for all sets of
TTLs.

`FitProofs` proves `FitTypeCorrect`, `FitCutsClosely`, `FitMarks` and `FitStops`
for all numbers of answers and all increasing lengths.  The loop invariant
`Searching` says that fewer than `min` answers are smaller than the buffer and `max`
answers are not;
`Monotone` carries what was found out about the middle to the lower end, which
moves by one only.  When the ends meet, exactly the counts below `max` are smaller;
at most one more has exactly the size, as lengths increase.

`HostsFileProofs` proves `UpdatesAreNotLost`, `Spec => []NoLostUpdate`, for all
contents and any number of changes.  The inductive invariant adds that what was
read earlier is not later than the file (`Earlier`: a smaller mtime, or the same
and no larger size), so that any change makes the recorded pair differ, and that
what was read after a stat is current as long as the stat is (`ReadCurrent`).
It rests on the order of the code, stat before read; the mutant that stats again
after reading breaks it.

`LookupsMean` is `Spec => []LookupMeaning`, `ReversesMean` is
`Spec => []ReverseMeaning` and `HostsTypeCorrect` is `Spec => []TypeOK`, for files
of any length and any names and addresses.  The invariant `LInv`
of that module says that the list is what `newHostlist` makes of the loaded lines
(`Parsed`); the rest is about that operator.  `ListIs`: the list has exactly the
entries of the usable lines, each once.  `ExactListed` and `MatchesListed`: the
addresses of the entries that `FindHosts` compares with the name are those that
`Listed` reads off the lines, for a name itself and for wildcards.  `OneAddress`:
two entries for one name with the same address are the same, so that a list
without repeated entries gives no repeated addresses; it needs that all names
were put in lower case before `add` compared them.  For addresses, the first entry
with the address comes from the first word of the first line that gives it: what
`add` leaves out is a repetition, and `Among` keeps the order.  The one assumption besides
the types is that `Lower`, for `strings.ToLower`, changes nothing a second time.

`ForwardProofs` proves, for any number of servers, stub zones, search domains and
dots (`BoundsAssumption`) and messages that are told from "none" and "failed"
(`ResultAssumption`, `QuestionAssumption`), the type invariant and `PositiveWins`,
`LiteralDecides`, `RcodeEvidenced`, `AnswerLinked`, `ResolveOrder`,
`FallbackOrder`, `AskedOnce`. All follow from one inductive invariant, `IInv`:

* `Control` and `Results`: which results are there at which control point, and
  from which exchange they come.  A reply is made of them, so `RcodeEvidenced`
  and `AnswerLinked` need to know them before there is a reply.
* `Chain`: the exchanges about one name are with the servers of one zone, from
  the first one on, all but the last passed over.  `FallbackOrder` speaks of the
  end, `Chain` also of a chain that is still growing, and of the name about to be
  asked for (nobody was asked for it yet), which is what `AskedOnce` needs.
* `Literal`: `absolute` is the result of the last server of the literal name.
* `Order`: the names asked for so far, against the domain the loop is at.
* `Positive`: a positive answer is in `r`, or is an empty one remembered in
  `nodata` while the search goes on, or has become the reply.  `PositiveWins` is
  this at the end.

`PromiseKept` is the refinement without its fairness: the initial states map to
initial states of `Resolve`, and every step to a step of it or a stutter.

`ServerProofs` proves, for any number of handlers and any requests
(`RequestAssumption`), the type invariant (no handler writes twice),
`AnswersTheQuestion` and `NegativesOnlyReverse`.  The inductive invariant `SInv`
follows the messages: what the map holds under a key belongs to it (`MapFits`),
what a call of `Hit` copied out, a stale message, a message about to be stored
and a reply belong to the key of the handler's request (`Fits`).  The map may
change between `Search` and the return of `Hit`; the copy is what keeps its
question.  `CacheUsedAsSpecified` is `Spec => C!Spec`, where `C` is the instance
of `Cache`: every step of a handler is a step of the cache or leaves it alone.
So the theorems of `CacheProofs`, which hold for all clients, hold of the cache
inside the server as far as `Cache`'s assumptions do.

`ResolvConfProofs` proves what `Clean` and `StoreAddress` do to contents of any
length: `CleanKeeps` (what others wrote stays), `CleanRestores` (`Clean` undoes a
registration), `RegisterAgain` (a second registration changes nothing).  The
operators are recursive functions, and the library's theorems on recursion and
induction take operators as parameters, so `RecursionProofs` states both in
first-order form: `SetInduction`, about a set of numbers, from the existence of
least elements, and `RecursionFixpoint`, that an equation has a solution if its
right side at an argument depends on arguments of smaller rank only (`Causal`).
`Joined`, `Kept`, `Uncomment` and `ServersIn` are instances of one scheme
(`IsFlatMap`); `Lines` recurses on the rest of the contents.  `LinesProper` and
`LinesOfJoined` say that splitting and joining are inverse on lines that end in
their only newline; the theorems follow line by line.

`LifecycleProofs` proves, for any files of others, flags, numbers of starts,
kills and changes, the type invariant, `Restorable`, `RestoredAtExit`, `NeverSelf`
and `UsersServers`.  `LifecycleAssumption` says that others write neither the
marks of go-dnsmasq nor the address it listens on.  The inductive invariant `LInv`:

* `Whole`, `OnTheWay`: the file is that of others or that with the registration,
  or an update is on its way, and what it wrote followed by what it will write is
  its result.  The contents of a file in the middle of an update are described
  only so.
* `Restored`: where the control point implies that `Clean` has run.
* `SelfMarked`, `SelfWritten`, `SelfToWrite`, `SelfCleaned`: the own address stands
  in the file only between `nameserver` and the mark of an addition, before,
  after and within updates.  This holds of files left half-way too, where the
  other conjuncts say nothing, and makes `NeverSelf` true after a crash: `Clean`
  removes every line that holds the address (`StripMarked`).

`IInv`, `SInv` and the two `LInv` were checked by TLC on the instances of the
runs, as invariants, before they were proved.

Only model-checked: liveness (`Answered`, `EveryRequestAnswered`,
`PicksUpChanges`, `SignalEnds`, the fairness of `KeepsPromise`), which the prover
does not handle.  Every invariant and every action property of a passing run is
a theorem.

## Plan

Done: all modules and proofs above.  Left: suffix matching of zones and domains
by labels.

## Not modelled

Wire format, logging, the flag table, sockets and systemd activation (library
I/O); metrics (counters that no decision reads) and their export; the text of
`/ping` and `/stats` (reading of counters that nothing depends on; the hit rate
reads a counter twice and can exceed 1); `KeyRRset` and `FindHost` (no caller but
tests); `RoundRobin` (an in-place shuffle of a private copy); the comments and
white space of the hosts file.
