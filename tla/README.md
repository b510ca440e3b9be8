# A TLA+ model of honeystack

honeystack is a honeypot in two editions. The **Go daemon**
(`src/go-honeypot/server`) opens a port for every fake service, records what
connects, and serves a dashboard; the older **Node edition** (`src/src`) does
the same with fewer services. This directory holds TLA+ modules for the
stateful core of the Go daemon, the TLC configurations that check them on small
instances, and proofs, checked by TLAPS, of the properties that should hold for
every size. Paths below are relative to `src/go-honeypot/server/` unless they
start with `docs/` (under `src/`).

To check: `tlc -config X.cfg M` for the run `X` of module `M` in section 3 (the
module is `MCM` where there is one), and `tlapm M.tla` for the modules whose
name ends in `Proofs`.

## 1. The system

A connection is accepted by a listener, checked against the blocklist, gets a
row in the session table, and is handed to the emulator of the service; a
datagram takes the same way, but its row is shared by all datagrams of the
source. The emulator calls `Store.Log` for everything the peer does. `Log`
stamps an id, pushes the event into a bounded ring, writes a line to
`events.ndjson`, asks the country resolver, and calls every subscriber: the
dashboard connections. The dashboard reads ring, table and statistics, and
changes the configuration, which the manager turns into listeners, and the
blocklist. A poller watches the public address of the host and tells a dynamic
DNS provider and a beacon, which a dashboard that lost its connection follows.

| component | state it keeps | operations | who calls it | what is hard | what makes it correct |
|---|---|---|---|---|---|
| **event store** `internal/eventlog` | ring, id counter, buffered writer, current file and one kept generation, size counter | `Log`, the 500 ms flusher, rotation, `Close`, replay at boot, reads | every handler; the API | crashes in the middle of a line, failing system calls inside a rotation, ids that restart | ids in order and bounded ring; disk bounded; nothing on disk twice, out of order or lost but by rotation; a boot shows what survived |
| **session table** (same package) | a row per session | `OpenSession`, `CloseSession`, counting in `Log`, pruning, rebuild at boot | the listeners, `ssh.go` | a full table of active sessions; SSH rows opened by authentication and closed by channels; two rules for counting | bounded; closed rows go first, oldest first; every session ends; counts agree with the events |
| **statistics** (same package) | counters since the start, a cached summary | `Events`, `Session`, `Stats` | the API | reads in two critical sections; times taken before the lock; a cache | nothing asked for is missed; a summary adds up and never goes back |
| **live feed** (`fanout`, `controlapi.handleWS`) | subscribers, a send lock per client, the socket | subscribe, hello, event, ping, close | `Log`, HTTP server | concurrent `Log` calls after the lock; a tab that stops reading | no event between snapshot and stream; `Log` returns |
| **listener manager** `internal/manager` | running listeners, status per service | `Sync`, `StopAll`, `List` | `main`, the API | requests that interleave, map order, ports taken by others, API outliving `StopAll` | status is true; a returned `Sync` enforced its configuration |
| **configuration** `internal/config` | current configuration, file | `Load`, `Set`, `Get`, merge with defaults | `main`, API | write and restart, services removed from the file | what is saved is what the next boot runs |
| **control API** `internal/controlapi` | clients, sessions of the dashboard | WebSocket commands, REST | the dashboard | `Set`, `Get` and `Sync` are three steps | a toggle takes effect |
| **blocklist** `internal/blocklist` | rules, hit counters, dirty flag, file | add, remove, match, save, flusher, `Close` | every accept; the API | concurrent saves on one temporary file, `dirty` cleared after the rename | no rule lost by a save; hits eventually saved; the file is whole |
| **geoip resolver** `internal/geoip` | cache, pending set, bounded queue, file | lookup, worker, expiry, save, `Close` | `Log`, `Stats`, the API | check-then-act between cache and pending; full queue, full cache | an address is asked for once at a time, and never stuck |
| **public address tracker** `internal/pubaddr` | address, history, last update | poll, dynamic DNS update, rate limit | its goroutine; the API | detect, publish and record are separate steps, restarts between them | the history is an unbroken chain; the name follows |
| **beacon** `pubaddr/beacon.go` | identity, published document | publish; the dashboard follows | the tracker | documents that expire, identities that are not saved | a dashboard finds the host |
| **listeners** `honeypots/base.go`, `generic.go` | socket, stop channel, table of UDP rows | `Start`, `Stop`, accept, read loop | manager | a datagram handled while `Stop` closes the sessions; many sources | every row dropped is closed; the loop ends |
| **emulators** `honeypots/*.go`, with `fakeauth.go` | a stage per connection | one per protocol | listeners | order of login stages; what each logs for an attempt | attempts are counted right; nobody gets in who may not; replies are small |
| **Node edition** `src/src/*.js` | listeners, SQLite rows, JSON configuration | as above | – | every `await` is an interleaving point | as above |

How they interact: the goroutines of all handlers, the flushers, one goroutine
per dashboard connection (and its ping), the poller and the geo worker share
the store. `docs/architecture.md` lists their locks. Those that matter here are
`Store.mu` (ring, table, writer), `Store.subMu` (subscribers), `Store.statsMu`
(summary), `client.sendMu` (one write at a time on a WebSocket), `Manager.mu`
(held for a whole `Sync`), `config.mu`, `List.mu` (entries, not the file) and
the two locks of `geoip.Resolver`.

`PROJECT.json` lists all components with what is and is not modelled, and under
`hazards` the places in the code where something hard to test can go wrong, each
with the properties that would catch it or the reason why none does.

## 2. The modules

| module | models | lines are mapped to |
|---|---|---|
| `EventLog` | event store: `Log`, flusher, rotation, shutdown, crash, boot | `eventlog.go`, `main.go` |
| `Sessions` (extends `EventLog`) | session table and the TCP and SSH handlers that feed it | `eventlog.go`, `base.go`, `ssh.go` |
| `Stats` | `Events`, `Session`, `Stats` while `Log` runs | `eventlog.go` |
| `Feed` | concurrent `Log` calls, `fanout`, `handleWS`, socket | `eventlog.go`, `controlapi.go`, `webapp/app.js` |
| `Manager`, over `Listeners` | `Sync`, `StopAll`, configuration requests, ports of the host; what the manager promises | `manager.go`, `config.go`, `main.go` |
| `Blocklist` | entries, hits and their file, by concurrent savers | `blocklist.go`, `rest.go` |
| `GeoIP`, over `Errands` | cache, queue, worker, file; what `Queue` promises | `geoip.go` |
| `PubAddr` | tracker, provider, beacon, a dashboard that follows | `pubaddr.go`, `beacon.go`, `controlapi.go`, `webapp/app.js` |
| `Datagrams` | UDP read loop, its table, `Stop`, the UDP emulators | `generic.go`, `netudp.go`, `vpn.go`, `blocklist.go` |
| `Dialogues` | what the TCP emulators and the SSH server log | `honeypots/*.go`, `eventlog.go` |
| `MC...` | sets and instances for TLC | – |
| `...Proofs` | theorems (section 4) | – |

`Sessions` composes the store with the handlers. The others meet at an
interface each models from its own side: an event is a `Log` in all of them, and
`OpenSession` and `CloseSession` are `active` in `Datagrams`.

Operators whose comment says `mutant` are deliberate bugs. No specification
uses them: each replaces the definition next to it to show that a property would
notice (`PROJECT.json`, `mutants`).

### EventLog

`Store.Log` holds `Store.mu` from the increment of the id to the rotation, so a
call is one action, `Log(b)`; readers of the store cannot see a state in
between. A kill waits for no mutex. Without a rotation, a call that is cut short
leaves what a later crash could leave as well (`Crash`); in the middle of a rotation
it leaves what neither does, so `KilledInLog(b)` is an action of its own: part of
the line, or all of it, is in the file (`HalfWritten`), or the rotation has flushed,
removed or renamed, and not reopened (`HalfRotated`). Data are lines, not bytes: an
event is an id and a body (and, for the properties only, the run of the process that
wrote it). What bytes decide is a choice:

- *When does `bufio` write?* `BufferLine` either keeps the line in the buffer or
  overflows: then everything before the line is in the file, and the line's
  beginning too, without its newline (`bare`) or without even the end of its
  object (`part`). `cut` says which, so that a crash leaves exactly that.
- *When is the file over the cap?* After `MaxFile` lines. `fileBytes` is a
  counter of its own, as in the code; it is taken from the file at boot and may
  drift from it after a failing system call.
- *What does a boot read?* A tail of `Budget` complete lines, behind the fragment
  that the seek lands in. The code's budget is 4 KB for each event of the ring
  (`ReplayLines`), and no more than the cap of the file.
- *Which line is too long?* That of an event in the set `Long`, and what is glued to
  it. `Log` cuts details and commands but not the user names of telnet and FTP, so a
  line may exceed the 4 MB that the Scanner of `replay` takes; then `replay` returns
  before it has set ring, counter and sessions (`GivesUp`), and the boot goes on with
  an empty store. `gaveUp` remembers that this has happened. Against the cap a long
  line counts as one line.

`rotateLocked` ignores the result of `Remove`, only logs a failing `Rename`, and
returns on a failing `OpenFile` with a closed handle; its outcomes are the
disjuncts of `Rotate`. `writer` has five states (`WriterStates`): the two kinds
of closed handle differ in whether the log path still exists, which decides
whether the next rotation can rename it. `FlushFails` is a full disk: `bufio`
keeps its error, and nothing is written until a restart. `Close` and `Drain` are
two actions because `Store.Close` only closes a channel and `main` returns
without waiting. `Die` keeps `ring` and `nextID`, which no longer exist, until
`Start` overwrites them, so that a property can compare before and after.

### Sessions

Extends the event store: each `Log` of a handler is a `Log` of `EventLog`
together with the counting of commands, each `Start` rebuilds the table from the
ring; a kill in the middle of a rotation (`KilledLogging`) comes while a handler logs.
The handlers are small state machines (`idle`, `opened`, `serving`,
`closing`, `gone`) with the calls in the order of `TCP.handle` and `ssh.go`: a
TCP connection opens its row, logs `connection`, runs the emulator, logs
`connection_closed` and closes its row in a deferred call; an SSH connection
opens its row with the first authentication attempt, and every session channel
closes it when it ends. Rows carry what pruning and the dashboard use (active,
opened, command count). The clock is the event counter, so rows opened between
two events are equally old and pruning may choose among them, as `sort.Slice`
may. `pruneSessionsLocked` is `Pruned`, with its two passes and its target of
80 %.

### Stats

Here `Log` is two steps, `Stamp` and `Commit`, because the time of an event is
taken before the lock that gives it its place: two goroutines can log in the
opposite order of their times. Reads are `Events` (an operator on the ring, for
every filter: `Walk` is the loop from the newest event back, up to the `Limit` that
the request named, or the default, and never more than the maximum), `Session` (two
steps, row and events) and `Stats`, where
`statsMu` is held from the look at the cache to the new cache (`Compute`,
`Serve`). `Summary` is `computeStats` as far as its parts depend on each other:
services, attempts, timeline, counters since the start. The clock counts the
buckets of the timeline; the start may have replayed an event of the run
before, which counters do not count.

### Feed

The part of `Log` that runs after the lock: a logger has recorded its event,
copies the subscribers under `subMu`, and for each takes the client's `sendMu`
and writes. The write goes through, returns an error remembered by the socket,
or blocks, when the peer has `Room` unread messages, until the deadline of five
seconds, after which the socket is broken. `handleWS` subscribes first, then
assembles the hello, then sends it under the same lock; the ping goroutine
competes for it. The tab reads, or stops reading, at any time. The ring of one
run holds the ids up to `nextID`, so a snapshot is `Newest(limit)` and the ring
is not a variable.

### Manager

`Sync` holds `Manager.mu` but takes the services in map order, one by one, in two
loops (`StopUnwanted`; `StartWanted`), and other goroutines can see what happens
in between: the API reads and writes the configuration, and other programs on
the host bind and release ports (`ForeignMoves`, over the `Contested` ports). A
request is `Set`, `Get`, `Lock`, the loops, `Unlock`. `StopAll` is deferred by
`main`; requests on hijacked WebSockets outlive it, so they may still run. Of
the configuration only ports matter; a service that is disabled or missing is
`Off`. All services share a protocol, so two cannot share a port. A start
(`TryStart`) binds only a free port (`Bound`) and may fail on any (`StartFails`): the
factory returns an error, or `Start` does, for a host key, a directory, a privileged
or an invalid port. The history `failure` remembers which services failed since the
last `Sync` began, and whether their port was held. `Listeners` is the abstract
promise, without lock, maps, loops and requests: one configuration is enforced at a
time (`goal`), a listener that is as wanted is left alone, others close, open or fail
one by one, `refused` for a port that somebody else may hold or `broken` for another
cause, and the configuration is let go (`End`) when every service is as it says or
was tried for this configuration and failed. The refinement mapping (`Promise`) takes
`goal` from the actor inside `Sync`.

### Blocklist

Memory and file. `Change` and `MarkDirty` are two steps, since the dirty flag is
set outside the lock, and so are `Blocked` and `HitMarked`. `save` is its system
calls: `Snapshot`, `Open` (which truncates the temporary file), `Write`,
`Rename`, `ClearDirty`. Files are identified by name *and* by the handle that a
saver holds (`held`): when two savers share the temporary file, one can rename
it while the other still writes, so that the write lands in `blocklist.json`
itself. A write over other content leaves a torn file when the old content was
longer (`Over`). A rename that fails, because the disk refuses or another saver has
taken the file away, is followed by a removal (`RenameFails`, `RemoveTmp`), which
takes what has the temporary name by then, whoever wrote it. `SaveFails` is a disk
that refuses the directory or the write, and `Restart` follows `Close` or a crash at any step. `alone`, `settled`,
`overlapped` and `window` are history variables for the properties.

### GeoIP and Errands

`Lookup`, `Claim`, `Send` and `Unclaim` are the steps of a caller, each under
one lock or on the channel; `Receive`, `Fetch`, `Store` and `Release` those of
the worker. Time is a flag: an entry is fresh until `Expire`, at any moment.
`Store` covers the six kinds of reply (`Replies`), of which only a usable one is
not a failure; a full cache takes nothing. The flusher and `Close` save through
`Snapshot`, `Replace` (temporary file and rename: one saver at a time, as `Close`
waits for the flusher) and `ClearDirty`. `Errands` is the abstract promise: per
address `idle`, `asked`, `doing`, with one at a time `doing`. The refinement
mapping (`Errand`) reads these from `pending` and `job`.

### PubAddr

`checkOnce` in its steps: `Detect`, the update (`NoUpdate`, `Accepted`,
`Refused`), `Publish`, and for a changed address `Record` and `Save`; between any
two the host may move (`Move`) and the daemon crash (`Crash`, which resumes from
the file; `Restart` is a graceful one, which waits for the check). `recent` is
the minute of the rate limit. The relay keeps one document per topic and forgets
it (`DocumentExpires`); a restart without a saved identity draws another topic.
The dashboard reconnects to the address it knows and, from the second attempt
on, to the one in the document of the topic it knows; a restart draws a new auth
key, which the operator may enter.

### Datagrams

The loop takes one datagram at a time through `Top`, `Read`, `Admit` (the
blocklist), `SessionFor`, `Handle` and `Reply`; `Stop` is `Cancel`,
`CloseSessions`, `CloseSocket` on another goroutine, which may come between any
two of these. `OpenRow` is `sessionFor` for a source without a row: what is idle
leaves the table and, if it is still too large, the source unheard for longest
(`Evict`). Emulators are functions of the datagram (`Answer`); the datagrams are
the shapes an emulator tells apart, at the lengths where its answer changes, and
of an answer the type of the event and the length of the reply are kept. A
panic in a handler is an event and no reply.

### Dialogues

One connection to one service, a step per line, packet or request. An emulator
is an action; its alternatives are the events the handler logs at that stage and
the next stage. Credentials are two words or none; `ShouldAccept` is the set of
verdicts `fakeauth.go` can give, both where chance decides. `Attempts` and
`Rejected` are what the statistics make of the events (`serviceAgg.attempts`).
Telnet is modelled to the character class, since its line ends are the point.

## 3. What the runs show

The `pass` runs check their properties on the whole state space of the bounded
instance. Where a run switches the deadlock check off, the system may stop: the
process ends after its last run (`EventLog`, `Sessions`), all events of the bound
have been logged and the tab is gone (`Feed`), all requests have been served
(`Manager`), the peer has nothing more to say (`Dialogues`). The others run it.

### Runs that pass

**`EventLog_safety`** (module `MCEventLog`) – a ring of 2, a file of 4 lines and the
kept generation, a tail of 3 lines, 6 ids per run, 4 runs of the process, up to 2
failing system calls, and a first event whose line is too long. As with the default
options, the tail is shorter than the cap and longer than the ring, so a boot may
seek or not, and may find a torn line in what it reads; the fifth line rotates; four
runs let a run follow one that followed a torn line, and let ids restart behind the
long line and a later boot read past it; kills inside a rotation are bounded by the
runs; two faults are what a rotation needs to fail in both its calls.

- `TypeOK`: besides types, nothing is buffered in a writer that cannot write.
- `RingInOrder`: the ring is bounded, in the order of logging and not ahead of the
  counter, over restarts that take the counter from the replayed tail; and its ids
  increase, until a boot has given up on a long line. After that the counter starts
  again in front of larger ids that a later boot may read.
- `DiskInOrder`: over the kept generation, the file and the buffer, no event
  stands twice or before an earlier one of its run.
- `DiskBounded`: a file is at most one event over the cap, plus another cap for
  each failing system call, plus an event for each rotation that a kill cut short
  (the file was not moved, and the next run writes before it rotates).
- `OnlyRotationMovesLines`: a complete line stays, or moves to the kept
  generation; no crash or failing call destroys one.
- `RestartShowsWhatSurvived`: a boot shows every event that the ring showed
  before and the file still holds, if the tail it reads has room for the ring and
  for the lines that do not parse, and none of its lines is too long.

**`Sessions_table`** – two TCP connections and one SSH connection with up to two
channels, a table of two rows (its target is then one), a ring and a file of three
lines, ids up to 3 and two runs of the process. Three connections are the fewest with
which a table of two rows prunes while all of them are active, and two channels the
fewest for which one closes the row while the other is open. The ring is larger than
the table, as it is by default, so a boot can rebuild three rows over the cap of two.
That a connection is accepted onto such a table takes a fourth one, with which the
run no longer ends in minutes; there the bound rests on the theorem.

- `TableBounded`: the table is within `maxSessions` while a connection lives; only
  the table of a boot may be larger, up to a row for each event of the ring, until
  the first connection comes.
- `EvictsOldestClosedFirst`: pruning, with all of its choices between rows of equal
  age. Active rows go too, but only when no closed one is kept.
- `CountsCoverRing`: the command count of a row is at least the number of command
  events in the ring, through pruning, eviction from the ring and the recount at
  boot. It is not equal: the ring forgets, and the recount counts `exec` too.
- `TcpSessionsEnd`: each TCP row is closed or evicted in the end.

**`Stats_answers`** – two goroutines that log, two dashboards, a ring of three events
of which one may be replayed from the run before, a timeline of two buckets, three
new events, one session; requests that name no limit, two or three, where the default
is one and the maximum two; a cache that is fresh for one tick. Two loggers are the
fewest whose times and places can be in opposite order; three events behind a
replayed one are more than the ring holds, and three in the ring more than the
maximum lets through; two dashboards are the fewest of which one can overwrite the
other's summary. Loggers and dashboards are symmetric; the run checks safety only.

- `EventsFindAll`: for every filter, the events page and the REST answer miss nothing
  they were asked for, short of the limit: 200 when none is named, and never more
  than 20,000, though the ring holds 25,000 by default, so that who asks for more gets
  the newest 20,000.
- `DetailCoversRow`: a session's detail lists every command its row counts, unless
  the ring has dropped events of the session. (The order of the two critical
  sections decides it: the other order breaks the property.)
- `SummaryAddsUp`: services add up to the total, the total to what was replayed
  and logged, the timeline to the events of its hours.
- `SummaryNeverGoesBack`: a summary served is never older than one served before.

**`Feed_stream`** – two concurrent loggers, one dashboard connection, a hello of
two events, a socket of two messages, three events. Two loggers are the fewest
that can overtake each other; three events are one more than the hello holds.
One client is enough: the clients share nothing but the loggers, and what a
second client does to a logger is to delay it, which any behaviour here may do
anyway.

- `NoGap`: once a `Log` has returned, a client whose socket is intact was sent the
  event or has it, or younger ones, in its hello.
- `LogReturns`: no call of `Log` waits for good, although the tab may stop reading
  at any time.

**`Manager_sync`** – two services, two ports of which one may be taken by another
program, two requests besides `main`: the smallest instance with two services
that swap ports, two requests whose steps interleave, and a port that comes and
goes.

- `StatusIsTrue`: a service has status `running` exactly if it has a listener; no
  two listeners, and no listener and another program, have one port.
- `ListenersPromise`: the manager implements `Listeners` (refinement). In
  particular, when a `Sync` returns, every listener is wanted and on its port, and a
  wanted service without one was tried in this `Sync` and failed; until then only
  listeners that are not as wanted were touched.
- `SecondSyncSettles`: repeating a `Sync` starts whatever wants a port for itself
  that nobody else may hold, unless the start failed in this `Sync` for a cause other
  than the port.
- `RequestsReturn`: every request gets through its `Sync`.

**`Blocklist_save`** – one address and a range around it, two reasons, a request,
the flusher and main, two changes, one hit per entry, one fault (a refused save or
a crash). The three goroutines are the savers that can overlap: two overlapping
saves are enough for every outcome of the shared file. Two changes let an older
snapshot meet a newer list; `Close` and restart are not bounded.

- `ListIsSaved`: once the last save ran alone and worked, and nobody is in the
  middle of a change, the file lists what the list does.
- `HitsAreSavedOrDirty`: of the hits, only those counted while a save ran can be
  missing from the file with the dirty flag down.
- `WholeUnlessOverlapped`: as long as no two saves overlap, the file is whole at
  every moment.
- `DirtyIsFlushed`: what could not be saved is saved later, while there is an
  entry and the daemon is up.

**`GeoIP_lookup`** – two addresses and a private one, two callers, a queue of one, a
cache of one, one crash. Two callers race for one address between cache and
pending; a queue and a cache of one are full while the other address comes.

- `PendingIsOwned`: every pending address is in exactly one pair of hands, and
  none is queued twice.
- `ErrandsPromise`: the resolver implements `Errands` (refinement).
- `AskedAgainForCause`: the provider is asked about an address whose answer is
  fresh only when a caller had missed it before the answer came. The race between
  the cache and the pending set is thus the only one, and the exception to "a
  given IP is only ever asked about once" (`geoip.go:5`).
- `PendingIsReleased`: no address stays pending, unless the daemon stops.

**`PubAddr_follow`** – two addresses, two moves (there and back), a history of two,
two topics, one fault (a failing poll, update, publication or save, a lost
document, a crash), any number of graceful restarts. Two moves with a history of
two trim it; a move back makes an address appear twice; two topics let an
identity be lost.

- `HistoryIsChain`: the recorded changes lead from address to address without a
  gap, in memory and in the file.
- `NameFollows`: the registered name ends up at the address of the host.
- `TrackerFollows`: so do tracker and history.
- `DashboardFindsHost`: a dashboard that reads the topic in use gets to the host.

**`Datagrams_udp`** – three sources, one of which may be blocked, room for two rows,
a window of three ticks, a clock of four, every emulator and every datagram of
`Datagram`. Three sources are one more than the table holds; with four ticks rows
go idle before and after their refresh.

- `ActiveRowsAreTabled`: the rows shown as active are those of the table, one per
  source.
- `RowsAreLatestHeard`: the table is the cap's worth of sources most recently
  heard, which says what three rules in one function (expiry, cap, refresh) are for.
- `StopLeavesAtMostOne`: `Stop` leaves at most one active row behind: that of the
  datagram in hand.
- `NoAmplification`: DNS, SNMP, NTP, WireGuard and L2TP answer with no more bytes
  than they got. The other services do not keep this (see below).
- `LoopEnds`: once `Stop` has run, the loop ends.

**`Dialogues_tcp`** – all thirty services, each under four configurations of the fake
authentication (both lists against each other, names by list, everything by
chance), up to four tries with two words, eight telnet lines, three counted
commands or messages. Four tries are one more than the telnet emulator allows.

- `AttemptsAreTries`: what the statistics call attempts and rejections is what the
  peer did, for every service but four (see below).
- `InsidersAreAllowed`: who has a shell, or is logged in for SMTP, was let in
  under that name with the password that came with it, and no list forbids it.
- `TelnetGuesses`: a guess takes two lines, however lines are ended, and the third
  wrong one is the last.

### Fairness

| assumed | why the code justifies it |
|---|---|
| a TCP handler that is not waiting for its peer continues, and the wait ends (`FairHandlers`) | goroutines are scheduled; `base.go` sets a deadline on the connection, after which reads fail and the emulator returns |
| loggers continue; whoever writes to a socket ends the write (`FairFeed`) | goroutines; `client.send` and the ping set a write deadline of five seconds. Nothing is assumed of the tab, and nothing of a client that waits for a logger |
| a running `Sync` continues (`FairManager`, weak) | binds do not block; `Stop` waits for its handlers at most until their deadline |
| `Lock` is strongly fair | a waiter of a `sync.Mutex` that fails to get it for a millisecond puts the mutex in starvation mode, where it is handed over in order |
| requests mark what they changed, savers take their steps, hits are marked, the flusher's tick comes (`BlocklistFairness`, weak) | goroutines and a ticker of 30 s. Nobody is obliged to connect, to change the list or to stop the daemon |
| the worker and callers of the resolver continue (`GeoFairness`, weak) | goroutines; the worker waits for a ticker and for an HTTP client with a time-out. Nothing is assumed of expiry, saves or shutdown |
| a check goes on, in success or failure; the ticker brings another; minutes pass; the dashboard tries again (`PubFairness`, weak) | every HTTP call has a time-out of 10 s; tickers; a timer of the page. Moves and faults end by their bounds: what is shown is what holds once the address stays and nothing fails any more |
| the UDP loop takes its steps (`LoopStep`, weak) | a read has a deadline of two seconds, emulators are pure |

`Stats` and `Dialogues` state no fairness: their properties are safety.

### Disagreements with the documentation

Two have a run that finds them in the models of the passing runs:

| run | what the documentation says | what the code does |
|---|---|---|
| `EventLog_GracefulStopFlushes` | `docs/storage.md:86`: a graceful stop flushes and fsyncs | `Close` wakes the flusher and `main` returns; up to 500 ms of events can be lost |
| `Sessions_EndedSessionsAreClosed` | `docs/architecture.md:99`: the path ends in `CloseSession()` | an SSH connection that never opens a channel leaves its row active until it is pruned |

The others were met while modelling; the properties above are stated so that they
hold beside them:

- `docs/storage.md:68`, a partial line at the tail is recoverable: boot does not
  terminate it, so the first event of the next run is glued to it and lost too.
- `docs/storage.md:69`, replay skips lines that do not parse, and `:100`, the id is
  restored from the replayed tail on boot: one line over 4 MB in the tail makes
  `replay` return before it has set anything (`eventlog.go:399`), and `NewWithOptions`
  only logs that. The dashboard starts empty and ids start from 1, in front of larger
  ones that a later boot may read. `RestartShowsWhatSurvived` and `RingInOrder` except
  this (`GivesUp`, `gaveUp`).
- `docs/storage.md:153`, disk use is bounded by twice `maxLogFileMb`: an event more
  after a rotation that a kill cut short, and a cap more after a rename that failed
  (`DiskBounded`).
- `docs/storage.md:126` and `:255` and `docs/architecture.md:196`, the session table
  is bounded by `maxSessions`: the table that a boot rebuilds has a row for every
  session of the ring (`maxLogRows`, 25,000, where `maxSessions` is 20,000) and is
  not pruned until a connection opens a row (`TableBounded`).
- `docs/storage.md:150`, rows are evicted oldest-closed-first and active sessions are
  kept: when more than `maxSessions` are active, the oldest of them are evicted too
  (`EvictsOldestClosedFirst`).
- `docs/storage.md:170`, boot rebuilds session rows from the replayed events: it
  counts `exec` as a command, which `Log` does not.
- `docs/architecture.md:179`, a hello and then every event: an event may overtake
  the hello, and the tab's list is replaced by the older snapshot.
- `docs/architecture.md:105`, a slow client cannot stall ingestion: the write is on
  the goroutine that logs, which waits up to five seconds per stalled client.
- `docs/architecture.md:111`, `Sync` is idempotent: of two services that swap ports
  the first to be restarted fails, and the next `Sync` starts it.
- `docs/architecture.md:188`, a toggle becomes a listener change: `Set`, `Get` and
  `Sync` of two requests interleave, and the older configuration may be synced last.
- `docs/storage.md:63`, the blocklist is written atomically: `save` has no lock, and
  two savers share one temporary file; overlapping saves can leave a torn or empty
  `blocklist.json`, which loads as an empty list, where
  `src/go-honeypot/README.md:358` says that the list survives restarts.
- `docs/storage.md:258`, `docs/architecture.md:138` and `:195`, a UDP reply is never
  larger than the request: TFTP, SIP, OpenVPN, IKE and the generic banner can be.
- `eventlog.go:892` explains that the shape of the data tells how attempts are to
  be counted: LDAP logs both kinds of attempt, a MongoDB login counts as two, a
  Docker request with credentials that is no GET or HEAD counts as a command only, and
  the credentials of a Squid request with a relative path or an unknown method are
  logged without an attempt (`proxy.go:126`, `:132`).

Also noticed: after a full disk `bufio` returns its error until the next restart;
`rotateLocked` removes the kept generation before it renames, so a failing rename
loses it (`DiskBounded` and `OnlyRotationMovesLines` allow for it); the HTTP service
emulators log with
session ids that were never opened (`http_services.go:61`); a new protocol on the
same port is handed to `UpdateConfig`, which does not rebind (`manager.go:110`);
`save` clears the dirty flag over hits counted while it ran; when the last entry
is removed and that save fails, no flush follows before `Close`, and the entry is
back after a crash.

## 4. What is proved

TLC shows the properties for the instances above. The theorems hold for every
value of the constants that meets the assumptions, which are named in the modules
(`EventLogAssumption`, `FeedAssumption`, ...): sizes are naturals, positive where
the code has no use for zero, the sets of goroutines, services
and sources that are counted are finite, and distinguished values (`Off`, `None`)
are distinct from the others. No assumption is made about what the environment does.

Each invariant `Inv` is proved as `Init => IInv`, `IInv /\ [Next]_vars => IInv'`
and `IInv => Inv`, with one lemma or step per action; temporal steps only combine
these.

| module | theorem | says | property of a run |
|---|---|---|---|
| `EventLogProofs` | `Invariance`, `TypeCorrect`, `RingStaysInOrder` | the ring is bounded and in the order of logging for every size of ring, file and tail, and its ids increase until a boot gives up on a long line | `TypeOK`, `RingInOrder` |
| | `DiskInvariance`, `DiskStaysBounded`, `DiskStaysInOrder`, `LinesOnlyMove` | the two files are bounded, by the cap, the faults and the rotations cut short; their events are in order; no step destroys a whole line | `DiskBounded`, `DiskInOrder`, `OnlyRotationMovesLines` |
| | `RestartShows` | a boot shows what the ring showed and the file still holds, if the tail it reads has room for the ring and for the lines that do not parse and no line in it is too long | `RestartShowsWhatSurvived` |
| `SessionsProofs` | `SessionsImplementEventLog` | handlers and table implement the event store: its theorems hold under them | – |
| | `SessionsInvariance`, `TableStaysBounded`, `CountsStayCovering`, `OldestClosedGoFirst` | the table is within `maxSessions` while a connection lives, and within the ring otherwise; its counts cover the ring; closed rows go before active ones, oldest first | `TableBounded`, `CountsCoverRing`, `EvictsOldestClosedFirst` |
| `ManagerProofs` | `ManagerInvariance`, `ManagerTypeCorrect`, `StatusStaysTrue`, `SyncsEnforce` | at most one `Sync` runs; status is true; a `Sync` enforces its configuration, but for what fails to start | `StatusIsTrue` |
| | `SecondSyncsSettle` | a repeated `Sync` starts what has a port of its own, unless the start fails for another cause | `SecondSyncSettles` |
| | `ManagerImplementsListeners` | the manager implements the abstract specification | `ListenersPromise` |
| `DashboardProofs` (`Feed`) | `FeedInvariance`, `FeedHasNoGap` | no event falls between snapshot and stream | `NoGap` |
| `DashboardProofs` (`Stats`) | `StatsInvariance`, `DetailsCoverRows`, `SummariesNeverGoBack` | a detail lists what its row counts; a summary served is never older than one before | `DetailCoversRow`, `SummaryNeverGoesBack` |
| | `SummariesAddUp`, `EventsAreFound` | a summary adds up; `Events` finds all it is asked for, within the clamped limit | `SummaryAddsUp`, `EventsFindAll` |
| `BlocklistProofs` | `BlocklistInvariance`, `FileStaysWhole`, `ListStaysSaved`, `HitsStaySavedOrDirty` | what a save that ran alone leaves | `WholeUnlessOverlapped`, `ListIsSaved`, `HitsAreSavedOrDirty` |
| `GeoIPProofs` | `GeoInvariance`, `GeoTypeCorrect`, `PendingStaysOwned` | queue and cache are bounded; a pending address is in one pair of hands | `PendingIsOwned` |
| | `GeoImplementsErrands` | the resolver implements the abstract specification | `ErrandsPromise` |
| | `AskedAgainOnlyForCause` | an address is asked for again only for cause | `AskedAgainForCause` |
| `PubAddrProofs` | `PubInvariance`, `PubTypeCorrect`, `HistoryStaysChain` | the history is bounded and a chain, in memory and on disk | `HistoryIsChain` |
| `EmulatorsProofs` (`Datagrams`) | `DatagramsInvariance`, `DatagramsTypeCorrect`, `ActiveRowsStayTabled`, `StopLeavesOneRow`, `QuietServicesStaySmall` | the table stays within its cap and every row dropped is closed; replies of the quiet services are small | `ActiveRowsAreTabled`, `StopLeavesAtMostOne`, `NoAmplification` |
| | `RowsStayLatestHeard` | the table is always the sources heard last | `RowsAreLatestHeard` |
| `EmulatorsProofs` (`Dialogues`) | `DialoguesInvariance`, `AttemptsStayTries`, `InsidersStayAllowed`, `GuessesTakeLines` | attempts are counted once, but for four services; who is in was let in; a telnet guess takes two lines | `AttemptsAreTries`, `InsidersAreAllowed`, `TelnetGuesses` |

With these, every invariant and every action property that a run checks, and the
two refinements, is a theorem; what TLC alone shows is liveness. Two modules hold
the proofs of two components each; the components share nothing but the module.

The inductive invariants, and why the properties need them:

**`EventLog`.** The two bounds of `RingInOrder` need only themselves. That its ids
increase is not inductive: a boot builds the ring from the
file, so it needs the file to be in order, and a flush extends the file by the
buffer, so the two must fit together. The file as a whole is *not* in order: after
a tail in which nothing parses, ids start again from 1 behind larger ones. What is
true is that the tail the next boot would read is in order. `IdsGrow` therefore says:
within that window (`WindowStart`) the parsable lines are in order, the buffer is,
all of the window is below all of the buffer, and, while the process is up, the
counter is not behind either. A boot that gives up on a long line restarts the counter
without regard to the window, so `IInv` claims `IdsGrow` only until then (`gaveUp`).
The order of logging, by run and id, does not depend on the counter; it is part of
`DiskInv` below. The lemmas follow the operations: the window only
moves forward when lines are added (`WindowMoves`), adding the buffer, a torn line
or an event keeps the order (`ExtendInOrder`, `TearInOrder`, `AppendInOrder`), so do
the outcomes of a rotation (`RotateInOrder`) and of a write (`WriteLineInOrder`),
a kill in the middle leaves nothing that the finished steps would not
(`KilledInOrder`), and a replay yields an ordered ring with the counter at its top
(`ReplayInOrder`).

The properties of the files need more, `DiskInv`. *Size*: `Log` compares `fileBytes`
with the cap, and a rotation that could not move the file restarts that counter at
zero. `SizesKept` says that the counter lags behind file and buffer by at most one
full file for every failing call and one event for every rotation that a kill cut
short; the buffer is counted with the file because
rotation and boot meet the two as one. *Order*: ids restart, so events are compared
by run and id (`EventsKept`): the kept generation is before the file, the file
before the buffer, and nothing on disk is ahead of the current run's counter. The
same with the order of the ring is what `RestartShows` needs: whatever follows an
event of the ring on disk is in the ring too, with a higher id, so that the tail a
boot reads has to reach back no further than the ring does. *Rotation*: `GoneIsEmpty` says that a log path that could not be
reopened has no content that the next rotation could lose.

**`Sessions`.** The first theorem is that every step is a step of `EventLog` or
leaves it alone, so that `DiskInv` may be used. `SessInv` adds what relates rows to
events. `CountsCoverRing` fails in an induction where a row is *opened* with a count
of zero, if the ring could already have events of that session; `Newcomers` says
that of a connection not yet accepted neither the ring nor the file and the buffer,
from which a boot would rebuild, hold any. That the table is bounded rests on what a
prune takes: its target or all closed rows, then the rest from the active ones
(`EvictsOldestClosedFirst` is the same fact about the step), so that the row a
connection opens brings even a rebuilt table within `maxSessions`; and on
`NobodyLeft`: no connection lives when the process is down, so none is there while
the rebuilt table is larger.

**`Manager`.** `SyncEnforces` speaks of the moment a `Sync` returns; `IInv` says what
the loops have achieved until then. In the first loop, a listener that is not
wanted is one still to be visited (`Stopping`). In the second, every listener is
wanted, those visited are on their port, and a visited service without a listener
has status `error` and a `failure` of this `Sync` (`Starting`; `Untried` says that
nothing has failed before the second loop but what the first restarted). Both survive because only one actor is inside
`Sync` (`OneSync`), because nobody else changes listeners meanwhile, and because
another program cannot take a port that a listener holds.

For `SecondSyncSettles` one has to know what a second `Sync` finds: whatever runs is
on the port that the last `Sync`, or the one under way, gave it (`RunsAsSaid`). So a
repeated one has nothing to restart, a port that only one service wants is free, and
what the second loop has visited runs (`VisitedRuns`). The refinement of `Listeners`
needs nothing but `IInv`: `OneSync` makes `goal` a set of at most one, `Stopping` and
`Starting` are the guard of `End`, and `failure` is the union of `refused` and `broken`.

**`Feed`.** `NoGap` speaks of finished calls and live clients. While the call is under
way the event is *on its way*: a logger that has it still has to collect its
subscribers, or has the client among those to call (`Carries`). `AllCovered` says
that from its snapshot on a client has every event, in its stream or its hello, or
one is on its way. It is kept because a client with a snapshot has subscribed
before (`Subscribed`), so that a later collection finds it: the order in `handleWS`
that the proof rests on.

**`Stats`.** `RowsAreListed` says that no row counts more commands than the ring lists,
unless the ring dropped some, and that a detail that has read its row will find at
least as many: the ring only gains between the two locks. `SummariesAgree` says that
at most one caller is computing (`statsMu`), and that what it has is between the
cache and the counters. `CountersAgree` relates ring and counters since the start.
`SummaryAddsUp` and `EventsFindAll` are about values computed by recursion, a sum over
a set and a walk over the ring. They are proved by the least counterexample: among
the sets (or prefixes) for which the claimed value is wrong one is smallest
(`LeastNatural`), and the recursion takes it from a smaller one, where it is right
(`AddsUp`, `OneMoreCollects`); that a function satisfying the recursion exists is
shown the same way (`TotalsAddUp`, `WalkExists`).

**`Blocklist`.** `Alone` says that a saver that has run alone so far is the only one
with a file open, and that this file is the temporary one. `Carries` follows its
content through snapshot, temporary file and name: it is the list, unless somebody
is in the middle of a change, who will save after it, or the saver is about to remove
it after a failed rename. `Rests` says that what was
brought stays the list until the next change or hit. The hits agree but for the
`window` counted during the save, over which `dirty` is cleared.

**`GeoIP`.** `Hands` gives everybody who is under way exactly one address, so that
`PendingIsOwned` can be kept by each step that passes an address on; `CopiesBounded`
bounds the snapshot and the file, from which a restart fills the cache. The
refinement needs `PendingIsOwned` to show that an address begun was not begun
already. `CauseInv` adds why a pending address may have a fresh answer: it came
between a caller's look at the cache and its claim.

**`PubAddr`.** Recording appends to the chain only if the previous address is the last
recorded one. `Recorded` says at which steps of a check it is, and that between two
checks the tracker's address is. A failed save leaves an earlier history in the file,
which is a chain too, so a crash resumes from the last address of a chain.

**`Datagrams`.** `Stopping` says what the loop can have in hand when `Stop` has
emptied the table: before `SessionFor` nothing, after it at most one row, and then
the loop finds its context cancelled. That the table stays within its cap needs
that among the rows some one is least recently seen (`EvictLeavesCap`).
`RowsAreLatestHeard` needs `HeardInv`: a row carries the time its source was heard
(`RowsAreStamped`), no two sources were heard at one time (`HeardOnce`), no source
heard between two rows is missing (`RowsHaveNoGap`), and who has no row was heard too
long ago or before enough others (`PushedOutForCause`). The third is what makes the
row that the cap pushes out the right one.

**`Dialogues`.** Thirty services count in one of three ways: with an event for every
attempt and a success on top, by the outcome, or inconsistently (the four of section
3). `CountsInv` says for the first two what the counters are at any moment;
`OutcomeIs` and `VerdictIs` reduce the steps of all services to those of a guest who
asks and is told. `GuessInv` counts the line of the name that a telnet guess in
progress has already taken.

### What the proofs changed

The rules of `ShouldAccept` were a `CASE` whose guards overlapped (a name on the
reject list with a password on the other list). TLC takes the first guard that holds;
in TLA+ the value is open, and `InsidersAreAllowed` could not be proved. It is now
the chain of conditions that `fakeauth.go` has. `Events` was a filter and a suffix of
its result, and is now the loop of the code, which stops at the limit. That the
table is within `maxSessions` as soon as a connection lives was found by asking what a
rebuilt table of any size becomes, and is more than the sizes of the run can show.

### What stays with TLC

- Liveness (`TcpSessionsEnd`, `LogReturns`, `RequestsReturn`, `DirtyIsFlushed`,
  `PendingIsReleased`, `NameFollows`, `TrackerFollows`, `DashboardFindsHost`,
  `LoopEnds`) and anything under fairness: the prover does not reason about
  `ENABLED`.
- The two disagreements with the documentation, which are counterexamples.

## 5. What is left out

- *Of the store*: truncation of details (`capDetails`); geo annotation; power loss
  (nothing but shutdown syncs, so a crash here is one of the process). Other read
  errors at boot do what a long line does. A `Flush` that fails inside a rotation
  (`rotateLocked` ignores it) would lose the buffer; only the flusher's failing one is
  modelled. A `Log` after `Drain` writes nothing here; in the code it would still
  buffer and could rotate in the instant before `main` returns. That lines are lost
  until the next restart once a flush has failed is in the model; no property is
  about it.
- *Of the statistics*: the rankings (addresses, countries, credentials, commands,
  paths, clients), daily buckets and heat map, which count as services and hours do;
  the lists of sessions and countries; the clamp of the WebSocket request to 5,000
  (`controlapi.go:548`) in front of the one of `Events`.
- *Of the sessions*: `SetSessionUsername` (a write to a row that no property reads),
  and the HTTP service emulators, which have no rows.
- *Of the feed*: replies to requests, which use the same lock as the ping; what the
  tab does with a message; authentication. The WebSocket library is modelled by how
  `controlapi` uses it.
- *Of the manager*: `Register` and `SetFallback` (before anything runs), `List`
  (reads), `UpdateConfig` (no state of the manager), the protocol of a listener. `Stop`
  is one step, and that it returns is assumed: it waits for its handlers, under
  `Manager.mu`, until their deadline. A UDP loop that a read error has ended is still
  shown as running. No property forbids that an older configuration is synced last
  (section 3), or that a request that outlives `StopAll` starts listeners again.
- *Of the blocklist*: parsing and normalising of addresses (keys are normalised),
  the index of ranges; a save of the rules in the configuration.
- *Of the resolver*: names and codes of countries, the rate of the worker (a tick).
- *Of tracker and beacon*: a change of the configuration while it runs, the echo
  services, encryption of the document; a dashboard behind a proxy; the tab's own
  failures, after which it tries again: a fetch that fails, a signature that does not
  verify (`app.js:930`), a browser without WebCrypto, which cannot follow (`app.js:883`).
- *Of the UDP listener*: the bytes of datagrams and replies.
- *Of the emulators*: wire formats, the text of replies, the fake shell's commands,
  and what captures keep of a payload.

## 6. Not modelled

- *The configuration file*: `Load`, the merge with the defaults at boot
  (`config.go:305`, by which a service removed from the file comes back), `Set` on a
  failing disk. Only the configuration in memory is in `Manager`.
- *Start and accept loop of a TCP listener*: `Manager` has the bind, `Sessions` the
  connections.
- *The Node edition*: the same design on one thread, with fewer services.
- *The dashboard* but for its connection: presentation. *Scripts* are outside the
  program; *vendored libraries* are third-party code.

## 7. Plan

Done: `EventLog`, `Sessions`, `Feed`, `Manager` with `Listeners`, `Blocklist`, `GeoIP`
with `Errands`, `PubAddr`, `Datagrams`, `Dialogues`, `Stats`, and proofs of all their
safety properties. Next, in this order:

1. `Config`: file and memory through `Set`, a failing write, a crash and the merge
   at boot.
2. An abstract specification of the event store, a history of events from which
   reads and restarts take suffixes, and `EventLog` shown to implement it; one of the
   blocklist, a set that survives restarts but for the saves that overlap.
3. The protocol of a listener in `Manager` and `Listeners`, with `UpdateConfig`.
4. The Node edition: `syncFromConfig` with its awaits, and the store.
