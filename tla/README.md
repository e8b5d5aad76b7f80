# A verification project for logstat

`logstat` counts code words in a growing log file and keeps the counts in
Redis. The counts are its only product, so the question this project asks first
is the one its users would ask: *is every match counted, and counted once,
whatever Redis, the network, the operator and the process itself do
meanwhile?* Around it are the questions of the other parts: which lines of the
log reach the counter, when a key may expire, what a scrape may show, whether
records survive a rotation of the log, what a checked configuration guarantees.
The modules here model the program in TLA+, TLC checks them on small
instances and TLAPS proves the central results for every instance.

Paths below are relative to the repository root.

## 1. The system

| Component | State | Operations | Talks to |
|---|---|---|---|
| Counter (`internal/counter`) | `pending`, `matched`, `lines` under one mutex | `ProcessLine`, `Drain`, `Restore`, getters | consumer, flush, exporter |
| Store (`internal/store`) | two keys per word in Redis: the counter and the heartbeat string `lines=N`, each with or without an expiry | `Init` (SETNX, GET, SETNX), `Touch` (EXPIRE/PERSIST pipeline), `Incr` (INCRBY, EXPIRE), `SetHeartbeat`, `Reset` (SET, SET), `Counters` (MGET) | Redis |
| Daemon (`internal/daemon`) | `initialized`, `pendingHeartbeats`, `pendingResets`, `redisDown`; the locals of `Flush` and `Reset`; the channels of `Run` | `Run`, `Flush`/`flushAction`, `Reset`, `ensureInit`, `refreshTTL`, `drain`, `consume` | all of the others |
| `logstat clear` (`cmd/logstat`) | none | `store.Reset` for one word or all | Redis, behind the daemon's back |
| Lock file (`internal/lockfile`) | a file, its flock, the PID in it | `Acquire`, `Release` | other processes, systemd |
| Exporter, status page (`internal/metrics`) | scrape error counter, the listener | scrape, render, serve, shut down | counter, Redis, `Run` through `metricsErr` |
| Logging (`internal/logging`) | the log file under a mutex, the channel of SIGHUP | `Write`, `Reopen`, `Close`, `CheckPaths` | everything, logrotate |
| Configuration (`internal/config`) | immutable after `Validate` | `Load`, `Validate`, `Overlaps` | everything |
| Tailer (`nxadm/tail`, used by `daemon.Run`) | offset, inode | deliver a line, follow a rotation, stop | consumer |

What is hard about it:

* **three parties at the counter**: the consumer adds while a flush drains and,
  after a failure, restores; scrapes read it piece by piece meanwhile;
* **outcomes that the client cannot know**: a lost reply, an increment that
  the client library sends again, a pipeline of which only half was executed;
* **two writes for one fact**: counter and heartbeat, for an increment and for
  a reset, with any failure between them, and with `clear` between them;
* **work left over from an outage**: increments, heartbeats and resets that
  have to be written later, in an order that matters;
* **time**: a sliding expiry that only flushes renew, a ticker whose ticks can
  be dropped, outages longer than the expiry;
* **files that change under the program**: the log it reads and the log it
  writes are rotated, the lock file can be removed;
* **the shutdown**: the tailer, a line in the hands of the consumer, the last
  flush, requests in flight, SIGHUPs still in the channel, and Redis perhaps
  down;
* **two instances at the same time**, which the lock file is to prevent.

What makes each part correct:

* counter and flush: no match lost, none counted twice (`ExactlyOnce`,
  `AtLeastOnce`);
* heartbeat: never lastingly different from its counter (`HeartbeatSettled`,
  `CatchesUp`);
* reset: complete, on the boundary of the interval, and before the increments
  that follow it (`ResetComplete`, `ResetBoundary`, `DeferredResetFirst`);
* expiry: a key of a live daemon runs out only if it had to
  (`ExpiresOnlyWhenStarved`, `WarnedOfExpiry`);
* run loop: ends when it has to, leaving nothing behind (`ShutdownEnds`,
  `ExporterFailureEnds`, `CleanShutdown`);
* tailer: each line once and in order, none from before the start, none missed
  (`CountedInOrder`, `HistoryNotCounted`, `NoneMissed`);
* exporter and page: no series falls, parts that belong together add up, no
  outage is made up, and no client holds up the end (`ScrapeInBounds`,
  `NumbersAddUp`, `PageNeverOverstates`, `NoFalseOutage`, `ExitNotHeldUp`);
* logging: every record goes to an open file, one file is open, a rotation is
  followed (`NothingLost`, `OneFileOpen`, `RotationFollowed`);
* configuration: what it accepts is fit for counting and serving, what it
  reports is complete, what it warns of is exact (`FitForCounting`,
  `ServedExactly`, `AllReportedAtOnce`, `OverlapsExact`), and words match as
  they are written (`MatchesAsWritten`);
* lock: one instance while the file is left alone (`SingleWhileKept`), no false
  refusal (`RefusedByLive`), no overwritten PID (`PidKept`).

## 2. The modules

| Module | What it is |
|---|---|
| `Config` | the options the counting path reads, as `Validate` leaves them |
| `Counter` | the buffer; each operation is atomic because it holds `mu` |
| `Store` | the keys and the round trips of `store.go`, with what can become of each |
| `Daemon` | composes the two: the main goroutine, the consumer, the scheduler, signals, the failing exporter, `clear`, crash and restart; the properties |
| `Ledger` | the abstract specification: what is owed, what is counted, whether the process lives |
| `Exporter` | composes `Counter` with the readers: scrapes and pages part by part, the server's life |
| `KeyExpiry` | one key, the ticker and the seconds |
| `Tailer` | the start of reading, the log file, its rotations and the consumer |
| `Logging` | `output` under its mutex, SIGHUP, logrotate |
| `Validation` | `Validate`, `Overlaps` and `match` as operators over words of letters |
| `Lockfile` | `Acquire`/`Release` of several processes, system call by system call |
| `DaemonProofs` | the theorems about `Store` and `Daemon`: types, the refinement of `Ledger`, resets before increments |
| `FlushProofs` | on top of them: the boundary and completeness of a reset, the heartbeat, the shutdown |
| `ExporterProofs`, `KeyExpiryProofs`, `LoggingProofs`, `LockfileProofs`, `TailerProofs`, `ValidationProofs` | the theorems about the other modules |

### Counter and Store

A log line is the set of words it contains, so `match` is an input (`Validation`
has it as an operator). Values are numbers; the heartbeat string is represented
by the number in its `lines=` field. Integers are unbounded: the counters are
`int64` and grow by one per line.

A round trip is one action. `Executed` is a command the server runs, `Rejected`
one it does not; the server is `up`, `refusing` (it may answer any command with
an error: read-only replica, memory, ACL, wrong type) or `down`. The environment
moves it with `Degrade`, at most `MaxFaults` times, and `Recover`. Three faults
are ambiguous and are switched on by `FaultKinds`:

* `"lost"`: the command is executed, the client sees a transport error;
* `"half"`: in `Incr` with a TTL, INCRBY is executed and EXPIRE refused;
* `"resent"`: INCRBY is executed, its reply does not come, and go-redis sends
  it again inside the same call. `New` (`internal/store/store.go:99-106`) does
  not set `MaxRetries`, which leaves the library at its default of retrying.
  The outcome is the reply `"again"`: the counter has grown and `Incr` is still
  under way. If the next attempt succeeds, `Incr` returns no error although the
  delta has been added twice.

Replies are `ok`, `refused` (an error the server answered with) and
`unavailable` (`IsUnavailable` holds). A refused `Touch` may have reached any
subset of the keys. A key has an expiry or has none; the seconds are in
`KeyExpiry`, and here no key expires.

Only INCRBY needs an action for the attempt that is not the last. Every other
command of `store.go` leaves the same keys if it is executed twice, so there it
is enough that a call whose command was executed may end with the error of the
transport (`"lost"`) or, with `"resent"` too, with the refusal of a later attempt
(`Executed`).

### Daemon

`pc` is where the main goroutine is, `caller` who called `Flush` (or the
`ensureInit` of the start) and `i` the word a loop has come to. The goroutine
runs from one round trip to the next in one step, since between two of them it
touches only its own state; `Drain` and `Restore`, which others can interleave
with, are steps of their own. `deltas` and `unwritten` are the maps of `Flush`;
the model takes a delta out of `deltas` when the loop has dealt with its word,
which the code does by moving on.

`Receive` and `Consume` split the consumer in two, because the shutdown can
find a line between them. `CronFires` is the non-blocking send into a channel
of capacity one. `Signal` cancels the context; the calls of a flush under way
do not notice, as they all run on `context.WithoutCancel`. `ExporterFails` is
the HTTP goroutine reporting its end.
`clearing` holds the writes that a `clear` has still to make. `Crash` ends the
process at any point, `Restart` begins a new one with the keys as they are.

`mark` (the matches at the time a reset was taken from its channel) is a
history variable, `spent` counts how much of each bound is used.

### Ledger

A match is *owed* from the moment it is observed until it is *counted*. Only
the end of the process forgets what is owed. `Daemon` implements `Ledger` under
the mapping `owed = pending + unwritten + deltas`, without the delta whose
INCRBY has been answered; `counted` is the counter; `alive` is `Running`.
With `Duplicates = FALSE` a match that reached the counter is no longer owed;
with `TRUE` it may stay owed, which is what an ambiguous fault leads to. A
re-sent increment that succeeds in the end is a `PostUnnoticed` followed by a
`Post`: counted twice, owed once less.

### Exporter

A request is a record of what it has read so far. `Order` is the order in which
`Collect` and `status` read their parts: a scrape reads the lines, the matches,
the buffer, Redis and at last its own errors; the page reads Redis first. Each
part is an action (`ReadLines`, `ReadMatched`, `ReadPending`, `ReadCounters`,
`ReadErrors`), because each is a critical section or a round trip of its own.
The flush is reduced to what a reader can see: it takes the buffer, adds to the
keys word by word, and puts back what it could not write - also after an INCRBY
whose reply was lost. `Counters` is the MGET with its outcomes: `ok`,
`malformed` (some key is no number), `refused`, `unavailable`.

`server` is the life of the HTTP server in `startMetrics`, the deferred
`Shutdown` and the deferred calls of `cmdRun`. `since`, `intact`, `calm` and
`sawOutage` are history: the totals when a request came in, the words whose key
nobody but the flushes has changed, the requests beside which no flush ran, and
those that were in flight during an outage.

A connection on which no request has been sent is not modelled: `Shutdown`
closes those that are idle, and the deadline bounds the rest.

### KeyExpiry

Time advances by seconds, and only when nothing is due. One key, because every
flush treats the keys alike; a flush takes effect in one step, after up to
`MaxSlow` seconds. The ticker's channel holds one tick. `BootstrapUntouched` is
the `ensureInit` whose `Touch` failed, which is not repeated. `Reset` is left
out: it is a flush that writes zeroes as well. `touched`, `since`, `slow` and
`missed` are history: whether this process has set the expiry, and since it
last did, the seconds, those spent in flushes, and the flushes that failed.

### Tailer

`Stat` decides where reading starts, `Attach` is the tailer's own opening of
the file, and the log may appear, grow or be rotated between the two. A file is
the sequence of its line numbers; `Begin(TRUE)` and `Finish` write a line in two
parts. `Rename` and `Truncate` are logrotate's `create` and `copytruncate`.

`nxadm/tail` is a library. What the module assumes of it is what `Run` asks of
it: with `CompleteLines` a line is delivered once its newline is there; with
`ReOpen` a renamed file is read to its end before the next; a truncated file is
read again from its beginning; a rotation that takes a file away before the
tailer has ever opened it takes its lines too, and `copytruncate` those that
were not read, as `README.md` says.

### Logging

A descriptor is one of three numbers and is used again, as in the kernel, so
that a write to a closed descriptor could hit another file. `Receive`,
`Reopen` and `CloseOld` are the goroutine that ranges over the SIGHUP channel;
the mutex is held from the opening of the new file to the closing of the old
one. `Rotate` and `PostRotate` are logrotate, which may create the new file or
leave that to the daemon. `Deny` makes the path impossible to open for a while.
A SIGHUP before `signal.Notify` or after `signal.Stop` kills the process, as the
default action of the signal does.

### Validation

Words, lines and paths are sequences over a few letters with a capital and a
small form. `Validate` is a set of errors, a set of warnings and the normalised
words; every check is an operator named for it. `Matches` is `counter.match` and
`Overlaps` is `config.Overlaps`; the properties compare the two with each other
and with the definition of a substring. A decoded value that is not a word
(an address, a cron expression, a size) is good or bad.

### Lockfile

A file is named by the process that created it, so that `path` (what
`lock_file` names) and `fd` (what a process has open) can differ. Processes in
`Manual` start at any time, processes in `Unit` one after the other, and when
one of those has stopped systemd removes the `RuntimeDirectory`: the unit does
not set `RuntimeDirectoryPreserve`, and `/run/logstat/<instance>` is where the
shipped configuration puts the lock file. Errors of `Truncate` and `WriteAt`
are ignored by the code and are outcomes here.

## 3. The runs

All runs check for deadlock: a process that has ended, a validated
configuration, the last second stutter explicitly.

| Run | Module and instance | What it shows |
|---|---|---|
| `counting` | `Daemon`: two words with or without counters left over, TTL, heartbeats, two faults of any kind, two lines, a reset, a signal | `AtLeastOnce`, `HeartbeatSettled`, `ResetComplete`, `ResetBoundary`, `DeferredResetFirst`, `CleanShutdown`, `TypeOK` |
| `restarts` | `Daemon`: two words, heartbeats, an outage or refusals, a line, a reset, a `clear`, a signal, a crash, a restart; no ambiguous fault | `ExactlyOnce` across processes |
| `recovery` | `Daemon`, liveness: TTL, heartbeats, a fault, a reset, a signal, an exporter failure | `CatchesUp`, `ShutdownEnds`, `ExporterFailureEnds`, `RecoveryReported` |
| `expiry` | `KeyExpiry`: intervals up to 3 s, TTLs up to 8 s, twelve seconds, two outages, flushes of up to 2 s | `ExpiresOnlyWhenStarved`, `WarnedOfExpiry` |
| `scraping` | `Exporter`: two words, two lines, two requests of either kind, one accident | `Conserved`, `ScrapeInBounds`, `NumbersAddUp`, `PageNeverOverstates`, `NoFalseOutage`, `ExitNotHeldUp` |
| `logging` | `Logging`: three rotations, two more signals, two failures to open, three records | `NothingLost`, `OneFileOpen`, `RotationFollowed` |
| `tailing` | `Tailer`: five lines, three files, both modes of rotation | `CountedInOrder`, `HistoryNotCounted`, `NoneMissed` |
| `validation` | `Validation`: every list of three words of two letters, every path of five characters, every combination of good and bad fields | `FitForCounting`, `OverlapsExact`, `MatchesAsWritten`, `AllReportedAtOnce`, `ServedExactly` |
| `locking` | `Lockfile`: three processes by hand, two of the unit | `SingleWhileKept`, `RefusedByLive`, `PidKept` |

Three runs end in a violation. Each is a statement of the documentation or of a
comment that the code does not keep:

| Run | Statement | What happens |
|---|---|---|
| `lost_reply` | "an increment that Redis already accepted must never be retried" (`internal/daemon/daemon.go:372`) | every error of `Incr` puts the delta back, also the one that only lost the reply |
| `clear_race` | `clear` "works at any time ... and zeroes both" (`README.md:224`) | a flush between INCRBY and SET rewrites the heartbeat |
| `double_start` | the lock file protects "against a manual double start" (`packaging/default.yaml:42`) | a refused unit loses its directory and locks a new file |

The property of `lost_reply` fails with `FaultKinds = {"half"}` too (a refused
EXPIRE after an executed INCRBY, `internal/store/store.go:195-205`): two errors
that the code could tell apart take the same path. It fails with
`FaultKinds = {"resent"}` as well, and then without any error of `Incr`.

### Smaller divergences, without a run of their own

They follow from the actions named, which have the behaviour of the code; each
is one failed call away from the sentence it contradicts.

* With `redis.ttl: 0` a leftover expiry is removed at startup (`README.md:99`);
  a failed PERSIST is not repeated, as `initialized` is already set
  (`internal/daemon/daemon.go:464`; `InitTouch`, `BootstrapUntouched`).
* "An outage is logged once" (`README.md:45`): a `refreshTTL` that fails at the
  end of a flush announces the outage and `noteRedisOK` ends it in the same
  flush, so that it is announced again (`internal/daemon/daemon.go:362-364`;
  `FlushTouch`).
* "A config with three typos reports all three at once"
  (`internal/config/config.go:162`): a bad `metrics.listen` hides a bad
  `metrics.path`, and a bad `logging.output` hides an empty `logging.file`
  (`internal/config/config.go:229-237`), which is reported only once the output
  has been put right as `file`. `AllReportedAtOnce` names both and excludes any
  other.
* A `metrics.path` with an empty segment, a `.` or a `..` (`/a//b`, `/a/.`,
  `/..`) is accepted (`internal/config/config.go:306`), and no request can reach
  it: `http.ServeMux` redirects a request for it to the clean path.
  `ServedExactly` says so of these, and that every other path is served under
  itself. Percent escapes are outside the alphabet of the model.
* An MGET answered with too few values is shown as `redis_up 0` although Redis
  answered (`internal/store/store.go:258`). No Redis does this; `NoFalseOutage`
  is checked without it and the theorem names it as the one exception.
* A log rotated between `Stat` and the tailer's own opening is read from the
  end of a file that `Stat` never saw; the lines written to it before are
  skipped (`internal/daemon/daemon.go:134-148`). `NoneMissed` exempts them.

### Bounds

*Daemon.* Two words are the least with which one word can fail and the other
not, and with which `unreachable` skips a word; nothing in the code depends on
there being three. Two lines let one arrive before and one during a flush. In `counting`
each has both words, and failures part them; `restarts` and `recovery` have a
line with one word and one with both. Two faults give a failure,
a recovery and a failure of the retry; a refused and a lost command in one flush
are among them, and so is an increment that is re-sent and then lost. One reset,
one `clear`, one signal and one crash suffice because the code keeps no count of
them; a reset after a deferred reset is covered by the words, which are deferred
one by one. The number of ticks is not bounded. The liveness run keeps one line
and one fault, since what it asks about is the time after the last of them.
`restarts` combines a reset, a `clear`, a signal, a crash and a restart over one
outage or one time of refusals; it makes do with one line in all its processes
together, which the first or the second of them may come to count.
It starts from an empty Redis; `counting` has the counters left over. A `clear`
together with faults of an unknown outcome is in no passing run: `counting` with
a `clear` does not end in the time set for a run. The refinement theorems cover
the combination; the properties of heartbeat and reset exclude `clear`.

*KeyExpiry.* Intervals of 1 to 3 and TTLs of 0 to 8 seconds contain every order
of the two, equality, and TTLs that outlast one and two failed flushes; twelve
seconds are longer than any TTL after any failed start.

*Exporter.* Requests share nothing but `redisErrors`, which only the step that
reads Redis changes, so one client that asks twice meets what two would: the
steps of the second that matter to the first are those of the flush as well.
Two lines and a flush put a match in each of its three places.

*Logging.* Three rotations are one in use, one under way and one signalled in
the meantime; three descriptors are one more than ever open at once.

*Tailer.* Three files are one read, one renamed and its successor; five lines
leave one before the start and two for each rotation.

*Validation.* Five characters of a path are the shortest with a `..` between two
segments, and requests of six are one longer than any pattern. Two letters, one of them with a capital, words of up to two
characters and lines of three contain a word inside another at either end,
equality up to case, and a line with both; three words are the least with a
duplicate that is not a neighbour.

*Lockfile.* A process that holds, one that has opened and one that opens anew
are the race in `Release`; the unit adds one that is refused and its successor.

### Fairness

`FairSpec` of `Daemon` assumes that the main goroutine and the consumer run when
they can (`WF`): every round trip returns, `opTimeout` bounding it. It assumes
strong fairness of each case of the `select`: the ticker keeps ticking, and Go
chooses at random among the cases that are ready, so that a case which is ready
again and again is taken. Nothing is assumed of Redis, the log, the scheduler,
signals or the operator; `CatchesUp` and `RecoveryReported` carry "Redis stays
up and the process lives" as their premise. `RecoveryReported` is about a TTL
only: without one an idle flush makes no call, and the code's comment on
`refreshTTL` says so.

`Exporter` assumes that `Shutdown` returns (it has a deadline), that the deferred
calls after it run, and that a goroutine reading its parts goes on; a client may
take as long as it likes to read its answer. `ShutdownGivesUp` needs every read
of Redis to have ended: the deadline of `Shutdown` is 5 s, that of a read 2 s.
`Logging` assumes that the SIGHUP goroutine and the deferred calls run.

### Preconditions in the properties

`HeartbeatSettled` speaks of the first process and of no `clear`: a crash
between INCRBY and SET leaves an outdated heartbeat that SETNX does not touch,
and `clear` can do the same (`clear_race`). `ResetComplete` excludes `clear`
because the process it describes writes the same keys. `AllReportedAtOnce` and `ServedExactly` carry the exceptions of section 3.
`NeverCountedTwice` needs counters that start at zero. `NumbersAddUp` is about answers beside which
no flush ran and no key was changed from outside; during a flush the parts of an
answer cannot add up, as they are read one after the other, and
`PageNeverOverstates` says what still holds. `SingleWhileKept` ends with the
first removal of the lock file (`double_start`). `RotationFollowed` excuses a
file that could not be opened, the next rotation, and the end of `Run`.

## 4. The proofs

Everything below holds for every number of words, every configuration, every
kind and number of faults and every bound; the assumptions are the named
`ASSUME`s of the modules.

**`TypeCorrect`** (`Spec => []TypeOK`). `TypeOK` is not inductive: the words a
loop is at must exist (`i <= N` inside a loop body) and the counter that `Init`
reads back must have been created. `IndexOK` adds both; `DataOK` is the types of
all data with it. The flags are a conjunct of their own (`FlagTypeOK`,
`FlagStep`), because no installed prover handles Boolean variables and
arithmetic in the same obligation.

**`AtLeastOnceCorrect`** (`Spec => AtLeastOnce`) and **`ExactlyOnceCorrect`**
(the same for `ExactlyOnce`, if `FaultKinds = {}`) are the refinement of
`Ledger`. The condition of the second is about the replies of an executed INCRBY:
none is lost, whether the loss is reported as an error or hidden by a second
attempt of the client library, and no EXPIRE in the same pipeline is refused. It
allows outages, refusals of any command, `clear`, crashes and restarts. The argument rests on `FlushInv`, which says where the increments of
a flush are: outside the loop `deltas` and `unwritten` are empty, inside it
`deltas` is empty behind `i` and `unwritten` is empty from `i` on. Hence
`unwritten[i] = deltas[i]` never overwrites anything, `Drain` never overwrites
`deltas`, and moving an increment from place to place leaves the sum alone
(`QuietStep`, `SetAside`). What remains are the steps that the ledger sees:
`ObserveStep`, `PostStep`, `ZeroStep`, `StartStep`. `PostStep` is the heart of
it: an answered `Incr` posts, a failed one leaves the delta owed, and only an
ambiguous fault - an error after an executed INCRBY, or an increment about to be
re-sent - makes the counter change while the delta stays owed, which is the one
place where the two theorems differ.

**`DeferredResetFirstCorrect`**: counters change in five actions only
(`CountersStep`), and the one that adds is guarded by `NoDeferredReset`.

All of them rest on one lemma per round trip of `Store` about what it may do to
the keys (`SetNXCounterEffect` to `SetCounterZeroEffect` in `DaemonProofs`).

**`CleanShutdownCorrect`** and **`ResetBoundaryCorrect`** need to know where in
`Flush` an increment can be when a flush met no error. `LocationInv` says which
places of the main goroutine go with which caller, that everything behind `Drain`
has the bootstrap done, and that the tailer is stopped and the consumer empty
before the last flush. `DrainInv` says that without an error nothing has been
put aside, and that what the buffer holds after `Drain` came in since: nothing
in a shutdown, and before a reset no more than what matched since it was asked
for. `FlushInv` adds that outside the loop all that is owed is in the buffer
(`OwedIsPending`).

**`ResetCompleteCorrect`**: `ResetInv` says that each word behind the loop of
`Reset` is at zero with its heartbeat or deferred, and that between the two
writes the counter is at zero. It holds while no `clear` was ever started
(`ClearInv`), whatever the other processes do with Redis (`Bystander`).

**`HeartbeatSettledCorrect`** is the longest. `InOrder` is what is true at every
step, not only between flushes: each word is in the middle of its two writes, or
its reset is deferred, or an increment that may have been counted is to be
written again (`Retried`), or the heartbeat is missing or shows the counter, or
the daemon has noted the value of the counter to write. The last two alone are
not inductive: a heartbeat noted for one total becomes stale when an `Incr`
whose reply is lost changes the counter, and is right again only after the
retry, by the daemon or inside the call, hence `Retried`. `KeysInv` (a counter is created before its heartbeat,
and after the bootstrap both exist) excludes a heartbeat that nobody would ever
write; `CurrentInv` says that `total` is the value of the counter whose
heartbeat is being written. `WordKept` carries all words but the current one
through a step, so each action has to be looked at for one word.

**`ConservedCorrect`**, **`ScrapeInBoundsCorrect`**, **`NumbersAddUpCorrect`**,
**`PageNeverOverstatesCorrect`**: `Conserved` is inductive with the types. The
other three speak of finished answers only; `RequestInv` says what a request
knows on its way. `InBounds` keeps the totals it has read below the present
ones, which never fall. `NotOverstated` says that the page's total of Redis is
at most what Redis holds now, so that `Conserved` bounds the sum when the buffer
is read. `AddsUp` says that in a calm the keys are still those that were read.
`BackgroundFrame` collects what all steps beside a request leave to it, and one
lemma per part (`LinesRequests` to `ErrorsRequests`) adds what that part reads.

**`NoFalseOutageCorrect`** (if `Troubles` has no `"short"`): `OutageInv` ties the
life of the server to the requests: no request is still to read Redis once
`Shutdown` has returned, hence none meets the closed client. Whether a request is
past Redis follows from its place in `Order`.

**`ExpiresOnlyWhenStarvedCorrect`**, **`WarnedOfExpiryCorrect`**: `Countdown`
says that the seconds left of an expiry and those gone since it was set are the
TTL; `Waited` bounds the seconds gone by the intervals of the flushes that
failed and the time flushes took. The invariant needs the place of the ticker
(`untilTick`) because a tick that waits in the channel has used up its interval.

**`NothingLostCorrect`**, **`OneFileOpenCorrect`**: `LogInv` says that the
process writes to a descriptor it has open, or to nothing after `Close`, and
that the only other open descriptor is the old one while the mutex is held.
After `Close` a signal that is still in the channel may open the log once more;
`OneFileOpen` allows that file and no second one.

**`SingleWhileKeptCorrect`**, **`RefusedByLiveCorrect`** and
**`PidKeptCorrect`**: `LockInv` ties a lock to the process that got it, in both
directions. `SameFile` adds that all live processes have the same file open
until systemd removes one, which is true because `Release` leaves the file in
place; the run `double_start` shows that it fails after.

**`CountedInOrderCorrect`**, **`HistoryNotCountedCorrect`**: `FilesInOrder` says
that lines grow within a file and from each file to its successors;
`ReadInOrder` that whatever the tailer still comes to (`Ahead`) is younger than
the line in its hand and than all it has handed over. `ReOpen` keeps that
because the file it leaves has nothing ahead of the tailer (`ReOpened`), and a
new line because it is the youngest (`AheadKept`). `PastBehind` adds that no
line of the past is ahead of the tailer or counted; before it begins, that the
place where it will begin is behind the past.

**`NoneMissedCorrect`**: `OwedInv` says that a line that is owed is counted, in
the tailer's hand, or ahead of it: in the file it follows, or in the one that now
has the name. Before the tailer has opened the log only lines of a log that it
will read from the beginning are owed. When the tailer has caught up, the places
other than "counted" are empty. New lines go behind the ones that are reached,
and only `Truncate` takes lines away (`LinesKept`); `owed` loses those that were
not read, and those of a file that is renamed before the tailer came to it, as
section 2 says.

**`FitForCountingCorrect`**, **`OverlapsExactCorrect`**,
**`MatchesAsWrittenCorrect`**, **`AllReportedAtOnceCorrect`** and
**`ServedExactlyCorrect`** hold for any alphabet, for lists, words and paths of any
length. `ValidatedInv` says what the one step has computed from what was given;
the rest is about operators. `Unique` is a loop over the words. The library's
induction is out of reach of the provers, so `LeastNumber` states the least
number principle for a set of numbers, and `CollectedExists` and `CollectedLists`
look at the first position where the loop would fail. `UniqueLists` is what they
give: the words at the kept positions, in order. `OccursAt` turns the comparison
of substrings into one of characters, from which `OccursOrder` shows that
occurring in a word is a partial order; then a word occurs in another exactly if
every line with the other also has the first (`LiftsWhenOccurs`), which is what
`Overlaps` decides by comparing two words only. `GivenOK` is all that is needed
of the input; `MaxPath` is at least 1 because the default path has two
characters and the requests considered are one longer than `MaxPath`.
`MatchesAsWritten` follows from `OccursAt` and `FoldedLetters`: folding keeps
every letter in its place, and two letters fold to the same one exactly if they
differ in nothing but case. `ServedExactly` needs only that a request other than
the path is either longer than the exact pattern or differs from it, and that a
clean path equals itself; `AllReportedAtOnce` goes through the fields one by one.

Every invariant and every action property that a passing run checks is a theorem,
and so are the two refinements. Only model-checked are the liveness properties:
`CatchesUp`, `RecoveryReported`, `ShutdownEnds` and `ExporterFailureEnds` of
`Daemon`, `ExitNotHeldUp` of `Exporter` and `RotationFollowed` of `Logging`,
which need fairness and `ENABLED`.

## 5. Not modelled

* YAML decoding, cron expressions and host names: libraries; `Validation` has
  one good and one bad value of each.
* The spelling of keys, values, metrics, log records and pages.
* `nxadm/tail`, `net/http`, go-redis and logrotate themselves: external, and
  modelled by what the code relies on (section 2).
* Wall-clock schedules: `CronFires` may come at any time.
* An expiry together with resets and faults of single commands: `KeyExpiry` has
  the clock, `Daemon` the round trips.
* Command line parsing, exit codes and usage texts; packaging, apart from the
  unit's `RuntimeDirectory`. They keep no state.

## 6. Plan

1. Done: the core (`Config`, `Counter`, `Store`, `Daemon`, `Ledger`) and the
   lock file, with the refinement and the lock proved.
2. Done: `Exporter`, `Tailer`, `Logging`, `KeyExpiry`, `Validation`; the
   invariants of `Exporter`, `Logging` and `KeyExpiry` proved, and the order of
   `Tailer`.
3. Done: `CleanShutdown`, `ResetBoundary`, `ResetComplete`, `HeartbeatSettled`,
   `NoneMissed` and the invariants of `Validation` proved.
4. The safety half of the liveness properties: the measures that decrease towards
   the end of a shutdown, and the places at which the main goroutine can be
   stuck, as invariants and action properties.
