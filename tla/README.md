# snmp_collector in TLA+

A verification project for the SNMP collector in `src/`: TLA+ modules that
follow its Go code, TLC configurations that check them on small instances, and
theorems that TLAPS proves for every instance.

    tlc -workers 2 -config Pool.cfg MCConnectionPool    # any run of PROJECT.json
    tlapm PipelineProofs.tla                            # any module with theorems

`PROJECT.json` lists the components, the runs, a mutant for every property, the
source lines behind every definition, the hazards the properties are aimed at,
and the theorems.

## 1. The system

The collector polls SNMP devices on a schedule, listens for traps, and writes
both as JSON lines to files. One process, many goroutines:

    scheduler -jobs-> workers -raw-> decode -decoded-> produce -metric-> format --+
                        |                                                         +-formatted-> transport -> rotating files
                     session pool               trap listener -trap-> trapformat -+

| Component | State it keeps | Operations | What makes it correct |
|---|---|---|---|
| Session pool, `poller/pool.go` | per device: semaphore, stack of idle sessions; `closed` | Get, Put, Discard, Close | a session has one user; slots and sockets are neither lost nor exceeded; every Get ends |
| Poller, `poller/poller.go`, `session.go` | none | Poll, dial | hands every session back once, on every path |
| Worker pool, `poller/worker.go` | job channel, wait group | Start, TrySubmit, Stop | never sends after close; exits on cancel |
| Scheduler, `scheduler/scheduler.go` | slice of entries with due times | the loop, Reload, Stop | fires what is due, also across a Reload; stops |
| App, `app/app.go` | five channels, wait groups, context | Start, Stop, Reload, five stage goroutines | shuts down in an order that writes every result a worker has handed on, and never panics |
| Trap receiver, `trapreceiver/receiver.go` | running flag, listener, output channel | Start, Stop, handleTrap, context watcher | output closed once, after the listener has gone |
| Rotating file, `transport/file/rotate.go` | open file, its size; the backups on disk | Write, Close, rotate, prune | output in order; only the oldest is given up; sizes right after crashes |
| Transports, `transport/file/*.go` | the mutex around a message | Send, Close | a message and its newline, in the file of its kind |
| Counters, `producer/metrics/normalize.go` | last value and time per key | Delta, Remove, Purge | a delta is the increase, across wraps |
| Message assembly, `producer/metrics/poll.go`, `enrich.go` | enumeration registry | Build, Resolve | one metric per name and row, with its row's tags and its own label |
| Decoder, `snmp/decoder` | none | Decode, Parse, matchAttribute, ConvertValue | the most specific attribute of an OID; no answer lost without cause |
| Trap parser, `snmp/trap` | none | Parse | the payload is kept whatever the header looks like |
| Configuration, `config/loader.go`, `scheduler/resolve.go` | none | Load, ResolveJobs | what the files say is what is polled; bad files and directories do no further harm |
| Formatter, models | none | Format | a record is formatted or dropped, never cut |

They interact through channels (the pipeline), through calls (Poll on the pool),
through the context that a signal cancels, and through `App.Reload`, which
replaces the scheduler's entries while sessions and jobs of the old
configuration are still about.

What is hard to test in it: interleavings of workers inside Get, Put, Discard
and Close; the shutdown chain, in which a dozen goroutines wait for one
another; a Reload between two steps of the scheduler loop; a crash or a failed
call between two renames of a rotation; results that reach the counter state in
another order than the device produced them; two Reloads at once over files that
are being edited; the many places at which a record can be dropped, cut or put in
the wrong row between the agent and the file, several of them dependent on the
order of a Go map. `PROJECT.json` lists these under
"hazards", each at its line, also those for which the code promises nothing that a
property could state; they have a note that says so.

## 2. Modules

| Module | Models | Size of a step |
|---|---|---|
| `ConnectionPool` | pool.go, and Poll in poller.go | one critical section, channel operation or gosnmp call |
| `SessionLease` | what the pool promises: leases, limited per device | one lease taken, used or returned |
| `Pipeline` | app.go Start and Stop with every stage, worker.go, receiver.go | one channel operation, or one wait |
| `CollectorQueue` | what the pipeline promises: two FIFO queues, one writer | one message accepted, lost, taken or written |
| `Scheduler` | scheduler.go | one pass between two lock operations |
| `RotatingFile` | rotate.go under writeMetric of split.go | one file system call |
| `CounterState` | normalize.go and its use in poll.go | one answer, stamp, Build, Purge or Remove |
| `ConfigReload` | loader.go, resolve.go, and Reload in app.go | one directory listed or one file read |
| `Decoder` | types.go and varbind.go | operators only |
| `MetricBuild` | poll.go and enrich.go, over Decoder | operators only |
| `TrapParse` | handler.go, over Decoder | operators only |
| `Records` | poller.go's requests, decoder.go, and the stages that use the three above, to the split transport | one request, one varbind, or one stage |
| `Ranking` | no code of its own: a finite set in an order, a sequence at some positions | operators only |
| `MC...` | instances for TLC: values of constants, symmetry | |
| `ConnectionPoolProofs`, `PipelineProofs`, `SchedulerProofs`, `CounterProofs`, `RotatingFileProofs`, `ConfigReloadProofs`, `RecordsProofs` | theorems about the module in the name; the first two also that it implements SessionLease and CollectorQueue | |
| `RankingProofs` | what Ranking returns, for every set and sequence; least and greatest elements | |

**ConnectionPool.** A worker is at one place of Poll (`pc`), with its job and its
session. `cap` and `sem` are the capacity and length of the channel `dp.sem`,
`idle` the stack `dp.idle`, `dialled` what an open session was dialled for.
`p.mu` is a variable only for Close, the one operation that keeps it for longer
than a step. Time matters only for expiry, so an idle entry carries its age,
which stops counting when it has expired. A session's identity is used again
once it is closed, which makes the state space finite. Closing a closed channel
sets `panicked`, after which nothing happens.

**Pipeline.** A channel is a buffer and a flag; a send to a closed one, or a
second close, sets `panicked`. A stage takes a message and transforms it in one
step, because that work is local, and passes it on in a second, because that can
block. The stages and channels are launched in the order of the code, so a
signal during Start is covered. Messages are numbers in two lanes, polls and
traps.

**Scheduler.** The slice is the function from host to entry and the order of
hosts; the order is arbitrary after buildEntries, which ranges over a map, and
sorted after the loop's sort. The loop's local `now` is a variable of its own,
because a Reload can come between reading the clock and taking the lock.

**RotatingFile.** Files are the numbers of the Write calls they hold and their length.
Each Remove, Rename and Open of rotate is a step, so a crash can come between any two,
and every call can fail: a rename (the code ignores that; `misses` counts them), a
removal, the open at the end, the Stat after it, and a write, which can also be cut
short (`faults` counts these). The directory may hold backups of an earlier, larger
configuration, and the limit on backups is chosen at the start.

**CounterState.** The device counts without bound (`total`) and reports the count
since its last restart (`base`) modulo the counter's width, as Counter32, Counter64 or
both under one name, of which an answer may lack one. Polls of one counter may overlap,
so that results are stamped and delivered in another order than they were read.
`Increase` is computed modulo 2^64 as in Go. Five variables are history only: what the
last value stood for, the last delta with its two counts, the sum of the deltas, the
highest count delivered (`newest`), and how many deltas had an end that was overtaken,
of the other width or from before a restart (`upsets`). The moduli are scaled down,
which keeps what matters: several wraps of the narrow counter within a run, and the wide counter
turning over where uint64 does.

**ConfigReload.** The disk is five directories of files, each the map that YAML makes of
it, unreadable, or absent. A Load lists one directory and reads one file at a time, so
the operator can edit, and a second Reload can run, between any two steps. A listing can
fail in two ways: with an error that Load notes (`ListFail`), or because something below
the directory vanishes during the walk, which the loader takes for a missing directory
(`ListVanished`: an empty section and no error). `todo` is the set of the files that
were listed and are still to be read, in the order of their names; `Override` is the
loop that enters what a file holds into the section's map. What a file contributes is
computed by the section's own conversion (defaults of a device, canonical OIDs of an
object, registration of enumerations with the bitmap flags of the objects loaded
before). ResolveJobs is written as the rounds of its four loops: a round is a position
in the configuration and the object that is found there, a job is made in the first
round that comes to its object for a host (`NewRounds`, the `seen` map), and `Ranked`
puts the jobs in the order of the loops. `quiet` marks a Load during which nothing else
happened, `whole` collects the results that were installed of Loads in which every
listing succeeded or met something missing; both are history only. The scheduler's
configuration (`sched`), the App's (`loadedCfg`) and the producer's enumerations
(`enums`) are separate variables, set by separate steps.

**Decoder, MetricBuild, TrapParse.** Pure functions, written as operators. An OID is a
sequence of numbers, a value the Go type or the form of its text with its numbers
or octets, so that a MAC address, a display string and hex digits of the same
octets differ. Scaling keeps the factor as base and exponent, because float64
rounding is not what the properties are about. The width of an integer is a
constant, so that the boundary of int64 is within reach. Where the code fills a map
in a loop, the module says what the map holds after it: the tag of a name is that
of the last varbind, the metric of a name and a row is made from the first varbind
with the highest priority. Where it builds a list, the list is a set of positions
in their order (`Ranking`). A mutant of each says what a wrong loop would leave.

**Records.** One record from its request or packet to its file. A device is a function
from OIDs to values; the agent's side (answers to a Get in version 1 and 2, the order of
a walk) is external. Every range over a Go map is a choice of an order. Every early
`return`, `continue` and error of Poll, Decode, Parse, Produce, Format and Send that
ends a record is a step to "dropped". LowestCommonOID trims the first OID to the longest
prefix of it that all others have. The router searches the bytes of the whole record, so
besides names, syntaxes, values and tags the strings of the device and of the metadata
(hostname, collector id and the like) count: they are the `labels` of an input. The
value of a counter is marked as a delta and left to CounterState.

A property's mutant stands directly before the definition it changes and says in
a comment which mistake it makes.

## 3. Runs

| Run | Instance | Checks |
|---|---|---|
| `Pool` | 3 workers, 2 devices (one with room for three sessions, one for one), 4 sessions, 1 closer, expiry after one tick | `TypeOK`, `ExclusiveUse`, `NoLeak`, `DeviceIsolation`, `SemAccounting`, `SessionBound`, `IdleOrdered` |
| `PoolLive` | 2 workers, 1 device, one reload, fair | `ImplementsLease`, `PollReturns` |
| `Pipeline` | 2 workers, 2 jobs, 2 traps, buffers of 1 | `TypeOK`, `NoPanic`, `DrainedAtStop`, `ImplementsQueue` |
| `PipelineLive` | 1 worker, 3 jobs (one more than the job channel holds), 1 trap, fair | `ShutdownCompletes`, `ResultsMove` |
| `Scheduler` | 3 hosts, 4 configurations, 5 ticks, 2 reloads, fair | `TypeOK`, `SortedAtFire`, `FiresAllDue`, `DueIsPolled`, `StopReturns` |
| `Rotate` | no limit or 2 backups, up to 4 left over, 6 writes, 2 crashes, 1 failed rename, 1 other failed call | `TypeOK`, `FilesInOrder`, `KeepsNewest`, `KeepsAll`, `SizeIsCurrent`, `SizeBound`, `BackupBound` |
| `Counter` | 2 pollers, moduli 2 and 4, missing rows, 4 counts, 2 ticks, 1 restart | `TypeOK`, `DeltaIsIncrease`, `NeverOverReports` |
| `Reload` | 2 reloaders, 2 reloads, 2 edits or failed listings, 2 files of devices and one of each other kind | `TypeOK`, `QuietReload`, `RunsWholeLoads` |
| `Records` | 9 objects, 372 devices, 2 registries, both kinds of agent, ordinary strings or one that reads trap_info, 1362 packets | `TypeOK`, `Complete`, `TagsOwnRow`, `EnumsByAttribute`, `DropsExplained`, `RightFile`, `PayloadKept` |
| `PoolStaleSession` | 1 worker, one reload | violates `SessionMatchesJob` |
| `RotateOpenFails` | an open that fails | violates `NothingRefused` |
| `CounterMixed` | answers that hold one of two widths | violates `DeltaSinceLast` |

What they show beyond a test:

- `ExclusiveUse`, `NoLeak`: every session is in one place, and open exactly while it is
  in one, through expiry, failures and a concurrent Close.
- `SessionBound`: sockets per device never exceed MaxConcurrentPolls, idle ones
  included. It depends on Put storing before it frees its slot and on Get dialling only
  after finding nothing idle.
- `ImplementsLease`, `ImplementsQueue`: the two refinements. The second says that the
  order of results, and of traps, is kept from the workers' channel to the file, that
  nothing is written twice, and that the transport is closed only when nothing is left.
- `DrainedAtStop`, `ShutdownCompletes`: whenever the signal comes, during Start too, the
  shutdown chain ends, and with an empty pipeline. Jobs that no worker has taken are not
  part of it, and neither is a poll that has finished: a worker that finds the raw
  channel full may leave with it when the context is done (worker.go). What has entered
  the raw channel reaches the transport, unless a stage drops it for what is in it.
- `SortedAtFire`, `FiresAllDue`: the loop's early break passes over nothing, although a
  Reload can replace the slice after the sort. This holds because all entries of a fresh
  slice are due at the same time.
- `FilesInOrder`, `KeepsAll`, `KeepsNewest`: a rotation interrupted anywhere leaves gaps
  in the numbering, and later rotations never overwrite or reorder over them. A failed
  rename can cost a backup, which is why `KeepsNewest` excludes it; order survives even
  that. After a failed removal, open, Stat or write both still hold.
- `SizeIsCurrent`, `SizeBound`: the cached size counts a write that was cut short, too,
  and is that of the file after a restart and after a failed open.
- `BackupBound`: what a rotation without a crash or a failure leaves. After either,
  higher backups can stay for good, because prune stops at the first gap.
- `DeltaIsIncrease`, `NeverOverReports`: the wrap formula at its boundary, for both
  widths, and what is left of it when polls overlap, rows are missing and the device
  restarts: a delta between two values that are alike (one width, no restart between
  them), in order and less than a turn apart is still the true increase, and one that is
  upset adds at most one uint64 to what was counted and spoils no later one. An upset
  delta itself can be wrong (`CounterMixed`).
- `QuietReload`: a Reload that is left alone makes the scheduler run exactly the pairs
  of device and object that some chain of groups in the readable files connects, each
  once, with the last file's settings. The reference is a relation on the files, not the
  loader's loops.
- `RunsWholeLoads`: no failure and no interleaving of Reloads makes the scheduler run a
  mixture of two Loads, or one in which a listing failed, unless for something missing,
  in which case the loader takes the directory for empty (see below). The App's copy is
  all of one Load too, but after two overlapping Reloads perhaps not of the scheduler's;
  nothing reads it. The producer's enumerations are those of Start's Load for ever.
- `Complete`, `TagsOwnRow`, `EnumsByAttribute`: whatever the order of maps, batches and
  columns, the record has one metric for every name and row the device has, with the
  device's number, the widest syntax, the tags of that row and the label registered
  under its attribute.
- `DropsExplained`: every drop of a poll whose requests succeeded has a cause that can
  be read off the input: a definition that cannot be used, a refusing version 1 agent,
  nothing to report, or a value with no form in its syntax. The causes are listed in the
  property; that one bad value takes the whole answer with it is among them.
- `RightFile`: a trap is always in the trap file, and a poll in the metric file unless
  one of its strings reads trap_info; the property lists all the places the string can
  be in.
- `PayloadKept`: the payload of a trap with a misplaced or missing header, as the code
  and its test have it; the documentation has it otherwise, see below.

`Complete` and `TagsOwnRow` take the parser's choice where two attributes have one OID,
so they do not say which of the two a varbind becomes, nor that it is the same in the
next poll.

### Bounds

Three workers are the least for which two contend for a slot while a third is elsewhere
in the pool; two devices, one with capacity 1, give contention and independence at once;
four sessions are as many as the capacities allow. Buffers of one make every send block
sometimes; two messages per lane show reordering. Two reloads let a second one hit the
loop while it is still on the first's timer. Six writes with lengths 1 and 5 against a
limit of 4 give up to six rotations, files of several writes, single writes longer than
a file, and writes cut short; `RotateOpenFails` has lengths 1, 2 and 6. With four
backups left over and two to keep, prune has more than one file to remove. `MaxFiles` is
larger than the number of Writes, crashes and failed calls together can make a backup's
number (`RotateAssumption`), so it is never reached (TypeOK, which is proved). Four
counts are a turn of the wide counter and two of the narrow one, between two polls that
overlap in any way, with a restart before, between or after them; two ticks are needed
for two deltas in a row, of which the second could suffer from the first. Two reloaders with
two reloads overlap in every way; two troubles are enough to break a file and repair it,
or to change two files, within one Load; the contents include keys in two files, objects
reached twice, unknown names, OIDs with and without the leading dot, and enumerations of
all three kinds. The objects of `Records` are chosen one per difficulty: an overridden
column, a column inside another, two attributes with one OID, no common root, a single
column, scalars with and without ".0" in more than one batch, an empty OID, no
attribute; the devices leave any cell out and hold values that do not fit (a negative
number, one beyond int64, not a number); integers have 4 bits. Reloaders are symmetric
in `Reload`, workers in `Pool` (with sessions) and in `Pipeline`; the fair runs use no
symmetry. Deadlock is checked in the pool and pipeline runs, where a goroutine must
always be able to go on; the other models stop when their clock, their writes, their
reloads or their record are used up.

### Fairness

A goroutine that can run runs (weak fairness of each worker, stage, loop and
stopper). A select with several ready cases takes each of them in the end (strong
fairness of SchedExit and of the scheduler's Exit): Go chooses among ready cases
at random. A slot of the semaphore reaches every waiter (strong fairness of
Acquire): Go hands a channel's room to its blocked senders first come first
served. Dial and requests end, because gosnmp bounds them by timeout and
retries. Nobody is obliged to call Close, to reload, or to send a signal; Stop is
called once the context is done, as main does, and Listen returns once its
listener has been closed.

### Where the code and its text disagree

The three violation runs are quoted under "findings" in `PROJECT.json`:

- `PoolStaleSession`: after a Reload, jobs with a new address or new credentials run on
  sessions dialled with the old ones, for the pool knows a device by name only.
- `RotateOpenFails`: when the open at the end of a rotation fails, the record is lost;
  the comment promises to continue with the current file, which is nil by then.
- `CounterMixed`: a counter of 32 and one of 64 bits under one name share their stored
  value, and an answer that holds only one of them is subtracted from the other. The
  shipped IF-MIB definitions have such pairs, in two objects that are polled apart. The
  delta is then not "since the last sample" (normalize.go:48).

Seven more are in what the passing runs and the theorems state of the code. They have no run
of their own:

- docs/producer.md:131 says that a counter whose value is smaller than the one before "has
  wrapped exactly once". The code adds the distance to the wrap boundary also when the
  device has restarted and counts from zero again, and when a value was overtaken by that
  of a later, overlapping poll (normalize.go:84-93). Both are in the model (`Reboot`, two
  pollers), and `NeverOverReports` charges for them.
- app.go:353 says "Update producer enum registry if enums changed." and is followed by
  nothing that does so: after a Reload the new objects are polled and labelled with the
  enumerations of Start. `RunsWholeLoads` states it.
- loader.go:91 says "If a directory does not exist, that section is skipped silently". A
  directory that does exist is skipped, too, when a subdirectory vanishes while it is
  walked, because the error of the walk then satisfies os.IsNotExist (loader.go:150 and
  the same in the other sections). `ListVanished` is that step.
- split.go:9-10 says that payloads with a "trap_info" key go to the trap file and
  "Everything else (poll metrics)" to the other. A poll in which any string reads
  trap_info goes to the trap file (split.go:110); `RightFile` lists them.
- docs/trap.md:29-30, 75 and 125 say that Parse returns an error for a packet of version 2c
  or 3 without snmpTrapOID.0. The code (handler.go:161-164) and its test
  (handler_test.go:160, "should not error, just no trapOID") keep it, with an empty trap
  OID. `PayloadKept` follows the code.
- varbind.go:107 says that a value that cannot be converted "should not abort the rest of
  the batch", docs/decoder.md:285 that it does not discard the varbinds decoded before
  it, and docs/decoder.md:297 "Emit the partial result". Parse returns at the first such
  value (varbind.go:109) and the stage drops the partial result with the error
  (app.go:382-388). `DropsExplained` counts it among the causes of a drop.
- loader.go:88 says that errors from individual files are returned; they are logged
  (loader.go:159).

Further disagreements met while modelling: Close is not safe to call twice at once
(pool.go:165); a Put after Close leaves an open session in a closed pool (pool.go:147);
popIdle leaves expired sessions beneath a fresh one (pool.go:241); a changed
MaxConcurrentPolls has no effect until restart (pool.go:194); Stop abandons queued jobs
(worker.go:105); a listener that dies is noticed by nobody (receiver.go:184); a Reload
does not wake the scheduler (scheduler.go:94); a record's newline may open the next file
(split.go:142); `Overrides` is loaded and never used (docs/models.md:203); doGet does
not look at the error status of a version 1 answer (poller.go:145); the enumeration of a
scalar configured with ".0" is looked up without it (poll.go:105).

## 4. Proofs

TLC explores the instances of section 3; the theorems hold for every value of the
constants that the named assumption of the module allows. Those assumptions say
what the constants are (numbers, finite sets of goroutines, contents of files), and
the code's own limits (a positive buffer, a 32-bit counter narrower than a 64-bit
one). They are evaluated by TLC in every run.

| Module | Theorem | Statement |
|---|---|---|
| `ConnectionPoolProofs` | `TypeCorrect`, `SemCorrect`, `BoundCorrect` | `[]TypeOK`, `[]SemAccounting`, `[]SessionBound` |
| | `ExclusiveCorrect`, `NoLeakCorrect` | `[]ExclusiveUse`, `[]NoLeak` |
| | `IsolationCorrect`, `OrderedCorrect` | `[]DeviceIsolation`, `[]IdleOrdered` |
| | `LeaseCorrect` | `ImplementsLease`: the pool refines SessionLease |
| `PipelineProofs` | `TypeCorrect`, `NoPanicCorrect`, `DrainCorrect` | `[]TypeOK`, `[]NoPanic`, `[]DrainedAtStop` |
| | `QueueCorrect` | `ImplementsQueue`: the pipeline refines CollectorQueue |
| `SchedulerProofs` | `TypeCorrect`, `SortedCorrect` | `[]TypeOK`, `[]SortedAtFire` |
| | `FiresAllCorrect` | `FiresAllDue`, an action property |
| `CounterProofs` | `TypeCorrect` | `[]TypeOK` |
| | `DeltaCorrect`, `NeverOverCorrect` | `[]DeltaIsIncrease`, `[]NeverOverReports` |
| `RotatingFileProofs` | `TypeCorrect`, `OrderCorrect`, `NewestCorrect`, `KeepsAllCorrect` | `[]TypeOK`, `[]FilesInOrder`, `[]KeepsNewest`, `[]KeepsAll` |
| | `SizeCorrect`, `BoundCorrect`, `BackupsCorrect` | `[]SizeIsCurrent`, `[]SizeBound`, `[]BackupBound` |
| `ConfigReloadProofs` | `TypeCorrect`, `WholeLoadsCorrect` | `[]TypeOK`, `[]RunsWholeLoads` |
| | `QuietLoadCorrect`, `QuietReloadCorrect` | `[]QuietLoad`, the files are read as they are, and `[]QuietReload` |
| | `ResolveCorrect` | for every configuration, ResolveJobs makes the jobs it asks for |
| `RecordsProofs` | `TypeCorrect`, `DropsCorrect`, `FileCorrect` | `[]TypeOK`, `[]DropsExplained`, `[]RightFile` |
| | `RecordComplete`, `TagsCorrect`, `EnumsCorrect` | `[]Complete`, `[]TagsOwnRow`, `[]EnumsByAttribute` |
| | `PayloadCorrect` | `[]PayloadKept` |

Each proof goes through an inductive invariant, `IInv` or `Inv` in the later modules,
which implies the properties and is preserved action by action. TLC checked each on
the instance of the module's run before it was proved; that of `Records` on about
100,000 of its 262,756 states.

**The pool.** `TypeOK` is inductive by itself; besides types it says that a worker has
a session exactly at the places where it uses one, on which the rest is built.
`SemAccounting` is inductive with it: every action leaves the set of slot holders
alone (`SlotFrame`, `SemFrame`) or adds or removes one worker. `SessionBound` is not
inductive: after PopNone nothing is idle, but why should one more session fit?
Because every session in use belongs to the holder of a slot, so the step uses
SemAccounting in the new state. `ExclusiveUse` and `NoLeak` need each other. A dialled
session is new to the pool only because what is not open is nowhere (NoLeak), and
closing a session leaves no reference to it only because it was in one place
(ExclusiveUse). Their conjunction is proved as `Own`. A first group of lemmas shows
that certain moves of sessions keep Own, a second that each action is such a move.
`DeviceIsolation` again uses Own after the step: whatever is held or idle was not
closed, so it is still dialled for the job it was. The refinement maps a slot to a
lease; Own gives the abstract guards that a session is lent to one worker, and
SemAccounting that the limit is kept.

**The pipeline.** `NoPanic` is not inductive: that a send meets an open channel follows
from who has left before the channel was closed. `IInv` follows App.Stop hand-over by
hand-over: which goroutines have left at each of its positions (`SourcesLeave`,
`AllReturned`), that a stage leaves only when its input is closed and empty
(`StagesDrain`), who closes which channel (`StagesClose`), that formatWg counts the
formatters still to return, also while Start is launching them (`GateWaits`), and that
of the two goroutines that stop the receiver one owns the close (`ReceiverStops`).

For `ImplementsQueue` what is pending in a lane is a chain: the buffers and hands from
the transport back to the workers, one after the other, of which the messages of the
lane count. A step of a stage moves one message across a link of the chain and changes
nothing in what it reads like, or takes the last message out at its end, or adds one at
its beginning (`LaneTail`, `LaneAppend`, `PollMoves`, `PollLoses`, `TrapMoves`). `Laned`
keeps the messages of the lanes apart until they meet in the formatted channel, and
`IInv` again says that nothing is left when the transport is closed.

**The scheduler.** `SortedAtFire` needs `StagedTogether`: the entries that Reload has
built are all due at one time, so installing them in any order, after the loop has
sorted and before it fires, does no harm. `FiresAllDue` then says that the loop's break
at the first entry not due passes over none: every scheduled host is somewhere in
the slice (`OrderCovers`, by counting), and one behind the break is due no earlier
(`UnreachedIsLater`).

**The counters.** `IncreaseIsDifference` is the arithmetic: for counts a <= b that a
counter of modulus n reports, the code's uint64 expression is at most b - a, and equal
to it if b - a < n. The invariant `IInv` says which count each value in flight
(`Answered`) and the entry (`EntryFaithful`) stand for, and `Charged` that the sum of
the deltas is at most `newest` plus one uint64 for each upset: a delta that is not upset
starts at the newest count, so that what it adds, newest grows by. Nothing is assumed of
overlapping polls, missing rows, removals or restarts.

**The rotating file.** Names of files are numbers, and a step of the shift moves one
file up by one. `FilesInOrder` is inductive with `Known` (no chunk on disk has a number
that was not given out yet), through failed renames and crashes alike. `KeepsAll` and
`KeepsNewest` need `Clear`: the shift never meets an existing target. That is true at
its start because findMaxBackup stops at a gap, or because the oldest backup was
removed, and at each further step because the file before it has just moved up.
`MaxBackupStops` shows that there is a first gap: it takes the least of a set of
numbers, which `Least` derives from the library's theorem on well-founded orders.
`SizeBound` needs to know what rotate left behind (`Moved`, `Fits`), `BackupBound` that
the backups beyond the limit have no gap (`NoGap`), for prune stops at the first one.
`Room` bounds the numbers of backups by the writes, crashes and failures so far. A
removal of the oldest backup that fails lets the shift move it out of what is kept,
which `Clear` allows for.

**Configuration.** `RunsWholeLoads` needs `Whole`: a Load in which a listing failed has its
error flag set, and what is about to be stored comes from one without; and `StartFirst`,
that Start's Load is over and kept when a Reload begins. `QuietLoad` needs
`Faithful`, which is stated for a Load that is half done: each section read so far is
what the files say, the one being read is what its files before the next one say, and
the others are empty. One file more is one more application of `Override` (the
lemmas about `Merged`), and the last file with a key decides. That devices have no zero
setting comes from resolveDevice alone (`MergeNonZero`).

`ResolveCorrect` is about the operator alone. A pair of device and object that some
chain of groups connects has a round; the rounds that come to one pair are finitely
many and ordered by their places, so one of them is the first, and no two are
(`Earlier` is a strict order on places of one length). That is why each pair has exactly one
job. The order in which Ranked lists them does not matter to that, only that it
lists each once, which is what RankingProofs establishes by counting members. With
QuietLoad and the types of what is read, QuietReload follows.

**Records.** The proof is in two layers. The first is about the operators: prefixes of one
OID are comparable (`PrefixFacts`), so the longest matching attribute is unique and is
that of the column (`MatchIs`, `ColumnIs`); LowestCommonOID returns a prefix of every
attribute whatever the order (`RootIs`), so the walk's subtree holds everything the
object is about (`WalkedIs`: the walk order is a strict order, and Ranked lists all);
Winner and TagMap return what they should (`BuildIs`, `TagsIs`); BaseOID strips what
Instance split off, unless the OID is a scalar's own and ends in 0 (`BaseIs`, which
is the one exception that EnumsByAttribute has). The second is the invariant of a
poll, `PollInv`. `Sized` says that nothing is requested, answered or decoded twice, by
counting, `Shaped` what the sequences consist of, `Phases` what has been done at each
pc, `Covering` that every value the object is about is still to be requested, is
answered, or is decoded, until the record is reported or dropped, and `Endings` that
a drop has a cause and a poll in the trap file an excuse. Covering is what Complete,
TagsOwnRow and DropsExplained need; none of the three is inductive, because they
speak of the end only. A trap has the short invariant `TrapInv`.

The theorems about `Records` assume of the environment (`RecordsAssumption`) that OIDs
are sequences of numbers, that an object has finitely many attributes and a device
finitely many values, that a device has no value at an OID below that of another value,
as the SMI has it, and that its values are not of an error type. Those about
`ConfigReload` assume (`ReloadAssumption`, `ContentsAssumption`) that a file of devices
is a finite map and that groups are lists.

Only model-checked:

- liveness (`PollReturns`, `ShutdownCompletes`, `ResultsMove`, `DueIsPolled`,
  `StopReturns`), which needs fairness and ENABLED;
- that the disagreements of the three violation runs are real: a violation is a
  behaviour, which TLC shows.

Every safety invariant and action property of the runs, and both refinements, are
theorems. No module uses a recursive operator: loops over sequences and maps are
written as what they leave behind, so that no proof takes an induction over
data.

## 5. Not modelled

- What a gosnmp session contains and how it speaks SNMP (`session.go`, the library): its
  answers and failures are inputs of `Records` and `ConnectionPool`.
- YAML and JSON syntax, float64 rounding, the wording of text values, the `type` field
  (PDUTypeString): no property depends on them.
- `PathsFromEnv`, flags, logging, defaults of App's Config, buildSplitTransport: set up
  once, before any state changes.
- Errors of os.Stat in findMaxBackup other than that of a missing file.
- How long an expired idle session may lie beneath a fresh one, how many workers one
  slow device may hold, and which of two attributes with one OID decodes it: the code
  promises nothing about these.
- `WriterTransport`: the same two writes as SplitWriterTransport, to one file.
- `WorkerPool.Submit` has no caller. A second `TrapReceiver.Start` does not occur.

## 6. Plan

Done, in this order: the session pool with its lease specification and proofs; the
pipeline with its queue specification; scheduler; rotating file; counters;
configuration and reload; decoder, producer, trap parser and routing along one
record.

Proved, in this order: the pool's semaphore, sessions and their owners; the isolation
of devices, the idle stack and the lease specification; shutdown; the scheduler; the
counters; the rotating file; configuration and reload; job resolution; the queue
specification of the pipeline; records and traps. Every safety property of the runs
has its theorem.

What would come next, in order of weight:

1. Scheduler, job channel and session pool composed: how many workers one slow
   device can hold, and what the drops of TrySubmit then cost the others.
2. The counter state joined to Records, so that the delta in a metric is the one of
   its own key.
