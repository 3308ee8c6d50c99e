# A TLA+ model of the sysctl server

The repository serves macOS `sysctl` values over gRPC. A server process reads the
kernel through a cache of resolved MIBs, keeps the values it polls in a store,
answers unary requests from the store or live, and streams deltas to subscribers.
Which metric is read how is decided by a registry file that a generator writes.
A command-line client shows the answers, and a tool surveys which MIBs the names have.
This directory models all of it, checks it with TLC on small instances, and
proves with TLAPS, for every instance, every safety property that a passing run checks.

## Inventory

| Part | Source | State | Operations | Interacts with |
|---|---|---|---|---|
| Poller | `internal/server/poller.go` | `polledMetrics[i].nextGatherNs`, ticker, `stopCh`, `doneCh` | `newPoller`, `loop`, `tick`, `stop` | store (writes), read path (reads the kernel), `New`/`Stop` |
| Metric store | `internal/server/poller.go` | `values` under an `RWMutex` | `get`, `put`, `putBatch` | poller writes, handlers read |
| Unary read path | `internal/server/server.go` | none | `GetMetrics`, `GetMetricsByCategory`, `readMetric`, `readMetricLive` | store, name index, MIB cache |
| Subscribe | `internal/server/server.go` | per stream: `prev`, `first`, `errors`, ticker | the handler's loop | MIB cache, gRPC stream |
| Name index | `internal/metrics/registry.go` | `knownByName`, built on first use, no lock | `ByName` | every handler, poller |
| MIB cache | `internal/macosasmsysctl/mibcache.go`, `sysctl.go` | `cache` under an `RWMutex` | `Resolve`, `Warm`, `GetRaw`, typed getters | kernel |
| Kernel registry | `metrics/kernelregistry.go`, `metrics/darwin/generate_textproto.go`, `server.go` | the textproto, `kernelRegistry`, `fullRegistry` | generator, `LoadKernelRegistry`, `ValidateRegistry`, `buildFullRegistry`, list requests | decides what the poller schedules |
| Computed metrics | `server.go` | none | seven aggregates | MIB cache |
| Decoding | `internal/macosasmsysctl/mibcache.go`, `structs.go` | none | typed getters | read path, computed metrics |
| Client | `cmd/client/main.go` | context with a deadline | `-cats`, `-list`, `-cat`, `-all`, names | server, by gRPC |
| Name-to-MIB tool | `cmd/darwin-name2int/main.go` | `results` | `main`, `validateReads`, `printSummary` | MIB cache, reads by name |
| Glue | trampolines, generated stubs | | | |

What is hard here: handlers, the poller goroutine and `Stop` run concurrently and
share the store, the MIB cache and an index that has no lock; the schedule is kept
in wall-clock time and driven by monotonic time; a tick is dropped when the
goroutine is slow; a kernel read is two system calls and the value may change
length in between; a computed metric is several such reads, and the clock and the boot
time are read apart; deltas are computed against state that is updated before the
send. `PROJECT.json` lists these hazards at their lines with the properties that
would notice them going wrong.

## Modules

| Module | Models | Composed with |
|---|---|---|
| `Poller` | poller, its two clocks, the read path, `Stop` | |
| `PollerInv` | the inductive invariant of `Poller` | extends `Poller` |
| `PollerProofs` | theorems on schedule, store and responses | extends `PollerInv` |
| `AtomicStore` | what the store promises | |
| `PollerLoop` | goroutine, lock, `get`, `Stop`, step by step | refines `AtomicStore` |
| `PollerLoopProofs` | theorems on the lock, and the refinement | extends `PollerLoop` |
| `LazyIndex` | `ByName` and its index under concurrent first use | |
| `Decode` | the typed getters, and the C layout they undo | |
| `ReadPath` | `readMetricLive`: lookup, reads, decoding, computed metrics | extends `LazyIndex` and `Decode` |
| `ReadPathProofs` | theorems on the index, the getters and the answers | extends `ReadPath` and `FoldProofs` |
| `KernelRead` | what a sysctl read promises | |
| `MIBCache` | `Resolve`, `Warm` and the two-call reads | refines `KernelRead` |
| `MIBCacheProofs` | theorems on reads, cache and `Warm`, and the refinement | extends `MIBCache` |
| `SnapshotStream` | what a subscription promises | |
| `Subscribe` | the handler, the stream, a client that applies deltas | refines `SnapshotStream` |
| `SubscribeProofs` | theorems on the deltas and the interval, and the refinement | extends `Subscribe` |
| `Loops` | the loop that collects, which several parts of the program have | |
| `FoldProofs` | lemmas on what folds, filters and sums compute | extends `Loops` |
| `Registry` | generator, registry file, loader, validator, merge, list requests | extends `Loops` |
| `Client` | a run of the command-line client | extends `Registry` |
| `RegistryProofs` | theorems on generator, validator, merge, categories and `-all` | extends `Client` and `FoldProofs` |
| `Name2Int` | a run of the name-to-MIB tool | |
| `Name2IntProofs` | theorems on `validateReads`, the summary and the flat identifiers | extends `Name2Int` and `FoldProofs` |
| `MC*` | the instances for TLC | |

A definition whose comment begins with "Mutant:" is the code as a plausible bug would
have it; put in place of the definition that follows, it breaks one property, which
shows that the property depends on that code. No other definition uses it.

### Poller

A metric is its position in `fullRegistry.Metrics`, so loops run in the code's order.
What a read returns is abstracted to the instant of the read (`at`) and the instant
its tick began (`began`): the code stores values and errors alike and never looks at
them, and the properties are about age and about which reads belong together.

`mono` is the monotonic clock behind `time.Ticker`, `wall` the clock of
`time.Now().UnixNano()` behind `nextGatherNs`. `Advance` lets a unit of time pass and
delivers ticks to a channel of capacity one; `StepClock` steps `wall` to anything
within `MaxSkew` of `mono`. The real-time assumption is `Slack`: no piece of work of
the goroutine (building the store and starting the loop; taking a delivered tick and
publishing its batch) takes longer. `newPoller` is `NewRead`/`NewSkip`/`NewReturn`, one
registry entry per step; `tick` is `TickStart`, then `TickGather` or `TickSkip` per entry,
then `TickPublish`. `putBatch` is one step here; `PollerLoop` justifies that.
Handlers take one step per name (`ServeStored`, `ServeLive`), so a tick can publish in
the middle of a response.

### PollerLoop

The same goroutine at the grain of locks and channels, with the schedule left open (a
tick finds any set of names due). The `RWMutex` follows its documented behaviour: an
announced writer holds up new readers, and `Unlock` hands the lock to the readers that
wait. `putBatch` copies one map entry per step, in any order. The refinement mapping to
`AtomicStore` lets the whole batch appear when the lock is acquired. `AtomicStore` states what
it allows (`SafeSpec`) apart from what it obliges (`Spec`).

### LazyIndex

A map insertion is a begin and an end, because the Go runtime aborts the process when
another goroutine meets a map in between. `Startup` is what `newPoller` reads before the
server is registered: with polling it is not empty and the index is complete before
anyone else asks; with `--poll-interval 0` it is empty.

### Decode and ReadPath

`Decode` has one operator per getter, from the bytes of a value to a number, a record or
a refusal of the width; the getters by MIB and by name decode alike and share it. The
kernel's side, `CopyOut`, lays an object of a C type out in bytes, aligned and padded as
the arm64 ABI does, without looking at the getters. `Base`, the number of values of a
byte, is a parameter: widths and offsets stay the program's, numbers become small.

`ReadPath` puts `readMetricLive` on top of `LazyIndex`: `Ask` (or `NewReads`, for
`newPoller`) is the call, `LookedUp` the return of `ByName`, each `Read` one kernel read
with its decoding, `ReadClock` the `time.Since` of the uptime. The kernel may change,
and its clock advance or be set, between any two of them; `hist` keeps its states so that
the properties can say what it held when. A read is one step here: `MIBCache` shows
that it is the value of one instant, or fails for a value that grew. Quotients are pairs;
`fmt` and the fields that repeat a time in another format are left out.

### MIBCache

A value is its version and its length. `KernelChange` registers a name or gives it a new
value of any length, between any two steps. A read by name and a read through the cache
share the two-call protocol. MIBs are fixed, as Darwin's are.

### Subscribe

One stream. Names are validated one per step (`Accept`, `Validate`, `NewTicker`), then read one
per step. `time.NewTicker` panics on an interval that is not positive, and the server with it:
TTLs and the interval asked for are any integers, and `ServerSurvives` says that it never does. A nil `prev[name]` and an empty value are one thing, because `bytes.Equal`
does not tell them apart. Responses travel in order through a window; `Send` waits while
it is full. Each response carries the server's `prev` as history, for the refinement. The
client is not in the repository: `Apply` gives each metric its last delta, and `DeltasExact`
says of each response in turn that it takes the copy before it to the `prev` it carries.

### Registry

The generator's switch statements are sets of names and categories, with the names of
`registry.go`. The file may then be edited or fall behind `Known` (entries removed,
repeated, renamed, patterns and TTLs changed or unset, the file garbled), and servers of
the matching version, another version or none are started on it in turn.

### Client

One run of the command against `Registry`'s server. `Mode` is the order in which `main`
looks at the flags; a request is answered by the server as it is at that moment, so that
a restart with another registry fits between the two requests of `-all`. Any request may
fail, and the context may expire at any time.

### Name2Int

The loop of `main`, one entry per step; with `-validate`, the two reads of each attempt of
`validateReads` are steps, and values change length, change or vanish in between. The
summary and the flat identifiers are operators on the rows: a counter is the number of the
positions it counts, a map from keys to names a map to positions; `flattenMIB` and
`topRanges` keep their loops. A level of a flat identifier has `LevelBase` values, 2^16 in
the program.

## Runs

| Run | Shows | Bounds |
|---|---|---|
| `poller_serve` | responses never step back to an older tick; live reads (of DYNAMIC and unknown names) are live; STATIC frozen; silence after `Stop` | 4 metrics (STATIC, two of one ttl, DYNAMIC), 1 client, enough time for a second gather |
| `poller_schedule` | the invariant, staleness bound, cohorts, no regress, polling rate | 4 metrics in 3 ttls (0, 2, the default 4), skew 1, 10 units: two gathers of the longest ttl; interval 1 and slack 1, so that a slow tick makes the ticker drop one |
| `poller_loop` | lock discipline, refinement of `AtomicStore`, `Stop`, gets and batches complete | 2 polled names, 2 readers; no bound on the length of behaviours |
| `read_path` | answers are made, member by member, of what the kernel held at the reads, typed as the registry says; utilizations are sane but for a change between two reads, and the uptime is off by just what the clock was set by between its two; the index is complete and frozen before serving | 17 metrics: every type that is in use and every computed one, and two names the registry lacks; `newPoller` and 2 handlers; 2 kernels (one with zero totals and missing objects), 2 changes, one byte = one bit |
| `mib_cache` | a reader has its name's MIB and room for a length the value had; reads are atomic or fail as permitted; the cache only grows | 2 names (one warmed), 2 readers, lengths 0-2, 2 versions: a value may grow, shrink or vanish once during a read |
| `subscribe` | no request makes the server panic; deltas are exact; the first response accounts for every name; refinement of `SnapshotStream`; values converge; cancel ends the handler | 2 metrics, requests with a repeated, an unknown and a computed name, window 2; TTLs below, at and above zero and above 100ms, an interval that is negative (which 0 is treated as), one below the minimum and one at it |
| `registry` | the generated registry is complete; the validator is exact; the merge is faithful; categories partition it; `-all` shows everything or nothing; the client ends | 50 metrics of every category in use, 2 edits at 2 positions (a STATIC entry, and the copy that an edit has made of it); one command line for each request of the client, with several flags at once, and the usage error |
| `name2int` | verdicts need the changes that excuse them; every row is counted once in each breakdown; identifiers collide exactly for MIBs that differ by trailing zeros | 14 names: 12 with a MIB or none, too deep, too large, shared, or a prefix of another; 2 volatile, 4 changes: one more than a "volatile" verdict takes; level of 128 values |

Symmetry is used for the readers of `mib_cache` only, which checks no liveness.

Four runs end in a violation: each states what a document or a comment of the
repository says, and TLC shows a behaviour of the code that does otherwise.

| Run | What the code does |
|---|---|
| `poller_wallclock` | a wall clock stepped back keeps a POLLED metric from its refresh (`poller.go:157`, against `CACHE_DESIGN.md:10`) |
| `index_cold` | with polling off, concurrent first calls of `ByName` may answer nil for a known metric (`registry.go:454`, against its comment) |
| `subscribe_empty` | an empty value is missing from the "initial full snapshot" (`server.go:240`, against `README.md:71`) |
| `registry_chain` | six boot flags are STATIC for the kernel and POLLED for clients (`generate_textproto.go:305`, against `CACHE_DESIGN.md:53`) |

With 1-bit bytes `read_path` still has every sign, carry and overflow of the 4- and 8-byte
conversions; a wrong offset shows because neighbouring members differ. Two changes are
enough to fall before, between and after the two reads of a computed metric.

Smaller disagreements showed while modelling and have no run, since one guard or one
line decides each:

- a DISABLED metric is read live (`sysctl.proto:125` and `CACHE_DESIGN.md:13` say never); no registry has one, and `LiveIsLive` leaves it out;
- a too fast Subscribe ends with status `Unknown` (the comment at `server.go:194` says `INVALID_ARGUMENT`, `DELTA_DESIGN.md:5` says clamped);
- the 100ms of `minSubscribeInterval` is a ceiling although it is called a floor, so that TTLs of seconds play no part (`README.md:72` says they do); a registry with a TTL under 100ms would let clients subscribe below the floor;
- a second `Stop` would close a closed channel; nobody calls it twice. The deferred `srv.Stop` of `cmd/server/main.go` never runs, since `main` ends in `log.Fatalf` or by a signal;
- `seconds * 1e9` and `now + ttlNanos` overflow for a TTL of centuries; no registry has one;
- the VFS reclamation is a percentage by the code, a quotient by its comment (`server.go:601`), and its numerator a count since boot, so it may exceed 100; `PercentSane` leaves it out;
- `darwin-name2int` prints no range line for `vfs` and `user`: they are known top levels, but not in the printed list, so the loop under "Check for any other top-level values" (`main.go:495`) passes over them too. `SummaryAccounts` states it so;
- the comment at `main.go:435` gives a flat identifier of 8, 16, 16, 16 and 8 bits, `flattenMIB` four levels of 16; the number printed as "flattenable" counts distinct identifiers, not names;
- `Validated` is documented as equality of the two reads (`main.go:104`) and is also true for "volatile";
- the client's `-list` prints whole seconds, so a TTL below one second shows as `@0s`; `-cat` of a category nobody has prints nothing and succeeds.

## Fairness

`PollerLoop`, `Subscribe` and `Client` state fairness. In the first two, a runnable goroutine runs:
weak fairness, which Go's preemptive scheduler gives. `select` chooses uniformly among
its ready cases, so a `stopCh` that is ready at every turn of `loop` is taken in the end:
strong fairness of `SelectStop`. `Subscribe` also assumes that the ticker fires and that a
client that does not cancel keeps receiving; nobody is obliged to cancel, and in
`PollerLoop` nothing obliges the ticker, a client or `Stop`. `Client` assumes that the timer
of its context fires and that a request whose context has expired returns, which is what
gRPC promises; that a server ever answers is not assumed, nor that anyone runs the client.
Without the deadline of the code `ClientEnds` would not hold.

## Proofs

Eight modules hold the theorems. Each is proved for every value of the constants, from the
assumption its module names and nothing else. An invariant was checked with TLC, as an
invariant of the component's run, before it was proved.

| Component | Theorems | Assumes |
|---|---|---|
| `Poller` | `TypeCorrect`, `InvCorrect`, `StalenessBounded`, `CohortsAtomic`, `StaticsFrozen`, `StoreAdvances`, `PollingBounded`, `QuietStopped`, `ResponsesCoherent`, `LiveReadsLive` | durations are natural numbers |
| `PollerLoop` | `TypeCorrect`, `LockDisciplined`, `StoreIsAtomic` | a missing entry is not a value |
| `LazyIndex` | `ByNameIsCorrect`, `IndexIsFrozen` | `Startup # <<>>`, stated in each theorem |
| `Decode` | `GettersDecode` | an even number of values of a byte; the object is one its C type can be |
| `ReadPath` | `ReadsKeepIndex`, `ReadsAreTyped`, `AnswersAreHeld`, `UptimeIsTrue`, `PercentIsSane` | `Startup # <<>>`, stated in each theorem; the kernel's objects have the C types the registry and the computed metrics expect, a part is at most its whole, and the boot time moves with the clock only |
| `MIBCache` | `TypeCorrect`, `MibIsOfName`, `EnomemOnlyIfGrown`, `CacheGrows`, `ReadIsOneLook`, `WarmIsKept` | names have distinct MIBs; `Known`, which `Warm` is given, lists no name twice |
| `Subscribe` | `TypeCorrect`, `DeltasAreExact`, `FirstIsComplete`, `DeltasAreSnapshots`, `NoRequestPanics` | the window is not empty; TTLs and intervals are integers |
| `Registry` | `MergeIsFaithful`, `CategoriesArePartition`, `ValidatorIsExact`, `GeneratorIsComplete` | `KnownAssumption`: no name twice, every category one of type `Category`, a category's metrics together |
| `Client` | `AllIsShown` | the same |
| `Name2Int` | `ValidationIsExact`, `FlatIsExact`, `SummaryIsComplete` | `Known` is not empty; only names that `main` reads change or vanish; a MIB is a nonempty sequence of natural numbers |

`KnownAssumption` is how `registry.go` is laid out: its 250 entries were compared with it. `-all`
prints a heading whenever the category changes, so a table laid out otherwise would repeat some.

`Startup # <<>>` is what the server does with polling on, as every registry the generator writes
has STATIC metrics; with polling off it fails, and so does the conclusion (`index_cold`).

**Poller.** None of the properties is inductive. A stored value's age is bounded because of
when its metric is next due, which depends on where the loop is, on whether a tick is pending
and for how long. `PollerInvariant` says so in parts:

- `ClockInv`: the wall clock, and the `now` sampled from it, are within the skew; the next tick is at most an interval away.
- `BatchInv`: the batch holds readings of this tick only, of scheduled metrics only.
- `StoreInv`: every scheduled metric is in the store as soon as `newPoller` has passed it, with a reading no older than its tick.
- `TickInv`: what `batch` and `nextGather` say of the metrics visited so far and of the others.
- `CohortInv`: metrics of one ttl share schedule and tick; inside a tick the visited ones are ahead by exactly that tick.
- `ScheduleInv`: how far `nextGather` may be, either way, from the reading it follows.
- `DeadlineInv`: the tick that will replace a reading is delivered before the reading's deadline.
- `StopInv`: when `Stop` has returned the goroutine has too.

The proof has one step per action and one per part that the action can disturb. Responses
need more, `ResponseInv`: an answer already given comes from a tick no later than the one the
store holds now. Answers of one cohort cannot step back because the store does not regress
(`StoreGrows`) and a cohort is of one tick (`CohortInv`).

**PollerLoop.** `LockDiscipline` is inductive with types and the fact that `putBatch` is only
called with something to write. The refinement is proved step by step: acquiring the lock is
the abstract `Publish`, since until then `values` is unchanged and from then on no get is inside;
copying an entry changes nothing the mapping shows.

**LazyIndex.** Until `newPoller` returns only its own goroutine is inside `ByName`,
and its map holds exactly the names before the loop's position; so when its first call returns
the map is whole, and from then on nobody is on the path that makes one. `ReadPath` takes only
steps of `LazyIndex` or steps that leave it alone (`UsesIndex`), so its theorems follow.

**Decode.** Each layout is a list of 4-byte words. A word's bytes give the word back,
eight bytes the pair of words, and the sign rule of the Go conversions gives back the member;
`GettersDecode` puts the members together per type.

**ReadPath.** `HistInv` says that every state the kernel had is well formed, that parts are at
most their wholes, and that the uptime never falls. `ReadInv` says of every thread that each
operand it holds is what the getter makes of the state in `hist` at the position it recorded,
none from before the call. An answer is therefore made of operands that were held; a
percentage leaves 0 to 100 only if no one state had its operands; and an uptime is one the
machine had during the call, shifted by what the clock was set by between the two reads.

**MIBCache.** `ReadInv` says of each read in progress that its MIB is its name's, and that the
length it allocated for is one the value had since the call began; `ENOMEM` then takes two
versions of which the later is longer. The refinement lets the value call be the abstract look,
or the call that fails. `WarmInv` follows `Warm` through its list: the count is of the names
before the one in progress, and only those and the one in progress are cached, which needs the
names to be distinct.

**Subscribe.** `StreamInv` relates three copies: what the client will hold once it has applied
everything in flight (`Held`) and the deltas of the round so far is always the server's `prev`.
That is why `prev` may be updated before the send, and why a repeated name does no harm: the
second read of a round is compared with the first. `FirstInv` says which names the first round
has accounted for at each position. In the refinement a read that is
kept is a `Sample`, the send a `Push`, the client's receive a `Pull`. `NoRequestPanics` rests on
the minimum being the least of a set of positive durations, whatever the TTLs.

**Folds.** The library's induction theorems are out of reach, so `FoldProofs` argues with the
least counterexample: a set of positions that has 0 and the successor of each of its members has
them all (`UpTo`). A fold over a sequence has a trace, the sequence of its intermediate results
(`TraceExists`, `LeftTrace`), and what a fold computes is an invariant of its trace. From that
follow what a filter keeps (`FilterFacts`) and that the sizes of the classes of a partition add
up to the whole (`SumPartition`), which the next two components need.

**Registry and Client.** `RegistryInv`: what is served is the merge of what was loaded, and
`byName` keeps the last entry of a name. `CategoriesPartition` and the count of each category
follow from the lemmas on folds. The validator strikes names off as it passes them, and
the invariant of its trace says which are left and which issues were found. `GeneratorInv` says
that the file is what was written so far until it is edited; that no category falls through
`classifyRecommended` is then a check of the tables. `Client` takes only steps of `Registry` or
steps that leave it alone. `ClientInv` says that nothing is printed before the last answer, and
that the second request of `-all` is for the names of `Known`, which every server lists, however
often it was started anew between the two requests.

**Name2Int.** `ToolInv` counts: every attempt of `validateReads` that disagreed has cost a
change of that value, as has a difference from what the read by MIB returned. `ReportInv` says
that there is one row for each entry passed so far that is not computed, and what a row can be. A
flat identifier is four digits in base `LevelBase`, the missing ones zero, and digits are unique,
hence `FlatExact`. For `SummaryAccounts` each breakdown is a partition of the rows, and the trace
of the ranges says that each counts the rows of its top level and spans their second levels.

The proofs changed the models where these could not be reasoned about, or said less than they
meant. `AtomicStore` had a set difference that bound the wrong way, so that a put of nothing was
allowed. `Subscribe` validated all names in one step and applied deltas with a fold, and now does
both name by name, closer to the code. The collecting loops of `Registry` and `Client`, and
`flattenMIB` and the ranges of `Name2Int`, are loops as in the code; the counters of `Name2Int`
are sizes of sets of positions; a layout of `Decode` is given by words. The assumptions on `Warm`'s
list, on the table of `registry.go`, on the kernel's objects and on the tool's names and MIBs, which
the instances met, are stated.

Only model-checked:

- liveness, with its fairness, and so the liveness part of `ImplementsAtomicStore`: the prover has neither `ENABLED` nor fairness;
- the four violations, which are counterexamples.

## Not modelled

The assembly trampolines and generated code, whose effect is the atomic system call and
the messages; the layout of what the client and the tool print, log output, descriptions
and timestamps; `String` and `Duration` of the structs, which the server does not call.
Start-up is modelled in pieces: `Registry` has the loading and merging of `New`, `MIBCache`
the warming, `LazyIndex`, `ReadPath` and `Poller` the first reads. A listen error or one of
`Serve` ends the process. A MIB that the kernel reassigns, and TTLs near 2^63, are outside
the models. The table of `registry.go` is data: TLC has excerpts with every category and
every type that is in use.

## Plan

1. Done: poller, store, index, MIB cache, Subscribe, registry, read path with decoding and computed metrics, client, name-to-MIB tool.
2. Done: the safety results above, and the refinements of `AtomicStore` (safety), `KernelRead` and `SnapshotStream`.
3. Done: the results about loops and folds (decoding, generator, validator, categories, `-all`, summary, flat identifiers) and about answers.
4. No safety property of a passing run is without a theorem. Left are the liveness properties, until the prover has `ENABLED`.
