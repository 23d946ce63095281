# adblock-compiler in TLA+

adblock-compiler downloads filter lists, compiles them (deduplicate, validate,
optimise, ...) and serves the result from a Cloudflare Worker: synchronously
over HTTP, over a WebSocket, and asynchronously through a queue. Most of the
code turns text into text. What is hard in it is the part around the
compilation: objects shared by concurrent requests, state that lives in memory
of a process the platform may evict at any time, values that are read, changed
and written back across an `await`, retries, timers, and answers that get lost.
That part is what these modules model.

Paths below are relative to the repository root; PROJECT.json prefixes them with
`src/`, so the repository's own `src/utils/CircuitBreaker.ts` is
`src/src/utils/CircuitBreaker.ts` there.

- [Inventory](#inventory)
- [Modules](#modules)
- [Runs](#runs)
- [Proofs](#proofs)
- [Where documentation and code disagree](#where-documentation-and-code-disagree)
- [Not modelled](#not-modelled)
- [Plan](#plan)

## Inventory

### How the parts interact

    HTTP POST /compile ──► tiered rate limit ──► RateLimiterDO   (one per identity)
                                │                   └ KV, if the object is unreachable
                                ▼
                        handleCompileJson ──► CompilationCoordinator (one per cache key)
                           │        │             waiters poll, the holder reports
                           │        └ on any error: pendingCompilations (per isolate)
                           │          and COMPILATION_CACHE (KV)
    WebSocket ─► sessions ─┤
                           ▼
    POST /compile/async ─► queue ─► handleQueue ─► WorkerCompiler / FilterCompiler
                           │                           │        │
                           └ queue:stats (KV)          │        └ transformations,
                                                       ▼          PluginRegistry
    CachingDownloader ──────────► FilterDownloader ─► CircuitBreaker (one per URL)
       └ cache, snapshot and health record of each source (storage adapter)

    cron ─► HealthMonitoringWorkflow ─► health history, totals, alerts (KV)
                └ WorkflowEvents ─► event log of the run (KV)

### Modelled

| Component | State | Operations | What is hard | Correct when |
|---|---|---|---|---|
| Circuit breaker, `src/utils/CircuitBreaker.ts` | state, failureCount, lastFailureTime; calls in flight | execute (admission; outcome), reset | a call admitted in one state settles in another | counter, clock and state agree; HALF_OPEN can always be left; it recovers |
| Rate limiter object, `worker/rate-limiter-do.ts` | the window in memory and in storage; one alarm | increment, reset, alarm, constructor | eviction between any two events, late alarms, changing limits | it is a fixed window, whatever is evicted |
| Tiered rate limit, `worker/middleware/index.ts` | one KV value with a time to live | object first, KV second | two requests read the same count; stale reads; slow writes | nobody is refused below his limit, and no live window is lost |
| Compilation coordinator, `worker/compilation-coordinator.ts` and its client in `worker/handlers/compile.ts` | inFlight, result, error, in memory only | acquire, complete, fail, wait; evict | a lock without owner or lease; reports in two turns; lost answers, evictions, killed holders | one compiles; no waiter is orphaned or given a report from before it asked; every request is answered |
| Compile handlers, `worker/handlers/compile.ts` | pendingCompilations per isolate, COMPILATION_CACHE | coordinated path, local fallback | awaits between the check and the set of the map; failure of the coordinated path; a Worker killed with its entry in the map | no request joins a compilation that is over; everyone is answered |
| WebSocket sessions, `worker/websocket.ts` | the sessions map of one connection, timers | compile, cancel, completion, delayed removal, heartbeat, close | removals by id, ids that are reused, cancelled compilations that run on | one verdict; running sessions are listed; entries leave |
| Queue, `worker/handlers/queue.ts` | messages, queue:stats, result cache, cancel keys | send, deliver, compile in chunks, ack, retry, cancel | at-least-once delivery, killed invocations, read-modify-write of one KV value | an acknowledged message is done; nothing starves; statistics are never inflated |
| Plugin registry, `src/plugins/PluginSystem.ts` | plugins by name, ten maps of slots | register, registerAll, unregister, clear, rollback | calls that overlap during init() and cleanup(); registrations that fail half way | a registered plugin is served; a failed one leaves nothing |
| Filter downloading, `src/downloader/FilterDownloader.ts` | visitedUrls, shared by all calls of the instance; activations in progress | download, include, retry, failure, cycle and depth checks | every fetch suspends a call while others clear and fill visitedUrls; lists that include each other; include failures that are swallowed | nothing is collected twice; nothing is missing without a reason; every call ends |
| Source health and change detection, `src/storage/CachingDownloader.ts`, `SourceHealthMonitor.ts`, `ChangeDetector.ts` | cached list, snapshot and health record of each source | downloadWithMetadata: look up, download, store, snapshot, record; expiry | four awaited storage calls per download, records read and written back, storage errors that look like "not there" | the three records agree with each other and with what was downloaded |
| Workflow events, `worker/workflows/WorkflowEvents.ts` | buffer in the isolate, log in KV | emit, flush | a flush that fails before or after its effect, a replayed run | no event lost, none twice |
| Health workflow, `worker/workflows/HealthMonitoringWorkflow.ts` | persisted steps, healthHistory in the isolate; history, latest, totals, alerts in KV | load, check, analyze, alert, store | retried steps over state outside them, restarts, timeouts, overlapping runs; runs with other lists of sources share the history | an alert is earned; records are those of the checks |

### Not modelled yet, with state of their own

| Component | State | What is hard | What should hold |
|---|---|---|---|
| Compilation, batch and cache warming workflows | durable steps, results in KV | chunks retried and replayed | each result once, none lost |
| PlatformDownloader, fetchers, preprocessor expressions | the same recursion for the Worker | unterminated `!#if` | the same as FilterDownloader |
| FilterCompiler, WorkerCompiler, TransformationRegistry | none between compilations | parallel sources, combined in order; fixed order of transformations | output independent of which source answers first |
| IncrementalCompiler | per-source cache | age, forced refresh, stale fallback | the fallback is what gets compiled |
| PAYG middleware | paid requests per session | counted first, read back afterwards | a request that is refused costs nothing |
| Hibernating WebSocket object | sockets, `session:` records | hibernation | records match sockets |

The rest (transformations, parsers, formatters, diff, configuration, storage
adapters, diagnostics, routing, authentication, administration, agents,
frontend) is listed with reasons in PROJECT.json and below.

## Modules

The code is JavaScript: a stretch without `await` runs to completion. A step of
a model is such a stretch, and everything that can happen at an `await` happens
between two steps. Variables named *history* record what has happened and are
read by no guard of the code.

**CircuitBreaker.** `Admit`/`Reject` are `execute()` up to `await fn()`,
`Succeed`/`Fail` are `onSuccess`/`onFailure` after it; `Reset`. The clock is the
age of the last failure, saturated at the timeout, which is all the code looks
at; `failureCount` saturates at `MaxFailures`. `ResourceFlips` is the
environment.

**FixedWindow** is what the rate limiter promises: grant while below the
caller's limit, refuse only at it, forget at the end of the window.
**RateLimits** holds what this module, the next and their proofs share: the
limits, the length of the window and the clock.
**RateLimiterDO** is how the object does it: `mem` (undefined when evicted),
`disk` (three keys), `alarm`. `increment()` has four cases, each with the keys it
writes; a new window is two storage calls, and with `MayCrash` the object can
die between them. Input gates hold events back while storage is awaited, which
is why no other event falls in between. It implements FixedWindow with
`win <- ` the stored window, while it has not ended.

**TieredRateLimit** is the middleware around it, for one identity: the object
answers, or the KV fallback reads (possibly `older`, the version before the
latest), decides and writes back later. `kvGrants` is the history of grants.

**CompilationCoordinator** has the object and its clients in one module, as
neither means much alone. Each report takes two steps, around
`await request.text()`; a waiter polls. `Faults` chooses what can go wrong:
`"evict"` (memory gone, calls in progress fail), `"lose"` (a call or an answer),
`"die"` (a Worker killed while it compiles); `happened` records what did. `heard`
is a history: who was waiting when a result was stored.

**CompileHandler** EXTENDS CompilationCoordinator: a request first runs the
protocol, and on any error starts over locally with `pendingCompilations` and KV.
Each isolate has its own map; KV may not show a value yet, and a `get` that throws
is outside any `try` and answers 500 (`CacheFails`). With `"die"` a Worker can be
killed on either path. In the local one (`KilledLocally`) the `finally` does not
run, the promise never settles, and the isolate's map keeps the entry.

**WebSocketSessions** is one connection. A job is the object that the asynchronous
handler keeps a reference to; `sessions` maps ids to jobs. Timers name the id
only, as in the code. `told` is what the client was sent about each job.

**QueueConsumer.** A message holds items: one for a compile message, many for a
batch. A delivery works through chunks of `ChunkSize`, items of a chunk
concurrently, then acknowledges or retries the whole message. Every statistics
update is a `ReadStats` and a later `WriteStats` of the changed copy, by any
number of producers and items at once. `Kill` ends an invocation anywhere. `runs` and
`killed` are histories: a compilation is the pair of an item and the delivery
that made it (`Run`). The items in `PreFetched` carry the content of their sources:
they have no cache key, so they complete without any put.

**PluginRegistry.** The ten maps are one map `entry` from keys to plugins.
A caller has a list of jobs (`todo`: one for `register`/`unregister`, several for
`registerAll`/`clear`) and waits in `init()` or `cleanup()` (`waiting`).
`Collide` is a registration that meets a taken key and keeps what it has filled.
Removal by key (`TakeOut`) is blind to the owner, as in the code. Of
`topologicalSort` the model keeps what `registerAll` relies on: some order with
the dependencies first.

**FilterDownloader.** A call is a stack of activations of `downloadInternal`
(`stack`): each fetches its list, with its retry number, then walks through its
includes. `visited` is the one set all calls share. `dropped` and `disturbed`
record that a call has left out an include (failed, or too deep), and that another
`download()` overlapped it. The breaker of a URL (module CircuitBreaker) can only
turn a fetch into an immediate failure, which `FetchFails` covers.

**CachingDownloader** EXTENDS FilterDownloader: `downloadWithMetadata` drives it
and then writes the three records, each in a step of its own (`phase` is the await
a call is suspended at). A fault makes a storage read empty and a write void, which
is what the adapters' `catch` blocks turn it into. `settled` is the history of
outcomes; `torn` and `lost` name the sources whose writes overlapped or failed.

**WorkflowEvents** has the buffer and the log of each run; the events between two
milestones are one event. A flush succeeds, fails before its effect, or fails after
it. **HealthMonitoringWorkflow** EXTENDS it. Each run brings its own list of sources
(`SourcesOf`: the hourly run has `DEFAULT_SOURCES`, a request any list at all), and
a recorded check covers the names of that list, which is how `analyze-results` can
meet checks without the source it looks for. Runs in `Silent` have no
`alertOnFailure`. `pc` walks through `run()`, one step per KV operation, because a
step callback that fails after some of them starts again from its beginning. Results
of finished steps are persisted and `Replay` returns them after a `Restart`; what
lives outside the steps (`memory`, the loaded history) survives a retry and is lost
in a restart.

`MC*` modules give constants that a .cfg cannot express (functions, sequences,
symmetry).
`*_proofs` modules hold the theorems. A definition named `X_Mut...` is a
plausible bug in `X`, listed in PROJECT.json with the property that notices it;
no specification uses it.

## Runs

| Run | Checks | Bounds |
|---|---|---|
| breaker | CountMatchesState, ProbeOutstanding, RecoveryWaited, RecoversWhenHealthy | 3 callers, threshold 2, timeout 2: a straggler, a probe and a newcomer meet, below, at and above the threshold. 2,258 states |
| rate_limiter_object | MemoryOnDisk, WindowHasAlarm, ImplementsFixedWindow | limits 1..3, 3 windows, alarms up to the end of time, evictions anywhere. 1,690 states |
| tiered_rate_limit | CountHonest, NoFalseRefusal, LiveWindowKept | 2 requests at a time with any number in sequence, limits 1 and 2, clock to 3: three windows, writes a window late. 1.3 million states |
| coordinator | SingleHolder, NoOrphanedWaiter, ReportIsFresh | 3 requests (holder, waiter, next holder), all faults, 2 polls. 30,964 states |
| coordinator_waiters | WaitersGetResult: violated | same, no faults at all |
| handler | NoStalePending, EveryoneAnswered | 3 requests, two on one isolate and one on another, evictions, and kills on both paths. 960,926 states |
| websocket | TypeOK, OneVerdict, RunningIsListed, EveryJobEnds, EntryLeaves | 3 compilations under 2 ids (one id is reused), limit 1, heartbeat timeout 1. 64,523 states |
| queue | TypeOK, AckedIsDone, NeverInflated, CompletedIsCached, NobodyStarved, EveryMessageSettles | one batch of 3 items (one pre-fetched) in 2 chunks, 2 deliveries, kills anywhere: three updates of the statistics overlap. 753,832 states |
| queue_cancel | CancelledNotCompiled: violated | same |
| plugins | ServedWhileRegistered, NothingLeftBehind, BatchMeetsDependencies | 3 callers, 3 plugins: two of one name, two that clash on the second key, one that depends on another; with and without init() and cleanup(). 572,508 states |
| caching_downloader | OnceWhenAlone, CachedIsWhole, CacheMatchesSnapshot, HealthIsHistory, NeverOvercounted, EveryCallEnds | 2 callers, 3 calls, 1 failing storage call; two lists in a circle, one including the other twice and the other including itself; depth limit 1, 1 retry, a record of 1 attempt, so every limit is met. 485,444 states |
| health_workflow | AlertEarned, QuietRecords, EventsKept, EventsOnce, EndIsLogged | 3 runs, at most 2 at a time, of which two check one source and the third one more before it; threshold 3, history of 2 checks; 2 faults, where a failing KV call, a restart and an overlap count one each, and step timeouts anywhere. 2.5 million states |

The type invariants of WebSocketSessions and QueueConsumer are checked by their
runs, because what they say of counters and timers could be wrong; all type
invariants are theorems (see below). Three processes
are enough wherever the hazard is "A reads, B changes, A acts while C watches";
two suffice for lost updates.

**Deadlock** is off where everything really may come to an end: a fixed number of
requests, jobs or messages, each handled once.

**Fairness.** Weak fairness, per process, of the steps the runtime performs by
itself: handlers that have begun continue, timers fire, the platform delivers what
is queued, storage calls settle, and a compilation settles one way or the other,
because the downloader aborts each fetch at its own timeout and retries a bounded
number of times. There is no fairness on clients, faults, evictions or success. The
breaker also assumes that time passes and that callers keep calling, without which
no breaker could close; `RecoversWhenHealthy` is moreover conditional on the
resource staying up. A plugin's `init()` or `cleanup()` need never return (only
`initTimeout`, if it is given, bounds it), so nothing is claimed about registrations
ending. Nor is there a liveness property of the health workflow: its runtime retries
by a limit the platform sets, and the run may end by an error.

**Exceptions inside properties.** Some properties hold except after an event that
the model records, and name the event: `SingleHolder` until the first eviction, lost
call or killed Worker; `NoOrphanedWaiter` until the first eviction;
`EveryoneAnswered` except for requests that joined a local compilation that was
killed (`Hangs`), and `NoStalePending` lets an entry be that of one;
`CompletedIsCached` except for jobs without a cache key and for puts that failed;
`RunningIsListed` except for ids under which a cancelled compilation failed later
(`Spoilt`: such an id is removed twice, and the second removal can hit a new
session); `ServedWhileRegistered` except for keys taken by the second of two
overlapping `unregister()` calls (`late`); `NothingLeftBehind` except for plugins
refused half way (`collided`) and names that two overlapping calls fought over
(`replaced`); `OnceWhenAlone` except for downloads that overlapped another
(`disturbed`), and `CachedIsWhole` also for those that dropped an include
(`excused`); `CacheMatchesSnapshot` and `HealthIsHistory` except for sources whose
two writes overlapped or failed (`torn`, `lost`); `EventsOnce` except for runs
restarted or with a write that failed after its effect (`repeating`); `AlertEarned`
allows one run less for each record that a retry repeated (`repeats`);
`QuietRecords` until the first fault; `EndIsLogged` up to one. Each exception is a
weakness of the code, and TLC shows it when the exception is dropped from the
property.

## Proofs

TLC checks the bounds above; the theorems hold for every value of the constants that
satisfies the ASSUMEs of the module. Every invariant, action property and refinement
that a passing run checks is also a theorem. They are in eight proof modules, in
8,054 obligations; the strengthened invariants were checked by TLC before they were
proved.

**What is assumed of the constants.** Limits, thresholds, chunk sizes, numbers of
deliveries and retries are natural numbers, positive where the code has a positive
constant; `None` is none of the values it stands beside (`undefined` and `null` are
not); sets that the code counts or keeps in a list are finite; items with
pre-fetched content are items. `MaxBusy` and `MaxSources` (health workflow) are
bounds: how many runs overlap, and how long the longest list is. Three assumptions
say more. QueueConsumer's `ItemsAssumption` gives every message some items (the
request schemas refuse an empty batch), and its `DistinctAssumption` no item to two
messages or twice to one: items are entries of a message, not configurations, so two
requests for the same list are two items. HealthMonitoringWorkflow's
`SourcesAssumption` gives every run a list of at least one source (for an empty one
the run takes `DEFAULT_SOURCES`, line 168). Its `ThresholdAssumption` has the
history hold at least `FailureThreshold - 1` checks. In the code these are 100
(`HealthMonitoringWorkflow.ts:410`) and 3 (line 65); with a shorter history no alert
could ever be raised.

**CircuitBreaker_proofs**: `TypeOK`, `CountMatchesState`, `ProbeOutstanding` and
`RecoveryWaited` are inductive together. `RecoveryWaited` needs
`CountMatchesState` to know that an OPEN breaker has a clock, so that
`shouldAttemptRecovery` cannot succeed by its `!lastFailureTime` branch.

**RateLimits_proofs**, on the object: `MemoryOnDisk` by induction together with
`WindowStored` (what is stored is a real window), under every crash.
`WindowHasAlarm` and the refinement `ObjectImplementsFixedWindow` assume
`MayCrash = FALSE`: with the crash between `put()` and `setAlarm()` TLC finds both
violated, as the alarm of the previous window then ends the new one. The
refinement has a step per handler: it is a grant, a refusal, a reset or the end of
a window, or it stutters. On the middleware: `CountHonest`, `NoFalseRefusal` and
`LiveWindowKept` follow from one invariant. It adds that a request writes only on
top of a count below its limit (`ReadsInTurn`), and that no window ends later than
one that began now, while a key outlives both versions of its value
(`EndsInTime`). `NextIsWindow` says what a write leaves, whichever version was read.

**CompileHandler_proofs**, on the protocol: `TypeOK` and `ReportIsFresh` under every
fault, `NoOrphanedWaiter` until an eviction, `SingleHolder` until any fault. The
strengthening for the lock says that the flag is up exactly while one request is
between acquiring and the second half of its report. For `ReportIsFresh` it is that
nothing is stored while the flag is up (`NoReportYet`), and that whoever waits was
already waiting when the result in store was put there (`AllHeard`): `acquire`
clears the result in the stretch that raises the flag, and nobody is told to wait
without the flag. On the handler: every step is a step of the protocol or stutters
for it (`FollowsProtocol`), so the theorems on the protocol hold of requests to
`/compile`. `PlacesFit` ties three places together: the one in the handler and the
one in the protocol (a request falls back, and reads KV, only when the protocol gave
it nothing), an answer and what it came from, and an entry of pendingCompilations
and how far the request that set it is. From it `NoStalePending` follows by
induction: setting the entry and starting the compilation are one stretch, and when
a compilation ends its `finally` leaves no entry for the key, whoever's it was; a
compilation that is killed leaves its entry, but has not settled.

**WebSocketSessions_proofs**: `JobOK` says what the status of a job allows its
abort flag, its verdicts and the removals still to come to be: `OneVerdict` follows,
because the check of the status and the verdict it permits are one stretch.
`RunningIsListed` is not inductive: a job that has ended keeps its id until its
delayed removal, or else that removal would hit a new session. The invariant is
`Listing`, that every job that runs or has a removal to come is in the map under its
id. Only a second removal of one job could break it, and the ids that get one are in
`Spoilt`, which never shrinks (`SpoiltGrows`); `OneJob` is what the steps share that
change one job and leave the map alone.

**QueueConsumer_proofs**: one invariant in three parts. `Flow` follows a message
through its deliveries and its chunks (`MessageOK`), and says which compilations
each item has behind it (`RunsOK`): one for every delivery that is over, unless it
was killed. `AckedIsDone` and `NobodyStarved` are read off it. `AllSound` is
`NeverInflated` for the stored statistics and for every copy that a producer or an
item has read and not written back, with sharper bounds: only compilations whose
update is over may be counted (`Reported`), and only messages whose producer is
through (`Counted`). Otherwise a copy that is written back with one more added could
not be shown to stay within the bound. `Cached` has the result put before the
success can be counted.

**PluginRegistry_proofs**: `ServedWhileRegistered` needs the same to be known of
a plugin while its `init()` runs (`ServedWhileStarting`), because that is when it
can lose its keys, and that two registrations of one object overlap only when
its keys have all been taken late (`StartedOnce`), or the rollback of one would
remove the other's. `NothingLeftBehind` needs that the owner of a key declares
it (`EntryIsOwn`), so that a rollback by key is complete. `StartsFrame` says once
for all actions how a step affects who is starting. `BatchMeetsDependencies`
needs that what a batch still has to do stays sorted (`Sorted`: a dependency is
registered, has been unregistered at some time, or comes earlier in the list), and that
the `init()` a batch awaits is that of the first plugin of this list, so that it
goes on only when that plugin is in the map. `TypeCorrect` needs the set of plugins
finite, so that a job list made from it has an order.

**CachingDownloader_proofs**, on the filter downloader: `OnceWhenAlone` needs that
whatever a lone download has collected or is fetching is in `visited`, and that what
it is fetching is not yet collected; both because `visitedUrls.add` comes before the
fetch, in the same stretch as the check. On the records: `StepRefines` maps each
step to one of FilterDownloader or to a stutter, from which `DrivesDownloader`
follows. `NeverOvercounted` is proved with the same bound for every record that a
call has read and not yet written back: a stale copy can only be smaller. For
`HealthIsHistory` such a copy is exact, and there is one per source, unless the
source is in `lost`. `CacheMatchesSnapshot` needs that of a source outside `torn` at
most one call is between its two writes, and that it writes to both what it
downloaded. `CachedIsWhole` compares a depth-first recursion with the least set
closed under `!#include`. The invariant `WholeSoFar` is the usual one of such a
search: what is visited is reachable; what is visited and not collected is the list
being fetched; and every collected list either has all its includes visited or is
still on the stack, where those its activation has passed are visited. When the
stack is empty the collected lists are closed, and `ReachableIsLeast` makes them all
that there is. It holds for every include graph, cycles included, with any depth
limit.

**HealthMonitoringWorkflow_proofs**: four parts over a common `Control`, which says
what each place in `run()` implies for the persisted results. `EventsOK` numbers the
milestones (`Rank`), so that `EventsOnce` becomes: what the emitter holds is in the
log or the buffer once, and has a lower number than all that is to come (`Bound`);
and that a log or buffer ends with the final event, unless one fault for the first
flush and another for the second have been spent (`Ending`). `HistoriesOK` carries
`AlertEarned`: in the stored history, in each isolate's memory and in each persisted
load, the newest k records are of k different runs, less the repeats so far
(`Varied`). `Quiet` carries `QuietRecords`: without a fault one run is under way at
a time, and how far it has come with its four writes determines all four records;
what it alerts of is compared with the newest checks recorded, of whatever lists
they are (`FailedAlike`). A name that is twice in a list is recorded by its last
place; that there is one (`LastIndex`) is a minimum over a finite set of numbers.

**Only model-checked.** All liveness: RecoversWhenHealthy, EveryoneAnswered,
EveryJobEnds, EntryLeaves, EveryMessageSettles, EveryCallEnds, which is out of the
prover's reach, as is anything with ENABLED or induction over data (the latter is
never needed: the includes are walked by a stack in the state, and
reachability is defined by closed sets). And the two violated properties,
whose counterexamples are the point.

## Where documentation and code disagree

Shown by a run:

- `docs/architecture/durable-objects.md:28`: "all waiters get the result". The next
  acquire clears the report (`compilation-coordinator.ts:119`) before a waiter's
  poll, and the waiter can time out (coordinator_waiters).
- `queue.ts:712` says the cancel key is for consumers to consult. None does
  (queue_cancel).

Met while modelling, without a run:

- `docs/development/CIRCUIT_BREAKER.md:18-20` draws HALF_OPEN as the only way out of
  OPEN. A call admitted before the opening that succeeds late closes an OPEN circuit
  at once (`CircuitBreaker.ts:160`; `OnSuccess` has no guard on the state).
- `docs/api/README.md:155` promises deduplication of concurrent identical requests.
  The local path awaits KV between looking into pendingCompilations and setting its
  entry (`compile.ts:308-435`: `CheckPending`, then `CacheMiss`), and two requests
  of one isolate can both compile.
- `CachingDownloader.ts:182`: `invalidateCache` deletes the key ['cache', 'filters',
  source] of the generic storage, while lists are cached in the filterCache table,
  so it has no effect on the next download.
- `HealthMonitoringWorkflow.ts:64`, "Number of failed checks before alerting". A
  retry of store-results records its check again (line 406), so an alert can come a
  run early; and a source that hangs runs into the step's timeout, outside the
  callback's `try`, which fails the run: its check is never recorded, so such a
  source alone never raises an alert.
- `docs/cloudflare/CLOUDFLARE_WORKFLOWS.md:221`, "3 consecutive failures before
  alerting", counts checks of the shared history, and line 244 lets a request run
  with its own sources. A check that did not include a source ends its count
  (`HealthMonitoringWorkflow.ts:328`), so one such run between failures keeps the
  alert back (`FailedBefore`).
- `compile.ts:429`: the `finally` that frees the key in pendingCompilations does not
  run when the platform ends the invocation (`KilledLocally`). As long as the
  isolate lives, later requests for that key that fall back await a promise that
  nothing settles, until a request that was already past the check sets its own
  entry over it (`Hangs`).
- `compile.ts:327`: the KV `get` of the fallback is outside any `try`. If it throws
  the request ends with 500 without a compilation (`CacheFails`).
- `worker/websocket.e2e.test.ts:205-292` sends a second compile message under the
  same session id as soon as the first has completed. The code keeps the id for 60
  seconds and answers that it is in use; the test is ignored unless a server is
  available.
- `websocket.ts:382`: the abort signal is passed to nobody, so a cancelled
  compilation runs on and does not count against the limit.
- `queue.ts:139`: pending is decremented once per delivery and incremented once per
  send at most, so after a retry it is too small (`NeverInflated` says only that it
  is never too large).
- `docs/development/CIRCUIT_BREAKER.md:11`: one request is let through after the
  timeout. Every call that arrives in HALF_OPEN is admitted.
- `rate-limiter-do.ts:61` calls the window sliding; it is fixed, so up to twice the
  limit passes around its end.
- `docs/architecture/durable-objects.md:23`: only one Worker compiles. After a
  failed coordinated compilation its holder and all its waiters compile locally.
- `docs/architecture/durable-objects.md:30` has every queue path go through the
  coordinator; `queue.ts` does not use it.
- `docs/api/README.md:154` and `:167`: the coordinated path fills the KV cache and
  never reads it, and a deduplicated failure is answered with status 200.
- `PluginSystem.ts:388`: "already registered by another plugin" is also what a
  plugin is told about a key of its own, left from an earlier refused registration;
  nothing but a new registry frees the key. And `unregister` does not look for
  dependents.

## Not modelled

Text processing (transformations, rule parsing, formatters, headers, diff,
preprocessor expressions): pure functions of strings, where an example-based test
reaches what a model would. Storage adapters, authentication, administration,
diagnostics, routing, agents, dynamic workers, command line, frontend: no shared
state of their own, or the order of effects is the database's or the platform's.
Within the modelled files: GET routes that only read, validation answers (400) that
change nothing, streaming and AST requests that share no state, wording, logging,
timing figures and caps of histories; the times to live of KV keys, and KV reads of
an older version, in the queue and the health workflow (they are modelled in the
middleware, and in the handler's cache); a restart of a run of the health workflow
inside the `catch` that ends it; the SubsystemBridge of the plugin registry, which
mirrors each change in the same step. Platform behaviour (KV staleness, eviction,
input gates, at-least-once delivery, alarms that are late) is modelled as the code
must expect it and is marked external where it has a definition of its own.

## Plan

Done, in this order: CircuitBreaker (the leaf everything downloads through),
FixedWindow and RateLimiterDO, TieredRateLimit, CompilationCoordinator and its
composition CompileHandler, WebSocketSessions, QueueConsumer, PluginRegistry,
FilterDownloader and its composition CachingDownloader, WorkflowEvents and
HealthMonitoringWorkflow; eight proof modules, with a theorem for every safety
property of the runs.

Next, most important first:

1. **FilterDownloader with CircuitBreaker**: one breaker per URL around the retries
   of a fetch. Property: a breaker counts one failure per exhausted fetch, and an
   open one drops an include that a later download gets back.
2. **BatchCompilationWorkflow, CompilationWorkflow, CacheWarmingWorkflow** over
   WorkflowEvents: chunks of steps that are retried and replayed, their totals.
3. **Pipeline**: sources in parallel, ordered concatenation, transformations in
   their fixed order; the result as a function of the configuration, whatever the
   order of answers. IncrementalCompiler on top, with its stale fallback.
4. **PaygSession**: the conditional decrement of a session's requests.
5. Proofs: the abstract specifications below as refinements, and for each
   exception that a property names, a theorem that nothing else falls under it
   (an id is spoilt only by a cancelled compilation that failed later, and so on).

Abstract specifications worth stating: a lock with outcomes for the coordinator
until its first fault (SingleHolder as a refinement), and a multiset of
outstanding work for the queue.
