# A TLA+ verification development for sprawler

sprawler reads the sites of a Microsoft 365 tenant, with their users, groups
and profiles, and writes them to one SQLite file. Its logic is the movement of
work between goroutines: channels, pools, counters without a common lock, a
limit that moves under load, a shared backoff window, a batching writer and an
orderly end. This directory holds TLA+ modules of these parts, model-checking
runs for TLC, and theorems with proofs for TLAPS.

Paths are relative to the repository. `PROJECT.json` maps every definition to
its source lines.

- [1 The system](#1-the-system)
- [2 Modules and how they correspond to the code](#2-modules-and-how-they-correspond-to-the-code)
- [3 The runs, their bounds and their fairness](#3-the-runs-their-bounds-and-their-fairness)
- [4 Disagreements between code and documentation](#4-disagreements-between-code-and-documentation)
- [5 What is proved](#5-what-is-proved)
- [6 What is only checked, and what is not modelled](#6-what-is-only-checked-and-what-is-not-modelled)
- [7 Plan](#7-plan)
- [8 Running it](#8-running-it)

## 1 The system

`cmd/sprawler/main.go` opens the storage, runs the SharePoint and the OneDrive
processor one after the other, marks the run completed and archives the
database. A processor is a pipeline of goroutines: an enumerator, stages that
pass sites on, a pool of workers behind a throttle scaler, and one goroutine
per table that hands rows to the batch writer. All requests go through one
`ThrottledTransport`.

```
 GetSites / GetPersonalSites -> filter, count, dispatch -> workers -> Stream* -> BatchWriter -> SQLite
          |                                                 |   ^                    ^
          +------ ThrottledTransport (one gate) ------------+   |                    |
                       429/503, network errors -> ThrottleScaler        main: init, mark, archive
```

| component | state it keeps | operations | interacts by | what is hard | what makes it correct |
|---|---|---|---|---|---|
| batch writer (`internal/batchwriter`, hooks in `internal/storage/sqlite_batch_operations.go`) | input channel, buffer, counters, open transaction | `Add`, `Flush`, `Close`, run loop, flush | channels with producers, a rendezvous and an acknowledgement with `Flush`, a context with `Close` | producers, timer, `Flush` and `Close` race; a batch fails half way | FIFO, a batch whole or not at all, truthful counters, synchronous `Flush`, draining `Close` |
| throttle scaler (`internal/throttle`) | semaphore channel, `liveTokens`, `currentLimit`, times of the signals | `Acquire`, `Release`, `tick`, `scaleDown`, `scaleUp`, `Stop` | called by workers, polls counters of the client | three counts of the same tokens without a lock | tokens conserved, limit in bounds, recovery after a cooldown and not before, nobody stranded |
| SharePoint processor (`internal/processors/sharepoint.go`, `GetSites` and `GetSiteGroups` in `internal/api/client.go`) | channels, a tracker per site, counters, outcomes | enumerate, filter, dispatch, two kinds of worker, streams, collect | channels closed stage by stage, a `sync.Map` of trackers, atomics | two pools finish the same site; interrupts; failing calls; back pressure | every site accounted for once, failures recorded, rows written before the end, termination |
| OneDrive processor (`internal/processors/onedrive.go`, `GetPersonalSites`) | channels, counters, outcomes | enumerate, count, one kind of worker, streams, collect | as above with one pool | overlapping classes of sites, a limit in the middle of a page | as above, and the classes of the summary add up |
| throttled transport (`internal/api/client.go`) | `pauseUntil` under a mutex, statistics | `RoundTrip` | called by every request of every worker | replies of concurrent requests move one deadline; retries; cancellation | the window never shrinks and holds requests back, retries bounded, every call returns |
| run lifecycle (`main.go`, `internal/storage/sqlite_storage.go`) | database file, archive, `run_status`, signal goroutine | open, initialise, run processors, mark, archive, close | signals, the batch writer, the file system | signals at any point, failing steps, crashes, a second run | archives are drained, only complete runs are finalized, a signal ends the program |
| outcome collector, site filter, error classification (`internal/processors`) | a list under a mutex | append, copy | called by workers | - | the list is a variable of both pipelines |
| request metrics (`client.go` hooks, `counter_map.go`) | atomics, a locked map of counters | `onRequest`, `onResponse`, `onError`, `onRetry` | called by gosip around every attempt; two of the counters are the signals of the throttle scaler | one reply goes through up to two hooks, depending on its code and on whether it is tried again; double-checked locking | each reply counted once, a signal for every closing of the gate, no count ever falls |
| token cache (`internal/auth/entraid/cache.go`) | tokens, in go-cache | get, set | called by every request | check, then fetch | - |
| progress reporter, run metrics (`internal/metrics`) | atomics, a ticker goroutine | `Start`, `Stop` | reads counters | snapshots are not consistent, and documented as such | - |
| configuration, CSOM query builder and parser, sqlc code, schema, model types, logger | none or constant | - | - | - | - |

## 2 Modules and how they correspond to the code

A Go channel is a sequence with a capacity; a send is enabled when there is
room, a receive when there is an item, a closed channel is the end of its
sender. Every atomic operation, lock region and channel operation that another
goroutine could come between is a step of its own. Requests to SharePoint have
every outcome the code distinguishes, at any time. Strings are reduced to what
branches depend on. `(variant)` definitions are wrong on purpose: plausible
bugs, used by no specification, each of which breaks the property it was
written for when it replaces the definition it stands before.

**WriteQueue** is the abstract specification of the writer: a FIFO queue whose
head is, up to a batch at a time, stored whole or rejected whole.

**BatchWriter** models `Add` as two steps, the send and the later increment of
`totalQueued`; `Flush` as the rendezvous on `flushCh`, the wait for the
acknowledgement and the alternative that the writer is closed; `Close`; the run
loop (`loop` says where it is: the select, the drain loop entered by Flush or a
closed channel, the acknowledgement), and a flush as
`BeginTx`, `ExecItem` per item, `Rollback` or `Commit`, `Record`. An error may
come from the begin, each item, the commit, or a kind that was never
registered. It implements WriteQueue under the mapping
`queue <- Pending, rejected <- lost`, where `Pending` is the batch in flight
followed by the buffer and the channel; a batch leaves the queue at the commit,
or when `failFlush` records it.

**ThrottleScaler** models a worker's `Acquire`, and `Release` instruction by
instruction (`load`, `compare`, `swap`, `put`), and the monitor's tick with the
steps of `scaleDown` and `scaleUp` between which workers run. Time is counted in
check intervals, and the age of a signal is counted no further than its
cooldown, because the code only compares them. One assumption about time: a
Release, a few instructions, may overlap any part of a tick but not two ticks.

**SharePointPipeline** is one `Process` with paging, the filter, the
dispatcher, both pools, trackers with their `remaining` counter, and
the streams. The throttle scaler is reduced to a semaphore: `TokenLost` and `TokenBack`
are its drain and its refill, which puts tokens in while there is room, however many
are in use. `Release` looks at the limit: it swallows the token or goes on to
`ReturnToken`, the send at `throttle_scaler.go:133`, which waits for room in the
semaphore, for ever if need be. Which of the two it does is left open.
A site listed twice creates a second tracker under the same key.

**OneDrivePipeline** is one `Process` of the other processor: the debug limit in
the middle of a page, `countDispatched`, and `processSite` with a failing or
skipped user list, and a missing, failing or orphaned profile. Its semaphore is that
of SharePointPipeline.

**ThrottledTransport** is `RoundTrip` of concurrent requests. The deadline and
all timers are numbers of units left; `Tick` lowers them together, so there is
no clock to bound. A timer that has run out may be acted upon late. The
history variables `promised` and `owed` remember the longest window any reply
has named and what was left of it when a request came to the gate.

**ApiClient** is what gosip does with the transport: `Execute(c)` makes one
attempt after another, each a request of ThrottledTransport, and runs the hooks
of `client.go` for what came back. `HooksOf` says which hooks gosip calls, after
the comment on `setupHooks`; `Raised` says which counters a hook moves. A status
code is recorded by `counterMap.Add` in up to three steps, `Lookup` under the
read lock, `Create` under the write lock and `Add` to a counter held since;
`counters[code]` is the sequence of counters ever installed under a code, of
which the last is what `Snapshot` reports, so a counter that is replaced loses
its count visibly. The other counters of a hook follow in `Raise`. Calls made
through `newSiteClient` have the configured retry policy, all others gosip's
own. `replies` is a history variable: what really came back. The attempts of a
call share its context, which `EndContext` may end at any time.

**SiteProcessor** is the abstract specification of a processor as `main` sees it:
a site is taken from the list, passed over by the filter, or completed as a success
or a failure, one row at a time is handed over, and `Process` returns when no site is
open, after which nothing counts a site or gives the writer a row. `main` closes the
writer after that, and an `Add` to a closed writer panics. It promises nothing about
which sites and rows; the pipelines' own properties do.

**RunLifecycle** is `main` with its signal goroutine, several runs after one
another on the same files, each with either setting of
`SPRAWLER_DB_RECREATE`, and crashes. A processor is
the rows it gives to the writer and whether its enumeration fell short; the
writer is an INSTANCE of WriteQueue.

Composition: BatchWriter refines WriteQueue, which RunLifecycle instantiates;
both pipelines refine SiteProcessor (`ImplementsSiteProcessor`);
the pipelines take from ThrottleScaler that tokens come and go, that a token is put
back when none is left and nobody holds one (AcquireReturns), and that a Release may block. ApiClient extends ThrottledTransport and runs it: a step of a call is a
step of its attempt's RoundTrip or of a hook, and the counters of the hooks are
the signals the scaler polls. The `*Proofs` modules extend their component, the `MC*`
modules give it constants.

## 3 The runs, their bounds and their fairness

| run | checks | bounds | about |
|---|---|---|---|
| MCBatchWriter | refinement of WriteQueue, StatsMatchTable, KindStatsMatchTable, FlushIsSynchronous, CloseDrains, CallsReturn, EveryItemResolved | 2 producers, 1 caller of Flush, 2 kinds of which 1 registered, batches and channel of 2, 3 items | full batch, partial batch, full channel, a batch failing in its middle, producers, timer, Flush and Close racing |
| MCThrottleScaler | TokensConserved, TokenLeftAtFullLimit, ReducedIffBelowMax, RiseTakesCooldown, LimitRecovers, AcquireReturns | 3 workers, a halving signal with cooldown 2 and a reducing one with cooldown 1, 1 firing | halving 3 leaves two recoveries, so timers that are not reset would show |
| MCThrottleScalerCapacity, MCThrottleScalerRelease | see section 4 | 2 workers, 2 halving signals, 2 firings | violations |
| MCSharePointPipeline | TrackerLifetime, SitesAccountedFor, FailuresRecorded, RowsWritten, refinement of SiteProcessor | 1 worker per pool; 4 records in pages of 2: kept, undecodable, skipped, kept; channels of 1; 1 row; no group members | every place where a record leaves the pipeline, every channel full |
| MCSharePointPipelineLive | RowsWritten, ProcessReturns | 1 worker per pool; a kept and a skipped site and one beyond the page limit; channels of 1; 1 row; with group members | all three tables of a site, and liveness up to a page that never comes and a Release that blocks |
| MCOneDrivePipeline | SitesAccountedFor, SitesClassified, FailuresRecorded, RowsWritten, refinement of SiteProcessor, ProcessReturns | 2 workers; a plain, a locked ownerless and a cut-off site; page 2, limit 2; channels of 1; 1 row | all overlaps of classes and failures |
| MCApiClient | GateRespected, RetriesBounded, StatusesRecordedOnce, SignalsTruthful, GateIsSignalled, AttemptsAccounted, NoCountFalls, ExecuteReturns | a GET with 1 configured retry for 429 and 503, a POST with none; codes 200, 404, 429, 503; 1 transport retry with backoff 1; default pause 1, Retry-After 2 | up to 3 attempts behind one gate; both calls meet a new code at once; a longer, an equal and a shorter window; every kind of end |
| MCApiClientRetries | see section 4 | the same | violation |
| MCRunLifecycle | ArchiveIsDrained, FinalizedAfterAllProcessors, SignalEnds | 2 processors, 3 rows, 2 signals, 2 runs with either setting | a second run finds what a finished, failed or crashed one left |
| MCRunLifecycleCompleted, MCRunLifecycleSignal | see section 4 | 1 run | violations |

MCThrottleScaler and MCApiClient also check the type invariants of their modules, which
include the range of the limit and of the pauses. That no channel exceeds its capacity,
no buffer the batch size and no pool its tokens is left to the theorems `TypeCorrect`.

Why the bounds are enough to be of interest: each lets a channel or buffer be
both full and empty while two actors compete for it, and each input
class the code branches on occurs. The safety properties of every module hold for
all constants (section 5), so the runs have to exhibit
the cases only: one caller of Flush is enough in MCBatchWriter because
FlushIsSynchronous is proved for any number, and three items because they are a full
batch and one item more. The limit of one firing in MCThrottleScaler
keeps its liveness check small: the floor of one worker is reached
there by halving 3. Halving a limit of one does not occur in that run; that the limit
stays in bounds for every limit, action and number of firings is proved (`TypeCorrect`).

Fairness, and why the code justifies it:

- A goroutine that can run is eventually run: weak fairness of its actions.
- `FlushRequest` is strongly fair: `select` picks at random among the ready
  cases, so a rendezvous that is possible again and again is not passed over
  for ever. `Acquire` is strongly fair: a Go channel serves blocked receivers
  in order of arrival.
- The calls of the workers end, because each has a timeout of its own
  (`sharepoint.go:477` and `515`, `onedrive.go:310` and `420`, `client.go:500`). The
  queries for pages have none: neither `GetSites` nor `GetPersonalSites` sets a deadline,
  and the HTTP client has no timeout. So the pipelines assume nothing of them, and
  ProcessReturns excepts an enumerator that waits for its page for ever
  (`AwaitingPage`; OneDrive's query has the context of the run, so an interrupt ends it,
  SharePoint's has not). In ApiClient it is an assumption about the server and the
  network that a request sent ends: with a reply, an error or its context.
- The ticker ticks; time passes.
- The pipelines do not assume that `Release` returns, for it may not (section 4).
  `ReturnToken` and `Acquire` are strongly fair, since a channel serves those who wait in
  the order of their arrival: a worker that waits is helped if there is room, or a token,
  again and again. ProcessReturns excepts a worker that finds no room from some point on
  (`ReturnBlocked`). `TokenBack` is fair only when the scaler has left no token and nobody
  holds one; a worker that waits then is the case AcquireReturns decides for the scaler.
  The writer accepts what it is given.
- RunLifecycle assumes that a processor returns, that is, that neither exception occurs.
- Nothing obliges a producer to send, a signal to arrive or fire, the user to
  start a run, or a context to end.

CHECK_DEADLOCK stays on: where a system ends, a final stuttering action
(`Terminated`, `Stopped`, `Returned`, `AllReturned`, `AllOver`) says so.

## 4 Disagreements between code and documentation

Each is shown by a run whose one property is the documented statement.

- **MCThrottleScalerCapacity**: after recovery `currentLimit` is at the maximum
  with fewer tokens than that in existence. `docs/performance-tuning.md`
  promises full capacity. A `Release` during `scaleDown` and the drain
  both remove a token for the same reduction; `scaleUp` adds one per step.
  That at least one token remains is proved (TokenLeftAtFullLimit).
- **MCThrottleScalerRelease**: a worker returning its token to a semaphore that
  `scaleUp` has filled meanwhile blocks at `throttle_scaler.go:133` and, when
  nobody acquires any more, for ever.
- **MCApiClientRetries**: `docs/ARCHITECTURE.md:134` describes the retries
  configured by `SPRAWLER_TRANSPORT_RETRY_{status}` as those of every call, and
  the comment on `newSiteClient` says it reuses the parent's. The parent has none:
  `NewClient` (`client.go:191`) gives its gosip client no `RetryPolicies`, and only
  `newSiteClient` (434) passes the configured ones on. `GetSites`,
  `GetPersonalSites`, `GetUserProfile`, `HealthCheck` and `ExecuteCSOM` are
  retried by gosip's defaults whatever is configured; in the run such a call
  gives up on a throttled reply before the configured retries.
- **MCRunLifecycleCompleted**: `full_export_completed` becomes true after
  a failed enumeration, which is only logged, and before the writer has
  flushed. `README.md:214` says it tracks whether the export completed.
- **MCRunLifecycleSignal**: the first signal makes both `sigCh` and `ctx.Done()`
  ready; the goroutine may take the latter and end, and the announced second
  Ctrl+C is heard by nobody.

Two more disagreements have no run.

- *Incremental runs.* `docs/ARCHITECTURE.md:183` says "UPSERT mode is used for incremental
  runs", and the comment at `sqlite_storage.go:106` "use INSERTs when database is recreated,
  UPSERTs otherwise". No such run gets that far: `InitializeRunStatus`
  (`sqlite_storage.go:289`) is a plain INSERT of row 1 and fails on the file of an
  unfinished run, and `main` ends; the file of a finished one has been archived, or is
  still there with its row 1. With recreate off a run therefore writes to a file without
  rows or not at all. The theorem `NoRunIsIncremental` proves it of RunLifecycle.
- *"Guaranteed no duplicates".* The same line says so of INSERT mode, the default.
  Nothing removes duplicates from the list: a site listed twice, which can happen when the
  list changes between two pages, is handed to the writer twice (`SiteRowsGiven`). With
  `SPRAWLER_DB_RECREATE=true` the second row violates the primary key `site_id` and its
  whole batch is rolled back, rows of other sites included. The modules contain the parts,
  the second row and the batch that fails on one item, and no table with keys.

Observations that the models contain and for which no run is kept:

- `batch_writer.go:352` logs "dropping 1 item" for an unregistered kind; the
  whole batch is rolled back and counted as failed.
- A worker can be admitted by a token the drain missed while the active workers are at
  the new limit already.
- `scaler.Stats()` is documented as read after `Stop` (`throttle_scaler.go:60`); both
  processors read it before the deferred `Stop`, and the progress reporter
  while the monitor runs. No control depends on the values.
- A token that expires within a minute is given to go-cache with a duration that
  is not positive (`cache.go:42`), which go-cache takes for "no expiry" or
  its default.
- Rows of a site can be stored before the site: they travel in different
  channels. The schema has no foreign keys.
- A run whose `MarkRunCompleted` failed is archived all the same.
- `pauseUntil` is read once per `RoundTrip`: a request that wakes at the end of
  an old window, and every transport retry, is sent inside a window extended
  meanwhile. GateRespected states what does hold.
- A second dispatch of a site listed twice replaces the tracker of the first. A worker
  that finds no tracker counts the site completed and failed once more, and one that
  joins the tracker of the other dispatch may leave its own never finalized: `completed`,
  and with it the figure dispatched minus completed of the progress line, may end
  above or below what was dispatched. The stages do not block one another for that
  (`NobodyStuck`). The accounting properties are stated for lists without duplicates.

## 5 What is proved

All theorems are of the form `Spec => ...`, for every value of the constants
that satisfies the module's assumption: finite sets of workers, producers or
requests of any size, any capacities, cooldowns, backoffs and pauses. The only
other assumptions are named in the theorems that need them:

| theorem | needs |
|---|---|
| OneDrive: `SitesAccounted`, `RowsHandedOver`, `ProcessorImplemented` | a worker (`Workers # {}`), since without one Process returns at once |
| SharePoint: `TrackersLive`, `RowsHandedOver` | a list that names no site twice (`Distinct`) |
| SharePoint: `SitesAccounted`, `FailuresTold`, `ProcessorImplemented` | that and a worker in each pool that is used (`Staffed`) |
| SharePoint: `NobodyStuck` | `Staffed` |

`config.go:181` and its neighbours read the numbers of workers from the environment and
accept zero, so these are assumptions about how the program is run.

**BatchWriterProofs.** `TypeCorrect`: the channel keeps its capacity, and
the buffer is below the batch size between flushes. `BooksBalance`
(StatsMatchTable) needs `FlushShape`, which says what `batch`, `tx` and the error
flag are at each stage of a flush, and `Books`, the equation between counters,
table, failures and everything still on its way: the equation alone is not
inductive, since a commit moves a batch before it is counted. `CloseDrained`
(CloseDrains) adds `Counting`, that `totalQueued` lags `accepted` by the
producers between send and increment, and `Closing`, that an exited loop leaves
nothing behind; the two meet once all producers are done. `FlushSynchronous`
(FlushIsSynchronous) adds `Acks`, that whoever waits for an acknowledgement is
the one being served and that what it is owed is either resolved or in front of
the end of the drain. `NobodyStuck`: while the channel holds an item, a batch is being
written, or a Flush or a Close is waiting, the run loop or a waiting caller can move. It
adds `Served`, that the run loop drains and acknowledges only with a caller waiting.

**BatchWriterQueueProofs.** `WriterImplementsQueue`: under the mapping of section
2 every step of the writer is an Accept or a Resolve of WriteQueue or leaves it
alone. `BatchShape` is what the mapping needs: a flush in progress has a
batch, and the transaction holds a prefix of it, so that a commit moves exactly
the front of the queue. `KindBooksBalance` (KindStatsMatchTable) counts the rows of
a kind in a sequence; a bijection between the positions before and after
a step takes the place of an induction over sequences.

**ThrottleScalerProofs.** `TypeCorrect`; `TokenConservation`
(TokensConserved), with lemmas on how the number of holders changes when one
worker moves; `ReductionBooks` (ReducedIffBelowMax), whose invariant says
what `reduced` is in the middle of a tick; `CooldownRespected`
(RiseTakesCooldown), an action property, from an invariant that some seen
signal is no older than the time really waited. `TokenLeft`
(TokenLeftAtFullLimit): a Release never swallows the last token, a drain leaves the
limit reduced, and the rise that brings it back to the maximum adds one.

**ThrottledTransportProofs.** `TypeCorrect`; `GateRespectedAlways`
(GateRespected): `promised = pauseUntil`, the window in force is the longest
one named, and a waiting request's timer covers what it is owed;
`RetriesBoundedAlways` (RetriesBounded): how many attempts a request may
have made at each place of the loop.

**ApiClientProofs.** For any number of calls, any status codes and any retry
policies. `AllTypesCorrect` (AllTypesOK) rests on `ClientTypeInv`: a retry is
only announced while the policy has one left, no code ever has two counters, and the
hooks still to run are the first or the last of those the reply goes through.
`ClientImplementsTransport`: a step of the composition is a step of
ThrottledTransport or leaves it alone, so the theorems on the gate carry over
(`ClientGateRespected`). `StatusesRecordedOnceAlways` (StatusesRecordedOnce)
from the equation that the reported count of a code and the calls
still about to record it make up the replies; `NoCountFallsAlways` (NoCountFalls) is
an action property from the same invariant. `SignalsTruthfulAlways` and
`GateIsSignalledAlways` from a second equation: the throttling count and the
throttled replies whose hook has not raised it yet make up the throttled replies,
and the gate has been closed at most as often as those. `AttemptsAccountedAlways`
(AttemptsAccounted): between calls every attempt counted is a recorded reply or an error.
`AttemptInv` equates the attempts with the replies that came back and the calls that are in
an attempt or ended with an error. The sum over the codes is the cardinality of a set of
pairs of a code and a number (`RecordedReplies`), where a fold would need an induction.

**RunLifecycleProofs.** For any number of runs, processors, rows and signals.
`TypeCorrect`; `NoRunIsIncremental` (NoIncrementalRun, see section 4): a status row exists
whenever rows or a queue do, and a run that is writing began with none;
`ArchiveDrained` (ArchiveIsDrained) and `FinalizedComplete`
(FinalizedAfterAllProcessors): table, rejected and queued rows make up the accepted
ones, and only an interrupt leaves the loop over the processors early.

**OneDrivePipelineProofs.** For any list, pages, limit, number of workers and capacities.
`TypeCorrect` (TypeOK) and five invariants on top of it: `FlowInv` and
`ListInv` count the sites between the list and the workers, `EndInv` says what has
been closed when a stage has ended, `ClassInv` which class each site in work is going
to fall in, `ErrorInv` that a failure is either recorded or still held by the worker
that met it, `RowInv` that rows handed over and rows on their way make up the rows
counted. They give `SitesAccounted`, `ClassesAddUp` and `FailuresTold`. `RowsHandedOver`
(RowsWritten) also needs `RouteInv`: per site, the times it stands in the list up to
`pos`, in a channel, with a worker that has not emitted it and in the table agree. It
holds of lists that repeat a site as well. `ProcessorImplemented`: the steps of the
pipeline are steps of SiteProcessor or leave it alone. `NobodyStuck` (NeverStuck): the stages
do not wait for one another in a circle. Until Process returns some goroutine can move,
unless it is one of three waits for somebody else: for a page (`AwaitingPage`), for a token
when the scaler has taken all (`AwaitingToken`), or in Release for room in a semaphore the
scaler has filled (`ReturnBlocked`); the last can be for ever (section 4). The argument goes
from the table channels, which their streams empty, back over the workers and the counter
to the enumerator: each can only be blocked by the next one. A worker without a token has
one in the semaphore, or another worker holds one and can move or is blocked in Release, or
it is the second case.

**SharePointPipelineProofs.** `TypeCorrect` (TypeOK), which is not inductive alone:
it needs that a worker past its lookup has a tracker that exists, that a busy worker has a
site, and that the enumerator is never ahead of what it has discovered. The rest is about where a site is.
`UpInv`: before its dispatch it is in one place. `OpenInv`: in each branch, users and
groups, it is in one place, with the dispatcher, in the channel or with a worker, and has
been given a tracker. `TrackInv`: `remaining` is the number of branches that have
still to finalize it, and the map holds the tracker until the last of them has closed
it. From these follow `TrackersLive` (TrackerLifetime); with `FlowInv`, which counts the
sites between the list and the closed trackers, and `EndInv`, `SitesAccounted`
(SitesAccountedFor); with `ErrorInv` and the lemma that nobody writes a tracker that has left
the map, `FailuresTold` (FailuresRecorded). `RowsHandedOver` (RowsWritten) counts, per table
and site, the rows handed over and those in the channel: they are what the worker has sent
so far, and what the tracker says once it has sent them all.
`ProcessorImplemented` follows from the same invariants: a tracker being finalized is one
open site less. Two theorems hold of any list, duplicates included. `SiteRowsGiven`
(SiteRowsWritten) from `RouteInv`: each time a kept record stands in the list up
to `pos` it is in one of the channels, with the dispatcher or with the writer. `NobodyStuck`
(NeverStuck) from `IdleInv` and `EndInv`, along the argument of the other pipeline with
two pools and three outputs of the dispatcher.

`NeverStuck` is a property of a state, since the prover does not handle ENABLED: the
modules of proofs state for each goroutine the guard under which it can move
(`RunLoopCanMove`, `WorkerCanMove` and so on). TLC found these guards equal to ENABLED
of the actions in every state of the runs. It is not liveness: the fairness under which a
goroutine that can move does stays with the runs.

## 6 What is only checked, and what is not modelled

Only model-checked: the liveness properties (CallsReturn, EveryItemResolved,
LimitRecovers, AcquireReturns, ProcessReturns, SignalEnds, ExecuteReturns), which rest on
fairness and ENABLED and are beyond the prover. Every invariant and every action
property of a passing run is a theorem.

Of a list that names a site twice SharePoint's theorems show the types, that the writer is
given the site as often, and that the stages do not block one another; what the database
does with the second row is not modelled (section 4). The accounting is false of it (section 4), and the
tracker's lifetime and the refinement are not claimed.

Not modelled:

- The token cache: cache and fetch are external (go-cache, azidentity). The code
  between them checks, then fetches; two requests may both fetch, and the later
  `Set` wins.
- The progress reporter and run metrics: one goroutine that reads counters and
  logs them. `Stop` closes a channel and waits for it; nothing else reads what it
  computes, and `docs/ARCHITECTURE.md:197` accepts that its reads are not
  consistent with one another. Durations (total, average, gate wait) likewise.
- Configuration: its values are CONSTANTS, its reading has no behaviour.
- The site filter, error classification and URL helpers: functions on strings
  without state. What they decide is a constant set (`Skipped`) or a choice (which
  failure) of the pipelines.
- The CSOM query builder and parser, entity converters, log and summary text:
  formatting.
- sqlc output and the schema: generated, data only. The failure log of the
  writer: write-only.

SQLite is a store whose transactions
are atomic; with `synchronous = OFF` that is true of a crash of the process, the
only crash modelled, and not of one of the machine. For the pipelines gosip's retries are part
of the time a request takes; ApiClient models them.

Bounds of the models only: `MaxItems`, `MaxFirings`, `MaxRows`, `MaxSignals`,
`MaxRuns`. Each is a guard of the action that brings work into the model.

## 7 Plan

Done: WriteQueue, BatchWriter, its proofs and its refinement; ThrottleScaler,
SharePointPipeline, OneDrivePipeline, their refinement of SiteProcessor, RunLifecycle,
ThrottledTransport and ApiClient on top of it, each with its proofs.

What could be added: that RunLifecycle's processors are those of SiteProcessor (today a
processor there is the rows it gives away); how far `completed` may be off
for a list that repeats a site, and a table with keys, to show the batch a duplicate costs;
when `Release` blocks as a property of the scaler and a pipeline together, which would say how
often the exceptions of ProcessReturns can occur; and the shutdown of the progress reporter.

## 8 Running it

In this directory, `tlc -workers 2 -config MCBatchWriter.cfg MCBatchWriter`
checks a run (each takes between a few seconds and about three minutes),
`tlapm BatchWriterProofs.tla` checks a proof module. The five runs of section 4
end with the counterexample they are about.
