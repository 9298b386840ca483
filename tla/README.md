# A verification of the phantomTraffic engine

phantomTraffic runs traffic scenarios: virtual users (workers) follow persona
sessions and send requests to declared targets, inside safety caps, until every
block of the scenario has been active for its duration or an operator stops the
run. This directory holds TLA+ models of the way from a scenario file to a
finished run: the rules a file has to pass, the goroutines that run it, what
reaches the targets, what is counted and what is audited. TLC checks them on
small instances, and TLAPS proves the safety properties that hold, all but one, for
instances of every size.

`PROJECT.json` maps each definition to the source lines it translates, each
property to a mutation of the code that breaks it, and each hazard of the code
to the properties aimed at it.

## The system

| Component | Source | State | Operations |
|---|---|---|---|
| Pause gate | `internal/engine/gate.go` | two pause sources, the `closeNotify` channel, the operator's pause account | `pause`, `resume`, `wait`, `waitOpenAndGetCloseCh`, `pausedTotal` |
| Run lifecycle | `internal/engine/state.go`, `run.go` | the state, `done`, `err`, `blocksLeft`, block timers, audit events | `Start`, `Pause`, `Resume`, `Stop`, `complete`, `runBlockDuration`, `runScheduler`; `awaitRun` of `cmd/phantom/run.go` |
| Semaphore | `internal/engine/semaphore.go` | limit, permits out, waiters | `acquire`, `release`, `setLimit` |
| Worker loop | `internal/engine/worker.go` | per worker: step, attempt, action count; shared: tripwire, breakers, permits | `runWorker`, `runAction`, `doWithRetry` |
| Circuit breaker | `internal/safety/breaker.go` | state, failures, opening time | `Allow`, `RecordSuccess`, `RecordFailure`, `ForceOpen` |
| Limiter | `internal/safety/limiter.go`, `bucket.go` | token buckets per target, global and for bytes; reservations | `Acquire`, `Reconcile`, `Release`, refill |
| Tripwire | `internal/safety/tripwire.go` | a latch and a request count | `Trip`, `Tripped`, `CountRequest` |
| Live patch | `internal/engine/patch.go` | caps, weights, selector, shards, breaker map | `ApplyPatch` and its branches |
| Statistics, publisher | `internal/engine/stats.go`, `histogram.go`, `publisher.go` | one atomic per counter and histogram bucket, shards per target; latest snapshot, a one-place channel per subscriber | `Record`, `addShard`, `snapshot`, `percentile`, `publish`, `subscribe` and its cancel, `Latest`, `runStatsCollector` |
| Selector | `internal/engine/selector.go` | cursor and time of the last rotation | `Next`, `addTarget`, `setInterval` |
| Ramp | `internal/engine/ramp.go`, `run.go` | the governor's start time; it writes the semaphore's limit | `concurrencyAt`, `initialLimit`, `runRampGovernor` |
| Caps | `internal/safety/ceiling.go`, `capspec.go`, `validate.go` | none | ceiling, `DividedBy`, effective caps, their rules |
| Schedule | `internal/schedule` | none; the scheduler keeps the transition it sleeps towards | `Active`, `NextTransition`, `runScheduler` |
| Audit log | `internal/audit` | the file, the next sequence number, the hash of the last record | `NewFileSink`, `Append`, `Verify`, `Close` |
| Sessions | `internal/behavior` | burst phase, time left, last result, the plan in hand | `Next`, `Observe`, the think-time and burst decorators |
| Configuration | `internal/scenario`, `internal/persona` | none | `Validate`, persona compilation |
| Clock | `internal/clock` | the time, the waiters | `Sleep`, `NewTimer`, `Stop`, `Advance` |
| Contracts, values | `internal/protocols`, `pterr`, `idgen`, `rng`, `secret` | none | interfaces and value types |

How they interact. `Validate` turns a decoded file into a scenario or a list of
errors; only a scenario can be started. `Start` builds the shared parts and starts, for every block,
a pool of workers, a ramp governor and a duration timer, and for the run a
scheduler and a stats collector. All of them are counted by `Run.wg` and end
with the run's context. An operator's `Pause` moves the state and then closes the
gate's operator source; the scheduler closes the schedule source on its own.
Workers wait at the gate before each step; block timers hold the gate's channel
to stop their clock when the gate closes. A worker's action passes the breaker,
the limiter (which looks at the tripwire), and the semaphore, calls the handler
with retries and records the outcome. The last block timer starts `complete()`,
which waits for everyone. `Stop` does so with a grace deadline. `ApplyPatch`
changes caps, limits, selectors and the breaker map of a run in progress. The
collector folds the workers' counters into a snapshot once a second and hands it
to the subscribers. State changes and patches are appended to the audit file.
Everything that waits, waits on the one clock of the run.

What is hard. A condition variable whose context watchers broadcast without the
mutex; two locks taken one after the other (state, then gate); `Stop`,
`complete()` and a second `Stop` at once; a drain with a deadline; outcomes that
arrive long after the breaker's state has moved on; early returns between
`Allow` and `recordBreaker`; tokens handed back by a later tier; latches tested
before a lock; patches that are half-applied or race with workers; and every
liveness question: does a run end, does a `Stop` return, does a breaker close
again. Around the core: a crash between a write and its fsync; a snapshot that
reads counters while they move; a subscriber that drains its channel between the
two sends of a publish; a wall clock that is put back under a schedule; a
validation error that hides another; a duration that overflows. The list with lines is under "hazards" in `PROJECT.json`.

## Modules

| Module | Models | How |
|---|---|---|
| `GateSpec` | what the gate promises | pause, resume, entry and exit are single steps; a channel is its generation, closed when it was replaced or the gate is closed |
| `Gate` | `gate.go` | the mutex's holder, the notify list, each waiter's location, each watcher. `pause` and `resume` hold the mutex throughout and are one step. `sync.Cond.Wait` is two: join the list (`park`), lock again (`relock`); the test of `ctx.Err()` comes before the first. Shown to implement `GateSpec` with `gen <- closeNotify, seen <- handed` |
| `RunLifecycle` | `state.go`, lifecycle half of `run.go`, `awaitRun` | one location per caller, block timer and `complete()`; a step per lock or blocking call; an audit append may fail, which `transitionTo` ignores. Instantiates `GateSpec` for the gate |
| `Semaphore` | `semaphore.go` | the mutex, the FIFO notify list, watchers; counters change under the mutex, notification is a later step |
| `BreakerOps` | `breaker.go` | each method as an operator on a record; the opening time is kept as an age up to `Cooldown` |
| `Breaker` | the breaker with overlapping requests | every request is admitted, is in flight, and records an outcome, in any order |
| `Limiter` | `limiter.go`, `bucket.go` | buckets in whole units; what accrued since the last use is moved in by `refill`. Reservations are separate callers; `Release` marks and credits in two steps. `refill` reads the clock twice (`bucket.go:28-29`), which is taken for one reading: time between the two is credited twice in the code, an interval of a few instructions |
| `Worker` | `worker.go`, `tripwire.go` | one location per point where others can act. Uses `BreakerOps`; limiter, semaphore and gate by their contracts, which the modules above establish |
| `Patch` | `patch.go`, `cappatch.go`, parts of `selector.go`, `stats.go` | a patch is its sequence of branches, a branch is a step; workers look breakers up at the same time. The ID of a scenario target is its address, which blocks may share; that of an added one is its block and a number |
| `AuditSink` | `internal/audit` | the file as lines, what of it is durable, and the sink's own position in the chain. `Append` is its write and its fsync, since a crash or a failure may come between them; short writes, crashes that keep any part of the unsynced rest, reopening with replay, changes from outside. A hash is the content it was computed from |
| `Stats` | `stats.go`, `histogram.go`, `publisher.go`, `runStatsCollector` | every counter is a cell; `Record` adds and `snapshot` loads one cell a step, in the order of the code. A sum of counters is the number of increments in them (`Total`, a cardinality), which is how it can be reasoned about without induction. `publish` with its drop and second try, subscribers that receive, lag and leave |
| `Caps`, `Ramp`, `Schedule`, `Persona` | the pure parts of `safety`, `engine`, `schedule`, `persona` and `behavior/dist.go` | operators; the properties of `Config` and `BlockRun` compare them with what they are for. A rate cap is a number of thousandths, or `NaN`, of which every comparison is false |
| `Config` | `scenario/validate.go` | each rule is a set of error paths; an operator repairs what is reported and tries again |
| `FakeClock` | `internal/clock/fake.go` | one waiter per goroutine, fired by `Advance` |
| `BlockRun` | `runScheduler`, `runRampGovernor`, `selector.go`, `internal/behavior` | scheduler, governor and vusers of one block on `FakeClock`; each may be late between reading the clock and sleeping, and between waking and going on |
| `Startup` | composition of `Config` and `BlockRun` | what runs is what `Validate` accepted |
| `GateProofs`, `RunLifecycleProofs`, `WorkerProofs`, `PatchProofs`, `StatsProofs`, `AuditSinkProofs`, `StartupProofs` | | theorems about the module of that name |
| `AdmissionProofs` | | theorems about `Breaker`, `Semaphore` and `Limiter`, what a worker passes on its way to a request; their specifications are named after them (`BreakerSpec`, `SemSpec`, `LimiterSpec`) so that one module can extend all three |
| `MCRunLifecycle`, `MCPatch` | | block durations, a bound on lost audit records, patches and initial settings for TLC |
| `MCAdmission` | | checks `Breaker` and `Limiter`, one at a time, since they share nothing |
| `MCStats` | | checks the two halves of `Stats` (counters; fan-out) one at a time, since they share only the snapshot's number; and histograms already filled, for the percentiles |
| `MCStartup` | | the files, the invocations, and which of the accepted files are run |

Operators named `...Late`, `...Forgets`, `...Silent` and the like, marked
"Mutant" in their comment, are not part of the models: each is a plausible
slip in the code that some property catches.

History variables (`opTicks`, `openTicks`, `streak`, `sinceProbe`, `used`,
`charged`, `late`, `after`, `sent`, `before`, `lowest`, `acked`, `mine`, `damage`,
`rejections`, `patched`, `lost`) record what happened, so
that a property can compare the code's own bookkeeping with it. A guard reads one
only to bound the environment (one patch of a ramp, so many failed passes, a
change from outside only to an undamaged file).

## Runs

Nine runs pass, most of them with safety and liveness together, and three refute
what a comment, a test or a help text says of the code. The type invariants of `Gate`,
`RunLifecycle`, `Semaphore`, `Breaker`, `Limiter`, `Worker` and `Stats` are proved, as are `ChannelTracksGate`,
`HeldChannelCloses`, `AdmitsOnlyWhenOpen`, `DoneIsTerminal`, `ClosedBelowThreshold`,
`OpensOnlyOnStreak`, `WithinPeak`, `NoLostWakeup`, `TripAdmitsStragglers` and
`BrokenOnlyIfDamaged`; the
runs spend their time on the rest.

* `gate`. Two workers, a block timer, two reopenings, a clock.
  `PausedTotalExact`: the pause account equals the time the operator source was
  paused, over repeated and overlapping pauses. `ReopenReleases`: a reopened gate
  lets everyone out. `RefinesGateSpec`: the whole implements the atomic gate.
* `lifecycle`. An operator, the command, two blocks of different durations, a
  schedule with two edges, a worker that may never return, a cancelled parent or
  `Stop` context. `CleanEndIsDrained` (a run that ends without an
  error left no goroutine behind); `CompletionIsEarned` (every block was active
  for its whole duration, pauses not counted); `OneDriver` (one of the `Stop`
  callers and `complete()` takes the run down); `AuditTellsState` (with a record missing too
  the trail never contradicts the state: nothing follows a terminal entry, only Stopped
  follows Stopping, and the run is in the state of the last entry or in one that may
  follow it; while no record was lost, the last entry is the last audited state entered.
  After a lost one the trail can lag behind for good, since `transitionTo` drops the
  error, `state.go:96`); `StopEnds` (a `Stop` that takes the run into
  Stopping ends it although a worker never returns); `RunEnds` (a run that is not
  paused, and whose goroutines return when cancelled, ends, and the command
  exits).
* `lifecycle_pause_race` (violation). `ElapsedRunEnds`: a `Pause` between the last
  timer's expiry and `complete()` makes `complete()` give up; the resumed run never
  ends.
* `semaphore`. Three workers, a resizer, limits 1 and 2. `PermitsBalanced`;
  `NoIdlePermit` (no permit stays free beside a worker that waits);
  `CancelReleases`. The gate's lost wake-up exists here too, but only
  one waiter can be missed, and the holder it waits for will signal it.
* `admission`. The breaker: three overlapping requests, threshold 3. `ProbesSpaced` (a target that
  is down is probed at most once per cooldown); `HalfOpenHasProbe` (never wedged);
  `SelfHeals` (once the target answers, the breaker closes and stays closed, forced
  openings included). The limiter: two callers, two targets, all three tiers refusing in turn. `WindowBound` (in any
  window, at most the burst plus rate times length, per target and globally);
  `ByteBound` (bytes reserved, or used and not refunded, stay within the burst plus rate
  times the run's age, although a refund is credited after other callers have refilled
  and taken).
* `worker`. Two workers, one permit, one target, one retry, one pause.
  `PermitsBalanced`; `ProbeNotLost` (an early return loses a breaker's probe only in a
  run that is cancelled or tripped); `PauseQuiesces` (at most one action per worker
  begins after a pause); `TripStops` (after the latch every
  worker returns, those behind open breakers because of the per-session
  backstop); `CancelStops`.
* `patch`. Two operators, three patches that between them take every branch both
  ways, audit failures, two workers. `TargetsComplete` (between patches, every
  target in a rotation has a breaker and a shard); `CapsRatchet` (no cap rises
  before an override is audited; caps compare as numbers here and in `capsRaised`, although
  0 means unset elsewhere); `FrozenStayDisabled` (no patch closes the breaker of a scenario
  target that was forced open).
* `patch_add_twice` (violation). `AddAppendsShard`: `addedTargets` looks for scenario targets
  among the shards named "block/...", where they are not, and subtracts their number all
  the same. The second target added to a block gets the ID of the first: the two share one
  shard, and the new breaker replaces one that may have been forced open.
* `audit`. Three lines, two crashes, events of every kind. `AckedSurvive` (what
  `Append` acknowledged is on disk in its place after any crashes, as long as no
  write or fsync failed and no other program wrote the file); `SeqNeverReused`;
  `VerifyHonest` (a clean `Verify` means exactly the chain this sink opened and the
  records it acknowledged). Both exceptions of `AckedSurvive` are real: a crash that
  loses just the newline of the last record leaves a line that replay accepts and
  the next `Append` writes onto, spoiling both; after a short write
  (`filesink.go:156`) the next `Append` is acknowledged and cannot be read back.
* `stats`. Two workers, a target added while they run, two snapshots, two
  subscribers. `SnapshotOrdered` (a torn snapshot never has shards that add up to
  more than the total, nor more latency samples than requests); `PercentileNeverUnder` (at least the asked share
  of the samples lies at or under the boundary a percentile reports, unless it is the last
  one: for every histogram of three buckets and an overflow whose counts are among 0, 1,
  2, 9, 10, 49 and 100, so that the ranks of p50, p90 and p99 fall before, on and after
  the boundaries); `LagAtMostOne` (a subscriber holds the published snapshot or
  the one before it); `NoSendOnClosed`; `CollectorEnds` (subscribers that never
  receive do not hold up the collector).
* `startup`. Files with one wrong field, or one and the caps or the ramp, for fleets of 0, 3 and
  25 agents, with and without the operator's overrides; the accepted ones among
  `LaunchFiles` are run. `ConfigBoundary` (no accepted block asks for more
  concurrency than the caps allow at any time of its ramp; windows open before
  they close; every draw of a persona is within its bounds);
  `FlagsAloneRelax` (without the flags no block is insecure and every cap in force, summed
  over the fleet, is within the ceiling, through any repairs; the two exceptions, a
  rate of NaN and more agents than a count cap, are in the table below); `RepairsBounded` (repairing what is reported ends
  within four passes, unless a duration wraps round); `GateFollowsSchedule` (while
  the scheduler sleeps, or after it gave up, the gate is what the schedule says);
  `TroughQuiet` (no action starts in a trough); `RampClimbs`.
* `startup_dst` (violation). `GateFollowsSchedule` in a zone whose first day has an hour
  more. `dayEdges` adds wall-clock offsets to midnight as elapsed time, so on a
  25-hour day each edge falls an hour early. At the edge of the start the window is
  not active yet and the edge is skipped; the gate opens at the edge of the end, an
  hour before the window closes, and the true close is no edge at all: the gate
  stays open overnight, until the next day's end. For a window from 08:00 to
  18:00, it opens at 17:00.

More claims of comments are stated in the modules and refuted by TLC when they
are added to the module's passing configuration (`BlockMovesTogether` with two vusers,
`GateFollowsState` with two operators among `Callers`):

| Claim | What the code does |
|---|---|
| `RunLifecycle!StopNeverFails`, `run.go:228` "Stop is idempotent" | the second of two concurrent `Stop` calls returns the transition error |
| `RunLifecycle!StopReturns`, `run.go:227-228` "bounded by GraceTimeout" | a `Stop` in Completing waits for `done` without a limit |
| `RunLifecycle!GateFollowsState`, `state.go:80` "concurrent lifecycle calls serialize" | between the transition and the gate call of one operator's `Pause`, another's `Resume` does both: the run is Running, its gate is closed, and a further `Resume` is refused |
| `Gate!CancelReleases`, `gate.go:106-107` "promptly" | the watcher broadcasts without the mutex (`gate.go:122`), between a waiter's test of `ctx.Err()` and its joining the list; the waiter sleeps until the next resume |
| `Breaker!OneProbeAtATime`, `breaker.go:54` | a late failure of an old request re-opens a half-open breaker, so a second probe joins the first |
| `Worker!BudgetTrips`, `tripwire.go:10-11` | `CountRequest` has no caller, so the request budget never trips |
| `Patch!RejectionMutatesNothing`, `patch.go:45-46` | a rejected patch leaves its earlier branches applied |
| `Patch!AddedToItsBlock`, `patch.go:25` | an added target joins the first block's rotation, whatever block it names |
| `Patch!DepsReadOnly`, `worker.go:16-17` | the breaker map is written while workers read it |
| `Stats!ConvergesOnLatest`, `publisher.go:31-32` | `publish` finds the channel full, the subscriber receives, the drain finds it empty and `publish` moves on without sending: the newest snapshot is skipped, the run's last one for good |
| `Stats!PercentileOfASample`, `histogram.go:63-64` | the rank is rounded up and then has to be exceeded: every percentile of one sample, and p99 of fewer than a hundred, is the last boundary, 30 s |
| `Config!FileAloneRelaxesNothing`, `scenario/validate.go:24-25` | a rate of `.nan` passes every comparison of `appendFloatViolation` and stays in force; a bucket of that rate refuses nothing (`bucket.go:43-50`), as one of rate 0 does in `Limiter` |
| `Config!FleetWithinCeiling`, `ceiling.go:42-43` "the whole fleet, summed, stays within the original ceiling" | with more agents than a count cap the floor of one for each exceeds it: 25 sessions of 25 agents, where 20 are allowed |
| `Config!AllProblemsAtOnce`, `scenario.go:5-6` | a cap out of bounds hides the concurrency it allows, and that hides the start of the ramp: three passes |
| `Config!DurationPositive`, `validate.go:423` | a large `duration_minutes` wraps round to a negative duration; with a ramp, the error names `up_seconds` |
| `BlockRun!BlockMovesTogether`, `selector.go:22` | a vuser picks its target before its wait and acts on it after the block has moved on |
| `BlockRun!VUserRecycled`, `session.go:19` | a vuser whose session is over returns; nothing starts another |
| `BlockRun!PatchLasts` | the ramp governor overwrites a patched limit at its next tick |

One more has no definition of its own: a template of another protocol than its block's is
never targeted, though `plan.go` says none can be silently unreachable.

## Bounds

Every bound is a constant: `MaxReopens` and `MaxNow` (gate), `MaxCalls`, `MaxEdges`,
`MaxTicks` (lifecycle), `MaxResizes`, `MaxForced`, `TickLimit`, `MaxPauses`,
`MaxPatches`, `MaxLines`, `MaxCrashes`, `MaxRecords`, `SampleCounts`, `MaxSnaps`, `MaxPasses`, `Horizon`,
`MaxVUsers`. They cut off how long an environment goes on, not what the code
does. Two workers and one timer are enough for one waiter's watcher to wake
another one. Two reopenings let a timer hold a channel two generations old. Two
calls are the two that race, with `complete()`, the command and the scheduler
beside them. One audit record is lost, in a run that neither the schedule nor a context
disturbs after it (`OneLoss`); the theorem has no such limits. Two callers of the limiter are one whose refund is under way
and one that refills and takes before it is credited; three ticks fill the largest of its buckets. Three semaphore users are a
holder, the waiter its signal is meant for and the newcomer that overtakes it.
Three requests are a probe, a late failure and a late success. Two blocks are the
least with which `blocksLeft` and the first block's privileges matter.
Age and `openTicks` saturate where no test can tell larger values apart.
Three lines are a record, the one a failure spoils, and the one that follows; two
crashes allow a second one after recovery. Two records and two snapshots let a
snapshot be torn and the next one overtake a subscriber. `startup` has days of four
hours and weeks of two days, so that its horizon of eleven ticks goes past a week;
durations are integers modulo 32 (`IntRange`), so that a small number of minutes
overflows. Its files differ from a typical one in one field, or in one field and
the caps or the ramp, because the rules of `Validate` look at one field, or at a field against
a cap or the block's other numbers. A scheduler, a governor or a vuser may
be late by any amount; the governor meets the others only at the clock, so
`InScope` lets either it or they move, and vusers are followed through the first
day (`VUserHorizon`). Symmetry is not used.

`CHECK_DEADLOCK FALSE` stands where the system may stop: a run that ended, workers
that have returned, callers whose calls are used up, a file the sink refuses, a
clock at its bound.

## Fairness

The Go scheduler runs every runnable goroutine: weak fairness of its steps.
`sync.Mutex` hands the lock over in order once a waiter has starved for a
millisecond: strong fairness of the steps that take it, and of a permit that
keeps coming free. Timers fire and time passes (`Tick`). A handler returns, except
for goroutines in `Stuck`. `worker` assumes that a session plans an action now
and then, and not idle steps for ever. No fairness is given to operators, to
cancellation, to the target's recovery, or to a worker at a closed gate, whose
wake-up can be lost (`Gate!CancelReleases`). In `RunLifecycle` the clock waits until the block
timers have reacted to a closed gate; in the code a timer may notice it late, by as much
as the scheduler delays its goroutine, and bank that much paused time. `stats` assumes only that the collector
goroutine goes on; subscribers need not receive. `audit` and `startup` check safety and
assume nothing.

## What is proved

For every value of the constants that satisfies the named assumptions (finite
sets where they are counted, markers that are not members, positive durations, a
threshold of at least 1, a burst of at least one token for a positive rate as
`max1` ensures):

* `GateProofs`. `GateInvariant`, with `GateInv` = types, `ClosedExactly` (the closed
  channels are those of earlier generations, and the current one while the gate
  is closed; a held channel is not from the future) and `Accounted` (the account
  plus the pause in progress is the time that passed). From it
  `ChannelSafety`, `HeldChannelSafety`, `PausedTotalSafety`, `AdmissionSafety` and
  `GateRefinement`: each step of the gate is a step of `GateSpec` or a stutter.
  Neither channel property is inductive alone, because `resume` replaces the
  channel while timers hold older ones.
* `RunLifecycleProofs`. `RunInvariant`, with `RunInv` = types, `Driven` (which caller
  or `complete()` may be where in which state), `Settled` (when everyone has
  returned) and `Counted` (`blocksLeft` counts the timers not expired; banked and
  running segments never exceed the open time). From it `DoneSafety`,
  `CleanEndSafety`, `CompletionSafety`, `OneDriverSafety`, `AuditSafety`: any number of
  callers, blocks and workers, and an audit sink that may fail. `AuditTellsState` is inductive
  once it is known that the trail of an Idle run is empty (`Trail`); it needs that a transition out of an audited state is one
  `After` allows, whether or not it is recorded (`TransitionTrail`). `GateFollowsState` is
  false and not proved.
* `AdmissionProofs`, the breaker. `BreakerInvariant`, with `BreakerInv` = types, `Counted`
  (a closed breaker's count is the streak), `Cooling` (the running cooldown is no older
  than the last probe) and `HalfOpenHasProbe`. From it `ClosedSafety`, `NeverWedged`,
  `ProbeSpacing`, `OpeningSafety`, for any number of overlapping requests.
* `AdmissionProofs`, the semaphore. `SemInvariant`, with `SemInv` = types, `MutexHeld` (who
  can be where while the mutex is free), `ListedOnce` (the notify list holds exactly the
  parked users, each once), `StillFull` (a user between its test of the limit and its
  joining of the list holds the mutex, so the test is still true), `PermitsBalanced`,
  `WithinPeak` and `NoLostWakeup`. From it `SemPermitSafety` (a permit is out for each user
  inside and no other), `PeakSafety` (never more than the largest limit so far) and
  `WakeupSafety`: no permit stays free beside a parked user unless a wake-up is on its way,
  the safety half of `NoIdlePermit`. `ListedOnce` is needed because `Signal` moves the head
  of the list, whoever that is; `StillFull` because a user that joins the list after a
  permit came free would have missed the signal.
* `AdmissionProofs`, the limiter. `LimiterInvariant`: for each tier, what was admitted in the
  window plus what the bucket holds or is owed (its level, capped at the burst) is at
  most the burst plus rate times span. The level is what refill, take and
  hand-back preserve, whatever the order; `TakeLevel` and `GiveBackLevel` are the
  lemmas. From it `WindowSafety` and `ByteSafety`. That no
  bucket holds more than its burst (`NoExcessCredit`) is a part of the invariant.
* `WorkerProofs`. `WorkerInvariant`, with `WorkerInv` = types, `PermitsBalanced`,
  `ProbeNotLost`, `Targeted`, `BelowBackstop`, `LatePast` and `StragglerPast` (a worker that
  has begun its one late action, or was admitted once after the latch, is past the
  point that would let it do so again). From it `PermitSafety` (the permits out are
  counted by the workers between acquire and release, a cardinality argument),
  `ProbeSafety` and `QuiesceSafety`, for any number of workers, targets and retries.
* `AuditSinkProofs`. `AuditInvariant`, with `AuditInv` = types, `Chained` (the sink's two
  fields describe a linked chain), `Synced`, `LongEnough` (the file is long enough for every
  acknowledged number, or spoiled for good), `Whole` (an intact file is the disk and
  the record being appended) and the three properties. From it `DurabilitySafety`,
  `SeqSafety`, `VerifySafety` and `AlarmSafety`, for any number of lines and crashes.
  That a chain is determined by its length and its last hash (`ChainUnique`) is an
  induction; it is done with the least or greatest element of a set of naturals. Hypothesis `JunkApart`: what is not JSON is no record.
* `PatchProofs`. `PatchInvariant`, with `PatchInv` = `Busy` (who holds `patchMu`, and what is
  left to do), `Agree` (selectors, shards and breakers agree but for the target being
  added, whose ID no scenario target has) and `Ratchet`. From it `TargetSafety`, `CapsSafety`
  and `FrozenSafety`. That the number in an added target's ID is a natural number whatever
  the counts are (`NextIsAdded`), and that addresses are no such IDs, is what keeps scenario
  targets apart from added ones; that added ones are apart from each other is false.
* `StatsProofs`. `StatsInvariant`, with `StatsInv` = types, `Shaped` (what a worker has still
  to add: of the global counters the request first and the latency last, or each field of
  one shard once), `Lagging` (at every instant the shards' sum plus what the workers
  still owe them is at most the global counter, and the same for latency samples and
  requests), `Loading` (what a snapshot has loaded was true then and counters only grow,
  the global ones are loaded last, and each covers what was loaded before it) and
  `Publishing` (a channel `publish` has still to visit holds the snapshot before, one it has
  visited the current one, or its owner took what was there). From it `SnapshotSafety`,
  `PercentileSafety`, `LagSafety` and `SendSafety`, for any number of workers, targets, buckets,
  results, snapshots and subscribers. A snapshot compares counters read at different
  instants, so its order is not inductive: `Lagging` is what holds at each instant, and it
  is the debts that make it inductive, since an add to a shard pays one off
  (`DebtAfterAdd`). `OneMore` and `TotalGrows` are the facts about sums, `LoadOrderFacts` about
  the order of the loads.
* `StartupProofs`. `StartupInvariant`, with `StartupInv` = `Configured` (every repair keeps the
  file's types, and a scenario is what an accepted file freezes to), `Unstarted`, `Launched`
  (what runs is what `Validate` let through), `Clocked`, `Scheduled` (gate and plan are those
  of the instant that was read, however long ago), `Ramped` (the limit is what the ramp
  allowed at some earlier instant) and `Troughs` (a vuser in a trough is gone, or its wait
  outlasts the trough). From it `BoundarySafety`, `RelaxSafety`, `ScheduleSafety`,
  `TroughSafety` and `RampSafety`. The lemmas say what the pure operators compute:
  `NextIsFirst` (the schedule does not change before `NextTransition`: a change is an edge
  of its day, and one more than a week and a day away has one a week earlier),
  `RampFacts` (`ConcurrencyAt` is within 1 and the target, never falls, and arrives),
  `ShareFacts` (an agent's share times the fleet is within the ceiling, or is one each where
  the agents outnumber it), `CapFacts` (a cap in force is NaN by the file's own word, or
  positive and within that share), `DistFacts` (a
  compiled distribution draws within its bounds), `PersonaOfSane`, `WindowFacts`.
  Hypotheses: `NoBlockApart` (the marker for no block is no block); `NoShift` for the schedule,
  since `startup_dst` refutes it elsewhere; `SmallFleet`, at most ten thousand agents, for
  `RelaxSafety`, because rates are kept in whole thousandths and the share of a larger fleet
  would round to none, which the code's floats do not. `StartupAssumption` says what
  decoding guarantees of a file: its sections, the fields the rules read, and numbers where
  numbers stand.

An invariant's arguments about cardinalities cite `FiniteSetTheorems`; those by least
elements cite `WellFoundedInduction`. The prover reads `UNION a \cup b` as
`UNION (a \cup b)`, where TLC reads `(UNION a) \cup b`: the models write the parentheses.

Only model-checked: every liveness property (fairness and ENABLED are outside the
prover), and `RepairsBounded`, a bound on the length of a chain of repairs, which depends
on which values an operator repairs with.

## What is not modelled

* Reading a file and strict YAML decoding (`load.go` and `raw.go` of `scenario` and
  `persona`): a library's work; `Config` starts from the decoded file and abstracts
  every string to the verdict the rules reach on it. `Startup` keeps what decoding
  guarantees, the sections and types of a file, as an assumption.
* Jitter and the time of day (`jitter.go`, `timeofday.go`) scale a wait; their rules are
  in `Persona`, their arithmetic is left out. The distributions of `dist.go` are
  their sets of possible draws.
* Fingerprints: checked by name and used by nothing in this commit. Identifiers,
  random sources, secrets, error types, protocol interfaces, cookie and DNS cache
  stubs: values and interfaces without state.
* `AfterFunc` and `Set` of the fake clock, which the engine does not call; the
  real clock, which is the `time` package.
* The command line except `awaitRun`, which is in `RunLifecycle`, and its options, which
  are `Config`'s invocations.
* In `AuditSink`: two processes on one file, which nothing guards against.
* Wording of results, errors and audit details. Panics are failures; the back-off
  delay is any delay.
* A retry is sent without asking the limiter or the breaker again
  (`worker.go:134-155`): up to `MaxRetries + 1` requests per admission. `Limiter` bounds
  admissions, not what leaves.
* The byte tier is modelled with real estimates although `worker.go` passes 0, which
  leaves it inert in this commit.
* Behaviour without a promise to state: a cancelled parent context leaves the run
  Running; a target disabled with `ForceOpen` comes back after the cooldown; a caps
  patch does not reach the limiter, and `Run.weights` has no reader; a concurrency
  patch reaches the first block only. In the audit log an event longer than
  1 MiB or with invalid UTF-8 is accepted and cannot be replayed, and a failed fsync
  leaves a record whose number the next one repeats (`Verify` reports both).

## Plan

Done, in this order, because the later ones use the contracts of the earlier ones:
gate, lifecycle, semaphore, breaker, limiter, worker, live patch; then the audit
file, statistics and publisher, and the way from a file to a running block
(caps, ramp, schedule, personas, validation, clock, sessions).

Proved, in this order: gate, breaker, limiter, lifecycle; then worker, audit file, live
patch, and the way from a file to a running block; then semaphore, statistics and
publisher.

Left: `Worker` on the real `Semaphore` and `Limiter` in place of their contracts, and
`RepairsBounded` for any table of repairs that clears what it is told about.
