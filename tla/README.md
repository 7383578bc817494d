# BD Roads API: TLA+ models and proofs

The backend serves the road network of Bangladesh from PostGIS (`/api/roads`, `/api/snap`), matches
GPS traces and routes through OSRM (`/api/match`, `/api/route`), and keeps the network current from
Geofabrik's diffs. Its request handlers are mostly one query each, behind parsers and limits that
come from the caller and from the environment and have to agree. The rest of what is hard is around
them: an admission gate in front of a router that goes on computing after its callers gave up, an
update pipeline spread over an HTTP handler, a queue, a worker and a shell script, an import that is
interrupted and run again, two ways to build a routing graph from the import's files, a watchdog
that restarts the router, a shell that keeps three processes together, and a start-up order that
hangs on a health check. All of that is modelled here, checked by TLC on small instances and, but
for liveness, proved with TLAPS for every value of the constants, on the conditions section 5 names.

## 1. Inventory

Sources are relative to `src/`.

| Component | State it keeps | Operations | Talks to | What is hard | What makes it correct |
| --- | --- | --- | --- | --- | --- |
| **OSRM admission gate and its clients** `utils/upstreamGate.js`, `services/matchService.js`, `services/routeService.js` | `active`, `blockedUntil` | `run(operation)`: admit, reject with Retry-After, answer, fail, abort | OSRM over HTTP | calls interleave; an aborted fetch does not stop OSRM; failures of calls admitted before a failure | the counter is exact; OSRM's load is bounded; the closure is bounded; Retry-After is not too short; every call is answered |
| **Road-index update pipeline** `controllers/roadIndexUpdateController.js`, `services/updateAvailabilityService.js`, `services/roadIndexUpdateService.js`, `workers/roadIndexUpdateWorker.js`, `scripts/update-roads.sh`, `db/replicationState.js`, `utils/replicationSequence.js` | jobs in Redis, replication state and rows in PostGIS | check, enqueue, take a job, run the script, rebuild, smoke-test | PostgreSQL, Redis/BullMQ, Geofabrik, child processes | checks that are stale when used; a script that outlives its parent; crashes; overlapping runs | no diff is skipped; a completed job delivered what it promised; every job ends |
| **Road network import** `scripts/setup-road-network.sh`, `scripts/grant-roads-access.sh`, `docker/entrypoint.sh`, `sql/indexes.sql` | PBF file, tables, grants, replication state, `.import-complete` | seven steps, `--force` | PostgreSQL, Geofabrik | interruption at any step; a release between two downloads | the marker means a complete import; no mixture of releases; it completes in the end |
| **OSRM graph builds** `scripts/build-osrm.sh`, `scripts/run-osrm.sh`, `osrm-build` and `osrm` in `compose.yaml` | PBF and graph files in the OSRM data directory | fetch, extract, partition, customize, load | the import's PBF (copy or hard link), Docker | builds stopped halfway; files shared with the import; what counts as built | the router loads the files of one finished build of a good PBF |
| **OSRM container supervision** `docker/osrm-supervise.sh`, `docker/osrm-probe.sh`, `osrm` in `compose.yaml` | router, watchdog and shell processes, failure count | probe, restart, stop | Docker, osrm-routed | time; signals in any order; a router that ignores SIGTERM | a stuck router is replaced in bounded time, a good one is not; stopping is in time |
| **Bare-metal stack** `scripts/run-stack.sh` | three background jobs, traps | start, wait for the first to end, clean up | run-osrm.sh, npm, sudo | signals while starting or cleaning up; an optional job | they end together; nothing is left running |
| **Health and start-up** `services/healthService.js`, `controllers/healthController.js`, `compose.yaml`, `docker/entrypoint.sh`, `docker/supervisord.conf` | a request's three checks; Docker's health of the container; how far `docker compose up` is | check, time out, answer; probe; start what depends on it | PostgreSQL, OSRM, Redis, Docker | several dependencies that hang, late answers, who waits for whom | answered in time; healthy follows the database only, and soon; everything comes up |
| **Redis producer connection** `queues/roadIndexUpdateQueue.js`, `config/redis.js`, `withRedis` | one shared queue object | get, wait until ready, reset | BullMQ, ioredis | an established connection that ends | not modelled: the two variables change in one synchronous block, and what waits for a connection is told in one go; the rest is BullMQ's and ioredis's |
| **Request validation and limits** `utils/validation.js`, `config/config.js` | none after start-up | parse, fall back, cap | the environment, the caller | three sources of one limit; what `Number()` makes of "", null and text; zero and negative settings | what is accepted is asked in full and within every limit |
| **Roads and snapping queries** `services/roadService.js`, `services/snapService.js` and their controllers | none | one SQL statement each | PostGIS | rows matched to points by position; telling a cut viewport from a whole one | answers are aligned with the points; a viewport that was cut says so |
| **Road statistics** `services/roadStatsService.js` | none | three queries side by side | PostGIS | updates between the queries | each query sees the rows of one version |
| **HTTP application** `app.js`, `server.js`, `middlewares/`, `routes/` | none | dispatch, error handler, CORS, admin token | | | the handlers and errors are modelled; CORS and the token are not |
| **Database connection and credentials** `db/pool.js`, `utils/pgpass.js`, `utils/databaseConfig.js` | a pool | query, read the password | PostgreSQL | text escaping | not modelled, but for how a query fails |
| **Installation helpers** `setup-all.sh`, `setup-backend.sh`, `docker-up.sh`, `reset-all.sh` | files | | apt, Docker | | not modelled: straight-line; their stateful steps are the import and the graph build |

How they interact: a request is parsed against the limits of the environment, becomes one SQL
statement or one call of OSRM, and its answer is made of what comes back. The API's match and route
handlers go through the gate to OSRM, which the supervision restarts. `POST /api/admin/update`
compares PostGIS with Geofabrik and queues a job; the worker runs `update-roads.sh` and perhaps
`build-osrm.sh`. The import comes before everything: the container's entrypoint runs it, Compose
builds the graph when the API is healthy, and the PBF the import downloaded is the one the graph is
built from.

`PROJECT.json` lists under `hazards` what is hard to test in this code, each at its line, with the
properties below that watch it.

## 2. Modules

| Module | Models | Extends |
| --- | --- | --- |
| `Bulkhead` | abstract: what an admission gate owes the service behind it | |
| `UpstreamGate` | the gate and the calls through it, with time; implements `Bulkhead` | |
| `UpstreamGateProofs` | proofs of its safety properties and of the refinement | `UpstreamGate` |
| `Requests` | settings and parsers, as operators | |
| `Api` | a request to any endpoint, from parsing to answer, beside updates of the table | `Requests` |
| `MCApi` | environments, requests and tables for TLC | `Api` |
| `ApiProofs` | proofs of its safety properties | `Api` |
| `FeedReplica` | abstract: what an update pipeline owes a feed | |
| `RoadUpdates` | create handler, queue, worker, update script; implements `FeedReplica` | |
| `MCRoadUpdates` | budgets of faults and the symmetry for TLC | `RoadUpdates` |
| `RoadUpdatesProofs` | proofs of its safety properties and of the refinement | `RoadUpdates` |
| `RoadImport` | the import script, its files and its tables | |
| `RoadImportProofs` | proofs of its safety properties | `RoadImport` |
| `OsrmGraph` | both graph builds and the router's loading, beside the import | `RoadImport` |
| `OsrmGraphProofs` | proofs of its safety properties | `OsrmGraph`, `RoadImportProofs` |
| `OsrmSupervise` | supervising shell, watchdog, probe, Docker | |
| `OsrmSuperviseProofs` | proofs of its safety properties | `OsrmSupervise` |
| `RunStack` | run-stack.sh and its jobs | |
| `RunStackProofs` | proofs of its safety properties | `RunStack` |
| `Health` | the health check, Docker's probes and what Compose starts on them | |
| `HealthProofs` | proofs of its safety properties | `Health` |

In every module a definition whose comment begins with "Variant:" is a plausible wrong version of
the definition after it; replacing the one by the other makes a property fail (`mutants` in
`PROJECT.json`), which shows that the property depends on that line of the code.

### UpstreamGate

`active` is `this.active`; `closedFor` is `blockedUntil - now()`, floored at 0, so that time is kept
as spans and needs no horizon. `Admit` and `Reject` are the two ends of the guard at the head of
`run`; `Answer`, `Fail` and `Abort` are the ends of the awaited operation, with `catch` and
`finally`; `Close` is the assignment of `blockedUntil` for errors without a status or with a 5xx.
Two sets tell apart what the callers wait for (`running`) and what OSRM computes for (`computing`):
an abort takes a call out of the first only, which is the reason the cooldown exists. `advised` and
`advice` record what callers were told, until a failure replaces the cooldown they were told about;
`closedAge` is how long the gate has been shut without a break, up to the bound it is compared with.
`Bulkhead` is what a gate is for: a set of holders, who enter while there is a place and leave.
`SlotsSpec` takes the calls in flight for its holders, `LoadSpec` everything OSRM works on.
The service's two gates do not share state, so one is modelled; the tick is the clock's
millisecond; a clock that is set is not modelled.

### Requests and Api

`Requests` has one operator per setting reader (`NumberFromEnv`, `PositiveInteger`) and per parser;
where the code throws, an operator named `...OK` is false. A value is an integer or one of four
texts, which is what `Number()` tells apart: `Empty` and `Null` are 0, `Absent` and `Word` are NaN.
The two readers differ exactly where the code's do: `numberFromEnv` takes "" for 0 and keeps
negative numbers, `positiveInteger` falls back.

`Api` follows one request. `Receive` is the handler up to its first await: `Accepted` the checks,
`CallFor` the query parameters or the OSRM URL. `AnswerRoads`, `AnswerSnap`, `AnswerMatch`,
`AnswerRoute` and `AnswerStats` make the answer of what PostGIS or OSRM returned; `QueryFails`,
`OsrmFails`, `TurnedAway` and `RouteMissing` are the errors with the status and the retry advice the
client gets. What OSRM says instead of "Ok" is one of the codes of `CODE_STATUS`, a verdict on the
request that the table does not have (`Unlisted`), or no answer that can be read (`Failures`).
Statistics are three queries (`StatsQuery`), each of which sees the table as it is then. `Apply` and
`Record` are the updates' two commits, at any time and to any version, because a run of
`update-roads.sh` by hand may go back on the worker's (run `updates_by_hand`). Requests share nothing
but the table and the gates, so one at a time is followed; what calls do to each other in a gate is
`UpstreamGate`.

### RoadUpdates and FeedReplica

A version stands for a replication sequence number with its timestamp. `recorded` is
`osm2pgsql_properties`; `roads` is the version the rows are at, a separate variable because
`osm2pgsql-replication` first applies a batch and then records it (`Fetch`, `Apply`, `Record`, once
more until nothing is left). A request is a process of its own: its two concurrent reads, the
decision, `getJob` and `add` are five steps, any other step may come between them, and each may fail
with an error answer (`Refuse`). `promised` is the version at Geofabrik that the check which queued
a job had found: the 202 names the job only, but that version is why there is a job. The worker's
steps are the statements between its awaits. A run of the script is a process that its parent may
stop awaiting: `TimeOut` (execFile kills the shell, not osm2pgsql) and `Crash` leave it running. A
rebuild is a step here; what it does is in `OsrmGraph`.

`FeedReplica` says what matters of all this: the recorded position moves forward only, and never
beyond the feed or the rows. `ReplicaSpec` maps `feed`, `rows` and `position` to `published`,
`roads` and `recorded`.

### RoadImport

One action per numbered step of the script that leaves something behind. A file is the set of
releases its bytes come from and whether it is whole, so that `wget --continue` onto an older file
gives a file of two releases; the checksum is that of the release being served when it is fetched.
`Interrupt` and `DownloadBreaks` stop the script anywhere; `Run` is the entrypoint of the next
start or an operator. `redoing` is a history variable: a second import over a finished one.

### OsrmGraph

Composes the import with the builds: `ImportStep` is any step of `RoadImport`, with its effect on
the OSRM data directory, which is none unless `build-osrm.sh` has hard-linked the PBF, when a write
to one name is a write to both and a deletion is of one. A variable chosen at the start says whether
the host runs Compose or bare metal; actions are guarded by it where the two differ. `Built` is the
test for `.osrm.mldgr`, which both `osrm-build` and `run-osrm.sh` rely on.

### OsrmSupervise

A tick is a second. The watchdog's `sleep` and probe are a timer; the shell's traps, its `cleanup`
and the default action of a SIGTERM during it are actions; the router may stick, recover, exit or
ignore SIGTERM at any time, and while it is up it may fail a probe that it answers with another
status than 200 (`ProbeMayFail`). Docker's stop and restart are actions of the environment. `stopFor`
remembers a stop through the end of the container: as with `unless-stopped`, `Restart` is of a container
that nobody asked to stop, and one that was stopped stays so until somebody starts it (`StartAgain`,
which is under no fairness).

### RunStack

The shell is a program counter over the script, jobs are `launched` (the background shell exists),
`running` or `ended`. A job is started in one step and added to `pids` in the next, and a signal may
come between; `Kill` and `Reap` take `pids`, but a `wait` without arguments waits for every job
(`Waited`). `reaped` are the jobs a `wait` has returned for, which `wait -n` skips. Signals may come
at any point of the script: with traps set they run `cleanup`, which clears them and returns to
where the script was; without, they end it.

### Health

One request to `/api/health` is modelled, the one Docker's probe makes: `answers` has an entry for
each of the three checks that `Promise.all` waits for, `clock` is the time since they were started,
which is when `bounded` set their timers. A dependency is "up", "down" or "silent", and may change
while it is being asked. `Status` and `Succeeds` are the ends of `readiness` and of the handler;
`Conclude` is what Docker makes of the status code. `compose` follows `depends_on`. The history
variable `since` measures how long the API has, or has not, been able to serve.

## 3. Runs

Each run takes a minute or less on two cores.

| Run | Bounds | Shows |
| --- | --- | --- |
| `gate` | 3 calls, 2 slots, cooldown 5, deadline 2, computation up to 4, "second" of 2 | `ActiveIsExact`, `OsrmLoadBounded`, `ClosureBounded`, `AdviceCoversCooldown`; under fairness `EveryCallAnswered` and `GateReopens` |
| `updates` | 2 keys, 2 callers, 2 scripts, 2 versions, 2 failures | `JobDelivers`, refinement `ReplicaSpec` (which implies `RecordedIsApplied`) |
| `updates_liveness` | 1 key, 1 caller, 4 scripts, 1 failure, 2 crashes, 1 run by hand, scripts may hang | `JobsSettle`, action property `JobsMoveOn` |
| `updates_by_hand` | 1 key, 1 caller, 2 scripts, 2 versions, 1 run by hand | violates `RecordedIsApplied` |
| `import` | 3 releases, 3 stops, 1 missing checksum, `--force` allowed | `MarkerMeansImported`, `StateIsReadable`, `LoadedIsOneRelease`, `ImportCompletes` |
| `import_forced` | 1 release, 1 stop | violates `SkippedIsImported` |
| `graph` | 2 releases, 1 stop of the import, 2 of builds, Compose and bare metal | `BuildFindsPbf`, `ServedIsOneBuild`, `ComposeBuilds` |
| `supervise` | proportions of the real times (5, 1, 3, 3 failures, 2, load 4, grace 3) | `StuckIsBounded`, `RestartNeedsSilence`, `StopsInTime`, `RouterReturns` |
| `stack` | a graph may be missing; run with the right to signal sudo; signals at any point | `NothingLeftBehind`, `CleanupWaitsForTold`, `EndTogether` |
| `stack_optional` | the same | violates `OsrmIsOptional` |
| `health` | deadline 2, interval 3, Docker's timeout 4, 2 retries, start period 5, 2 outages; OSRM and Redis come and go without bound | `AnswersInTime`, `HealthFollowsRoads`, `HealthIsFresh`, `StackComesUp` |
| `api` | 21 environments, nearly 800 requests, two versions of a table of 2 and 3 roads | `OsrmGetsTheTrace`, `AnswersAreAligned`, `TruncationIsReported`, `CallsKeepLimits` |

Why the bounds are enough. *Gate*: with two slots there is a call admitted before a failure that
fails after it, and a third to be turned away or admitted meanwhile; a deadline shorter than a
computation lets abandoned computations outlive their calls, a computation shorter than the
cooldown is what the code assumes; a "second" of two ticks makes rounding matter. The safety
properties hold for every setting (section 5). *Updates*: two keys make two jobs, two callers make
the race for one key and the one between a check and the other's job, two versions allow a batch to
be applied while a newer one appears, two failures allow a retry to fail too; two scripts are enough
for an overlap, and the liveness run has one slot for each run that can hang at the same time.
*Import*: three releases put one before, between and after the two downloads. *Graph*: a stop in
a first build and one in the next. *Supervision*: what matters is the order of the times, which is
that of compose.yaml: grace period longer than loading, interval longer than a probe, patience below
the stop grace. *Health*: the deadline is shorter than Docker's timeout and two deadlines are not,
as in compose.yaml, so that checks made one after another would be too slow; an import may outlast
the start period; one outage can hit a probe under way and one the next. `Recovery` and `Staleness`
are the least bounds that hold: one second less of either, and TLC finds a counterexample. *Api*:
an environment has one setting that is empty, negative, no number, below or above what it is
compared with; a request is right or wrong in one respect, and lists are a point shorter, as long
and a point longer than the limits; the table has roads on a point, at one,
two and three units from it, of two classes, with and without a name. The safety properties hold for all
environments, requests and tables (section 5).

`CHECK_DEADLOCK FALSE` is set for `RunStack` only: that script ends. Everywhere else something can
always happen, a caller or an operator if nothing else.

### What the violated properties show

- `updates_by_hand`: `update-roads.sh` says it is "safe to run by hand". Nothing keeps two runs
  apart: one that applied an older batch may write its rows after the other has applied and recorded
  a newer one, and what lies between is skipped for good.
- `import_forced`: the script says it is "safe to re-run". `--force` starts over without removing
  the marker, so an interrupted forced import is taken for a completed one by every later start.
- `stack_optional`: `run-stack.sh` says OSRM is optional. Its job is one of those `wait -n` watches.

## 4. Fairness

- *Gate*: time passes, Node fires the abort timer of a fetch, OSRM ends a computation within
  `ComputeMs`. Callers are under no obligation.
- *Updates*: the worker's event loop runs on (the time limit of its child included), supervisord
  restarts it (`autorestart=true`), BullMQ checks for stalled jobs. Scripts are under none.
- *Import*: the script runs on; a container without a marker is started again (`restart:
  unless-stopped`); who is told "delete the file and re-run" does so, for which strong fairness is
  needed because the message goes away when somebody runs the script first.
- *Graph*: as the import; a build runs on, and is run again while there is no graph (a new `docker
  compose up`, or `setup-all.sh`).
- *Supervision*: processes run, time passes, Docker restarts a container that exited and that it was
  not asked to stop (`unless-stopped`); a router that loads gets there. A stuck router is not
  assumed to recover or to obey SIGTERM.
- *Stack*: the shell runs on; a job that got SIGTERM ends.
- *Health*: the import ends (`ImportCompletes`), supervisord restarts what ended (`autorestart`),
  Docker probes, a router that has a graph answers in the end, the operator repeats `docker compose
  up` after it gave up. Checks need strong fairness: a dependency that answers again and again is
  heard. Outages of the API, the database and the build are bounded in number.

## 5. Proofs

`UpstreamGateProofs` proves, for every finite set of calls and every setting allowed by
`SettingsAssumption` (at least one slot, cooldown and second positive):

- `TypeCorrect`, `SlotsAreExact`, `LoadIsBounded`, `ClosureIsBounded`, `AdviceIsHonest`:
  `Spec => []P` for `TypeOK`, `ActiveIsExact`, `OsrmLoadBounded`, `ClosureBounded`,
  `AdviceCoversCooldown`.
- `ImplementsSlots` and, when `ComputeMs < CooldownMs`, `ImplementsLoad`: the gate implements
  `Bulkhead` for the calls in flight, and for everything OSRM works on (`SlotsSpec`, `LoadSpec`). A
  step that takes a call out of `running` while OSRM still computes for it is a `Leave` of the one and
  a stutter of the other.

The argument is one inductive invariant, `IInv`, with a lemma per action. Two of its conjuncts are
not properties of their own but what the others need:

- `AbandonedEndsInTime`. That OSRM's load is bounded is not inductive: an admission adds a
  computation, and the limit only speaks of calls. What makes it true is that an admission needs an
  open gate, and that each abandoned computation was abandoned by a failure that closed the gate for
  longer than it can still last: age plus what is left of the closure exceeds the longest
  computation. A tick adds one to the first and takes one from the second. So an open gate means
  no abandoned computations, and the calls are all there is.
- `RunningPredatesClosure`. A closed gate admits nobody, so every call in flight is at least as old
  as the closure, and no call is older than its deadline. Hence the closure is no older than a
  deadline when a last failure renews it, and lasts one cooldown more.

`CeilCovers` (rounding up loses nothing) and `CallSets` (cardinalities under admission and
completion, from `FiniteSetTheorems`) are the lemmas about the operators.

`RoadImportProofs` proves, for every number of releases, stops and missing checksums, with and
without `--force`: `TypeCorrect`, `MarkerIsHonest`, `LoadedIsClean` and, for an osm2pgsql since 1.9
(`Legacy = FALSE`), `StateStaysReadable`, that is `Spec => []P` for `TypeOK`, `MarkerMeansImported`,
`LoadedIsOneRelease` and `StateIsReadable`. None of the three properties is inductive, because each
speaks of the end of a script whose steps may be days apart. The invariant adds what holds at each
step:

- `StepsBuildUp`: what the steps before this one achieved is still there. The steps come in one
  order, and only `osm2pgsql --create`, before all of them, undoes anything; so the import is
  complete when the marker is made. `--create` over a complete import makes the marker a lie, and
  `redoing` is true from there until the marker is made again.
- `CheckedIsLoaded`: the file passes from its checksum to the end of the import without being
  written, so what is loaded is what was checked.
- `GrantsLast`: the replication state exists before the grants and loses none of them by `--create`.

Three more theorems are about what later starts find. `CompletedImportIsSkipped`: a start without
`--force` that sees the marker changes neither tables nor marker (`CompletedIsSkipped`, an action
property). The run `import_forced` shows that `SkippedIsImported` does not hold; `OnlyForceBreaksSkip`
proves that an interrupted `--force` import is all that is needed to break it: it holds in every
behaviour in which an import that is being done over is not interrupted (`RedoesEnd`), however often
others are. `SkipIsHonestUnforced` is the case without `--force`.

`RoadUpdatesProofs` proves, for every number of callers, keys, scripts and versions:

- under every budget of failures, crashes, overruns and runs by hand, `TypeCorrect`,
  `JobsOnlyMoveOn` (`JobsMoveOn`: a job passes from queued to taken to ended, is taken a second time
  at most once, and stays as it ended; and a run of the script moves a job by its end only if the
  worker has started it for that attempt and still waits for it, `EndsAreNews`) and
  `NothingBeyondFeed` (neither the rows nor the recorded state get ahead of Geofabrik, also when
  runs of the script overlap);
- in every behaviour in which no two runs of `update-roads.sh` are under way at once (`OneRun`),
  crashes, overruns and runs by hand included, `OneRunSkipsNoDiff`, `OneRunDelivers` and
  `OneRunImplementsReplica`: `RecordedIsApplied`, `JobDelivers` and the refinement of `FeedReplica`.
  These have the form `Spec /\ []OneRun => ...`;
- `SoleWriterRunsOne`: when nobody runs the script by hand, the worker does not crash and the script
  does not outlive its time limit (`SoleWriter`, what the constants of the run `updates` say), the
  queue and the worker keep to one run. Then `NoDiffSkipped`, `JobsDeliver` and `ImplementsReplica`
  follow without a condition on behaviours.

The run `updates_by_hand` shows that the condition is needed: overlap loses diffs, and the theorems
say that nothing else does. TLC agreed with `OneRun` as a constraint, with a crash, a run by hand and
overruns. The invariants:

- Whatever happens (`SafeInv`): `HoldsJob`, the worker's job is active; `Awaits`, the run of the script
  it awaits is the one it started for that job, so that a run it gave up is credited to no later one;
  `Promises` and `Batches`, nothing is promised, written or about to be that is not published.
- While no two runs overlap: `BatchInOrder`, what a batch brings the rows to is above what is recorded,
  and a batch that was applied is what is recorded next. An overlapping run breaks this first: its
  rows go back behind a record it did not make. `HasCaughtUp`: a run that finds nothing more to fetch
  has reached the version its job was queued for. The comparison that queued it is out of date by then,
  and need not be in date: it found a version that Geofabrik had, and no later step goes back
  behind it.
- For `SoleWriterRunsOne`, `Alone`: every run alive is the one the worker awaits.

For the refinement each step is a `Publish`, `Write` or `Record` of `FeedReplica` or leaves its
variables alone; `BatchInOrder` is what makes `Write` stay above the recorded position.

`ApiProofs` proves all properties of the run `api` for every environment, finite table and request:

- `TraceIsWhole`. The invariant is `CallIsForRequest`: what is asked is what an accepted request
  asks for, under an environment that stays. The rest is arithmetic of the limits; `Increasing` turns
  the code's comparison of neighbours into that of any two timestamps, by the least counterexample
  (`LeastNatural`, from the well-ordering of the naturals).
- `TruncationIsHonest` and `CutAtLimit`: an answer as large as the number of matches is all of them.
- `PointsAreAnswered` and `NearestIsNear`: there is a nearest road where there is one near.
- `LimitsAreKept` (`CallsKeepLimits`): box, points and coordinates of what is asked are within the
  limits for every environment, rows and radius unless the default is set above its limit.
- `TypeCorrect`: every answer has one of the statuses the API knows, and none below 500 advises a
  retry.

`RunStackProofs` proves, with and without a graph and the right to signal sudo, `TypeCorrect`,
`NothingIsLeft` (`NothingLeftBehind`), `EachJobStartsOnce` (`JobsStartOnce`, an action property, for
signals at any point) and `WaitIsForTold` (`CleanupWaitsForTold`: only two things can make the wait
of `cleanup` last, the worker's sudo, where the shell may not signal it, and a signal that comes
before any job was recorded). `AheadIsUnstarted` says that the jobs ahead of the place where the
script is, or will go on after the cleanup under way, have not been started,
`OthersAreUnstarted` that a job which is not in `PIDS` has not been started either, but for the one the
script is about to record there, which is why `wait` has all it should; `ContainerHasJob` ties the
container to its job; `OneCleanup` says that, unless a signal came while jobs were being started
or taken down, traps are set from the first job on and there is one cleanup, which goes on to the
end.

`HealthProofs` proves `TypeCorrect`, `ChecksEndInTime`, `ServingIsFound` and `FailureIsFound`
(`AnswersInTime`, `HealthFollowsRoads`, `HealthIsFresh`) for every deadline, interval, number of retries
and start period, a probe's timeout above the deadline being the only thing assumed of their order.
`FoundSoon` and `LostSoon` relate the time since the roads became usable or unusable to the probe
under way: what it was told before does not count, and each failed round takes an interval and a
deadline at most. `BuildWaitsForImport` (`BuildFollowsImport`) follows the start-up order from the
build back to the import, link by link (`HealthNeedsImport`: the build is behind a healthy container,
that behind a check that found the roads, that behind an import), through any outages; it is what
`OsrmGraph` takes for granted in the guard of `Build`.

`OsrmSuperviseProofs` proves `TypeCorrect`, `StuckRouterEnds`, `AnswersProtect` and, when the patience
of the cleanup is not above Docker's grace period, `ShutdownIsBounded` (`StuckIsBounded`,
`RestartNeedsSilence`, `StopsInTime`) for every setting of the watchdog. The bounds become inductive
by counting: `StuckIsCounted` charges every round a stuck router outlives to a failed probe and
carries the rest into the cleanup, `SilenceIsCounted` puts one pause between any two failures,
`StopIsUnderWay` starts Docker's clock no earlier than the shell's.

`OsrmGraphProofs` proves for every setup, with and without `--force`, `GraphTypeCorrect` (`GraphTypeOK`,
with it that a hard link stays the import's file whatever wget does), `ImplementsImport` (the import
behaves as `RoadImport` says), `RouterFilesFit` (`ServedFitsTogether`: in Compose the router's files are
all made by finished tools from one PBF) and `GraphIsForGood` (`FirstGraphStays`: in Compose the router
keeps the graph it loaded first); and without `--force` `BuildFindsWholePbf` and
`RouterGetsOneBuild` (`BuildFindsPbf`, `ServedIsOneBuild`) for Compose. It uses the invariant of
`RoadImportProofs` through `StepIsImports`: each step here is one of the import or leaves it alone.
`MarkerKeepsFile` follows the PBF from its download: it is not written between its checksum and the
marker, nor after the marker, which ends all imports. `ToolsFollow` then says that whatever each tool
left comes from that one file, over any number of stopped builds, and that a build that is to run
`osrm-extract` has no `.osrm.mldgr` to find.

Model-checked only: the liveness properties (`EveryCallAnswered`, `GateReopens`, `JobsSettle`,
`ImportCompletes`, `ComposeBuilds`, `RouterReturns`, `EndTogether`, `StackComesUp`), as fairness and
ENABLED are out of the prover's reach. Every safety and action property and every refinement of a
passing run is proved. The other way round, `JobsStartOnce`,
`BuildFollowsImport`, `SlotsSpec`, `LoadSpec`, `CompletedIsSkipped`, `ServedFitsTogether`,
`FirstGraphStays` and `WithinFeed` are theorems that no run lists; TLC found no
counterexample to any of them on instances like those of section 3.

## 6. External assumptions

`osm2pgsql-replication` applies a batch before it records it and takes no lock against another run
of itself; `osm2pgsql --create` replaces the table with its indexes and grants; `wget --continue`
writes on at the end of the file it finds and leaves one alone that has the size it expects;
`osm2pgsql` and `osm-extract` do not notice by themselves that a file is of two releases, and
`osrm-extract` refuses one that is cut off; `.osrm.mldgr` appears when `osrm-customize` is done;
BullMQ gives a stalled job back once and then fails it; Docker sends SIGTERM and, after the grace
period, SIGKILL. That an API which is healthy in Compose has an import behind it is not assumed:
`HealthProofs` proves it, from the entrypoint's starting supervisord after the import only.

PostGIS: a statement sees one version of the table, `LIMIT` takes any rows, a left join has a row
for every point, and a road near a point can be found by its distance. Geometry is one-dimensional,
a road a meridian: enough to be in or out of a box, near, far, or nearest. OSRM answers `/match` with
one tracepoint per coordinate, in their order, null for the ones it did not place.

## 7. Left out

- Time limits of a worker's rebuild are failures of that step; retention of finished jobs, progress
  reports and the reading of a job by id are left out.
- Steps of the wall clock, which `blockedUntil` depends on; the text of messages; road lengths.
- The two gates together: 2 matches and 4 routes exceed OSRM's two threads. Each gate keeps its own
  bound; nothing in the repository promises a common one.
- A second build of the graph beside a first; the routing profile.
- With `Legacy = TRUE` (an osm2pgsql before 1.9) `StateIsReadable` does not hold in `RoadImport`:
  step 6 grants before step 7 creates the table. With `Privileged = FALSE` (an ordinary user, whose
  `kill` does not reach sudo) `EndTogether` does not hold in `RunStack`. On bare metal
  `ServedIsOneBuild` does not hold: a rebuild stopped in `osrm-extract` leaves the marker of the
  last one; and a fetch of the PBF that is cut off is never made up for, although `setup-all.sh` calls
  itself safe to re-run, because `build-osrm.sh` asks whether there is a PBF before it would continue
  a download. With `--force`, `BuildFindsPbf` does not hold. These are kept as constants and hazards.

What the models show and no property forbids, because the documentation says otherwise in passing or
not at all:

- A rebuild does not refresh the graph: `README.md` 210-214 speaks of downloading again, but
  `build-osrm.sh` takes the PBF it has and `osrm-build` does nothing when there is a graph (`Obtain`,
  `Skips`). For Compose, where `README.md` 214-217 tells the reader to run `osrm-build` again, it is
  proved that this never changes what the router serves (`GraphIsForGood`).
- `SNAP_MAX_RADIUS_METERS` is called an "upper bound on any snap radius" (`README.md` 258), but
  `SNAP_DEFAULT_RADIUS_METERS` is used as it is (`ParseRadius`); the same goes for
  `ROADS_DEFAULT_LIMIT`. Matching caps its default.
- `truncated` is also true for a viewport with exactly as many roads as the limit.
- Statistics may be torn when an update is applied between their queries: the classes then do not add
  up to the total (`StatsQuery`), and the sequence may be ahead of the rows or behind them.
- A verdict of OSRM on one request that `CODE_STATUS` does not have, such as `InvalidUrl`, gets a 502,
  and so closes the gate to everybody for a cooldown (`CodeStatus`, `Unlisted`; `UpstreamGate.Fail`).
- `run-stack.sh` may hang or leave jobs running when a signal comes while it starts or stops its jobs:
  with nothing in `PIDS` the handler's `wait` has no arguments and waits for a job that nobody told to
  end, and after the handler the script goes on starting jobs without traps.

## 8. Not modelled

- *Redis producer connection*: `getQueue` and `resetQueue` change their two variables in one
  synchronous block, so there is nothing to interleave; what an established connection does when it
  ends, and what `waitUntilReady` then resolves to, is BullMQ's and ioredis's.
- *Database connection and credentials*: a pool of the `pg` library, and the escaping of `.pgpass`
  lines, which is text character by character.
- *HTTP application*: CORS headers and the comparison of the admin token depend on one request only.
- *Installation helpers*: packages, users and unit files, straight through; the import and the build
  they call are `RoadImport` and `OsrmGraph`.
- *Reading a job by id, progress reports, retention of finished jobs* in the update pipeline, which is
  why that component is partly modelled.
