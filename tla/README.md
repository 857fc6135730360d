# prune-guard in TLA+

Specifications, model-checking configurations and machine-checked proofs about
prune-guard, the daemon that deletes unused Docker and Podman artifacts when the
disk fills up. Every definition is read off the Rust sources under `src/src/`;
`PROJECT.json` gives for each of them the lines it models.

## 1. The system

| part | source | state it keeps | operations |
|---|---|---|---|
| policy engine | `policy.rs` | none | one verdict per candidate, the first failing of twelve checks |
| planner | `planner.rs` | per pass: bytes left of the cap, whether an unknown size reserved them, actions, skips | `plan`: one loop over the candidates |
| scheduler | `scheduler.rs` | per tick: the report, the latest usage snapshot | `run_once`: health, usage, then up to N iterations of health, target, discovery, plan, execution, usage |
| daemon | `main.rs` | options, settings, backend; number of ticks | `run`: arguments, file, backend, endpoint; `run_scheduler_loop`: tick, log, sleep |
| executor | `executor.rs` | per plan: outcomes; one thread and channel per action | `execute_plan`, `execute_with_timeout` |
| Docker / Podman backends | `docker_backend.rs`, `podman_backend.rs` | none: a runner of commands | health, usage, discovery; `execute` = guard commands, then the delete command |
| Docker endpoint | `docker_backend.rs` | host or context of all commands | `resolve_docker_connection`: configured, or one probe per socket found |
| Docker build cache | `docker_backend.rs` | none: the cache is the runtime's | candidate from the dates of the entries; `prune_build_cache`: measure, prune, prune with the older flag |
| reliability coordinator | `reliability.rs` | the lock file; per backend: attempts, last report | `run_once`: lock, each backend with retries and backoff, summary |
| configuration | `config.rs` | section and entries while it reads | a line at a time; `from_entries`: names, types, unknown keys, `validate` |
| observability | `observability.rs` | log and metric sinks | structured logs, metrics, preflight |
| domain types | `domain.rs`, `backend.rs`, `error.rs` | - | records, traits, errors |

**How they interact.** The daemon reads its file, chooses a backend, for Docker
asks each socket it finds for an answer, and calls the scheduler once per tick;
the service manager starts it at boot and again whenever it has ended. The
scheduler calls the backend (four traits) and, per iteration, the planner, which
calls the policy engine for each candidate, and the executor, which calls the
backend's `execute` in a thread of its own per action and stops waiting for it
after a timeout. The coordinator wraps whole scheduler ticks (`BackendCycleRunner`)
in a lock, retries and a summary; it is a library component, the binary calls
the scheduler directly. The container runtime and its users change the
resources at any time between two commands.

**What is hard.** Worker threads that outlive their timeout and go on deleting;
guards that are several commands long over resources that change between them;
a limit for the build cache that is worked out from a measurement of a moment
ago; daemons that come up while their sockets are probed;
a loop that acts on usage and health read earlier; percents that are rounded,
saturated and cut down to a byte; batches that fail in part; a budget with three
ways of being spent; ages that are differences of dates here and hours there; one
list of keys for reading a file and another for refusing it; a lock file left behind by a crash;
retries of cycles that already deleted; text with separators in it that is printed
between separators; sizes that are printed rounded and added up. `PROJECT.json` lists these hazards at
their lines with the properties that cover them.

**What makes each part correct.** Policy: nothing in use, referenced, protected,
unknown or young is accepted. Planner: the cap holds on every list, and nothing
is skipped for it that would fit. Scheduler: deletions only between the
watermarks in bytes, after a healthy answer, never after a check that went wrong or
in a dry run; an honest report; an end. Executor and backends: each action is settled once, what
was in use all along is not deleted, a completed action's target is gone. Build
cache: no young entry goes, and no more than was planned. Configuration: what an
accepted file says is in force. Endpoint: the one daemon that answered.
Coordinator: one process at a time, finite retries, every backend tried.

## 2. Modules

| module | what it is |
|---|---|
| `Policy` | the policy engine: `RejectionReason` and the allowlists. Strings are members of a set, `str::trim` is a function on it |
| `Planner` | the body of the planner's loop as operators on a record; `ProvablySafe`, the independent statement of what may be planned |
| `PlannerLoop` | one call of `plan` as a state machine, a step per candidate |
| `WatermarkGate` | abstract, in bytes: deletions only in a cycle begun at the high watermark, each above the target |
| `Scheduler` | `run_once` in the loop of ticks, with `percent_used` as it is computed; extends `Planner`, implements `WatermarkGate` |
| `Config` | what a file means: names and types of the settings, defaults, the checks of the whole |
| `Daemon` | `run`: arguments, file by the line, backend, endpoint, then the ticks of `Scheduler`; kills and restarts; extends `Scheduler` and `Config` |
| `Batch` | abstract: actions settled once, in order, for good |
| `ContainerRuntime` | external: containers, images, volumes and their users; and what of labels and mounts is left when an inspection is split into fields |
| `Discovery` | `discover_candidates` of both backends, a step per command, on `ContainerRuntime` |
| `Executor` | on `ContainerRuntime`: the executor, its workers at the granularity of runtime commands, for both backends; implements `Batch` |
| `BuildCache` | from the dates of cache entries over the chunk of `Planner` to the prune, a step per command, with builds and the clock in between |
| `InstanceLock` | abstract: a lock that passes on by way of a release only, or is orphaned |
| `Reliability` | coordinators of several processes on one lock file, with crashes and restarts; implements `InstanceLock` |
| `MCPlanner`, `MCScheduler`, `MCDaemon`, `MCExecutor`, `MCDiscovery`, `MCBuildCache` | constants for TLC (`Reliability` is run directly) |
| `PlannerProofs`, `PlannerLoopProofs`, `SchedulerProofs`, `DaemonProofs`, `ExecutorProofs`, `BuildCacheProofs`, `DiscoveryProofs`, `ReliabilityProofs` | the theorems |

**Correspondence.** In `Scheduler`, `pc` is the place in `run_once`: `CheckHealth`
and `RecheckHealth` are its two health checks, `CollectUsage` and
`RecollectUsage` its two measurements (each with a failing twin), `CheckTarget`,
`Discover`, `PlanNext`/`FinishPlan`, `ExecuteAction` and `FinishBatch` the
body of the loop, `ReachLimit` its end; `ExecuteAction` is the body of the
loop of `execute_plan`, for an action simulated, completed or failed. Each early return is `Finish` with the
stop reason, the final usage and the error of that return. That the real executor behaves like this, one
outcome per action and in order, is what `Executor` implements `Batch` says. In
`Executor` a worker walks from its guard command(s) to the delete command, one
command per step, and users create, start, stop and remove things in between
(`UsersStep` of `ContainerRuntime`); both runtimes are one module since they differ at four places only
(a container missing at the guard, one missing in a scan, a target missing at
the delete, the image listing). `Discovery` walks through the listings and
inspections in the same way: `at` is the next command, `todo` what is listed and
not yet inspected, `metadata` the vector of `ContainerMetadata` from which
everything about use is derived. Size and age of an object are one flag, known or
not (`legible`), the running state may be unreadable by itself. A label is a
sequence of texts and of the separators that stand in it (tab, line break, `;`).
The templates print labels as they are, one after the other, and a container's mounts
behind them; the parsers take the first line, split it on tabs and the labels on
`;`. `ShownLabels` and `ShownMounts` are what comes out: `Clean` labels (no tab, no line
break) leave the mounts whole, a tab moves something else into their field, and behind a
line break nothing is read. `image_ids` says how `ps` prints the image of a container:
a plan names the full id, and a shortened one (Podman's listing has no `--no-trunc`)
equals none. In `Reliability` a scheduler cycle is a start
and an end that returns any report `Scheduler` can produce.

A `reading` of `Scheduler` is what `df` shows: bytes used and bytes in all. The
percent is computed from it as the code does (`PercentUsed`: the product saturates,
the quotient is floored and cut down to a byte), while the gate and the stop
reasons are stated in bytes (`AtLeast`, `Above`). In `Daemon`, `stage` is the place
in `run`: arguments, file, backend, endpoint, probing, ready, ticks, or how it ended.
A file is a sequence of lines, a line one of blank, malformed, header, assignment;
`section` and `entries` are the two variables of `parse_toml_subset`. A probe is a
step; Docker daemons start and stop between any two. Hosts stand for sockets after
`canonicalize`. A process that is started again (`Restart`) finds the file as it was or as
one of `Edits`. The settings are constants of `Scheduler`, so the ticks of a daemon
are modelled for the files that agree with them (`Represented`); the others end in
`RunsElsewhere`. In `BuildCache` a worker is at one of three commands (`measure`,
`prune`, `fallback`); `HumanSize` is docker's rounding of a size and
`ParseHumanSizeBytes` what the code reads out of it; dates are records and pass at midnight, ages are differences
of `days_from_civil`, and the runtime's prune goes by hours. Which fields of an
entry can be read is `shown`.

**History variables.** `planned` (PlannerLoop), `issued`, `unknowns`, `vetted`,
`trouble`, `stale` (Scheduler), `idle`, `absent`, `passed` (Executor), `skipped`,
`stayed`, `busy`, `idle` (Discovery), `steady`, `seen` (Daemon), `seen`,
`measured`, `pruned`, `other` of a worker (BuildCache), `deleted` (Reliability) exist in no struct; nothing but properties reads them. Mutated
forms of some operators ("Mutated form of ...") stand before the definition they
vary; no specification uses them, they document which bug each property finds.

## 3. Runs

| run | configuration | checks |
|---|---|---|
| `planner` | `MCPlanner.cfg`: every list of up to 3 of 23 candidates | `TypeOK`; `BudgetAccounted` cap respected; `UnknownClosesBudget`; `NoNeedlessSkip`; `OnlySafePlanned` |
| `scheduler` | `MCScheduler.cfg`: `--ticks 2`, 3 iterations, 6 readings of usage | `TypeOK`; `EveryActionAccounted`; `StopReasonJustified`; `FinalUsageMeasured`; `ReclaimBounded`; `NoDeleteAfterTrouble`; `EachBatchVetted`; `ImplementsGate`; `TickEnds` |
| `daemon` | `MCDaemon.cfg`: command lines, files of up to 3 lines, layouts of sockets, edits of the file; the ticks of a dry run | `SettingsTakeEffect`; `AssumptionsMet`; `EndpointJustified`; `DryRunDeletesNothing` |
| `executor` | `MCExecutor.cfg`: both backends, five actions, 2 containers, one with a tab in a label | `TypeOK`; `GuardSound`; `CompletedIsGone`; `ImplementsBatch`; `PlanEnds` |
| `build_cache` | `MCBuildCache.cfg`: 2 workers, 2 entries with rounded sizes, the ends of February and of a year | `TypeOK`; `CalendarExact`; `PruneBounded`; `MeasureAgrees`; `YoungCacheKept` |
| `discovery` | `MCDiscovery.cfg`: both backends, 2 containers, 2 images, a volume, labels with each separator | `TypeOK`; `StableUsersSeen`; `ActionableWasIdle`; `ProtectedNotActionable`; `NothingOverlooked` |
| `reliability` | `MCReliability.cfg`: 2 processes, 2 backends, 4 attempts | `TypeOK`; `MutualExclusion`; `EveryBackendTried`; `NoOpDeletesRetried`; `BackoffGrows`; `ImplementsLock`; `RunEnds` |

**Bounds, and why they are enough.** The planner's templates have one candidate
per check of the policy and sizes at, below and above a cap of 5 that itself
comes out of the saturation (3 x 2 > `MaxU64` = 5). An unknown size, something
that spends and something that is judged by what is left make three candidates.
The scheduler reads a file system at, below and above both watermarks, between
two percents, so large that the percent saturates, and of size zero;
three iterations (128 by default in the code) let each check of the loop be repeated and
followed by one more batch, and candidate lists end a pass in each of its ways; all counters are reset per tick, so that a daemon's unlimited
ticks (in `daemon`) give a finite state space without a constraint. The daemon is started with
every one or two options of eleven, every key in its section and without one,
every two and three of twenty lines (values of a wrong type or out of range, names
given twice, headers above other keys), and the layouts of sockets in which paths
are apart, linked, or lead to a Desktop; before each restart the file may be replaced by
a dry run, by its opposite, or vanish; its ticks are those of a Podman dry run,
because what they do does not depend on how the settings were given. The executor needs a
container to vanish while another takes its place, hence two containers of one
image and one volume, of which one has a tab in a label; `ps` prints full,
shortened or no ids of images; five actions have each guard, a simulated action between real
ones and a kind that is refused, and late workers of the first ones meet the later ones.
Discovery has the same two containers, and besides their
image one that no container uses, with labels that Docker cannot read and one of
them protected; labels hold a tab, a line break and a `;`, before a protected one and in it. A build cache of one larger and one smaller entry tells an age, a limit
and a measurement off by one; one of the sizes is shown too small (4 bytes as 3), the other
too large (5 as 6), and planned bytes go up to 3; the days have two hours so that hours and dates
disagree, and five hours (`Horizon`) take a used entry past its minimum age of one
day over the end of a month that is one of the four kinds of February or a December. The backoff grows through the saturation of the power
(`MaxU32` = 3) and of the maximum within the four attempts. Cycles of `reliability` end
with one stop reason of each of the four sorts the coordinator can tell apart (retried or
not, cleanup begun or not), those of `reliability_noop` with any (`Reasons`). `Readings`, `MaxU64`, `MaxU8`,
`MaxU32`, `MaxDuration`, `TickLimit`, `Boots`, `Edits`, `Reasons`, `Units`, `Digits`, `HoursPerDay`, `StartDates` and `Horizon`
are the named bounds.

**What is assumed of the runtime.** `docker builder prune` goes from the least
recently used of the entries that are unused and old enough to the younger ones,
until what is left is within the limit. Left of what is not known here and may depend on
the version, so it is a choice (`Scopes`): of these entries, which is how
`prune_build_cache` works the limit out (prunable bytes less target), or of the whole
cache. In the second case the entries that were not measured, in use or young, take
up room under the limit and more is deleted than planned; `PruneBounded` says by how much:
by the bytes of what the limit applied to and was not measured. It also allows for the
rounding of the sizes that were added up. `rm` without force refuses what is in use.
All this is marked external.

**Fairness.** `Scheduler`: weak fairness of the sequential code: backend calls
return (the commands have no timeout of their own; a hanging command hangs the
tick, which `TickEnds` therefore excludes) and sleeps end. `Executor`: weak
fairness of the executor's own thread, whose `recv_timeout` always returns; none
for workers, runtime or users, so `PlanEnds` holds although no worker may ever
answer. `Reliability`: a process that is not killed goes on, an ended one is
started again (`Restart=always`), and an acquisition possible again and again is
made (strong, as an I/O error may be returned in its place). `Daemon` and
`BuildCache` have safety properties only and need none.

### Where code and documents disagree

| run | the document says | what TLC finds |
|---|---|---|
| `scheduler_cap` (`CapPerTick`) | `domain.rs:20`, `requirement.md:119`: the cap bounds deletion per run | each of the iterations of one run (128 at most by default, 3 here) has the whole cap |
| `reliability_crash` (`CrashSafe`) | `requirement.md:160`: crash-safe and restart-safe | a killed process leaves the lock file, and every later run is refused |
| `executor_docker_volume` (`AttachedBlocksDelete`) | `docs/docker-backend.md:88`: deleting an attached volume is blocked | a container replaced during the scan hides the attachment; only the runtime's own refusal remains |
| `discovery_labels` (`AttachedVolumesMarked`) | `docs/docker-backend.md:63`: volumes mounted by any container are marked as referenced | a label value with a tab (or a line break) hides the mounts of its container, with all its metadata taken as complete |
| `reliability_noop` (`NoOpDeletesNothing`) | `docs/reliability-and-error-handling.md:26`: no-op means no deletion commands are executed | the summary looks at the last report of a backend: a run that deleted, failed and found the backend unhealthy on its retry is called a no-op |

Met while reading, without a run:

- `planner.rs:15` says unknown sizes are rejected while `planner.rs:83` and
  `docs/cleanup-planning-and-execution.md:28` describe the one that is taken (and
  one per iteration, not per run, may be: `ReclaimBounded`).
- A tick whose last measurement is at or below the target still reports
  `IterationLimitReached`; `config.rs:28` says cleanup stops once usage "falls
  below" the target, and the code stops at it.
- After a failed action or measurement the final usage predates the deletions
  (`docs/scheduler-watermark-loop.md:97` calls it the usage at tick end;
  `FinalUsageMeasured` is what holds).
- The percent is floored, so a target of n percent is reached anywhere below n+1;
  blocks reserved for root count as neither used nor free in `df`'s own percent but
  as free here. A disk of more than 1/100 of the range of `u64` saturates the
  product: the percent is then too low, never too high (`PercentFaithful`).
- `docker_backend.rs:463` says auto-detection picks an endpoint only when exactly one
  reachable endpoint is proven; Docker Desktop's is preferred to a reachable
  other (`docker_backend.rs:504`), and when none is reachable the commands go to
  docker's own default, which is not pinned and may be another one at each command.
- A `--backend` override is compared with the enabled backends without trimming
  them, while the choice without an override trims them.
- The guard before a volume's delete has the blind spot of `discovery_labels` too:
  `GuardSound` speaks of what a guard can see (`Shows`).
- Podman's guard before an image's delete compares the ids that `ps` prints without
  `--no-trunc` (`podman_backend.rs:110`, as `docker_backend.rs:232`) with the full id in the plan.
  Where the runtime shortens them it sees no use at all, and its own refusal of
  `rmi` is what remains (`image_ids` = `"short"`).
- A protected label with a `;`, a tab or a line break in it, or behind a label
  with a tab or a line break, is not read as it is, while the metadata count as complete
  (`docker_backend.rs:1126`, `1361`): the object is not protected by it. `ProtectedNotActionable`
  holds of the other labels.
- Docker prints the sizes of cache entries rounded to a few digits; the planned bytes and
  the limit are sums of these (`docker_backend.rs:1376`).
- A completed prune counts its target as reclaimed, although the filter in hours
  may match less than the entries counted by date.
- The coordinator counts a cycle that ended with `BackendUnhealthy` as a success; the
  jitter and the degraded mode of `docs/reliability-and-error-handling.md` are not in the code.
- `docs/observability-security-portability.md:51` describes a preflight that turns
  an unsafe privilege into a dry run; nothing calls `preflight_execution`. The binary
  takes no lock although `requirement.md:162` asks for single-instance execution.
- `scheduler.rs:36` and `docs/scheduler-watermark-loop.md:61` say that an execution failure
  stops the cycle immediately. The executor records it and goes through the rest of the batch
  (`executor.rs:71-87`); the scheduler stops behind it. `NoDeleteAfterTrouble` says just that:
  no delete after a health check, a measurement or a discovery that went wrong, and no
  further batch after a failed action.

## 4. Proofs

All theorems hold for every value of the constants that satisfies the named
assumptions of the modules (`PolicyAssumption`, `PlannerAssumption`,
`CandidateListsAssumption`, `SchedulerAssumption`, `ConfigAssumption`,
`DaemonAssumption`, `ExecutorAssumption`, `BuildCacheAssumption`,
`RuntimeAssumption`, `DiscoveryAssumption`, `ReliabilityAssumption`), which TLC evaluates
in the runs. Every invariant and action property of a passing run, and every
refinement, is stated by a theorem.

- **Policy** (`PlannerProofs`): `PolicyIsExact`. `RejectionReason` is a list of
  checks in an order, `ProvablySafe` a conjunction without one; the two say the same
  of the candidates of the request's backend, so that the fail-closed order
  neither has a gap nor rejects more than it must.
- **PlannerLoop** (`PlannerLoopProofs`): `TypeCorrect`,
  `CapHolds`, `UnknownIsLast`, `CapSkipsOnlyMisfits`, `PlansOnlySafe`. `Invariance`
  carries their conjunction with two facts that make it inductive: nothing is
  left once the rest is reserved, and the budget never grows, so a misfit stays
  one to the end of the pass. `SafeIsSkippedForBudget`: a plan leaves out a
  provably safe candidate for the budget only.
- **Scheduler** (`SchedulerProofs`): `TickInvariance` shows `IInv` = types, `Placed`
  (what each place of `run_once` implies: above the target from discovery to
  the end of the batch, vetted from the health check to the measurement, no
  trouble before the end) and `Accounted` (planned = completed + failed +
  queued). From it `TickTypeCorrect`, `AllActionsAccounted`, `DryRunIsInert`,
  `FailClosed`, `BatchesVetted` and `GateImplemented`. `EveryActionAccounted` is
  not inductive by itself: only the queue explains the difference inside a
  batch. The refinement needs `Placed` for the first snapshot of a cycle (no
  delete yet) and for each delete (above the target), and `PercentFaithful` to
  get from percents to bytes. `ReclaimWithinCaps` carries along what is left of
  the allowance of the iterations begun, and that the queue weighs no more; as a sum
  over a sequence is recursive, `Weighs` states it by the weights of the suffixes,
  which `Append` and `Tail` change by one action's. `ReasonsHold` and `FinalUsageIsLast` follow from
  `Reasoned`, which adds what is to be explained at the return already (actions
  planned, so completed or failed; the deletions since the last measurement).
  `DeletesOnlySafe` composes policy, planner and batch: `SafeInv` (the plan and the
  queue hold provably safe candidates only) is carried through each pass by the lemmas
  about `PlanCandidate`, and each action handed to the backend is the head of the queue.
  `TicksShorten` is the variant of the loop: iterations left, then the places
  ahead in this one, then the candidates not yet planned or the actions not yet settled. It
  falls with every step in a lexicographic order that `TickOrderWellFounded` shows to
  have no endless descent; `TickEnds` adds the fairness, and that a step is
  always enabled.
- **Daemon** (`DaemonProofs`): `EndpointChosen` from `EInv` (what was up all along
  has answered or is still to be probed); `FileTakesEffect` from `LInv` (the entries
  are those of the lines read, and each key has one line) with the finite case
  distinction that every known key is an alias of the setting it names;
  `SchedulerAssumptionsMet` from `AInv`. A restart is no step of `Scheduler`, so what
  is proved of its ticks is carried over: `DaemonStep` says that each other step of the
  daemon is one of the tick or leaves it alone, `RestartIsFresh` that a restart
  establishes what the invariants ask of a new tick. On these rest
  `TicksAcrossRestarts`, `ReportsAcrossRestarts`, `DeletesAcrossRestarts` and
  `GateAcrossRestarts`: the daemon with its kills still implements `WatermarkGate`.
- **Executor** (`ExecutorProofs`): `TypeSafe`, `BatchImplemented` (with `waiting` implying a
  real action), `CompletedAreGone`, and `GuardsHold`, all for both backends:
  `GuardSound` follows from `Covered`, which says that a target not seen idle has
  a user still to be inspected, already found, or passed over as gone. `PlansShorten`
  is the variant of `execute_plan`: two steps per action less one while it waits, which
  no worker, user or runtime ever raises.
- **Build cache** (`BuildCacheProofs`): `CalendarAgrees` from the lemma that
  `days_from_civil` grows by one over each of the kinds of day's end (in a month,
  of a month, of a year; a century's and a fourth century's February are cases of it);
  `YoungKept`, as a difference of dates of n days is never more than
  n full days in hours and an action's age is at least the minimum; `MeasureAgrees`
  as `MeasureAsSeen`; `CacheTyped`; and `PruneWithinPlan`. The last is about sums over
  sets of entries, of which nothing can be computed by induction on the
  definition; `WeightSplit` and its companions get them from the fold's own equation by a
  counterexample of least cardinality. Its invariant says what the limit passed to the
  prune leaves of the plan (`LimitFits`) and what the limit was applied to that had not been measured; sums of read sizes
  and of true ones differ by `RoundedOff`. Its hypothesis is that the bytes read fit into a `u64`
  (`CacheFits`): beyond it the code's sums saturate, and a saturated sum less a
  target is not what the target leaves.
- **Discovery** (`DiscoveryProofs`): `TypeCorrect`; `StableUsersAreSeen` from
  `ScanInv` (a container that stays is scanned or still to be);
  `ActionableWereIdle` from `IdleInv` (an object never seen idle has a user
  scanned or still to be, as it had one when the containers were listed);
  `ProtectedKept`; `AnswerIsWhole` from `WholeInv` (what stays is among the candidates,
  listed, or of a kind whose listing is still to come). `CandidateOrigin` says where
  candidates come from and is cited by all of them.
- **Reliability** (`ReliabilityProofs`): `Exclusive` and `LockImplemented` from
  `LockInvariance` (whoever holds has the file in place, and is alone);
  `AllBackendsTried` from the count of attempts at each place, as `TypeCorrect`;
  `HiddenDeletesRetried` from `TracesInv` (a delete of the run is in the current attempt, or
  a report of a finished backend shows that cleanup began, or that there were others); `BackoffNeverShrinks` from `DelayInv` (the last wait is the one computed for
  its attempt) and the lemma that `SaturatingPow` is monotone, by a least
  counterexample. Its hypothesis `MaxAttempts <= MaxU32 + 1` is the code's cast of
  the attempt to `u32`: a larger one would wrap and the wait would fall back. `RunsShorten`
  gives the variant of a run, as `TicksShorten` does of a tick.

**Where the refuted claims do hold.** Beside each violated property stands a theorem
that draws the line: `CapForOneIteration` (the cap is one per run where a run has
one iteration), `PodmanBlocksDelete` (an attached volume is never handed to the delete
by Podman, whose scan takes a vanished container for an error, where no label of a container
has a tab or a line break), `AttachmentsAreSeen` (every mount is marked where no
label of a container has a tab or a line break) and `HiddenDeletesRetried` (a no-op
deleted nothing where each backend was tried once and succeeded). For the
crash there is no such line: `KillOrphans` and `OrphanedForGood` say that one kill of a
holder, at any place of its run and whatever the number of processes, shuts out all of
them for ever.

Only model-checked: what holds under fairness (`TickEnds`, `PlanEnds`, `RunEnds`; liveness
and ENABLED are beyond the proof system), for each of which the falling variant is
proved; and the five violated properties.

## 5. Not modelled, and the plan

The report's sums are plain numbers: a `u64` could only be passed by several
iterations under a cap of more than a third of its range.

Not modelled for good: wording of logs and messages, and the reclaimed bytes the log
line derives from a report (`main.rs:113`: printed, kept nowhere); output
formats of the commands beyond labels, mounts, sizes and dates, and of literals in the file; the functions of
`observability.rs` and `is_actionable` and `is_above_watermark` of `domain.rs`, which no
component calls; packaging, CI and release scripts.

The plan's modules are all written: policy and planner; the watermark loop and its
gate; executor, workers and guards; lock, retries and summary; discovery; the build
cache and its calendar; percents in the width of their arithmetic; configuration,
endpoint and the daemon as a whole. Every property that the proof system can reach is
a theorem. What could still be added: the budget theorems of `PlannerLoop`
(`NoNeedlessSkip`, `SafeSkippedForBudget`) carried over to each pass inside a tick.
