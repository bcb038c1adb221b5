# swarm-hpa in TLA+

TLA+ models of swarm-hpa (an autoscaler, healer, rebalancer and GitOps deployer
for Docker Swarm that all run in one manager process), the TLC runs that check
them on small instances, and TLAPS proofs of what matters most for all
instances. `PROJECT.json` lists the runs, which source lines each definition
stands for, the mutations that show every property can fail, the hazards of the
code and the proved theorems.

    tlc -workers 2 -config MC_GitOps.cfg MC_GitOps
    tlapm GitOpsLoopProofs.tla

## 1. The system

One manager process runs two control loops against Swarm, plus HTTP endpoints.
Nothing is persisted: Swarm and Git hold all lasting state.

| component (under `src/internal` unless noted) | state | operations | talks to |
|---|---|---|---|
| Reconcile loop, `app/reconciler/reconciler.go` | locals of one tick | `observe`: list services and nodes; per service tasks, metric, scale, heal; then rebalance, task errors | Swarm adapter, metric provider, Guard, tracker |
| Guard and Cooldown, `guard.go`, `cooldown.go` | one "last action" time per service | `Scale`, `Heal`, `Rebalance`: cooldown, dry run, call, record | Swarm adapter |
| Stabilizer, `stabilizer.go` | recommendations of the last window, per service | `Recommend` | called by the loop |
| Autoscaler arithmetic, `core/autoscaler` | none | `Desired`, `ClampStep` | pure |
| Healer, placement, `core/healer`, `core/placement` | none | `Detect`, `NodeSatisfies` | pure |
| Rebalancer, `core/rebalancer` | none | `Recommend` | pure |
| Policy labels, `config/labels.go` | none | `ParsePolicy`, `validatePolicy` | pure |
| Swarm adapter, `adapter/swarm` | none of its own (Swarm's services, versions) | listings; `Scale`, `ForceUpdate` through `updateService` | Docker API |
| GitOps loop, `app/gitopsync/loop.go` | repository locks, desired counts, deploy counters, last revision tried | `syncAll`, `syncStack`, post-deploy check | Git, renderer, SOPS, deployer, status store, tracker |
| Stack deployer, `adapter/stackdeploy` | temp compose files | carry-forward, `docker stack deploy`, retry | Swarm adapter, docker/cli |
| Git source, SOPS, renderer, compose rotation and discovery | the worktree of a repository | sync, decrypt in place, render, rotate names | files, go-git |
| Stack status, `adapter/statusstore`, `stackapi`, `core/stackstatus` | last status per stack, waiting/syncing overlay | `SetStatus`, `SetState`, `Snapshot`, drift, orphans | written by the loop, read over HTTP |
| Task-error window, `app/taskerrors` | recent task errors, bounded | `Record`, `WindowSnapshot` | fed by the reconciler, read by the post-deploy check |
| Agent registry and ingest, `app/registry`, `adapter/ingest` | latest report per node | `Ingest`, `Snapshot` | fed over HTTP by the agents, read by the rebalancer and the distributed metrics |
| Agent loop, collector, reporter, `app/agentloop`, `adapter/agent` | none kept | collect, push with retries | registry |
| Metric providers, `adapter/metrics` | none | `Value` | Prometheus, Docker stats, registry |
| Wiring and configuration, `cmd/swarm-hpa`, `config` | settings | start, stop | everything |

### What is hard here

* **Time between a read and the write it leads to.** A tick reads counts,
  tasks and nodes at its start and acts on them service by service; a deploy
  reads the live counts, then docker/cli lists the services again. In between
  the other loop, an operator, or Swarm itself moves on.
* **Three kinds of action, one cooldown.** Scales, heals and rebalances share a
  timestamp per service and compare it with four windows, in three methods that
  have to agree on dry run, error and record.
* **A history that outlives its inputs.** The stabilizer's recommendations are
  kept across ticks, while labels, bounds and counts change.
* **Versioned updates.** Swarm rejects an update under an old version. Both
  writers retry, one from a new inspect, the other from files written earlier.
* **Partial failure and loss.** Any call can fail; an update can be applied
  although its answer never arrives; a deploy can stop after some services; the
  process can die anywhere and forgets everything.
* **Something must happen in the end.** The replica count must settle, a stuck
  service must be healed, a failed deploy must be made good without a push.
* **Shared worktrees, a bounded worker pool, bounded windows.** Stacks of one
  repository exclude each other; the error window evicts at its cap; agent
  reports arrive late or twice.

### What makes each component correct

* Guard/Cooldown: mutations of one service are a window apart, whatever their
  kind; a dry run touches nothing; a tick blind to the nodes disrupts nothing.
* Autoscaler and stabilizer: a scale moves towards the policy's bounds, never
  away; a scale-down respects every recommendation of the window; under a
  constant load the count settles at an adequate value.
* Healer: a service that stays stuck is eventually acted on.
* Swarm adapter: a mutation is one atomic edit of one field, at most once, with
  a truthful answer.
* Deployer: live counts survive a deploy; a deploy gives up only when contended;
  Git's head is deployed in the end.
* GitOps loop: one pipeline at a time per worktree, which sees one revision and
  no plaintext of an earlier one; every stack is visited again and again; groups
  go out in order and never back; Git's head runs in the end; a dry run leaves
  no trace.
* Status: what is shown between two passes is true of Swarm; what is shown in
  flight fits the pool; drift is somebody's doing.
* Compose transforms: the deployer's and the drift snapshot's reading of a merged
  group agree on who owns a count; the file that was decrypted is the file
  docker/cli opens.
* Task-error window: an error is counted once and for as long as it is in the
  window, whichever reader prunes; the post-deploy check sees the errors of its
  stack.
* Registry: a node heard of within the limit is in the snapshot, a silent one is
  not; gauges set outside the lock follow it.
* Metric sources: agents and the local daemon report the same sums.
* Start: settings that are accepted start loops that can run.

## 2. Modules

| module | models |
|---|---|
| `Scaling` | the pure replica arithmetic: `Desired` with its deadband, clamp, `ClampStep`, the stabilizer's rule |
| `Reconciler` | one manager's reconcile loop with Guard, Cooldown and Stabilizer against a live Swarm |
| `ReconcilerProofs` | theorems about `Reconciler` |
| `AtomicUpdate` | abstract: what `Scale` and `ForceUpdate` promise their callers |
| `ServiceWriters` | `updateService`, the deployer with its retry, and other writers sharing the services of one stack; implements `AtomicUpdate` |
| `ServiceWritersProofs` | theorems about `ServiceWriters`, the refinement among them |
| `Rollout` | abstract: the order in which the groups of a stack are brought to a revision |
| `GitOpsLoop` | the stack-sync loop: passes, worker pool, repository locks, pipelines, worktrees, status store; implements `Rollout` |
| `GitOpsLoopProofs` | theorems about `GitOpsLoop`, all its safety properties and the refinement |
| `Compose` | the pure transforms of compose documents, those written twice in the code written twice here |
| `StackStatus` | one stack between sync, deploy, the autoscaler, operators and the `/stacks` request, over `Compose` |
| `StackStatusProofs` | theorems about `Compose` and `StackStatus`, the path algebra among them |
| `TaskErrors` | the task-error window with its two readers, the gauge and the post-deploy check |
| `TaskErrorsProofs` | theorems about `TaskErrors` |
| `AgentRegistry` | agents, their posts and retries, ingest, the registry and its gauges |
| `AgentRegistryProofs` | theorems about `AgentRegistry`: the gauges, what a snapshot has and how old a load in it is |
| `MetricSources` | container stats, the agents' report, both local metric providers, the router |
| `Startup` | from defaults, environment, flags and the GitOps files to the running loops |
| `StartupProofs` | theorems about `Startup` and `MetricSources` |
| `Overlay` | one operator, a function laid over another, for the modules with label and setting layers |
| `Induction` | lemmas the proofs share: induction over numbers, iteration, greatest elements, sums |
| `MC_*` | instances for TLC; `MC_Parts` runs `StackStatus`, `TaskErrors`, `AgentRegistry`, `MetricSources` and `Startup`, which share no state, one at a time |

`Reconciler` sends a mutation (`Sent`), sees it applied (`Apply`) and gets an
answer or loses it (`CallEnds`): it uses the adapter as `AtomicUpdate`
describes it, and `ServiceWriters` shows the adapter is like that in the company
of deploys and operators.

### Reconciler and the code

`pc` is the place in `Reconciler.observe` (`reconciler.go:119-249`). Each call
that leaves the process is a step: `ManagedServices` is three steps, one per
label listing, because the adapter lists three times and the union is no
snapshot; `Nodes` reads the clock (`lag` is the time since); `Tasks(s, ok)`
takes the listed services in any order, as Docker returns them; `NoValue` or
`Value` is the metric read together with the decision it leads to, up to the
Guard; `Heal`, `Rebalance` likewise. The three methods of the Guard are written
three times, as in the code: `GuardScale`, `GuardHeal` and `GuardRebalance` go up
to the call (`Sent`) or to the log line of a dry run (`Would`), `ScaleReturns`,
`HealReturns` and `RebalanceReturns` are what each does after it. `Apply` and
`CallEnds` are the two halves of an update.

Times are **ages**. The code stores instants and compares differences with
windows; the model stores the differences, lets `Elapse` increase all of them,
and stops them at `Horizon`, beyond every window. Nothing the code compares can
tell, and the model needs no bound on the clock. A tick may take at most
`MaxLag` after it read the clock; its decisions use the age at that reading
(`age - lag`), as the code uses its `now`.

`sinceApplied`, `forgotten` and `wanted` are history variables the properties
use: when Swarm applied the last mutation (or a dry run logged one), whether the process knows, and how
long ago a recommendation was at least r.

A metric value is an integer, the target too. The code divides float64s. Two
consequences were checked against the code's expressions: at the deadband's
edges `0.9 - 1.0` lies inside the tolerance of 0.1 and `1.1 - 1.0` outside, which
`InDeadband` states; and `Ceil(current*value/target)` can exceed the exact
quotient by one where the exact quotient is an integer (7 replicas at 29/7, for
example), which happens for none of the inputs the runs use. A negative value
leads to a conversion Go leaves to the implementation, so `Desired` returns both
outcomes. NaN as a target passes `validatePolicy` and is outside the model.

### ServiceWriters and the code

`at` is the place in `updateService` (`mutate.go:40-87`), `stage` the place in
`Deployer.Deploy` under `WithRetry`. A version is kept as whether it still is
the current one: `fresh` for the call's last inspect, `current` for the services
docker/cli listed. `Update` writes the *inspected* spec back with one change,
`Write(s)` the files' counts with the listed ForceUpdate counter (docker/cli
keeps it). docker/cli writes the services in no particular order, and creates
those it did not find. `revision` keeps the revision of the last sync, which is
what `lastDeployedRev` remembers and nothing reads. Stale versions are the only
version conflict in the model; `IsVersionConflict` also takes other
"409 Conflict" answers for one.
`races`, `deployRaces` and `rescaled` are history variables.

### GitOpsLoop and the code

`pc[s]` is where the worker of stack `s` is in `syncStack` (`loop.go:222-480`);
`next` is the loop variable of `syncAll`, `slots` the semaphore. A slot is taken
before the worker starts and the lock after (`Spawn`, `Acquire`); the deferred
calls run unlock, status, slot in this order (`Unlock`, `RecordStatus`,
`Leave`), so a status outlives the lock it was made under. The comment at
`loop.go:86-87` says a deploy is skipped when Git is unchanged; the code always
deploys, and so does `Sync`.

A worktree is its branch, its revision and the files in plaintext. `Checkout`
restores the tracked files. `Decrypt` works on one file of the list;
`Secrets` is the list discovery makes over all documents, which is not free of
repetitions, and sops refuses a plaintext: `DecryptFails` needs no fault then.
`Write` stands for docker/cli's first write of a group's services, `Deployed`
for its return: between the two it can fail. Any call may fail, any step under
the lock may panic, and the process may die anywhere, up to `MaxFaults` together.
A file of the group and of the status is only its outcome. `touched` is a history
variable.

### Compose, StackStatus and the code

The code reads a merged group twice, in `stackdeploy/carryforward.go` for the
deploy and in `loop.go:691-837` for the drift snapshot; both are in `Compose`
(`MergeServices`, `MergeGroupServices`), with what docker/cli makes of the same
documents (`LastSetting`, `StoredLabels`, `Deployed*`, external). Label values are texts, a
count is a number or `Unset`, a path a sequence of components that `Join`,
`Clean` and `Rel` treat as `path/filepath` does. `StackStatus` follows one stack
through sync, render, deploy and record (`phase`); the API reads the status
(`ReadStatus`) and later the live counts (`AnswerDrift`), and `fresh` says nothing
happened in between that would make the difference the request's own.
A mode is `replicated`, `global` or not given: the job modes of docker/cli, which
the code nowhere asks for, are left out. The path <<>> is ".", which is what every document of a sync has at least.
`Misplaced` names the services for which docker/cli and the two readings of the
code disagree: labels, mode or count at the top level or contradicted by another
document, and a list label without "=", which the code reads as "true"
(`carryforward.go:224`, `loop.go:790`) and docker/cli stores as "". `PlacedIsNotMisplaced` proves that the exception is no wider.

### TaskErrors and the code

Times are ages, as in `Reconciler`, saturated at the window. `RecordEvent` is
`Tracker.Record`: known by service and task, or in the place of one of the
oldest, or new. The tasks of a tick may be listed in any order. `Young` is the
pruning both readers do. A service missing from the listing is recorded under its
ID. `checks` are the timers of `schedulePostDeployCheck`, `alert` what a check
reports; `BelongsTo` is the code's prefix test, which takes the services of
`app_web` for services of `app`, too (`loop.go:517-521`). `recorded` is a history
variable: what was recorded and not evicted, as Swarm stamped it.

### AgentRegistry and the code

An agent waits, posts, waits for the answer or backs off; a tick that comes while
it is busy is kept, the others dropped (`time.Ticker`). A post is a request with
a life of its own: it may be served after its agent gave it up and after any later
one. Ingest reads its clock (`Accept`), files under the lock (`File`), and sets
the gauges after it (`CountAgent`, `ShowLoad`); `Snapshot` likewise
(`ReadClock`, `Snapshot`, `Disconnect`). The report filed last stays, although it
may be the older one (`registry.go:102`). Ages again: `seen` since the clock
reading, `measured` since the report's `Timestamp`. `Collect` takes no time in the
model; in the code it reads one container after the other, up to 10 s each, and
stamps the report at its end (`collector.go:95-142`), so a sample may be older than
`measured` by as long as that took. `heard` is a history variable. The wait of
the backoff doubles with each attempt, in units of the clock, without a ceiling
(`reporter.go:84`): `MaxAttempts` is what ends it.

### MetricSources, Startup and the code

`MetricSources` computes both providers from the same containers, frame by frame;
rates are whole numbers in the instances. `Startup` has the settings as texts in
three layers (`Default`, environment, flags), parses and validates them as
`LoadArgs` and `Validate` do, and starts the parts in the order of `runManager`.
The GitOps files are read twice, for the stack API and for the loop
(`main.go:138`, `main.go:181`), and may be edited in between (`EditFiles`).

## 3. Runs

| run | shows |
|---|---|
| `reconciler_scaling` | `TypeOK`, `SpacedMutations`, `ScalesTowardBounds`, `ShrinksOnlyBelowWindow` with relabelling, outside scales, lost answers and restarts |
| `reconciler_actions` | `SpacedMutations`, `DryRunOnlyLogs`, `BlindTickOnlyScales` with scaling, healing and rebalancing of one service, live and dry |
| `reconciler_healing` | `StuckServiceIsHealed` with failing calls and a second service in the loop |
| `reconciler_convergence` | `SettlesAtAdequate`, `AdequateIsKept` in the closed loop under a constant load |
| `service_writers` | two services, partial deploys, a push: `TypeOK`, `CallsAreAtomic` (the refinement), `GivesUpOnlyWhenContended`, `CarriesLiveCount`, `HeadIsDeployed` |
| `reconciler_lost_answer` | finding 1 below |
| `reconciler_first_reading` | finding 2 |
| `service_clobber` | finding 3 |
| `gitops_sync` | with three stacks, two branches of one repository and another repository, two workers, a push and one fault anywhere: `TypeOK`; `OneRevisionPerPipeline`; `StatusTellsOutcome`; `ShownInFlightWithinPool`; `RollsOutInOrder` (the refinement of `Rollout`); `DryRunLeavesNoTrace`; `EveryStackSynced`; `HeadReachesSwarm` |
| `manager_parts` | per part. Stack: `OwnershipReadingsAgree`, `EveryCountHasOneOwner`, `DriftIsSomebodysDoing`, `SameFileEverywhere`. Errors: `TrackerHoldsWindow`, `ChecksTellTheWindow`. Agents: `SnapshotHasTheHeard`, `LoadIsRecent`, `GaugesFollowRegistry`. Metrics: `SourcesAgree`. Start: `AcceptedSettingsRun`, `AcceptedStacksDeploy`. And four type invariants |
| `gauge_lingers` | finding 4 |
| `repeated_secret` | finding 5 |

### Bounds, and why they are enough

* **One service** where the property is about one service: cooldown, history,
  labels and the Guard are per service, and other services of a tick only add
  delay, which `Elapse` adds anyway. `reconciler_healing` and `service_writers`,
  where services do meet (in one loop, in one deploy), have two.
* **Counts** 0..2 in `reconciler_scaling` with the label sets [1,2] and [0,1]:
  a count can be inside, above and below the bounds, and with a step limit of 1
  one step away from them or further. The readings are negative, zero, on target
  and double.
* **Windows** 1 to 3 units with different values per kind, so that an action of
  one kind can be allowed while another is not; a stabilization window of 1 with
  a lag of 1 makes an entry exactly as old as the window. `Horizon` exceeds the
  sum.
* **Convergence** uses a load of 120, divisible by every count the service can
  have, a target of 38, counts 0..6 around the bounds [1,5], a step limit of 1
  and a stabilization window that outlasts a cooldown; the loop starts from every
  count.
* **`service_writers`** has `MaxAttempts` 2 where the code has 3: a first attempt, a
  retry, and giving up; the theorems are for any number. Of the two services both are
  written by the control loops, the first by an operator too. Two revisions; the
  second one turns the autoscaling of `web` off. The compose count, 3, lies
  outside the bounds [1,2] of the first. `ForceModulus` 2 tells an even from an
  odd number of heals, so a heal lost or made twice shows.

* **`gitops_sync`**: two stacks on two branches compete for one worktree with two
  slots, so that a stack waits with a slot in hand that the stack of the other
  repository could use; stacks 1 and 2 share a secret, stack 3 lists one twice; stack 1 has two groups, so a
  deploy can stop between them. `LastRevision` lets `main` move once; one fault
  (a failed call, a panic or a restart) reaches every recovery path, and the
  state space is cyclic, so what follows a fault is followed for ever.
* **`manager_parts`**, by part (860,000 distinct states). *Stack*:
  six groups of one to three documents with labels in either place, switched on,
  off and bare, replaced counts, no count at all, a mode change, documents in nested, sibling and outside directories; counts 0..2; a
  relative, an absolute and an outer worktree. *Errors*: two tasks of one service,
  a window of 2 with a check in its middle, and a cap of 2 that raw IDs and names
  together exceed; the two tasks are symmetric, which is sound for the safety
  properties of this run. `FewSeries` stops the exploration beyond two gauge series, which
  only grow and which nothing reads. *Agents*: one agent with two requests under
  way, two attempts, all delays of 1, so that a request outlives its agent's
  patience, a snapshot and a node's stay. *Metrics*: containers that are busy, idle,
  restarted, stopping, unreadable, and of an old daemon. *Start*: every setting
  with a good and a bad value, alone or on top of manager, agent and GitOps mode,
  one flag, and twelve pairs of GitOps files.

### Fairness

`Reconciler`: `WF(Loop)` and `WF(Elapse)`. The loop is a single goroutine whose
every step either follows from the last or is a call with a timeout, and the
ticker fires for ever; and time passes. Deploys, operators, tasks, nodes and
labels have no obligation. `ServiceWriters`: `WF(Sync)` and `WF(Deploy)` for the
same reasons; the control loops' calls have none. A weakly fair loop may fail
every call, so the three properties say "once calls no longer fail" (and, for
convergence, once the metric answers; for deploys, once docker/cli meets no
stale version). `GitOpsLoop`: weak fairness of the ticker, the passes and every
worker, whose calls end with or without an error; and strong fairness of
`Acquire`, since a Go mutex hands itself over to a waiter it has kept waiting
(starvation mode). Without it a stack could lose every race for its repository.
`MaxFaults` bounds the faults, not the passes: `HeadReachesSwarm` is about what
the passes after the last fault make good. A deploy that fails in every pass
never reaches the head, as in the code.

### Findings

1. *The cooldown starts only when an answer arrives.* `Guard` records an action
   after the call returned without an error (`guard.go:100-104`). If Swarm
   applied the update and the answer was lost, the next tick mutates the service
   at once. `docs/configuration.md:128-130` promises the window "after any action".
2. *The first low reading may shrink a service.* With an empty or expired
   history the stabilizer's maximum is the new recommendation itself
   (`stabilizer.go:70`): after a start, or a metric outage longer than the
   window, one low reading scales down. `docs/configuration.md:28` says the
   recommendation must have stayed low for the window.
3. *A deploy can undo a scale.* Carry-forward reads the counts at
   `deploy.go:66`, docker/cli lists the services later: a scale in between is no
   conflict and is overwritten. The retry reuses the files (`retry.go:34-35`),
   so a scale that did conflict is overwritten by the second attempt.
   `docs/gitops.md:9-11` says this never happens, "by construction".

4. *The gauge of task errors lingers.* `observeTaskErrors` sets the series of the
   snapshot, and the snapshot has no zero counts: the deletion at zero the
   comments (`reconciler.go:284-286`) and `docs/observability.md:77` speak of never
   happens, and the alert of `docs/observability.md:151` stays on until the process
   ends.
5. *A secret file named twice blocks its stack.* Discovery joins the lists of all
   documents without removing duplicates (`loop.go:363-376`), and decryption in place
   meets its own plaintext the second time (`sops.go:58-72`): every sync ends at the
   stage "secrets". `loop.go:358-360` says every secret is "decrypted once",
   `docs/gitops.md:244-246` that discovery "unions" them.

Not checked by a run of their own, but met while modelling and visible in the
definitions:

* A label misplaced at the top level is honoured by both readings of the code but
  not by Swarm: such a service is carried forward and never autoscaled
  (`Misplaced`). So is one whose opt-in is a list label without "=", if docker/cli
  stores it as the model says.
* A service removed from the compose files is neither pruned nor shown as drift.
* An absolute `file:` under rotation is joined to the document's directory
  (`rotation.go:28`), which `SameFileEverywhere` excludes by `~IsAbs`.
* The API reads the live counts after the status: a deploy in between shows drift
  once (`DriftIsSomebodysDoing` asks for `fresh`).
* The tracker keeps one error per task: a second, different one is hidden until
  the first is evicted or old.
* `rebalance_threshold` accepts NaN (`config.go:268`), and an environment value
  that cannot be parsed refuses the start even if a flag overrides it.
* The agent gauges agree with the registry as long as no goroutine of the manager
  stalls, between its clock reading and its last gauge, for more than half of
  `AgentStaleTimeout` (`RegistryConstantsOK`; 45 s by default). Two reports of one node that each stall
  for longer leave an entry that expires while one of them is still in hand, and
  the load it then shows stays for a node the registry does not have.
* A restart drops the pending post-deploy checks, and the GitOps goroutine is not
  waited for at shutdown: a deploy may be cut off, which the next sync repairs
  (`HeadReachesSwarm`).

## 4. Proofs

All for arbitrary sets of services, policies, readings, windows, step limits,
attempts, documents, paths, texts, containers and samples, from the named
assumptions on the constants only, which TLC evaluates on every run:

* `ConstantsOK`, `LabelsOK`, `ReadingsOK`, `HorizonOK` (`Reconciler`), and the
  `ConstantsOK` of `ServiceWriters` and of `GitOpsLoop`: types, and that ages
  saturate beyond every window.
* `RegistryConstantsOK`: types, and that a goroutine stalls for at most half of the
  stale limit, without which the gauges do drift (section 3).
* `TaskErrorsConstantsOK`: types, finitely many tasks, and that what a stack's name
  selects begins with it, which is `BelongsTo`.
* `StackConstantsOK`: documents are well-formed, a merge group is not empty.
* `PathsOK`: no component of a document's path is "/", a file is absolute only by its
  first component, and the base document lies in the worktree or beside it. The last
  is what the code takes for granted: of the error `filepath.Rel` gives otherwise it says
  "Cannot happen within one worktree" (`deploy.go:152`).
* `StartupConstantsOK`: what is given is given for existing settings; items and paths
  are lists.
* `MetricsConstantsOK`: finitely many containers, each with a list of frames whose
  fields are natural numbers.

**`ReconcilerProofs`**

* `TypeCorrect`. The one difficult part is that a decision is a replica count:
  `DesiredInBounds`, `ClampStepBetween` and `StabilizedBetween` give
  `FinalCount`, which bounds the arithmetic from the reading to the Guard.
* `MutationsSpaced` (`SpacedMutations`). The invariant relates the tracker's
  clock to Swarm's: unless the last mutation is forgotten, the recorded age is no
  larger than the age of what Swarm applied (`RecordKept`), and an action past
  the Guard has found its window over and stays past it (`WindowBehind`). The
  property alone is not inductive: it says nothing outside `Sent`.
* `ScalesTowardBoundsAlways`, from `FinalCount` and `ScaleInFlight` (nothing
  changes a scale between the Guard and Swarm).
* `ShrinksOnlyBelowWindowAlways`. The invariant `Remembered` says every
  recommendation still in the window has an entry in the history at least as
  high and of the same age, although the history is pruned with the clock of each tick
  while entries carry the clock of theirs; `Value` prunes, `Elapse` ages.
* `DryRunOnlyLogsAlways` (`DryRunOnlyLogs`): each of the three methods ends a dry run
  at its log line (`DrySilent`), and the argument of `MutationsSpaced` holds for log
  lines as it does for calls.
* `BlindTickOnlyScalesAlways`, over `NoNodesNoHeal`: without nodes, nothing is seen
  recovered.
* `AdequateIsKeptAlways` (`AdequateIsKept`), where nobody else writes counts or labels
  (`Undisturbed`, as in `reconciler_convergence`; with other writers a count may become
  adequate while a scale away from it is under way). For any load: the deadband,
  rounding up and the clamp return an adequate count itself (`AdequateIsDesired`), the
  stabilizer and the step limit pass it; and what a tick read of a service is still
  true when its turn comes (`KnownUntilVisited`), whatever calls failed before.

**`ServiceWritersProofs`**

* `TypeCorrect`, with the retry counters within `MaxAttempts`.
* `CallsAreAtomicAlways`: `Spec => Promise!Spec`. The mapping takes `applied` as
  "waiting for the answer". What makes `Update` a step of `AtomicUpdate!Apply` is
  `InspectedIsCurrent`: while a version is current, the inspected spec is
  Swarm's. Writes map to `Deploy` or `OutsideScale`, everything else stutters.
* `GivesUpOnlyWhenContendedAlways`: `CallPaid` and `DeployPaid` say the loop
  counter never runs ahead of the writes of others, place by place.
* `CarriesLiveCountAlways`: besides the property, services the deploy has still
  to create have the compose count (`CarriedFor`), and bounding twice is bounding
  once (`BoundedIdempotent`), so a service already written satisfies it again.

**`GitOpsLoopProofs`**: every safety property of `gitops_sync`, for any stacks,
repositories, branches, groups, secrets, pool size and number of faults.

* `TypeCorrect`, with every index of a pipeline within its secrets or groups.
* `LockAndQueue`: whoever is under a lock holds it, and no worker runs that its
  pass has not reached. From it follows `StepFrame`, on which the rest stands: a
  step of one worker changes nothing of another stack, and not the worktree of a
  worker under a lock. Each property then needs an argument about one worker only.
* `PipelineSeesOneRevision`: `OneRevision(s)` is inductive; `Decrypt` adds exactly
  the next file.
* `SlotsAndShown` and `ShownWithinPool`: whoever is not idle holds a slot, a stack is
  shown in flight exactly from `MarkWaiting` to `RecordStatus`; the cardinality
  argument is about subsets.
* `DryRunIsDry`: in a dry run no worker is ever past `render`.
* `DecryptedOnceIfListedOnce` (`SecretsDecryptedOnce`), where no stack names a secret
  file twice; where one does, the run `repeated_secret` refutes it. The next file of the
  list is not among those decrypted so far (`NotYetDecrypted`), so without a fault
  decryption cannot fail.
* `OutcomeSoFar` and `StatusIsTrue`: what the outcome per group says at each place of
  the pipeline, up to the record; afterwards nothing but the stack's own next
  pipeline, which is shown in flight, changes what it speaks of.
* `ImplementsRollout`: `Write` is `Rollout!Write` since no service is newer than the
  revision of the pipeline under way and that is not newer than Git (`RollInv`), and
  the groups before are at it (`OutcomeSoFar`); `Push` is `Release`, `Deployed` is
  `Complete`, everything else stutters.

**`AgentRegistryProofs`**, for any number of agents, nodes, attempts and requests
under way: TLC has one agent and one node, since a second agent is too much for it.

* `GaugesFollow` (`GaugesFollowRegistry`). The gauges are set after the lock, so the
  property has to count the requests whose update is pending. Three things make it
  inductive: no two requests are alike (`Distinct`), which rests on how an agent
  paces its posts (`Paced`: it waits between attempts, and samples anew only after
  a tick, so age and sample tell its posts apart); a report that is filed keeps its
  node in the registry until its load is shown (`InHand`), whoever files over it in
  between; and nothing is in eviction outside an eviction. `Elapse` ages all
  requests at once, a bijection.
* `SnapshotsHaveTheHeard` (`SnapshotHasTheHeard`). `EntryTellsHeard` ties the entry,
  which the last to get the lock has written, to the last report received: they
  differ by at most a stall.
* `AgesAreBounded`, with `RegistryTyped` (`RegistryTypeOK`) and `LoadsAreRecent`
  (`LoadIsRecent`). `AgesBounded` bounds the age of a measurement in each place of an
  agent's loop by the posts and waits that can lie behind it (`RetryAge`); the wait
  doubles with each attempt, so the bound is found by induction on the attempt.
  `RegistryTypeOK` asks for those bounds place by place (`InBounds`: wait and timer
  included) and that no two posts of an agent are alike (`Distinct`).

**`Induction`.** The provers cannot instantiate the library's induction theorems, so
this module derives induction over a *set* of numbers from the pigeonhole principle:
if x were missing, adding 1 would map the members below x one to one into those above
0 (`NatSetInduction`, `UpToInduction`). From it follow that functions defined by
iteration exist (`IterationExists`), that a finite set of numbers has a greatest
element, and the algebra of the community modules' `SumFunction`, which takes its
arguments in an order of its own choosing: a sum over a set is the sum over any part
and its rest, over groups, and over what is not zero (`SumIs`, `SumOfUnion`,
`SumWithoutZeros`, `SumByGroups`).

**`TaskErrorsProofs`**, for any tasks, names, texts, stacks, window, delay and cap.

* `ErrorsTyped`: besides the types, one event per task and service name and never
  more than `Cap`.
* `WindowIsTheRecord` (`TrackerHoldsWindow`): `ErrorsInv` relates the tracker, which two
  readers prune at times of their own, to `recorded`, which nobody prunes: the young
  of both are the same. The tasks of a tick are recorded one by one, and in any order
  (`RecordAllKeeps`, by induction over their number).
* `ChecksTellThem` (`ChecksTellTheWindow`), from the same invariant.

**`StackStatusProofs`**, for groups of any number of documents, services and labels.

* `StackIsTyped`; `StackInv` adds `StackOrdered`: from a deploy to the next pass that
  renders, Swarm has the counts and labels of the snapshot for every service
  nobody touched (`InOrder`), and a status, also one a request has read, is of
  that snapshot as long as it is fresh.
* `OneReadingOfOwnership`: `SectionsAgree` compares the two readings of one section;
  both merges are then shown to be iterations whose steps keep the agreement
  (`MergeServicesIs`, `MergeGroupServicesIs`, `ReadingsAgree`).
* `OneOwnerOfEveryCount`: what docker/cli makes of the documents *after*
  carry-forward has rewritten one of them (`DeployAfterCarryForward`).
* `DriftHasADoer`, from `StackOrdered`: the count a snapshot wants is the one the deploy wrote.
* `PlacedIsNotMisplaced`, the exception above. Proving it widened `Misplaced`: a `min` or
  `max` label, a mode or a count that stands at the top level in one document
  contradicts docker/cli as much as the opt-in label does.
* `OneFileEverywhere` (`SameFileEverywhere`). `Clean` is a fold over the path that keeps
  what is clean so far (`CleanFrom`), so cleaning a concatenation may go on from the
  first part (`CleanFromConcat`), and a relative second part may be cleaned first
  (`CleanFirst`). A clean path is leading ".."s and then names; going up as many steps
  as `Rel` writes leads to the shared prefix (`StepsUp`) and the rest back down
  (`BackDown`), unless one would have to climb past the ".."s, which
  `PathsOK` excludes.

**`StartupProofs`**, for any environments, command lines, files, containers and samples.

* `StartupTyped`, `AcceptedCanRun`, `AcceptedAreDeployable`: every layer is parsed
  before anything reads it (`LayersParse`); what `Validate` has compared is what the
  loops are started with (`StartupInv`); removing repetitions keeps a group's files
  apart (`GroupFiles`), whatever the file says when it is read a second time.
* `SourcesAlwaysAgree` (`SourcesAgree`): a container whose share cannot be computed adds
  a zero to the agents' sum and nothing to the other (`SumWithoutZeros`), and the
  node's load is a sum by services (`SumByGroups`). The node's load is a rounded
  quotient, so the property compares it with the rounded quotient of the sum.

Only model-checked: the five liveness properties (`StuckServiceIsHealed`,
`SettlesAtAdequate`, `HeadIsDeployed`, `EveryStackSynced`, `HeadReachesSwarm`),
since fairness brings in ENABLED, which is out of the provers' reach. Every other
property of a passing run is a theorem. No module under proof uses a RECURSIVE operator.

## 5. Not modelled

* Text: YAML, templates, label and duration syntax, content hashes, log and error
  wording. `Startup` and `Compose` take texts as members of small sets and say which
  are accepted.
* Health endpoints, the metrics exporter's HTTP side and logging: output without
  state. Gauges are modelled where a property is about them.
* `Healer`'s constraint matching and the rebalancer's choice: left open in
  `Reconciler`, so its properties hold for any.
* The Prometheus provider: one query, an open reading in `Reconciler`.
* Orphans on `/stacks`, and the duplicate-source warning of the registry, whose
  source includes the port, so that a renewed connection counts as another agent
  (`ingest.go:151`): neither changes state that is read again.
* docker/cli, go-git, sops and Swarm itself: external definitions, as the code uses
  them. `docker stack deploy` does not prune here, as in the code.
* Float arithmetic beyond what section 2 says, and NaN.

What could come next: a flapping service that is autoscaled *and* stuck; a proof
that `Reconciler`'s calls are those of `AtomicUpdate`.
