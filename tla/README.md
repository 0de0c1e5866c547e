# Justflow: verification development

Justflow runs YAML-described workflows durably on Temporal. This directory holds
TLA+ modules translated from `src/src/justflow`, TLC configurations that check them on
small instances and TLAPS proofs of the results that matter most. `PROJECT.json`
maps every definition to the lines it models, names a mutant for every property and
lists the hazards the properties are aimed at.

## Inventory of the system

| Component | State it keeps | Operations | What is hard |
|---|---|---|---|
| Scheduled starts (`runtime/scheduled_start*.py`) | one Temporal schedule carrying the projected record, one arbiter workflow per version, the tenant run | create, describe, list, reschedule, cancel, fire, claim, prepare, dispatch, commit, clean up | a due claim, a cancel and a reschedule race; calls are lost, retried, late; no lock |
| Configuration activation (`runtime/configuration_activation.py`, `configuration/activation*.py`) | activation records (state, version, lease, checkpoints), active pointer, catalog aliases, per-process runtime index | plan, activate, resume, register readiness, roll back | several controllers resume the same or competing activations after crashes |
| Drafts and publication (`configuration/publication.py`, `lifecycle.py`, `sqlite.py`, `aws.py`) | drafts with versions, revisions, publication and discard records | save draft, publish, discard, advance the active pointer | optimistic concurrency, idempotent retries, crash between steps |
| Workflow runner (`engine/runner.py`, `continuation.py`) | position, context, counters of one workflow execution | run steps, branches, loops, waits, failure handlers, continue-as-new | every traversal must end, limits, resumption with the same state |
| Step calls (`engine/activities.py`, `compiler.py`, `transports/queue.py`) | response queues of an execution, step cache, attempts in flight | call, retry, cache, publish, take a response | attempts that go on after their timeout, late and repeated answers, a change of runs in between |
| Workflow starter (`runtime/starter.py`) | none of its own; Temporal's workflow ids | start, resolve, look up an existing start | ambiguous answers, duplicates |
| Trigger ingress, response relay, brokers (`engine/trigger_ingress.py`, `response_relay.py`, `deduplication.py`, `brokers/`) | messages in flight, receive counts, duplicate memory | receive, start or signal, acknowledge, dead-letter | at-least-once delivery, poison messages, crash before acknowledgement |
| Schedule reconciler and operations (`runtime/schedule*.py`) | Temporal schedules and their ownership memo | plan, apply, pause, run, backfill, dispatch | plan stale at apply, partial failure, two releases |
| Definition catalog and routing (`definitions/`) | immutable manifests, alias document, pinned executions | publish, import, load, route, assess a retirement | compare-and-swap, torn files, executions still open |
| HTTP APIs and operations control (`runtime/control_api.py`, `configuration_api.py`, `operations*.py`) | requests in flight, blocking slots, cursors | every route; cancel, terminate, signal, page | policy that changes between two awaits, lost answers, stale cursors |
| Webhooks and cloud events (`runtime/webhooks.py`, `cloud_events.py`) | none | admit an event as an idempotent start | redelivery, a workflow that starts itself |
| Local authoring (`configuration/local_authoring.py`) | configuration directory, discard records | edit, apply, discard | crash between two files |
| Validation and compilation (`config/`, `engine/analysis.py`, `contracts.py`, `definitions/manifest.py`) | none | validate, compile, analyse, build manifests | graph and schema algorithms that must agree with the engine |
| Worker and application lifecycle, resources (`engine/worker.py`, `runtime/application.py`, `health.py`, `sdk/resource_loader.py`) | started parts, opened resources, readiness | start, load, supervise, drain, stop | partial start, stop during start |
| Configuration documents, expression evaluator, other transports, providers, SDK, generators, CLI, console | none that a property is about | conversions and I/O | |

How they interact: an API or a trigger calls the starter, which resolves a definition
through the runtime index that activation maintains and starts a Temporal workflow whose
id is derived from the business request id; the runner executes it. Scheduled starts call
the same starter later. Activation consumes published revisions, rolls workers out,
reconciles schedules and moves the active pointer. Components share no memory apart from
the runtime index: what they share is Temporal and the stores, with compare-and-swap or
one-shot workflow ids as the only synchronisation.

## Modules and runs

| Part | Modules | Runs |
|---|---|---|
| Scheduled starts | `ScheduledStarts`, `ScheduledStartLifecycle` (abstract), `ScheduledStartsProofs`, `ScheduledStartList` | `ss_race`, `ss_dispatch`, `ss_live`, `cp_control` |
| Configuration activation | `ConfigurationActivation`, `ConfigurationActivationProofs` | `ca_race`, `ca_host` |
| Execution | `FlowAnalysis`, `WorkflowRunner`, `StepCalls`, composed in `MCExecution`; proofs of both in `ExecutionProofs` | `fr_flows`, `fr_continue` |
| Publication | `ConfigurationPublication`, `ConfigurationStore` (abstract), `ConfigurationPublicationProofs` | `pb_calls` |
| Delivery and admission | `MessageDelivery`, `StartAdmission`, `MessageDeliveryProofs` | `md_delivery` |
| Control plane | `ControlApi`, `OperationsQuery`, `ManagedSchedules`, `DefinitionCatalog`, `ObjectEvents`, `DeploymentRouting`, `ScheduledStartList`, composed in `ControlPlane`; proofs in `ControlPlaneProofs` | `cp_control` |
| Process | `HostLifecycle`, `ResourceOrder`, `HostLifecycleProofs` | `hl_host` |
| Authoring and validation | `LocalAuthoring`, `WorkflowValidation`, composed in `MCAuthoring`; proofs in `LocalAuthoringProofs` | `la_files` |

A property a run names is often a conjunction of named parts, each with its own comment in its
module; `PROJECT.json` has a mutant for each part, so that every conjunct is known to depend on the code.

## Scheduled starts

### Model

`ScheduledStarts.tla` follows one scheduled start through one life. Its state is where the
code keeps it: `sched` is the record carried by the Temporal schedule (`armed`: its one
action is still to come; `skipped`: Temporal skipped it), `due` the running Due workflow,
`claims` the claim activities that passed the freshness check and have not yet started the
arbiter, `arb[v]` the arbiter workflow of version `v` with the inputs it carries across
continue-as-new, `run` the tenant execution, `cli[c]` the request of client `c` with its
program counter, `active` what the runtime index resolves the workflow to, `doomed` the
cleanup between its read and its delete. `lateCommit`, `lateRun` and `lateCall` are calls
whose caller gave up and that may still reach Temporal.

The actions follow the awaits of the code: each step ends where the code awaits another
service, so that another actor may run in between. `ClaimCheck` and `ClaimDue` are the two
halves of `claim_due`; `Prepare`, `AttemptAccepted`, `AttemptRejected`,
`AttemptRunIdLost`, `AttemptAmbiguous`, `CommitRead`, `CommitWrite` and `CommitTimeout` are
the activities of the arbiter with all their outcomes; `Submit`, `ReadRecord`,
`RecoverMutation`, `RunMutation`, `RunMutationFails`, `AwaitArbiter`, `AwaitTimeout` and
`Retry` are one API mutation; `CleanupDescribe` and `CleanupDelete` the sweep.

`ScheduledStartLifecycle.tla` is the abstract specification: a single line of versions in
which a pending version is rescheduled, cancelled or dispatched once, and a dispatched one
is started or fails. `ImplementsLifecycle` maps it to the *arbiters*: the schedule is only a
projection, which a late write may set back, while the arbiters are never wrong.

### Runs

* `ss_race`: two clients that repeat their requests, two versions, a claim, direct API
  starts, cleanup, and schedule updates that land after their caller gave up. Shows one outcome per
  version and that an answer of success is never taken back, late updates or not; and, until an update
  is abandoned on its way, that what clients are told is true (`AnswersAreTrue`: retries recover their
  result, a conflict has no effect, arbiters fail only after cleanup) and that the record never goes
  back (`RecordNeverGoesBack`). Bound `SureDispatch`: no ambiguous dispatch and a definition that stays
  resolvable (those are the subject of `ss_dispatch`), and once an update is abandoned only one of
  the two clients goes on.
* `ss_dispatch`: one client, two definitions, two dispatch attempts with every outcome, and
  schedule updates that land after their caller gave up: the arbiters still implement the
  single-line lifecycle (`ScheduledStartLifecycle`).
* `ss_live`: `EverythingSettles` under the fairness below: every start settles unless its action was
  skipped or its schedule may be overwritten, and every arbiter closes. No commit is abandoned here
  (`Abandonable`, a bound): with late updates of the first version too the run passes, but takes four minutes.

The exception in `SettlesUnlessSkipped` is real: the schedule is written with overlap policy `SKIP`
and one remaining action. If the Due workflow of the version before still retries its claim when
the new version falls due, Temporal skips the action and the start never runs, although
`docs/operations/scheduled-starts.md:3` says it asks "to run a workflow once at a future time".

Two weaknesses of the code limit what is true of it, and the properties say so.

* A start reported failed may have run. The client returns no run id for a start, so
  `_resolve_run_id` always describes the run, and when that fails it raises
  "Temporal accepted the workflow identity but did not return its run identity" with the default
  certainty, `AUTHORITATIVE_REJECTION`. Enough such attempts, or one of them followed by real
  rejections, end in `dispatch_exhausted` although the run exists. `run.by` is `"lost"` for that run,
  and `FailedMissesOnlyLostRuns` says that this is the only way: a failed start has no start request
  under way and no run that an attempt knew of or left in doubt.
* A schedule update carries no conflict token, so the update of a commit attempt that timed out may
  land later, over a newer record (`LateCommitLands`, any number of times). Then a read may go back, an
  arbiter may find a record that is not its own and stall, cleanup may delete what became pending
  again, and a request that was told conflict may, repeated or late, take effect after all. Those
  guarantees hold until an update is abandoned on its way (`NoneAbandoned`). What holds in
  any case: one outcome per version, success is final, a cancelled start starts nothing, a failed one
  as above, the record names the run, the target is pinned, and the arbiters are one line of versions
  (`ImplementsLifecycle`).

Bounds: two clients suffice for every race between a winner and a loser, and the second
version for every interaction between a version and its successor. `DispatchAttempts` 1 and
2 reach exhaustion with and without a preceding ambiguous attempt.

Fairness: Temporal runs every workflow task and retries the activities of the Due and
arbiter workflows without limit, hence weak fairness for their steps and strong fairness
for the attempts that are answered. Clients, activations and cleanup owe nothing.

### Proofs

For any sets of clients and targets, any `MaxVersion` and `DispatchAttempts`, and with
late updates of any number, `ScheduledStartsProofs` proves in layers, each invariant over the one before:

* `TypeCorrect` (`TypeOK`), from the inductive invariant `Inv1`,
  which adds the facts about projections without which a version could leave its range: a
  reschedule is only submitted below `MaxVersion` and its arbiter remembers that.
* `Inv2` (arbiter, command and digest agree with the
  projection; an arbiter exists only for a version all of whose predecessors were consumed by a
  reschedule; clients are told what theirs decided), `Inv3` (where the tenant run comes from) and
  `Inv4` (what dispatch has sent) give `OneOutcome`, `CanceledStartsNothing`, `StartedIsTheRun`,
  `PinnedTarget` and `FailedMissesNoKnownRun`.
  `Inv6`, which is inductive until an update is abandoned, gives `AnswersStayTrue` and the second half
  of `RecordGoesForward`; its first half, that success is final, follows from `Inv2` alone. `Inv6` says
  that the record and the arbiters are in step (`InStep`): an arbiter that prepares, dispatches or
  writes has the pending record of its version, what it decided is pending, written or overtaken
  (`Kept`), and whoever may still start an arbiter saw its version pending, which only that arbiter
  can have changed since (`Seen`: the claim between its check and its start, and the client between
  its read and its call). Hence `prepare_arbiter` never meets a stale record, `commit_arbiter`
  never its permanent conflict, and a client is told conflict only when its version has
  another owner or a run (`Mine`). TLC checked `Inv6` on the instances of `ss_race` and `ss_dispatch`.
* `Refinement`, from `Inv5` (the current version exists and is the last one reached): every step of `ScheduledStarts` is a
  step of the lifecycle or a stutter.

No theorem has a hypothesis beyond the assumptions on the constants. Only model-checked:
liveness, which is out of the prover's reach.

The list with its cursors is `ScheduledStartList`, below. Not modelled: the quota of pending starts
(it counts through an eventually consistent listing under a lock of one process only), re-creation of
the same identity after cleanup, the wall clock (a reschedule may find its due time
out of the window at any moment: the answer `invalid`, of an attempt that did nothing). A target that cannot be resolved for a passing reason
is recorded as a permanent failure (`NoTarget` in `Prepare`).

## Configuration activation

### Model

`ConfigurationActivation.tla` is one runtime scope: the activation store (`acts`), the active
pointer, the catalog (`aliases`, `objects`), the reconciled schedules, the workers (`rolled`,
`routed`) and one runtime index per controller process. A *task* is one call of `activate`,
`resume`, `register_readiness` or `rollback`. It walks the stages of `resume` with a local
copy of the record (`task[t].rec`), as the code does, and each stage is two steps: its effect
(`StoreDefinitions`, `Rollout`, `Readiness`, `ReconcileSchedules`, `SwitchCatalog`,
`SwitchWorkerRouting`, `ReadPointer` and `SwapPointer`, `ReplaceRuntimeIndex`) and its
checkpoint (`Note`). `Update` is the version-conditional write of the store. `ExternalFails`
lets any call to a binding, the catalog or the configuration store raise before or after its
effect, `Abort` ends a call whose store or caller is gone, `Crash` takes a process with its
tasks and its index, `LeaseExpires` is the clock.

A revision is abstracted to what it asks of the catalog and of Temporal. Alias versions are
the alias contents, because both catalog backends derive them from the stored bytes.

### Runs

* `ca_race`: two activations (one may be the rollback of the other) on two controllers.
  Bound `Healthy` leaves out failing calls, crashes and overtaken holders, which the next run has; `MaxVersion`
  2 means that a record is worked on by one call and the one that follows its creation.
* `ca_host`: no worker binding: the host reports readiness, and nothing was active before.
  Crashes and failures at every call, take-overs, and leases that run out while their holder
  still works (`overtaken` remembers it), so that two controllers write the same record with
  different copies.

`ca_race` checks `WinnersAreInLine` (one winner per base version; what was rolled back was replaced) and
`PointerMovesOnlyWhenReady`; `ca_host` checks `OutcomesAreEarned` (types, an applied activation has every
confirmation, a superseded one had a rival) and `WritesAreSafe` (no write is lost, the pointer moves only
when ready). Activations whose lease ran out under a holder at work are the exception: `_terminal` closes
a record whoever leases it now, so that a controller that lost its lease may record as superseded the
switch its successor has just made.

Four behaviours of the model have no property, because no document promises anything about
them. The durable `RUNTIME_INDEX` checkpoint stands for an in-process index: a controller that
resumes after a crash skips the replacement and reports the activation applied. And a failed
activation that is resumed after a newer one was applied reconciles the schedules of its
stale plan before the pointer rejects it. An activation superseded at the pointer has switched aliases and
schedules, which nothing switches back. And one that waits and fails often exhausts its transition
history, after which an advanced pointer may have no recorded outcome.

In `ca_race` no failed or waiting activation is resumed beside a rival: that takes a third version of a
record, for which the run is too large. That the properties hold then as well rests on the proofs below,
which bound neither versions nor calls.

Bounds: two activations and two controllers are a winner and a loser of every race.
`MaxHistory` is small so that the limit of the transition history is reached; `MaxVersion`
cuts resumption, and 12 lets every stage of one activation be checkpointed with two
interruptions. Deadlock is not checked: a scope whose activations are closed is idle.

A lease belongs to a controller, not to a call: `Acquire` lets another call of the controller that holds the
lease take the record from a call at work (`AtWork`). That call is overtaken just as one whose lease ran out,
and `overtaken` remembers both; without the first case `OutcomesAreEarned` does not hold for two calls
of one controller.

### Proofs

`ConfigurationActivationProofs.tla` proves all four properties (`PointerMovesOnlyWhenReady` as the corollary `PointerMovesSafely`) for any number of controllers, calls, activations
and revisions, in four layers, each an inductive invariant of its own on top of the ones before.

* `Typed`: the types; what a record and a call have confirmed at the point they have reached; and how the copy
  a call works on relates to the record: with the same version it *is* the record, and an older copy is contained
  in it. `Update` is conditional on the version, so that a write adds to what is there, and
  `WritesSafe` follows step by step (no confirmation is taken back, states move along `Allowed`, and a
  call at `SwapPointer` has all the checkpoints its plan needs in the store).
* `Line` and `Rollbacks`: an activation that made its switch, whether or not the checkpoint is written yet, did it
  against the pointer version it was planned for, and two that did so for one version have one target; a call that
  marks an activation rolled back has seen its rollback applied: `WinnersInLine`.
* `Rivalry`: a call at work that was not overtaken holds the lease, nobody else writes its record, and its
  plan is fresh unless a rival has begun: `OutcomesEarned`.

Only model-checked: nothing but the bounds. No liveness is claimed: an activation waits for workers that may
never come, and the history limit may stop one for good.

Not modelled: the DynamoDB store (the same conditional writes), `list`, the materializer,
outcome codes.

## Workflow runner and flow analysis

### Model

`FlowAnalysis.tla` has a declared workflow as a record and `analyze_workflow` as operators on
it: the edges of the control flow, reachability, cycles, and the data available on every
path to a step (`MustAvailable`, `HandlerEntryAvailable`). `Accepted` is "no issue".

`WorkflowRunner.tla` executes one accepted workflow. `st` is `_RunState` with the locals of
`_execute` (current step, outputs, audit entries, failures, active episode, `seq`, invocation
count, loop progress), `pc` where the coroutine stands, `chunk` the tasks of the current
operation, `pending` the queues of `PendingMessages`, `carry` the continuation input. One
action is one stretch between awaits: `StartOperation`, `Invoke`, `Answer`, `CallFails`,
`CancelTasks`, `OperationFails`, `ChunkEnds` and `LoopEnds` are an operation in any of its
modes; `Sleep`, `StartWait`, `WaitEnds`, `WaitTimesOut`, `SkipOperation`, `Unresolved` and
`Terminal` the other steps; `ContinueAsNew` and `Restart` the change of Temporal runs.
Each of them ends in `_checkpoint_after_step` or `_checkpoint_during_loop`.

Data is the set of roots that resolve. History size is arbitrary, so any checkpoint may end
the run. State size is counted in recorded transitions, the part of the carried state that
handler cycles make grow.

### Runs

* `fr_flows`: 133 accepted workflows out of four families (`MCWorkflowRunner`): handlers that
  give up, rejoin or restart the flow, with a reference anywhere; loops of every mode and
  failure strategy; waits for one signal; decisions with one and with two last targets. Up to three events, two Temporal runs.
  Step calls (next section) run beside it.
* `fr_continue` (violation): the finding in `PROJECT.json`: a checkpoint inside a loop leaves by an
  exception that the handling of the step's own failures catches.

`InvocationsAreBounded`: every call once, within the limit over all runs. `OrderIsKept`: events are taken in
the order they came, the record has the order of execution. `FailuresAreHandled`: the primary failure is
on the record and, until a second failure is handled, references resolve. `RunsHandOver`: a change of runs
keeps the state, a step ends after its calls.

Bounds: four steps and a terminal are what a failure, a handler, a rejoin and a second
failure take; three items in chunks of two give a full and a cut chunk; two runs give one
change of runs at every checkpoint. `TotalInvocations` 4 and `MaxTransitions` 3 are reached.

Fairness: weak fairness of the runner's steps: Temporal schedules every workflow task, fires
every timer, and every activity and every wait has a timeout. Events and cancellation owe
nothing.

`ResolvesUntilSecondFailure` is as far as the analysis is right: `_handler_entry_available` takes what a
failing step had on the normal paths only, so the handler of a step that was itself entered from a
handler may meet missing data. When a last result branch carries both
`then` and `default` (`OnResultBranch.validate_branch` accepts it), the analysis and the handler's region follow
`then` and the runner `default`: `FailuresAreHandled` says nothing once such a decision was taken (`DecidedTwoWays`), and is
false for it (`BranchFlows` has such workflows, one of which the analysis accepts although the runner then meets a missing reference).
The names of such a branch's `default` are not validated either; the model takes them to be steps.

A condition or an evaluator of a decision may raise after the step was recorded (`"decision"` in `Succeed`), and the final
record may be refused by its contract, a size limit or the archive (`"record"` in `Terminal`). `_archive_failure` makes one
more call before a failure is raised and at most adds a secondary failure to it; it is left out.

### Proofs

Four theorems of `ExecutionProofs` are about the runner, for any declared workflows, signals, bounds and number of Temporal
runs.

* `EveryCallIsMadeOnce` (`InvocationsAreBounded`). The invariant `CallsRecorded` counts the calls against
  the invocations of the state and puts every call of the current step behind the recorded
  results or into the chunk in flight. A restored loop starts behind its results, so no attempt is
  made again.
* `OrderSurvivesRuns` (`OrderIsKept`). `EventsInPlace`: of every signal, what was accepted is what was taken,
  followed by what the continuation carries, followed by what is queued. A change of runs only
  moves the two borders; merging in the wrong order breaks it. The audit record is in order because `seq`
  goes up exactly when a step is left.
* `NothingIsLeftBehind` (`RunsHandOver`), an action property, from the first invariant: at `restart`
  the carried state is the state that was checkpointed.
* `AcceptedWorkflowsResolve` (`FailuresAreHandled`): the analysis is sound, for every accepted declaration and
  not only for four families. `Known` says what the analysis promises at a step after no failure and
  after one. It holds at the entry (`KnownAtEntry`), along every edge (`KnownAlongAnEdge`) and
  at the handler of a first failure (`KnownAtAHandler`); every way the runner leaves a step is an edge of the analysis
  (`WaysAreEdges`); and where it is known, references resolve (`KnownResolves`). `InRegion` adds
  that the executions of a handler stay in its region until they rejoin the normal flow
  (`RegionEndsInNormal`), so the primary failure is the one recorded.
  All of it holds until a decision with two last targets is taken: the runner goes where the analysis has no edge.

Every action is put into one of a few kinds first (`EveryStepIsOfAKind`: `Stays`, `GoesOn`, `Handles`, `Fails`),
which is where the type invariant `WellFormed` is kept; the other invariants follow from the kinds.

So that the analysis could be reasoned about, `Closure` and `MustAvailable` are stated by
what the loops of the code compute, the least closed set and the greatest solution of the data-flow equations. In
the code these are a worklist and one pass in topological order; on the acyclic graphs that reach the pass
its result is the only solution.

Only model-checked: `EverythingEnds`, a liveness property. The proofs about step calls are in the next section.

## Step calls

`StepCalls.tla` opens what `WorkflowRunner` takes as one call: the executor inside the workflow
(`TemporalStepExecutor`, the compiled class), the activities with their attempts, the step cache,
the publication by the queue transport and the queues of responses that an execution carries from
one Temporal run to the next. `call[x][s]` is the call execution `x` makes of step `s` with its
attempts, `signals` and `carried` its response queues and the ones in the continuation input,
`status` where the execution stands, and `last`, `heard`, `took` what the properties compare. An
attempt may be given up by its timeout and go on all the same: it publishes, stores in the cache and is answered next to its retry.
Answers come late, twice, or after the run that asked has continued as new. Steps in `Legacy` are
answered by services that know only the correlation id.

`MCExecution.tla` composes it with the runner for `fr_flows`: a behaviour is one of the runner,
whose calls are answered in any order, or one of the calls, whose callers come in any order. The
two meet in the `Invoke`/`Answer` pair of the runner, which is all the runner sees of a call.

`CallsAreAnswered`: a response answers a call of the step it names, and no response is dropped
between two runs. `ResultsAreValid`: whatever path a result came by (call, cache, queue), the
definition that uses it can; a cache entry serves only the definition that wrote it, while
its contract holds. `EverythingEnds`: every call ends, also a call with nobody left to answer it.

Bounds: one cached inline step called by executions of two definitions with different contracts, two
steps behind a queue (one of them legacy), one evaluator; one or two faults per call. Fairness: weak
fairness of the progress of a call, because activities have timeouts and retry limits and the wait
for a response has a deadline; faults, stragglers and duplicates owe nothing.

Behaviours the properties leave room for: a step that is called again in the same run (a handler that
leads back to it) has the invocation id of its first call and may take the late answer to that;
legacy keys allow the same across runs. A left-over duplicate stays queued and counts against
`queued_messages`. A queue step with a cache is never cached. A result over the size limit is retried
although no retry can make it smaller.

### Proofs

`ExecutionProofs` proves for any executions, steps, contracts, retries and limits, and any number of
faults, `ResponsesMeetTheirCalls` (`CallsAreAnswered`) and `ResultsCanBeUsed` (`ResultsAreValid`).
Neither property is inductive: what a call takes was queued by an answer long before it, maybe in another
Temporal run, and the answer was to a request that an attempt, maybe a straggler, had published. `CallInv`
follows a response along that way:

* `ServicesFit`: a published request names an earlier call of its step (`Earlier`), and a straggler is an
  attempt of one; what it is about to store meets the contract of its execution.
* `QueuesFit`: what is queued at an execution, or carried into its next run, stands under its own key, is
  of the step of the key and, unless it came under the correlation id, of the run of the key. With
  `CallsFit`, the keys a call waits under are the ones of its step and run, so what it takes is an answer
  to its step (`AcceptedResponse`).
* `Counted`: what an execution heard is what it took, has queued and carries. The proof needs that
  appending, popping and merging queues add, take and keep exactly the responses they should
  (`CountOfAppended`, `CountOfPopped`, `CountOfMerged`), counted over `QueueSlots`, the pairs of a
  key and a place in its queue.
* `CacheFits`, `ResultsFit`: a cache entry stands under the digest of the definition that made it and
  meets its contract; a result meets the contract of its execution.

Whatever waits about an earlier call stays about an earlier call: calls are numbered upwards, and no step
opens one with an old number (`Onward`). Most actions move one call and are put into one kind
(`CallMoves`) for which the undisturbed parts are shown once (`QuietMove`).

Only model-checked: `EveryCallEnds`, a liveness property.
## Drafts, publication, discard and the stores underneath

### Model

`ConfigurationStore.tla` is what a store promises one scope: a draft replaced by
compare-and-swap, revisions written once under a parent that is there, a pointer that
moves to a revision that can be read, retention of what nobody refers to. It is translated from
`sqlite.py`, where each call is one transaction under foreign keys and every revision can be
read. The AWS store promises less, and the specification says exactly what: a revision that a
cleanup of orphaned bodies met while it was created (`swept`) may be without its body, at once or
later, until another creation of it puts the body again or the cleanup ends and did no harm
(`Overlap`, `Lose`, `Restore`, which SQLite does not have). Every other revision is readable.

`ConfigurationPublication.tla` has the service calls of `publication.py` on top of the AWS
store of `aws.py`, which needs several writes for one call. `drafts` is the draft with all
its versions, `order` and `children` the revision metadata in DynamoDB with its reference
counts, `markers` the cleanup markers that occupy a metadata key, `bodies` the objects in S3,
`active` the pointer, `pubs` and `discs` the records of the activation store. `task[t]` is a
call: where it stands and the locals it carries over a store call. One action is one store
call: a publication is `Publish`, `ReadActive`, `Reserve` (and `Reopen` of a failed record),
`PutBody` and `PutMetadata` for the source and again for the resolved revision, `Complete`;
a discard is `Discard`, `CreateDiscard`, `CompareDraft`, `SwapDraft`, `CloseDiscard` or
`RejectDiscard`; retention and cleanup are `Retain`, `DropMetadata`, `LookUp`, `CheckActive`,
`AcquireMarker`, `Purge`, `Release`. `PublicationFails`, the second half of `Purge` and `Abort`
are lost answers, unavailable services and crashes at any of these points. `swept` is a history
variable: `Remember` adds a revision that is being created (its body is put, its metadata is not
written) and cleaned at the same moment, and forgets it when no cleanup is under way and the body
is there.

A revision is its kind, its content and its parent, which is what its digest is made of.
A resolved revision contains the source revision it was made from. The request digest is the
request; the actor is part of the idempotency key; the authoring policy does not change;
validation answers as it likes (`PublicationFails` is "no"). Callers name draft versions that
exist. Reads are merged into the next step where the transaction of that step checks again,
and the body that `compare_and_swap_active` reads is read in the step that moves the pointer.
Revisions are ordered by the time of their metadata write, and the index that retention scans
is up to date; a stale scan only proposes candidates that `DropMetadata` checks again.

### Runs

* `pb_calls`: two calls, one idempotency key, a scope with a published and active document and
  two documents to write. `RecordsAreTrue` (`AppliedPublishesDraft`, `DiscardRestoresActive` and
  `FailedDiscardWasStale`) and `AppliedIsFinal` are about edits and retries in the middle of a call,
  `ReferencesHold` about creation, retention and the pointer, and `ImplementsStore` says that
  the AWS store behaves as `ConfigurationStore`: as SQLite, except for revisions a cleanup met
  during their creation.

**The AWS store can lose a body.** `create_revision` puts the body (`aws.py:180`) and writes the
metadata later (`460-496`). One `cleanup_orphaned_revision_body` in between takes the marker, deletes
the body and releases the marker (`405-414`); the metadata transaction then succeeds, the
publication is applied, and reading its revision fails. SQLite cannot do that, no document
promises it, and the run reaches it with a single cleaner: with `Lose` and the unreadable
`CreateRevision` taken out of the abstract store, TLC refutes `ImplementsStore`. Two cleaners
reach it also when one takes over the other's marker.

Known and not claimed: retention keeps the active revision and parents, but the reference from a
resolved revision to its source is neither, so it may remove the document that discard and publish
read. A cleanup marker left by a crash blocks its revision until cleanup is called again.

Bounds: two calls are enough for every race the hazards name, because each is between one
call and one other step; one key makes the calls repeat each other, which is where records
can be lost. Record version 3 allows a failure and a second attempt; two draft versions before
a discard and one after; `KeepLatest` 1 and `DeleteLimit` 2 let one retention take a chain.
The constraint `Apart` runs one retention at a time, and none beside a discard, which touches
revisions in its first step only. Calls return, so the system may stop: deadlock is not checked.

### Proofs

`ConfigurationPublicationProofs` has four theorems, for any number of calls, keys and documents.

* `ReferencesAlwaysHold`: `Spec => []ReferencesHold`. The inductive invariant adds that the
  revisions are finitely many, which counting needs; `AddChild`, `DropChild` and `NoChild` are
  the facts about counting, and only `PutMetadata`, `DropMetadata` and `MoveActive` touch what
  the invariant is about.
* `ImplementsTheStore`: `Spec => ImplementsStore`. `StepWorks` shows that a step works on at most
  one revision: it puts its body, writes its metadata, drops it, begins to clean it, wipes its
  body or ends (`Works`), or it writes the draft or moves the pointer (`Writes`). The inductive
  invariant `BodiesOK` says that a cleanup that meets a creation or a revision is in
  `swept`, that everything outside `swept` has its body, and that `swept` holds nothing that is
  over and harmless. Writing metadata is then `CreateRevision`, with the body unless swept;
  a drop is `RetainRevisions` (a count of zero means no child, from `ReferencesHold`), and
  the rest is `Overlap`, `Lose`, `Restore` or nothing. It holds for any number of cleaners.

* `RecordsAreAlwaysTrue`: `Spec => []RecordsAreTrue`, and `AppliedStaysFinal`:
  `Spec => AppliedIsFinal`. The inductive invariant `Authoring` adds three things. `RecordsOK`: a
  record that exists carries a draft version and the document that version has, an applied one
  the revision or the draft it made. `TasksOK`: a call carries the document of the version it
  asked for, and a call that will write a record (`Holds`) made the same request and knows a
  version that is not newer than the record's; if nobody has written since, the record is still as
  it left it. That is what makes a compare-and-swap of the version enough to protect an applied
  record. `OrderOK` and `KindsOK`: every revision is listed once, so that a removal by `Position` takes
  exactly it, and the pointer is at a resolved one. The draft only grows, so what a
  record says of an old version stays true (`TaskStays`); `RecordsNext` has one lemma per action.


## Message delivery and admission of starts

### Model

`StartAdmission.tla` has the checks of `WorkflowStarter._start` in their order as operators
(scope, binding, definition, source, input), with the admission of webhooks and cloud events in
front of them. They are pure; the modules that start workflows extend this one.

`MessageDelivery.tla` is one process that consumes one SQS queue in one of two lanes: triggers,
which start workflows, or responses, which signal them. `queue` is SQS with its receive counts,
`dead` the dead-letter queue, `task[m]` the handler of a message with what it read before its
last await, `entries` and `pending` the duplicate memory of the relay, `run` and `landed` what
reached Temporal, `loop`, `running`, `ready`, `reported`, `failures` and `baseDelay` the poll
loop of the consumer. `Receive` and `ReceiveFails` are a poll, `Handle(m)` the steps of a handler
(admission, start or signal, settlement, dead letter, delete), each of which may fail before or
after its effect; `Expire` drops the oldest entry of the memory (the retention is constant
and entries are in the order of their completion, so that the oldest is always the first to expire); `Stop` and `Restart` come at any time;
`ChangeRegistration` replaces the definition behind a workflow. `landed` and `excuse` are history:
how often an identity took effect, and how often the relay could not know that it had.

### Run

`md_delivery`: two messages that are copies of one envelope, requests for one business id under
different definitions, or unrelated messages of which one cannot be handled in one of the ways the
consumers tell apart, or whose identity an execution of another scope has. `MessagesAreSafe`: what left the queue took effect or is a dead letter, and
every run was asked for by a message that is well formed, in the scope of the consumer, and passes
the checks of the starter. `DuplicateMemoryHolds`: a response signals once, plus once
for every delivery the relay could not know of; a claim is not freed by a handler that lost it; the
memory keeps its bound. `ConsumerTellsTheTruth`: a consumer reports ready only while its polls
succeed, and its reconnect delay follows its failures. `EveryMessageLeaves`: no message circulates
for ever while the process runs, but for one whose exception escapes its handler (below), and such a
message keeps no other from leaving.

Bounds: two messages are a message and its copy; two delivery attempts reach exhaustion; a memory of
one entry is full at once; `MaxFaults` 2 lets a message fail at a call and again at its settlement.
Fairness: a handler's coroutine runs when it can; SQS hands out again what was not deleted (strong
fairness of receiving each message); the loop's own steps are weakly fair. Failures, `Stop` and
expiry owe nothing, and failures are bounded.

What the code does not promise, and the model shows: a redelivered trigger whose definition was
replaced since its first attempt may end as a dead letter although its workflow runs.

And some messages are never settled. `StartWorkflowRequest` is stricter than the envelope
(`starter.py:168-181` against `message_contract.py:99-103`), and the `ValidationError` of its
construction at `trigger_ingress.py:231` is not among what line 249 catches; `json.loads` of a deeply
nested response raises `RecursionError`, and of a huge integer `ValueError`, at `response_relay.py:182`, past the handler of line
193. `_poll_once` only logs what its handlers raised (`trigger_ingress.py:148-157`). Bodies of the
kind "escapes" stand for these: their handling ends without a settlement, so that SQS hands them out
again and again until its own redrive policy, which is outside the repository, removes them. The dead
letter after `max_delivery_attempts` that the consumers write themselves is never reached. `EveryMessageLeaves` is
therefore stated for the messages that do not escape, while the model has one that does next to them.

### Proofs

`MessageDeliveryProofs.tla` proves, for any number of messages, identities, attempts and faults and any capacity,
`MessagesAreSafe` (theorem `MessagesSafe`), `DuplicateMemoryHolds` (`DuplicatesRemembered`) and
`ConsumerTellsTheTruth` (`ConsumersTellTheTruth`). The inductive invariant has three parts.
`Typed`: `TypeOK`, the poll loop, and the registry as one of its two forms. `Settled`: a handler that is about to
acknowledge belongs to a message that took effect, one past its dead letter has it in the dead-letter queue,
a message that is gone has either. `Memory`: an entry and a claim exclude each other, entries do not repeat,
their number with that of the claims is at most the capacity, and the signals of an identity are
counted against what the memory still knows: its entry, its claim by a handler that already delivered, and
`excuse`. The counting is what makes `OneSignalPerRememberedId` inductive: eviction, expiry, `Stop`
and a call that failed after its effect each move one unit from memory to `excuse`.

`DelayFollowsFailures` compares the delay, which every failure multiplies and caps, with the recursive
function `Grown` of the number of failures, which is never capped. The invariant needs that what has
reached the cap stays there (`Grown` never falls, since the multiplier is at least one and the initial
delay at most the maximum, as `ConsumerReconnectSettings` has them), and that `Grown` unfolds for every
number: both by an induction over the naturals, which `ByInduction` derives from the least element
of the set of counterexamples (`WFMin`).

## Control plane

`ControlPlane.tla` puts seven modules side by side. They share no variable that two of them write,
so a behaviour explores the interleavings inside one (the variable `component` says which) while the
others rest in a first state of theirs; `cp_control` starts one behaviour for each. `MCControlPlane.tla`
has the small instances.

* `ControlApi.tla`: an HTTP request from arrival to answer. It is routed, authenticated, authorized,
  read, performed and answered with an await between any two, so that requests interleave and the
  host's policy changes between them. Each operation of `control_api.py`, `configuration_api.py` and
  `operations_api.py` is an action: starts, events, webhooks, signals, cancel and terminate, lists,
  triggers, scheduled starts, drafts, publication, activation, queries. A call has an effect in a
  scope or none, and its answer may be lost, too large, or a refusal. `work` and `slots` are the
  bounded threads of `run_blocking`.
* `OperationsQuery.tla`: paged lists of workflows and definitions and the detail of a workflow with its
  descendants, over a catalog that changes between two pages. The
  descendants it compares with are the least set closed under children.
* `ScheduledStartList.tla`: the list of scheduled starts, whose cursor is an offset in a page of
  Temporal that may lose or gain entries before it is fetched again.
* `ManagedSchedules.tla`: releases that reconcile the declared schedules, in the service and from the
  command line; operators that pause, resume, run, backfill and delete; the dispatch of an occurrence.
  Every RPC is a step that may fail before or after its effect, and the updater's description may be
  stale when its result is written.
* `DefinitionCatalog.tla`: publish, import and load over files and over S3, file operation by file
  operation, with crashes.
* `ObjectEvents.tla`: a workflow started by objects in S3 that writes objects itself, for every pair
  of filters a mapping accepts.
* `DeploymentRouting.tla`: hosts of two releases that start pinned executions, and the assessment that
  must tell whether a deployment or a definition can be retired while executions start, continue as
  new and end. The listing is lazy (`ListOpen`): a page is fetched when the one before was described
  (`DescribeOpen`), and the index it reads lags behind the executions.

What `cp_control` shows. `AccessIsAuthorized`: what was done or shown was allowed by the provider, in
the scope it was done in. `RequestsHaveOneEffect`: what was accepted exists once; what was refused did
nothing, unless it pauses or resumes a schedule, activates, or reaches an execution (`RefusedLate`, see
below); and a cancelled request gives its thread back when the thread ends and not before.
`ListsAreComplete`: a list of workflows read to its end is the list as it was at the first page,
a list of definitions misses none (it may repeat one), all descendants are shown, and a walk through
the scheduled starts misses at most as many as were removed meanwhile. `TriggersAreSafe`: the
target of a schedule is retained before it can fire, an occurrence starts one run, an apply without
failures has converged, a backfill of an interval schedule keeps its bound, and no object a workflow writes starts it.
`DefinitionsAreAvailable`: an alias names a complete manifest, a load finds it, no S3 alias document
is overwritten unseen, and retirement strands no execution that visibility showed when the listing began
and that did not continue as new before a page had it.
`OthersAreLeftAlone`: schedules of others, operators' pauses (by a repeated reconciliation) and the
aliases an import finds are kept.

Bounds: two requests, or one request and a policy change, or one fault; one schedule, two releases,
one operator and one fault over twelve states of Temporal they may find; two catalog callers; four
scheduled starts in pages of one or two; two executions of two runs each, listed in pages of one, for one choice of
the schedules' pins. Each is two actors and a
third thing that happens between their steps. No liveness is claimed; an idle control plane is idle,
so deadlock is not checked.

Deviations found and not claimed away:

* The updater of a reconciliation writes the declared pause state, so an update with a *changed*
  declaration lifts an operator's pause, although `docs/authoring/triggers.md:72` says "Pause state is
  preserved as operator state across reconciliation." `PauseOutlivesRepeats` is what does hold.
* `trigger_apply` is announced as a capability to hosts of a non-local scope, where applying is a 403.
* A list over the local scope becomes a 503 once an execution of a foreign scope is in the namespace.
* An intra-page cursor skips an entry for each earlier one that was removed; a page that shrank
  below the offset makes the cursor an invalid request; a start deleted between list and describe fails
  its page as unavailable.
* Some refusals have an effect (`RefusedLate`). Pausing and resuming describe the schedule once more after
  the mutation (`schedule_operations.py:297`, `:311`), and what that describe raises, a schedule unknown or
  of somebody else by now, is answered although the pause took effect. An activation that fails with the
  lease held by another, a stale plan or an internal error is refused although its record exists, which a
  repeated request finds. A signal, cancel or terminate that the SDK repeats after a lost answer may find
  the execution gone the second time, and is answered not found. A `ValueError` that becomes a 422
  (`control_api.py:728`, `:784`, `:1069`) is raised before the effect. The conflict of a scheduled start's
  creation would be one more only if another program rewrote the schedule just created, which is not modelled.
* The assessment before a retirement reads pages of an index that lags behind, with describes in between
  (`routing.py:322`). An execution that continues as new before its page is fetched, its old run closed
  and its new run ahead of the listing, is in no page; nor is one the index does not show yet, nor a start that begins
  after the listing on a host whose router still has the old deployment active. Each of the three is
  stranded by the retirement that follows; `DefinitionsAreAvailable` is about all others.
* A backfill is bounded by counting the occurrences of interval specs only
  (`schedule_operations.py:631-637`); one of a calendar or cron spec is not bounded, and `BackfillIsBounded` does not speak of it.
* The dispatch of an occurrence finds the trigger in the catalog its worker has in memory. The model
  looks it up in the snapshots retained at that moment; a worker that has not loaded a new one yet is left out.
* An S3 mapping is compared with the destinations of its own workflow only; a loop over two mappings is
  not refused.
* A crash in the middle of a local manifest write leaves a torn file that makes every load fail, and
  the local compare-and-swap loses an alias document to a concurrent publisher: `NoLostAliases` is about S3.

What is proved of it: `ControlPlaneProofs` shows the six properties for any clients, policies, requests,
readers, scenarios, callers, filters, deployments and numbers of faults: `AccessIsAuthorized`
(`EffectsAreAuthorized`), `RequestsHaveOneEffect` (`EffectsAreSingle`), `ListsAreComplete`
(`ListsStayComplete`), `TriggersAreSafe`
(`TriggersStaySafe`), `DefinitionsAreAvailable` (`DefinitionsStayAvailable`) and the action property
`OthersAreLeftAlone` (`StepsLeaveOthersAlone`). All follow from one invariant, `ControlPlaneInv`, the
conjunction of seven (`ControlPlaneIsSound`): a step of one component leaves the variables of the others
alone, so each has to be kept by the steps of its own component only. None of the properties is
inductive; the seven invariants add why they hold.

* `ApiInv`: what a request may rely on in each phase. One that reads or performs has a permission in
  `granted` for its action in its scope (a webhook has its signature instead), an effect carries the
  identity its request asked for (`Identity`), so that two requests with one effect asked for the same,
  and only a request that was answered or cancelled has one; `slots` and the threads of `work`, those of
  cancelled requests included, add up to `BlockingSlots`.
* `QueriesInv`: where a cursor stands. One of workflows stands in the list of the first page, which the
  aliases it carries still determine; one of definitions stands in the list as it is now, and what was
  there at the first page and is before the offset was shown: manifests are only added, so what was
  before the offset never moves behind it (`PlacesGrow`). While children are
  looked at, a child of what was shown is shown or pending (`Shows`).
* `ListInv`: where a walk stands (`StandsAt`): after a token and the first `n` starts of the page behind
  it, as it was when it was fetched. What is behind the walk and was not shown is counted against
  what was removed outside those `n`: only a start removed from the page moves a later one in
  front of the offset when the page is fetched again.
* `SchedulesInv`: a schedule of the program names a digest in `snapshots`; what a reconciler described
  and what an operator checked is still a schedule of the program, or gone, because every write leaves
  one of the program (`Evolves`). As long as a reconciler is `alone` and no item failed, every id is still an item
  of its plan or settled: as observed, as wanted, or gone (`PlanOK`, `Settled`). The plan itself has an item
  for each id it changes (`ChangesPlanned`).
* `CatalogInv`: what each call relies on at the point it has reached: after the first read of a load, that
  the aliases it read have their manifests; while it creates, that what is missing of its document is
  still in `todo`; from the swap on, that its manifests are all complete; in front of the rename, that the
  store is one of files; for an import, that its document agrees with its base. Manifests only become
  complete (`MoreStored`), so no step of another call takes any of this away.
* `RoutingInv`: an execution the assessment knows of (`known`) and that needs the subject is still due to be
  listed, on the page at hand, or among what was found (`Seen`); ids are those of executions that exist.
* `ObjectsInv`: the mapping was accepted. The rest is about sequences: two filters that match one key
  overlap, because of two prefixes (suffixes) of one key the shorter is a prefix (suffix) of the longer
  (`BothMatch`).

The assumptions, which TLC evaluates in `cp_control`: calls ask for documents over the workflows and
digests, and what is assessed are deployments and definitions; webhooks have one of the outcomes the
adapter distinguishes; the authored names do not contain the word for "no name", operators and
reconcilers are different calls, and a schedule a behaviour begins with, if there is one, is a record
with a digest; keys and filters are sequences of letters; names and page sizes are positive,
what a list is sorted from is finite, and the children of a definition are definitions; and there is a
first state to rest in.

Sorted lists are chosen (`InOrder`, `Ascending`): the increasing function from `1..n` to the set. That
there is one for every finite set is proved by induction over the naturals
(`ListExists`, `ByInduction`).

## Process lifecycle

`HostLifecycle.tla` is one process of any of four shapes: a gateway, a worker, both, or `run_engine`.
All of it runs in one asyncio loop, so an action is what one coroutine does between two awaits, and
what is awaited succeeds or fails. `engine`, `gateway` and `app` are the three coroutines with their
program counters, `loader` the ordered load of resources and its unwinding, `consumers` the message
consumers of each owner, `open` everything that is open and to whom it belongs, `health` the registry.
`EngineStep`, `GatewayStep` and `AppStep` gather the steps of each; `HostEvent` is a shutdown, the death
of a worker task, a consumer that loses or regains its connection.

`hl_host` runs the four shapes over resource declarations in a chain and a diamond, with a cycle and with
a missing capability. `ShutdownIsOrderly`: when shutdown has run to its end nothing is open; a resource
is closed after what depends on it; consumers poll only while their broker is open; a stopped engine is
never reported ready. `HostProgresses`: start-up ends up, down or failed, and a worker task that dies
is noticed for good. Fairness: the loop runs what is ready, and the waits for a route and for readiness
are bounded in the code. `LoadOrders` are the orders in which every resource follows what it needs. The
depth-first walk of the code is in `ResourceOrder`, and an assumption of `MCHostLifecycle` has TLC compare the
two over every dependency relation on three names, listed in either order: the walk finds one of the
orders, or a cycle exactly when there is none. Bounds: two route attempts (one in the
combined process, whose two lifecycles interleave), one endpoint, three resources.

The exceptions the invariants name are behaviours of the code. `gather` does not cancel
`gateway.start` when its sibling fails, so a gateway may start consumers after the shutdown
(`gateway.overtaken`). A cleanup of the gateway that fails skips `worker.stop` and leaves health as it
was (`app.skipped`); a cleanup of the engine that fails skips cancelling its task. Unwinding a failed
load and a stop may close resources at the same time (`loader.overlapped`). A worker application whose
start-up failed is not shut down.

### Proofs

`HostLifecycleProofs` proves `HostIsOrderly` (`ShutdownIsOrderly`, five invariants) for any shape of process,
any plan of resources, any endpoints, stores and number of route attempts. None of the five is inductive. The
invariant `HostInv` rests on two ideas.

* What is open is what some owner still has to close: `OpenIsHeld` equates `open` with the exit stacks of the
  gateway, the engine and the loader and what each is closing. Opening and registering happen between the
  same two awaits; without the equation nothing relates `open` to the coroutines.
* An order of closing is a fact about stacks: whatever is registered has what it needs registered below it
  (`BelowIn`). Pushing keeps that if what is needed is there (`PushKeeps`), popping the top keeps it
  always (`PopKeeps`). For the loader the needs are the declared dependencies and `LoadOrders` says
  they are there; for consumers it is the broker.

The rest follows the program counters. `EngineSound` says what the engine owns at each await of `start`, and who
holds its stop: `start` in its `finally`, or the application, which got there through a signal. `LoaderSound` says
when the unwinding of a failed load can meet the stop, `GatewaySound` when the gateway's start can overtake
its stop, `AppSound` and the ties between them how far the others are when the application is at each step of
its shutdown. `ConsumersSound` has every polling consumer registered, and `HealthSound` what the end of a stop marked,
which nothing marks ready again. Each action is shown to keep all of it (one lemma per action).
The exceptions above are part of the statement: an overtaken gateway, a skipped stop, an overlapped
unwinding. `HostProgresses` is liveness and stays with TLC.

## Local authoring and validation

`LocalAuthoring.tla` is the console that edits the configuration directory itself. A request runs without
awaiting, so requests follow one another, but a save writes file by file: between two system calls
the process may die, a call may fail, or somebody may edit a file. `files`, `triggers` and `temporary`
are the directory, `aliases` the catalog, `startup` and `records` what dies with the process, `save` a
save with what it has still to write, `seen[c]` what a client has read. Each route is an action; a save
is `MakeTemporary`, the replacement, the removal of files that are gone, the trigger file and the
publication of definitions.

`WorkflowValidation.tla` is `ConfigValidator` phase by phase: the rules of a workflow, what a JSON schema
says of a path (`InspectSchemaPath`), and the manifests that publication builds afterwards. The outcome
is compared with how the engine resolves references (`engine/references.py`, `data.py`,
`_store_output`). `MCAuthoring.tla` runs the two next to each other.

A workflow has one of four contents: valid, invalid, one whose file the loader refuses (`Unloadable`), and
one that makes the whole configuration exceed a bound (`Unbounded`). The reader's rules are thus modelled
by which error they raise (`BundleError`, `ReadError`) and not one by one.

`la_files`: an author and a viewer, three saves, one fault, two starting directories; and validation of an
accepted configuration under every pair of thirty-seven edits, and of eight paths in all schemas of
depth two. `DirectoryIsSound`: at every moment of an undisturbed save each file is old or new; what is
published is valid; a viewer changes nothing; the relationships shown tell when a restart is needed.
`SavesAreDone`: a save that ended is on disk exactly as asked, whatever its answer, and the directory
can be read if and only if its document is one the reader accepts; a discard is done once. `ValidationIsSound`:
an error rejects even when the bounded report is full; what is accepted can be built into manifests;
an accepted reference to an aliased output or a parameter can resolve; the verdict on a path agrees with the instances of the schema.

Behaviours of the code that the properties leave room for:

* Saving away the last workflow leaves a directory the loader refuses, as does a crash
  between the creation of a temporary file and its rename, or between the removal of a workflow and the
  trigger file that named it. The error is caught by no handler, and no restart succeeds.
* The model of a draft is laxer than the reader of what it becomes. A document with, say, a parameter
  called `token` (`configuration/models.py:113-123`, `591-602`), or one larger or deeper than
  the loader's limits (`loader.py:29-34`, against 2 MiB in a save) is written to the directory. Without
  a catalog the save is answered 200, and nothing can read the directory afterwards: no
  later request, no restart. With a catalog it is answered 422 or 500 (`local_authoring.py:498`, `:511-523`)
  *after* its files were written. The docstring of `_publish_definitions` says "Invalid drafts save without
  publishing", which holds for the errors a validation reports and not for these.
* A new workflow is written to `<name>.yaml` even if that file declares another workflow, which is lost.
* A discard whose save failed leaves its record pending, and every repetition is a conflict.
* A save by an editor publishes definitions and aliases without the right to apply.
* For a step without an output alias the validator inspects `{name: schema}` and the engine stores the
  bare result: it rejects `fetch.field`, which would resolve, and accepts `fetch.fetch.field`.
* More than `MAX_DIAGNOSTICS` warnings turn a valid configuration invalid.
* Agreement of validator and engine is claimed for aliased outputs and parameters only, for the reason above.
* Open objects with declared properties, union types and untyped schemas make the path inspection
  refuse paths that valid instances have: verdicts are sound, not complete.

### Proofs

`LocalAuthoringProofs` proves `DirectoryAlwaysSound` (`DirectoryIsSound`) and `SavesAreAlwaysDone`
(`SavesAreDone`) for any workflows, triggers, clients, rights and directories, and any number of saves and
faults. `AuthoringInv` adds to the types what the properties cannot do without:

* `OnItsWay`: of a save that nobody disturbs, each workflow it is about has a file of its own, which
  holds the old declaration while its write or unlink is pending and the new one from then on, and no other
  file is there. That a save begins so (`PathsBegin`) rests on what the loader refuses, two declarations
  of one workflow, and on the absence of a clash of file names. Each step moves one workflow from
  old to new (`FileDone`). With nothing pending the directory is the document, readable if and only if the document is
  `Acceptable` (`Finished`), and the answer tells what publishing found (`FinishIsTold`); a temporary file left behind means that a write is pending.
* `SaveFits`: the save is of a client that may change something, and the record it will end is pending.

"Nobody disturbs" (`disturbed`) excludes edits by others, failed writes, crashes, the clash of file names and the
document without workflows; for each of these the property is false, see above.

The operations of a save are a set with an order (`Persisted`, `Precedes`): writes, then removals, both by name,
then the triggers. `ValidationIsSound` stays with TLC, since validation recurses over schemas.

## What is proved and what is only checked

Proved with TLAPS for all values of the constants: the theorems of the sections on scheduled starts,
configuration activation, publication, message delivery, the workflow runner, step calls, the control
plane, the process lifecycle and local authoring. Everything else is checked by TLC on the
bounds above. What stays with TLC:

* liveness (`EverythingSettles`, `EverythingEnds`, `EveryMessageLeaves`, `HostProgresses`): out of the
  prover's reach;
* `ValidationIsSound`: what validation computes is defined by `RECURSIVE` operators over nested schemas and
  flows, and one of its parts (`AcceptedReferencesCanResolve`) asks for a value among those of an instance.

Of the properties of the passing runs these are the ones without a theorem. Recursive functions over the
naturals are within reach: `WFMin`, the least element of a set, gives induction over a set, where the
library's induction theorems take a predicate.

## Not modelled

* Configuration documents and settings (`config/models.py`, `settings.py`, `loader.py` beyond what a load
  refuses): field checks without state, whose behaviour is that of pydantic on one document.
* Expression evaluation, data conversion, encryption, archival, audit formatting: values are abstracted
  to what a property tells apart.
* Transports other than the queue, and resource providers: one call each to a third-party client. Broker
  adapters other than SQS implement the same interface.
* The DynamoDB activation store (the same conditional writes as the SQLite one) and the materializer.
* Generators (OpenAPI, JSON schema, diagrams), the command line, provenance, the browser console and its
  package: formatting and I/O.
* The quota of pending scheduled starts, and the re-creation of an identity after cleanup while old
  arbiters are retained: both depend on Temporal's retention and index lag, which the code does not control.

## Plan

Built: everything in the table of modules. Next, in this order:

1. Environment snapshots as a component of their own.
2. `ValidationIsSound`, once schemas and flows are walked by recursive functions over a set of paths instead
   of recursive operators.
