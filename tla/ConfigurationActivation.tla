----------------------- MODULE ConfigurationActivation -----------------------
(***************************************************************************)
(* Resumable configuration activation                                      *)
(* (src/justflow/runtime/configuration_activation.py and                   *)
(* src/justflow/configuration/activation.py, activation_store.py,          *)
(* activation_sqlite.py), in one runtime scope.                            *)
(*                                                                         *)
(* Controller processes run tasks; a task is one call of activate, resume, *)
(* register_readiness or rollback.  A task walks the stages of resume with *)
(* a local copy of the activation record.  Every write of the record is    *)
(* conditional on the version of the copy; everything else a stage touches *)
(* (catalog, schedules, worker routing, active pointer, runtime index) is  *)
(* shared by all activations.  Tasks interleave at every call that leaves  *)
(* the process; processes crash and leases expire at any time.             *)
(*                                                                         *)
(* Abstractions.  A revision is told apart by what it asks of the catalog  *)
(* (Workflows) and of Temporal (Schedules).  An alias version is the alias *)
(* content: both catalog backends derive it from the bytes stored.  A read *)
(* followed at once by a conditional write is one step, since losing the   *)
(* race in between ends the task just as Abort does.                       *)
(***************************************************************************)
EXTENDS Integers, FiniteSets

CONSTANTS
    Activations,   \* activation identities: one per idempotency key
    Revisions,     \* published revisions
    NoRevision,    \* no revision, in the pointer or in an index
    NoActivation,  \* the rollback_of of an activation that is no rollback
    Workflows,     \* Workflows[r]: the definitions, hence the aliases, of r
    Schedules,     \* Schedules[r]: the schedules r declares
    First,         \* the revision active in the beginning, or NoRevision
    Processes,     \* controller processes, each with its own runtime index
    NoProcess,     \* the owner of a lease nobody holds
    Tasks,         \* concurrent calls
    ProcessOf,     \* ProcessOf[t]: the process that runs task t
    HasBinding,    \* is a worker binding configured?
    MaxHistory,    \* MAX_ACTIVATION_HISTORY
    MaxVersion     \* bound: records of a higher version are not resumed

ASSUME ActivationConstants ==
    /\ NoRevision \notin Revisions
    /\ NoActivation \notin Activations
    /\ NoProcess \notin Processes
    /\ First \in Revisions \cup {NoRevision}
    /\ ProcessOf \in [Tasks -> Processes]
    /\ Revisions \subseteq DOMAIN Workflows
    /\ Revisions \subseteq DOMAIN Schedules
    /\ HasBinding \in BOOLEAN
    /\ MaxHistory \in Nat
    /\ MaxVersion \in Nat

VARIABLES
    acts,       \* the activation store
    expired,    \* activations whose lease has run out
    overtaken,  \* activations whose lease was lost by a call at work (history)
    pointer,    \* the active pointer of the configuration store
    aliases,    \* the aliases of the definition catalog
    objects,    \* definitions stored in the catalog
    schedules,  \* the schedules reconciled in Temporal
    rolled,     \* revisions whose workers were rolled out
    routed,     \* the revision worker routing points to
    index,      \* index[p]: the revision in the runtime index of p
    task        \* task[t]: where the call stands and its copy of the record

shared == <<pointer, aliases, objects, schedules, rolled, routed, index>>
vars == <<acts, expired, overtaken, shared, task>>

Stages == {"definitions", "rollout", "readiness", "schedules", "catalog",
           "routing", "pointer", "index"}
States == {"none", "pending", "running", "waiting", "applied", "failed",
           "superseded", "rolled_back"}
Final  == {"applied", "superseded", "rolled_back"}

\* The stage that follows in resume.
After == [prepare |-> "definitions", definitions |-> "rollout",
          rollout |-> "readiness", readiness |-> "schedules",
          schedules |-> "catalog", catalog |-> "routing", routing |-> "pointer",
          pointer |-> "index", index |-> "apply"]

Revs == Revisions \cup {NoRevision}
WorkflowsOf(r) == IF r = NoRevision THEN NoRevision ELSE Workflows[r]
SchedulesOf(r) == IF r = NoRevision THEN NoRevision ELSE Schedules[r]
AliasValues    == {WorkflowsOf(r) : r \in Revs}
ScheduleValues == {SchedulesOf(r) : r \in Revs}

Records ==
    [state : States, version : Nat, transitions : Nat,
     checkpoints : SUBSET Stages, lease_owner : Processes \cup {NoProcess},
     worker_readiness : BOOLEAN,
     rollback_of : Activations \cup {NoActivation},
     target : Revs, expected_revision : Revs, expected_version : Nat,
     expected_aliases : AliasValues, worker_action : BOOLEAN,
     definition_action : BOOLEAN, routing_action : BOOLEAN,
     schedule_action : BOOLEAN]

NoRecord ==
    [state |-> "none", version |-> 0, transitions |-> 0, checkpoints |-> {},
     lease_owner |-> NoProcess, worker_readiness |-> FALSE,
     rollback_of |-> NoActivation, target |-> NoRevision,
     expected_revision |-> NoRevision, expected_version |-> 0,
     expected_aliases |-> WorkflowsOf(NoRevision), worker_action |-> FALSE,
     definition_action |-> FALSE, routing_action |-> FALSE,
     schedule_action |-> FALSE]

\* What a task remembers of the activation it rolls back.
NoOriginal == [act |-> NoActivation, version |-> 0]

Idle == [pc |-> "idle", step |-> "do", act |-> NoActivation, rec |-> NoRecord,
         orig |-> NoOriginal]

TaskStates ==
    [pc : Stages \cup {"idle", "plan", "acquire", "start", "waiting", "prepare",
                       "apply", "mark", "failing", "superseding"},
     step : {"do", "swap", "note"}, act : Activations \cup {NoActivation},
     rec : Records,
     orig : [act : Activations \cup {NoActivation}, version : Nat]]

Init ==
    /\ acts = [a \in Activations |-> NoRecord]
    /\ expired = {}
    /\ overtaken = {}
    /\ pointer = [revision |-> First, version |-> IF First = NoRevision THEN 0 ELSE 1]
    /\ aliases = WorkflowsOf(First)
    /\ objects = {WorkflowsOf(First)} \ {NoRevision}
    /\ schedules = SchedulesOf(First)
    /\ rolled = {First} \ {NoRevision}
    /\ routed = First
    /\ index = [p \in Processes |-> First]
    /\ task = [t \in Tasks |-> Idle]

(***************************************************************************)
(* Writing the record.                                                     *)
(***************************************************************************)
SetTask(t, value) == task' = [task EXCEPT ![t] = value]

Goto(t, pc) == SetTask(t, [task[t] EXCEPT !.pc = pc, !.step = "do"])

\* Mutant: the record is replaced whatever its version.
MutUnconditionalUpdate(t, rec, pc) ==
    /\ acts' = [acts EXCEPT ![task[t].act] = rec]
    /\ SetTask(t, IF pc = "idle" THEN Idle
                  ELSE [task[t] EXCEPT !.rec = rec, !.pc = pc, !.step = "do"])

\* update_activation: conditional on the version of the task's copy.  A task
\* that lost the race ends with ActivationConflictError and keeps its lease.
Update(t, rec, pc) ==
    LET a == task[t].act IN
    IF acts[a].version = task[t].rec.version
    THEN /\ acts' = [acts EXCEPT ![a] = rec]
         /\ SetTask(t, IF pc = "idle" THEN Idle
                       ELSE [task[t] EXCEPT !.rec = rec, !.pc = pc, !.step = "do"])
    ELSE UNCHANGED acts /\ SetTask(t, Idle)

Allowed == [none |-> {}, pending |-> {"running", "superseded"},
            running |-> {"waiting", "applied", "failed", "superseded", "rolled_back"},
            waiting |-> {"running", "failed", "superseded"},
            failed |-> {"running", "superseded"},
            applied |-> {"rolled_back"}, superseded |-> {}, rolled_back |-> {}]

\* transition_activation raises no ValueError.
MayTransition(rec, state) ==
    state \in Allowed[rec.state] /\ rec.transitions < MaxHistory

transition_activation(rec, state) ==
    [rec EXCEPT !.state = state, !.version = @ + 1, !.transitions = @ + 1]

release_lease(rec) == [rec EXCEPT !.lease_owner = NoProcess]

record_activation_checkpoint(rec, kind) ==
    [rec EXCEPT !.checkpoints = @ \cup {kind}, !.version = @ + 1]

register_worker_readiness(rec) ==
    [rec EXCEPT !.worker_readiness = TRUE, !.version = @ + 1]

acquire_activation_lease(rec, owner) ==
    [rec EXCEPT !.lease_owner = owner, !.version = @ + 1]

\* A call returns, or ends with an error: the task is free for the next call.
\* What a rollback does after an applied activation is still to come.
Return(t, state) ==
    IF state = "applied" /\ task[t].orig # NoOriginal
    THEN SetTask(t, [Idle EXCEPT !.pc = "mark", !.orig = task[t].orig])
    ELSE SetTask(t, Idle)

(***************************************************************************)
(* activate: plan, then create the record.                                 *)
(***************************************************************************)
\* plan reads the active pointer first.
PlanPointer(t, a, r, orig) ==
    SetTask(t, [Idle EXCEPT
        !.pc = "plan", !.act = a, !.orig = orig,
        !.rec = [NoRecord EXCEPT
            !.target = r, !.rollback_of = orig.act,
            !.expected_revision = pointer.revision,
            !.expected_version = pointer.version]])

Activate(t, a, r) ==
    /\ task[t].pc = "idle"
    /\ acts[a] = NoRecord
    /\ PlanPointer(t, a, r, NoOriginal)
    /\ UNCHANGED <<acts, expired, overtaken, shared>>

\* Mutant: rolling back activates the same revision again.
MutRollbackToItself(t, a, b) ==
    /\ task[t].pc = "idle"
    /\ acts[b].state = "applied"
    /\ acts[a] = NoRecord
    /\ PlanPointer(t, a, acts[b].target, [act |-> b, version |-> acts[b].version])
    /\ UNCHANGED <<acts, expired, overtaken, shared>>

\* rollback of b: the retained predecessor becomes the target.  A repeated
\* rollback finds its activation and resumes it.
Rollback(t, a, b) ==
    LET orig == [act |-> b, version |-> acts[b].version] IN
    /\ task[t].pc = "idle"
    /\ acts[b].state \in {"applied", "rolled_back"}
    /\ acts[b].expected_revision # NoRevision
    /\ \/ acts[a] = NoRecord
          /\ PlanPointer(t, a, acts[b].expected_revision,
                         IF acts[b].state = "applied" THEN orig
                         ELSE [NoOriginal EXCEPT !.act = b])
       \/ acts[a].rollback_of = b /\ acts[b].state = "applied"
          /\ acts[a].version < MaxVersion
          /\ SetTask(t, [Idle EXCEPT !.pc = "acquire", !.act = a, !.orig = orig])
    /\ UNCHANGED <<acts, expired, overtaken, shared>>

\* Definitions the workers are known to serve.
Registered(p) ==
    {WorkflowsOf(r) : r \in IF HasBinding THEN rolled ELSE {index[p]} \ {NoRevision}}

\* plan reads the rest and plan_configuration_activation derives the actions
\* from it, relative to the revision that was active; create_activation stores
\* the record unless the identity was taken meanwhile.
PlanActions(rec, p) ==
    LET from == rec.expected_revision
        unserved == WorkflowsOf(rec.target) \notin Registered(p)
        changed == WorkflowsOf(rec.target) # WorkflowsOf(from)
    IN  [rec EXCEPT
           !.state = "pending", !.version = 1,
           !.expected_aliases = aliases,
           !.worker_action = unserved \/ changed \/ index[p] # from \/ from = NoRevision,
           !.definition_action = unserved \/ changed,
           !.schedule_action = SchedulesOf(rec.target) # SchedulesOf(from),
           !.routing_action = rec.target # from]

Create(t) ==
    LET a == task[t].act
        rec == PlanActions(task[t].rec, ProcessOf[t])
    IN  /\ task[t].pc = "plan"
        /\ IF acts[a] = NoRecord
           THEN /\ acts' = [acts EXCEPT ![a] = rec]
                /\ SetTask(t, [task[t] EXCEPT !.pc = "acquire", !.rec = NoRecord])
           ELSE UNCHANGED acts /\ SetTask(t, Idle)
        /\ UNCHANGED <<expired, overtaken, shared>>

(***************************************************************************)
(* resume: read, take the lease, start.                                    *)
(***************************************************************************)
Resume(t, a) ==
    /\ task[t].pc = "idle"
    /\ acts[a] # NoRecord
    /\ acts[a].version < MaxVersion
    /\ SetTask(t, [Idle EXCEPT !.pc = "acquire", !.act = a])
    /\ UNCHANGED <<acts, expired, overtaken, shared>>

\* register_readiness: the workers' host reports, with or without a lease,
\* and resumes the activation.
RegisterReadiness(t, a) ==
    /\ task[t].pc = "idle"
    /\ acts[a] # NoRecord
    /\ acts[a].version < MaxVersion
    /\ ~acts[a].worker_readiness
    /\ acts' = [acts EXCEPT ![a] = register_worker_readiness(@)]
    /\ SetTask(t, [Idle EXCEPT !.pc = "acquire", !.act = a])
    /\ UNCHANGED <<expired, overtaken, shared>>

\* Mutant: a lease held by another controller is not respected.
MutNoLease(a, p) == acts[a].state # "none"

\* The lease belongs to a controller, not to a call: another call of the same
\* controller takes it from a call at work.
LeaseFree(a, p) == acts[a].lease_owner \in {NoProcess, p} \/ a \in expired

\* A call of process p is past the lease of a.
AtWork(t, a, p) ==
    task[t].act = a /\ task[t].pc \notin {"plan", "acquire"} /\ ProcessOf[t] = p

Acquire(t) ==
    LET a == task[t].act
        leased == acquire_activation_lease(acts[a], ProcessOf[t])
    IN  /\ task[t].pc = "acquire"
        /\ \/ /\ acts[a].state \in Final
              /\ Return(t, acts[a].state)
              /\ UNCHANGED <<acts, expired, overtaken>>
           \/ /\ acts[a].state \notin Final
              /\ ~LeaseFree(a, ProcessOf[t])
              /\ SetTask(t, Idle)
              /\ UNCHANGED <<acts, expired, overtaken>>
           \/ /\ acts[a].state \notin Final
              /\ LeaseFree(a, ProcessOf[t])
              /\ acts' = [acts EXCEPT ![a] = leased]
              /\ expired' = expired \ {a}
              /\ overtaken' = IF \E u \in Tasks \ {t} : AtWork(u, a, ProcessOf[t])
                              THEN overtaken \cup {a} ELSE overtaken
              /\ SetTask(t, [task[t] EXCEPT !.pc = "start", !.rec = leased])
        /\ UNCHANGED shared

\* A transition of the task's copy; at the history limit it raises.
Transition(t, state, release, pc) ==
    LET moved == transition_activation(task[t].rec, state) IN
    IF MayTransition(task[t].rec, state)
    THEN Update(t, IF release THEN release_lease(moved) ELSE moved, pc)
    ELSE UNCHANGED acts /\ SetTask(t, Idle)

StartOrResume(t) ==
    /\ task[t].pc = "start"
    /\ \/ /\ task[t].rec.state \in {"pending", "failed"}
          /\ Transition(t, "running", FALSE, "prepare")
       \/ /\ task[t].rec.state \in {"running", "waiting"}
          /\ Goto(t, IF task[t].rec.state = "running" THEN "prepare" ELSE "waiting")
          /\ UNCHANGED acts
    /\ UNCHANGED <<expired, overtaken, shared>>

\* Do the rolled-out workers answer yet?
ReadinessSeen(t) == HasBinding /\ task[t].rec.target \in rolled

\* Mutant: a waiting activation goes on where it stopped, readiness unrecorded.
MutContinueAfterWait(t) ==
    /\ task[t].pc = "waiting"
    /\ \/ task[t].rec.worker_readiness /\ Transition(t, "running", FALSE, "schedules")
       \/ /\ ~task[t].rec.worker_readiness
          /\ Update(t, [release_lease(task[t].rec) EXCEPT !.version = @ + 1], "idle")
    /\ UNCHANGED <<expired, overtaken, shared>>

\* An activation found waiting: without readiness it waits on.
WaitingForReadiness(t) ==
    /\ task[t].pc = "waiting"
    /\ \/ task[t].rec.worker_readiness /\ Transition(t, "running", FALSE, "prepare")
       \/ /\ ~task[t].rec.worker_readiness /\ ReadinessSeen(t)
          /\ Update(t, register_worker_readiness(task[t].rec), "waiting")
       \/ /\ ~task[t].rec.worker_readiness
          /\ Update(t, [release_lease(task[t].rec) EXCEPT !.version = @ + 1], "idle")
    /\ UNCHANGED <<expired, overtaken, shared>>

\* _prepare_record: the revision is prepared again and matches the plan.
Prepare(t) ==
    /\ task[t].pc = "prepare"
    /\ Goto(t, After["prepare"])
    /\ UNCHANGED <<acts, expired, overtaken, shared>>

(***************************************************************************)
(* The stages.  Each does its effect, then records a checkpoint.           *)
(***************************************************************************)
Required(rec, stage) ==
    /\ stage \notin rec.checkpoints
    /\ stage = "rollout"   => rec.worker_action /\ ~rec.worker_readiness
    /\ stage = "schedules" => rec.schedule_action
    /\ stage = "catalog"   => rec.definition_action
    /\ stage = "routing"   => rec.routing_action

At(t, stage) ==
    task[t].pc = stage /\ task[t].step = "do" /\ Required(task[t].rec, stage)

EffectDone(t) == SetTask(t, [task[t] EXCEPT !.step = "note"])

Skip(t) ==
    /\ task[t].pc \in Stages
    /\ task[t].step = "do"
    /\ ~Required(task[t].rec, task[t].pc)
    /\ Goto(t, After[task[t].pc])
    /\ UNCHANGED <<acts, expired, overtaken, shared>>

\* _checkpoint.
Note(t) ==
    /\ task[t].pc \in Stages
    /\ task[t].step = "note"
    /\ Update(t, record_activation_checkpoint(task[t].rec, task[t].pc), After[task[t].pc])
    /\ UNCHANGED <<expired, overtaken, shared>>

StoreDefinitions(t) ==
    /\ At(t, "definitions")
    /\ objects' = objects \cup {WorkflowsOf(task[t].rec.target)}
    /\ EffectDone(t)
    /\ UNCHANGED <<acts, expired, overtaken, pointer, aliases, schedules, rolled, routed, index>>

\* _ensure_worker_ready: without a binding the host rolls out by itself.
Rollout(t) ==
    /\ At(t, "rollout")
    /\ \/ /\ HasBinding
          /\ rolled' = rolled \cup {task[t].rec.target}
          /\ EffectDone(t)
          /\ UNCHANGED acts
       \/ /\ ~HasBinding
          /\ Transition(t, "waiting", TRUE, "idle")
          /\ UNCHANGED rolled
    /\ UNCHANGED <<expired, overtaken, pointer, aliases, objects, schedules, routed, index>>

\* Mutant: a confirmed rollout counts as readiness.
MutRolloutIsReadiness(t) ==
    /\ At(t, "readiness")
    /\ EffectDone(t)
    /\ UNCHANGED <<acts, expired, overtaken, shared>>

\* The second half of _ensure_worker_ready.
Readiness(t) ==
    /\ At(t, "readiness")
    /\ LET rec == task[t].rec IN
       \/ /\ ~rec.worker_action \/ rec.worker_readiness
          /\ EffectDone(t)
          /\ UNCHANGED acts
       \/ /\ rec.worker_action /\ ~rec.worker_readiness /\ ReadinessSeen(t)
          /\ Update(t, register_worker_readiness(rec), "readiness")
       \/ /\ rec.worker_action /\ ~rec.worker_readiness
          /\ Transition(t, "waiting", TRUE, "idle")
    /\ UNCHANGED <<expired, overtaken, shared>>

ReconcileSchedules(t) ==
    /\ At(t, "schedules")
    /\ schedules' = SchedulesOf(task[t].rec.target)
    /\ EffectDone(t)
    /\ UNCHANGED <<acts, expired, overtaken, pointer, aliases, objects, rolled, routed, index>>

\* Mutant: the aliases name the revision instead of its definitions.
MutAliasRevision(t) ==
    /\ At(t, "catalog")
    /\ aliases' = task[t].rec.target
    /\ EffectDone(t)
    /\ UNCHANGED <<acts, expired, overtaken, pointer, objects, schedules, rolled, routed, index>>

\* _switch_catalog: already there, replaced, or changed since planning.
SwitchCatalog(t) ==
    LET wanted == WorkflowsOf(task[t].rec.target) IN
    /\ At(t, "catalog")
    /\ \/ /\ aliases \in {wanted, task[t].rec.expected_aliases}
          /\ aliases' = wanted
          /\ EffectDone(t)
       \/ /\ aliases \notin {wanted, task[t].rec.expected_aliases}
          /\ Goto(t, "superseding")
          /\ UNCHANGED aliases
    /\ UNCHANGED <<acts, expired, overtaken, pointer, objects, schedules, rolled, routed, index>>

SwitchWorkerRouting(t) ==
    /\ At(t, "routing")
    /\ routed' = IF HasBinding THEN task[t].rec.target ELSE routed
    /\ EffectDone(t)
    /\ UNCHANGED <<acts, expired, overtaken, pointer, aliases, objects, schedules, rolled, index>>

\* Mutant: a switch already made is not recognised.
MutAlwaysSwap(t) ==
    /\ At(t, "pointer")
    /\ SetTask(t, [task[t] EXCEPT !.step = "swap"])
    /\ UNCHANGED <<acts, expired, overtaken, shared>>

\* _advance_active_pointer reads the pointer: is this switch already made?
ReadPointer(t) ==
    LET rec == task[t].rec IN
    /\ At(t, "pointer")
    /\ IF pointer = [revision |-> rec.target, version |-> rec.expected_version + 1]
       THEN EffectDone(t)
       ELSE SetTask(t, [task[t] EXCEPT !.step = "swap"])
    /\ UNCHANGED <<acts, expired, overtaken, shared>>

\* Mutant: the version of the pointer is not compared.
MutCompareRevisionOnly(t) ==
    LET rec == task[t].rec IN
    /\ task[t].pc = "pointer" /\ task[t].step = "swap"
    /\ \/ /\ pointer.revision = rec.expected_revision
          /\ pointer' = [revision |-> rec.target, version |-> pointer.version + 1]
          /\ EffectDone(t)
       \/ /\ pointer.revision # rec.expected_revision
          /\ Goto(t, "superseding")
          /\ UNCHANGED pointer
    /\ UNCHANGED <<acts, expired, overtaken, aliases, objects, schedules, rolled, routed, index>>

\* compare_and_swap_active.
SwapPointer(t) ==
    LET rec == task[t].rec IN
    /\ task[t].pc = "pointer" /\ task[t].step = "swap"
    /\ \/ /\ pointer = [revision |-> rec.expected_revision, version |-> rec.expected_version]
          /\ pointer' = [revision |-> rec.target, version |-> rec.expected_version + 1]
          /\ EffectDone(t)
       \/ /\ pointer # [revision |-> rec.expected_revision, version |-> rec.expected_version]
          /\ Goto(t, "superseding")
          /\ UNCHANGED pointer
    /\ UNCHANGED <<acts, expired, overtaken, aliases, objects, schedules, rolled, routed, index>>

ReplaceRuntimeIndex(t) ==
    /\ At(t, "index")
    /\ index' = [index EXCEPT ![ProcessOf[t]] = task[t].rec.target]
    /\ EffectDone(t)
    /\ UNCHANGED <<acts, expired, overtaken, pointer, aliases, objects, schedules, rolled, routed>>

Apply(t) ==
    LET rec == task[t].rec IN
    /\ task[t].pc = "apply"
    /\ IF MayTransition(rec, "applied") /\ acts[task[t].act].version = rec.version
       THEN /\ acts' = [acts EXCEPT ![task[t].act] =
                            release_lease(transition_activation(rec, "applied"))]
            /\ Return(t, "applied")
       ELSE UNCHANGED acts /\ SetTask(t, Idle)
    /\ UNCHANGED <<expired, overtaken, shared>>

\* The end of rollback: the original is marked if nobody wrote it meanwhile.
MarkRolledBack(t) ==
    LET orig == task[t].orig
        rec  == acts[orig.act]
    IN  /\ task[t].pc = "mark"
        /\ IF rec.version = orig.version /\ MayTransition(rec, "rolled_back")
           THEN acts' = [acts EXCEPT ![orig.act] = transition_activation(rec, "rolled_back")]
           ELSE UNCHANGED acts
        /\ SetTask(t, Idle)
        /\ UNCHANGED <<expired, overtaken, shared>>

(***************************************************************************)
(* Failure.                                                                *)
(***************************************************************************)
\* The task is calling a binding, the catalog or the configuration store.
CallsOut(t) ==
    LET rec == task[t].rec IN
    \/ task[t].pc = "prepare"
    \/ task[t].pc = "waiting" /\ HasBinding /\ ~rec.worker_readiness
    \/ /\ task[t].pc \in Stages \ {"index"}
       /\ task[t].step = "do" => Required(rec, task[t].pc)
       /\ task[t].pc \in {"rollout", "routing"} => HasBinding
       /\ task[t].pc = "readiness" => rec.worker_action

\* It raised, before or after its effect, or preparation no longer matches the
\* plan.
ExternalFails(t) ==
    /\ CallsOut(t)
    /\ Goto(t, "failing")
    /\ UNCHANGED <<acts, expired, overtaken, shared>>

\* _terminal: reads the record again and closes it, whoever leases it now.
Terminal(t) ==
    LET a == task[t].act
        state == IF task[t].pc = "failing" THEN "failed" ELSE "superseded"
    IN  /\ task[t].pc \in {"failing", "superseding"}
        /\ IF acts[a].state \notin Final /\ MayTransition(acts[a], state)
           THEN acts' = [acts EXCEPT ![a] = release_lease(transition_activation(@, state))]
           ELSE UNCHANGED acts
        /\ SetTask(t, Idle)
        /\ UNCHANGED <<expired, overtaken, shared>>

\* The activation store is unavailable or the caller's connection drops.
Abort(t) ==
    /\ task[t].pc # "idle"
    /\ SetTask(t, Idle)
    /\ UNCHANGED <<acts, expired, overtaken, shared>>

\* A process dies with its tasks and its runtime index.
Crash(p) ==
    /\ \/ index[p] # NoRevision
       \/ \E t \in Tasks : ProcessOf[t] = p /\ task[t].pc # "idle"
    /\ task' = [t \in Tasks |-> IF ProcessOf[t] = p THEN Idle ELSE task[t]]
    /\ index' = [index EXCEPT ![p] = NoRevision]
    /\ UNCHANGED <<acts, expired, overtaken, pointer, aliases, objects, schedules, rolled, routed>>

\* Time passes the expiry of a lease.
LeaseExpires(a) ==
    /\ acts[a].lease_owner # NoProcess
    /\ a \notin expired
    /\ expired' = expired \cup {a}
    /\ overtaken' = IF \E t \in Tasks : AtWork(t, a, acts[a].lease_owner)
                    THEN overtaken \cup {a} ELSE overtaken
    /\ UNCHANGED <<acts, shared, task>>

StageNext(t) ==
    \/ Skip(t)
    \/ Note(t)
    \/ StoreDefinitions(t)
    \/ Rollout(t)
    \/ Readiness(t)
    \/ ReconcileSchedules(t)
    \/ SwitchCatalog(t)
    \/ SwitchWorkerRouting(t)
    \/ ReadPointer(t)
    \/ SwapPointer(t)
    \/ ReplaceRuntimeIndex(t)

TaskNext(t) ==
    \/ \E a \in Activations, r \in Revisions : Activate(t, a, r)
    \/ \E a, b \in Activations : Rollback(t, a, b)
    \/ Create(t)
    \/ \E a \in Activations : Resume(t, a)
    \/ \E a \in Activations : RegisterReadiness(t, a)
    \/ Acquire(t)
    \/ StartOrResume(t)
    \/ WaitingForReadiness(t)
    \/ Prepare(t)
    \/ StageNext(t)
    \/ Apply(t)
    \/ MarkRolledBack(t)
    \/ ExternalFails(t)
    \/ Terminal(t)
    \/ Abort(t)

Next ==
    \/ \E t \in Tasks : TaskNext(t)
    \/ \E p \in Processes : Crash(p)
    \/ \E a \in Activations : LeaseExpires(a)

Spec == Init /\ [][Next]_vars

(***************************************************************************)
(* Properties.                                                             *)
(***************************************************************************)
\* Every variable holds a value of its kind.
TypeOK ==
    /\ acts \in [Activations -> Records]
    /\ expired \subseteq Activations
    /\ overtaken \subseteq Activations
    /\ pointer \in [revision : Revs, version : Nat]
    /\ aliases \in AliasValues
    /\ objects \subseteq AliasValues
    /\ schedules \in ScheduleValues
    /\ rolled \subseteq Revisions
    /\ routed \in Revs
    /\ index \in [Processes -> Revs]
    /\ task \in [Tasks -> TaskStates]

\* The switch an activation was planned to make, and whether it is in place.
Base(rec)   == [revision |-> rec.expected_revision, version |-> rec.expected_version]
Switch(rec) == [revision |-> rec.target, version |-> rec.expected_version + 1]

\* The confirmations that must be on record before the pointer may move.
Needed(rec) ==
    {"definitions", "readiness"}
        \cup (IF rec.schedule_action THEN {"schedules"} ELSE {})
        \cup (IF rec.definition_action THEN {"catalog"} ELSE {})
        \cup (IF rec.routing_action THEN {"routing"} ELSE {})

\* "Roll compatible workers, confirm ..., reconcile ..., advance the active
\* revision" (docs/operations/configuration.md): the pointer only ever makes the
\* switch of an activation planned against the very pointer it replaces, with
\* every confirmation that plan needs already in the store, whichever controllers
\* took it over on the way.
PointerMovesOnlyWhenReady ==
    [][ pointer' # pointer =>
            \E a \in Activations :
                /\ Base(acts[a]) = pointer /\ Switch(acts[a]) = pointer'
                /\ Needed(acts[a]) \subseteq acts[a].checkpoints
                /\ acts[a].worker_action => acts[a].worker_readiness ]_vars

\* Of the activations planned against one pointer version, one target wins; a
\* pointer checkpoint is never recorded for a switch that was not made.
OneWinnerPerBase ==
    \A a \in Activations : "pointer" \in acts[a].checkpoints =>
        /\ pointer.version > acts[a].expected_version
        /\ pointer.version = acts[a].expected_version + 1 => pointer = Switch(acts[a])
        /\ \A b \in Activations :
              /\ "pointer" \in acts[b].checkpoints
              /\ acts[b].expected_version = acts[a].expected_version
              => acts[b].target = acts[a].target

\* Controllers that resume the same activation, or report readiness for it, at
\* the same time never undo each other's writes: checkpoints and readiness stay,
\* a closed activation stays closed.
NoLostUpdate ==
    [][ \A a \in Activations :
            /\ acts[a].checkpoints \subseteq acts'[a].checkpoints
            /\ acts[a].worker_readiness => acts'[a].worker_readiness
            /\ acts[a].state \in Final =>
                  acts'[a].state = acts[a].state \/ acts'[a].state = "rolled_back"
            /\ acts[a].state \in {"superseded", "rolled_back"} =>
                  acts'[a].state = acts[a].state ]_vars

\* An activation reported applied has every confirmation on record, through
\* whatever crashes, failures and take-overs it came.
AppliedIsComplete ==
    \A a \in Activations : acts[a].state \in {"applied", "rolled_back"} =>
        Needed(acts[a]) \cup {"pointer", "index"} \subseteq acts[a].checkpoints

\* An activation is marked rolled back only when an activation of its predecessor
\* was applied.
RolledBackWasReplaced ==
    \A b \in Activations : acts[b].state = "rolled_back" =>
        \E a \in Activations : /\ acts[a].rollback_of = b
                               /\ acts[a].state \in {"applied", "rolled_back"}
                               /\ acts[a].target = acts[b].expected_revision

\* A crash, a failure or a take-over alone never supersedes an activation: one
\* that is superseded had a rival, unless a call lost its lease while at work: the
\* lease ran out, or another call of the same controller took it.
SupersededHadRival ==
    \A a \in Activations \ overtaken : acts[a].state = "superseded" =>
        \E b \in Activations \ {a} : acts[b].state \notin {"none", "pending"}

\* Activations that moved the pointer form one line: one winner per base, and one that was
\* rolled back was replaced by its rollback.
WinnersAreInLine ==
  /\ OneWinnerPerBase
  /\ RolledBackWasReplaced

\* The recorded outcome is what happened: applied after every confirmation, superseded only
\* by a rival.
OutcomesAreEarned ==
  /\ TypeOK
  /\ AppliedIsComplete
  /\ SupersededHadRival

\* No write of a controller undoes one of another, and none moves the pointer too early.
WritesAreSafe ==
  /\ NoLostUpdate
  /\ PointerMovesOnlyWhenReady
=============================================================================
