--------------------------- MODULE ScheduledStarts ---------------------------
(***************************************************************************)
(* One-off scheduled starts (src/justflow/runtime/scheduled_starts.py,     *)
(* scheduled_start_service.py, scheduled_start_dispatch.py,                *)
(* scheduled_start_cleanup.py and the part of starter.py they call).       *)
(*                                                                         *)
(* The module follows ONE scheduled start through one life, from creation  *)
(* to cleanup.  Its state is spread over Temporal: a Schedule whose action *)
(* argument is the projected record, at most one running Due workflow      *)
(* (overlap policy SKIP), one arbiter workflow per lifecycle version, and  *)
(* the tenant run, whose workflow id is derived from the business request  *)
(* id.  API clients, the Due workflow's claim activity, the arbiters'      *)
(* activities, direct API starts of the same business request, definition  *)
(* activations and the cleanup sweep interleave.                           *)
(*                                                                         *)
(* Abstractions.  Time: a pending schedule may fire at any moment.  A      *)
(* request digest is the client that sent the request (a client sends one  *)
(* request and may repeat it).  A pending record is identified by its      *)
(* version: within one life there is one pending record per version.       *)
(* Reads that fail with a retryable error are repeated by the caller and   *)
(* are stuttering steps here.                                              *)
(***************************************************************************)
EXTENDS Integers, FiniteSets

CONSTANTS
    Clients,           \* API callers, each with its own idempotency key
    NoClient,          \* the digest of a record no client's mutation wrote
    Retriers,          \* bound: the clients that repeat their request
    Targets,           \* definition digests the tenant workflow may resolve to
    NoTarget,          \* nothing resolves: unknown, drifted or incompatible
    MaxVersion,        \* bound: the highest lifecycle version a run reaches
    DispatchAttempts,  \* record.dispatch_attempts
    Abandonable        \* bound: the versions whose commit attempts may be abandoned

ASSUME ConstantsAssumption ==
    /\ MaxVersion \in Nat \ {0}
    /\ DispatchAttempts \in Nat \ {0}
    /\ Retriers \subseteq Clients
    /\ Abandonable \subseteq 1..MaxVersion
    /\ NoClient \notin Clients
    /\ NoTarget \notin Targets

VARIABLES
    sched,      \* the Temporal Schedule: the projected record it carries
    armed,      \* the schedule still has its one remaining action
    skipped,    \* Temporal skipped the armed action: a Due workflow was running
    due,        \* version captured by the running Due workflow, 0 if none runs
    claims,     \* versions whose claim activity has passed the freshness check
    arb,        \* arb[v]: the arbiter workflow of lifecycle version v
    lateCommit, \* versions of which abandoned commit attempts may still write
    run,        \* the tenant workflow execution of this business request, and
                \* who started it: "lost" is an attempt that was not told its id
    lateRun,    \* targets of start requests whose dispatch attempt was abandoned
    active,     \* the definition the runtime resolves the workflow name to
    cli,        \* cli[c]: the request of client c and where it stands
    lateCall,   \* clients whose abandoned start-arbiter call may still land
    doomed      \* the cleanup activity saw a deletable record

vars == <<sched, armed, skipped, due, claims, arb, lateCommit, run, lateRun,
          active, cli, lateCall, doomed>>

Versions      == 1..MaxVersion
Mutations     == {"reschedule", "cancel"}
Commands      == Mutations \cup {"due"}
Terminal      == {"started", "canceled", "failed"}
RecordStates  == {"none", "scheduled", "deleted"} \cup Terminal
\* ScheduledStartArbiterPhase, with the two ways an execution may also close.
ArbPhases     == {"none", "initial", "resolved_due", "terminal", "writing",
                  "applied", "stale", "stalled"}
\* What a request's answer settles: it took effect, it lost, or it has to be
\* repeated (in_progress, unavailable), or this attempt did nothing (not_found,
\* invalid).
Verdicts      == {"success", "conflict"}

Record(state, version, digest, target) ==
    [state |-> state, version |-> version, digest |-> digest, run |-> target]

NoRecord == Record("none", 0, NoClient, NoTarget)

Records == [state : RecordStates, version : 0..MaxVersion,
            digest : Clients \cup {NoClient}, run : Targets \cup {NoTarget}]

NoArbiter == [phase |-> "none", command |-> "due", digest |-> NoClient,
              target |-> NoTarget, saw_ambiguous |-> FALSE,
              rejections |-> 0, projection |-> NoRecord]

Arbiters == [phase : ArbPhases, command : Commands,
             digest : Clients \cup {NoClient},
             target : Targets \cup {NoTarget}, saw_ambiguous : BOOLEAN,
             rejections : 0..DispatchAttempts, projection : Records]

NoRun == [by |-> "none", target |-> NoTarget]

\* The run was started by an attempt of this scheduled start.
StartedHere == run.by \in {"due", "lost"}

NewRequest == [pc |-> "new", kind |-> "cancel", version |-> 1,
               fresh |-> FALSE, joined |-> FALSE, verdicts |-> {}]

Requests == [pc : {"new", "sent", "recover", "start", "await", "done"},
             kind : Mutations, version : Versions, fresh : BOOLEAN,
             joined : BOOLEAN, verdicts : SUBSET Verdicts]

(***************************************************************************)
(* The transition functions of scheduled_starts.py.                        *)
(***************************************************************************)
create_scheduled_start_record == Record("scheduled", 1, NoClient, NoTarget)

\* Mutant: the version is advanced twice.
MutSkipVersion(v, digest) == Record("scheduled", v + 2, digest, NoTarget)

reschedule_scheduled_start(v, digest) == Record("scheduled", v + 1, digest, NoTarget)

cancel_scheduled_start(v, digest) == Record("canceled", v, digest, NoTarget)

\* The run recorded is the one found under the workflow id, whoever started it.
complete_scheduled_start(v, target) == Record("started", v, NoClient, target)

fail_scheduled_start(v) == Record("failed", v, NoClient, NoTarget)

\* The schedule's record equals the pending record of version v.
IsPending(v) == sched.state = "scheduled" /\ sched.version = v

\* _describe_record raises NOT_FOUND.
NotFound == sched.state \in {"none", "deleted"}

Init ==
    /\ sched = NoRecord
    /\ armed = FALSE
    /\ skipped = FALSE
    /\ due = 0
    /\ claims = {}
    /\ arb = [v \in Versions |-> NoArbiter]
    /\ lateCommit = {}
    /\ run = NoRun
    /\ lateRun = {}
    /\ active \in Targets
    /\ cli = [c \in Clients |-> NewRequest]
    /\ lateCall = {}
    /\ doomed = FALSE

(***************************************************************************)
(* Temporal: the schedule.                                                 *)
(***************************************************************************)
\* _schedule: what writing a record does to the Temporal schedule.
WriteSchedule(record) ==
    /\ sched' = record
    /\ armed' = (record.state = "scheduled")
    /\ skipped' = FALSE

\* create: the schedule is created under an id derived from the request's
\* identity.  A repeated create finds the record and changes nothing.
Create ==
    /\ sched = NoRecord
    /\ active \in Targets
    /\ WriteSchedule(create_scheduled_start_record)
    /\ UNCHANGED <<due, claims, arb, lateCommit, run, lateRun, active, cli,
                   lateCall, doomed>>

\* Temporal takes the schedule's one action at its due time, or skips it when
\* the Due workflow of an earlier version still runs (overlap policy SKIP).
Fire ==
    /\ armed
    /\ armed' = FALSE
    /\ \/ due = 0 /\ due' = sched.version /\ UNCHANGED skipped
       \/ due # 0 /\ skipped' = TRUE /\ UNCHANGED due
    /\ UNCHANGED <<sched, claims, arb, lateCommit, run, lateRun, active, cli,
                   lateCall, doomed>>

(***************************************************************************)
(* The Due workflow and its claim activity, retried without limit.  An     *)
(* attempt that timed out may still start the arbiter while the next one   *)
(* runs.                                                                   *)
(***************************************************************************)
SetArbiter(v, arbiter) == arb' = [arb EXCEPT ![v] = arbiter]

\* Mutant: the workflow id may be reused.
MutAllowDuplicate(v, command, digest) ==
    SetArbiter(v, [NoArbiter EXCEPT !.phase = "initial", !.command = command,
                                    !.digest = digest])

\* _start_arbiter: REJECT_DUPLICATE makes the workflow id a one-shot claim.
StartArbiter(v, command, digest) ==
    IF arb[v].phase = "none"
    THEN SetArbiter(v, [NoArbiter EXCEPT !.phase = "initial", !.command = command,
                                         !.digest = digest])
    ELSE UNCHANGED arb

\* claim_due, up to its await of _start_arbiter.
ClaimCheck ==
    /\ due # 0
    /\ IF IsPending(due)
       THEN claims' = claims \cup {due} /\ UNCHANGED due
       ELSE due' = 0 /\ UNCHANGED claims
    /\ UNCHANGED <<sched, armed, skipped, arb, lateCommit, run, lateRun,
                   active, cli, lateCall, doomed>>

\* Mutant: the claim activity is not retried.
MutClaimOnce(v, answered) ==
    /\ v \in claims
    /\ IF answered THEN StartArbiter(v, "due", NoClient) ELSE UNCHANGED arb
    /\ claims' = claims \ {v}
    /\ due' = 0
    /\ UNCHANGED <<sched, armed, skipped, lateCommit, run, lateRun, active,
                   cli, lateCall, doomed>>

\* claim_due from _start_arbiter on: claimed, claimed as a duplicate or
\* skipped, the Due workflow ends; unless the answer is lost and it retries.
ClaimDue(v, answered) ==
    /\ v \in claims
    /\ StartArbiter(v, "due", NoClient)
    /\ claims' = claims \ {v}
    /\ due' = IF answered /\ due = v THEN 0 ELSE due
    /\ UNCHANGED <<sched, armed, skipped, lateCommit, run, lateRun, active,
                   cli, lateCall, doomed>>

(***************************************************************************)
(* The arbiter workflow of version v.                                      *)
(***************************************************************************)
Decide(v, record) ==
    SetArbiter(v, [arb[v] EXCEPT !.phase = "terminal", !.projection = record])

Close(v, phase) == SetArbiter(v, [arb[v] EXCEPT !.phase = phase])

\* prepare_arbiter's projection for the command of version v, given that the
\* record is still the arbiter's own.
PrepareProjection(v) ==
    \/ /\ run.by # "none"
       /\ Decide(v, complete_scheduled_start(v, run.target))
    \/ /\ run.by = "none" /\ arb[v].command = "cancel"
       /\ Decide(v, cancel_scheduled_start(v, arb[v].digest))
    \/ /\ run.by = "none" /\ arb[v].command = "reschedule"
       /\ Decide(v, reschedule_scheduled_start(v, arb[v].digest))
    \/ /\ run.by = "none" /\ arb[v].command = "due" /\ active = NoTarget
       /\ Decide(v, fail_scheduled_start(v))
    \/ /\ run.by = "none" /\ arb[v].command = "due" /\ active # NoTarget
       /\ SetArbiter(v, [arb[v] EXCEPT !.phase = "resolved_due", !.target = active])

\* _prepare: the record moved on (stale), is gone (a permanent failure), or
\* is still the one this arbiter was started for.
Prepare(v) ==
    /\ arb[v].phase = "initial"
    /\ \/ ~IsPending(v) /\ Close(v, IF NotFound THEN "stalled" ELSE "stale")
       \/ IsPending(v) /\ PrepareProjection(v)
    /\ UNCHANGED <<sched, armed, skipped, due, claims, lateCommit, run,
                   lateRun, active, cli, lateCall, doomed>>

\* The tenant workflow id admits one execution.
StartRun(by, target) ==
    run' = IF run.by = "none" THEN [by |-> by, target |-> target] ELSE run

\* Mutants: the record names the target of the arbiter, not of the run found;
\* the definition is resolved again at each attempt; a duplicate is no success.
MutAcceptOwnTarget(v) ==
    /\ arb[v].phase = "resolved_due"
    /\ StartRun("due", arb[v].target)
    /\ Decide(v, complete_scheduled_start(v, arb[v].target))
    /\ UNCHANGED <<sched, armed, skipped, due, claims, lateCommit, lateRun,
                   active, cli, lateCall, doomed>>

MutResolveAtAttempt(v) ==
    /\ arb[v].phase = "resolved_due"
    /\ active # NoTarget
    /\ StartRun("due", active)
    /\ Decide(v, complete_scheduled_start(v, run'.target))
    /\ UNCHANGED <<sched, armed, skipped, due, claims, lateCommit, lateRun,
                   active, cli, lateCall, doomed>>

MutDuplicateIsRejected(v) ==
    /\ arb[v].phase = "resolved_due"
    /\ run.by = "none"
    /\ StartRun("due", arb[v].target)
    /\ Decide(v, complete_scheduled_start(v, run'.target))
    /\ UNCHANGED <<sched, armed, skipped, due, claims, lateCommit, lateRun,
                   active, cli, lateCall, doomed>>

\* attempt_dispatch returns Accepted: started now, or a duplicate whose
\* metadata names the run that exists.
AttemptAccepted(v) ==
    /\ arb[v].phase = "resolved_due"
    /\ StartRun("due", arb[v].target)
    /\ Decide(v, complete_scheduled_start(v, run'.target))
    /\ UNCHANGED <<sched, armed, skipped, due, claims, lateCommit, lateRun,
                   active, cli, lateCall, doomed>>

\* Mutant: an earlier ambiguous attempt is forgotten.
MutForgetAmbiguous(v) ==
    IF arb[v].rejections + 1 >= DispatchAttempts
    THEN Decide(v, fail_scheduled_start(v))
    ELSE SetArbiter(v, [arb[v] EXCEPT !.rejections = @ + 1])

\* _dispatch's count of authoritative rejections: exhausted only if no attempt
\* was ever ambiguous.  The counter saturates: only its reaching the limit is read.
CountRejection(v) ==
    LET n == IF arb[v].rejections < DispatchAttempts
             THEN arb[v].rejections + 1 ELSE DispatchAttempts
    IN  IF ~arb[v].saw_ambiguous /\ n >= DispatchAttempts
        THEN SetArbiter(v, [arb[v] EXCEPT !.phase = "terminal", !.rejections = n,
                                          !.projection = fail_scheduled_start(v)])
        ELSE SetArbiter(v, [arb[v] EXCEPT !.rejections = n])

\* Temporal answered with one of AUTHORITATIVE_START_REJECTION_STATUSES, or
\* the starter refused the request before sending it.
AttemptRejected(v) ==
    /\ arb[v].phase = "resolved_due"
    /\ CountRejection(v)
    /\ UNCHANGED <<sched, armed, skipped, due, claims, lateCommit, run,
                   lateRun, active, cli, lateCall, doomed>>

\* _resolve_run_id: the run was started, describing it failed, and the error
\* carries WorkflowStartError's default certainty, an authoritative rejection.
AttemptRunIdLost(v) ==
    /\ arb[v].phase = "resolved_due"
    /\ run.by = "none"
    /\ StartRun("lost", arb[v].target)
    /\ CountRejection(v)
    /\ UNCHANGED <<sched, armed, skipped, due, claims, lateCommit, lateRun,
                   active, cli, lateCall, doomed>>

\* The attempt timed out, its worker died, or its answer proves nothing: the
\* start request may already have been, or may yet be, accepted.
AttemptAmbiguous(v) ==
    /\ arb[v].phase = "resolved_due"
    /\ SetArbiter(v, [arb[v] EXCEPT !.saw_ambiguous = TRUE])
    /\ lateRun' = lateRun \cup {arb[v].target}
    /\ UNCHANGED <<sched, armed, skipped, due, claims, lateCommit, run, active,
                   cli, lateCall, doomed>>

LateRunLands(t) ==
    /\ t \in lateRun
    /\ StartRun("due", t)
    /\ lateRun' = lateRun \ {t}
    /\ UNCHANGED <<sched, armed, skipped, due, claims, arb, lateCommit, active,
                   cli, lateCall, doomed>>

\* Mutant: a commit that is already done is not recognised.
MutCommitNotIdempotent(v) == FALSE

\* commit_arbiter's updater, run on the record it read: nothing to write, the
\* projection to write, or a conflict.
CommitIsDone(v) ==
    IF arb[v].command = "reschedule" /\ arb[v].projection.state = "scheduled"
    THEN sched.version >= arb[v].projection.version
    ELSE sched = arb[v].projection

CommitMayWrite(v) ==
    \/ arb[v].command = "reschedule" /\ arb[v].projection.state = "scheduled"
    \/ IsPending(v)

CommitRead(v) ==
    /\ arb[v].phase = "terminal"
    /\ \/ NotFound /\ Close(v, "stalled")
       \/ ~NotFound /\ CommitIsDone(v) /\ Close(v, "applied")
       \/ ~NotFound /\ ~CommitIsDone(v) /\ CommitMayWrite(v) /\ Close(v, "writing")
       \/ ~NotFound /\ ~CommitIsDone(v) /\ ~CommitMayWrite(v) /\ Close(v, "stalled")
    /\ UNCHANGED <<sched, armed, skipped, due, claims, lateCommit, run,
                   lateRun, active, cli, lateCall, doomed>>

\* ScheduleHandle.update writes what the updater returned, without a conflict
\* token; the arbiter closes with the projection as its result, or, if the
\* answer is lost, its commit is retried from the read.
CommitWrite(v, answered) ==
    /\ arb[v].phase = "writing"
    /\ \/ NotFound /\ Close(v, "stalled") /\ UNCHANGED <<sched, armed, skipped>>
       \/ /\ ~NotFound
          /\ WriteSchedule(arb[v].projection)
          /\ Close(v, IF answered THEN "applied" ELSE "terminal")
    /\ UNCHANGED <<due, claims, lateCommit, run, lateRun, active, cli, lateCall,
                   doomed>>

\* The commit activity times out before its write reached Temporal and is
\* retried from its read; the abandoned write was never sent or may yet arrive.
CommitTimeout(v) ==
    /\ arb[v].phase = "writing"
    /\ Close(v, "terminal")
    /\ lateCommit' \in {lateCommit, lateCommit \cup ({v} \cap Abandonable)}
    /\ UNCHANGED <<sched, armed, skipped, due, claims, run, lateRun, active,
                   cli, lateCall, doomed>>

\* Nothing limits how many attempts of a commit are abandoned.
LateCommitLands(v) ==
    /\ v \in lateCommit
    /\ ~NotFound
    /\ WriteSchedule(arb[v].projection)
    /\ UNCHANGED <<due, claims, arb, lateCommit, run, lateRun, active, cli,
                   lateCall, doomed>>

(***************************************************************************)
(* _authoritative_description: what GET reports.  A pending record is       *)
(* overridden by the arbiter of its version.                               *)
(***************************************************************************)
\* Mutant: only the dispatch loop itself counts as dispatching.
MutDispatchingOnlyInLoop ==
    LET a == arb[sched.version]
    IN  IF sched.state = "scheduled" /\ a.phase = "resolved_due"
        THEN [state |-> "dispatching", version |-> sched.version]
        ELSE [state |-> sched.state, version |-> sched.version]

Describe ==
    LET a == arb[sched.version]
    IN  IF sched.state # "scheduled" \/ a.phase = "none"
        THEN [state |-> sched.state, version |-> sched.version]
        ELSE IF a.phase = "applied"
        THEN [state |-> a.projection.state, version |-> a.projection.version]
        ELSE IF a.phase \in {"stale", "stalled"}
        THEN [state |-> "conflict", version |-> sched.version]
        ELSE IF a.command = "due"
        THEN [state |-> "dispatching", version |-> sched.version]
        ELSE [state |-> "scheduled", version |-> sched.version]

(***************************************************************************)
(* An API client: reschedule or cancel with an expected version.           *)
(***************************************************************************)
SetClient(c, request) == cli' = [cli EXCEPT ![c] = request]

Reply(c, reply) ==
    SetClient(c, [cli[c] EXCEPT !.pc = "done", !.fresh = FALSE, !.joined = FALSE,
                                !.verdicts = @ \cup (Verdicts \cap {reply})])

\* A client mutates the version it has been shown.
Submit(c, kind) ==
    /\ cli[c].pc = "new"
    /\ Describe.state = "scheduled"
    /\ kind = "reschedule" => Describe.version < MaxVersion
    /\ SetClient(c, [cli[c] EXCEPT !.pc = "sent", !.kind = kind,
                                !.version = Describe.version])
    /\ UNCHANGED <<sched, armed, skipped, due, claims, arb, lateCommit, run,
                   lateRun, active, lateCall, doomed>>

\* Mutant: whose request was applied is not compared.
MutAppliedByAnyone(c) ==
    \/ cli[c].kind = "reschedule" /\ IsPending(cli[c].version + 1)
    \/ /\ cli[c].kind = "cancel"
       /\ sched.state = "canceled"
       /\ sched.version = cli[c].version

\* The record already shows this very request applied.
AlreadyApplied(c) ==
    /\ sched.digest = c
    /\ \/ /\ cli[c].kind = "reschedule"
          /\ IsPending(cli[c].version + 1)
       \/ /\ cli[c].kind = "cancel"
          /\ sched.state = "canceled"
          /\ sched.version = cli[c].version

\* reschedule/cancel up to the call of _recover_mutation.
ReadRecord(c) ==
    /\ cli[c].pc = "sent"
    /\ \/ NotFound /\ Reply(c, "not_found")
       \/ ~NotFound /\ AlreadyApplied(c) /\ Reply(c, "success")
       \/ /\ ~NotFound /\ ~AlreadyApplied(c)
          /\ SetClient(c, [cli[c] EXCEPT !.pc = "recover",
                                         !.fresh = IsPending(cli[c].version)])
    /\ UNCHANGED <<sched, armed, skipped, due, claims, arb, lateCommit, run,
                   lateRun, active, lateCall, doomed>>

\* Mutant: only a running arbiter is recovered.
MutOwnsRunningOnly(c) ==
    LET a == arb[cli[c].version] IN
    /\ a.phase \notin {"none", "applied", "stale", "stalled"}
    /\ a.command = cli[c].kind /\ a.digest = c

\* The arbiter's memo names this request: same command, same digest.
Owns(c) ==
    LET a == arb[cli[c].version] IN
    a.phase # "none" /\ a.command = cli[c].kind /\ a.digest = c

\* _recover_mutation up to its await of the arbiter, then, when no arbiter was
\* found, _validate_due_time (a reschedule sent or repeated too late) and
\* _require_pending_version on the record read before.
RecoverMutation(c) ==
    /\ cli[c].pc = "recover"
    /\ \/ /\ arb[cli[c].version].phase = "none" /\ cli[c].fresh
          /\ SetClient(c, [cli[c] EXCEPT !.pc = "start", !.fresh = FALSE])
       \/ /\ arb[cli[c].version].phase = "none" /\ ~cli[c].fresh
          /\ Reply(c, "conflict")
       \/ /\ arb[cli[c].version].phase = "none" /\ cli[c].kind = "reschedule"
          /\ Reply(c, "invalid")
       \/ /\ arb[cli[c].version].phase # "none" /\ ~Owns(c)
          /\ Reply(c, "conflict")
       \/ /\ Owns(c)
          /\ SetClient(c, [cli[c] EXCEPT !.pc = "await", !.fresh = FALSE])
    /\ UNCHANGED <<sched, armed, skipped, due, claims, arb, lateCommit, run,
                   lateRun, active, lateCall, doomed>>

\* _run_mutation up to its await of the arbiter.
RunMutation(c) ==
    /\ cli[c].pc = "start"
    /\ StartArbiter(cli[c].version, cli[c].kind, c)
    /\ \/ /\ arb[cli[c].version].phase = "none"
          /\ SetClient(c, [cli[c] EXCEPT !.pc = "await"])
       \/ /\ Owns(c)
          /\ SetClient(c, [cli[c] EXCEPT !.pc = "await", !.joined = TRUE])
       \/ /\ arb[cli[c].version].phase # "none" /\ ~Owns(c)
          /\ Reply(c, "conflict")
    /\ UNCHANGED <<sched, armed, skipped, due, claims, lateCommit, run, lateRun,
                   active, lateCall, doomed>>

\* _start_arbiter raises TEMPORAL_UNAVAILABLE: the call may still land.
RunMutationFails(c) ==
    /\ cli[c].pc = "start"
    /\ Reply(c, "unavailable")
    /\ lateCall' = lateCall \cup {c}
    /\ UNCHANGED <<sched, armed, skipped, due, claims, arb, lateCommit, run,
                   lateRun, active, doomed>>

LateCallLands(c) ==
    /\ c \in lateCall
    /\ StartArbiter(cli[c].version, cli[c].kind, c)
    /\ lateCall' = lateCall \ {c}
    /\ UNCHANGED <<sched, armed, skipped, due, claims, lateCommit, run, lateRun,
                   active, cli, doomed>>

\* The answer to a request whose arbiter closed with a result.
ResultReply(c) ==
    LET a == arb[cli[c].version] IN
    IF a.phase = "stale" \/ a.projection.state = "started" THEN "conflict"
    ELSE IF cli[c].joined /\ NotFound THEN "not_found" ELSE "success"

\* _await_arbiter and what _run_mutation or _recover_mutation make of it.
AwaitArbiter(c) ==
    /\ cli[c].pc = "await"
    /\ arb[cli[c].version].phase \in {"applied", "stale"}
    /\ Reply(c, ResultReply(c))
    /\ UNCHANGED <<sched, armed, skipped, due, claims, arb, lateCommit, run,
                   lateRun, active, lateCall, doomed>>

\* Mutant: waiting too long is reported as a conflict.
MutTimeoutIsConflict(c) ==
    /\ cli[c].pc = "await"
    /\ Reply(c, "conflict")
    /\ UNCHANGED <<sched, armed, skipped, due, claims, arb, lateCommit, run,
                   lateRun, active, lateCall, doomed>>

\* mutation_wait_seconds pass, or reading the result fails.
AwaitTimeout(c) ==
    /\ cli[c].pc = "await"
    /\ Reply(c, "in_progress")
    /\ UNCHANGED <<sched, armed, skipped, due, claims, arb, lateCommit, run,
                   lateRun, active, lateCall, doomed>>

\* The client repeats its exact request: the answer was lost or inconclusive.
Retry(c) ==
    /\ c \in Retriers
    /\ cli[c].pc = "done"
    /\ SetClient(c, [cli[c] EXCEPT !.pc = "sent"])
    /\ UNCHANGED <<sched, armed, skipped, due, claims, arb, lateCommit, run,
                   lateRun, active, lateCall, doomed>>

(***************************************************************************)
(* The rest of the runtime.                                                *)
(***************************************************************************)
\* WorkflowStarter.start for the same workflow and business request id.
ApiStart ==
    /\ active \in Targets
    /\ run.by = "none"
    /\ StartRun("api", active)
    /\ UNCHANGED <<sched, armed, skipped, due, claims, arb, lateCommit, lateRun,
                   active, cli, lateCall, doomed>>

\* Activation changes what the workflow name resolves to.
Activate(t) ==
    /\ active' = t
    /\ t # active
    /\ UNCHANGED <<sched, armed, skipped, due, claims, arb, lateCommit, run,
                   lateRun, cli, lateCall, doomed>>

\* Mutant: the cleanup does not look at the record's state.
MutCleanupAny ==
    /\ ~NotFound
    /\ ~doomed
    /\ doomed' = TRUE
    /\ UNCHANGED <<sched, armed, skipped, due, claims, arb, lateCommit, run,
                   lateRun, active, cli, lateCall>>

\* The cleanup activity describes the schedule, then deletes it.
CleanupDescribe ==
    /\ sched.state \in Terminal
    /\ ~doomed
    /\ doomed' = TRUE
    /\ UNCHANGED <<sched, armed, skipped, due, claims, arb, lateCommit, run,
                   lateRun, active, cli, lateCall>>

CleanupDelete ==
    /\ doomed
    /\ doomed' = FALSE
    /\ sched' = IF NotFound THEN sched ELSE [NoRecord EXCEPT !.state = "deleted"]
    /\ armed' = FALSE
    /\ UNCHANGED <<skipped, due, claims, arb, lateCommit, run, lateRun, active,
                   cli, lateCall>>

ClientNext(c) ==
    \/ \E kind \in Mutations : Submit(c, kind)
    \/ ReadRecord(c)
    \/ RecoverMutation(c)
    \/ RunMutation(c)
    \/ RunMutationFails(c)
    \/ LateCallLands(c)
    \/ AwaitArbiter(c)
    \/ AwaitTimeout(c)
    \/ Retry(c)

ArbiterNext(v) ==
    \/ Prepare(v)
    \/ AttemptAccepted(v)
    \/ AttemptRejected(v)
    \/ AttemptRunIdLost(v)
    \/ AttemptAmbiguous(v)
    \/ CommitRead(v)
    \/ \E answered \in BOOLEAN : CommitWrite(v, answered)
    \/ CommitTimeout(v)
    \/ LateCommitLands(v)

Next ==
    \/ Create
    \/ Fire
    \/ ClaimCheck
    \/ \E v \in Versions, answered \in BOOLEAN : ClaimDue(v, answered)
    \/ \E v \in Versions : ArbiterNext(v)
    \/ \E t \in Targets : LateRunLands(t)
    \/ \E c \in Clients : ClientNext(c)
    \/ ApiStart
    \/ \E t \in Targets \cup {NoTarget} : Activate(t)
    \/ CleanupDescribe
    \/ CleanupDelete

Spec == Init /\ [][Next]_vars

(***************************************************************************)
(* Fairness: Temporal runs every workflow task and retries every activity  *)
(* that failed or timed out, so each of them eventually gets an attempt    *)
(* that is answered.  Clients, direct API starts, activations and cleanup  *)
(* owe nothing; a dispatch loop that is not cut short eventually has an    *)
(* attempt Temporal accepts.                                               *)
(***************************************************************************)
Fairness ==
    /\ WF_vars(Fire)
    /\ WF_vars(ClaimCheck)
    /\ \A v \in Versions :
        /\ SF_vars(ClaimDue(v, TRUE))
        /\ WF_vars(Prepare(v))
        /\ SF_vars(AttemptAccepted(v))
        /\ WF_vars(CommitRead(v))
        /\ SF_vars(CommitWrite(v, TRUE))

FairSpec == Spec /\ Fairness

(***************************************************************************)
(* Properties.                                                             *)
(***************************************************************************)
\* Every variable holds a value of its kind, and versions and rejections stay
\* within their bounds.
TypeOK ==
    /\ sched \in Records
    /\ armed \in BOOLEAN
    /\ skipped \in BOOLEAN
    /\ due \in 0..MaxVersion
    /\ claims \subseteq Versions
    /\ arb \in [Versions -> Arbiters]
    /\ lateCommit \subseteq Versions
    /\ run \in [by : {"none", "due", "lost", "api"}, target : Targets \cup {NoTarget}]
    /\ lateRun \subseteq Targets
    /\ active \in Targets \cup {NoTarget}
    /\ cli \in [Clients -> Requests]
    /\ lateCall \subseteq Clients
    /\ doomed \in BOOLEAN

Succeeded(c) == "success" \in cli[c].verdicts

\* No attempt of a commit was ever abandoned with its schedule update still
\* under way.  Such an update carries no conflict token, and what it overwrites
\* is lost; what holds even then is stated without this condition.
NoneAbandoned == lateCommit = {}

\* "one outcome owns each version" (docs/operations/scheduled-starts.md): two
\* requests never both succeed on the same expected version, and a request
\* that succeeded on a version leaves no room for that version to be dispatched,
\* whichever stale claim, lost call or late schedule write arrives afterwards.
OneOutcomePerVersion ==
    \A c \in Clients : Succeeded(c) =>
        /\ \A d \in Clients \ {c} : ~(Succeeded(d) /\ cli[d].version = cli[c].version)
        /\ arb[cli[c].version].command = cli[c].kind
        /\ arb[cli[c].version].projection.digest = c

\* "Retrying the same request recovers its result": no retry of a request that
\* succeeded is told conflict, nor the other way round.
RetryRecoversResult ==
    \A c \in Clients : ~(Succeeded(c) /\ "conflict" \in cli[c].verdicts)

\* A request that was told conflict has not taken effect and never will.
ConflictHasNoEffect ==
    \A c \in Clients : "conflict" \in cli[c].verdicts =>
        ~\E v \in Versions : arb[v].projection.digest = c

\* "Cancellation before dispatch cancels the scheduled start": once a cancel
\* owns a version, the scheduled start has started no run and no start request
\* of its own is still under way.
CanceledNeverStarts ==
    (\E v \in Versions : arb[v].projection.state = "canceled") =>
        ~StartedHere /\ lateRun = {}

\* A scheduled start reported failed has no start request under way, and has
\* started no run but one that Temporal accepted without the attempt learning
\* its id: _resolve_run_id raises with the default certainty, an authoritative
\* rejection, and enough of those end in a failure although the run exists.
FailedMissesOnlyLostRuns ==
    (\E v \in Versions : arb[v].projection.state = "failed") =>
        run.by # "due" /\ lateRun = {}

\* The started record names the run that really exists, whoever started it.
StartedNamesTheRun ==
    \A v \in Versions : arb[v].projection.state = "started" =>
        run.by # "none" /\ arb[v].projection.run = run.target

\* Fire-time resolution is pinned: the run the scheduled start made uses the
\* definition resolved once for the one version that went to dispatch, though
\* activations and retried attempts follow.
RunUsesPinnedTarget ==
    StartedHere =>
        \E v \in Versions : /\ arb[v].command = "due" /\ arb[v].target = run.target
                            /\ \A w \in Versions \ {v} : arb[w].target = NoTarget

\* The permanent CONFLICT of commit_arbiter and a stale preparation are never
\* met: an arbiter fails only when cleanup removed its schedule.
ArbiterStallsOnlyAfterCleanup ==
    \A v \in Versions : arb[v].phase \in {"stale", "stalled"} => sched.state = "deleted"

\* A success is final, also when schedule updates of abandoned commits arrive
\* late: no retry of a request that succeeded is told conflict afterwards, and
\* what the arbiter of its version decided for it is not decided again.
SuccessIsNeverTakenBack ==
    [][ \A c \in Clients : Succeeded(c) =>
            /\ "conflict" \in cli'[c].verdicts => "conflict" \in cli[c].verdicts
            /\ arb'[cli[c].version].projection = arb[cli[c].version].projection ]_vars

\* Reads never go back: the version reported never falls, a start reported
\* dispatching is reported terminal next, and a terminal state is final until
\* the record is deleted.
DescribeNeverGoesBack ==
    [][ NoneAbandoned' =>
        /\ Describe'.state # "deleted" => Describe'.version >= Describe.version
        /\ Describe.state = "dispatching" =>
               Describe'.state \in {"dispatching", "started", "failed"}
        /\ Describe.state \in Terminal =>
               Describe' = Describe \/ Describe'.state = "deleted" ]_vars

\* Cleanup reads, then deletes: what it deletes is still a terminal record.
CleanupDeletesOnlyTerminal ==
    [][ NoneAbandoned' /\ sched'.state = "deleted" /\ sched.state # "deleted" =>
            sched.state \in Terminal ]_vars

Settled == sched.state \in Terminal \cup {"deleted"}

\* "A scheduled start asks Justflow to run a workflow once at a future time":
\* an accepted start is eventually started, canceled or failed, except for a
\* version whose one action Temporal skipped because the Due workflow of the
\* version before was still running, and for a schedule that an abandoned
\* update may overwrite.
SettlesUnlessSkipped ==
    sched.state = "scheduled" ~> Settled \/ skipped \/ ~NoneAbandoned

\* An arbiter that exists eventually decides and closes: "in_progress" is
\* never the last word on a request.
EveryArbiterCloses ==
    \A v \in Versions : arb[v].phase # "none" ~>
        arb[v].phase \in {"applied", "stale", "stalled"}

(***************************************************************************)
(* Refinement.  The authority on a scheduled start is the chain of its     *)
(* arbiters, not the schedule they project to: the current version is the  *)
(* first one no reschedule has consumed, and its state is the decision of  *)
(* its arbiter.                                                            *)
(***************************************************************************)
Reached(v) == \A w \in Versions : w < v => arb[w].projection.state = "scheduled"

CurrentVersion ==
    CHOOSE v \in Versions : Reached(v) /\ arb[v].projection.state # "scheduled"

AuthorityOn(v) ==
    IF sched.state = "none" THEN "none"
    ELSE IF arb[v].projection.state # "none" THEN arb[v].projection.state
    ELSE IF arb[v].phase # "none" /\ arb[v].command = "due" THEN "dispatching"
    ELSE "scheduled"

Lifecycle == INSTANCE ScheduledStartLifecycle
                WITH state <- AuthorityOn(CurrentVersion), version <- CurrentVersion

\* The arbiters, their activities and the clients together implement the
\* single-line lifecycle, also when schedule writes arrive late.
ImplementsLifecycle == Lifecycle!LifecycleSpec

\* What a client was told is what happened, however often it asked and whatever call was
\* lost, until an update is abandoned on its way: a repeated request has the result of the
\* first, a conflict has done nothing, and no arbiter gives up on a record that is there.
AnswersAreTrue ==
  NoneAbandoned =>
    /\ RetryRecoversResult
    /\ ConflictHasNoEffect
    /\ ArbiterStallsOnlyAfterCleanup

\* A record that was read only moves forward, and disappears only once it is terminal,
\* until an update is abandoned on its way; an answer of success is final even then.
RecordNeverGoesBack ==
  /\ SuccessIsNeverTakenBack
  /\ DescribeNeverGoesBack
  /\ CleanupDeletesOnlyTerminal

\* A scheduled start, and every arbiter a client was told to wait for, comes to an end.
EverythingSettles ==
  /\ SettlesUnlessSkipped
  /\ EveryArbiterCloses
=============================================================================
