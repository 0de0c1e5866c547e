--------------------------- MODULE ManagedSchedules ---------------------------
(***************************************************************************)
(* Managed Temporal schedules: the reconciler that plans and applies the   *)
(* declared schedules (runtime/schedules.py, schedule_reconciler.py,       *)
(* schedule_configuration.py, schedule_application.py), the operators that *)
(* pause, resume, delete, backfill or run one now (schedule_operations.py) *)
(* and the dispatch of an occurrence (schedule_dispatch.py).               *)
(*                                                                         *)
(* Reconcilers are releases of the configuration: each has its own         *)
(* declarations, and two may apply at the same time.  Every RPC is a step; *)
(* one that changes something may fail before or after it took effect.     *)
(* Temporal is modelled from how the code uses it: the updater sees a      *)
(* description that may be stale when its result is written.               *)
(***************************************************************************)
EXTENDS StartAdmission, Integers, FiniteSets, Sequences, SequencesExt

CONSTANTS
  Names,             \* authored schedule names
  Releases,          \* reconcilers: calls of the command line
  Appliers,          \* of them, the ones in the service (ScheduleApplier)
  Operators,         \* operator calls
  RunNowKeys,        \* idempotency keys of run-now
  Ticks,             \* occurrences Temporal fires
  DispatchAttempts,
  MaxSchedules,      \* observation bound of the reconciler
  MaxActions, MaxWindow, Every,   \* the backfill policy of a declaration
  MaxScheduleFaults, \* failed RPCs in one behaviour
  ScheduleScenarios  \* [local, declared, existing]: where a behaviour may begin

VARIABLES
  isLocal,     \* the runtime scope is the local one, which owns unscoped schedules
  declared,    \* [Releases -> [Names -> declaration or NotDeclared]]
  schedules,   \* [Ids -> schedule or Absent]
  snapshots,   \* environment snapshots in the definition catalog
  rec,         \* [Releases -> reconciler]
  op,          \* [Operators -> call]
  occurrence,  \* [Ticks \cup Keys -> dispatch workflow]
  runs,        \* [business ids -> number of workflow runs]
  filled,      \* occurrences the last backfill asked Temporal for
  msFaults

scheduleVars == <<isLocal, declared, schedules, snapshots, rec, op, occurrence, runs,
                  filled, msFaults>>

None == "none"
Own == "own"
Justflow == "justflow"
Stray == <<"stray", None>>
ScopedId(n) == <<"scoped", n>>
UnscopedId(n) == <<"unscoped", n>>
Ids == {Stray} \cup {ScopedId(n) : n \in Names} \cup {UnscopedId(n) : n \in Names}
Absent == [owner |-> "absent"]
NotDeclared == [digest |-> None]
Present(id) == schedules[id] # Absent
Idle == [phase |-> "idle"]

IsSchedule(s) ==
  /\ s = [owner |-> s.owner, name |-> s.name, scope |-> s.scope, action |-> s.action,
          digest |-> s.digest, paused |-> s.paused]
  /\ s.digest # AnyDigest
IsDeclaration(d) ==
  \/ d = NotDeclared
  \/ d = [digest |-> d.digest, paused |-> d.paused] /\ d.digest \notin {None, AnyDigest}

ASSUME ScheduleAssumption ==
  /\ None \notin Names /\ Operators \cap Releases = {} /\ IsFiniteSet(Names)
  /\ DispatchAttempts \in Nat /\ MaxActions \in Nat /\ MaxWindow \in Nat /\ Every \in Nat \ {0}
  /\ \A c \in ScheduleScenarios :
       /\ c.existing = [id \in Ids |-> c.existing[id]]
       /\ \A id \in Ids : c.existing[id] = Absent \/ IsSchedule(c.existing[id])
       /\ \A r \in Releases, n \in Names : IsDeclaration(c.declared[r][n])

ScheduleFault == msFaults < MaxScheduleFaults /\ msFaults' = msFaults + 1
NoScheduleFault == UNCHANGED msFaults

(* LegacyUnscopedPolicy.owns *)
Owns(scope) == scope = Own \/ (scope = None /\ isLocal)

SchedulesAre(c) ==
  /\ isLocal = c.local
  /\ declared = c.declared
  /\ schedules = c.existing
  /\ snapshots = {schedules[id].digest : id \in {i \in Ids : schedules[i] # Absent}}
  /\ rec = [r \in Releases |-> Idle]
  /\ op = [o \in Operators |-> Idle]
  /\ occurrence = [t \in Ticks \cup RunNowKeys |-> Idle]
  /\ runs = [t \in (Ticks \cup RunNowKeys) \X (0..DispatchAttempts) |-> 0]
  /\ filled = 0
  /\ msFaults = 0

SchedulesInit == \E c \in ScheduleScenarios : SchedulesAre(c)

-----------------------------------------------------------------------------
(* What the code sees of a schedule.                                       *)

(* observed_schedule_from_description: pause state is not part of it. *)
Observed(e) ==
  [owner |-> e.owner, name |-> e.name, scope |-> e.scope,
   corrupt |-> e.scope = "corrupt" \/ (e.owner = Justflow /\ e.action = "corrupt"),
   digest |-> IF e.scope = "corrupt" \/ e.owner # Justflow \/ e.name = None \/ e.action = "other"
              THEN None ELSE e.digest,
   valid |-> e.action # "other"]

Managed(o) == o.owner = Justflow

ValidManaged(o) == ~o.corrupt /\ Managed(o) /\ o.name # None /\ o.digest # None /\ o.valid

(* What compile_schedule makes of a declaration: the whole declaration,    *)
(* its pause included, is in the digest.                                   *)
Desired(n, d) ==
  [owner |-> Justflow, name |-> n, scope |-> Own, action |-> "ok", digest |-> d.digest,
   paused |-> d.paused]

DesiredOf(r) ==
  LET ns == {n \in Names : declared[r][n] # NotDeclared}
  IN  [id \in {ScopedId(n) : n \in ns} |-> Desired(id[2], declared[r][id[2]])]

-----------------------------------------------------------------------------
(* plan_schedule_reconciliation                                            *)

UnscopedNames(observed) ==
  {observed[id].name : id \in {i \in DOMAIN observed :
                                 Managed(observed[i]) /\ observed[i].scope = None}} \ {None}

AmbiguousNames(observed) ==
  {n \in UnscopedNames(observed) :
     \E i, j \in DOMAIN observed :
        i # j /\ \A k \in {i, j} : Managed(observed[k]) /\ observed[k].scope = None
                                   /\ observed[k].name = n}

(* Mutant: the unscoped schedule stands for the desired one under every    *)
(* decision, so a migration deletes it and creates nothing.                *)
EffectiveDesiredAlwaysRetains(desired, observed, decision) ==
  {id \in DOMAIN desired :
     desired[id].name \notin UnscopedNames(observed) \ AmbiguousNames(observed)}

EffectiveDesired(desired, observed, decision) ==
  {id \in DOMAIN desired :
     ~(/\ decision = "retain"
       /\ desired[id].name \in UnscopedNames(observed) \ AmbiguousNames(observed))}

WantedChange(wanted, o) ==
  IF \/ o.corrupt \/ ~ValidManaged(o)
     \/ o.name # wanted.name \/ o.scope # wanted.scope
  THEN "conflict"
  ELSE IF o.digest # wanted.digest THEN "update" ELSE None

UnwantedChange(o, desired, ambiguous, decision) ==
  IF o.corrupt THEN "conflict"
  ELSE IF ~Managed(o) THEN None
  ELSE IF o.scope = None
  THEN IF ~ValidManaged(o) \/ o.name \in ambiguous THEN "conflict"
       ELSE IF decision = "retain" THEN None
       ELSE IF decision = "migrate" /\ \E id \in DOMAIN desired : desired[id].name = o.name
       THEN "delete" ELSE "conflict"
  ELSE IF ValidManaged(o) THEN "delete" ELSE "conflict"

Change(desired, observed, decision, id) ==
  IF id \in EffectiveDesired(desired, observed, decision)
  THEN IF id \in DOMAIN observed THEN WantedChange(desired[id], observed[id]) ELSE "create"
  ELSE IF id \in DOMAIN observed
  THEN UnwantedChange(observed[id], desired, AmbiguousNames(observed), decision)
  ELSE None

(* The changes in the order they are applied: creations, updates, deletions. *)
PlannedChanges(desired, observed, decision) ==
  LET of(kind) == {id \in Ids : Change(desired, observed, decision, id) = kind}
      items(kind) == SetToSeq({[kind |-> kind, id |-> id] : id \in of(kind)})
  IN  items("create") \o items("update") \o items("delete")

HasConflicts(desired, observed, decision) ==
  \E id \in Ids : Change(desired, observed, decision, id) = "conflict"

-----------------------------------------------------------------------------
(* ScheduleReconciler.plan and ScheduleRuntime/ScheduleApplier.apply       *)

SetRec(r, value) == rec' = [rec EXCEPT ![r] = value]

Failed(r) == SetRec(r, [phase |-> "failed"])

(* observe filters the listing by owner and scope; only managed schedules  *)
(* are described, the others are known from the listing.                   *)
BelongsHere(id) ==
  \/ Owns(schedules[id].scope)
  \/ schedules[id].scope = "corrupt" /\ (id[1] = "scoped" \/ (id[1] = "unscoped" /\ isLocal))

ListSchedules(r, decision) ==
  LET here == {id \in Ids : Present(id) /\ BelongsHere(id)}
      described == {id \in here : schedules[id].owner = Justflow /\ schedules[id].scope # "corrupt"}
  IN  /\ rec[r] = Idle
      /\ IF Cardinality({id \in Ids : Present(id)}) > MaxSchedules
         THEN Failed(r)
         ELSE SetRec(r, [phase |-> "observing", decision |-> decision, todo |-> described,
                         observed |-> [id \in here \ described |-> Observed(schedules[id])],
                         alone |-> TRUE])
      /\ UNCHANGED <<isLocal, declared, schedules, snapshots, op, occurrence, runs, filled,
                     msFaults>>

DescribeSchedule(r) ==
  /\ rec[r].phase = "observing"
  /\ \E id \in rec[r].todo :
        IF Present(id)
        THEN SetRec(r, [rec[r] EXCEPT !.todo = @ \ {id},
                          !.observed = [i \in DOMAIN @ \cup {id} |->
                                          IF i = id THEN Observed(schedules[id]) ELSE @[i]]])
        ELSE Failed(r)
  /\ UNCHANGED <<isLocal, declared, schedules, snapshots, op, occurrence, runs, filled, msFaults>>

(* validate_apply: a plan with conflicts, or one that is not the confirmed *)
(* one any more, changes nothing.                                          *)
Plan(r, confirmed) ==
  /\ rec[r].phase = "observing" /\ rec[r].todo = {}
  /\ IF ~confirmed \/ HasConflicts(DesiredOf(r), rec[r].observed, rec[r].decision)
     THEN Failed(r)
     ELSE SetRec(r, [phase |-> "storing", observed |-> rec[r].observed, failed |-> FALSE, seen |-> None,
                     decision |-> rec[r].decision, alone |-> rec[r].alone,
                     todo |-> PlannedChanges(DesiredOf(r), rec[r].observed, rec[r].decision)])
  /\ UNCHANGED <<isLocal, declared, schedules, snapshots, op, occurrence, runs, filled, msFaults>>

(* Mutant: apply goes on although the catalog could not be written. *)
StoreSnapshotsOrNot(r) ==
  /\ rec[r].phase = "storing"
  /\ \/ /\ snapshots' = snapshots \cup {DesiredOf(r)[id].digest : id \in DOMAIN DesiredOf(r)}
        /\ NoScheduleFault
     \/ UNCHANGED snapshots /\ ScheduleFault
  /\ SetRec(r, [rec[r] EXCEPT !.phase = "applying"])
  /\ UNCHANGED <<isLocal, declared, schedules, op, occurrence, runs, filled>>

(* The environment snapshots of every desired schedule are retained first. *)
StoreSnapshots(r) ==
  /\ rec[r].phase = "storing"
  /\ \/ /\ snapshots' = snapshots \cup {DesiredOf(r)[id].digest : id \in DOMAIN DesiredOf(r)}
        /\ NoScheduleFault
        /\ SetRec(r, [rec[r] EXCEPT !.phase = "applying"])
     \/ UNCHANGED snapshots /\ ScheduleFault /\ Failed(r)
  /\ UNCHANGED <<isLocal, declared, schedules, op, occurrence, runs, filled>>

Item(r) == Head(rec[r].todo)
Applying(r, kind, phase) ==
  rec[r].phase = phase /\ rec[r].todo # <<>> /\ Item(r).kind = kind

(* A write by somebody else between the plan and the end of an apply. *)
Disturb(r) == [q \in Releases |->
  IF q # r /\ rec[q].phase \in {"observing", "storing", "applying", "described"}
  THEN [rec[q] EXCEPT !.alone = FALSE] ELSE rec[q]]

WriteSchedule(id, value) == schedules' = [schedules EXCEPT ![id] = value]

ItemDone(r, ok) == rec' = [Disturb(r) EXCEPT ![r].todo = Tail(@), ![r].phase = "applying",
                                             ![r].seen = None, ![r].failed = @ \/ ~ok]

(* _create: a schedule that exists already must be the desired one. *)
Create(r) ==
  LET id == Item(r).id
      wanted == DesiredOf(r)[id]
      same == Present(id) /\ LET o == Observed(schedules[id])
                             IN  WantedChange(wanted, o) = None
  IN  /\ Applying(r, "create", "applying")
      /\ \/ ~Present(id) /\ WriteSchedule(id, wanted) /\ ItemDone(r, TRUE) /\ NoScheduleFault
         \/ ~Present(id) /\ WriteSchedule(id, wanted) /\ ItemDone(r, FALSE) /\ ScheduleFault
         \/ Present(id) /\ UNCHANGED schedules /\ ItemDone(r, same) /\ NoScheduleFault
         \/ UNCHANGED schedules /\ ItemDone(r, FALSE) /\ ScheduleFault
      /\ UNCHANGED <<isLocal, declared, snapshots, op, occurrence, runs, filled>>

(* Mutant: the updater writes a schedule that has the digest already. *)
UpdateVerdictRewrites(actual, wanted, expected) ==
  IF ~ValidManaged(actual) \/ actual.name # wanted.name \/ actual.scope # wanted.scope
  THEN "changed"
  ELSE IF actual.digest = wanted.digest \/ actual = expected THEN "write" ELSE "changed"

(* The updater of _update. *)
UpdateVerdict(actual, wanted, expected) ==
  IF ~ValidManaged(actual) \/ actual.name # wanted.name \/ actual.scope # wanted.scope
  THEN "changed"
  ELSE IF actual.digest = wanted.digest THEN "applied"
  ELSE IF actual # expected THEN "changed" ELSE "write"

(* The description handed to the updater of an update, or read by _delete. *)
DescribeItem(r) ==
  LET id == Item(r).id
      actual == Observed(schedules[id])
      verdict == IF Item(r).kind = "update"
                 THEN UpdateVerdict(actual, DesiredOf(r)[id], rec[r].observed[id])
                 ELSE IF actual # rec[r].observed[id] \/ ~ValidManaged(actual) THEN "changed"
                 ELSE "write"
  IN  /\ Applying(r, "update", "applying") \/ Applying(r, "delete", "applying")
      /\ \/ ~Present(id) /\ NoScheduleFault
            /\ ItemDone(r, Item(r).kind = "delete")
         \/ Present(id) /\ NoScheduleFault
            /\ IF verdict = "write"
               THEN SetRec(r, [rec[r] EXCEPT !.phase = "described", !.seen = actual.digest])
               ELSE ItemDone(r, verdict = "applied")
         \/ ScheduleFault /\ ItemDone(r, FALSE)
      /\ UNCHANGED <<isLocal, declared, schedules, snapshots, op, occurrence, runs, filled>>

(* The write of an update or a deletion. *)
WriteItem(r) ==
  LET id == Item(r).id
      value == IF Item(r).kind = "update" THEN DesiredOf(r)[id] ELSE Absent
      landed == Present(id) /\ WriteSchedule(id, value)
  IN  /\ rec[r].phase = "described"
      /\ \/ landed /\ ItemDone(r, TRUE) /\ NoScheduleFault
         \/ landed /\ ItemDone(r, FALSE) /\ ScheduleFault
         \/ ~Present(id) /\ UNCHANGED schedules /\ ItemDone(r, Item(r).kind = "delete") /\ NoScheduleFault
         \/ UNCHANGED schedules /\ ItemDone(r, FALSE) /\ ScheduleFault
      /\ UNCHANGED <<isLocal, declared, snapshots, op, occurrence, runs, filled>>

Reconcile(r) ==
  \/ ListSchedules(r, "retain")
  \/ r \notin Appliers /\ \E decision \in {"require", "migrate"} : ListSchedules(r, decision)
  \/ DescribeSchedule(r) \/ StoreSnapshots(r) \/ Plan(r, TRUE)
  \/ r \notin Appliers /\ Plan(r, FALSE)
  \/ Create(r) \/ DescribeItem(r) \/ WriteItem(r)

-----------------------------------------------------------------------------
(* ScheduleOperator.  The operator's declarations are those of a release.  *)

SetOp(o, value) == op' = [op EXCEPT ![o] = value]

Answer(o, answer) == SetOp(o, [phase |-> "done", answer |-> answer])

(* Mutant: the boundary of the window is not counted. *)
MaximumActionsOfWindow(window) == (window + Every - 1) \div Every

(* _validate_backfill with an interval schedule; bounds are whole seconds. *)
MaximumActions(window) == (window + Every - 1) \div Every + 1

BackfillRefused(window) ==
  window <= 0 \/ window > MaxWindow \/ MaximumActions(window) > MaxActions

(* Mutant: the scope of the schedule is not compared. *)
LoadAnyScope(id) ==
  IF ~Present(id) THEN "unknown"
  ELSE IF ~ValidManaged(Observed(schedules[id])) THEN "unmanaged" ELSE "ok"

(* _load_managed_schedule *)
LoadManaged(id) ==
  IF ~Present(id) THEN "unknown"
  ELSE IF ~ValidManaged(Observed(schedules[id])) \/ ~Owns(schedules[id].scope)
  THEN "unmanaged" ELSE "ok"

(* The checks of a call before its mutation; `arg' is the key of run_now,  *)
(* the confirmation of delete and the window of backfill.                  *)
Check(o, r, n, kind, arg) ==
  LET id == ScopedId(n)
      s == schedules[id]
      d == declared[r][n]
      refused ==
        \/ kind \in {"run", "backfill"} /\ d = NotDeclared
        \/ kind = "backfill" /\ BackfillRefused(arg)
        \/ LoadManaged(id) # "ok"
        \/ kind = "run" /\ (d.paused \/ s.paused \/ s.name # n)
        \/ kind = "delete" /\ arg # s.digest
  IN  /\ op[o] = Idle
      /\ IF refused
         THEN Answer(o, "refused")
         ELSE SetOp(o, [phase |-> "mutate", kind |-> kind, id |-> id, arg |-> arg,
                        digest |-> s.digest])
      /\ UNCHANGED <<isLocal, declared, schedules, snapshots, rec, occurrence, runs, filled,
                     msFaults>>

(* One more occurrence of dispatch workflow t, unless its id was used. *)
Accept(t, digest) ==
  /\ occurrence[t] = Idle
  /\ occurrence' = [occurrence EXCEPT ![t] = [phase |-> "due", attempt |-> 0, digest |-> digest]]

(* The mutation _mutate awaits, for the kinds that change the schedule. *)
Effect(o) ==
  LET id == op[o].id
      changed == CASE op[o].kind = "pause" -> [schedules[id] EXCEPT !.paused = TRUE]
                   [] op[o].kind = "resume" -> [schedules[id] EXCEPT !.paused = FALSE]
                   [] OTHER -> Absent
  IN  /\ Present(id) /\ op[o].kind \in {"pause", "resume", "delete"}
      /\ WriteSchedule(id, changed)
      /\ rec' = Disturb(o)
      /\ UNCHANGED <<occurrence, filled>>

(* Temporal starts every nominal time in the window: at most one per       *)
(* interval and one for the boundary it may begin on.                      *)
FillWindow(o) ==
  /\ Present(op[o].id) /\ op[o].kind = "backfill"
  /\ \E first \in 0..(Every - 1) :
        filled' = Cardinality({t \in 0..op[o].arg : t % Every = first})
  /\ UNCHANGED <<schedules, rec, occurrence>>

Unchanged == UNCHANGED <<schedules, rec, occurrence, filled>>

(* pause, resume and backfill describe the schedule once more; delete ends. *)
Mutate(o) ==
  /\ op[o].phase = "mutate" /\ op[o].kind # "run"
  /\ \/ /\ Effect(o) \/ FillWindow(o)
        /\ IF op[o].kind = "delete" THEN Answer(o, "ok") ELSE SetOp(o, [op[o] EXCEPT !.phase = "reread"])
        /\ NoScheduleFault
     \/ (Effect(o) \/ FillWindow(o)) /\ Answer(o, "unavailable") /\ ScheduleFault
     \/ ~Present(op[o].id) /\ Unchanged /\ Answer(o, "unavailable") /\ NoScheduleFault
     \/ Unchanged /\ Answer(o, "unavailable") /\ ScheduleFault
  /\ UNCHANGED <<isLocal, declared, snapshots, runs>>

(* The trailing describe: the schedule that was changed may be gone, or    *)
(* not be managed any more, and the call is refused after its effect.      *)
Reread(o) ==
  /\ op[o].phase = "reread"
  /\ \/ Answer(o, IF LoadManaged(op[o].id) = "ok" THEN "ok" ELSE "refused") /\ NoScheduleFault
     \/ Answer(o, "unavailable") /\ ScheduleFault
  /\ Unchanged /\ UNCHANGED <<isLocal, declared, snapshots, runs>>

(* trigger_now starts the dispatch workflow under an id of the key. *)
RunNow(o) ==
  /\ op[o].phase = "mutate" /\ op[o].kind = "run"
  /\ \/ Accept(op[o].arg, op[o].digest) /\ Answer(o, "accepted") /\ NoScheduleFault
     \/ Accept(op[o].arg, op[o].digest) /\ Answer(o, "unavailable") /\ ScheduleFault
     \/ occurrence[op[o].arg] # Idle /\ UNCHANGED occurrence /\ Answer(o, "already_accepted")
        /\ NoScheduleFault
     \/ UNCHANGED occurrence /\ Answer(o, "unavailable") /\ ScheduleFault
  /\ UNCHANGED <<isLocal, declared, schedules, snapshots, rec, runs, filled>>

Operate(o) ==
  \/ \E r \in Releases, n \in Names :
        \/ \E kind \in {"pause", "resume"} : Check(o, r, n, kind, None)
        \/ \E key \in RunNowKeys : Check(o, r, n, "run", key)
        \/ \E digest \in {"d1", "d2"} : Check(o, r, n, "delete", digest)
        \/ \E window \in 0..(MaxWindow + 1) : Check(o, r, n, "backfill", window)
  \/ Mutate(o) \/ Reread(o) \/ RunNow(o)

-----------------------------------------------------------------------------
(* Occurrences: Temporal fires an unpaused schedule, ScheduleDispatch-     *)
(* Workflow runs the activity, which starts the pinned target.             *)

Fire(t) ==
  /\ t \in Ticks
  /\ \E id \in Ids :
        /\ Present(id) /\ Managed(schedules[id]) /\ schedules[id].action = "ok"
        /\ Owns(schedules[id].scope) /\ ~schedules[id].paused
        /\ Accept(t, schedules[id].digest)
  /\ UNCHANGED <<isLocal, declared, schedules, snapshots, rec, op, runs, filled, msFaults>>

(* Mutant: the identity of a run is that of the attempt. *)
OccurrenceIdOfAttempt(t, attempt) == <<t, attempt>>

(* make_schedule_occurrence_id: from the dispatch workflow, for all attempts. *)
OccurrenceId(t, attempt) == <<t, 0>>

(* _resolve_target and start_resolved; the pinned request can only be      *)
(* refused for its target, whose environment snapshot must be retained.    *)
TargetUnavailable(t) == occurrence[t].digest \notin snapshots

DispatchRefusal(t) ==
  PinnedRefusal([digest |-> occurrence[t].digest, logical |-> "w", scope |-> Own,
                 supported |-> TRUE],
                [workflow |-> "w", source |-> [kind |-> "schedule", ref |-> "n"],
                 digest |-> occurrence[t].digest, input |-> "ok"],
                [kind |-> "schedule", id |-> "n", scope |-> Own], "n")

Dispatch(t) ==
  LET b == OccurrenceId(t, occurrence[t].attempt)
      started == runs' = [runs EXCEPT ![b] = IF @ = 0 THEN 1 ELSE @]
      then(p) == occurrence' = [occurrence EXCEPT ![t].phase = p, ![t].attempt = @ + 1]
      retried == then(IF occurrence[t].attempt + 1 < DispatchAttempts THEN "due" ELSE "failed")
  IN  /\ occurrence[t].phase = "due"
      /\ IF TargetUnavailable(t) \/ DispatchRefusal(t) # "none"
         THEN then("unavailable") /\ UNCHANGED runs /\ NoScheduleFault
         ELSE \/ started /\ then("started") /\ NoScheduleFault
              \/ started /\ retried /\ ScheduleFault
              \/ UNCHANGED runs /\ retried /\ ScheduleFault
      /\ UNCHANGED <<isLocal, declared, schedules, snapshots, rec, op, filled>>

SchedulesNext ==
  \/ \E r \in Releases : Reconcile(r)
  \/ \E o \in Operators : Operate(o)
  \/ \E t \in Ticks \cup RunNowKeys : Fire(t) \/ Dispatch(t)

-----------------------------------------------------------------------------
(* A schedule the program may change: its own, with sound metadata. *)
OursToChange(id) ==
  ValidManaged(Observed(schedules[id])) /\ Owns(schedules[id].scope)

(* Schedule reconciliation never adopts unrelated schedules, and operators *)
(* never touch them: only a schedule that carries sound metadata of this   *)
(* scope is updated, paused or deleted, whatever was listed before.        *)
OnlyManagedAreChanged ==
  [][\A id \in Ids : Present(id) /\ schedules'[id] # schedules[id] => OursToChange(id)]_scheduleVars

(* Every occurrence finds the environment snapshot of its target: the      *)
(* snapshots are retained before the schedule that names them can fire.    *)
TargetIsRetained ==
  /\ \A id \in Ids : Present(id) /\ OursToChange(id) => schedules[id].digest \in snapshots
  /\ \A t \in Ticks \cup RunNowKeys : occurrence[t].phase # "unavailable"

(* One occurrence, and one run-now key, starts at most one run, whatever   *)
(* is retried after an answer was lost.                                    *)
OneRunPerOccurrence ==
  \A t \in Ticks \cup RunNowKeys :
     Cardinality({a \in 0..DispatchAttempts : runs[<<t, a>>] > 0}) <= 1

(* Two releases that plan the same update apply it once: a pause that an   *)
(* operator sets after the first is not lifted by the second, unless the   *)
(* second described the schedule before the first wrote it.                *)
PauseOutlivesRepeats ==
  [][\A id \in Ids :
       Present(id) /\ schedules'[id] # Absent /\ schedules[id].paused /\ ~schedules'[id].paused
       => \/ schedules'[id].digest # schedules[id].digest
          \/ \E r \in Releases : rec[r].phase = "described" /\ rec[r].seen # schedules[id].digest
          \/ \E o \in Operators : op[o].phase = "mutate" /\ op[o].kind = "resume"]_scheduleVars

(* An apply that reports no failure, and whose schedules nobody else wrote *)
(* meanwhile, leaves exactly the schedules it planned for: every desired   *)
(* one with its digest, no other managed one, no trigger lost.             *)
AppliedMeansConverged ==
  \A r \in Releases :
     rec[r].phase = "applying" /\ rec[r].todo = <<>> /\ ~rec[r].failed /\ rec[r].alone =>
       LET desired == DesiredOf(r)
           effective == EffectiveDesired(desired, rec[r].observed, rec[r].decision)
       IN  /\ \A id \in effective :
                 Present(id) /\ WantedChange(desired[id], Observed(schedules[id])) = None
           /\ \A id \in Ids \ effective :
                 Present(id) /\ OursToChange(id) =>
                    schedules[id].scope = None /\ rec[r].decision = "retain"
           /\ \A id \in DOMAIN desired \ effective :
                 \E i \in Ids : Present(i) /\ schedules[i].name = desired[id].name

(* A backfill that was accepted asks for no more actions than allowed. *)
BackfillIsBounded == filled <= MaxActions
=============================================================================
