------------------- MODULE ConfigurationActivationProofs -------------------
(***************************************************************************)
(* Proofs about ConfigurationActivation, for any activations, revisions,   *)
(* controllers and calls, and for any number of crashes, failures and      *)
(* expired leases.                                                         *)
(*                                                                         *)
(* The inductive invariant has four layers, each on top of the first.      *)
(* Typed: what every record and every call by itself has confirmed at the  *)
(* point it has reached, and how the copy a call works on relates to the   *)
(* record in the store: it is the record, or the record has moved on.      *)
(* Line: the switches of the pointer.  Rollbacks: what a rollback          *)
(* replaces.  Rivalry: who works under the lease, and whose plan is fresh. *)
(***************************************************************************)
EXTENDS ConfigurationActivation, TLAPS

Working == Stages \cup {"start", "waiting", "prepare", "apply", "failing", "superseding"}

-----------------------------------------------------------------------------
(* Layer one: records and calls by themselves.                             *)

\* A record that was created, with the confirmations its state stands for.
Good(r) ==
    /\ r \in Records
    /\ r.version >= 1
    /\ r.state # "none"
    /\ r.target \in Revisions
    /\ "readiness" \in r.checkpoints => (r.worker_action => r.worker_readiness)
    /\ r.state \in {"applied", "rolled_back"} =>
         Needed(r) \cup {"pointer", "index"} \subseteq r.checkpoints

\* A call that has reached a stage has confirmed what precedes it.
Confirmed(x) ==
    LET done == x.rec.checkpoints IN
    /\ x.pc \in {"rollout", "readiness", "schedules", "catalog", "routing", "pointer",
                 "index", "apply"} => "definitions" \in done
    /\ x.pc \in {"schedules", "catalog", "routing", "pointer", "index", "apply"}
         => "readiness" \in done
    /\ x.pc \in {"catalog", "routing", "pointer", "index", "apply"} /\ x.rec.schedule_action
         => "schedules" \in done
    /\ x.pc \in {"routing", "pointer", "index", "apply"} /\ x.rec.definition_action
         => "catalog" \in done
    /\ x.pc \in {"pointer", "index", "apply"} /\ x.rec.routing_action => "routing" \in done
    /\ x.pc \in {"index", "apply"} => "pointer" \in done
    /\ x.pc = "apply" => "index" \in done
    /\ x.pc = "readiness" /\ x.step = "note" => (x.rec.worker_action => x.rec.worker_readiness)

Local(x) ==
    /\ x \in TaskStates
    /\ x.pc \notin {"idle", "mark"} => x.act \in Activations
    /\ x.pc = "mark" => x.orig.act \in Activations
    /\ x.pc = "plan" => /\ x.rec.target \in Revisions
                        /\ x.rec.checkpoints = {}
    /\ x.pc \in Working => Good(x.rec) /\ Confirmed(x)

\* A write of a record: the plan is not touched, nothing is undone, the version
\* grows by one.
SamePlan(r, s) ==
    /\ s.target = r.target /\ s.rollback_of = r.rollback_of
    /\ s.expected_revision = r.expected_revision /\ s.expected_version = r.expected_version
    /\ s.expected_aliases = r.expected_aliases /\ s.worker_action = r.worker_action
    /\ s.definition_action = r.definition_action /\ s.routing_action = r.routing_action
    /\ s.schedule_action = r.schedule_action

Grows(r, s) ==
    /\ SamePlan(r, s)
    /\ r.checkpoints \subseteq s.checkpoints
    /\ r.worker_readiness => s.worker_readiness

\* The copy a call works on is the record in the store, or the record has moved on.
Copied(x, A) ==
    x.pc \in Working =>
        /\ A[x.act] # NoRecord
        /\ x.rec.version <= A[x.act].version
        /\ x.rec.version = A[x.act].version => x.rec = A[x.act]
        /\ Grows(x.rec, A[x.act])

\* What a rollback remembers of the activation it rolls back: it was applied, and
\* still is while its version is the same.  A is the store.
OrigOK(x, A) ==
    \/ x.orig = NoOriginal
    \/ /\ x.orig.act \in Activations
       /\ A[x.orig.act] # NoRecord
       /\ x.orig.version <= A[x.orig.act].version
       /\ x.orig.version = A[x.orig.act].version => A[x.orig.act].state = "applied"

StoreOK ==
    /\ acts \in [Activations -> Records]
    /\ \A a \in Activations : acts[a] = NoRecord \/ Good(acts[a])

SharedOK ==
    /\ pointer \in [revision : Revs, version : Nat]
    /\ aliases \in AliasValues
    /\ objects \subseteq AliasValues
    /\ schedules \in ScheduleValues
    /\ rolled \subseteq Revisions
    /\ routed \in Revs
    /\ index \in [Processes -> Revs]

HistoryOK == expired \subseteq Activations /\ overtaken \subseteq Activations

TaskOK(x, A) ==
    /\ Local(x)
    /\ x.pc = "acquire" => A[x.act] # NoRecord
    /\ OrigOK(x, A)
    /\ Copied(x, A)

TasksOK == /\ task \in [Tasks -> TaskStates]
           /\ \A t \in Tasks : TaskOK(task[t], acts)

Typed == StoreOK /\ SharedOK /\ HistoryOK /\ TasksOK

-----------------------------------------------------------------------------
(* The operators on records.                                               *)

\* One write: what was confirmed stays, the version grows by one, the state moves as
\* transition_activation allows.
Follows(r, s) ==
    /\ Grows(r, s)
    /\ s.version = r.version + 1
    /\ s.state = r.state \/ s.state \in Allowed[r.state]

LEMMA RecordFields ==
    /\ \A r \in Revs : WorkflowsOf(r) \in AliasValues /\ SchedulesOf(r) \in ScheduleValues
    /\ NoRecord \in Records /\ NoRecord.version = 0 /\ NoRecord.state = "none"
    /\ NoRecord.checkpoints = {} /\ ~NoRecord.worker_readiness
    /\ NoRecord.lease_owner = NoProcess
    /\ Revisions \subseteq Revs /\ NoRevision \in Revs /\ First \in Revs
  BY ActivationConstants DEF NoRecord, Records, AliasValues, ScheduleValues, Revs, States,
     Stages

LEMMA IdleFields ==
    /\ Idle \in TaskStates /\ Idle.pc = "idle" /\ Idle.act = NoActivation
    /\ Idle.orig = NoOriginal /\ Idle.rec = NoRecord /\ Idle.step = "do"
    /\ \A A : TaskOK(Idle, A)
<1>1. /\ Idle \in TaskStates /\ Idle.pc = "idle" /\ Idle.act = NoActivation
      /\ Idle.orig = NoOriginal /\ Idle.rec = NoRecord /\ Idle.step = "do"
  BY RecordFields DEF Idle, TaskStates, NoOriginal
<1>2. \A A : TaskOK(Idle, A)
  BY <1>1 DEF TaskOK, Local, OrigOK, Copied, Working, Stages
<1> QED BY <1>1, <1>2

LEMMA FieldsWritten ==
    ASSUME NEW r, r \in Records
    PROVE  /\ \A v \in Nat, w \in States, n \in Nat :
                [r EXCEPT !.state = w, !.version = v, !.transitions = n] \in Records
           /\ \A v \in Nat, c \in SUBSET Stages :
                [r EXCEPT !.checkpoints = c, !.version = v] \in Records
           /\ \A v \in Nat : [r EXCEPT !.worker_readiness = TRUE, !.version = v] \in Records
           /\ \A v \in Nat, p \in Processes :
                [r EXCEPT !.lease_owner = p, !.version = v] \in Records
           /\ \A v \in Nat : [r EXCEPT !.version = v] \in Records
           /\ r.version \in Nat /\ r.version + 1 \in Nat /\ r.transitions + 1 \in Nat
           /\ r.checkpoints \in SUBSET Stages
<1>1. \A v \in Nat, w \in States, n \in Nat :
        [r EXCEPT !.state = w, !.version = v, !.transitions = n] \in Records
  BY DEF Records
<1>2. \A v \in Nat, c \in SUBSET Stages :
        [r EXCEPT !.checkpoints = c, !.version = v] \in Records
  BY DEF Records
<1>3. \A v \in Nat : [r EXCEPT !.worker_readiness = TRUE, !.version = v] \in Records
  BY DEF Records
<1>4. \A v \in Nat, p \in Processes :
        [r EXCEPT !.lease_owner = p, !.version = v] \in Records
  BY DEF Records
<1>5. \A v \in Nat : [r EXCEPT !.version = v] \in Records
  BY DEF Records
<1>6. /\ r.version \in Nat /\ r.version + 1 \in Nat /\ r.transitions + 1 \in Nat
      /\ r.checkpoints \in SUBSET Stages
  BY DEF Records
<1> QED BY <1>1, <1>2, <1>3, <1>4, <1>5, <1>6

LEMMA TransitionWrites ==
    ASSUME NEW r, Good(r), NEW state \in States, MayTransition(r, state),
           state = "rolled_back" => r.state = "applied",
           state = "applied" => Needed(r) \cup {"pointer", "index"} \subseteq r.checkpoints
    PROVE  /\ Good(transition_activation(r, state))
           /\ Follows(r, transition_activation(r, state))
           /\ transition_activation(r, state).state = state
           /\ transition_activation(r, state).lease_owner = r.lease_owner
           /\ transition_activation(r, state).checkpoints = r.checkpoints
<1> DEFINE s == transition_activation(r, state)
<1>1. /\ s \in Records /\ s.state = state /\ s.version = r.version + 1
      /\ s.lease_owner = r.lease_owner
      /\ s.checkpoints = r.checkpoints /\ s.worker_readiness = r.worker_readiness
      /\ SamePlan(r, s)
  <2>1. r \in Records
    BY DEF Good
  <2>2. s \in Records
    BY <2>1, FieldsWritten DEF transition_activation
  <2>3. QED BY <2>1, <2>2 DEF transition_activation, Records, SamePlan
<1>2. state # "none"
  BY DEF MayTransition, Allowed, Good, Records, States
<1>3. Needed(s) = Needed(r)
  BY <1>1 DEF Needed, SamePlan
<1>4. Good(s)
  <2>1. s.version >= 1
    BY <1>1 DEF Good, Records
  <2>2. s.state \in {"applied", "rolled_back"} =>
          Needed(s) \cup {"pointer", "index"} \subseteq s.checkpoints
    BY <1>1, <1>3 DEF Good
  <2> HIDE DEF s
  <2> QED BY <1>1, <1>2, <2>1, <2>2 DEF Good, SamePlan
<1>5. Follows(r, s)
  <2> HIDE DEF s
  <2> QED BY <1>1 DEF Follows, Grows, MayTransition
<1> QED BY <1>1, <1>4, <1>5

LEMMA ReleaseKeeps ==
    ASSUME NEW r, Good(r)
    PROVE  /\ Good(release_lease(r)) /\ Grows(r, release_lease(r))
           /\ release_lease(r).version = r.version /\ release_lease(r).state = r.state
           /\ release_lease(r).lease_owner = NoProcess
           /\ release_lease(r).checkpoints = r.checkpoints
           /\ \A q : Follows(q, r) => Follows(q, release_lease(r))
<1> DEFINE s == release_lease(r)
<1>1. /\ s \in Records /\ s.state = r.state /\ s.version = r.version
      /\ s.lease_owner = NoProcess
      /\ s.checkpoints = r.checkpoints /\ s.worker_readiness = r.worker_readiness
      /\ SamePlan(r, s)
  BY DEF release_lease, Good, Records, SamePlan
<1> HIDE DEF s
<1>2. Needed(s) = Needed(r)
  BY <1>1 DEF Needed, SamePlan
<1>3. Good(s)
  BY <1>1, <1>2 DEF Good, SamePlan
<1>4. \A q : Follows(q, r) => Follows(q, s)
  BY <1>1 DEF Follows, Grows, SamePlan
<1> QED BY <1>1, <1>3, <1>4 DEF Grows, s

LEMMA CheckpointWrites ==
    ASSUME NEW r, Good(r), NEW kind \in Stages,
           kind = "readiness" => (r.worker_action => r.worker_readiness)
    PROVE  /\ Good(record_activation_checkpoint(r, kind))
           /\ Follows(r, record_activation_checkpoint(r, kind))
           /\ record_activation_checkpoint(r, kind).checkpoints = r.checkpoints \cup {kind}
           /\ record_activation_checkpoint(r, kind).lease_owner = r.lease_owner
           /\ record_activation_checkpoint(r, kind).state = r.state
<1> DEFINE s == record_activation_checkpoint(r, kind)
<1>1. /\ s \in Records /\ s.state = r.state /\ s.version = r.version + 1
      /\ s.checkpoints = r.checkpoints \cup {kind} /\ s.worker_readiness = r.worker_readiness
      /\ s.lease_owner = r.lease_owner /\ SamePlan(r, s)
  <2>1. r \in Records
    BY DEF Good
  <2>2. s \in Records
    BY <2>1, FieldsWritten DEF record_activation_checkpoint
  <2>3. QED BY <2>1, <2>2 DEF record_activation_checkpoint, Records, SamePlan
<1>2. r.version \in Nat
  BY DEF Good, Records
<1> HIDE DEF s
<1>3. Needed(s) = Needed(r)
  BY <1>1 DEF Needed, SamePlan
<1>4. Good(s)
  BY <1>1, <1>2, <1>3 DEF Good, SamePlan
<1> QED BY <1>1, <1>4 DEF Follows, Grows, s

LEMMA ReadinessWrites ==
    ASSUME NEW r, Good(r)
    PROVE  /\ Good(register_worker_readiness(r)) /\ Follows(r, register_worker_readiness(r))
           /\ register_worker_readiness(r).worker_readiness
           /\ register_worker_readiness(r).checkpoints = r.checkpoints
           /\ register_worker_readiness(r).lease_owner = r.lease_owner
           /\ register_worker_readiness(r).state = r.state
<1> DEFINE s == register_worker_readiness(r)
<1>1. /\ s \in Records /\ s.state = r.state /\ s.version = r.version + 1
      /\ s.checkpoints = r.checkpoints /\ s.worker_readiness = TRUE
      /\ s.lease_owner = r.lease_owner /\ SamePlan(r, s)
  <2>1. r \in Records
    BY DEF Good
  <2>2. s \in Records
    BY <2>1, FieldsWritten DEF register_worker_readiness
  <2>3. QED BY <2>1, <2>2 DEF register_worker_readiness, Records, SamePlan
<1>2. r.version \in Nat
  BY DEF Good, Records
<1> HIDE DEF s
<1>3. Needed(s) = Needed(r)
  BY <1>1 DEF Needed, SamePlan
<1>4. Good(s)
  BY <1>1, <1>2, <1>3 DEF Good, SamePlan
<1> QED BY <1>1, <1>4 DEF Follows, Grows, s

LEMMA LeaseWrites ==
    ASSUME NEW r, Good(r), NEW p \in Processes
    PROVE  /\ Good(acquire_activation_lease(r, p))
           /\ Follows(r, acquire_activation_lease(r, p))
           /\ acquire_activation_lease(r, p).lease_owner = p
           /\ acquire_activation_lease(r, p).checkpoints = r.checkpoints
           /\ acquire_activation_lease(r, p).state = r.state
<1> DEFINE s == acquire_activation_lease(r, p)
<1>1. /\ s \in Records /\ s.state = r.state /\ s.version = r.version + 1
      /\ s.checkpoints = r.checkpoints /\ s.worker_readiness = r.worker_readiness
      /\ s.lease_owner = p /\ SamePlan(r, s)
  <2>1. r \in Records
    BY DEF Good
  <2>2. s \in Records
    BY <2>1, FieldsWritten DEF acquire_activation_lease
  <2>3. QED BY <2>1, <2>2 DEF acquire_activation_lease, Records, SamePlan
<1>2. r.version \in Nat
  BY DEF Good, Records
<1> HIDE DEF s
<1>3. Needed(s) = Needed(r)
  BY <1>1 DEF Needed, SamePlan
<1>4. Good(s)
  BY <1>1, <1>2, <1>3 DEF Good, SamePlan
<1> QED BY <1>1, <1>4 DEF Follows, Grows, s

\* A record whose lease is given up by a waiting call, without a transition.
LEMMA WaitOnWrites ==
    ASSUME NEW r, Good(r)
    PROVE  /\ Good([release_lease(r) EXCEPT !.version = @ + 1])
           /\ Follows(r, [release_lease(r) EXCEPT !.version = @ + 1])
           /\ [release_lease(r) EXCEPT !.version = @ + 1].checkpoints = r.checkpoints
           /\ [release_lease(r) EXCEPT !.version = @ + 1].state = r.state
           /\ [release_lease(r) EXCEPT !.version = @ + 1].lease_owner = NoProcess
<1> DEFINE s == [release_lease(r) EXCEPT !.version = @ + 1]
<1>1. /\ s \in Records /\ s.state = r.state /\ s.version = r.version + 1
      /\ s.checkpoints = r.checkpoints /\ s.worker_readiness = r.worker_readiness
      /\ s.lease_owner = NoProcess /\ SamePlan(r, s)
  <2>1. release_lease(r) \in Records
    BY ReleaseKeeps DEF Good
  <2>2. s \in Records
    BY <2>1, FieldsWritten
  <2>3. QED BY <2>1, <2>2 DEF release_lease, Good, Records, SamePlan
<1>2. r.version \in Nat
  BY DEF Good, Records
<1> HIDE DEF s
<1>3. Needed(s) = Needed(r)
  BY <1>1 DEF Needed, SamePlan
<1>4. Good(s)
  BY <1>1, <1>2, <1>3 DEF Good, SamePlan
<1> QED BY <1>1, <1>4 DEF Follows, Grows, s
-----------------------------------------------------------------------------
(* Every step: the store only moves forward, and one call moves.           *)

PCs == Stages \cup {"idle", "plan", "acquire", "start", "waiting", "prepare", "apply",
                    "mark", "failing", "superseding"}
Steps == {"do", "swap", "note"}

\* A record stays, is created by a plan, or is written once.
Forward(r, s) ==
    \/ s = r
    \/ r = NoRecord /\ Good(s) /\ s.state = "pending" /\ s.checkpoints = {}
    \/ r # NoRecord /\ Good(s) /\ Follows(r, s)

StoreGrows ==
    /\ acts' \in [Activations -> Records]
    /\ \A a \in Activations : Forward(acts[a], acts'[a])

LEMMA GrowsFollows ==
    /\ \A r : Grows(r, r)
    /\ \A q, r, s : Grows(q, r) /\ Follows(r, s) => Grows(q, s)
  BY DEF Grows, Follows, SamePlan

\* What a call knows stays true while the store moves forward.
LEMMA StoreGrowsKeeps ==
    ASSUME StoreOK, StoreGrows
    PROVE  /\ StoreOK'
           /\ \A a \in Activations : acts[a] # NoRecord =>
                 /\ acts'[a] # NoRecord
                 /\ acts'[a] = acts[a] \/ acts[a].version < acts'[a].version
                 /\ \A r : Grows(r, acts[a]) => Grows(r, acts'[a])
           /\ \A x : TaskOK(x, acts) => TaskOK(x, acts')
<1>1. \A a \in Activations : acts'[a] = NoRecord \/ Good(acts'[a])
  BY DEF StoreOK, StoreGrows, Forward
<1>2. ASSUME NEW a \in Activations, acts[a] # NoRecord
      PROVE  /\ acts'[a] # NoRecord
             /\ acts'[a] = acts[a] \/ acts[a].version < acts'[a].version
             /\ \A r : Grows(r, acts[a]) => Grows(r, acts'[a])
  <2>1. CASE acts'[a] = acts[a]
    BY <2>1, <1>2
  <2>2. CASE Good(acts'[a]) /\ Follows(acts[a], acts'[a])
    <3>1. acts[a].version \in Nat
      BY DEF StoreOK, Records
    <3>2. acts'[a] # NoRecord
      BY <2>2, RecordFields DEF Good
    <3> QED BY <2>2, <3>1, <3>2, GrowsFollows DEF Follows
  <2> QED BY <2>1, <2>2, <1>2 DEF StoreGrows, Forward
<1>3. ASSUME NEW x, TaskOK(x, acts)
      PROVE  TaskOK(x, acts')
  <2>1. OrigOK(x, acts')
    <3>1. CASE x.orig = NoOriginal
      BY <3>1 DEF OrigOK
    <3>2. CASE x.orig # NoOriginal
      <4> DEFINE b == x.orig.act
      <4>1. /\ b \in Activations /\ acts[b] # NoRecord
            /\ x.orig.version <= acts[b].version
            /\ x.orig.version = acts[b].version => acts[b].state = "applied"
        BY <1>3, <3>2 DEF TaskOK, OrigOK
      <4>2. x.orig.version \in Nat /\ acts[b].version \in Nat /\ acts'[b].version \in Nat
        BY <4>1, <1>3 DEF TaskOK, Local, TaskStates, StoreOK, Records, StoreGrows
      <4>3. acts'[b] # NoRecord /\ (acts'[b] = acts[b] \/ acts[b].version < acts'[b].version)
        BY <4>1, <1>2
      <4> HIDE DEF b
      <4>4. /\ x.orig.version <= acts'[b].version
            /\ x.orig.version = acts'[b].version => acts'[b].state = "applied"
        BY <4>1, <4>2, <4>3
      <4> QED BY <4>1, <4>3, <4>4 DEF OrigOK, b
    <3> QED BY <3>1, <3>2
  <2>2. Copied(x, acts')
    <3> SUFFICES ASSUME x.pc \in Working
                 PROVE  /\ acts'[x.act] # NoRecord
                        /\ x.rec.version <= acts'[x.act].version
                        /\ x.rec.version = acts'[x.act].version => x.rec = acts'[x.act]
                        /\ Grows(x.rec, acts'[x.act])
      BY DEF Copied
    <3> DEFINE b == x.act
    <3>1. /\ b \in Activations /\ acts[b] # NoRecord
          /\ x.rec.version <= acts[b].version
          /\ x.rec.version = acts[b].version => x.rec = acts[b]
          /\ Grows(x.rec, acts[b])
      BY <1>3 DEF TaskOK, Copied, Local, Working, Stages
    <3>2. x.rec.version \in Nat /\ acts[b].version \in Nat /\ acts'[b].version \in Nat
      BY <3>1, <1>3 DEF TaskOK, Local, TaskStates, StoreOK, Records, StoreGrows
    <3>3. /\ acts'[b] # NoRecord /\ (acts'[b] = acts[b] \/ acts[b].version < acts'[b].version)
          /\ Grows(x.rec, acts'[b])
      BY <3>1, <1>2
    <3> HIDE DEF b
    <3>4. /\ x.rec.version <= acts'[b].version
          /\ x.rec.version = acts'[b].version => x.rec = acts'[b]
      BY <3>1, <3>2, <3>3
    <3> QED BY <3>3, <3>4 DEF b
  <2>3. x.pc = "acquire" => acts'[x.act] # NoRecord
    BY <1>2, <1>3 DEF TaskOK, Local
  <2> QED BY <1>3, <2>1, <2>2, <2>3 DEF TaskOK
<1> QED BY <1>1, <1>2, <1>3 DEF StoreOK, StoreGrows

LEMMA StoreStays ==
    ASSUME StoreOK, UNCHANGED acts
    PROVE  StoreGrows
  BY DEF StoreOK, StoreGrows, Forward

LEMMA StoreWritten ==
    ASSUME StoreOK, NEW a \in Activations, NEW s, Good(s),
           acts[a] = NoRecord => s.state = "pending" /\ s.checkpoints = {},
           acts[a] # NoRecord => Follows(acts[a], s),
           acts' = [acts EXCEPT ![a] = s]
    PROVE  StoreGrows /\ acts'[a] = s /\ acts'[a] # NoRecord
  BY RecordFields DEF StoreOK, StoreGrows, Forward, Good

\* A step of one call.
LEMMA CallMoves ==
    ASSUME Typed, StoreGrows, SharedOK', HistoryOK',
           NEW t \in Tasks, NEW y, task' = [task EXCEPT ![t] = y],
           y = Idle \/ TaskOK(y, acts')
    PROVE  Typed'
<1>1. StoreOK' /\ \A x : TaskOK(x, acts) => TaskOK(x, acts')
  BY StoreGrowsKeeps DEF Typed
<1>2. TaskOK(y, acts') /\ y \in TaskStates
  BY IdleFields DEF TaskOK, Local
<1>3. task' \in [Tasks -> TaskStates]
  BY <1>2 DEF Typed, TasksOK
<1>4. ASSUME NEW u \in Tasks PROVE TaskOK(task'[u], acts')
  <2>1. CASE u = t
    BY <2>1, <1>2 DEF Typed, TasksOK
  <2>2. CASE u # t
    <3>1. task'[u] = task[u]
      BY <2>2 DEF Typed, TasksOK
    <3>2. TaskOK(task[u], acts)
      BY DEF Typed, TasksOK
    <3> QED BY <3>1, <3>2, <1>1
  <2> QED BY <2>1, <2>2
<1> QED BY <1>1, <1>3, <1>4 DEF Typed, TasksOK

\* A call that goes on with the copy it has.
LEMMA GoesOn ==
    ASSUME Typed, NEW t \in Tasks, task[t].pc \in Working, NEW y, y \in TaskStates,
           y.act = task[t].act, y.rec = task[t].rec, y.orig = task[t].orig,
           y.pc \in Working, Confirmed(y)
    PROVE  TaskOK(y, acts)
<1>1. TaskOK(task[t], acts)
  BY DEF Typed, TasksOK
<1> QED BY <1>1 DEF TaskOK, Local, Copied, OrigOK, Working, Stages

\* What update_activation does: nothing, and the call ends; or the record is written
\* with the copy extended, and the call goes on at p.
Wrote(t, s, p) ==
    \/ UNCHANGED acts /\ task' = [task EXCEPT ![t] = Idle]
    \/ /\ acts[task[t].act] = task[t].rec
       /\ acts' = [acts EXCEPT ![task[t].act] = s]
       /\ \E y \in TaskStates :
            /\ task' = [task EXCEPT ![t] = y]
            /\ p = "idle" => y = Idle
            /\ p # "idle" => /\ y.pc = p /\ y.step = "do" /\ y.rec = s
                             /\ y.act = task[t].act /\ y.orig = task[t].orig

\* update_activation writes what the copy says, or the call has lost the race.
LEMMA UpdateWrites ==
    ASSUME Typed, NEW t \in Tasks, task[t].pc \in Working, NEW s, NEW p,
           Good(s), Follows(task[t].rec, s), Update(t, s, p),
           p = "idle" \/ (p \in Working /\ \A y : y.pc = p /\ y.step = "do" /\ y.rec = s
                                                     => Confirmed(y)),
           SharedOK', HistoryOK'
    PROVE  Typed' /\ StoreGrows /\ Wrote(t, s, p)
<1> DEFINE a == task[t].act
<1>1. /\ a \in Activations /\ acts[a] # NoRecord /\ task[t] \in TaskStates
      /\ task[t].rec.version = acts[a].version => task[t].rec = acts[a]
      /\ OrigOK(task[t], acts)
  BY DEF Typed, TasksOK, TaskOK, Local, Copied, Working, Stages
<1>2. CASE acts[a].version # task[t].rec.version
  <2>1. UNCHANGED acts /\ task' = [task EXCEPT ![t] = Idle]
    BY <1>2 DEF Update, SetTask
  <2>2. StoreGrows
    BY <2>1, StoreStays DEF Typed
  <2> QED BY <2>1, <2>2, CallMoves DEF Wrote
<1>3. CASE acts[a].version = task[t].rec.version
  <2> DEFINE z == [task[t] EXCEPT !.rec = s, !.pc = p, !.step = "do"]
             y == IF p = "idle" THEN Idle ELSE z
  <2>1. acts[a] = task[t].rec /\ acts' = [acts EXCEPT ![a] = s] /\ task' = [task EXCEPT ![t] = y]
    BY <1>1, <1>3 DEF Update, SetTask
  <2>2. StoreGrows /\ acts'[a] = s /\ acts'[a] # NoRecord
    BY <2>1, <1>1, StoreWritten DEF Typed
  <2>3. /\ s \in Records /\ p \in PCs
    BY DEF Good, PCs, Working, Stages
  <2>4. /\ z \in TaskStates /\ z.pc = p /\ z.step = "do" /\ z.rec = s
        /\ z.act = a /\ z.orig = task[t].orig
    BY <2>3, <1>1 DEF TaskStates, PCs
  <2> HIDE DEF z
  <2>5. TaskOK(task[t], acts')
    BY <2>2, StoreGrowsKeeps DEF Typed, TasksOK
  <2>6. CASE p # "idle"
    <3>1. p \in Working /\ Confirmed(z)
      BY <2>6, <2>4
    <3>2. OrigOK(z, acts')
      BY <2>5, <2>4 DEF TaskOK, OrigOK
    <3>3. Copied(z, acts')
      <4>1. s.version \in Nat
        BY <2>3 DEF Records
      <4> QED BY <2>2, <2>4, <4>1, GrowsFollows DEF Copied
    <3>4. Local(z)
      BY <2>4, <3>1, <1>1 DEF Local, Working, Stages
    <3>5. TaskOK(z, acts')
      BY <3>2, <3>3, <3>4, <2>4, <3>1 DEF TaskOK, Working, Stages
    <3>6. Typed'
      BY <3>5, <2>6, <2>1, <2>2, CallMoves
    <3> QED BY <3>6, <2>1, <2>2, <2>4, <2>6 DEF Wrote
  <2>7. CASE p = "idle"
    <3>1. Typed'
      BY <2>7, <2>1, <2>2, CallMoves
    <3> QED BY <3>1, <2>1, <2>2, <2>7, IdleFields DEF Wrote
  <2> QED BY <2>6, <2>7
<1> QED BY <1>2, <1>3
\* A call at work goes on, or ends, without touching the pointer or the aliases.  It
\* may have written its record: a checkpoint, a readiness, a lease given up, a start or
\* a wait.
Runs(t) ==
    /\ task[t].pc \in Working
    /\ UNCHANGED <<expired, overtaken, pointer, aliases>>
    /\ \E y \in TaskStates :
         /\ task' = [task EXCEPT ![t] = y]
         /\ y # Idle => /\ y.pc \in Working \ {"start", "superseding"}
                        /\ y.act = task[t].act /\ y.orig = task[t].orig
                        /\ y.pc = "pointer" => y.step = "do"
                        /\ task[t].pc = "start" =>
                              \/ task[t].rec.state \notin {"none", "pending"}
                              \/ acts'[y.act].state = "running"
         /\ \/ acts' = acts
            \/ \E s : /\ acts[task[t].act] = task[t].rec
                      /\ acts' = [acts EXCEPT ![task[t].act] = s]
                      /\ Good(s) /\ Follows(task[t].rec, s)
                      /\ s.checkpoints \subseteq task[t].rec.checkpoints \cup
                                       (IF task[t].step = "note" THEN {task[t].pc} ELSE {})
                      /\ s.state \in {task[t].rec.state, "running", "waiting"}
                      /\ \/ s.lease_owner = task[t].rec.lease_owner
                         \/ s.lease_owner = NoProcess /\ y = Idle

-----------------------------------------------------------------------------
(* Layer one, action by action.                                            *)

LEMMA CallFacts ==
    ASSUME Typed, NEW t \in Tasks
    PROVE  /\ task[t] \in TaskStates /\ TaskOK(task[t], acts)
           /\ ProcessOf[t] \in Processes
           /\ task[t].pc \in Working => task[t].act \in Activations /\ Good(task[t].rec)
  BY ActivationConstants DEF Typed, TasksOK, TaskOK, Local, Working, Stages

LEMMA SharedStays ==
    ASSUME Typed, UNCHANGED shared
    PROVE  SharedOK'
  BY DEF Typed, SharedOK, shared

LEMMA HistoryStays ==
    ASSUME Typed, UNCHANGED <<expired, overtaken>>
    PROVE  HistoryOK'
  BY DEF Typed, HistoryOK

Planned(r, o, rev, v) ==
    [NoRecord EXCEPT !.target = r, !.rollback_of = o, !.expected_revision = rev,
                     !.expected_version = v]

LEMMA PlannedFields ==
    ASSUME NEW r \in Revs, NEW o \in Activations \cup {NoActivation}, NEW rev \in Revs,
           NEW v \in Nat
    PROVE  /\ Planned(r, o, rev, v) \in Records
           /\ Planned(r, o, rev, v).target = r /\ Planned(r, o, rev, v).rollback_of = o
           /\ Planned(r, o, rev, v).expected_revision = rev
           /\ Planned(r, o, rev, v).expected_version = v
           /\ Planned(r, o, rev, v).checkpoints = {}
<1>1. NoRecord \in Records /\ NoRecord.checkpoints = {}
  BY RecordFields
<1> HIDE DEF NoRecord
<1>2. Planned(r, o, rev, v) \in Records
  BY <1>1 DEF Planned, Records
<1> QED BY <1>1, <1>2 DEF Planned, Records

\* The call has read the pointer and is about to plan.
LEMMA PlanFields ==
    ASSUME Typed, NEW t \in Tasks, NEW a \in Activations, NEW r \in Revs, NEW orig,
           orig \in [act : Activations \cup {NoActivation}, version : Nat],
           PlanPointer(t, a, r, orig)
    PROVE  \E y \in TaskStates :
              /\ task' = [task EXCEPT ![t] = y]
              /\ y.pc = "plan" /\ y.step = "do" /\ y.act = a /\ y.orig = orig
              /\ y.rec \in Records /\ y.rec.target = r /\ y.rec.rollback_of = orig.act
              /\ Base(y.rec) = pointer /\ y.rec.checkpoints = {}
<1> DEFINE rec == Planned(r, orig.act, pointer.revision, pointer.version)
           y == [Idle EXCEPT !.pc = "plan", !.act = a, !.orig = orig, !.rec = rec]
<1>1. pointer = [revision |-> pointer.revision, version |-> pointer.version]
      /\ pointer.revision \in Revs /\ pointer.version \in Nat
  BY DEF Typed, SharedOK
<1>2. /\ rec \in Records /\ rec.target = r /\ rec.rollback_of = orig.act
      /\ rec.expected_revision = pointer.revision /\ rec.expected_version = pointer.version
      /\ rec.checkpoints = {}
  BY <1>1, PlannedFields
<1>3. task' = [task EXCEPT ![t] = y]
  BY DEF PlanPointer, SetTask, Planned
<1> HIDE DEF rec
<1>4. /\ y \in TaskStates /\ y.pc = "plan" /\ y.step = "do" /\ y.act = a /\ y.orig = orig
      /\ y.rec = rec
  BY <1>2, IdleFields DEF TaskStates
<1>5. Base(rec) = pointer
  BY <1>1, <1>2 DEF Base
<1> HIDE DEF y
<1> QED BY <1>2, <1>3, <1>4, <1>5

LEMMA PlanTyped ==
    ASSUME Typed, NEW t \in Tasks, NEW a \in Activations, NEW r \in Revisions, NEW orig,
           orig \in [act : Activations \cup {NoActivation}, version : Nat],
           OrigOK([Idle EXCEPT !.orig = orig], acts),
           PlanPointer(t, a, r, orig), UNCHANGED <<acts, expired, overtaken, shared>>
    PROVE  Typed' /\ StoreGrows
<1>1. PICK y \in TaskStates :
              /\ task' = [task EXCEPT ![t] = y]
              /\ y.pc = "plan" /\ y.step = "do" /\ y.act = a /\ y.orig = orig
              /\ y.rec \in Records /\ y.rec.target = r /\ y.rec.rollback_of = orig.act
              /\ Base(y.rec) = pointer /\ y.rec.checkpoints = {}
  <2>1. r \in Revs
    BY RecordFields
  <2> QED BY <2>1, PlanFields
<1>2. StoreGrows /\ SharedOK' /\ HistoryOK' /\ acts' = acts
  BY StoreStays, SharedStays, HistoryStays DEF Typed
<1>3. [Idle EXCEPT !.orig = orig].orig = orig
  BY IdleFields DEF TaskStates
<1>4. TaskOK(y, acts)
  BY <1>1, <1>3 DEF TaskOK, Local, OrigOK, Copied, Working, Stages
<1> QED BY <1>1, <1>2, <1>4, CallMoves

LEMMA ActivateTyped ==
    ASSUME Typed, NEW t \in Tasks, NEW a \in Activations, NEW r \in Revisions,
           Activate(t, a, r)
    PROVE  Typed' /\ StoreGrows
<1>1. NoOriginal \in [act : Activations \cup {NoActivation}, version : Nat]
  BY DEF NoOriginal
<1>2. [Idle EXCEPT !.orig = NoOriginal].orig = NoOriginal
  BY IdleFields DEF TaskStates
<1>3. OrigOK([Idle EXCEPT !.orig = NoOriginal], acts)
  BY <1>2 DEF OrigOK
<1> QED BY <1>1, <1>3, PlanTyped DEF Activate

LEMMA RollbackTyped ==
    ASSUME Typed, NEW t \in Tasks, NEW a \in Activations, NEW b \in Activations,
           Rollback(t, a, b)
    PROVE  Typed' /\ StoreGrows
<1> DEFINE orig == [act |-> b, version |-> acts[b].version]
           old  == [NoOriginal EXCEPT !.act = b]
<1>1. /\ acts[b].state \in {"applied", "rolled_back"} /\ acts[b].expected_revision # NoRevision
      /\ UNCHANGED <<acts, expired, overtaken, shared>>
  BY DEF Rollback
<1>2. /\ acts[b] # NoRecord /\ Good(acts[b]) /\ acts[b].expected_revision \in Revisions
      /\ acts[b].version \in Nat /\ acts[b].version >= 1
  BY <1>1, RecordFields DEF Typed, StoreOK, Good, Records, Revs
<1>3. /\ orig \in [act : Activations \cup {NoActivation}, version : Nat]
      /\ orig.act = b /\ orig.version = acts[b].version
      /\ old \in [act : Activations \cup {NoActivation}, version : Nat]
      /\ old.act = b /\ old.version = 0
  BY <1>2 DEF NoOriginal
<1> HIDE DEF orig, old
<1>4. ASSUME NEW o, o.act = b,
             (o.version = acts[b].version /\ acts[b].state = "applied") \/ o.version = 0,
             o \in [act : Activations \cup {NoActivation}, version : Nat]
      PROVE  OrigOK([Idle EXCEPT !.orig = o], acts)
  <2>1. [Idle EXCEPT !.orig = o].orig = o
    BY IdleFields DEF TaskStates
  <2> QED BY <1>2, <1>4, <2>1 DEF OrigOK
<1>5. CASE PlanPointer(t, a, acts[b].expected_revision, IF acts[b].state = "applied" THEN orig
                                                        ELSE old)
  <2>1. CASE acts[b].state = "applied"
    <3>1. OrigOK([Idle EXCEPT !.orig = orig], acts)
      BY <1>3, <1>4, <2>1
    <3> QED BY <1>1, <1>2, <1>3, <1>5, <2>1, <3>1, PlanTyped
  <2>2. CASE acts[b].state # "applied"
    <3>1. OrigOK([Idle EXCEPT !.orig = old], acts)
      BY <1>3, <1>4
    <3> QED BY <1>1, <1>2, <1>3, <1>5, <2>2, <3>1, PlanTyped
  <2> QED BY <2>1, <2>2
<1>6. CASE /\ acts[a].rollback_of = b /\ acts[b].state = "applied"
           /\ SetTask(t, [Idle EXCEPT !.pc = "acquire", !.act = a, !.orig = orig])
  <2> DEFINE y == [Idle EXCEPT !.pc = "acquire", !.act = a, !.orig = orig]
  <2>1. y \in TaskStates /\ y.pc = "acquire" /\ y.act = a /\ y.orig = orig
    BY <1>3, IdleFields DEF TaskStates
  <2>2. task' = [task EXCEPT ![t] = y]
    BY <1>6 DEF SetTask
  <2> HIDE DEF y
  <2>3. acts[a] # NoRecord
    BY <1>6, ActivationConstants DEF NoRecord
  <2>4. TaskOK(y, acts)
    BY <1>2, <1>3, <1>6, <2>1, <2>3 DEF TaskOK, Local, OrigOK, Copied, Working, Stages
  <2>5. StoreGrows /\ SharedOK' /\ HistoryOK' /\ acts' = acts
    BY <1>1, StoreStays, SharedStays, HistoryStays DEF Typed
  <2> QED BY <2>2, <2>4, <2>5, CallMoves
<1> QED BY <1>5, <1>6 DEF Rollback, orig, old

LEMMA PlanActionsFields ==
    ASSUME Typed, NEW r \in Records, NEW p \in Processes, r.target \in Revisions,
           r.checkpoints = {}
    PROVE  /\ Good(PlanActions(r, p)) /\ PlanActions(r, p).state = "pending"
           /\ PlanActions(r, p).version = 1 /\ PlanActions(r, p).checkpoints = {}
           /\ PlanActions(r, p).target = r.target
           /\ PlanActions(r, p).rollback_of = r.rollback_of
           /\ Base(PlanActions(r, p)) = Base(r)
           /\ PlanActions(r, p).expected_aliases = aliases
           /\ PlanActions(r, p).lease_owner = r.lease_owner
<1>1. /\ \A q \in Records, al \in AliasValues, w \in States, v \in Nat :
           [q EXCEPT !.state = w, !.version = v, !.expected_aliases = al] \in Records
      /\ \A q \in Records, wa, da \in BOOLEAN :
           [q EXCEPT !.worker_action = wa, !.definition_action = da] \in Records
      /\ \A q \in Records, sa, ra \in BOOLEAN :
           [q EXCEPT !.schedule_action = sa, !.routing_action = ra] \in Records
  <2>1. \A q \in Records, al \in AliasValues, w \in States, v \in Nat :
           [q EXCEPT !.state = w, !.version = v, !.expected_aliases = al] \in Records
    BY DEF Records
  <2>2. \A q \in Records, wa, da \in BOOLEAN :
           [q EXCEPT !.worker_action = wa, !.definition_action = da] \in Records
    BY DEF Records
  <2>3. \A q \in Records, sa, ra \in BOOLEAN :
           [q EXCEPT !.schedule_action = sa, !.routing_action = ra] \in Records
    BY DEF Records
  <2> QED BY <2>1, <2>2, <2>3
<1> DEFINE from == r.expected_revision
           unserved == WorkflowsOf(r.target) \notin Registered(p)
           changed == WorkflowsOf(r.target) # WorkflowsOf(from)
           wa == unserved \/ changed \/ index[p] # from \/ from = NoRevision
           da == unserved \/ changed
           sa == SchedulesOf(r.target) # SchedulesOf(from)
           ra == r.target # from
<1>2. wa \in BOOLEAN /\ da \in BOOLEAN /\ sa \in BOOLEAN /\ ra \in BOOLEAN
  OBVIOUS
<1>3. aliases \in AliasValues
  BY DEF Typed, SharedOK
<1>4. PlanActions(r, p) = [r EXCEPT !.state = "pending", !.version = 1,
                               !.expected_aliases = aliases,
                               !.worker_action = wa, !.definition_action = da,
                               !.schedule_action = sa, !.routing_action = ra]
  BY DEF PlanActions
<1> HIDE DEF wa, da, sa, ra
<1> DEFINE s == PlanActions(r, p)
<1>5. /\ s \in Records /\ s.state = "pending" /\ s.version = 1
      /\ s.checkpoints = r.checkpoints /\ s.target = r.target
      /\ s.rollback_of = r.rollback_of
      /\ s.expected_revision = r.expected_revision
      /\ s.expected_version = r.expected_version
      /\ s.expected_aliases = aliases /\ s.lease_owner = r.lease_owner
  <2>1. "pending" \in States /\ 1 \in Nat
    BY DEF States
  <2> DEFINE q1 == [r EXCEPT !.state = "pending", !.version = 1, !.expected_aliases = aliases]
             q2 == [q1 EXCEPT !.worker_action = wa, !.definition_action = da]
             q3 == [q2 EXCEPT !.schedule_action = sa, !.routing_action = ra]
  <2>2. q1 \in Records
    BY <1>1, <1>3, <2>1
  <2>3. q2 \in Records
    <3> HIDE DEF q1
    <3> QED BY <1>1, <1>2, <2>2
  <2>4. q3 \in Records
    <3> HIDE DEF q2
    <3> QED BY <1>1, <1>2, <2>3
  <2>5. s = q3
    BY <1>4
  <2>6. s \in Records
    BY <2>4, <2>5
  <2> QED BY <1>4, <2>6 DEF Records
<1> HIDE DEF s
<1>6. Good(s)
  BY <1>5 DEF Good
<1> QED BY <1>5, <1>6 DEF Base, s

LEMMA CreateTyped ==
    ASSUME Typed, NEW t \in Tasks, Create(t)
    PROVE  Typed' /\ StoreGrows
<1> DEFINE a == task[t].act
           rec == PlanActions(task[t].rec, ProcessOf[t])
           y == [task[t] EXCEPT !.pc = "acquire", !.rec = NoRecord]
<1>1. /\ task[t] \in TaskStates /\ TaskOK(task[t], acts) /\ ProcessOf[t] \in Processes
      /\ task[t].pc = "plan" /\ UNCHANGED <<expired, overtaken, shared>>
  BY CallFacts DEF Create
<1>2. /\ a \in Activations /\ task[t].rec \in Records /\ task[t].rec.target \in Revisions
      /\ task[t].rec.checkpoints = {}
  BY <1>1 DEF TaskOK, Local, TaskStates
<1>3. Good(rec) /\ rec.state = "pending" /\ rec.checkpoints = {}
  BY <1>1, <1>2, PlanActionsFields
<1> HIDE DEF rec
<1>4. SharedOK' /\ HistoryOK'
  BY <1>1, SharedStays, HistoryStays
<1>5. CASE acts[a] = NoRecord
  <2>1. acts' = [acts EXCEPT ![a] = rec] /\ task' = [task EXCEPT ![t] = y]
    BY <1>5 DEF Create, SetTask, rec
  <2>2. StoreGrows /\ acts'[a] # NoRecord
    BY <1>2, <1>3, <1>5, <2>1, StoreWritten DEF Typed
  <2>3. /\ y \in TaskStates /\ y.pc = "acquire" /\ y.act = a /\ y.orig = task[t].orig
    BY <1>1, RecordFields DEF TaskStates
  <2>4. TaskOK(task[t], acts')
    BY <1>1, <2>2, StoreGrowsKeeps DEF Typed
  <2> HIDE DEF y
  <2>5. TaskOK(y, acts')
    BY <1>2, <2>2, <2>3, <2>4 DEF TaskOK, Local, OrigOK, Copied, Working, Stages
  <2> QED BY <1>4, <2>1, <2>2, <2>5, CallMoves
<1>6. CASE acts[a] # NoRecord
  <2>1. UNCHANGED acts /\ task' = [task EXCEPT ![t] = Idle]
    BY <1>6 DEF Create, SetTask
  <2>2. StoreGrows
    BY <2>1, StoreStays DEF Typed
  <2> QED BY <1>4, <2>1, <2>2, CallMoves
<1> QED BY <1>5, <1>6

\* A call that starts at the lease.
LEMMA EnterFields ==
    ASSUME NEW a \in Activations
    PROVE  LET y == [Idle EXCEPT !.pc = "acquire", !.act = a]
           IN  /\ y \in TaskStates /\ y.pc = "acquire" /\ y.step = "do" /\ y.act = a
               /\ y.orig = NoOriginal
               /\ \A A : A[a] # NoRecord => TaskOK(y, A)
<1> DEFINE y == [Idle EXCEPT !.pc = "acquire", !.act = a]
<1>1. y \in TaskStates /\ y.pc = "acquire" /\ y.step = "do" /\ y.act = a /\ y.orig = NoOriginal
  BY IdleFields DEF TaskStates
<1> HIDE DEF y
<1>2. ASSUME NEW A, A[a] # NoRecord PROVE TaskOK(y, A)
  BY <1>1, <1>2 DEF TaskOK, Local, OrigOK, Copied, Working, Stages
<1> QED BY <1>1, <1>2 DEF y

LEMMA ResumeTyped ==
    ASSUME Typed, NEW t \in Tasks, NEW a \in Activations, Resume(t, a)
    PROVE  Typed' /\ StoreGrows
<1> DEFINE y == [Idle EXCEPT !.pc = "acquire", !.act = a]
<1>1. /\ acts[a] # NoRecord /\ task' = [task EXCEPT ![t] = y]
      /\ UNCHANGED <<acts, expired, overtaken, shared>>
  BY DEF Resume, SetTask
<1>2. TaskOK(y, acts)
  BY <1>1, EnterFields
<1> HIDE DEF y
<1>3. StoreGrows /\ SharedOK' /\ HistoryOK' /\ acts' = acts
  BY <1>1, StoreStays, SharedStays, HistoryStays DEF Typed
<1> QED BY <1>1, <1>2, <1>3, CallMoves

LEMMA RegisterReadinessTyped ==
    ASSUME Typed, NEW t \in Tasks, NEW a \in Activations, RegisterReadiness(t, a)
    PROVE  Typed' /\ StoreGrows
<1> DEFINE y == [Idle EXCEPT !.pc = "acquire", !.act = a]
           s == register_worker_readiness(acts[a])
<1>1. /\ acts[a] # NoRecord /\ task' = [task EXCEPT ![t] = y]
      /\ acts' = [acts EXCEPT ![a] = s]
      /\ UNCHANGED <<expired, overtaken, shared>>
  BY DEF RegisterReadiness, SetTask
<1>2. Good(acts[a])
  BY <1>1 DEF Typed, StoreOK
<1>3. Good(s) /\ Follows(acts[a], s)
  BY <1>2, ReadinessWrites
<1> HIDE DEF s
<1>4. StoreGrows /\ acts'[a] # NoRecord
  BY <1>1, <1>3, StoreWritten DEF Typed
<1>5. TaskOK(y, acts')
  BY <1>4, EnterFields
<1> HIDE DEF y
<1>6. SharedOK' /\ HistoryOK'
  BY <1>1, SharedStays, HistoryStays
<1> QED BY <1>1, <1>4, <1>5, <1>6, CallMoves

LEMMA ReturnMoves ==
    ASSUME Typed, NEW t \in Tasks, NEW state, Return(t, state), StoreGrows,
           SharedOK', HistoryOK'
    PROVE  Typed'
<1>1. CASE state = "applied" /\ task[t].orig # NoOriginal
  <2> DEFINE y == [Idle EXCEPT !.pc = "mark", !.orig = task[t].orig]
  <2>1. task' = [task EXCEPT ![t] = y]
    BY <1>1 DEF Return, SetTask
  <2>2. TaskOK(task[t], acts') /\ task[t] \in TaskStates
    BY CallFacts, StoreGrowsKeeps DEF Typed
  <2>3. y \in TaskStates /\ y.pc = "mark" /\ y.act = NoActivation /\ y.orig = task[t].orig
    BY <2>2, IdleFields DEF TaskStates
  <2> HIDE DEF y
  <2>4. TaskOK(y, acts')
    BY <1>1, <2>2, <2>3 DEF TaskOK, Local, OrigOK, Copied, Working, Stages
  <2> QED BY <2>1, <2>4, CallMoves
<1>2. CASE ~(state = "applied" /\ task[t].orig # NoOriginal)
  <2>1. task' = [task EXCEPT ![t] = Idle]
    BY <1>2 DEF Return, SetTask
  <2> QED BY <2>1, CallMoves
<1> QED BY <1>1, <1>2

LEMMA AcquireTyped ==
    ASSUME Typed, NEW t \in Tasks, Acquire(t)
    PROVE  Typed' /\ StoreGrows
<1> DEFINE a == task[t].act
           leased == acquire_activation_lease(acts[a], ProcessOf[t])
           y == [task[t] EXCEPT !.pc = "start", !.rec = leased]
<1>1. /\ task[t] \in TaskStates /\ TaskOK(task[t], acts) /\ ProcessOf[t] \in Processes
      /\ task[t].pc = "acquire" /\ UNCHANGED shared
  BY CallFacts DEF Acquire
<1>2. a \in Activations /\ acts[a] # NoRecord /\ Good(acts[a])
  BY <1>1 DEF TaskOK, Local, Typed, StoreOK, Working, Stages
<1>3. SharedOK'
  BY <1>1, SharedStays
<1>4. CASE UNCHANGED <<acts, expired, overtaken>>
  <2>1. StoreGrows /\ HistoryOK'
    BY <1>4, StoreStays, HistoryStays DEF Typed
  <2>2. CASE Return(t, acts[a].state)
    BY <2>1, <2>2, <1>3, ReturnMoves
  <2>3. CASE SetTask(t, Idle)
    BY <2>1, <2>3, <1>3, CallMoves DEF SetTask
  <2>4. CASE /\ acts' = [acts EXCEPT ![a] = leased]
             /\ SetTask(t, y)
    <3>1. FALSE
      <4>1. Follows(acts[a], leased)
        BY <1>1, <1>2, LeaseWrites
      <4>2. acts' = acts /\ acts'[a] = leased
        BY <1>2, <1>4, <2>4 DEF Typed, StoreOK
      <4> QED BY <1>2, <4>1, <4>2 DEF Follows, Good, Records
    <3> QED BY <3>1
  <2> QED BY <2>2, <2>3, <2>4 DEF Acquire
<1>5. CASE /\ acts' = [acts EXCEPT ![a] = leased]
           /\ expired' = expired \ {a}
           /\ overtaken' = IF \E u \in Tasks \ {t} : AtWork(u, a, ProcessOf[t])
                           THEN overtaken \cup {a} ELSE overtaken
           /\ SetTask(t, y)
  <2>1. /\ Good(leased) /\ Follows(acts[a], leased)
    BY <1>1, <1>2, LeaseWrites
  <2> HIDE DEF leased
  <2>2. StoreGrows /\ acts'[a] = leased /\ acts'[a] # NoRecord
    BY <1>2, <1>5, <2>1, StoreWritten DEF Typed
  <2>3. HistoryOK'
    BY <1>2, <1>5 DEF Typed, HistoryOK
  <2>4. /\ y \in TaskStates /\ y.pc = "start" /\ y.act = a /\ y.orig = task[t].orig
        /\ y.rec = leased
    BY <1>1, <2>1 DEF TaskStates, Good
  <2>5. TaskOK(task[t], acts')
    BY <1>1, <2>2, StoreGrowsKeeps DEF Typed
  <2>6. task' = [task EXCEPT ![t] = y]
    BY <1>5 DEF SetTask
  <2> HIDE DEF y
  <2>7. Copied(y, acts')
    <3>1. leased.version \in Nat
      BY <2>1 DEF Good, Records
    <3> QED BY <3>1, <2>2, <2>4, GrowsFollows DEF Copied
  <2>8. TaskOK(y, acts')
    BY <1>2, <2>1, <2>2, <2>4, <2>5, <2>7
       DEF TaskOK, Local, OrigOK, Confirmed, Working, Stages
  <2> QED BY <1>3, <2>2, <2>3, <2>6, <2>8, CallMoves
<1> QED BY <1>4, <1>5 DEF Acquire

LEMMA WroteRuns ==
    ASSUME Typed, NEW t \in Tasks, task[t].pc \in Working, NEW s, NEW p,
           Good(s), Follows(task[t].rec, s), Wrote(t, s, p),
           p = "idle" \/ p \in Working \ {"start", "superseding"},
           s.checkpoints \subseteq task[t].rec.checkpoints \cup
                                       (IF task[t].step = "note" THEN {task[t].pc} ELSE {}),
           s.state \in {task[t].rec.state, "running", "waiting"},
           \/ s.lease_owner = task[t].rec.lease_owner
           \/ s.lease_owner = NoProcess /\ p = "idle",
           task[t].pc = "start" /\ p # "idle" => s.state = "running",
           UNCHANGED <<expired, overtaken, pointer, aliases>>
    PROVE  Runs(t)
<1>1. CASE UNCHANGED acts /\ task' = [task EXCEPT ![t] = Idle]
  BY <1>1, IdleFields DEF Runs
<1>2. CASE ~(UNCHANGED acts /\ task' = [task EXCEPT ![t] = Idle])
  <2>1. PICK y \in TaskStates :
            /\ task' = [task EXCEPT ![t] = y]
            /\ p = "idle" => y = Idle
            /\ p # "idle" => /\ y.pc = p /\ y.step = "do" /\ y.rec = s
                             /\ y.act = task[t].act /\ y.orig = task[t].orig
    BY <1>2 DEF Wrote
  <2>2. /\ acts[task[t].act] = task[t].rec
        /\ acts' = [acts EXCEPT ![task[t].act] = s]
    BY <1>2 DEF Wrote
  <2>3. y # Idle => /\ y.pc \in Working \ {"start", "superseding"}
                    /\ y.act = task[t].act /\ y.orig = task[t].orig
                    /\ y.pc = "pointer" => y.step = "do"
                    /\ task[t].pc = "start" => acts'[y.act].state = "running"
    BY <2>1, <2>2, CallFacts DEF Typed, StoreOK
  <2>4. s.lease_owner = task[t].rec.lease_owner \/ (s.lease_owner = NoProcess /\ y = Idle)
    BY <2>1
  <2> QED BY <2>1, <2>2, <2>3, <2>4 DEF Runs
<1> QED BY <1>1, <1>2

LEMMA GotoRuns ==
    ASSUME Typed, NEW t \in Tasks, task[t].pc \in Working,
           NEW p \in Working \ {"start", "superseding"}, Goto(t, p), UNCHANGED acts,
           task[t].pc = "start" => task[t].rec.state \notin {"none", "pending"},
           UNCHANGED <<expired, overtaken, pointer, aliases>>
    PROVE  Runs(t)
<1> DEFINE y == [task[t] EXCEPT !.pc = p, !.step = "do"]
<1>1. task[t] \in TaskStates /\ task' = [task EXCEPT ![t] = y]
  BY CallFacts DEF Goto, SetTask
<1>2. p \in PCs /\ "do" \in Steps
  BY DEF PCs, Steps, Working
<1>3. /\ y \in TaskStates /\ y.pc = p /\ y.step = "do" /\ y.act = task[t].act
      /\ y.rec = task[t].rec /\ y.orig = task[t].orig
  BY <1>1, <1>2 DEF TaskStates, PCs, Steps
<1> HIDE DEF y
<1> QED BY <1>1, <1>3 DEF Runs

LEMMA EffectRuns ==
    ASSUME Typed, NEW t \in Tasks, task[t].pc \in Stages \ {"pointer"}, EffectDone(t),
           UNCHANGED acts, UNCHANGED <<expired, overtaken, pointer, aliases>>
    PROVE  Runs(t)
<1> DEFINE y == [task[t] EXCEPT !.step = "note"]
<1>1. task[t] \in TaskStates /\ task' = [task EXCEPT ![t] = y]
  BY CallFacts DEF EffectDone, SetTask
<1>2. /\ y \in TaskStates /\ y.pc = task[t].pc /\ y.step = "note" /\ y.act = task[t].act
      /\ y.rec = task[t].rec /\ y.orig = task[t].orig
  BY <1>1 DEF TaskStates, PCs, Steps
<1> HIDE DEF y
<1>3. task[t].pc \in Working \ {"start", "superseding"} /\ task[t].pc # "start"
  BY DEF Working, Stages
<1> QED BY <1>1, <1>2, <1>3 DEF Runs

LEMMA TransitionMoves ==
    ASSUME Typed, NEW t \in Tasks, task[t].pc \in Working,
           NEW state \in {"running", "waiting"}, NEW release \in BOOLEAN,
           NEW p \in {"idle", "prepare"}, release => p = "idle",
           p = "idle" \/ state = "running",
           Transition(t, state, release, p),
           UNCHANGED <<expired, overtaken, pointer, aliases>>, SharedOK', HistoryOK'
    PROVE  Typed' /\ StoreGrows /\ Runs(t)
<1> DEFINE r == task[t].rec
           moved == transition_activation(r, state)
           s == IF release THEN release_lease(moved) ELSE moved
<1>1. Good(r) /\ state \in States
  BY CallFacts DEF States
<1>2. CASE MayTransition(r, state)
  <2>1. /\ Good(moved) /\ Follows(r, moved) /\ moved.state = state
        /\ moved.checkpoints = r.checkpoints /\ moved.lease_owner = r.lease_owner
    BY <1>1, <1>2, TransitionWrites
  <2>2. /\ Good(s) /\ Follows(r, s) /\ s.state = state
        /\ s.checkpoints = r.checkpoints
        /\ s.lease_owner = r.lease_owner \/ (s.lease_owner = NoProcess /\ p = "idle")
    <3> HIDE DEF moved
    <3> QED BY <2>1, ReleaseKeeps
  <2>3. Update(t, s, p)
    BY <1>2 DEF Transition
  <2> HIDE DEF s
  <2>4. p = "idle" \/ (p \in Working /\ \A y : y.pc = p /\ y.step = "do" /\ y.rec = s
                                                     => Confirmed(y))
    BY DEF Confirmed, Working
  <2>5. Typed' /\ StoreGrows /\ Wrote(t, s, p)
    BY <2>2, <2>3, <2>4, UpdateWrites
  <2>6. p = "idle" \/ p \in Working \ {"start", "superseding"}
    BY <2>4
  <2>7. s.checkpoints \subseteq r.checkpoints \cup
                                (IF task[t].step = "note" THEN {task[t].pc} ELSE {})
    BY <2>2
  <2> QED BY <2>2, <2>5, <2>6, <2>7, WroteRuns
<1>3. CASE ~MayTransition(r, state)
  <2>1. UNCHANGED acts /\ task' = [task EXCEPT ![t] = Idle]
    BY <1>3 DEF Transition, SetTask
  <2>2. StoreGrows
    BY <2>1, StoreStays DEF Typed
  <2>3. Typed'
    BY <2>1, <2>2, CallMoves
  <2> QED BY <2>1, <2>2, <2>3, IdleFields DEF Runs
<1> QED BY <1>2, <1>3

\* The call goes on without a write.
LEMMA GotoTyped ==
    ASSUME Typed, NEW t \in Tasks, task[t].pc \in Working, NEW p \in Working, Goto(t, p),
           \A y : y.pc = p /\ y.step = "do" /\ y.rec = task[t].rec => Confirmed(y),
           UNCHANGED acts, SharedOK', HistoryOK'
    PROVE  Typed' /\ StoreGrows
<1> DEFINE y == [task[t] EXCEPT !.pc = p, !.step = "do"]
<1>1. task[t] \in TaskStates /\ task' = [task EXCEPT ![t] = y]
  BY CallFacts DEF Goto, SetTask
<1>2. p \in PCs /\ "do" \in Steps
  BY DEF PCs, Steps, Working
<1>3. /\ y \in TaskStates /\ y.pc = p /\ y.step = "do" /\ y.act = task[t].act
      /\ y.rec = task[t].rec /\ y.orig = task[t].orig
  BY <1>1, <1>2 DEF TaskStates, PCs, Steps
<1> HIDE DEF y
<1>4. TaskOK(y, acts)
  BY <1>3, GoesOn
<1>5. StoreGrows
  BY StoreStays DEF Typed
<1> QED BY <1>1, <1>4, <1>5, CallMoves

\* The effect of a stage is done, its checkpoint is to be recorded.
LEMMA StepTyped ==
    ASSUME Typed, NEW t \in Tasks, task[t].pc \in Stages, NEW step \in Steps,
           SetTask(t, [task[t] EXCEPT !.step = step]),
           task[t].pc = "readiness" /\ step = "note" =>
                (task[t].rec.worker_action => task[t].rec.worker_readiness),
           UNCHANGED acts, SharedOK', HistoryOK'
    PROVE  Typed' /\ StoreGrows
<1> DEFINE y == [task[t] EXCEPT !.step = step]
<1>1. /\ task[t] \in TaskStates /\ task' = [task EXCEPT ![t] = y] /\ task[t].pc \in Working
      /\ Confirmed(task[t])
  BY CallFacts DEF SetTask, Working, TaskOK, Local
<1>2. /\ y \in TaskStates /\ y.pc = task[t].pc /\ y.step = step /\ y.act = task[t].act
      /\ y.rec = task[t].rec /\ y.orig = task[t].orig
  BY <1>1 DEF TaskStates, PCs, Steps
<1> HIDE DEF y
<1>3. Confirmed(y)
  BY <1>1, <1>2 DEF Confirmed
<1>4. TaskOK(y, acts)
  BY <1>1, <1>2, <1>3, GoesOn
<1>5. StoreGrows
  BY StoreStays DEF Typed
<1> QED BY <1>1, <1>4, <1>5, CallMoves

LEMMA StartOrResumeTyped ==
    ASSUME Typed, NEW t \in Tasks, StartOrResume(t)
    PROVE  Typed' /\ StoreGrows /\ Runs(t)
<1>1. /\ task[t].pc \in Working /\ SharedOK' /\ HistoryOK'
      /\ UNCHANGED <<expired, overtaken, pointer, aliases>>
  BY SharedStays, HistoryStays DEF StartOrResume, Working, shared
<1>2. CASE Transition(t, "running", FALSE, "prepare")
  BY <1>1, <1>2, TransitionMoves
<1>3. CASE /\ Goto(t, IF task[t].rec.state = "running" THEN "prepare" ELSE "waiting")
           /\ UNCHANGED acts /\ task[t].rec.state \in {"running", "waiting"}
  <2> DEFINE p == IF task[t].rec.state = "running" THEN "prepare" ELSE "waiting"
  <2>1. p \in Working \ {"start", "superseding"} /\ p \in Working /\ \A y : y.pc = p => Confirmed(y)
    BY DEF Working, Confirmed
  <2> HIDE DEF p
  <2>2. Goto(t, p) /\ UNCHANGED acts /\ task[t].rec.state \notin {"none", "pending"}
    BY <1>3 DEF p
  <2> QED BY <1>1, <2>1, <2>2, GotoTyped, GotoRuns
<1> QED BY <1>2, <1>3 DEF StartOrResume

LEMMA WaitingForReadinessTyped ==
    ASSUME Typed, NEW t \in Tasks, WaitingForReadiness(t)
    PROVE  Typed' /\ StoreGrows /\ Runs(t)
<1>1. /\ task[t].pc = "waiting" /\ task[t].pc \in Working /\ SharedOK' /\ HistoryOK'
      /\ UNCHANGED <<expired, overtaken, pointer, aliases>>
      /\ Good(task[t].rec)
  BY SharedStays, HistoryStays, CallFacts DEF WaitingForReadiness, Working, shared
<1>2. CASE Transition(t, "running", FALSE, "prepare")
  BY <1>1, <1>2, TransitionMoves
<1>3. CASE Update(t, register_worker_readiness(task[t].rec), "waiting")
  <2> DEFINE s == register_worker_readiness(task[t].rec)
  <2>1. /\ Good(s) /\ Follows(task[t].rec, s) /\ Update(t, s, "waiting")
        /\ s.checkpoints = task[t].rec.checkpoints /\ s.state = task[t].rec.state
        /\ s.lease_owner = task[t].rec.lease_owner
    BY <1>1, <1>3, ReadinessWrites
  <2> HIDE DEF s
  <2>2. /\ "waiting" \in Working /\ "waiting" \in Working \ {"start", "superseding"}
        /\ \A y : y.pc = "waiting" => Confirmed(y)
    BY DEF Working, Confirmed
  <2>3. Typed' /\ StoreGrows /\ Wrote(t, s, "waiting")
    BY <1>1, <2>1, <2>2, UpdateWrites
  <2> QED BY <1>1, <2>1, <2>2, <2>3, WroteRuns
<1>4. CASE Update(t, [release_lease(task[t].rec) EXCEPT !.version = @ + 1], "idle")
  <2> DEFINE s == [release_lease(task[t].rec) EXCEPT !.version = @ + 1]
  <2>1. /\ Good(s) /\ Follows(task[t].rec, s) /\ Update(t, s, "idle")
        /\ s.checkpoints = task[t].rec.checkpoints /\ s.state = task[t].rec.state
        /\ s.lease_owner = NoProcess
    BY <1>1, <1>4, WaitOnWrites
  <2> HIDE DEF s
  <2>2. Typed' /\ StoreGrows /\ Wrote(t, s, "idle")
    BY <1>1, <2>1, UpdateWrites
  <2> QED BY <1>1, <2>1, <2>2, WroteRuns
<1> QED BY <1>2, <1>3, <1>4 DEF WaitingForReadiness

LEMMA PrepareTyped ==
    ASSUME Typed, NEW t \in Tasks, Prepare(t)
    PROVE  Typed' /\ StoreGrows /\ Runs(t)
<1>1. /\ task[t].pc \in Working /\ SharedOK' /\ HistoryOK' /\ UNCHANGED acts
      /\ UNCHANGED <<expired, overtaken, pointer, aliases>> /\ task[t].pc # "start"
  BY SharedStays, HistoryStays DEF Prepare, Working, shared
<1>2. Goto(t, "definitions")
  BY DEF Prepare, After
<1>3. /\ "definitions" \in Working /\ "definitions" \in Working \ {"start", "superseding"}
      /\ \A y : y.pc = "definitions" => Confirmed(y)
  BY DEF Working, Confirmed, Stages
<1> QED BY <1>1, <1>2, <1>3, GotoTyped, GotoRuns

\* The next stage finds everything before it confirmed, once this one is.
LEMMA NextStage ==
    ASSUME NEW x, Confirmed(x), x.pc \in Stages, NEW r, Grows(x.rec, r),
           \/ x.pc = "rollout" \/ x.pc \in r.checkpoints
           \/ x.pc = "schedules" /\ ~r.schedule_action
           \/ x.pc = "catalog" /\ ~r.definition_action
           \/ x.pc = "routing" /\ ~r.routing_action
    PROVE  /\ After[x.pc] \in Working
           /\ \A y : y.pc = After[x.pc] /\ y.step = "do" /\ y.rec = r => Confirmed(y)
<1> DEFINE p == After[x.pc]
<1>1. p \in Working
  BY DEF Stages, After, Working
<1>2. ASSUME NEW y, y.pc = p, y.step = "do", y.rec = r
      PROVE  Confirmed(y)
  <2>1. /\ x.rec.checkpoints \subseteq r.checkpoints
        /\ x.rec.schedule_action = r.schedule_action
        /\ x.rec.definition_action = r.definition_action
        /\ x.rec.routing_action = r.routing_action
    BY DEF Grows, SamePlan
  <2>2. \/ x.pc = "definitions" /\ p = "rollout"
        \/ x.pc = "rollout" /\ p = "readiness"
        \/ x.pc = "readiness" /\ p = "schedules"
        \/ x.pc = "schedules" /\ p = "catalog"
        \/ x.pc = "catalog" /\ p = "routing"
        \/ x.pc = "routing" /\ p = "pointer"
        \/ x.pc = "pointer" /\ p = "index"
        \/ x.pc = "index" /\ p = "apply"
    BY DEF Stages, After
  <2> HIDE DEF p
  <2> QED BY <1>2, <2>1, <2>2 DEF Confirmed
<1> QED BY <1>1, <1>2

LEMMA SkipTyped ==
    ASSUME Typed, NEW t \in Tasks, Skip(t)
    PROVE  Typed' /\ StoreGrows /\ Runs(t)
<1>1. /\ task[t].pc \in Stages /\ task[t].pc \in Working /\ SharedOK' /\ HistoryOK'
      /\ UNCHANGED acts /\ ~Required(task[t].rec, task[t].pc) /\ Goto(t, After[task[t].pc])
      /\ UNCHANGED <<expired, overtaken, pointer, aliases>>
      /\ task[t].pc # "start"
  BY SharedStays, HistoryStays DEF Skip, Working, Stages, shared
<1>2. Confirmed(task[t]) /\ Grows(task[t].rec, task[t].rec)
  BY <1>1, CallFacts, GrowsFollows DEF TaskOK, Local
<1> DEFINE x == task[t]
<1>3. \/ x.pc = "rollout" \/ x.pc \in x.rec.checkpoints
      \/ x.pc = "schedules" /\ ~x.rec.schedule_action
      \/ x.pc = "catalog" /\ ~x.rec.definition_action
      \/ x.pc = "routing" /\ ~x.rec.routing_action
  BY <1>1 DEF Required
<1>4. Confirmed(x) /\ x.pc \in Stages /\ Grows(x.rec, x.rec)
  BY <1>1, <1>2
<1> HIDE DEF x
<1>5. /\ After[x.pc] \in Working
      /\ \A y : y.pc = After[x.pc] /\ y.step = "do" /\ y.rec = x.rec => Confirmed(y)
  BY <1>4, <1>3, NextStage
<1>6. After[x.pc] \in Working \ {"start", "superseding"}
  BY <1>4, <1>5 DEF After, Stages
<1> QED BY <1>1, <1>5, <1>6, GotoTyped, GotoRuns DEF x

LEMMA NoteTyped ==
    ASSUME Typed, NEW t \in Tasks, Note(t)
    PROVE  Typed' /\ StoreGrows /\ Runs(t)
<1> DEFINE s == record_activation_checkpoint(task[t].rec, task[t].pc)
<1>1. /\ task[t].pc \in Stages /\ task[t].step = "note" /\ task[t].pc \in Working
      /\ SharedOK' /\ HistoryOK' /\ Update(t, s, After[task[t].pc])
      /\ UNCHANGED <<expired, overtaken, pointer, aliases>>
      /\ task[t].pc # "start"
  BY SharedStays, HistoryStays DEF Note, Working, Stages, shared
<1>2. Confirmed(task[t]) /\ Good(task[t].rec)
  BY <1>1, CallFacts DEF TaskOK, Local
<1>3. /\ Good(s) /\ Follows(task[t].rec, s) /\ s.state = task[t].rec.state
      /\ s.checkpoints = task[t].rec.checkpoints \cup {task[t].pc}
      /\ s.lease_owner = task[t].rec.lease_owner
  BY <1>1, <1>2, CheckpointWrites DEF Confirmed
<1> HIDE DEF s
<1> DEFINE x == task[t]
<1>4. Grows(x.rec, s) /\ x.pc \in s.checkpoints /\ Confirmed(x) /\ x.pc \in Stages
  BY <1>1, <1>2, <1>3 DEF Follows
<1> HIDE DEF x
<1>5. /\ After[x.pc] \in Working
      /\ \A y : y.pc = After[x.pc] /\ y.step = "do" /\ y.rec = s => Confirmed(y)
  BY <1>4, NextStage
<1>6. After[x.pc] \in Working \ {"start", "superseding"}
  BY <1>4, <1>5 DEF After, Stages
<1>7. Typed' /\ StoreGrows /\ Wrote(t, s, After[task[t].pc])
  BY <1>1, <1>3, <1>5, UpdateWrites DEF x
<1> QED BY <1>1, <1>3, <1>6, <1>7, WroteRuns DEF x

\* A stage that has its effect and notes it, or ends the attempt.
LEMMA EffectTyped ==
    ASSUME Typed, NEW t \in Tasks, task[t].pc \in Stages, EffectDone(t),
           task[t].pc = "readiness" =>
                (task[t].rec.worker_action => task[t].rec.worker_readiness),
           UNCHANGED acts, SharedOK', HistoryOK'
    PROVE  Typed' /\ StoreGrows
  BY StepTyped DEF EffectDone, Steps

LEMMA SupersedingTyped ==
    ASSUME Typed, NEW t \in Tasks, task[t].pc \in Working,
           Goto(t, "superseding") \/ Goto(t, "failing"),
           UNCHANGED acts, SharedOK', HistoryOK'
    PROVE  Typed' /\ StoreGrows
<1>1. /\ "superseding" \in Working /\ \A y : y.pc = "superseding" => Confirmed(y)
      /\ "failing" \in Working /\ \A y : y.pc = "failing" => Confirmed(y)
  BY DEF Working, Confirmed
<1> QED BY <1>1, GotoTyped

\* What a stage writes is a value of its kind.
LEMMA TargetFields ==
    ASSUME Typed, NEW t \in Tasks, task[t].pc \in Working
    PROVE  /\ task[t].rec.target \in Revisions /\ task[t].rec.target \in Revs
           /\ WorkflowsOf(task[t].rec.target) \in AliasValues
           /\ SchedulesOf(task[t].rec.target) \in ScheduleValues
           /\ task[t].rec.expected_version \in Nat /\ task[t].rec.expected_version + 1 \in Nat
<1>1. Good(task[t].rec)
  BY CallFacts
<1>2. task[t].rec.target \in Revisions /\ task[t].rec.target \in Revs
      /\ task[t].rec.expected_version \in Nat
  BY <1>1 DEF Good, Records
<1> QED BY <1>2, RecordFields

LEMMA EffectsTyped ==
    ASSUME Typed, NEW t \in Tasks,
           \/ StoreDefinitions(t) \/ ReconcileSchedules(t) \/ SwitchWorkerRouting(t)
           \/ ReplaceRuntimeIndex(t)
    PROVE  Typed' /\ StoreGrows /\ Runs(t)
<1>1. /\ task[t].pc \in Stages \ {"pointer"} /\ task[t].pc \in Working
      /\ task[t].pc # "readiness"
      /\ EffectDone(t) /\ UNCHANGED <<acts, expired, overtaken>> /\ UNCHANGED pointer
      /\ UNCHANGED <<aliases, rolled>>
  BY DEF StoreDefinitions, ReconcileSchedules, SwitchWorkerRouting, ReplaceRuntimeIndex, At,
     Stages, Working
<1>2. HistoryOK' /\ SharedOK /\ ProcessOf[t] \in Processes
  BY <1>1, HistoryStays, CallFacts DEF Typed
<1>3. SharedOK'
  <2>1. CASE StoreDefinitions(t)
    BY <2>1, <1>1, <1>2, TargetFields DEF SharedOK, StoreDefinitions
  <2>2. CASE ReconcileSchedules(t)
    BY <2>2, <1>1, <1>2, TargetFields DEF SharedOK, ReconcileSchedules
  <2>3. CASE SwitchWorkerRouting(t)
    BY <2>3, <1>1, <1>2, TargetFields DEF SharedOK, SwitchWorkerRouting
  <2>4. CASE ReplaceRuntimeIndex(t)
    BY <2>4, <1>1, <1>2, TargetFields DEF SharedOK, ReplaceRuntimeIndex
  <2> QED BY <2>1, <2>2, <2>3, <2>4
<1> QED BY <1>1, <1>2, <1>3, EffectTyped, EffectRuns

LEMMA RolloutTyped ==
    ASSUME Typed, NEW t \in Tasks, Rollout(t)
    PROVE  Typed' /\ StoreGrows /\ Runs(t)
<1>1. /\ task[t].pc = "rollout" /\ task[t].pc \in Stages \ {"pointer"} /\ task[t].pc \in Working
      /\ UNCHANGED <<expired, overtaken, pointer, aliases, objects, schedules, routed, index>>
  BY DEF Rollout, At, Stages, Working
<1>2. HistoryOK' /\ SharedOK
  BY <1>1, HistoryStays DEF Typed
<1>3. CASE rolled' = rolled \cup {task[t].rec.target} /\ EffectDone(t) /\ UNCHANGED acts
  <2>1. SharedOK'
    BY <1>1, <1>2, <1>3, TargetFields DEF SharedOK
  <2> QED BY <1>1, <1>2, <1>3, <2>1, EffectTyped, EffectRuns
<1>4. CASE Transition(t, "waiting", TRUE, "idle") /\ UNCHANGED rolled
  <2>1. SharedOK'
    BY <1>1, <1>2, <1>4 DEF SharedOK
  <2> QED BY <1>1, <1>2, <1>4, <2>1, TransitionMoves
<1> QED BY <1>3, <1>4 DEF Rollout

LEMMA ReadinessTyped ==
    ASSUME Typed, NEW t \in Tasks, Readiness(t)
    PROVE  Typed' /\ StoreGrows /\ Runs(t)
<1>1. /\ task[t].pc = "readiness" /\ task[t].pc \in Stages \ {"pointer"}
      /\ task[t].pc \in Working
      /\ SharedOK' /\ HistoryOK' /\ TaskOK(task[t], acts)
      /\ UNCHANGED <<expired, overtaken, pointer, aliases>>
  BY SharedStays, HistoryStays, CallFacts DEF Readiness, At, Stages, Working, shared
<1>2. CASE (~task[t].rec.worker_action \/ task[t].rec.worker_readiness) /\ EffectDone(t)
           /\ UNCHANGED acts
  BY <1>1, <1>2, EffectTyped, EffectRuns
<1>3. CASE Update(t, register_worker_readiness(task[t].rec), "readiness")
  <2> DEFINE s == register_worker_readiness(task[t].rec)
  <2>1. Confirmed(task[t]) /\ Good(task[t].rec)
    BY <1>1 DEF TaskOK, Local
  <2>2. Good(s) /\ Follows(task[t].rec, s) /\ Update(t, s, "readiness")
        /\ s.checkpoints = task[t].rec.checkpoints /\ s.state = task[t].rec.state
        /\ s.lease_owner = task[t].rec.lease_owner
    BY <1>3, <2>1, ReadinessWrites
  <2> HIDE DEF s
  <2>3. /\ "readiness" \in Working /\ "readiness" \in Working \ {"start", "superseding"}
        /\ \A y : y.pc = "readiness" /\ y.step = "do" /\ y.rec = s => Confirmed(y)
    BY <1>1, <2>1, <2>2 DEF Working, Stages, Confirmed
  <2>4. Typed' /\ StoreGrows /\ Wrote(t, s, "readiness")
    BY <1>1, <2>2, <2>3, UpdateWrites
  <2> QED BY <1>1, <2>2, <2>3, <2>4, WroteRuns
<1>4. CASE Transition(t, "waiting", TRUE, "idle")
  BY <1>1, <1>4, TransitionMoves
<1> QED BY <1>2, <1>3, <1>4 DEF Readiness

LEMMA SwitchCatalogTyped ==
    ASSUME Typed, NEW t \in Tasks, SwitchCatalog(t)
    PROVE  Typed' /\ StoreGrows
<1>1. /\ task[t].pc = "catalog" /\ task[t].pc \in Stages /\ task[t].pc \in Working
      /\ UNCHANGED acts
      /\ UNCHANGED <<expired, overtaken, pointer, objects, schedules, rolled, routed, index>>
  BY DEF SwitchCatalog, At, Stages, Working
<1>2. HistoryOK' /\ SharedOK
  BY <1>1, HistoryStays DEF Typed
<1>3. CASE aliases' = WorkflowsOf(task[t].rec.target) /\ EffectDone(t)
  <2>1. SharedOK'
    BY <1>1, <1>2, <1>3, TargetFields DEF SharedOK
  <2> QED BY <1>1, <1>2, <1>3, <2>1, EffectTyped
<1>4. CASE UNCHANGED aliases /\ Goto(t, "superseding")
  <2>1. SharedOK'
    BY <1>1, <1>2, <1>4 DEF SharedOK
  <2> QED BY <1>1, <1>2, <1>4, <2>1, SupersedingTyped
<1> QED BY <1>3, <1>4 DEF SwitchCatalog

LEMMA ReadPointerTyped ==
    ASSUME Typed, NEW t \in Tasks, ReadPointer(t)
    PROVE  Typed' /\ StoreGrows
<1>1. /\ task[t].pc = "pointer" /\ task[t].pc \in Stages /\ SharedOK' /\ HistoryOK'
      /\ UNCHANGED acts
      /\ EffectDone(t) \/ SetTask(t, [task[t] EXCEPT !.step = "swap"])
  BY SharedStays, HistoryStays DEF ReadPointer, At, Stages
<1> QED BY <1>1, EffectTyped, StepTyped DEF Steps

LEMMA SwapPointerTyped ==
    ASSUME Typed, NEW t \in Tasks, SwapPointer(t)
    PROVE  Typed' /\ StoreGrows
<1>1. /\ task[t].pc = "pointer" /\ task[t].pc \in Stages /\ task[t].pc \in Working
      /\ UNCHANGED acts
      /\ UNCHANGED <<expired, overtaken, aliases, objects, schedules, rolled, routed, index>>
  BY DEF SwapPointer, Stages, Working
<1>2. HistoryOK' /\ SharedOK
  BY <1>1, HistoryStays DEF Typed
<1>3. CASE /\ pointer' = [revision |-> task[t].rec.target,
                          version |-> task[t].rec.expected_version + 1]
           /\ EffectDone(t)
  <2>1. SharedOK'
    BY <1>1, <1>2, <1>3, TargetFields DEF SharedOK
  <2> QED BY <1>1, <1>2, <1>3, <2>1, EffectTyped
<1>4. CASE UNCHANGED pointer /\ Goto(t, "superseding")
  <2>1. SharedOK'
    BY <1>1, <1>2, <1>4 DEF SharedOK
  <2> QED BY <1>1, <1>2, <1>4, <2>1, SupersedingTyped
<1> QED BY <1>3, <1>4 DEF SwapPointer

LEMMA ApplyTyped ==
    ASSUME Typed, NEW t \in Tasks, Apply(t)
    PROVE  Typed' /\ StoreGrows
<1> DEFINE a == task[t].act
           r == task[t].rec
           moved == transition_activation(r, "applied")
           s == release_lease(moved)
<1>1. /\ task[t].pc = "apply" /\ task[t].pc \in Working /\ SharedOK' /\ HistoryOK'
      /\ a \in Activations /\ Good(r) /\ TaskOK(task[t], acts)
  BY SharedStays, HistoryStays, CallFacts DEF Apply, Working
<1>2. CASE MayTransition(r, "applied") /\ acts[a].version = r.version
  <2>1. acts' = [acts EXCEPT ![a] = s] /\ Return(t, "applied")
    BY <1>2 DEF Apply
  <2>2. Needed(r) \cup {"pointer", "index"} \subseteq r.checkpoints
    BY <1>1 DEF TaskOK, Local, Confirmed, Needed
  <2>3. Good(moved) /\ Follows(r, moved)
    BY <1>1, <1>2, <2>2, TransitionWrites DEF States
  <2> HIDE DEF moved
  <2>4. Good(s) /\ Follows(r, s)
    BY <2>3, ReleaseKeeps
  <2> HIDE DEF s
  <2>5. acts[a] = r /\ acts[a] # NoRecord
    BY <1>1, <1>2 DEF TaskOK, Copied
  <2>6. StoreGrows
    BY <1>1, <2>1, <2>4, <2>5, StoreWritten DEF Typed
  <2> QED BY <1>1, <2>1, <2>6, ReturnMoves
<1>3. CASE ~(MayTransition(r, "applied") /\ acts[a].version = r.version)
  <2>1. UNCHANGED acts /\ task' = [task EXCEPT ![t] = Idle]
    BY <1>3 DEF Apply, SetTask
  <2>2. StoreGrows
    BY <2>1, StoreStays DEF Typed
  <2> QED BY <1>1, <2>1, <2>2, CallMoves
<1> QED BY <1>2, <1>3

LEMMA MarkRolledBackTyped ==
    ASSUME Typed, NEW t \in Tasks, MarkRolledBack(t)
    PROVE  Typed' /\ StoreGrows
<1> DEFINE b == task[t].orig.act
           s == transition_activation(acts[b], "rolled_back")
<1>1. /\ task[t].pc = "mark" /\ SharedOK' /\ HistoryOK' /\ task' = [task EXCEPT ![t] = Idle]
      /\ TaskOK(task[t], acts)
  BY SharedStays, HistoryStays, CallFacts DEF MarkRolledBack, SetTask
<1>2. b \in Activations /\ task[t].orig # NoOriginal
  BY <1>1, ActivationConstants DEF TaskOK, Local, NoOriginal
<1>3. CASE /\ acts[b].version = task[t].orig.version /\ MayTransition(acts[b], "rolled_back")
           /\ acts' = [acts EXCEPT ![b] = s]
  <2>1. acts[b] # NoRecord /\ acts[b].state = "applied"
    BY <1>1, <1>2, <1>3 DEF TaskOK, OrigOK
  <2>2. Good(acts[b])
    BY <1>2, <2>1 DEF Typed, StoreOK
  <2>3. Good(s) /\ Follows(acts[b], s)
    BY <1>3, <2>1, <2>2, TransitionWrites DEF States
  <2> HIDE DEF s
  <2>4. StoreGrows
    BY <1>2, <1>3, <2>1, <2>3, StoreWritten DEF Typed
  <2> QED BY <1>1, <2>4, CallMoves
<1>4. CASE UNCHANGED acts
  <2>1. StoreGrows
    BY <1>4, StoreStays DEF Typed
  <2> QED BY <1>1, <2>1, CallMoves
<1> QED BY <1>3, <1>4 DEF MarkRolledBack

LEMMA ExternalFailsTyped ==
    ASSUME Typed, NEW t \in Tasks, ExternalFails(t)
    PROVE  Typed' /\ StoreGrows /\ Runs(t)
<1>1. /\ task[t].pc \in Working /\ Goto(t, "failing") /\ SharedOK' /\ HistoryOK'
      /\ UNCHANGED acts /\ UNCHANGED <<expired, overtaken, pointer, aliases>>
      /\ task[t].pc # "start"
  BY SharedStays, HistoryStays DEF ExternalFails, CallsOut, Working, Stages, shared
<1>2. "failing" \in Working \ {"start", "superseding"}
  BY DEF Working
<1> QED BY <1>1, <1>2, SupersedingTyped, GotoRuns

LEMMA TerminalTyped ==
    ASSUME Typed, NEW t \in Tasks, Terminal(t)
    PROVE  Typed' /\ StoreGrows
<1> DEFINE a == task[t].act
           state == IF task[t].pc = "failing" THEN "failed" ELSE "superseded"
           moved == transition_activation(acts[a], state)
           s == release_lease(moved)
<1>1. /\ task[t].pc \in Working /\ SharedOK' /\ HistoryOK' /\ task' = [task EXCEPT ![t] = Idle]
      /\ TaskOK(task[t], acts) /\ state \in States /\ a \in Activations
      /\ state # "rolled_back" /\ state # "applied"
  BY SharedStays, HistoryStays, CallFacts DEF Terminal, SetTask, Working, States
<1>2. acts[a] # NoRecord /\ Good(acts[a])
  BY <1>1 DEF TaskOK, Copied, Typed, StoreOK
<1>3. CASE MayTransition(acts[a], state) /\ acts' = [acts EXCEPT ![a] = s]
  <2> HIDE DEF state
  <2>1. Good(moved) /\ Follows(acts[a], moved)
    BY <1>1, <1>2, <1>3, TransitionWrites
  <2> HIDE DEF moved
  <2>2. Good(s) /\ Follows(acts[a], s)
    BY <2>1, ReleaseKeeps
  <2> HIDE DEF s
  <2>3. StoreGrows
    BY <1>1, <1>2, <1>3, <2>2, StoreWritten DEF Typed
  <2> QED BY <1>1, <2>3, CallMoves
<1>4. CASE UNCHANGED acts
  <2>1. StoreGrows
    BY <1>4, StoreStays DEF Typed
  <2> QED BY <1>1, <2>1, CallMoves
<1> QED BY <1>3, <1>4 DEF Terminal

LEMMA AbortTyped ==
    ASSUME Typed, NEW t \in Tasks, Abort(t)
    PROVE  Typed' /\ StoreGrows
<1>1. SharedOK' /\ HistoryOK' /\ task' = [task EXCEPT ![t] = Idle] /\ StoreGrows
  BY SharedStays, HistoryStays, StoreStays DEF Abort, SetTask, Typed
<1> QED BY <1>1, CallMoves

LEMMA CrashTyped ==
    ASSUME Typed, NEW p \in Processes, Crash(p)
    PROVE  Typed' /\ StoreGrows
<1>1. /\ UNCHANGED <<acts, expired, overtaken, pointer, aliases, objects, schedules, rolled,
                     routed>>
      /\ index' = [index EXCEPT ![p] = NoRevision]
      /\ task' = [t \in Tasks |-> IF ProcessOf[t] = p THEN Idle ELSE task[t]]
  BY DEF Crash
<1>2. StoreGrows /\ HistoryOK'
  BY <1>1, StoreStays, HistoryStays DEF Typed
<1>3. SharedOK'
  BY <1>1, RecordFields DEF Typed, SharedOK
<1>4. \A t \in Tasks : TaskOK(task'[t], acts') /\ task'[t] \in TaskStates
  BY <1>1, CallFacts, IdleFields
<1>5. TasksOK' /\ StoreOK'
  BY <1>1, <1>2, <1>4, StoreGrowsKeeps DEF Typed, TasksOK
<1> QED BY <1>2, <1>3, <1>5 DEF Typed

LEMMA LeaseExpiresTyped ==
    ASSUME Typed, NEW a \in Activations, LeaseExpires(a)
    PROVE  Typed' /\ StoreGrows
<1>1. /\ UNCHANGED <<acts, task>> /\ UNCHANGED shared
      /\ HistoryOK'
  BY DEF LeaseExpires, Typed, HistoryOK
<1>2. StoreGrows /\ SharedOK'
  BY <1>1, StoreStays, SharedStays DEF Typed
<1> QED BY <1>1, <1>2 DEF Typed, StoreOK, TasksOK

LEMMA StutterTyped ==
    ASSUME Typed, UNCHANGED vars
    PROVE  Typed' /\ StoreGrows
<1>1. StoreGrows /\ SharedOK' /\ HistoryOK' /\ acts' = acts /\ task' = task
  BY StoreStays, SharedStays, HistoryStays DEF vars, Typed
<1> QED BY <1>1 DEF Typed, StoreOK, TasksOK

LEMMA InitTyped == Init => Typed
<1> SUFFICES ASSUME Init PROVE Typed
  OBVIOUS
<1>1. StoreOK /\ HistoryOK
  BY RecordFields DEF Init, StoreOK, HistoryOK
<1>2. SharedOK
  BY RecordFields, ActivationConstants DEF Init, SharedOK, Revs, WorkflowsOf
<1>3. TasksOK
  BY IdleFields DEF Init, TasksOK
<1> QED BY <1>1, <1>2, <1>3 DEF Typed

LEMMA NextTyped ==
    ASSUME Typed, [Next]_vars
    PROVE  Typed' /\ StoreGrows
<1>1. ASSUME NEW t \in Tasks, TaskNext(t) PROVE Typed' /\ StoreGrows
  <2>1. ASSUME StageNext(t) PROVE Typed' /\ StoreGrows
    BY <2>1, SkipTyped, NoteTyped, EffectsTyped, RolloutTyped, ReadinessTyped,
       SwitchCatalogTyped, ReadPointerTyped, SwapPointerTyped DEF StageNext
  <2> QED
    BY <1>1, <2>1, ActivateTyped, RollbackTyped, CreateTyped, ResumeTyped,
       RegisterReadinessTyped, AcquireTyped, StartOrResumeTyped, WaitingForReadinessTyped,
       PrepareTyped, ApplyTyped, MarkRolledBackTyped, ExternalFailsTyped, TerminalTyped,
       AbortTyped DEF TaskNext
<1>2. ASSUME NEW p \in Processes, Crash(p) PROVE Typed' /\ StoreGrows
  BY <1>2, CrashTyped
<1>3. ASSUME NEW a \in Activations, LeaseExpires(a) PROVE Typed' /\ StoreGrows
  BY <1>3, LeaseExpiresTyped
<1>4. CASE UNCHANGED vars
  BY <1>4, StutterTyped
<1> QED BY <1>1, <1>2, <1>3, <1>4 DEF Next

-----------------------------------------------------------------------------
(* What layer one says of the writes and of applied activations.           *)

\* Only the compare-and-swap of a call moves the pointer.
LEMMA OnlySwapsMove ==
    ASSUME [Next]_vars, pointer' # pointer
    PROVE  \E t \in Tasks : SwapPointer(t)
<1>1. ASSUME NEW t \in Tasks, TaskNext(t), ~SwapPointer(t) PROVE pointer' = pointer
  <2>1. ASSUME StageNext(t) PROVE pointer' = pointer
    BY <1>1, <2>1
       DEF StageNext, Skip, Note, StoreDefinitions, Rollout, Readiness, ReconcileSchedules,
           SwitchCatalog, SwitchWorkerRouting, ReadPointer, ReplaceRuntimeIndex, shared
  <2> QED
    BY <1>1, <2>1
       DEF TaskNext, Activate, Rollback, Create, Resume, RegisterReadiness, Acquire,
           StartOrResume, WaitingForReadiness, Prepare, Apply, MarkRolledBack, ExternalFails,
           Terminal, Abort, shared
<1>2. ASSUME NEW p \in Processes, Crash(p) PROVE pointer' = pointer
  BY <1>2 DEF Crash
<1>3. ASSUME NEW a \in Activations, LeaseExpires(a) PROVE pointer' = pointer
  BY <1>3 DEF LeaseExpires, shared
<1>4. CASE UNCHANGED vars
  BY <1>4 DEF vars, shared
<1> QED BY <1>1, <1>2, <1>3, <1>4 DEF Next

PointerIsReady ==
    \E a \in Activations :
        /\ Base(acts[a]) = pointer /\ Switch(acts[a]) = pointer'
        /\ Needed(acts[a]) \subseteq acts[a].checkpoints
        /\ acts[a].worker_action => acts[a].worker_readiness

LEMMA MoveIsReady ==
    ASSUME Typed, [Next]_vars, pointer' # pointer
    PROVE  PointerIsReady
<1>1. PICK t \in Tasks : SwapPointer(t)
  BY OnlySwapsMove
<1> DEFINE a == task[t].act
           r == task[t].rec
<1>2. /\ task[t].pc = "pointer"
      /\ pointer = [revision |-> r.expected_revision, version |-> r.expected_version]
      /\ pointer' = [revision |-> r.target, version |-> r.expected_version + 1]
  BY <1>1 DEF SwapPointer
<1>3. /\ a \in Activations /\ acts[a] # NoRecord /\ Grows(r, acts[a]) /\ Confirmed(task[t])
  BY <1>2, CallFacts DEF TaskOK, Local, Copied, Working, Stages
<1>4. Good(acts[a])
  BY <1>3 DEF Typed, StoreOK
<1>5. Base(acts[a]) = pointer /\ Switch(acts[a]) = pointer'
  BY <1>2, <1>3 DEF Base, Switch, Grows, SamePlan
<1>6. Needed(acts[a]) = Needed(r) /\ r.checkpoints \subseteq acts[a].checkpoints
  BY <1>3 DEF Needed, Grows, SamePlan
<1>7. Needed(r) \subseteq r.checkpoints /\ "readiness" \in r.checkpoints
  BY <1>2, <1>3 DEF Needed, Confirmed
<1>8. acts[a].worker_action => acts[a].worker_readiness
  BY <1>4, <1>6, <1>7 DEF Good
<1> QED BY <1>3, <1>5, <1>6, <1>7, <1>8 DEF PointerIsReady

NothingLost ==
    \A a \in Activations :
        /\ acts[a].checkpoints \subseteq acts'[a].checkpoints
        /\ acts[a].worker_readiness => acts'[a].worker_readiness
        /\ acts[a].state \in Final =>
              acts'[a].state = acts[a].state \/ acts'[a].state = "rolled_back"
        /\ acts[a].state \in {"superseded", "rolled_back"} => acts'[a].state = acts[a].state

LEMMA ForwardLosesNothing ==
    ASSUME StoreGrows
    PROVE  NothingLost
<1> SUFFICES ASSUME NEW a \in Activations
             PROVE  /\ acts[a].checkpoints \subseteq acts'[a].checkpoints
                    /\ acts[a].worker_readiness => acts'[a].worker_readiness
                    /\ acts[a].state \in Final =>
                          acts'[a].state = acts[a].state \/ acts'[a].state = "rolled_back"
                    /\ acts[a].state \in {"superseded", "rolled_back"} =>
                          acts'[a].state = acts[a].state
  BY DEF NothingLost
<1>1. CASE acts'[a] = acts[a]
  BY <1>1
<1>2. CASE acts[a] = NoRecord
  BY <1>2, RecordFields DEF Final
<1>3. CASE Follows(acts[a], acts'[a])
  BY <1>3 DEF Follows, Grows, Allowed, Final
<1> QED BY <1>1, <1>2, <1>3 DEF StoreGrows, Forward

\* No write of a controller undoes what another recorded, and the pointer only makes
\* the switch of an activation planned against the pointer it replaces, with every
\* confirmation its plan needs in the store (update_activation, the stages of resume,
\* compare_and_swap_active).
THEOREM WritesSafe == Spec => WritesAreSafe
<1>1. Init => Typed
  BY InitTyped
<1>2. Typed /\ [Next]_vars => Typed'
  BY NextTyped
<1>3. Typed /\ [Next]_vars => [NothingLost]_vars
  BY NextTyped, ForwardLosesNothing
<1>4. Typed /\ [Next]_vars => [pointer' # pointer => PointerIsReady]_vars
  BY MoveIsReady
<1>5. Spec => [][NothingLost]_vars
  BY <1>1, <1>2, <1>3, PTL DEF Spec
<1>6. Spec => [][pointer' # pointer => PointerIsReady]_vars
  BY <1>1, <1>2, <1>4, PTL DEF Spec
<1> QED BY <1>5, <1>6 DEF WritesAreSafe, NoLostUpdate, PointerMovesOnlyWhenReady, NothingLost,
                         PointerIsReady

-----------------------------------------------------------------------------
(* The kinds of steps.                                                     *)

\* The steps of a call, with those that only Run taken together.
CallStep(t) ==
    \/ \E a \in Activations, r \in Revisions : Activate(t, a, r)
    \/ \E a, b \in Activations : Rollback(t, a, b)
    \/ Create(t)
    \/ \E a \in Activations : Resume(t, a)
    \/ \E a \in Activations : RegisterReadiness(t, a)
    \/ Acquire(t)
    \/ Runs(t)
    \/ SwitchCatalog(t)
    \/ ReadPointer(t)
    \/ SwapPointer(t)
    \/ Apply(t)
    \/ MarkRolledBack(t)
    \/ Terminal(t)
    \/ Abort(t)

LEMMA StepKinds ==
    ASSUME Typed, Next
    PROVE  \/ \E t \in Tasks : CallStep(t)
           \/ \E p \in Processes : Crash(p)
           \/ \E a \in Activations : LeaseExpires(a)
<1>1. ASSUME NEW t \in Tasks, StageNext(t) PROVE CallStep(t)
  BY <1>1, SkipTyped, NoteTyped, EffectsTyped, RolloutTyped, ReadinessTyped
     DEF StageNext, CallStep
<1>2. ASSUME NEW t \in Tasks, TaskNext(t) PROVE CallStep(t)
  BY <1>1, <1>2, StartOrResumeTyped, WaitingForReadinessTyped, PrepareTyped,
     ExternalFailsTyped DEF TaskNext, CallStep
<1> QED BY <1>2 DEF Next

\* Another call stands still while t moves.
LEMMA OthersStand ==
    ASSUME Typed, NEW t \in Tasks, CallStep(t)
    PROVE  \A u \in Tasks \ {t} : task'[u] = task[u]
<1>1. ASSUME NEW y, SetTask(t, y) PROVE \A u \in Tasks \ {t} : task'[u] = task[u]
  BY <1>1 DEF SetTask, Typed, TasksOK
<1>2. ASSUME NEW p, Goto(t, p) PROVE \A u \in Tasks \ {t} : task'[u] = task[u]
  BY <1>1, <1>2 DEF Goto
<1>3. ASSUME NEW p, Return(t, p) PROVE \A u \in Tasks \ {t} : task'[u] = task[u]
  BY <1>1, <1>3 DEF Return
<1>4. ASSUME NEW a, NEW r, NEW o, PlanPointer(t, a, r, o)
      PROVE  \A u \in Tasks \ {t} : task'[u] = task[u]
  BY <1>1, <1>4 DEF PlanPointer
<1>5. ASSUME EffectDone(t) PROVE \A u \in Tasks \ {t} : task'[u] = task[u]
  BY <1>1, <1>5 DEF EffectDone
<1>6. ASSUME Runs(t) PROVE \A u \in Tasks \ {t} : task'[u] = task[u]
  BY <1>6 DEF Runs, Typed, TasksOK
<1> QED
  BY <1>1, <1>2, <1>3, <1>4, <1>5, <1>6
     DEF CallStep, Activate, Rollback, Create, Resume, RegisterReadiness, Acquire,
         SwitchCatalog, ReadPointer, SwapPointer, Apply, MarkRolledBack, Terminal, Abort

\* Writes that leave the checkpoints, the owner of the lease or the state alone.
LEMMA WrittenParts ==
    ASSUME NEW r \in Records
    PROVE  /\ register_worker_readiness(r).checkpoints = r.checkpoints
           /\ register_worker_readiness(r).state = r.state
           /\ register_worker_readiness(r).lease_owner = r.lease_owner
           /\ \A p : /\ acquire_activation_lease(r, p).checkpoints = r.checkpoints
                     /\ acquire_activation_lease(r, p).state = r.state
                     /\ acquire_activation_lease(r, p).lease_owner = p
           /\ \A w : /\ transition_activation(r, w).checkpoints = r.checkpoints
                     /\ transition_activation(r, w).state = w
                     /\ transition_activation(r, w).lease_owner = r.lease_owner
                     /\ release_lease(transition_activation(r, w)).checkpoints = r.checkpoints
                     /\ release_lease(transition_activation(r, w)).state = w
                     /\ release_lease(transition_activation(r, w)).lease_owner = NoProcess
  BY DEF Records, register_worker_readiness, acquire_activation_lease, transition_activation,
         release_lease

-----------------------------------------------------------------------------
(* Layer two: the switches that were made.                                 *)

NoteFrom(x, a) == x.act = a /\ x.pc = "pointer" /\ x.step = "note"

\* The switch of a is on record, or a call has made it and is about to record it.
Made(a) == "pointer" \in acts[a].checkpoints \/ \E t \in Tasks : NoteFrom(task[t], a)

Line ==
    \A a \in Activations : Made(a) =>
        /\ pointer.version > acts[a].expected_version
        /\ pointer.version = acts[a].expected_version + 1 => pointer = Switch(acts[a])
        /\ \A b \in Activations : Made(b) /\ acts[b].expected_version = acts[a].expected_version
                                  => acts[b].target = acts[a].target

\* t finds the switch of a in place, or makes it.
Switches(t, a) ==
    /\ task[t].act = a /\ task[t].pc = "pointer"
    /\ \/ pointer = Switch(task[t].rec) /\ pointer' = pointer
       \/ pointer = Base(task[t].rec) /\ pointer' = Switch(task[t].rec)

LEMMA RecordsOfStore ==
    ASSUME Typed
    PROVE  /\ \A a \in Activations : acts[a] \in Records
           /\ \A t \in Tasks : task[t].rec \in Records
  BY CallFacts DEF Typed, StoreOK, TaskStates

LEMMA CheckpointWasMade ==
    ASSUME Typed, Next, NEW a \in Activations, "pointer" \in acts'[a].checkpoints
    PROVE  Made(a)
<1>1. CASE acts'[a].checkpoints \subseteq acts[a].checkpoints
  BY <1>1 DEF Made
<1>2. ASSUME NEW t \in Tasks, CallStep(t), ~(acts'[a].checkpoints \subseteq acts[a].checkpoints)
      PROVE  Made(a)
  <2>1. acts[a] \in Records
    BY RecordsOfStore
  <2>2. ~ \E c \in Activations, r \in Revisions : Activate(t, c, r)
    BY <1>2 DEF Activate
  <2>3. ~ \E c, b \in Activations : Rollback(t, c, b)
    BY <1>2 DEF Rollback
  <2>4. ~ Create(t)
    <3>1. SUFFICES ASSUME Create(t) PROVE FALSE
      OBVIOUS
    <3>2. /\ task[t].pc = "plan" /\ task[t].rec \in Records
          /\ task[t].rec.target \in Revisions /\ task[t].rec.checkpoints = {}
          /\ ProcessOf[t] \in Processes
      BY <3>1, CallFacts DEF Create, TaskOK, Local, TaskStates
    <3> DEFINE rec == PlanActions(task[t].rec, ProcessOf[t])
    <3>3. rec.checkpoints = {}
      BY <3>2, PlanActionsFields
    <3>4. acts' = acts \/ acts' = [acts EXCEPT ![task[t].act] = rec]
      BY <3>1 DEF Create
    <3> HIDE DEF rec
    <3> QED BY <1>2, <3>3, <3>4 DEF Typed, StoreOK
  <2>5. ~ \E c \in Activations : Resume(t, c)
    BY <1>2 DEF Resume
  <2>6. ~ \E c \in Activations : RegisterReadiness(t, c)
    <3>1. ASSUME NEW c \in Activations, RegisterReadiness(t, c) PROVE FALSE
      <4>1. acts' = [acts EXCEPT ![c] = register_worker_readiness(acts[c])]
        BY <3>1 DEF RegisterReadiness
      <4>2. register_worker_readiness(acts[c]).checkpoints = acts[c].checkpoints
        BY WrittenParts, RecordsOfStore
      <4> QED BY <1>2, <4>1, <4>2 DEF Typed, StoreOK
    <3> QED BY <3>1
  <2>7. ~ Acquire(t)
    BY <1>2, <2>1, WrittenParts DEF Acquire, Typed, StoreOK
  <2>8. ~ (SwitchCatalog(t) \/ ReadPointer(t) \/ SwapPointer(t) \/ Abort(t))
    BY <1>2 DEF SwitchCatalog, ReadPointer, SwapPointer, Abort
  <2>9. ~ Apply(t)
    <3>1. SUFFICES ASSUME Apply(t), acts' # acts PROVE FALSE
      BY <1>2
    <3>2. /\ task[t].pc \in Working /\ task[t].rec = acts[task[t].act]
          /\ acts' = [acts EXCEPT ![task[t].act] =
                         release_lease(transition_activation(task[t].rec, "applied"))]
      BY <3>1, CallFacts DEF Apply, Working, TaskOK, Copied
    <3> QED BY <1>2, <2>1, <3>2, WrittenParts, RecordsOfStore DEF Typed, StoreOK
  <2>10. ~ MarkRolledBack(t)
    BY <1>2, <2>1, WrittenParts DEF MarkRolledBack, Typed, StoreOK
  <2>11. ~ Terminal(t)
    BY <1>2, <2>1, WrittenParts DEF Terminal, Typed, StoreOK
  <2>12. CASE Runs(t)
    <3>1. PICK s : /\ acts[task[t].act] = task[t].rec
                   /\ acts' = [acts EXCEPT ![task[t].act] = s]
                   /\ s.checkpoints \subseteq task[t].rec.checkpoints \cup
                                    (IF task[t].step = "note" THEN {task[t].pc} ELSE {})
      BY <1>2, <2>12 DEF Runs
    <3>2. a = task[t].act
      BY <1>2, <3>1 DEF Typed, StoreOK
    <3>3. s = acts'[a] /\ acts[a] = task[t].rec
      BY <3>1, <3>2 DEF Typed, StoreOK
    <3> QED BY <3>1, <3>2, <3>3 DEF Made, NoteFrom
  <2> QED BY <1>2, <2>2, <2>3, <2>4, <2>5, <2>6, <2>7, <2>8, <2>9, <2>10, <2>11, <2>12
          DEF CallStep
<1>3. ASSUME NEW p \in Processes, Crash(p) PROVE Made(a)
  BY <1>3 DEF Crash, Made
<1>4. ASSUME NEW b \in Activations, LeaseExpires(b) PROVE Made(a)
  BY <1>4 DEF LeaseExpires, Made
<1> QED BY <1>1, <1>2, <1>3, <1>4, StepKinds

LEMMA NoteWasSwitch ==
    ASSUME Typed, Next, NEW a \in Activations, NEW u \in Tasks, NoteFrom(task'[u], a)
    PROVE  NoteFrom(task[u], a) \/ Switches(u, a)
<1>1. ASSUME NEW t \in Tasks, CallStep(t) PROVE NoteFrom(task[u], a) \/ Switches(u, a)
  <2>1. CASE u # t
    BY <1>1, <2>1, OthersStand
  <2>2. CASE u = t
    <3>1. task[u] \in TaskStates /\ TaskOK(task[u], acts)
      BY CallFacts
    <3>2. ASSUME NEW y, SetTask(u, y) PROVE task'[u] = y
      BY <3>2 DEF SetTask, Typed, TasksOK
    <3>3. task'[u].pc = "pointer" /\ task'[u].step = "note" /\ task'[u].act = a
          /\ task'[u] # Idle
      BY IdleFields DEF NoteFrom
    <3>4. ASSUME NEW p, Goto(u, p) PROVE FALSE
      <4> DEFINE y == [task[u] EXCEPT !.pc = p, !.step = "do"]
      <4>1. task'[u] = y
        BY <3>2, <3>4 DEF Goto
      <4>2. y.step = "do"
        BY <3>1 DEF TaskStates
      <4> QED BY <3>3, <4>1, <4>2
    <3>5. ASSUME NEW w, Return(u, w) PROVE FALSE
      <4>1. [Idle EXCEPT !.pc = "mark", !.orig = task[u].orig].pc = "mark"
        BY IdleFields DEF TaskStates
      <4> QED BY <3>2, <3>3, <3>5, <4>1 DEF Return
    <3>6. ~ \E c \in Activations, r \in Revisions : Activate(u, c, r)
      <4>1. ASSUME NEW c \in Activations, NEW r \in Revisions, Activate(u, c, r) PROVE FALSE
        <5> DEFINE y == [Idle EXCEPT !.pc = "plan", !.act = c, !.orig = NoOriginal,
                            !.rec = Planned(r, NoOriginal.act, pointer.revision,
                                            pointer.version)]
        <5>1. task'[u] = y
          BY <3>2, <4>1 DEF Activate, PlanPointer, Planned
        <5>2. y.pc = "plan"
          BY IdleFields DEF TaskStates
        <5> QED BY <3>3, <5>1, <5>2
      <4> QED BY <4>1
    <3>7. ~ \E c, b \in Activations : Rollback(u, c, b)
      <4>1. ASSUME NEW c, NEW r, NEW o, PlanPointer(u, c, r, o) PROVE FALSE
        <5> DEFINE y == [Idle EXCEPT !.pc = "plan", !.act = c, !.orig = o,
                            !.rec = Planned(r, o.act, pointer.revision, pointer.version)]
        <5>1. task'[u] = y
          BY <3>2, <4>1 DEF PlanPointer, Planned
        <5>2. y.pc = "plan"
          BY IdleFields DEF TaskStates
        <5> QED BY <3>3, <5>1, <5>2
      <4>2. ASSUME NEW c, NEW o,
                   SetTask(u, [Idle EXCEPT !.pc = "acquire", !.act = c, !.orig = o])
            PROVE  FALSE
        <5>1. [Idle EXCEPT !.pc = "acquire", !.act = c, !.orig = o].pc = "acquire"
          BY IdleFields DEF TaskStates
        <5> QED BY <3>2, <3>3, <4>2, <5>1
      <4> QED BY <4>1, <4>2 DEF Rollback
    <3>8. ~ Create(u)
      <4>1. [task[u] EXCEPT !.pc = "acquire", !.rec = NoRecord].pc = "acquire"
        BY <3>1 DEF TaskStates
      <4> QED BY <3>2, <3>3, <4>1 DEF Create
    <3>9. ~ \E c \in Activations : Resume(u, c) \/ RegisterReadiness(u, c)
      BY <3>2, <3>3, EnterFields DEF Resume, RegisterReadiness
    <3>10. ~ Acquire(u)
      <4>1. \A r : [task[u] EXCEPT !.pc = "start", !.rec = r].pc = "start"
        BY <3>1 DEF TaskStates
      <4> QED BY <3>2, <3>3, <3>5, <4>1 DEF Acquire
    <3>11. ~ (Apply(u) \/ MarkRolledBack(u) \/ Terminal(u) \/ Abort(u))
      BY <3>2, <3>3, <3>5 DEF Apply, MarkRolledBack, Terminal, Abort
    <3>12. ~ Runs(u)
      <4>1. SUFFICES ASSUME Runs(u) PROVE FALSE
        OBVIOUS
      <4>2. task'[u].pc = "pointer" => task'[u].step = "do"
        BY <3>3, <4>1 DEF Runs, Typed, TasksOK
      <4> QED BY <3>3, <4>2
    <3>13. ~ SwitchCatalog(u)
      <4>1. [task[u] EXCEPT !.step = "note"].pc = task[u].pc
        BY <3>1 DEF TaskStates
      <4> QED BY <3>2, <3>3, <3>4, <4>1 DEF SwitchCatalog, EffectDone, At
    <3>14. ASSUME EffectDone(u) PROVE task[u].act = a
      <4>1. [task[u] EXCEPT !.step = "note"].act = task[u].act
        BY <3>1 DEF TaskStates
      <4> QED BY <3>2, <3>3, <3>14, <4>1 DEF EffectDone
    <3>15. CASE ReadPointer(u)
      <4>1. [task[u] EXCEPT !.step = "swap"].step = "swap"
        BY <3>1 DEF TaskStates
      <4>2. EffectDone(u) /\ pointer = Switch(task[u].rec)
        BY <3>2, <3>3, <3>15, <4>1 DEF ReadPointer, Switch
      <4> QED BY <3>14, <3>15, <4>2 DEF ReadPointer, At, Switches, shared
    <3>16. CASE SwapPointer(u)
      BY <3>4, <3>14, <3>16 DEF SwapPointer, Switches, Base, Switch
    <3> QED BY <1>1, <2>2, <3>6, <3>7, <3>8, <3>9, <3>10, <3>11, <3>12, <3>13, <3>15, <3>16
            DEF CallStep
  <2> QED BY <2>1, <2>2
<1>2. ASSUME NEW p \in Processes, Crash(p) PROVE NoteFrom(task[u], a)
  BY <1>2, IdleFields DEF Crash, NoteFrom
<1>3. ASSUME NEW b \in Activations, LeaseExpires(b) PROVE NoteFrom(task[u], a)
  BY <1>3 DEF LeaseExpires
<1> QED BY <1>1, <1>2, <1>3, StepKinds

\* A switch newly made.
LEMMA NewlyMade ==
    ASSUME Typed, Next, NEW a \in Activations, Made(a)', ~Made(a)
    PROVE  \E t \in Tasks : Switches(t, a)
<1>1. CASE "pointer" \in acts'[a].checkpoints
  BY <1>1, CheckpointWasMade
<1>2. CASE \E u \in Tasks : NoteFrom(task'[u], a)
  BY <1>2, NoteWasSwitch DEF Made
<1> QED BY <1>1, <1>2 DEF Made, NoteFrom

\* Whoever has made a switch has a record, and its plan never changes.
LEMMA PlanStays ==
    ASSUME Typed, StoreGrows
    PROVE  /\ \A a \in Activations : acts[a] # NoRecord => Grows(acts[a], acts'[a])
           /\ \A a \in Activations : Made(a) => acts[a] # NoRecord
           /\ \A a \in Activations, t \in Tasks :
                Switches(t, a) => acts[a] # NoRecord /\ Grows(task[t].rec, acts[a])
<1>1. \A a \in Activations : acts[a] # NoRecord => Grows(acts[a], acts'[a])
  BY StoreGrowsKeeps, GrowsFollows DEF Typed
<1>2. ASSUME NEW t \in Tasks, task[t].pc = "pointer"
      PROVE  acts[task[t].act] # NoRecord /\ Grows(task[t].rec, acts[task[t].act])
  BY <1>2, CallFacts DEF TaskOK, Copied, Working, Stages
<1>3. ASSUME NEW a \in Activations, Made(a) PROVE acts[a] # NoRecord
  BY <1>2, <1>3, RecordFields DEF Made, NoteFrom
<1> QED BY <1>1, <1>2, <1>3 DEF Switches

\* The pointer only advances, one version at a time.
LEMMA PointerAdvances ==
    ASSUME Typed, [Next]_vars
    PROVE  pointer' = pointer \/ pointer'.version = pointer.version + 1
<1>1. CASE pointer' # pointer
  <2>1. PICK t \in Tasks : SwapPointer(t)
    BY <1>1, OnlySwapsMove
  <2> QED BY <1>1, <2>1 DEF SwapPointer
<1> QED BY <1>1

\* A pair of made switches, the second one possibly new, stays in line.
LEMMA NextLine ==
    ASSUME Typed, Line, Next
    PROVE  Line'
<1>1. StoreGrows /\ Typed'
  BY NextTyped
<1>2. /\ pointer \in [revision : Revs, version : Nat]
      /\ pointer' \in [revision : Revs, version : Nat]
      /\ pointer' = pointer \/ pointer'.version = pointer.version + 1
      /\ \A a \in Activations : /\ acts[a].expected_version \in Nat
                                /\ acts'[a].expected_version \in Nat
  BY <1>1, PointerAdvances DEF Typed, SharedOK, StoreOK, Records
\* What a made switch says of the pointer afterwards.
<1>3. ASSUME NEW a \in Activations, Made(a)
      PROVE  /\ Base(acts'[a]) = Base(acts[a]) /\ Switch(acts'[a]) = Switch(acts[a])
             /\ acts'[a].expected_version = acts[a].expected_version
             /\ acts'[a].target = acts[a].target
             /\ pointer'.version > acts[a].expected_version
             /\ pointer'.version = acts[a].expected_version + 1 => pointer' = Switch(acts[a])
  <2>1. /\ Base(acts'[a]) = Base(acts[a]) /\ Switch(acts'[a]) = Switch(acts[a])
        /\ acts'[a].expected_version = acts[a].expected_version
        /\ acts'[a].target = acts[a].target
    BY <1>1, <1>3, PlanStays DEF Grows, SamePlan, Base, Switch
  <2>2. /\ pointer.version > acts[a].expected_version
        /\ pointer.version = acts[a].expected_version + 1 => pointer = Switch(acts[a])
    BY <1>3 DEF Line
  <2>3. pointer.version \in Nat /\ pointer'.version \in Nat
    BY <1>2
  <2> QED BY <1>2, <2>1, <2>2, <2>3
<1>4. ASSUME NEW a \in Activations, NEW t \in Tasks, Switches(t, a)
      PROVE  /\ Switch(acts'[a]) = Switch(acts[a]) /\ pointer' = Switch(acts[a])
             /\ acts'[a].expected_version = acts[a].expected_version
             /\ acts'[a].target = acts[a].target
             /\ (pointer = Switch(acts[a]) /\ pointer' = pointer) \/ pointer = Base(acts[a])
  BY <1>1, <1>4, PlanStays DEF Grows, SamePlan, Base, Switch, Switches
<1>5. ASSUME NEW a \in Activations, Made(a)'
      PROVE  /\ pointer'.version > acts'[a].expected_version
             /\ pointer'.version = acts'[a].expected_version + 1 => pointer' = Switch(acts'[a])
  <2>1. CASE Made(a)
    BY <1>3, <2>1
  <2>2. CASE ~Made(a)
    <3>1. PICK t \in Tasks : Switches(t, a)
      BY <1>5, <2>2, NewlyMade
    <3>2. pointer' = Switch(acts'[a])
      BY <1>4, <3>1
    <3>3. pointer'.version = acts'[a].expected_version + 1
      BY <3>2 DEF Switch
    <3> QED BY <1>2, <3>2, <3>3
  <2> QED BY <2>1, <2>2
\* A new switch agrees with one made before.
<1>6. ASSUME NEW a \in Activations, NEW b \in Activations, Made(a), Made(b)', ~Made(b),
             acts'[a].expected_version = acts'[b].expected_version
      PROVE  acts'[a].target = acts'[b].target
  <2>1. PICK t \in Tasks : Switches(t, b)
    BY <1>6, NewlyMade
  <2>2. /\ pointer' = Switch(acts[b]) /\ acts'[b].target = acts[b].target
        /\ acts'[b].expected_version = acts[b].expected_version
        /\ (pointer = Switch(acts[b]) /\ pointer' = pointer) \/ pointer = Base(acts[b])
    BY <1>4, <2>1
  <2>3. /\ pointer.version > acts[a].expected_version
        /\ pointer.version = acts[a].expected_version + 1 => pointer = Switch(acts[a])
        /\ acts'[a].target = acts[a].target
        /\ acts'[a].expected_version = acts[a].expected_version
    BY <1>3, <1>6 DEF Line
  <2>4. pointer # Base(acts[b])
    BY <1>2, <1>6, <2>2, <2>3 DEF Base
  <2>5. Switch(acts[a]) = Switch(acts[b])
    BY <1>2, <1>6, <2>2, <2>3, <2>4 DEF Switch
  <2> QED BY <2>2, <2>3, <2>5 DEF Switch
\* Two switches made in one step are one.
<1>7. ASSUME NEW a \in Activations, NEW b \in Activations, Made(a)', ~Made(a), Made(b)',
             ~Made(b), acts'[a].expected_version = acts'[b].expected_version
      PROVE  acts'[a].target = acts'[b].target
  <2>1. PICK t \in Tasks, u \in Tasks : Switches(t, a) /\ Switches(u, b)
    BY <1>7, NewlyMade
  <2>2. Switch(acts'[a]) = Switch(acts'[b])
    BY <1>4, <2>1
  <2> QED BY <2>2 DEF Switch
<1>8. ASSUME NEW a \in Activations, NEW b \in Activations, Made(a)', Made(b)',
             acts'[a].expected_version = acts'[b].expected_version
      PROVE  acts'[b].target = acts'[a].target
  <2>1. CASE Made(a) /\ Made(b)
    BY <1>3, <1>8, <2>1 DEF Line
  <2>2. CASE Made(a) /\ ~Made(b)
    BY <1>6, <1>8, <2>2
  <2>3. CASE ~Made(a) /\ Made(b)
    BY <1>6, <1>8, <2>3
  <2>4. CASE ~Made(a) /\ ~Made(b)
    BY <1>7, <1>8, <2>4
  <2> QED BY <2>1, <2>2, <2>3, <2>4
<1> QED BY <1>5, <1>8 DEF Line

LEMMA InitLine == Init => Line
<1> SUFFICES ASSUME Init PROVE Line
  OBVIOUS
<1>1. \A a \in Activations : ~Made(a)
  BY RecordFields, IdleFields DEF Init, Made, NoteFrom
<1> QED BY <1>1 DEF Line

LEMMA StutterLine ==
    ASSUME Line, UNCHANGED vars
    PROVE  Line'
  BY DEF Line, Made, NoteFrom, vars, shared

LEMMA LineIsOneWinner == Line => OneWinnerPerBase
  BY DEF Line, OneWinnerPerBase, Made

-----------------------------------------------------------------------------
(* Who writes a record, and what.                                          *)

\* t writes the record of a: the call it is at, and the state and the lease it leaves.
Writes(t, a) ==
    \/ /\ task[t].pc = "plan" /\ task[t].act = a /\ acts[a] = NoRecord
       /\ acts'[a] = PlanActions(task[t].rec, ProcessOf[t])
    \/ /\ task[t].pc = "idle" /\ acts[a] # NoRecord
       /\ acts'[a].state = acts[a].state /\ acts'[a].lease_owner = acts[a].lease_owner
    \/ /\ Acquire(t) /\ task[t].pc = "acquire" /\ task[t].act = a /\ acts[a] # NoRecord
       /\ acts'[a].state = acts[a].state /\ acts'[a].lease_owner = ProcessOf[t]
    \/ /\ Runs(t) /\ task[t].act = a /\ acts[a] = task[t].rec /\ acts[a] # NoRecord
       /\ acts'[a].state \in {acts[a].state, "running", "waiting"}
       /\ \/ acts'[a].lease_owner = acts[a].lease_owner
          \/ acts'[a].lease_owner = NoProcess /\ task'[t] = Idle
    \/ /\ task[t].pc = "apply" /\ task[t].act = a /\ acts[a] # NoRecord
       /\ acts'[a].state = "applied" /\ acts'[a].lease_owner = NoProcess
       /\ Return(t, "applied")
    \/ /\ task[t].pc = "mark" /\ task[t].orig.act = a /\ acts[a] # NoRecord
       /\ acts'[a].state = "rolled_back" /\ acts'[a].lease_owner = acts[a].lease_owner
    \/ /\ task[t].pc = "failing" /\ task[t].act = a /\ acts[a] # NoRecord
       /\ acts'[a].state = "failed" /\ acts'[a].lease_owner = NoProcess
       /\ task'[t] = Idle
    \/ /\ task[t].pc = "superseding" /\ task[t].act = a /\ acts[a] # NoRecord
       /\ acts'[a].state = "superseded" /\ acts'[a].lease_owner = NoProcess
       /\ task'[t] = Idle

LEMMA CallWrites ==
    ASSUME Typed, NEW t \in Tasks, CallStep(t), NEW a \in Activations, acts'[a] # acts[a]
    PROVE  Writes(t, a)
<1>1. /\ acts \in [Activations -> Records] /\ acts[a] \in Records
      /\ task[t] \in TaskStates /\ TaskOK(task[t], acts) /\ task[t].rec \in Records
  BY CallFacts, RecordsOfStore DEF Typed, StoreOK
<1>2. ASSUME NEW y, SetTask(t, y) PROVE task'[t] = y
  BY <1>2 DEF SetTask, Typed, TasksOK
<1>3. acts' # acts
  OBVIOUS
<1>4. ~ \E c \in Activations, r \in Revisions : Activate(t, c, r)
  BY <1>3 DEF Activate
<1>5. ~ \E c, b \in Activations : Rollback(t, c, b)
  BY <1>3 DEF Rollback
<1>6. CASE Create(t)
  <2> DEFINE rec == PlanActions(task[t].rec, ProcessOf[t])
  <2>1. /\ task[t].pc = "plan" /\ acts[task[t].act] = NoRecord
        /\ acts' = [acts EXCEPT ![task[t].act] = rec]
    BY <1>3, <1>6 DEF Create
  <2> HIDE DEF rec
  <2>2. a = task[t].act /\ acts'[a] = rec
    BY <1>1, <2>1
  <2> QED BY <2>1, <2>2 DEF Writes, rec
<1>7. ~ \E c \in Activations : Resume(t, c)
  BY <1>3 DEF Resume
<1>8. CASE \E c \in Activations : RegisterReadiness(t, c)
  <2>1. PICK c \in Activations : RegisterReadiness(t, c)
    BY <1>8
  <2> DEFINE s == register_worker_readiness(acts[c])
  <2>2. /\ task[t].pc = "idle" /\ acts[c] # NoRecord /\ acts' = [acts EXCEPT ![c] = s]
    BY <2>1 DEF RegisterReadiness
  <2>3. s.state = acts[c].state /\ s.lease_owner = acts[c].lease_owner
    BY WrittenParts, RecordsOfStore
  <2> HIDE DEF s
  <2>4. a = c /\ acts'[a] = s
    BY <1>1, <2>2
  <2> QED BY <2>2, <2>3, <2>4 DEF Writes
<1>9. CASE Acquire(t)
  <2> DEFINE s == acquire_activation_lease(acts[task[t].act], ProcessOf[t])
  <2>1. task[t].pc = "acquire" /\ acts' = [acts EXCEPT ![task[t].act] = s]
    BY <1>3, <1>9 DEF Acquire
  <2>2. acts[task[t].act] # NoRecord /\ acts[task[t].act] \in Records
    BY <1>1, <2>1, RecordsOfStore DEF TaskOK, Local
  <2>3. s.state = acts[task[t].act].state /\ s.lease_owner = ProcessOf[t]
    BY <2>2, WrittenParts
  <2> HIDE DEF s
  <2>4. a = task[t].act /\ acts'[a] = s
    BY <1>1, <2>1
  <2> QED BY <1>9, <2>1, <2>2, <2>3, <2>4 DEF Writes
<1>10. CASE Runs(t)
  <2>1. PICK y \in TaskStates :
         /\ task' = [task EXCEPT ![t] = y]
         /\ \E s : /\ acts[task[t].act] = task[t].rec
                   /\ acts' = [acts EXCEPT ![task[t].act] = s]
                   /\ s.state \in {task[t].rec.state, "running", "waiting"}
                   /\ \/ s.lease_owner = task[t].rec.lease_owner
                      \/ s.lease_owner = NoProcess /\ y = Idle
    BY <1>3, <1>10 DEF Runs
  <2>2. PICK s : /\ acts[task[t].act] = task[t].rec
                 /\ acts' = [acts EXCEPT ![task[t].act] = s]
                 /\ s.state \in {task[t].rec.state, "running", "waiting"}
                 /\ \/ s.lease_owner = task[t].rec.lease_owner
                    \/ s.lease_owner = NoProcess /\ y = Idle
    BY <2>1
  <2>3. a = task[t].act /\ acts'[a] = s /\ task'[t] = y
    BY <1>1, <2>1, <2>2 DEF Typed, TasksOK
  <2>4. acts[a] # NoRecord
    BY <1>1, <1>10, <2>3 DEF TaskOK, Copied, Runs
  <2> QED BY <1>10, <2>2, <2>3, <2>4 DEF Writes
<1>11. ~ (SwitchCatalog(t) \/ ReadPointer(t) \/ SwapPointer(t) \/ Abort(t))
  BY <1>3 DEF SwitchCatalog, ReadPointer, SwapPointer, Abort
<1>12. CASE Apply(t)
  <2> DEFINE s == release_lease(transition_activation(task[t].rec, "applied"))
  <2>1. /\ task[t].pc = "apply" /\ acts' = [acts EXCEPT ![task[t].act] = s]
        /\ Return(t, "applied")
    BY <1>3, <1>12 DEF Apply
  <2>2. s.state = "applied" /\ s.lease_owner = NoProcess
    BY <1>1, WrittenParts
  <2> HIDE DEF s
  <2>3. a = task[t].act /\ acts'[a] = s
    BY <1>1, <2>1
  <2>4. acts[a] # NoRecord
    BY <1>1, <2>1, <2>3 DEF TaskOK, Copied, Working
  <2> QED BY <2>1, <2>2, <2>3, <2>4 DEF Writes
<1>13. CASE MarkRolledBack(t)
  <2> DEFINE b == task[t].orig.act
             s == transition_activation(acts[b], "rolled_back")
  <2>1. task[t].pc = "mark" /\ acts' = [acts EXCEPT ![b] = s]
        /\ acts[b].version = task[t].orig.version
    BY <1>3, <1>13 DEF MarkRolledBack
  <2>2. a = b /\ acts'[a] = s
    BY <1>1, <2>1
  <2>3. s.state = "rolled_back" /\ s.lease_owner = acts[b].lease_owner
    BY <1>1, <2>2, WrittenParts
  <2>4. acts[a] # NoRecord
    BY <1>1, <2>1, <2>2, ActivationConstants DEF TaskOK, Local, OrigOK, NoOriginal
  <2> HIDE DEF s, b
  <2> QED BY <2>1, <2>2, <2>3, <2>4 DEF Writes, b
<1>14. CASE Terminal(t)
  <2> DEFINE state == IF task[t].pc = "failing" THEN "failed" ELSE "superseded"
             s == release_lease(transition_activation(acts[task[t].act], state))
  <2>1. /\ task[t].pc \in {"failing", "superseding"}
        /\ acts' = [acts EXCEPT ![task[t].act] = s] /\ task'[t] = Idle
    BY <1>2, <1>3, <1>14 DEF Terminal
  <2>2. a = task[t].act /\ acts'[a] = s
    BY <1>1, <2>1
  <2>3. s.state = state /\ s.lease_owner = NoProcess
    <3> HIDE DEF state
    <3> QED BY <1>1, <2>2, WrittenParts
  <2>4. acts[a] # NoRecord
    BY <1>1, <2>1, <2>2 DEF TaskOK, Copied, Working
  <2> HIDE DEF s
  <2> QED BY <2>1, <2>2, <2>3, <2>4 DEF Writes
<1> QED BY <1>4, <1>5, <1>6, <1>7, <1>8, <1>9, <1>10, <1>11, <1>12, <1>13, <1>14 DEF CallStep

LEMMA StepWrites ==
    ASSUME Typed, Next, NEW a \in Activations, acts'[a] # acts[a]
    PROVE  \E t \in Tasks : CallStep(t) /\ Writes(t, a)
<1>1. ASSUME NEW p \in Processes, Crash(p) PROVE FALSE
  BY <1>1 DEF Crash
<1>2. ASSUME NEW b \in Activations, LeaseExpires(b) PROVE FALSE
  BY <1>2 DEF LeaseExpires
<1> QED BY <1>1, <1>2, CallWrites, StepKinds

\* Where a call stands after its step: it is free, it plans, it waits for a lease, it has
\* one, it returns to a rollback, or it works on.
Becomes(t, y) ==
    \/ y = Idle
    \/ /\ task[t].pc = "idle" /\ y.pc = "plan" /\ acts' = acts
       /\ y.rec.rollback_of = y.orig.act /\ Base(y.rec) = pointer /\ pointer' = pointer
       /\ \/ y.orig = NoOriginal
          \/ /\ y.orig.act \in Activations
             /\ y.rec.target = acts[y.orig.act].expected_revision
    \/ /\ task[t].pc = "idle" /\ y.pc = "acquire" /\ acts[y.act] # NoRecord
       /\ y.orig = NoOriginal \/ acts[y.act].rollback_of = y.orig.act
    \/ /\ task[t].pc = "plan" /\ y.pc = "acquire" /\ acts[y.act] = NoRecord
       /\ y.act = task[t].act /\ y.orig = task[t].orig
       /\ acts'[y.act] = PlanActions(task[t].rec, ProcessOf[t])
    \/ /\ task[t].pc = "acquire" /\ y.pc = "start" /\ Acquire(t)
       /\ y.act = task[t].act /\ y.orig = task[t].orig /\ y.rec = acts'[y.act]
       /\ acts' # acts
    \/ /\ task[t].pc \in {"acquire", "apply"} /\ y.pc = "mark"
       /\ y.orig = task[t].orig /\ task[t].orig # NoOriginal
       /\ acts'[task[t].act].state = "applied"
    \/ /\ task[t].pc \in Working /\ y.pc \in Working \ {"start"}
       /\ task[t].pc = "start" => \/ task[t].rec.state \notin {"none", "pending"}
                                 \/ acts'[y.act].state = "running"
       /\ y.act = task[t].act /\ y.orig = task[t].orig
       /\ y.pc = "superseding" => SwitchCatalog(t) \/ SwapPointer(t)
       /\ y.pc = "pointer" /\ y.step = "swap" => ReadPointer(t)

LEMMA CallBecomes ==
    ASSUME Typed, NEW t \in Tasks, CallStep(t)
    PROVE  Becomes(t, task'[t])
<1>1. task[t] \in TaskStates /\ TaskOK(task[t], acts)
  BY CallFacts
<1>2. ASSUME NEW y, SetTask(t, y) PROVE task'[t] = y
  BY <1>2 DEF SetTask, Typed, TasksOK
<1>3. ASSUME NEW p \in Working \ {"start", "pointer"}, task[t].pc \in Working, Goto(t, p),
             task[t].pc # "start",
             p = "superseding" => SwitchCatalog(t) \/ SwapPointer(t)
      PROVE  Becomes(t, task'[t])
  <2> DEFINE y == [task[t] EXCEPT !.pc = p, !.step = "do"]
  <2>1. task'[t] = y
    BY <1>2, <1>3 DEF Goto
  <2>2. y.pc = p /\ y.act = task[t].act /\ y.orig = task[t].orig
    BY <1>1 DEF TaskStates
  <2> HIDE DEF y
  <2> QED BY <1>3, <2>1, <2>2 DEF Becomes
<1>4. ASSUME NEW step \in {"swap", "note"}, task[t].pc \in Working,
             SetTask(t, [task[t] EXCEPT !.step = step]), step = "swap" => ReadPointer(t),
             task[t].pc \notin {"start", "superseding"}
      PROVE  Becomes(t, task'[t])
  <2> DEFINE y == [task[t] EXCEPT !.step = step]
  <2>1. task'[t] = y
    BY <1>2, <1>4
  <2>2. y.pc = task[t].pc /\ y.step = step /\ y.act = task[t].act /\ y.orig = task[t].orig
    BY <1>1 DEF TaskStates
  <2> HIDE DEF y
  <2> QED BY <1>4, <2>1, <2>2 DEF Becomes
<1>5. ASSUME NEW w, Return(t, w), task[t].pc \in {"acquire", "apply"},
             w = "applied" => acts'[task[t].act].state = "applied"
      PROVE  Becomes(t, task'[t])
  <2> DEFINE y == [Idle EXCEPT !.pc = "mark", !.orig = task[t].orig]
  <2>1. y.pc = "mark" /\ y.orig = task[t].orig
    BY IdleFields DEF TaskStates
  <2>2. CASE w = "applied" /\ task[t].orig # NoOriginal
    <3>1. task'[t] = y
      BY <1>2, <1>5, <2>2 DEF Return
    <3> HIDE DEF y
    <3> QED BY <1>5, <2>1, <2>2, <3>1 DEF Becomes
  <2>3. CASE ~(w = "applied" /\ task[t].orig # NoOriginal)
    BY <1>2, <1>5, <2>3 DEF Return, Becomes
  <2> QED BY <2>2, <2>3
<1>6. ASSUME NEW a \in Activations, NEW r \in Revs, NEW o,
             o \in [act : Activations \cup {NoActivation}, version : Nat],
             PlanPointer(t, a, r, o), task[t].pc = "idle", UNCHANGED <<acts, shared>>,
             o = NoOriginal \/ (o.act \in Activations /\ r = acts[o.act].expected_revision)
      PROVE  Becomes(t, task'[t])
  <2>1. PICK y \in TaskStates :
              /\ task' = [task EXCEPT ![t] = y]
              /\ y.pc = "plan" /\ y.step = "do" /\ y.act = a /\ y.orig = o
              /\ y.rec \in Records /\ y.rec.target = r /\ y.rec.rollback_of = o.act
              /\ Base(y.rec) = pointer /\ y.rec.checkpoints = {}
    BY <1>6, PlanFields
  <2>2. task'[t] = y
    BY <2>1 DEF Typed, TasksOK
  <2> QED BY <1>6, <2>1, <2>2 DEF Becomes, shared
<1>7. CASE \E a \in Activations, r \in Revisions : Activate(t, a, r)
  <2>1. PICK a \in Activations, r \in Revisions : Activate(t, a, r)
    BY <1>7
  <2>2. /\ PlanPointer(t, a, r, NoOriginal) /\ task[t].pc = "idle" /\ UNCHANGED <<acts, shared>>
        /\ NoOriginal \in [act : Activations \cup {NoActivation}, version : Nat]
        /\ r \in Revs
    BY <2>1, RecordFields DEF Activate, NoOriginal
  <2> QED BY <1>6, <2>2
<1>8. CASE \E a, b \in Activations : Rollback(t, a, b)
  <2>1. PICK a \in Activations, b \in Activations : Rollback(t, a, b)
    BY <1>8
  <2> DEFINE orig == [act |-> b, version |-> acts[b].version]
             old  == [NoOriginal EXCEPT !.act = b]
  <2>2. acts[b] \in Records
    BY RecordsOfStore
  <2>3. /\ orig \in [act : Activations \cup {NoActivation}, version : Nat] /\ orig.act = b
        /\ old \in [act : Activations \cup {NoActivation}, version : Nat] /\ old.act = b
        /\ acts[b].expected_revision \in Revs
        /\ task[t].pc = "idle" /\ UNCHANGED <<acts, shared>>
    BY <2>1, <2>2 DEF Rollback, NoOriginal, Records
  <2> HIDE DEF orig, old
  <2>4. CASE PlanPointer(t, a, acts[b].expected_revision,
                         IF acts[b].state = "applied" THEN orig ELSE old)
    <3>1. CASE acts[b].state = "applied"
      BY <1>6, <2>3, <2>4, <3>1
    <3>2. CASE acts[b].state # "applied"
      BY <1>6, <2>3, <2>4, <3>2
    <3> QED BY <3>1, <3>2
  <2>5. CASE /\ acts[a].rollback_of = b
             /\ SetTask(t, [Idle EXCEPT !.pc = "acquire", !.act = a, !.orig = orig])
    <3> DEFINE y == [Idle EXCEPT !.pc = "acquire", !.act = a, !.orig = orig]
    <3>1. task'[t] = y
      BY <1>2, <2>5
    <3>2. y.pc = "acquire" /\ y.act = a /\ y.orig = orig
      BY IdleFields DEF TaskStates
    <3>3. acts[a] # NoRecord
      BY <2>5, ActivationConstants DEF NoRecord
    <3> HIDE DEF y
    <3> QED BY <2>3, <2>5, <3>1, <3>2, <3>3 DEF Becomes
  <2> QED BY <2>1, <2>4, <2>5 DEF Rollback, orig, old
<1>9. CASE Create(t)
  <2> DEFINE y == [task[t] EXCEPT !.pc = "acquire", !.rec = NoRecord]
             rec == PlanActions(task[t].rec, ProcessOf[t])
  <2>1. CASE acts[task[t].act] = NoRecord
    <3>1. task[t].pc = "plan" /\ task'[t] = y /\ acts' = [acts EXCEPT ![task[t].act] = rec]
      BY <1>2, <1>9, <2>1 DEF Create
    <3>2. y.pc = "acquire" /\ y.act = task[t].act /\ y.orig = task[t].orig
      BY <1>1 DEF TaskStates
    <3> HIDE DEF y, rec
    <3>3. acts'[task[t].act] = rec
      BY <1>1, <3>1 DEF Typed, StoreOK, TaskOK, Local
    <3> QED BY <2>1, <3>1, <3>2, <3>3 DEF Becomes, rec
  <2>2. CASE acts[task[t].act] # NoRecord
    BY <1>2, <1>9, <2>2 DEF Create, Becomes
  <2> QED BY <2>1, <2>2
<1>10. CASE \E a \in Activations : Resume(t, a) \/ RegisterReadiness(t, a)
  <2>1. PICK a \in Activations : Resume(t, a) \/ RegisterReadiness(t, a)
    BY <1>10
  <2> DEFINE y == [Idle EXCEPT !.pc = "acquire", !.act = a]
  <2>2. task'[t] = y /\ task[t].pc = "idle" /\ acts[a] # NoRecord
    BY <1>2, <2>1 DEF Resume, RegisterReadiness
  <2>3. y.pc = "acquire" /\ y.act = a /\ y.orig = NoOriginal
    BY EnterFields
  <2> HIDE DEF y
  <2> QED BY <2>2, <2>3 DEF Becomes
<1>11. CASE Acquire(t)
  <2> DEFINE a == task[t].act
             y == [task[t] EXCEPT !.pc = "start",
                                  !.rec = acquire_activation_lease(acts[a], ProcessOf[t])]
  <2>1. task[t].pc = "acquire"
    BY <1>11 DEF Acquire
  <2>2. CASE Return(t, acts[a].state) /\ UNCHANGED acts
    BY <1>5, <2>1, <2>2
  <2>3. CASE SetTask(t, Idle)
    BY <1>2, <2>3 DEF Becomes
  <2>4. CASE SetTask(t, y)
    <3>1. task'[t] = y
      BY <1>2, <2>4
    <3>2. /\ y.pc = "start" /\ y.act = a /\ y.orig = task[t].orig
          /\ y.rec = acquire_activation_lease(acts[a], ProcessOf[t])
      BY <1>1 DEF TaskStates
    <3>3. a \in Activations /\ acts[a] # NoRecord /\ ProcessOf[t] \in Processes
      BY <1>1, <2>1, CallFacts DEF TaskOK, Local
    <3>4. acts' = [acts EXCEPT ![a] = acquire_activation_lease(acts[a], ProcessOf[t])]
      <4>1. ~SetTask(t, Idle)
        BY <1>2, <3>1, <3>2, IdleFields
      <4>2. ~Return(t, acts[a].state)
        <5>1. [Idle EXCEPT !.pc = "mark", !.orig = task[t].orig].pc = "mark"
          BY IdleFields DEF TaskStates
        <5> QED BY <1>2, <3>1, <3>2, <4>1, <5>1 DEF Return
      <4> QED BY <1>11, <4>1, <4>2 DEF Acquire
    <3> HIDE DEF y
    <3>5. y.rec = acts'[a] /\ acts'[a].version # acts[a].version
      <4>1. Good(acts[a])
        BY <3>3 DEF Typed, StoreOK
      <4>2. Follows(acts[a], y.rec) /\ acts[a].version \in Nat
        BY <3>2, <3>3, <4>1, LeaseWrites DEF Good, Records
      <4> QED BY <3>2, <3>3, <3>4, <4>2 DEF Follows, Typed, StoreOK
    <3> QED BY <1>11, <2>1, <3>1, <3>2, <3>5 DEF Becomes
  <2> QED BY <1>11, <2>2, <2>3, <2>4 DEF Acquire
<1>12. CASE Runs(t)
  <2>1. PICK y \in TaskStates :
         /\ task' = [task EXCEPT ![t] = y]
         /\ y # Idle => /\ y.pc \in Working \ {"start", "superseding"}
                        /\ y.act = task[t].act /\ y.orig = task[t].orig
                        /\ y.pc = "pointer" => y.step = "do"
                        /\ task[t].pc = "start" =>
                              \/ task[t].rec.state \notin {"none", "pending"}
                              \/ acts'[y.act].state = "running"
    BY <1>12 DEF Runs
  <2>2. task'[t] = y /\ task[t].pc \in Working
    BY <1>12, <2>1 DEF Typed, TasksOK, Runs
  <2> QED BY <2>1, <2>2 DEF Becomes
<1>13. CASE SwitchCatalog(t)
  <2>1. task[t].pc = "catalog" /\ task[t].pc \in Working /\ "superseding" \in Working
    BY <1>13 DEF SwitchCatalog, At, Working, Stages
  <2>2. EffectDone(t) \/ Goto(t, "superseding")
    BY <1>13 DEF SwitchCatalog
  <2> QED BY <1>3, <1>4, <1>13, <2>1, <2>2 DEF EffectDone
<1>14. CASE ReadPointer(t)
  <2>1. task[t].pc = "pointer" /\ task[t].pc \in Working
    BY <1>14 DEF ReadPointer, At, Working, Stages
  <2>2. EffectDone(t) \/ SetTask(t, [task[t] EXCEPT !.step = "swap"])
    BY <1>14 DEF ReadPointer
  <2> QED BY <1>4, <1>14, <2>1, <2>2 DEF EffectDone
<1>15. CASE SwapPointer(t)
  <2>1. task[t].pc = "pointer" /\ task[t].pc \in Working /\ "superseding" \in Working
    BY <1>15 DEF SwapPointer, Working, Stages
  <2>2. EffectDone(t) \/ Goto(t, "superseding")
    BY <1>15 DEF SwapPointer
  <2> QED BY <1>3, <1>4, <1>15, <2>1, <2>2 DEF EffectDone
<1>16. CASE Apply(t)
  <2> DEFINE r == task[t].rec
  <2>1. task[t].pc = "apply" /\ task[t].act \in Activations
    BY <1>1, <1>16 DEF Apply, TaskOK, Local
  <2>2. CASE MayTransition(r, "applied") /\ acts[task[t].act].version = r.version
    <3>1. /\ acts' = [acts EXCEPT ![task[t].act] =
                          release_lease(transition_activation(r, "applied"))]
          /\ Return(t, "applied")
      BY <1>16, <2>2 DEF Apply
    <3>2. acts'[task[t].act].state = "applied"
      BY <2>1, <3>1, WrittenParts, RecordsOfStore DEF Typed, StoreOK
    <3> QED BY <1>5, <2>1, <3>1, <3>2
  <2>3. CASE ~(MayTransition(r, "applied") /\ acts[task[t].act].version = r.version)
    BY <1>2, <1>16, <2>3 DEF Apply, Becomes
  <2> QED BY <2>2, <2>3
<1>17. CASE MarkRolledBack(t) \/ Terminal(t) \/ Abort(t)
  BY <1>2, <1>17 DEF MarkRolledBack, Terminal, Abort, Becomes
<1> QED BY <1>7, <1>8, <1>9, <1>10, <1>11, <1>12, <1>13, <1>14, <1>15, <1>16, <1>17
        DEF CallStep

-----------------------------------------------------------------------------
(* Layer three: rollbacks and what they replace.                           *)

\* An activation of the predecessor of b was applied.
Replaced(b, A) ==
    \E a \in Activations : /\ A[a].rollback_of = b
                           /\ A[a].state \in {"applied", "rolled_back"}
                           /\ A[a].target = A[b].expected_revision

\* A rollback activates what its original replaced.
Ancestry ==
    \A a \in Activations : acts[a] # NoRecord /\ acts[a].rollback_of # NoActivation =>
        /\ acts[a].rollback_of \in Activations /\ acts[acts[a].rollback_of] # NoRecord
        /\ acts[a].target = acts[acts[a].rollback_of].expected_revision

\* A call that rolls back works for its original throughout.
RollsBack(x, A) ==
    /\ x.pc = "plan" => x.rec.rollback_of = x.orig.act
    /\ x.orig # NoOriginal =>
         /\ x.pc = "plan" => x.rec.target = A[x.orig.act].expected_revision
         /\ x.pc = "acquire" \/ x.pc \in Working => A[x.act].rollback_of = x.orig.act
         /\ x.pc = "mark" => Replaced(x.orig.act, A)

Rollbacks ==
    /\ Ancestry
    /\ \A t \in Tasks : RollsBack(task[t], acts)
    /\ RolledBackWasReplaced

LEMMA PlansStay ==
    ASSUME Typed, Next, NEW a \in Activations, acts[a] # NoRecord
    PROVE  /\ acts'[a] # NoRecord
           /\ acts'[a].target = acts[a].target /\ acts'[a].rollback_of = acts[a].rollback_of
           /\ acts'[a].expected_revision = acts[a].expected_revision
           /\ acts'[a].expected_version = acts[a].expected_version
           /\ acts'[a].expected_aliases = acts[a].expected_aliases
           /\ acts[a].state \in {"applied", "rolled_back"} =>
                  acts'[a].state \in {"applied", "rolled_back"}
<1>1. StoreGrows /\ NothingLost
  BY NextTyped, ForwardLosesNothing
<1>2. Grows(acts[a], acts'[a]) /\ acts'[a] # NoRecord
  BY <1>1, PlanStays, StoreGrowsKeeps DEF Typed
<1> QED BY <1>1, <1>2 DEF Grows, SamePlan, NothingLost, Final

LEMMA ReplacedStays ==
    ASSUME Typed, Next, NEW b \in Activations, acts[b] # NoRecord, Replaced(b, acts)
    PROVE  Replaced(b, acts')
<1>1. PICK a \in Activations : /\ acts[a].rollback_of = b
                               /\ acts[a].state \in {"applied", "rolled_back"}
                               /\ acts[a].target = acts[b].expected_revision
  BY DEF Replaced
<1>2. acts[a] # NoRecord
  BY <1>1, RecordFields
<1> QED BY <1>1, <1>2, PlansStay DEF Replaced

LEMMA NextAncestry ==
    ASSUME Typed, Rollbacks, Next
    PROVE  Ancestry'
<1> SUFFICES ASSUME NEW a \in Activations, acts'[a] # NoRecord,
                    acts'[a].rollback_of # NoActivation
             PROVE  /\ acts'[a].rollback_of \in Activations
                    /\ acts'[acts'[a].rollback_of] # NoRecord
                    /\ acts'[a].target = acts'[acts'[a].rollback_of].expected_revision
  BY DEF Ancestry
<1>1. CASE acts[a] # NoRecord
  BY <1>1, PlansStay DEF Rollbacks, Ancestry
<1>2. CASE acts[a] = NoRecord
  <2>1. PICK t \in Tasks : CallStep(t) /\ Writes(t, a)
    BY <1>2, StepWrites
  <2> DEFINE x == task[t]
             b == x.orig.act
  <2>2. /\ x.pc = "plan" /\ x.act = a /\ acts'[a] = PlanActions(x.rec, ProcessOf[t])
        /\ x.rec \in Records /\ x.rec.target \in Revisions /\ x.rec.checkpoints = {}
        /\ ProcessOf[t] \in Processes /\ TaskOK(x, acts) /\ RollsBack(x, acts)
    BY <1>2, <2>1, CallFacts, RecordFields
       DEF Writes, TaskOK, Local, TaskStates, Rollbacks
  <2>3. acts'[a].target = x.rec.target /\ acts'[a].rollback_of = x.rec.rollback_of
    BY <2>2, PlanActionsFields
  <2>4. acts'[a].rollback_of = b
    BY <2>2, <2>3 DEF RollsBack
  <2>5. x.orig # NoOriginal
    BY <2>4 DEF NoOriginal
  <2>6. acts'[a].target = acts[b].expected_revision /\ b \in Activations /\ acts[b] # NoRecord
    BY <2>2, <2>3, <2>5 DEF RollsBack, TaskOK, OrigOK
  <2> HIDE DEF b
  <2> QED BY <2>4, <2>6, PlansStay
<1> QED BY <1>1, <1>2

LEMMA NextRollsBack ==
    ASSUME Typed, Rollbacks, Next, NEW u \in Tasks
    PROVE  RollsBack(task'[u], acts')
<1>1. /\ TaskOK(task[u], acts) /\ RollsBack(task[u], acts)
  BY CallFacts DEF Rollbacks
<1>2. ASSUME NEW x, TaskOK(x, acts), RollsBack(x, acts) PROVE RollsBack(x, acts')
  <2>1. CASE x.orig = NoOriginal
    BY <1>2, <2>1 DEF RollsBack
  <2>2. CASE x.orig # NoOriginal
    <3>1. x.orig.act \in Activations /\ acts[x.orig.act] # NoRecord
      BY <1>2, <2>2 DEF TaskOK, OrigOK
    <3>2. x.pc = "acquire" \/ x.pc \in Working => x.act \in Activations /\ acts[x.act] # NoRecord
      BY <1>2 DEF TaskOK, Local, Copied, Working, Stages
    <3> QED BY <1>2, <2>2, <3>1, <3>2, PlansStay, ReplacedStays DEF RollsBack
  <2> QED BY <2>1, <2>2
<1>3. RollsBack(Idle, acts')
  BY IdleFields DEF RollsBack, Working, Stages
<1>4. ASSUME NEW t \in Tasks, CallStep(t) PROVE RollsBack(task'[u], acts')
  <2>1. CASE u # t
    BY <1>1, <1>2, <1>4, <2>1, OthersStand
  <2>2. CASE u = t
    <3> DEFINE x == task[t]
               y == task'[t]
    <3>1. Becomes(t, y) /\ RollsBack(x, acts') /\ TaskOK(x, acts) /\ TaskOK(y, acts')
      BY <1>1, <1>2, <1>4, <2>2, CallBecomes, NextTyped DEF Typed, TasksOK
    <3>2. CASE y = Idle
      BY <1>3, <2>2, <3>2
    <3>3. CASE /\ y.pc = "plan" /\ y.rec.rollback_of = y.orig.act
               /\ acts' = acts
               /\ \/ y.orig = NoOriginal
                  \/ /\ y.orig.act \in Activations
                     /\ y.rec.target = acts[y.orig.act].expected_revision
      BY <2>2, <3>3 DEF RollsBack, Working, Stages
    <3>4. CASE /\ y.pc = "acquire" /\ acts[y.act] # NoRecord
               /\ y.orig = NoOriginal \/ acts[y.act].rollback_of = y.orig.act
      <4>1. y.act \in Activations
        BY <3>1, <3>4 DEF TaskOK, Local
      <4> QED BY <2>2, <3>4, <4>1, PlansStay DEF RollsBack, Working, Stages
    <3>5. CASE /\ x.pc = "plan" /\ y.pc = "acquire" /\ y.act = x.act /\ y.orig = x.orig
               /\ acts'[y.act] = PlanActions(x.rec, ProcessOf[t])
      <4>1. /\ x.rec \in Records /\ x.rec.target \in Revisions /\ x.rec.checkpoints = {}
            /\ ProcessOf[t] \in Processes
        BY <3>1, <3>5, CallFacts DEF TaskOK, Local, TaskStates
      <4>2. acts'[y.act].rollback_of = x.rec.rollback_of
        BY <3>5, <4>1, PlanActionsFields
      <4> QED BY <2>2, <3>1, <3>5, <4>2 DEF RollsBack, Working, Stages
    <3>6. CASE /\ x.pc = "acquire" /\ y.pc = "start" /\ y.act = x.act /\ y.orig = x.orig
      BY <2>2, <3>1, <3>6 DEF RollsBack
    <3>7. CASE /\ x.pc \in {"acquire", "apply"} /\ y.pc = "mark"
               /\ y.orig = x.orig /\ x.orig # NoOriginal
               /\ acts'[x.act].state = "applied"
      <4>1. /\ x.act \in Activations /\ x.orig.act \in Activations
            /\ acts'[x.act].rollback_of = x.orig.act
        BY <3>1, <3>7 DEF RollsBack, TaskOK, Local, OrigOK, Working
      <4>2. acts'[x.act] # NoRecord /\ x.orig.act # NoActivation
        BY <3>7, <4>1, RecordFields, ActivationConstants
      <4>3. acts'[x.act].target = acts'[x.orig.act].expected_revision
        BY <4>1, <4>2, NextAncestry DEF Ancestry
      <4>4. Replaced(y.orig.act, acts')
        BY <3>7, <4>1, <4>3 DEF Replaced
      <4> QED BY <2>2, <3>7, <4>4 DEF RollsBack, Working, Stages
    <3>8. CASE /\ x.pc \in Working /\ y.pc \in Working /\ y.act = x.act /\ y.orig = x.orig
      BY <2>2, <3>1, <3>8 DEF RollsBack, Working, Stages
    <3> QED BY <3>1, <3>2, <3>3, <3>4, <3>5, <3>6, <3>7, <3>8 DEF Becomes
  <2> QED BY <2>1, <2>2
<1>5. ASSUME NEW p \in Processes, Crash(p) PROVE RollsBack(task'[u], acts')
  BY <1>1, <1>2, <1>3, <1>5 DEF Crash
<1>6. ASSUME NEW b \in Activations, LeaseExpires(b) PROVE RollsBack(task'[u], acts')
  BY <1>1, <1>2, <1>6 DEF LeaseExpires
<1> QED BY <1>4, <1>5, <1>6, StepKinds

LEMMA NextRollbacks ==
    ASSUME Typed, Rollbacks, Next
    PROVE  Rollbacks'
<1>1. ASSUME NEW b \in Activations, acts'[b].state = "rolled_back" PROVE Replaced(b, acts')
  <2>1. acts'[b] # NoRecord
    BY <1>1, RecordFields
  <2>2. CASE acts[b].state = "rolled_back"
    <3>1. acts[b] # NoRecord
      BY <2>2, RecordFields
    <3>2. Replaced(b, acts)
      BY <2>2 DEF Rollbacks, RolledBackWasReplaced, Replaced
    <3> QED BY <3>1, <3>2, ReplacedStays
  <2>3. CASE acts[b].state # "rolled_back"
    <3>1. PICK t \in Tasks : CallStep(t) /\ Writes(t, b)
      BY <1>1, <2>3, StepWrites
    <3>2. TaskOK(task[t], acts) /\ RollsBack(task[t], acts)
      BY CallFacts DEF Rollbacks
    <3>3. CASE task[t].pc = "plan" /\ acts'[b] = PlanActions(task[t].rec, ProcessOf[t])
      <4>1. /\ task[t].rec \in Records /\ task[t].rec.target \in Revisions
            /\ task[t].rec.checkpoints = {} /\ ProcessOf[t] \in Processes
        BY <3>2, <3>3, CallFacts DEF TaskOK, Local, TaskStates
      <4> QED BY <1>1, <3>3, <4>1, PlanActionsFields
    <3>4. CASE task[t].pc = "mark" /\ task[t].orig.act = b /\ acts[b] # NoRecord
      <4>1. task[t].orig # NoOriginal
        BY <3>4, ActivationConstants DEF NoOriginal
      <4>2. Replaced(b, acts)
        BY <3>2, <3>4, <4>1 DEF RollsBack
      <4> QED BY <3>4, <4>2, ReplacedStays
    <3> QED BY <1>1, <2>3, <3>1, <3>3, <3>4 DEF Writes
  <2> QED BY <2>2, <2>3
<1>2. RolledBackWasReplaced'
  BY <1>1 DEF RolledBackWasReplaced, Replaced
<1> QED BY <1>2, NextAncestry, NextRollsBack DEF Rollbacks

LEMMA InitRollbacks == Init => Rollbacks
<1> SUFFICES ASSUME Init PROVE Rollbacks
  OBVIOUS
<1>1. \A t \in Tasks : RollsBack(task[t], acts)
  BY IdleFields DEF Init, RollsBack, Working, Stages
<1> QED BY <1>1, RecordFields DEF Init, Rollbacks, Ancestry, RolledBackWasReplaced

LEMMA StutterRollbacks ==
    ASSUME Rollbacks, UNCHANGED vars
    PROVE  Rollbacks'
  BY DEF Rollbacks, Ancestry, RollsBack, RolledBackWasReplaced, Replaced, vars

\* Of the activations planned against one pointer version one target wins, and only
\* an activation whose predecessor was activated again is marked rolled back
\* (compare_and_swap_active, rollback).
THEOREM WinnersInLine == Spec => []WinnersAreInLine
<1> DEFINE I == Typed /\ Line /\ Rollbacks
<1>1. Init => I
  BY InitTyped, InitLine, InitRollbacks
<1>2. I /\ [Next]_vars => I'
  <2> SUFFICES ASSUME I, [Next]_vars PROVE I'
    OBVIOUS
  <2>1. CASE Next
    BY <2>1, NextTyped, NextLine, NextRollbacks
  <2>2. CASE UNCHANGED vars
    BY <2>2, StutterTyped, StutterLine, StutterRollbacks
  <2> QED BY <2>1, <2>2
<1>3. I => WinnersAreInLine
  BY LineIsOneWinner DEF WinnersAreInLine, Rollbacks
<1> QED BY <1>1, <1>2, <1>3, PTL DEF Spec

-----------------------------------------------------------------------------
(* Layer four: rivals, and who works under the lease.                      *)

Begun(a) == acts[a].state \notin {"none", "pending"}
Rival(a) == \E b \in Activations \ {a} : Begun(b)

AtWorkOn(t, a) == task[t].pc \in Working /\ task[t].act = a

\* Past its start a call works on an activation that has begun.
WorkHasBegun ==
    \A t \in Tasks : \A a \in Activations :
        /\ AtWorkOn(t, a)
        /\ task[t].pc = "start" => task[t].rec.state \notin {"none", "pending"}
        => Begun(a)

\* Without a rival, the aliases and the pointer are as an activation found them or as
\* it leaves them.
Undisturbed ==
    \A a \in Activations : acts[a] # NoRecord /\ ~Rival(a) =>
        /\ aliases \in {acts[a].expected_aliases, WorkflowsOf(acts[a].target)}
        /\ pointer \in {Base(acts[a]), Switch(acts[a])}

\* So is the pointer while the activation is still being planned.
PlanIsFresh ==
    \A t \in Tasks : \A a \in Activations :
        task[t].pc = "plan" /\ task[t].act = a /\ acts[a] = NoRecord /\ ~Rival(a)
        => pointer = Base(task[t].rec)

\* Unless the lease was lost to a later call, one call works on an activation and its
\* controller holds the lease.
LeaseIsExclusive ==
    \A t \in Tasks : \A a \in Activations : AtWorkOn(t, a) /\ a \notin overtaken =>
        /\ acts[a].lease_owner = ProcessOf[t] /\ a \notin expired
        /\ \A u \in Tasks : AtWorkOn(u, a) => u = t

\* A call about to swap the pointer then finds it as planned.
SwapIsDue ==
    \A t \in Tasks : \A a \in Activations :
        AtWorkOn(t, a) /\ task[t].pc = "pointer" /\ task[t].step = "swap"
        /\ a \notin overtaken /\ ~Rival(a) => pointer = Base(acts[a])

SupersedesRival ==
    \A t \in Tasks : \A a \in Activations :
        AtWorkOn(t, a) /\ task[t].pc = "superseding" => Rival(a) \/ a \in overtaken

Rivalry ==
    /\ WorkHasBegun /\ Undisturbed /\ PlanIsFresh /\ LeaseIsExclusive /\ SwapIsDue
    /\ SupersedesRival /\ SupersededHadRival

LEMMA OnlySwitchesAlias ==
    ASSUME [Next]_vars, aliases' # aliases
    PROVE  \E t \in Tasks : SwitchCatalog(t)
<1>1. ASSUME NEW t \in Tasks, TaskNext(t), ~SwitchCatalog(t) PROVE aliases' = aliases
  <2>1. ASSUME StageNext(t) PROVE aliases' = aliases
    BY <1>1, <2>1
       DEF StageNext, Skip, Note, StoreDefinitions, Rollout, Readiness, ReconcileSchedules,
           SwapPointer, SwitchWorkerRouting, ReadPointer, ReplaceRuntimeIndex, shared
  <2> QED
    BY <1>1, <2>1
       DEF TaskNext, Activate, Rollback, Create, Resume, RegisterReadiness, Acquire,
           StartOrResume, WaitingForReadiness, Prepare, Apply, MarkRolledBack, ExternalFails,
           Terminal, Abort, shared
<1>2. ASSUME NEW p \in Processes, Crash(p) PROVE aliases' = aliases
  BY <1>2 DEF Crash
<1>3. ASSUME NEW a \in Activations, LeaseExpires(a) PROVE aliases' = aliases
  BY <1>3 DEF LeaseExpires, shared
<1>4. CASE UNCHANGED vars
  BY <1>4 DEF vars, shared
<1> QED BY <1>1, <1>2, <1>3, <1>4 DEF Next

\* Each call stands still, is cut off, or makes the step.
LEMMA EachCall ==
    ASSUME Typed, Next, NEW u \in Tasks
    PROVE  \/ task'[u] = task[u]
           \/ task'[u] = Idle
           \/ CallStep(u) /\ Becomes(u, task'[u])
<1>1. ASSUME NEW t \in Tasks, CallStep(t)
      PROVE  task'[u] = task[u] \/ (CallStep(u) /\ Becomes(u, task'[u]))
  BY <1>1, OthersStand, CallBecomes
<1>2. ASSUME NEW p \in Processes, Crash(p) PROVE task'[u] = task[u] \/ task'[u] = Idle
  BY <1>2 DEF Crash
<1>3. ASSUME NEW b \in Activations, LeaseExpires(b) PROVE task'[u] = task[u]
  BY <1>3 DEF LeaseExpires
<1> QED BY <1>1, <1>2, <1>3, StepKinds

LEMMA BegunStays ==
    ASSUME Typed, Next
    PROVE  /\ \A a \in Activations : Begun(a) => Begun(a)'
           /\ \A a \in Activations : Rival(a) => Rival(a)'
<1>1. StoreGrows
  BY NextTyped
<1>2. ASSUME NEW a \in Activations, Begun(a) PROVE Begun(a)'
  <2>1. acts[a] # NoRecord /\ acts[a].state \in States
    BY <1>2, RecordFields, RecordsOfStore DEF Begun, Records
  <2>2. acts'[a] = acts[a] \/ Follows(acts[a], acts'[a])
    BY <1>1, <2>1 DEF StoreGrows, Forward
  <2>3. acts'[a].state = acts[a].state \/ acts'[a].state \in Allowed[acts[a].state]
    BY <2>2 DEF Follows
  <2> QED BY <1>2, <2>1, <2>3 DEF Begun, Allowed, States
<1> QED BY <1>2 DEF Rival

LEMMA OvertakenStays ==
    ASSUME Typed, Next
    PROVE  overtaken \subseteq overtaken'
<1>1. ASSUME NEW t \in Tasks, CallStep(t) PROVE overtaken \subseteq overtaken'
  BY <1>1 DEF CallStep, Activate, Rollback, Create, Resume, RegisterReadiness, Acquire, Runs,
     SwitchCatalog, ReadPointer, SwapPointer, Apply, MarkRolledBack, Terminal, Abort
<1>2. ASSUME NEW p \in Processes, Crash(p) PROVE overtaken \subseteq overtaken'
  BY <1>2 DEF Crash
<1>3. ASSUME NEW b \in Activations, LeaseExpires(b) PROVE overtaken \subseteq overtaken'
  BY <1>3 DEF LeaseExpires
<1> QED BY <1>1, <1>2, <1>3, StepKinds

\* A call at work has a record, planned as its copy is.
LEMMA AtWorkFields ==
    ASSUME Typed, NEW t \in Tasks, NEW a \in Activations, AtWorkOn(t, a)
    PROVE  /\ acts[a] # NoRecord
           /\ Base(task[t].rec) = Base(acts[a]) /\ Switch(task[t].rec) = Switch(acts[a])
           /\ task[t].rec.target = acts[a].target
           /\ task[t].rec.expected_aliases = acts[a].expected_aliases
           /\ ProcessOf[t] \in Processes /\ ProcessOf[t] # NoProcess
<1>1. acts[a] # NoRecord /\ Grows(task[t].rec, acts[a]) /\ ProcessOf[t] \in Processes
  BY CallFacts DEF AtWorkOn, TaskOK, Copied
<1> QED BY <1>1, ActivationConstants DEF Grows, SamePlan, Base, Switch

\* Without a rival, only calls of a move the pointer and the aliases once a is planned.
LEMMA MovesAreOwn ==
    ASSUME Typed, Rivalry, Next, NEW a \in Activations, ~Rival(a)
    PROVE  /\ pointer' # pointer =>
                \E t \in Tasks : /\ SwapPointer(t) /\ AtWorkOn(t, a)
                                 /\ acts[a] # NoRecord /\ acts' = acts
                                 /\ pointer' = Switch(acts[a])
           /\ aliases' # aliases =>
                \E t \in Tasks : /\ SwitchCatalog(t) /\ AtWorkOn(t, a)
                                 /\ acts[a] # NoRecord /\ acts' = acts
                                 /\ aliases' = WorkflowsOf(acts[a].target)
<1>1. ASSUME NEW t \in Tasks, NEW b \in Activations, AtWorkOn(t, b), task[t].pc # "start"
      PROVE  b = a
  BY <1>1 DEF Rivalry, WorkHasBegun, Rival
<1>2. ASSUME pointer' # pointer
      PROVE  \E t \in Tasks : /\ SwapPointer(t) /\ AtWorkOn(t, a)
                              /\ acts[a] # NoRecord /\ acts' = acts
                              /\ pointer' = Switch(acts[a])
  <2>1. PICK t \in Tasks : SwapPointer(t)
    BY <1>2, OnlySwapsMove
  <2>2. /\ task[t].pc = "pointer" /\ task[t].act \in Activations /\ task[t].pc \in Working
        /\ pointer' = Switch(task[t].rec) /\ acts' = acts
    BY <1>2, <2>1, CallFacts DEF SwapPointer, Working, Stages, Switch
  <2>3. AtWorkOn(t, a)
    BY <1>1, <2>2 DEF AtWorkOn
  <2> QED BY <2>1, <2>2, <2>3, AtWorkFields
<1>3. ASSUME aliases' # aliases
      PROVE  \E t \in Tasks : /\ SwitchCatalog(t) /\ AtWorkOn(t, a)
                              /\ acts[a] # NoRecord /\ acts' = acts
                              /\ aliases' = WorkflowsOf(acts[a].target)
  <2>1. PICK t \in Tasks : SwitchCatalog(t)
    BY <1>3, OnlySwitchesAlias
  <2>2. /\ task[t].pc = "catalog" /\ task[t].act \in Activations /\ task[t].pc \in Working
        /\ aliases' = WorkflowsOf(task[t].rec.target) /\ acts' = acts
    BY <1>3, <2>1, CallFacts DEF SwitchCatalog, At, Working, Stages
  <2>3. AtWorkOn(t, a)
    BY <1>1, <2>2 DEF AtWorkOn
  <2> QED BY <2>1, <2>2, <2>3, AtWorkFields
<1> QED BY <1>2, <1>3

LEMMA NextWorkHasBegun ==
    ASSUME Typed, Rivalry, Next
    PROVE  WorkHasBegun'
<1> SUFFICES ASSUME NEW t \in Tasks, NEW a \in Activations, AtWorkOn(t, a)',
                    task'[t].pc = "start" => task'[t].rec.state \notin {"none", "pending"}
             PROVE  Begun(a)'
  BY DEF WorkHasBegun
<1>1. CASE task'[t] = task[t]
  BY <1>1, BegunStays DEF Rivalry, WorkHasBegun, AtWorkOn
<1>2. CASE task'[t] = Idle
  BY <1>2, IdleFields DEF AtWorkOn, Working, Stages
<1>3. CASE Becomes(t, task'[t])
  <2>1. CASE task'[t].pc = "start"
    <3>1. task'[t].rec = acts'[a]
      BY <1>3, <2>1, IdleFields DEF Becomes, AtWorkOn, Working, Stages
    <3> QED BY <2>1, <3>1 DEF Begun
  <2>2. CASE task'[t].pc # "start"
    <3>1. /\ task[t].pc \in Working /\ task[t].act = a
          /\ task[t].pc = "start" => \/ task[t].rec.state \notin {"none", "pending"}
                                    \/ acts'[a].state = "running"
      BY <1>3, <2>2, IdleFields DEF Becomes, AtWorkOn, Working, Stages
    <3>2. CASE acts'[a].state = "running"
      BY <3>2 DEF Begun
    <3>3. CASE acts'[a].state # "running"
      BY <3>1, <3>3, BegunStays DEF Rivalry, WorkHasBegun, AtWorkOn
    <3> QED BY <3>2, <3>3
  <2> QED BY <2>1, <2>2
<1> QED BY <1>1, <1>2, <1>3, EachCall

LEMMA NextUndisturbed ==
    ASSUME Typed, Rivalry, Next
    PROVE  Undisturbed'
<1> SUFFICES ASSUME NEW a \in Activations, acts'[a] # NoRecord, ~Rival(a)'
             PROVE  /\ aliases' \in {acts'[a].expected_aliases, WorkflowsOf(acts'[a].target)}
                    /\ pointer' \in {Base(acts'[a]), Switch(acts'[a])}
  BY DEF Undisturbed, Base, Switch
<1>1. ~Rival(a)
  BY BegunStays
<1>2. CASE acts[a] # NoRecord
  <2>1. /\ Base(acts'[a]) = Base(acts[a]) /\ Switch(acts'[a]) = Switch(acts[a])
        /\ acts'[a].expected_aliases = acts[a].expected_aliases
        /\ acts'[a].target = acts[a].target
    BY <1>2, PlansStay DEF Base, Switch
  <2>2. /\ aliases \in {acts[a].expected_aliases, WorkflowsOf(acts[a].target)}
        /\ pointer \in {Base(acts[a]), Switch(acts[a])}
    BY <1>1, <1>2 DEF Rivalry, Undisturbed
  <2>3. /\ pointer' = pointer \/ pointer' = Switch(acts[a])
        /\ aliases' = aliases \/ aliases' = WorkflowsOf(acts[a].target)
    BY <1>1, MovesAreOwn
  <2> QED BY <2>1, <2>2, <2>3
<1>3. CASE acts[a] = NoRecord
  <2>1. pointer' = pointer /\ aliases' = aliases
    BY <1>1, <1>3, MovesAreOwn
  <2>2. PICK t \in Tasks : Writes(t, a)
    BY <1>3, StepWrites
  <2>3. /\ task[t].pc = "plan" /\ task[t].act = a
        /\ acts'[a] = PlanActions(task[t].rec, ProcessOf[t])
    BY <1>3, <2>2 DEF Writes
  <2>4. /\ task[t].rec \in Records /\ task[t].rec.target \in Revisions
        /\ task[t].rec.checkpoints = {} /\ ProcessOf[t] \in Processes
    BY <2>3, CallFacts DEF TaskOK, Local, TaskStates
  <2>5. acts'[a].expected_aliases = aliases /\ Base(acts'[a]) = Base(task[t].rec)
    BY <2>3, <2>4, PlanActionsFields
  <2>6. pointer = Base(task[t].rec)
    BY <1>1, <1>3, <2>3 DEF Rivalry, PlanIsFresh
  <2> QED BY <2>1, <2>5, <2>6
<1> QED BY <1>2, <1>3

LEMMA NextPlanIsFresh ==
    ASSUME Typed, Rivalry, Next
    PROVE  PlanIsFresh'
<1> SUFFICES ASSUME NEW t \in Tasks, NEW a \in Activations, task'[t].pc = "plan",
                    task'[t].act = a, acts'[a] = NoRecord, ~Rival(a)'
             PROVE  pointer' = Base(task'[t].rec)
  BY DEF PlanIsFresh, Base
<1>1. CASE task'[t] = task[t]
  <2>1. acts[a] = NoRecord
    BY PlansStay
  <2>2. ~Rival(a)
    BY BegunStays
  <2>3. pointer' = pointer
    BY <2>1, <2>2, MovesAreOwn
  <2> QED BY <1>1, <2>1, <2>2, <2>3 DEF Rivalry, PlanIsFresh
<1>2. CASE task'[t] = Idle
  BY <1>2, IdleFields
<1>3. CASE Becomes(t, task'[t])
  BY <1>3, IdleFields DEF Becomes, Working, Stages, Base
<1> QED BY <1>1, <1>2, <1>3, EachCall

\* A controller that takes the lease its own call works under is noticed.
LEMMA TakesOver ==
    ASSUME Typed, NEW u \in Tasks, NEW t \in Tasks, t # u, NEW a \in Activations,
           Acquire(u), acts' # acts, task[u].act = a, AtWorkOn(t, a),
           acts[a].lease_owner = ProcessOf[t], a \notin expired
    PROVE  a \in overtaken'
<1>1. /\ acts[a].state \notin Final /\ LeaseFree(a, ProcessOf[u])
      /\ overtaken' = IF \E w \in Tasks \ {u} : AtWork(w, a, ProcessOf[u])
                      THEN overtaken \cup {a} ELSE overtaken
  BY DEF Acquire
<1>2. ProcessOf[t] = ProcessOf[u]
  BY <1>1, AtWorkFields DEF LeaseFree
<1>3. AtWork(t, a, ProcessOf[u])
  BY <1>2 DEF AtWork, AtWorkOn, Working, Stages
<1> QED BY <1>1, <1>3

\* A call that works on an activation after a step worked on it before, or has just
\* taken its lease.
LEMMA WorkedOrAcquired ==
    ASSUME Typed, Next, NEW t \in Tasks, NEW a \in Activations, AtWorkOn(t, a)'
    PROVE  \/ AtWorkOn(t, a)
           \/ /\ Acquire(t) /\ task[t].pc = "acquire" /\ task[t].act = a /\ acts' # acts
              /\ CallStep(t)
<1>1. CASE task'[t] = task[t]
  BY <1>1 DEF AtWorkOn
<1>2. CASE task'[t] = Idle
  BY <1>2, IdleFields DEF AtWorkOn, Working, Stages
<1>3. CASE CallStep(t) /\ Becomes(t, task'[t])
  BY <1>3, IdleFields DEF Becomes, AtWorkOn, Working, Stages
<1> QED BY <1>1, <1>2, <1>3, EachCall

\* Who holds the lease of an activation at work: its call, or it was taken over.
LEMMA OwnerStays ==
    ASSUME Typed, Rivalry, Next, NEW t \in Tasks, NEW a \in Activations, AtWorkOn(t, a),
           AtWorkOn(t, a)', a \notin overtaken'
    PROVE  acts'[a].lease_owner = ProcessOf[t] /\ a \notin expired'
<1>1. a \notin overtaken
  BY OvertakenStays
<1>2. /\ acts[a].lease_owner = ProcessOf[t] /\ a \notin expired
      /\ \A u \in Tasks : AtWorkOn(u, a) => u = t
  BY <1>1 DEF Rivalry, LeaseIsExclusive
<1>3. acts[a] # NoRecord /\ ProcessOf[t] # NoProcess
  BY AtWorkFields
<1>4. task'[t] # Idle /\ task[t].pc \notin {"acquire", "plan"}
  BY IdleFields DEF AtWorkOn, Working, Stages
<1>5. acts'[a].lease_owner = ProcessOf[t]
  <2>1. CASE acts'[a] = acts[a]
    BY <1>2, <2>1
  <2>2. CASE acts'[a] # acts[a]
    <3>1. PICK u \in Tasks : CallStep(u) /\ Writes(u, a)
      BY <2>2, StepWrites
    <3>2. ~(Acquire(u) /\ task[u].pc = "acquire" /\ task[u].act = a)
      BY <1>2, <1>4, <2>2, TakesOver
    <3>3. ASSUME task[u].pc \in Working, task[u].act = a PROVE u = t
      BY <1>2, <3>3 DEF AtWorkOn
    <3>4. ASSUME Return(t, "applied"), task[t].pc = "apply" PROVE FALSE
      <4>1. task'[t] = Idle \/ task'[t] = [Idle EXCEPT !.pc = "mark", !.orig = task[t].orig]
        BY <3>4 DEF Return, SetTask, Typed, TasksOK
      <4>2. task'[t].pc \in {"idle", "mark"}
        BY <4>1, IdleFields DEF Idle
      <4> QED BY <4>2 DEF AtWorkOn, Working, Stages
    <3>5. Runs(u) => task[u].pc \in Working
      BY DEF Runs
    <3>6. {"apply", "failing", "superseding"} \subseteq Working
      BY DEF Working
    <3> QED BY <1>2, <1>3, <1>4, <3>1, <3>2, <3>3, <3>4, <3>5, <3>6 DEF Writes
  <2> QED BY <2>1, <2>2
<1>6. a \notin expired'
  <2>1. ASSUME NEW u \in Tasks, CallStep(u) PROVE expired' \subseteq expired
    BY <2>1 DEF CallStep, Activate, Rollback, Create, Resume, RegisterReadiness, Acquire, Runs,
       SwitchCatalog, ReadPointer, SwapPointer, Apply, MarkRolledBack, Terminal, Abort
  <2>2. ASSUME NEW p \in Processes, Crash(p) PROVE expired' = expired
    BY <2>2 DEF Crash
  <2>3. ASSUME NEW b \in Activations, LeaseExpires(b) PROVE a \notin expired'
    <3>1. AtWork(t, a, acts[a].lease_owner)
      BY <1>2, <1>4 DEF AtWork, AtWorkOn
    <3> QED BY <1>2, <2>3, <3>1 DEF LeaseExpires
  <2> QED BY <1>2, <2>1, <2>2, <2>3, StepKinds
<1> QED BY <1>5, <1>6

\* A call that takes the lease holds it, and finds nobody at work.
LEMMA AcquiredIsOwn ==
    ASSUME Typed, Rivalry, Next, NEW t \in Tasks, NEW a \in Activations, Acquire(t),
           task[t].pc = "acquire", task[t].act = a, acts' # acts, a \notin overtaken'
    PROVE  /\ acts'[a].lease_owner = ProcessOf[t] /\ a \notin expired'
           /\ \A u \in Tasks \ {t} : ~AtWorkOn(u, a)
<1>1. expired' = expired \ {a}
  BY DEF Acquire
<1>2. acts'[a].lease_owner = ProcessOf[t]
  <2>1. acts' = [acts EXCEPT ![a] = acquire_activation_lease(acts[a], ProcessOf[t])]
    BY DEF Acquire
  <2>2. acts \in [Activations -> Records] /\ acts[a] \in Records
    BY DEF Typed, StoreOK
  <2>3. acquire_activation_lease(acts[a], ProcessOf[t]).lease_owner = ProcessOf[t]
    BY <2>2, CallFacts, LeaseWrites DEF Records, acquire_activation_lease
  <2> QED BY <2>1, <2>2, <2>3
<1>3. ASSUME NEW u \in Tasks \ {t}, AtWorkOn(u, a) PROVE FALSE
  <2>1. acts[a].lease_owner = ProcessOf[u] /\ a \notin expired
    BY <1>3, OvertakenStays DEF Rivalry, LeaseIsExclusive
  <2> QED BY <1>3, <2>1, TakesOver
<1> QED BY <1>1, <1>2, <1>3

LEMMA NextLeaseIsExclusive ==
    ASSUME Typed, Rivalry, Next
    PROVE  LeaseIsExclusive'
<1> SUFFICES ASSUME NEW t \in Tasks, NEW a \in Activations, AtWorkOn(t, a)',
                    a \notin overtaken'
             PROVE  /\ acts'[a].lease_owner = ProcessOf[t] /\ a \notin expired'
                    /\ \A u \in Tasks : AtWorkOn(u, a)' => u = t
  BY DEF LeaseIsExclusive
<1>1. acts'[a].lease_owner = ProcessOf[t] /\ a \notin expired'
  BY WorkedOrAcquired, OwnerStays, AcquiredIsOwn
<1>2. ASSUME NEW u \in Tasks, AtWorkOn(u, a)', u # t PROVE FALSE
  <2>1. CASE AtWorkOn(t, a) /\ AtWorkOn(u, a)
    BY <1>2, <2>1, OvertakenStays DEF Rivalry, LeaseIsExclusive
  <2>2. CASE ~AtWorkOn(t, a)
    <3>1. /\ Acquire(t) /\ task[t].pc = "acquire" /\ task[t].act = a /\ acts' # acts
          /\ CallStep(t)
      BY <2>2, WorkedOrAcquired
    <3>2. task'[u] = task[u]
      BY <1>2, <3>1, OthersStand
    <3> QED BY <1>2, <3>1, <3>2, AcquiredIsOwn DEF AtWorkOn
  <2>3. CASE ~AtWorkOn(u, a)
    <3>1. /\ Acquire(u) /\ task[u].pc = "acquire" /\ task[u].act = a /\ acts' # acts
          /\ CallStep(u)
      BY <1>2, <2>3, WorkedOrAcquired
    <3>2. task'[t] = task[t]
      BY <1>2, <3>1, OthersStand
    <3> QED BY <1>2, <3>1, <3>2, AcquiredIsOwn DEF AtWorkOn
  <2> QED BY <2>1, <2>2, <2>3
<1> QED BY <1>1, <1>2

LEMMA NextSwapIsDue ==
    ASSUME Typed, Rivalry, Next
    PROVE  SwapIsDue'
<1> SUFFICES ASSUME NEW t \in Tasks, NEW a \in Activations, AtWorkOn(t, a)',
                    task'[t].pc = "pointer", task'[t].step = "swap", a \notin overtaken',
                    ~Rival(a)'
             PROVE  pointer' = Base(acts'[a])
  BY DEF SwapIsDue, Base
<1>1. a \notin overtaken /\ ~Rival(a)
  BY OvertakenStays, BegunStays
<1>2. AtWorkOn(t, a)
  <2>1. ASSUME CallStep(t), task[t].pc = "acquire" PROVE FALSE
    BY <2>1, CallBecomes, IdleFields DEF Becomes, AtWorkOn, Working, Stages
  <2> QED BY <2>1, WorkedOrAcquired
<1>3. acts[a] # NoRecord /\ Base(acts'[a]) = Base(acts[a])
  BY <1>2, AtWorkFields, PlansStay DEF Base
<1>4. CASE task'[t] = task[t]
  <2>1. pointer = Base(acts[a])
    BY <1>1, <1>2, <1>4 DEF Rivalry, SwapIsDue
  <2>2. ASSUME NEW u \in Tasks, SwapPointer(u), AtWorkOn(u, a) PROVE FALSE
    <3>1. u = t
      BY <1>1, <1>2, <2>2 DEF Rivalry, LeaseIsExclusive
    <3>2. task'[t].pc = "superseding" \/ task'[t].step = "note"
      <4>1. task[t] \in TaskStates /\ task \in [Tasks -> TaskStates]
        BY CallFacts DEF Typed, TasksOK
      <4>2. CASE EffectDone(t)
        <5>1. task'[t] = [task[t] EXCEPT !.step = "note"]
          BY <4>1, <4>2 DEF EffectDone, SetTask
        <5> QED BY <4>1, <5>1 DEF TaskStates
      <4>3. CASE Goto(t, "superseding")
        <5>1. task'[t] = [task[t] EXCEPT !.pc = "superseding", !.step = "do"]
          BY <4>1, <4>3 DEF Goto, SetTask
        <5> QED BY <4>1, <5>1 DEF TaskStates
      <4> QED BY <2>2, <3>1, <4>2, <4>3 DEF SwapPointer
    <3> QED BY <3>2
  <2> QED BY <1>1, <1>3, <2>1, <2>2, MovesAreOwn
<1>5. CASE task'[t] = Idle
  BY <1>5, IdleFields
<1>6. CASE Becomes(t, task'[t]) /\ task'[t] # Idle
  <2>1. ReadPointer(t)
    BY <1>2, <1>6 DEF Becomes, AtWorkOn, Working, Stages
  <2>2. pointer' = pointer
    BY <2>1 DEF ReadPointer, shared
  <2>3. pointer # Switch(task[t].rec)
    BY <2>1, CallFacts DEF ReadPointer, Switch, EffectDone, SetTask, Typed, TasksOK, TaskStates
  <2> QED BY <1>1, <1>2, <1>3, <2>2, <2>3, AtWorkFields DEF Rivalry, Undisturbed
<1> QED BY <1>4, <1>5, <1>6, EachCall

LEMMA NextSupersedesRival ==
    ASSUME Typed, Rivalry, Next
    PROVE  SupersedesRival'
<1> SUFFICES ASSUME NEW t \in Tasks, NEW a \in Activations, AtWorkOn(t, a)',
                    task'[t].pc = "superseding", a \notin overtaken', ~Rival(a)'
             PROVE  FALSE
  BY DEF SupersedesRival
<1>1. a \notin overtaken /\ ~Rival(a)
  BY OvertakenStays, BegunStays
<1>2. CASE task'[t] = task[t]
  BY <1>1, <1>2 DEF Rivalry, SupersedesRival, AtWorkOn
<1>3. CASE task'[t] = Idle
  BY <1>3, IdleFields
<1>4. CASE Becomes(t, task'[t]) /\ task'[t] # Idle
  <2>1. AtWorkOn(t, a) /\ (SwitchCatalog(t) \/ SwapPointer(t))
    BY <1>4, IdleFields DEF Becomes, AtWorkOn, Working, Stages
  <2>2. /\ acts[a] # NoRecord
        /\ task[t].rec.target = acts[a].target
        /\ task[t].rec.expected_aliases = acts[a].expected_aliases
        /\ Base(task[t].rec) = Base(acts[a])
    BY <2>1, AtWorkFields
  <2>3. ASSUME EffectDone(t) PROVE task'[t].pc = task[t].pc
    BY <2>3, CallFacts DEF EffectDone, SetTask, Typed, TasksOK, TaskStates
  <2>4. CASE SwitchCatalog(t)
    BY <1>1, <2>2, <2>3, <2>4 DEF SwitchCatalog, At, Rivalry, Undisturbed
  <2>5. CASE SwapPointer(t)
    BY <1>1, <2>1, <2>2, <2>3, <2>5 DEF SwapPointer, Rivalry, SwapIsDue, Base
  <2> QED BY <2>1, <2>4, <2>5
<1> QED BY <1>2, <1>3, <1>4, EachCall

LEMMA NextSupersededHadRival ==
    ASSUME Typed, Rivalry, Next
    PROVE  SupersededHadRival'
<1> SUFFICES ASSUME NEW a \in Activations, a \notin overtaken', acts'[a].state = "superseded"
             PROVE  Rival(a)'
  BY DEF SupersededHadRival, Rival, Begun
<1>1. a \notin overtaken
  BY OvertakenStays
<1>2. CASE acts'[a] = acts[a]
  BY <1>1, <1>2, BegunStays DEF Rivalry, SupersededHadRival, Rival, Begun
<1>3. CASE acts'[a] # acts[a] /\ acts[a].state = "superseded"
  BY <1>1, <1>3, BegunStays DEF Rivalry, SupersededHadRival, Rival, Begun
<1>4. CASE acts'[a] # acts[a] /\ acts[a].state # "superseded"
  <2>1. PICK t \in Tasks : CallStep(t) /\ Writes(t, a)
    BY <1>4, StepWrites
  <2>2. task[t].pc = "plan" => acts'[a] # PlanActions(task[t].rec, ProcessOf[t])
    BY CallFacts, PlanActionsFields DEF TaskOK, Local, TaskStates
  <2>3. task[t].pc = "superseding" /\ task[t].act = a
    BY <1>4, <2>1, <2>2 DEF Writes
  <2> QED BY <1>1, <2>3, BegunStays DEF Rivalry, SupersedesRival, AtWorkOn, Working
<1> QED BY <1>2, <1>3, <1>4

LEMMA NextRivalry ==
    ASSUME Typed, Rivalry, Next
    PROVE  Rivalry'
  BY NextWorkHasBegun, NextUndisturbed, NextPlanIsFresh, NextLeaseIsExclusive, NextSwapIsDue,
     NextSupersedesRival, NextSupersededHadRival DEF Rivalry

LEMMA InitRivalry == Init => Rivalry
<1> SUFFICES ASSUME Init PROVE Rivalry
  OBVIOUS
<1>1. \A t \in Tasks : task[t].pc = "idle"
  BY IdleFields DEF Init
<1>2. \A a \in Activations : acts[a] = NoRecord /\ acts[a].state = "none"
  BY RecordFields DEF Init
<1> QED
  BY <1>1, <1>2
     DEF Rivalry, WorkHasBegun, Undisturbed, PlanIsFresh, LeaseIsExclusive, SwapIsDue,
         SupersedesRival, SupersededHadRival, AtWorkOn, Working, Stages

LEMMA StutterRivalry ==
    ASSUME Rivalry, UNCHANGED vars
    PROVE  Rivalry'
  BY DEF Rivalry, WorkHasBegun, Undisturbed, PlanIsFresh, LeaseIsExclusive, SwapIsDue,
         SupersedesRival, SupersededHadRival, AtWorkOn, Begun, Rival, Base, Switch, vars, shared

\* In particular no writer, however late and whatever plan it works from, moves the active
\* pointer except from the base of its activation to its target, with the readiness of every
\* process it waits for on record (resume, _advance_pointer).
COROLLARY PointerMovesSafely == Spec => PointerMovesOnlyWhenReady
  BY WritesSafe DEF WritesAreSafe

\* What the store says of an activation is what happened (resume, _terminal): it is
\* applied only with every confirmation on record, and superseded only if another
\* activation had begun or a call lost the lease it worked under.
THEOREM OutcomesEarned == Spec => []OutcomesAreEarned
<1> DEFINE I == Typed /\ Rivalry
<1>1. Init => I
  BY InitTyped, InitRivalry
<1>2. I /\ [Next]_vars => I'
  <2> SUFFICES ASSUME I, [Next]_vars PROVE I'
    OBVIOUS
  <2>1. CASE Next
    BY <2>1, NextTyped, NextRivalry
  <2>2. CASE UNCHANGED vars
    BY <2>2, StutterTyped, StutterRivalry
  <2> QED BY <2>1, <2>2
<1>3. I => OutcomesAreEarned
  <2> SUFFICES ASSUME I PROVE OutcomesAreEarned
    OBVIOUS
  <2>1. TypeOK
    BY DEF Typed, StoreOK, SharedOK, HistoryOK, TasksOK, TypeOK
  <2>2. AppliedIsComplete
    BY RecordFields DEF Typed, StoreOK, Good, AppliedIsComplete
  <2> QED BY <2>1, <2>2 DEF OutcomesAreEarned, Rivalry
<1> QED BY <1>1, <1>2, <1>3, PTL DEF Spec
=============================================================================
