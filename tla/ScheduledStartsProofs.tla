------------------------ MODULE ScheduledStartsProofs ------------------------
(***************************************************************************)
(* Proofs about ScheduledStarts, for every set of clients and targets,     *)
(* every bound, and with late schedule writes allowed, in layers:          *)
(*   1  what each arbiter, client and call may look like;                  *)
(*   2  the arbiters form a chain, the schedule only ever carries what one *)
(*      of them decided, and clients are told what theirs decided;         *)
(*   3  where the tenant run comes from;                                   *)
(*   4  until a schedule update is abandoned, the record is in step with its *)
(*      arbiters;                                                          *)
(*   5  the refinement of ScheduledStartLifecycle.                         *)
(***************************************************************************)
EXTENDS ScheduledStarts, TLAPS

-----------------------------------------------------------------------------
(***************************************************************************)
(* The values the actions store are of the types they should be.           *)
(***************************************************************************)

\* The records the transition functions of scheduled_starts.py build.
LEMMA RecordTypes ==
    /\ NoRecord \in Records
    /\ create_scheduled_start_record \in Records
    /\ [NoRecord EXCEPT !.state = "deleted"] \in Records
    /\ \A v \in Versions :
        /\ fail_scheduled_start(v) \in Records
        /\ \A t \in Targets \cup {NoTarget} : complete_scheduled_start(v, t) \in Records
        /\ \A d \in Clients \cup {NoClient} : cancel_scheduled_start(v, d) \in Records
        /\ \A d \in Clients \cup {NoClient} :
               v < MaxVersion => reschedule_scheduled_start(v, d) \in Records
BY ConstantsAssumption
   DEF Records, Record, NoRecord, RecordStates, Terminal, Versions,
       create_scheduled_start_record, fail_scheduled_start, complete_scheduled_start,
       cancel_scheduled_start, reschedule_scheduled_start

\* What the arbiter workflow may turn its own state into.
LEMMA ArbiterTypes ==
    /\ NoArbiter \in Arbiters
    /\ \A command \in Commands, d \in Clients \cup {NoClient} :
         [NoArbiter EXCEPT !.phase = "initial", !.command = command, !.digest = d] \in Arbiters
    /\ \A a \in Arbiters :
        /\ \A p \in ArbPhases : [a EXCEPT !.phase = p] \in Arbiters
        /\ \A r \in Records : [a EXCEPT !.phase = "terminal", !.projection = r] \in Arbiters
        /\ \A t \in Targets : [a EXCEPT !.phase = "resolved_due", !.target = t] \in Arbiters
        /\ [a EXCEPT !.saw_ambiguous = TRUE] \in Arbiters
        /\ \A n \in 0..DispatchAttempts : [a EXCEPT !.rejections = n] \in Arbiters
        /\ \A n \in 0..DispatchAttempts, r \in Records :
             [a EXCEPT !.phase = "terminal", !.rejections = n, !.projection = r] \in Arbiters
<1>1. NoArbiter \in Arbiters
  BY ConstantsAssumption, RecordTypes DEF Arbiters, NoArbiter, ArbPhases, Commands
<1>2. \A command \in Commands, d \in Clients \cup {NoClient} :
        [NoArbiter EXCEPT !.phase = "initial", !.command = command, !.digest = d] \in Arbiters
  BY <1>1 DEF Arbiters, ArbPhases
<1>3. ASSUME NEW a \in Arbiters
      PROVE  /\ \A p \in ArbPhases : [a EXCEPT !.phase = p] \in Arbiters
             /\ \A r \in Records : [a EXCEPT !.phase = "terminal", !.projection = r] \in Arbiters
             /\ \A t \in Targets : [a EXCEPT !.phase = "resolved_due", !.target = t] \in Arbiters
             /\ [a EXCEPT !.saw_ambiguous = TRUE] \in Arbiters
             /\ \A n \in 0..DispatchAttempts : [a EXCEPT !.rejections = n] \in Arbiters
             /\ \A n \in 0..DispatchAttempts, r \in Records :
                  [a EXCEPT !.phase = "terminal", !.rejections = n, !.projection = r] \in Arbiters
  BY <1>3 DEF Arbiters, ArbPhases
<1>4. QED
  BY <1>1, <1>2, <1>3

\* What a client's request may be turned into.
LEMMA RequestTypes ==
    /\ NewRequest \in Requests
    /\ \A q \in Requests :
        /\ \A r : [q EXCEPT !.pc = "done", !.fresh = FALSE, !.joined = FALSE,
                            !.verdicts = @ \cup (Verdicts \cap {r})] \in Requests
        /\ \A kind \in Mutations, v \in Versions :
             [q EXCEPT !.pc = "sent", !.kind = kind, !.version = v] \in Requests
        /\ \A b \in BOOLEAN : [q EXCEPT !.pc = "recover", !.fresh = b] \in Requests
        /\ [q EXCEPT !.pc = "start", !.fresh = FALSE] \in Requests
        /\ [q EXCEPT !.pc = "await", !.fresh = FALSE] \in Requests
        /\ [q EXCEPT !.pc = "await"] \in Requests
        /\ [q EXCEPT !.pc = "await", !.joined = TRUE] \in Requests
        /\ [q EXCEPT !.pc = "sent"] \in Requests
<1>1. NewRequest \in Requests
  BY ConstantsAssumption DEF Requests, NewRequest, Versions, Mutations, Verdicts
<1>2. ASSUME NEW q \in Requests
      PROVE  /\ \A r : [q EXCEPT !.pc = "done", !.fresh = FALSE, !.joined = FALSE,
                                 !.verdicts = @ \cup (Verdicts \cap {r})] \in Requests
             /\ \A kind \in Mutations, v \in Versions :
                  [q EXCEPT !.pc = "sent", !.kind = kind, !.version = v] \in Requests
             /\ \A b \in BOOLEAN : [q EXCEPT !.pc = "recover", !.fresh = b] \in Requests
             /\ [q EXCEPT !.pc = "start", !.fresh = FALSE] \in Requests
             /\ [q EXCEPT !.pc = "await", !.fresh = FALSE] \in Requests
             /\ [q EXCEPT !.pc = "await"] \in Requests
             /\ [q EXCEPT !.pc = "await", !.joined = TRUE] \in Requests
             /\ [q EXCEPT !.pc = "sent"] \in Requests
  BY <1>2 DEF Requests
<1>3. QED
  BY <1>1, <1>2

-----------------------------------------------------------------------------
(***************************************************************************)
(* First layer of the invariant: types, and what an arbiter of version v   *)
(* looks like in each phase.                                               *)
(***************************************************************************)
Shape(v, a) ==
    /\ a.phase = "none" => a = NoArbiter
    /\ a.phase \in {"initial", "resolved_due", "stale"} => a.projection = NoRecord
    /\ a.phase \in {"terminal", "writing", "applied"} => a.projection.state # "none"
    /\ a.phase = "resolved_due" => a.command = "due" /\ a.target \in Targets
    /\ a.phase = "initial" => a.target = NoTarget
    /\ a.projection.state \in {"none", "scheduled"} \cup Terminal
    /\ a.projection.state = "none" => a.projection = NoRecord
    /\ a.projection.state = "scheduled" =>
         a.command = "reschedule" /\ a.projection.version = v + 1
    /\ a.projection.state \in Terminal => a.projection.version = v
    /\ a.projection.state = "canceled" => a.command = "cancel"
    /\ a.projection.state = "failed" => a.command = "due" /\ ~a.saw_ambiguous
    /\ a.projection.state \in {"scheduled", "canceled"} => a.projection.digest = a.digest
    /\ a.projection.state \in {"none", "started", "failed"} => a.projection.digest = NoClient
    /\ a.command = "due" => a.digest = NoClient
    /\ a.command # "due" => a.digest \in Clients /\ a.target = NoTarget
    /\ a.command # "due" => ~a.saw_ambiguous
    /\ a.phase = "initial" => ~a.saw_ambiguous
    /\ a.command = "reschedule" => v < MaxVersion

Good(v, a) == a \in Arbiters /\ Shape(v, a)

\* The schedule and the clients keep within the bound on versions, and only a
\* decided projection is ever written.
Bounded ==
    /\ sched.state \in {"scheduled"} \cup Terminal => sched.version \in Versions
    /\ \A c \in Clients : cli[c].kind = "reschedule" => cli[c].version < MaxVersion
    /\ \A v \in lateCommit : arb[v].projection.state # "none"

Inv1 == TypeOK /\ Bounded /\ \A v \in Versions : Good(v, arb[v])

(***************************************************************************)
(* How the arbiter of version v may change from a to b in one step.        *)
(***************************************************************************)
Opened(v, b) ==
    /\ b.phase = "initial" /\ b.projection = NoRecord
    /\ b.target = NoTarget /\ ~b.saw_ambiguous
    /\ \/ b.command = "due" /\ b.digest = NoClient
       \/ /\ b.command \in Mutations /\ b.digest \in Clients
          /\ b.command = "reschedule" => v < MaxVersion

Outcome(v, a, r) ==
    \/ \E t \in Targets \cup {NoTarget} : r = complete_scheduled_start(v, t)
    \/ a.command = "cancel" /\ r = cancel_scheduled_start(v, a.digest)
    \/ a.command = "reschedule" /\ r = reschedule_scheduled_start(v, a.digest)
    \/ a.command = "due" /\ ~a.saw_ambiguous /\ r = fail_scheduled_start(v)

Moved(v, a, b) ==
    /\ b.command = a.command /\ b.digest = a.digest
    /\ \/ /\ a.phase = "initial" /\ b.phase \in {"stale", "stalled"}
          /\ b.projection = a.projection /\ b.target = a.target
          /\ b.saw_ambiguous = a.saw_ambiguous
       \/ /\ a.phase = "initial" /\ a.command = "due" /\ b.phase = "resolved_due"
          /\ b.target \in Targets /\ b.projection = a.projection
          /\ b.saw_ambiguous = a.saw_ambiguous
       \/ /\ a.phase = "resolved_due" /\ b.phase = "resolved_due"
          /\ b.target = a.target /\ b.projection = a.projection
          /\ a.saw_ambiguous => b.saw_ambiguous
       \/ /\ a.phase \in {"initial", "resolved_due"} /\ b.phase = "terminal"
          /\ Outcome(v, a, b.projection) /\ b.target = a.target
          /\ b.saw_ambiguous = a.saw_ambiguous
       \/ /\ a.phase \in {"terminal", "writing"}
          /\ b.phase \in {"terminal", "writing", "applied", "stalled"}
          /\ b.projection = a.projection /\ b.target = a.target
          /\ b.saw_ambiguous = a.saw_ambiguous

\* The states the transition functions give their records.
LEMMA RecordFields ==
    /\ NoRecord.state = "none" /\ NoRecord.digest = NoClient /\ NoRecord.version = 0
    /\ create_scheduled_start_record.state = "scheduled"
    /\ create_scheduled_start_record.version = 1
    /\ create_scheduled_start_record.digest = NoClient
    /\ \A v \in Versions :
        /\ fail_scheduled_start(v).state = "failed"
        /\ fail_scheduled_start(v).version = v
        /\ fail_scheduled_start(v).digest = NoClient
        /\ \A t : /\ complete_scheduled_start(v, t).state = "started"
                  /\ complete_scheduled_start(v, t).version = v
                  /\ complete_scheduled_start(v, t).digest = NoClient
                  /\ complete_scheduled_start(v, t).run = t
        /\ \A d : /\ cancel_scheduled_start(v, d).state = "canceled"
                  /\ cancel_scheduled_start(v, d).version = v
                  /\ cancel_scheduled_start(v, d).digest = d
                  /\ reschedule_scheduled_start(v, d).state = "scheduled"
                  /\ reschedule_scheduled_start(v, d).version = v + 1
                  /\ reschedule_scheduled_start(v, d).digest = d
BY DEF NoRecord, Record, create_scheduled_start_record, fail_scheduled_start,
       complete_scheduled_start, cancel_scheduled_start, reschedule_scheduled_start

\* A step of the arbiter workflow keeps its shape.
LEMMA MovedKeepsShape ==
    ASSUME NEW v \in Versions, NEW a \in Arbiters, NEW b \in Arbiters,
           Shape(v, a), Moved(v, a, b)
    PROVE  Shape(v, b)
<1>1. CASE /\ a.phase \in {"initial", "resolved_due"} /\ b.phase = "terminal"
           /\ Outcome(v, a, b.projection) /\ b.target = a.target
           /\ b.saw_ambiguous = a.saw_ambiguous
  <2>1. a.digest \in Clients \cup {NoClient}
    BY DEF Arbiters
  <2>2. CASE \E t \in Targets \cup {NoTarget} : b.projection = complete_scheduled_start(v, t)
    <3>1. /\ b.projection.state = "started" /\ b.projection.version = v
          /\ b.projection.digest = NoClient
      BY <2>2, RecordFields
    <3>2. QED
      BY <1>1, <3>1 DEF Shape, Moved, Terminal
  <2>3. CASE a.command = "cancel" /\ b.projection = cancel_scheduled_start(v, a.digest)
    <3>1. /\ b.projection.state = "canceled" /\ b.projection.version = v
          /\ b.projection.digest = a.digest
      BY <2>3, RecordFields
    <3>2. QED
      BY <1>1, <2>3, <3>1 DEF Shape, Moved, Terminal
  <2>4. CASE a.command = "reschedule" /\ b.projection = reschedule_scheduled_start(v, a.digest)
    <3>1. /\ b.projection.state = "scheduled" /\ b.projection.version = v + 1
          /\ b.projection.digest = a.digest
      BY <2>4, RecordFields
    <3>2. QED
      BY <1>1, <2>4, <3>1 DEF Shape, Moved, Terminal
  <2>5. CASE a.command = "due" /\ ~a.saw_ambiguous /\ b.projection = fail_scheduled_start(v)
    <3>1. /\ b.projection.state = "failed" /\ b.projection.version = v
          /\ b.projection.digest = NoClient
      BY <2>5, RecordFields
    <3>2. QED
      BY <1>1, <2>5, <3>1 DEF Shape, Moved, Terminal
  <2>6. QED
    BY <1>1, <2>2, <2>3, <2>4, <2>5 DEF Outcome
<1>2. CASE ~(a.phase \in {"initial", "resolved_due"} /\ b.phase = "terminal")
  BY <1>2, RecordFields DEF Shape, Moved, Terminal
<1>3. QED
  BY <1>1, <1>2 DEF Moved

\* A freshly started arbiter has the shape of its version.
LEMMA OpenedHasShape ==
    ASSUME NEW v \in Versions, NEW b \in Arbiters, Opened(v, b)
    PROVE  Shape(v, b)
BY RecordFields DEF Opened, Shape, Terminal, Mutations

\* The fields each update of an arbiter leaves and sets.
LEMMA UpdatedFields ==
    ASSUME NEW a \in Arbiters
    PROVE  /\ \A p : LET b == [a EXCEPT !.phase = p] IN
                /\ b.phase = p /\ b.projection = a.projection /\ b.command = a.command
                /\ b.digest = a.digest /\ b.target = a.target
                /\ b.saw_ambiguous = a.saw_ambiguous
           /\ \A r : LET b == [a EXCEPT !.phase = "terminal", !.projection = r] IN
                /\ b.phase = "terminal" /\ b.projection = r /\ b.command = a.command
                /\ b.digest = a.digest /\ b.target = a.target
                /\ b.saw_ambiguous = a.saw_ambiguous
           /\ \A t : LET b == [a EXCEPT !.phase = "resolved_due", !.target = t] IN
                /\ b.phase = "resolved_due" /\ b.projection = a.projection
                /\ b.command = a.command /\ b.digest = a.digest /\ b.target = t
                /\ b.saw_ambiguous = a.saw_ambiguous
           /\ LET b == [a EXCEPT !.saw_ambiguous = TRUE] IN
                /\ b.phase = a.phase /\ b.projection = a.projection
                /\ b.command = a.command /\ b.digest = a.digest /\ b.target = a.target
                /\ b.saw_ambiguous = TRUE
           /\ \A n : LET b == [a EXCEPT !.rejections = n] IN
                /\ b.phase = a.phase /\ b.projection = a.projection
                /\ b.command = a.command /\ b.digest = a.digest /\ b.target = a.target
                /\ b.saw_ambiguous = a.saw_ambiguous
           /\ \A n, r : LET b == [a EXCEPT !.phase = "terminal", !.rejections = n,
                                           !.projection = r] IN
                /\ b.phase = "terminal" /\ b.projection = r /\ b.command = a.command
                /\ b.digest = a.digest /\ b.target = a.target
                /\ b.saw_ambiguous = a.saw_ambiguous
BY DEF Arbiters

\* The fields of a freshly started arbiter.
LEMMA OpenedFields ==
    /\ NoArbiter.phase = "none" /\ NoArbiter.projection = NoRecord
    /\ NoArbiter.target = NoTarget /\ NoArbiter.command = "due"
    /\ NoArbiter.digest = NoClient /\ NoArbiter.saw_ambiguous = FALSE
    /\ \A k, d : LET b == [NoArbiter EXCEPT !.phase = "initial", !.command = k,
                                            !.digest = d] IN
         /\ b.phase = "initial" /\ b.projection = NoRecord /\ b.command = k
         /\ b.digest = d /\ b.target = NoTarget /\ b.saw_ambiguous = FALSE
BY DEF NoArbiter

-----------------------------------------------------------------------------
(***************************************************************************)
(* Each action's effect on the arbiters, as a step of one of them.         *)
(***************************************************************************)
ArbStepAt(v) ==
    /\ arb' \in [Versions -> Arbiters]
    /\ \A w \in Versions \ {v} : arb'[w] = arb[w]
    /\ \/ arb'[v] = arb[v]
       \/ arb[v].phase = "none" /\ Opened(v, arb'[v])
       \/ Moved(v, arb[v], arb'[v])

\* Replacing one arbiter.
LEMMA SetArbiterStep ==
    ASSUME TypeOK, NEW v \in Versions, NEW b \in Arbiters, SetArbiter(v, b),
           \/ b = arb[v]
           \/ arb[v].phase = "none" /\ Opened(v, b)
           \/ Moved(v, arb[v], b)
    PROVE  ArbStepAt(v)
<1>1. arb'[v] = b
  BY DEF TypeOK, SetArbiter
<1>2. QED
  BY <1>1 DEF TypeOK, SetArbiter, ArbStepAt

\* _start_arbiter opens the version's arbiter or changes nothing.
LEMMA StartArbiterStep ==
    ASSUME TypeOK, NEW v \in Versions, NEW k \in Commands, NEW d \in Clients \cup {NoClient},
           \/ k = "due" /\ d = NoClient
           \/ k \in Mutations /\ d \in Clients /\ (k = "reschedule" => v < MaxVersion),
           StartArbiter(v, k, d)
    PROVE  ArbStepAt(v)
<1>1. CASE arb[v].phase = "none"
  <2> DEFINE b == [NoArbiter EXCEPT !.phase = "initial", !.command = k, !.digest = d]
  <2>1. b \in Arbiters /\ SetArbiter(v, b)
    BY <1>1, ArbiterTypes DEF StartArbiter
  <2>2. /\ b.phase = "initial" /\ b.projection = NoRecord /\ b.command = k
        /\ b.digest = d /\ b.target = NoTarget /\ b.saw_ambiguous = FALSE
    BY OpenedFields
  <2> HIDE DEF b
  <2>3. Opened(v, b)
    BY <2>2 DEF Opened
  <2>4. QED
    BY <1>1, <2>1, <2>3, SetArbiterStep
<1>2. CASE arb[v].phase # "none"
  BY <1>2 DEF StartArbiter, ArbStepAt, TypeOK
<1>3. QED
  BY <1>1, <1>2

\* Closing, or moving between terminal and writing.
LEMMA CloseStep ==
    ASSUME TypeOK, NEW v \in Versions, NEW p \in ArbPhases, Close(v, p),
           \/ arb[v].phase = "initial" /\ p \in {"stale", "stalled"}
           \/ /\ arb[v].phase \in {"terminal", "writing"}
              /\ p \in {"terminal", "writing", "applied", "stalled"}
    PROVE  ArbStepAt(v)
<1> DEFINE b == [arb[v] EXCEPT !.phase = p]
<1>1. arb[v] \in Arbiters
  BY DEF TypeOK
<1>2. b \in Arbiters /\ SetArbiter(v, b)
  BY <1>1, ArbiterTypes DEF Close
<1>3. /\ b.phase = p /\ b.projection = arb[v].projection /\ b.command = arb[v].command
      /\ b.digest = arb[v].digest /\ b.target = arb[v].target
      /\ b.saw_ambiguous = arb[v].saw_ambiguous
  BY <1>1, UpdatedFields
<1> HIDE DEF b
<1>4. Moved(v, arb[v], b)
  BY <1>3 DEF Moved
<1>5. QED
  BY <1>2, <1>4, SetArbiterStep

\* Deciding the outcome.
LEMMA DecideStep ==
    ASSUME TypeOK, NEW v \in Versions, NEW r \in Records, Decide(v, r),
           arb[v].phase \in {"initial", "resolved_due"}, Outcome(v, arb[v], r)
    PROVE  ArbStepAt(v)
<1> DEFINE b == [arb[v] EXCEPT !.phase = "terminal", !.projection = r]
<1>1. arb[v] \in Arbiters
  BY DEF TypeOK
<1>2. b \in Arbiters /\ SetArbiter(v, b)
  BY <1>1, ArbiterTypes DEF Decide
<1>3. /\ b.phase = "terminal" /\ b.projection = r /\ b.command = arb[v].command
      /\ b.digest = arb[v].digest /\ b.target = arb[v].target
      /\ b.saw_ambiguous = arb[v].saw_ambiguous
  BY <1>1, UpdatedFields
<1> HIDE DEF b
<1>4. Moved(v, arb[v], b)
  BY <1>3 DEF Moved
<1>5. QED
  BY <1>2, <1>4, SetArbiterStep

\* The prepare activity's outcome.
LEMMA PrepareStep ==
    ASSUME Inv1, NEW v \in Versions, Prepare(v)
    PROVE  ArbStepAt(v)
<1>1. /\ TypeOK /\ arb[v] \in Arbiters /\ Shape(v, arb[v]) /\ arb[v].phase = "initial"
      /\ run.target \in Targets \cup {NoTarget} /\ active \in Targets \cup {NoTarget}
      /\ arb[v].digest \in Clients \cup {NoClient}
  BY DEF Inv1, Good, Prepare, TypeOK, Arbiters
<1>2. CASE Close(v, "stalled") \/ Close(v, "stale")
  BY <1>1, <1>2, CloseStep DEF ArbPhases
<1>3. CASE PrepareProjection(v)
  <2>1. CASE Decide(v, complete_scheduled_start(v, run.target))
    <3>1. complete_scheduled_start(v, run.target) \in Records
      BY <1>1, RecordTypes
    <3>2. Outcome(v, arb[v], complete_scheduled_start(v, run.target))
      BY <1>1 DEF Outcome
    <3>3. QED
      BY <1>1, <2>1, <3>1, <3>2, DecideStep
  <2>2. CASE arb[v].command = "cancel" /\ Decide(v, cancel_scheduled_start(v, arb[v].digest))
    <3>1. cancel_scheduled_start(v, arb[v].digest) \in Records
      BY <1>1, RecordTypes
    <3>2. Outcome(v, arb[v], cancel_scheduled_start(v, arb[v].digest))
      BY <2>2 DEF Outcome
    <3>3. QED
      BY <1>1, <2>2, <3>1, <3>2, DecideStep
  <2>3. CASE /\ arb[v].command = "reschedule"
             /\ Decide(v, reschedule_scheduled_start(v, arb[v].digest))
    <3>1. reschedule_scheduled_start(v, arb[v].digest) \in Records
      BY <1>1, <2>3, RecordTypes DEF Shape
    <3>2. Outcome(v, arb[v], reschedule_scheduled_start(v, arb[v].digest))
      BY <2>3 DEF Outcome
    <3>3. QED
      BY <1>1, <2>3, <3>1, <3>2, DecideStep
  <2>4. CASE arb[v].command = "due" /\ Decide(v, fail_scheduled_start(v))
    <3>1. fail_scheduled_start(v) \in Records
      BY RecordTypes
    <3>2. Outcome(v, arb[v], fail_scheduled_start(v))
      BY <1>1, <2>4 DEF Outcome, Shape
    <3>3. QED
      BY <1>1, <2>4, <3>1, <3>2, DecideStep
  <2>5. CASE /\ arb[v].command = "due" /\ active # NoTarget
             /\ SetArbiter(v, [arb[v] EXCEPT !.phase = "resolved_due", !.target = active])
    <3> DEFINE b == [arb[v] EXCEPT !.phase = "resolved_due", !.target = active]
    <3>1. active \in Targets
      BY <1>1, <2>5
    <3>2. b \in Arbiters
      BY <1>1, <3>1, ArbiterTypes
    <3>3. /\ b.phase = "resolved_due" /\ b.projection = arb[v].projection
          /\ b.command = arb[v].command /\ b.digest = arb[v].digest /\ b.target = active
          /\ b.saw_ambiguous = arb[v].saw_ambiguous
      BY <1>1, UpdatedFields
    <3>4. SetArbiter(v, b)
      BY <2>5
    <3> HIDE DEF b
    <3>5. Moved(v, arb[v], b)
      BY <1>1, <2>5, <3>1, <3>3 DEF Moved
    <3>6. QED
      BY <1>1, <3>2, <3>4, <3>5, SetArbiterStep
  <2>6. QED
    BY <1>3, <2>1, <2>2, <2>3, <2>4, <2>5 DEF PrepareProjection
<1>4. QED
  BY <1>2, <1>3 DEF Prepare

\* An authoritative rejection of a dispatch attempt.
LEMMA CountRejectionStep ==
    ASSUME Inv1, NEW v \in Versions, arb[v].phase = "resolved_due", CountRejection(v)
    PROVE  ArbStepAt(v)
<1> DEFINE n == IF arb[v].rejections < DispatchAttempts
                THEN arb[v].rejections + 1 ELSE DispatchAttempts
<1>1. TypeOK /\ arb[v] \in Arbiters /\ Shape(v, arb[v]) /\ arb[v].command = "due"
  BY DEF Inv1, Good, TypeOK, Shape
<1>2. n \in 0..DispatchAttempts
  <2>1. arb[v].rejections \in 0..DispatchAttempts
    BY <1>1 DEF Arbiters
  <2>2. QED
    BY <2>1, ConstantsAssumption
<1>3. CASE ~arb[v].saw_ambiguous /\ n >= DispatchAttempts
  <2> DEFINE b == [arb[v] EXCEPT !.phase = "terminal", !.rejections = n,
                                 !.projection = fail_scheduled_start(v)]
  <2>1. SetArbiter(v, b)
    BY <1>3 DEF CountRejection
  <2>2. fail_scheduled_start(v) \in Records
    BY RecordTypes
  <2> HIDE DEF n
  <2>3. b \in Arbiters
    BY <1>1, <1>2, <2>2, ArbiterTypes
  <2>4. /\ b.phase = "terminal" /\ b.projection = fail_scheduled_start(v)
        /\ b.command = arb[v].command /\ b.digest = arb[v].digest
        /\ b.target = arb[v].target /\ b.saw_ambiguous = arb[v].saw_ambiguous
    BY <1>1, UpdatedFields
  <2> HIDE DEF b
  <2>5. Moved(v, arb[v], b)
    BY <1>1, <1>3, <2>4 DEF Moved, Outcome
  <2>6. QED
    BY <1>1, <2>1, <2>3, <2>5, SetArbiterStep
<1>4. CASE ~(~arb[v].saw_ambiguous /\ n >= DispatchAttempts)
  <2> DEFINE b == [arb[v] EXCEPT !.rejections = n]
  <2>1. SetArbiter(v, b)
    BY <1>4 DEF CountRejection
  <2> HIDE DEF n
  <2>2. b \in Arbiters
    BY <1>1, <1>2, ArbiterTypes
  <2>3. /\ b.phase = arb[v].phase /\ b.projection = arb[v].projection
        /\ b.command = arb[v].command /\ b.digest = arb[v].digest
        /\ b.target = arb[v].target /\ b.saw_ambiguous = arb[v].saw_ambiguous
    BY <1>1, UpdatedFields
  <2> HIDE DEF b
  <2>4. Moved(v, arb[v], b)
    BY <1>1, <2>3 DEF Moved
  <2>5. QED
    BY <1>1, <2>1, <2>2, <2>4, SetArbiterStep
<1>5. QED
  BY <1>3, <1>4

\* The other outcomes of a dispatch attempt.
LEMMA AttemptStep ==
    ASSUME Inv1, NEW v \in Versions, AttemptAccepted(v) \/ AttemptAmbiguous(v)
    PROVE  ArbStepAt(v)
<1>1. /\ TypeOK /\ arb[v] \in Arbiters /\ Shape(v, arb[v]) /\ arb[v].phase = "resolved_due"
      /\ arb[v].target \in Targets
  BY DEF Inv1, Good, TypeOK, Shape, AttemptAccepted, AttemptAmbiguous
<1>2. CASE AttemptAccepted(v)
  <2>1. run'.target \in Targets \cup {NoTarget}
    BY <1>1, <1>2 DEF AttemptAccepted, StartRun, TypeOK
  <2>2. complete_scheduled_start(v, run'.target) \in Records
    BY <2>1, RecordTypes
  <2>3. Outcome(v, arb[v], complete_scheduled_start(v, run'.target))
    BY <2>1 DEF Outcome
  <2>4. QED
    BY <1>1, <1>2, <2>2, <2>3, DecideStep DEF AttemptAccepted
<1>3. CASE AttemptAmbiguous(v)
  <2> DEFINE b == [arb[v] EXCEPT !.saw_ambiguous = TRUE]
  <2>1. b \in Arbiters /\ SetArbiter(v, b)
    BY <1>1, <1>3, ArbiterTypes DEF AttemptAmbiguous
  <2>2. /\ b.phase = arb[v].phase /\ b.projection = arb[v].projection
        /\ b.command = arb[v].command /\ b.digest = arb[v].digest
        /\ b.target = arb[v].target /\ b.saw_ambiguous = TRUE
    BY <1>1, UpdatedFields
  <2> HIDE DEF b
  <2>3. Moved(v, arb[v], b)
    BY <1>1, <2>2 DEF Moved
  <2>4. QED
    BY <1>1, <2>1, <2>3, SetArbiterStep
<1>4. QED
  BY <1>2, <1>3

-----------------------------------------------------------------------------
(***************************************************************************)
(* Init establishes the first layer and every step keeps it.               *)
(***************************************************************************)
LEMMA Inv1Init == Init => Inv1
<1> SUFFICES ASSUME Init PROVE Inv1
  OBVIOUS
<1>1. sched \in Records /\ arb \in [Versions -> Arbiters] /\ cli \in [Clients -> Requests]
  BY RecordTypes, ArbiterTypes, RequestTypes DEF Init
<1>2. /\ armed \in BOOLEAN /\ skipped \in BOOLEAN /\ claims \subseteq Versions
      /\ lateCommit \subseteq Versions /\ lateRun \subseteq Targets
      /\ active \in Targets \cup {NoTarget} /\ lateCall \subseteq Clients
      /\ doomed \in BOOLEAN
  BY DEF Init
<1>3. /\ due \in 0..MaxVersion
      /\ run \in [by : {"none", "due", "lost", "api"}, target : Targets \cup {NoTarget}]
  BY ConstantsAssumption DEF Init, NoRun
<1>4. TypeOK
  BY <1>1, <1>2, <1>3 DEF TypeOK
<1>5. Bounded
  BY RecordFields DEF Init, Bounded, Terminal, NewRequest
<1>6. \A v \in Versions : Shape(v, NoArbiter)
  BY OpenedFields, RecordFields DEF Shape, Terminal
<1>7. QED
  BY <1>4, <1>5, <1>6, ArbiterTypes DEF Inv1, Good, Init

\* A step of one arbiter keeps all their shapes, and every decided projection.
LEMMA ArbStepKeeps ==
    ASSUME Inv1, NEW v \in Versions, ArbStepAt(v)
    PROVE  /\ \A w \in Versions : Good(w, arb'[w])
           /\ \A w \in Versions : arb[w].projection.state # "none" =>
                                     arb'[w].projection = arb[w].projection
<1>1. arb[v] \in Arbiters /\ arb'[v] \in Arbiters /\ Shape(v, arb[v])
  BY DEF Inv1, Good, TypeOK, ArbStepAt
<1>2. Shape(v, arb'[v])
  BY <1>1, OpenedHasShape, MovedKeepsShape DEF ArbStepAt
<1>3. arb[v].projection.state # "none" => arb'[v].projection = arb[v].projection
  BY <1>1, RecordFields, OpenedFields DEF ArbStepAt, Moved, Shape
<1>4. \A w \in Versions \ {v} : Good(w, arb'[w])
  BY DEF Inv1, ArbStepAt
<1>5. \A w \in Versions \ {v} : arb'[w].projection = arb[w].projection
  BY DEF ArbStepAt
<1>6. QED
  BY <1>1, <1>2, <1>3, <1>4, <1>5 DEF Good

\* What may happen to the schedule's record in one step.
SchedStep ==
    \/ sched' = sched
    \/ sched = NoRecord /\ sched' = create_scheduled_start_record
    \/ /\ sched.state # "none"
       /\ \E v \in Versions : /\ arb[v].projection.state # "none"
                              /\ sched' = arb[v].projection
    \/ sched.state # "none" /\ sched' = [NoRecord EXCEPT !.state = "deleted"]

\* Each of these keeps the record well formed.
LEMMA SchedStepKeeps ==
    ASSUME Inv1, SchedStep
    PROVE  /\ sched' \in Records
           /\ sched'.state \in {"scheduled"} \cup Terminal => sched'.version \in Versions
<1>1. CASE sched' = sched
  BY <1>1 DEF Inv1, TypeOK, Bounded
<1>2. CASE sched' = create_scheduled_start_record
  BY <1>2, RecordTypes, RecordFields, ConstantsAssumption DEF Versions
<1>3. ASSUME NEW v \in Versions, arb[v].projection.state # "none", sched' = arb[v].projection
      PROVE  sched' \in Records /\ sched'.version \in Versions
  <2>1. arb[v] \in Arbiters /\ Shape(v, arb[v])
    BY DEF Inv1, Good
  <2>2. arb[v].projection \in Records
    BY <2>1 DEF Arbiters
  <2>3. arb[v].projection.version \in Versions
    BY <1>3, <2>1, ConstantsAssumption DEF Shape, Versions
  <2>4. QED
    BY <1>3, <2>2, <2>3
<1>4. CASE sched' = [NoRecord EXCEPT !.state = "deleted"]
  <2>1. sched'.state = "deleted"
    BY <1>4 DEF NoRecord, Record
  <2>2. QED
    BY <1>4, <2>1, RecordTypes DEF Terminal
<1>5. QED
  BY <1>1, <1>2, <1>3, <1>4 DEF SchedStep

\* Every step is a step of at most one arbiter.
LEMMA ArbNext ==
    ASSUME Inv1, Next
    PROVE  \E v \in Versions : ArbStepAt(v)
<1>1. TypeOK /\ 1 \in Versions
  BY ConstantsAssumption DEF Inv1, Versions
<1>2. CASE UNCHANGED arb
  BY <1>1, <1>2 DEF ArbStepAt, TypeOK
<1>3. ASSUME NEW v \in Versions, NEW answered \in BOOLEAN, ClaimDue(v, answered)
      PROVE  ArbStepAt(v)
  BY <1>1, <1>3, StartArbiterStep DEF ClaimDue, Commands
<1>4. ASSUME NEW v \in Versions, ArbiterNext(v)
      PROVE  ArbStepAt(v) \/ UNCHANGED arb
  <2>1. CASE Prepare(v)
    BY <2>1, PrepareStep
  <2>2. CASE AttemptAccepted(v) \/ AttemptAmbiguous(v)
    BY <2>2, AttemptStep
  <2>3. CASE AttemptRejected(v) \/ AttemptRunIdLost(v)
    BY <2>3, CountRejectionStep DEF AttemptRejected, AttemptRunIdLost
  <2>4. CASE CommitRead(v)
    BY <1>1, <2>4, CloseStep DEF CommitRead, ArbPhases
  <2>5. CASE \E answered \in BOOLEAN : CommitWrite(v, answered)
    BY <1>1, <2>5, CloseStep DEF CommitWrite, ArbPhases
  <2>6. CASE CommitTimeout(v)
    BY <1>1, <2>6, CloseStep DEF CommitTimeout, ArbPhases
  <2>7. CASE LateCommitLands(v)
    BY <2>7 DEF LateCommitLands
  <2>8. QED
    BY <1>4, <2>1, <2>2, <2>3, <2>4, <2>5, <2>6, <2>7 DEF ArbiterNext
<1>5. ASSUME NEW c \in Clients, ClientNext(c)
      PROVE  ArbStepAt(cli[c].version) \/ UNCHANGED arb
  <2>1. /\ cli[c].version \in Versions /\ cli[c].kind \in Mutations
        /\ cli[c].kind = "reschedule" => cli[c].version < MaxVersion
    BY DEF Inv1, Bounded, TypeOK, Requests
  <2>2. CASE StartArbiter(cli[c].version, cli[c].kind, c)
    BY <1>1, <2>1, <2>2, StartArbiterStep DEF Commands
  <2>3. QED
    BY <1>5, <2>2 DEF ClientNext, Submit, ReadRecord, RecoverMutation, RunMutation,
       RunMutationFails, LateCallLands, AwaitArbiter, AwaitTimeout, Retry
<1>6. \A c \in Clients : cli[c].version \in Versions
  BY DEF Inv1, TypeOK, Requests
<1>7. CASE Create \/ Fire \/ ClaimCheck \/ ApiStart \/ CleanupDescribe \/ CleanupDelete
  BY <1>2, <1>7 DEF Create, Fire, ClaimCheck, ApiStart, CleanupDescribe, CleanupDelete
<1>8. ASSUME NEW t \in Targets \cup {NoTarget}, LateRunLands(t) \/ Activate(t)
      PROVE  UNCHANGED arb
  BY <1>8 DEF LateRunLands, Activate
<1>9. QED
  BY <1>2, <1>3, <1>4, <1>5, <1>6, <1>7, <1>8 DEF Next

\* Every step changes the schedule's record in one of four ways.
LEMMA SchedNext ==
    ASSUME Inv1, Next
    PROVE  SchedStep
<1>1. CASE UNCHANGED sched
  BY <1>1 DEF SchedStep
<1>2. CASE Create
  BY <1>2 DEF Create, WriteSchedule, SchedStep
<1>3. ASSUME NEW v \in Versions, ArbiterNext(v)
      PROVE  SchedStep
  <2>1. CASE \E answered \in BOOLEAN : CommitWrite(v, answered)
    <3>1. arb[v].projection.state # "none"
      BY <2>1 DEF CommitWrite, Inv1, Good, Shape
    <3>2. QED
      BY <2>1, <3>1 DEF CommitWrite, WriteSchedule, NotFound, SchedStep
  <2>2. CASE LateCommitLands(v)
    <3>1. arb[v].projection.state # "none"
      BY <2>2 DEF LateCommitLands, Inv1, Bounded
    <3>2. QED
      BY <2>2, <3>1 DEF LateCommitLands, WriteSchedule, NotFound, SchedStep
  <2>3. QED
    BY <1>1, <1>3, <2>1, <2>2 DEF ArbiterNext, Prepare, AttemptAccepted, AttemptRejected,
       AttemptRunIdLost, AttemptAmbiguous, CommitRead, CommitTimeout
<1>4. ASSUME NEW c \in Clients, ClientNext(c)
      PROVE  UNCHANGED sched
  BY <1>4 DEF ClientNext, Submit, ReadRecord, RecoverMutation, RunMutation,
     RunMutationFails, LateCallLands, AwaitArbiter, AwaitTimeout, Retry
<1>5. CASE CleanupDelete
  BY <1>5 DEF CleanupDelete, NotFound, SchedStep
<1>6. CASE Fire \/ ClaimCheck \/ ApiStart \/ CleanupDescribe
  BY <1>1, <1>6 DEF Fire, ClaimCheck, ApiStart, CleanupDescribe
<1>7. ASSUME NEW v \in Versions, NEW answered \in BOOLEAN, ClaimDue(v, answered)
      PROVE  UNCHANGED sched
  BY <1>7 DEF ClaimDue
<1>8. ASSUME NEW t \in Targets \cup {NoTarget}, LateRunLands(t) \/ Activate(t)
      PROVE  UNCHANGED sched
  BY <1>8 DEF LateRunLands, Activate
<1>9. QED
  BY <1>1, <1>2, <1>3, <1>4, <1>5, <1>6, <1>7, <1>8 DEF Next

\* What a description says is scheduled is a version within the bound.
LEMMA DescribedVersion ==
    ASSUME Inv1, Describe.state = "scheduled"
    PROVE  Describe.version \in Versions
<1>1. sched \in Records /\ (sched.state = "scheduled" => sched.version \in Versions)
  BY DEF Inv1, TypeOK, Bounded
<1>2. CASE sched.state # "scheduled"
  BY <1>1, <1>2 DEF Describe
<1>3. CASE sched.state = "scheduled"
  <2>1. arb[sched.version] \in Arbiters /\ Shape(sched.version, arb[sched.version])
    BY <1>1, <1>3 DEF Inv1, Good
  <2>2. arb[sched.version].projection.state = "scheduled" =>
          arb[sched.version].projection.version \in Versions
    BY <1>1, <1>3, <2>1, ConstantsAssumption DEF Shape, Versions
  <2>3. QED
    BY <1>1, <1>3, <2>2 DEF Describe
<1>4. QED
  BY <1>2, <1>3

\* The clients' requests keep their type and their bound.
LEMMA ClientsNext ==
    ASSUME Inv1, Next
    PROVE  /\ cli' \in [Clients -> Requests]
           /\ \A c \in Clients : cli'[c].kind = "reschedule" => cli'[c].version < MaxVersion
<1>1. /\ cli \in [Clients -> Requests]
      /\ \A c \in Clients : cli[c].kind = "reschedule" => cli[c].version < MaxVersion
  BY DEF Inv1, TypeOK, Bounded
<1>2. ASSUME NEW c \in Clients, NEW q \in Requests, SetClient(c, q),
             q.kind = "reschedule" => q.version < MaxVersion
      PROVE  /\ cli' \in [Clients -> Requests]
             /\ \A d \in Clients : cli'[d].kind = "reschedule" => cli'[d].version < MaxVersion
  BY <1>1, <1>2 DEF SetClient
<1>3. ASSUME NEW c \in Clients, ClientNext(c), ~ UNCHANGED cli
      PROVE  \E q \in Requests : /\ SetClient(c, q)
                                 /\ q.kind = "reschedule" => q.version < MaxVersion
  <2>1. cli[c] \in Requests /\ (cli[c].kind = "reschedule" => cli[c].version < MaxVersion)
    BY <1>1
  <2>2. ASSUME NEW r, Reply(c, r)
        PROVE  \E q \in Requests : /\ SetClient(c, q)
                                   /\ q.kind = "reschedule" => q.version < MaxVersion
    <3> DEFINE q == [cli[c] EXCEPT !.pc = "done", !.fresh = FALSE, !.joined = FALSE,
                                   !.verdicts = @ \cup (Verdicts \cap {r})]
    <3>1. q \in Requests
      BY <2>1, RequestTypes
    <3>2. q.kind = cli[c].kind /\ q.version = cli[c].version
      BY <2>1 DEF Requests
    <3>3. SetClient(c, q)
      BY <2>2 DEF Reply
    <3>4. QED
      BY <2>1, <3>1, <3>2, <3>3
  <2>3. ASSUME NEW kind \in Mutations, Submit(c, kind)
        PROVE  \E q \in Requests : /\ SetClient(c, q)
                                   /\ q.kind = "reschedule" => q.version < MaxVersion
    <3> DEFINE q == [cli[c] EXCEPT !.pc = "sent", !.kind = kind, !.version = Describe.version]
    <3>1. Describe.version \in Versions
      BY <2>3, DescribedVersion DEF Submit
    <3>2. q \in Requests
      BY <2>1, <3>1, RequestTypes
    <3>3. q.kind = kind /\ q.version = Describe.version
      BY <2>1 DEF Requests
    <3>4. SetClient(c, q) /\ (kind = "reschedule" => Describe.version < MaxVersion)
      BY <2>3 DEF Submit
    <3>5. QED
      BY <3>2, <3>3, <3>4
  <2>4. ASSUME NEW q, SetClient(c, q),
               \/ \E b \in BOOLEAN : q = [cli[c] EXCEPT !.pc = "recover", !.fresh = b]
               \/ q = [cli[c] EXCEPT !.pc = "start", !.fresh = FALSE]
               \/ q = [cli[c] EXCEPT !.pc = "await", !.fresh = FALSE]
               \/ q = [cli[c] EXCEPT !.pc = "await"]
               \/ q = [cli[c] EXCEPT !.pc = "await", !.joined = TRUE]
               \/ q = [cli[c] EXCEPT !.pc = "sent"]
        PROVE  q \in Requests /\ (q.kind = "reschedule" => q.version < MaxVersion)
    <3>1. q \in Requests
      BY <2>1, <2>4, RequestTypes
    <3>2. q.kind = cli[c].kind /\ q.version = cli[c].version
      BY <2>1, <2>4 DEF Requests
    <3>3. QED
      BY <2>1, <3>1, <3>2
  <2>5. CASE ReadRecord(c)
    <3>1. IsPending(cli[c].version) \in BOOLEAN
      BY DEF IsPending
    <3>2. QED
      BY <2>2, <2>4, <2>5, <3>1 DEF ReadRecord
  <2>6. CASE RecoverMutation(c)
    BY <2>2, <2>4, <2>6 DEF RecoverMutation
  <2>7. CASE RunMutation(c)
    BY <2>2, <2>4, <2>7 DEF RunMutation
  <2>8. CASE RunMutationFails(c) \/ AwaitArbiter(c) \/ AwaitTimeout(c)
    BY <2>2, <2>8 DEF RunMutationFails, AwaitArbiter, AwaitTimeout
  <2>9. CASE Retry(c)
    BY <2>4, <2>9 DEF Retry
  <2>10. QED
    BY <1>3, <2>3, <2>5, <2>6, <2>7, <2>8, <2>9 DEF ClientNext, LateCallLands
<1>4. CASE \E c \in Clients : ClientNext(c)
  BY <1>1, <1>2, <1>3, <1>4
<1>5. CASE ~ \E c \in Clients : ClientNext(c)
  <2>1. UNCHANGED cli
    BY <1>5 DEF Next, Create, Fire, ClaimCheck, ClaimDue, ArbiterNext, Prepare,
       AttemptAccepted, AttemptRejected, AttemptRunIdLost, AttemptAmbiguous, CommitRead,
       CommitWrite, CommitTimeout, LateCommitLands, LateRunLands, ApiStart, Activate,
       CleanupDescribe, CleanupDelete
  <2>2. QED
    BY <1>1, <2>1
<1>6. QED
  BY <1>4, <1>5


\* The Temporal state around the arbiters keeps its type, and only decided
\* projections are left to land late.
LEMMA RestNext ==
    ASSUME Inv1, Next
    PROVE  /\ armed' \in BOOLEAN /\ skipped' \in BOOLEAN /\ doomed' \in BOOLEAN
           /\ due' \in 0..MaxVersion /\ claims' \subseteq Versions
           /\ lateCommit' \subseteq Versions /\ lateCall' \subseteq Clients
           /\ run' \in [by : {"none", "due", "lost", "api"}, target : Targets \cup {NoTarget}]
           /\ lateRun' \subseteq Targets /\ active' \in Targets \cup {NoTarget}
           /\ \A v \in lateCommit' : arb[v].projection.state # "none"
<1>1. /\ armed \in BOOLEAN /\ skipped \in BOOLEAN /\ doomed \in BOOLEAN
      /\ due \in 0..MaxVersion /\ claims \subseteq Versions
      /\ lateCommit \subseteq Versions /\ lateCall \subseteq Clients
      /\ run \in [by : {"none", "due", "lost", "api"}, target : Targets \cup {NoTarget}]
      /\ lateRun \subseteq Targets /\ active \in Targets \cup {NoTarget}
      /\ \A v \in lateCommit : arb[v].projection.state # "none"
  BY DEF Inv1, TypeOK, Bounded
<1>2. ASSUME NEW by \in {"due", "lost", "api"}, NEW t \in Targets, StartRun(by, t)
      PROVE  run' \in [by : {"none", "due", "lost", "api"}, target : Targets \cup {NoTarget}]
  BY <1>1, <1>2 DEF StartRun
<1>3. CASE Create
  BY <1>1, <1>3 DEF Create, WriteSchedule
<1>4. CASE Fire
  <2>1. armed /\ armed' = FALSE /\ UNCHANGED <<claims, lateCommit, run, lateRun, active,
                                               lateCall, doomed>>
    BY <1>4 DEF Fire
  <2>2. (due' = sched.version \/ due' = due) /\ (skipped' = skipped \/ skipped' = TRUE)
    BY <1>4 DEF Fire
  <2>3. sched.version \in 0..MaxVersion
    BY DEF Inv1, TypeOK, Records
  <2>4. QED
    BY <1>1, <2>1, <2>2, <2>3
<1>5. CASE ClaimCheck
  <2>1. UNCHANGED <<armed, skipped, lateCommit, run, lateRun, active, lateCall, doomed>>
    BY <1>5 DEF ClaimCheck
  <2>2. due \in Versions /\ due' \in {0, due} /\ claims' \subseteq claims \cup {due}
    BY <1>1, <1>5, ConstantsAssumption DEF ClaimCheck, Versions
  <2>3. due' \in 0..MaxVersion /\ claims' \subseteq Versions
    BY <1>1, <2>2, ConstantsAssumption
  <2>4. QED
    BY <1>1, <2>1, <2>3
<1>6. ASSUME NEW v \in Versions, NEW answered \in BOOLEAN, ClaimDue(v, answered)
      PROVE  /\ due' \in 0..MaxVersion /\ claims' \subseteq Versions
             /\ UNCHANGED <<armed, skipped, doomed, lateCommit, lateCall, run, lateRun, active>>
  BY <1>1, <1>6, ConstantsAssumption DEF ClaimDue
<1>7. ASSUME NEW v \in Versions, ArbiterNext(v)
      PROVE  /\ armed' \in BOOLEAN /\ skipped' \in BOOLEAN
             /\ lateCommit' \subseteq Versions
             /\ run' \in [by : {"none", "due", "lost", "api"}, target : Targets \cup {NoTarget}]
             /\ lateRun' \subseteq Targets
             /\ \A w \in lateCommit' : arb[w].projection.state # "none"
             /\ UNCHANGED <<due, claims, doomed, lateCall, active>>
  <2>1. Shape(v, arb[v])
    BY DEF Inv1, Good
  <2>2. CASE Prepare(v) \/ AttemptRejected(v) \/ CommitRead(v)
    BY <1>1, <2>2 DEF Prepare, AttemptRejected, CommitRead
  <2>3. CASE AttemptAccepted(v) \/ AttemptRunIdLost(v)
    <3>1. arb[v].target \in Targets
      BY <2>1, <2>3 DEF AttemptAccepted, AttemptRunIdLost, Shape
    <3>2. QED
      BY <1>1, <1>2, <2>3, <3>1 DEF AttemptAccepted, AttemptRunIdLost
  <2>4. CASE AttemptAmbiguous(v)
    <3>1. arb[v].target \in Targets
      BY <2>1, <2>4 DEF AttemptAmbiguous, Shape
    <3>2. QED
      BY <1>1, <2>4, <3>1 DEF AttemptAmbiguous
  <2>5. CASE (\E answered \in BOOLEAN : CommitWrite(v, answered)) \/ LateCommitLands(v)
    BY <1>1, <2>5 DEF CommitWrite, LateCommitLands, WriteSchedule
  <2>6. CASE CommitTimeout(v)
    <3>1. arb[v].projection.state # "none"
      BY <2>1, <2>6 DEF CommitTimeout, Shape
    <3>2. QED
      BY <1>1, <2>6, <3>1 DEF CommitTimeout
  <2>7. QED
    BY <1>7, <2>2, <2>3, <2>4, <2>5, <2>6 DEF ArbiterNext
<1>8. ASSUME NEW t \in Targets, LateRunLands(t)
      PROVE  /\ run' \in [by : {"none", "due", "lost", "api"}, target : Targets \cup {NoTarget}]
             /\ lateRun' \subseteq Targets
             /\ UNCHANGED <<armed, skipped, doomed, due, claims, lateCommit, lateCall, active>>
  BY <1>1, <1>2, <1>8 DEF LateRunLands
<1>9. ASSUME NEW c \in Clients, ClientNext(c)
      PROVE  /\ lateCall' \subseteq Clients
             /\ UNCHANGED <<armed, skipped, doomed, due, claims, lateCommit, run, lateRun, active>>
  BY <1>1, <1>9 DEF ClientNext, Submit, ReadRecord, RecoverMutation, RunMutation,
     RunMutationFails, LateCallLands, AwaitArbiter, AwaitTimeout, Retry
<1>10. CASE ApiStart
  BY <1>1, <1>2, <1>10 DEF ApiStart
<1>11. ASSUME NEW t \in Targets \cup {NoTarget}, Activate(t)
       PROVE  /\ active' \in Targets \cup {NoTarget}
              /\ UNCHANGED <<armed, skipped, doomed, due, claims, lateCommit, lateCall, run,
                             lateRun>>
  BY <1>11 DEF Activate
<1>12. CASE CleanupDescribe \/ CleanupDelete
  BY <1>1, <1>12 DEF CleanupDescribe, CleanupDelete
<1>13. QED
  BY <1>1, <1>3, <1>4, <1>5, <1>6, <1>7, <1>8, <1>9, <1>10, <1>11, <1>12 DEF Next

\* The first layer is inductive.
LEMMA Inv1Step == Inv1 /\ [Next]_vars => Inv1'
<1>1. ASSUME Inv1, Next PROVE Inv1'
  <2>1. PICK v \in Versions : ArbStepAt(v)
    BY <1>1, ArbNext
  <2>2. /\ \A w \in Versions : Good(w, arb'[w])
        /\ \A w \in Versions : arb[w].projection.state # "none" =>
                                  arb'[w].projection = arb[w].projection
    BY <1>1, <2>1, ArbStepKeeps
  <2>3. arb' \in [Versions -> Arbiters]
    BY <2>1 DEF ArbStepAt
  <2>4. /\ sched' \in Records
        /\ sched'.state \in {"scheduled"} \cup Terminal => sched'.version \in Versions
    BY <1>1, SchedNext, SchedStepKeeps
  <2>5. TypeOK'
    BY <1>1, <2>3, <2>4, ClientsNext, RestNext DEF TypeOK
  <2>6. Bounded'
    BY <1>1, <2>2, <2>4, ClientsNext, RestNext DEF Bounded
  <2>7. QED
    BY <2>2, <2>5, <2>6 DEF Inv1
<1>2. ASSUME Inv1, UNCHANGED vars PROVE Inv1'
  BY <1>2 DEF vars, Inv1, TypeOK, Bounded
<1>3. QED
  BY <1>1, <1>2

\* Every value the service, the workflows and Temporal hold is of its type,
\* and every lifecycle version stays within the bound.
THEOREM TypeCorrect == Spec => []TypeOK
<1>1. Inv1 => TypeOK
  BY DEF Inv1
<1>2. QED
  BY <1>1, Inv1Init, Inv1Step, PTL DEF Spec

-----------------------------------------------------------------------------
(* The chain of arbiters, the schedule and what the clients are told.      *)

\* The schedule's record comes from creation or from an arbiter's decision.
Provenance ==
    \/ NotFound /\ sched.digest = NoClient
    \/ sched = create_scheduled_start_record
    \/ \E v \in Versions : arb[v].projection.state # "none" /\ sched = arb[v].projection

\* The effect a client that was told success has had.
HasEffect(c) ==
    /\ arb[cli[c].version].command = cli[c].kind
    /\ arb[cli[c].version].projection.digest = c

ClientOK(c) ==
    /\ cli[c].pc = "await" => Owns(c)
    /\ cli[c].pc = "new" => cli[c].verdicts = {} /\ ~cli[c].fresh /\ c \notin lateCall
    /\ Succeeded(c) => HasEffect(c)

ClientInv == \A c \in Clients : ClientOK(c)

\* Whoever may open the arbiter of a version has seen every version before it
\* rescheduled.
ChainInv ==
    /\ armed => sched.state = "scheduled"
    /\ \A v \in Versions : arb[v].phase # "none" => Reached(v)
    /\ due # 0 => Reached(due)
    /\ \A v \in claims : Reached(v)
    /\ \A c \in Clients : cli[c].fresh \/ cli[c].pc = "start" \/ c \in lateCall =>
                              Reached(cli[c].version)

Inv2 == Inv1 /\ Provenance /\ ClientInv /\ ChainInv

-----------------------------------------------------------------------------
(***************************************************************************)
(* Facts about one step.                                                   *)
(***************************************************************************)

\* What an arbiter has decided, whose it is and what it resolved never change.
LEMMA ArbitersKeep ==
    ASSUME Inv1, [Next]_vars
    PROVE  \A w \in Versions :
             /\ arb[w].projection.state # "none" => arb'[w].projection = arb[w].projection
             /\ arb[w].phase # "none" => /\ arb'[w].phase # "none"
                                         /\ arb'[w].command = arb[w].command
                                         /\ arb'[w].digest = arb[w].digest
             /\ arb[w].target # NoTarget => arb'[w].target = arb[w].target
             /\ arb[w].phase # "none" /\ arb[w].saw_ambiguous => arb'[w].saw_ambiguous
<1>1. CASE Next
  <2>1. PICK v \in Versions : ArbStepAt(v)
    BY <1>1, ArbNext
  <2>2. \A w \in Versions : arb[w].projection.state # "none" =>
                               arb'[w].projection = arb[w].projection
    BY <2>1, ArbStepKeeps
  <2>3. Shape(v, arb[v])
    BY DEF Inv1, Good
  <2>4. /\ arb[v].phase # "none" => /\ arb'[v].phase # "none"
                                    /\ arb'[v].command = arb[v].command
                                    /\ arb'[v].digest = arb[v].digest
        /\ arb[v].target # NoTarget => arb'[v].target = arb[v].target
        /\ arb[v].phase # "none" /\ arb[v].saw_ambiguous => arb'[v].saw_ambiguous
    BY <2>1, <2>3, OpenedFields DEF ArbStepAt, Moved, Shape
  <2>5. \A w \in Versions \ {v} : arb'[w] = arb[w]
    BY <2>1 DEF ArbStepAt
  <2>6. QED
    BY <2>2, <2>4, <2>5
<1>2. CASE UNCHANGED vars
  BY <1>2 DEF vars
<1>3. QED
  BY <1>1, <1>2

\* A version once reached stays reached.
LEMMA ReachedStable ==
    ASSUME Inv1, [Next]_vars, NEW v, Reached(v)
    PROVE  Reached(v)'
BY ArbitersKeep DEF Reached

\* A pending record is of a version that has been reached.
LEMMA PendingReached ==
    ASSUME Inv2, sched.state = "scheduled"
    PROVE  Reached(sched.version)
<1>1. CASE sched = create_scheduled_start_record
  BY <1>1, RecordFields DEF Reached, Versions
<1>2. ASSUME NEW v \in Versions, arb[v].projection.state # "none", sched = arb[v].projection
      PROVE  Reached(sched.version)
  <2>1. Shape(v, arb[v])
    BY DEF Inv2, Inv1, Good
  <2>2. arb[v].phase # "none" /\ sched.version = v + 1
    BY <1>2, <2>1, OpenedFields, RecordFields DEF Shape
  <2>3. Reached(v)
    BY <2>2 DEF Inv2, ChainInv
  <2>4. QED
    BY <1>2, <2>2, <2>3 DEF Reached, Versions
<1>3. QED
  BY <1>1, <1>2 DEF Inv2, Provenance, NotFound

\* Only the latest version reached can be undecided: an arbiter before another
\* one is a reschedule that took effect.
LEMMA EarlierRescheduled ==
    ASSUME Inv2, NEW v \in Versions, NEW w \in Versions, v < w, arb[w].phase # "none"
    PROVE  arb[v].projection.state = "scheduled" /\ arb[v].command = "reschedule"
<1>1. Reached(w) /\ Shape(v, arb[v])
  BY DEF Inv2, ChainInv, Inv1, Good
<1>2. QED
  BY <1>1 DEF Reached, Shape

-----------------------------------------------------------------------------
(***************************************************************************)
(* The second layer is inductive.                                          *)
(***************************************************************************)
LEMMA Inv2Init == Init => Inv2
<1> SUFFICES ASSUME Init PROVE Inv2
  OBVIOUS
<1>1. Inv1
  BY Inv1Init
<1>2. Provenance
  BY RecordFields DEF Init, Provenance, NotFound
<1>3. ClientInv
  BY DEF Init, ClientInv, ClientOK, NewRequest, Succeeded
<1>4. ChainInv
  BY OpenedFields DEF Init, ChainInv, NewRequest
<1>5. QED
  BY <1>1, <1>2, <1>3, <1>4 DEF Inv2

\* The record's provenance is kept: a projection never changes.
LEMMA ProvenanceStep ==
    ASSUME Inv2, [Next]_vars
    PROVE  Provenance'
<1>1. Inv1
  BY DEF Inv2
<1>2. ASSUME NEW v \in Versions, arb[v].projection.state # "none", sched' = arb[v].projection
      PROVE  Provenance'
  <2>1. arb'[v].projection = arb[v].projection
    BY <1>1, <1>2, ArbitersKeep
  <2>2. QED
    BY <1>2, <2>1 DEF Provenance
<1>3. CASE sched' = sched
  BY <1>2, <1>3 DEF Inv2, Provenance, NotFound
<1>4. CASE sched' = create_scheduled_start_record
  BY <1>4 DEF Provenance
<1>5. CASE sched' = [NoRecord EXCEPT !.state = "deleted"]
  <2>1. sched'.state = "deleted" /\ sched'.digest = NoClient
    BY <1>5 DEF NoRecord, Record
  <2>2. QED
    BY <2>1 DEF Provenance, NotFound
<1>6. CASE Next
  BY <1>1, <1>2, <1>3, <1>4, <1>5, <1>6, SchedNext DEF SchedStep
<1>7. CASE UNCHANGED vars
  BY <1>3, <1>7 DEF vars
<1>8. QED
  BY <1>6, <1>7

\* Owning an arbiter, and having had an effect, last as long as the request is
\* the same.
LEMMA EffectsLast ==
    ASSUME Inv2, [Next]_vars, NEW c \in Clients,
           cli'[c].version = cli[c].version, cli'[c].kind = cli[c].kind
    PROVE  /\ Owns(c) => Owns(c)'
           /\ HasEffect(c) => HasEffect(c)'
<1> DEFINE v == cli[c].version
<1>1. Inv1 /\ v \in Versions /\ NoClient \notin Clients
  BY ConstantsAssumption DEF Inv2, Inv1, TypeOK, Requests
<1>2. Shape(v, arb[v])
  BY <1>1 DEF Inv1, Good
<1>3. ASSUME HasEffect(c) PROVE HasEffect(c)'
  <2>1. arb[v].projection.digest = c /\ arb[v].command = cli[c].kind
    BY <1>3 DEF HasEffect
  <2>2. arb[v].projection.state # "none"
    BY <1>1, <1>2, <2>1, RecordFields DEF Shape
  <2>3. arb[v].phase # "none"
    BY <1>2, <2>2, OpenedFields, RecordFields DEF Shape
  <2>4. arb'[v].projection = arb[v].projection /\ arb'[v].command = arb[v].command
    BY <1>1, <2>2, <2>3, ArbitersKeep
  <2>5. QED
    BY <2>1, <2>4 DEF HasEffect
<1>4. ASSUME Owns(c) PROVE Owns(c)'
  <2>1. arb[v].phase # "none" /\ arb[v].command = cli[c].kind /\ arb[v].digest = c
    BY <1>4 DEF Owns
  <2>2. arb'[v].phase # "none" /\ arb'[v].command = arb[v].command
        /\ arb'[v].digest = arb[v].digest
    BY <1>1, <2>1, ArbitersKeep
  <2>3. QED
    BY <2>1, <2>2 DEF Owns
<1>5. QED
  BY <1>3, <1>4

\* A client that a step leaves alone.
LEMMA OtherClient ==
    ASSUME Inv2, [Next]_vars, NEW c \in Clients, cli'[c] = cli[c],
           c \in lateCall' => c \in lateCall
    PROVE  ClientOK(c)'
<1>1. ClientOK(c)
  BY DEF Inv2, ClientInv
<1>2. (Owns(c) => Owns(c)') /\ (HasEffect(c) => HasEffect(c)')
  BY EffectsLast
<1>3. QED
  BY <1>1, <1>2 DEF ClientOK, Succeeded

\* A client that gets an answer: success is told only of a request that had
\* its effect.
LEMMA RepliedClient ==
    ASSUME Inv2, Next, NEW c \in Clients, NEW r, Reply(c, r), cli[c].pc # "new",
           r = "success" => HasEffect(c)
    PROVE  ClientOK(c)'
<1>1. ClientOK(c) /\ cli \in [Clients -> Requests] /\ cli[c] \in Requests
  BY DEF Inv2, ClientInv, Inv1, TypeOK
<1> DEFINE q == [cli[c] EXCEPT !.pc = "done", !.fresh = FALSE, !.joined = FALSE,
                               !.verdicts = @ \cup (Verdicts \cap {r})]
<1>2. /\ q.pc = "done" /\ q.version = cli[c].version /\ q.kind = cli[c].kind
      /\ q.verdicts = cli[c].verdicts \cup (Verdicts \cap {r})
  BY <1>1 DEF Requests
<1>3. cli'[c] = q
  BY <1>1 DEF Reply, SetClient
<1> HIDE DEF q
<1>4. HasEffect(c) => HasEffect(c)'
  BY <1>2, <1>3, EffectsLast
<1>5. Succeeded(c)' => HasEffect(c)
  BY <1>1, <1>2, <1>3 DEF Succeeded, ClientOK
<1>6. QED
  BY <1>2, <1>3, <1>4, <1>5 DEF ClientOK

\* A client that moves on without an answer.
LEMMA MovedClient ==
    ASSUME Inv2, Next, NEW c \in Clients, NEW q \in Requests, SetClient(c, q),
           q.pc # "new", q.verdicts = cli[c].verdicts,
           \/ q.version = cli[c].version /\ q.kind = cli[c].kind
           \/ cli[c].pc = "new",
           q.pc = "await" => Owns(c)'
    PROVE  ClientOK(c)'
<1>1. ClientOK(c) /\ cli \in [Clients -> Requests]
  BY DEF Inv2, ClientInv, Inv1, TypeOK
<1>2. cli'[c] = q
  BY <1>1 DEF SetClient
<1>3. CASE cli[c].pc = "new"
  BY <1>1, <1>2, <1>3 DEF ClientOK, Succeeded
<1>4. CASE q.version = cli[c].version /\ q.kind = cli[c].kind
  <2>1. HasEffect(c) => HasEffect(c)'
    BY <1>2, <1>4, EffectsLast
  <2>2. QED
    BY <1>1, <1>2, <2>1 DEF ClientOK, Succeeded
<1>5. QED
  BY <1>3, <1>4

\* _recover_mutation's short cut: the record shows the request applied only
\* if its own arbiter decided so.
LEMMA AppliedHasEffect ==
    ASSUME Inv2, NEW c \in Clients, ~NotFound, AlreadyApplied(c)
    PROVE  HasEffect(c)
<1>1. NoClient \notin Clients /\ sched.digest = c /\ sched.state \in {"scheduled", "canceled"}
  BY ConstantsAssumption DEF AlreadyApplied, IsPending
<1>2. PICK v \in Versions : arb[v].projection.state # "none" /\ sched = arb[v].projection
  BY <1>1, RecordFields DEF Inv2, Provenance
<1>3. Shape(v, arb[v]) /\ cli[c].version \in Versions
  BY DEF Inv2, Inv1, Good, TypeOK, Requests
<1>4. v = cli[c].version /\ arb[v].command = cli[c].kind
  BY <1>2, <1>3 DEF AlreadyApplied, IsPending, Shape, Terminal, Versions
<1>5. QED
  BY <1>1, <1>2, <1>4 DEF HasEffect

\* What a closed arbiter tells its owner.
LEMMA ResultHasEffect ==
    ASSUME Inv2, NEW c \in Clients, cli[c].pc = "await",
           arb[cli[c].version].phase \in {"applied", "stale"}, ResultReply(c) = "success"
    PROVE  HasEffect(c)
<1> DEFINE v == cli[c].version
<1>1. Owns(c) /\ v \in Versions /\ cli[c].kind \in Mutations
  BY DEF Inv2, ClientInv, ClientOK, Inv1, TypeOK, Requests
<1>2. Shape(v, arb[v])
  BY <1>1 DEF Inv2, Inv1, Good
<1>3. arb[v].phase = "applied" /\ arb[v].projection.state # "started"
  BY DEF ResultReply
<1>4. arb[v].projection.state \in {"scheduled", "canceled"}
  BY <1>1, <1>2, <1>3 DEF Shape, Owns, Mutations, Terminal
<1>5. QED
  BY <1>1, <1>2, <1>4 DEF Shape, Owns, HasEffect

\* _start_arbiter makes the caller the owner of a version nobody had claimed.
LEMMA StartedIsOwned ==
    ASSUME Inv2, NEW c \in Clients, arb[cli[c].version].phase = "none",
           StartArbiter(cli[c].version, cli[c].kind, c),
           cli'[c].version = cli[c].version, cli'[c].kind = cli[c].kind
    PROVE  Owns(c)'
<1> DEFINE v == cli[c].version
           b == [NoArbiter EXCEPT !.phase = "initial", !.command = cli[c].kind, !.digest = c]
<1>1. v \in Versions /\ arb \in [Versions -> Arbiters]
  BY DEF Inv2, Inv1, TypeOK, Requests
<1>2. arb' = [arb EXCEPT ![v] = b]
  BY DEF StartArbiter, SetArbiter
<1>3. b.phase = "initial" /\ b.command = cli[c].kind /\ b.digest = c
  BY OpenedFields
<1> HIDE DEF b
<1>4. arb'[v] = b
  BY <1>1, <1>2
<1>5. QED
  BY <1>3, <1>4 DEF Owns

\* The fields of a request that each step of its handler leaves and sets.
LEMMA RequestFields ==
    ASSUME NEW q \in Requests
    PROVE  /\ \A kind, v : LET p == [q EXCEPT !.pc = "sent", !.kind = kind, !.version = v] IN
                /\ p.pc = "sent" /\ p.version = v /\ p.kind = kind
                /\ p.verdicts = q.verdicts /\ p.fresh = q.fresh
           /\ \A b : LET p == [q EXCEPT !.pc = "recover", !.fresh = b] IN
                /\ p.pc = "recover" /\ p.version = q.version /\ p.kind = q.kind
                /\ p.verdicts = q.verdicts /\ p.fresh = b
           /\ LET p == [q EXCEPT !.pc = "start", !.fresh = FALSE] IN
                /\ p.pc = "start" /\ p.version = q.version /\ p.kind = q.kind
                /\ p.verdicts = q.verdicts /\ p.fresh = FALSE
           /\ LET p == [q EXCEPT !.pc = "await", !.fresh = FALSE] IN
                /\ p.pc = "await" /\ p.version = q.version /\ p.kind = q.kind
                /\ p.verdicts = q.verdicts /\ p.fresh = FALSE
           /\ LET p == [q EXCEPT !.pc = "await"] IN
                /\ p.pc = "await" /\ p.version = q.version /\ p.kind = q.kind
                /\ p.verdicts = q.verdicts /\ p.fresh = q.fresh
           /\ LET p == [q EXCEPT !.pc = "await", !.joined = TRUE] IN
                /\ p.pc = "await" /\ p.version = q.version /\ p.kind = q.kind
                /\ p.verdicts = q.verdicts /\ p.fresh = q.fresh
           /\ LET p == [q EXCEPT !.pc = "sent"] IN
                /\ p.pc = "sent" /\ p.version = q.version /\ p.kind = q.kind
                /\ p.verdicts = q.verdicts /\ p.fresh = q.fresh
           /\ \A r : LET p == [q EXCEPT !.pc = "done", !.fresh = FALSE, !.joined = FALSE,
                                        !.verdicts = @ \cup (Verdicts \cap {r})] IN
                /\ p.pc = "done" /\ p.version = q.version /\ p.kind = q.kind
                /\ p.fresh = FALSE
BY DEF Requests

\* The step of a client keeps what is known of that client.
LEMMA ClientStep ==
    ASSUME Inv2, Next, NEW c \in Clients, ClientNext(c)
    PROVE  ClientOK(c)'
<1>1. /\ cli \in [Clients -> Requests] /\ cli[c] \in Requests /\ cli[c].version \in Versions
      /\ ClientOK(c) /\ Inv1
  BY DEF Inv2, Inv1, TypeOK, ClientInv, Requests
<1>2. ASSUME NEW kind \in Mutations, Submit(c, kind)
      PROVE  ClientOK(c)'
  <2> DEFINE q == [cli[c] EXCEPT !.pc = "sent", !.kind = kind, !.version = Describe.version]
  <2>1. q \in Requests
    BY <1>1, <1>2, DescribedVersion, RequestTypes DEF Submit
  <2>2. q.pc = "sent" /\ q.verdicts = cli[c].verdicts
    BY <1>1, RequestFields
  <2>3. SetClient(c, q) /\ cli[c].pc = "new"
    BY <1>2 DEF Submit
  <2> HIDE DEF q
  <2>4. QED
    BY <2>1, <2>2, <2>3, MovedClient
<1>3. CASE ReadRecord(c)
  <2>1. CASE Reply(c, "not_found")
    BY <1>3, <2>1, RepliedClient DEF ReadRecord
  <2>2. CASE ~NotFound /\ AlreadyApplied(c) /\ Reply(c, "success")
    BY <1>3, <2>2, RepliedClient, AppliedHasEffect DEF ReadRecord
  <2>3. CASE SetClient(c, [cli[c] EXCEPT !.pc = "recover", !.fresh = IsPending(cli[c].version)])
    <3> DEFINE q == [cli[c] EXCEPT !.pc = "recover", !.fresh = IsPending(cli[c].version)]
    <3>1. q \in Requests
      BY <1>1, RequestTypes DEF IsPending
    <3>2. /\ q.pc = "recover" /\ q.version = cli[c].version /\ q.kind = cli[c].kind
          /\ q.verdicts = cli[c].verdicts /\ SetClient(c, q)
      BY <1>1, <2>3, RequestFields
    <3> HIDE DEF q
    <3>3. QED
      BY <3>1, <3>2, MovedClient
  <2>4. QED
    BY <1>3, <2>1, <2>2, <2>3 DEF ReadRecord
<1>4. CASE RecoverMutation(c)
  <2>1. CASE SetClient(c, [cli[c] EXCEPT !.pc = "start", !.fresh = FALSE])
    <3> DEFINE q == [cli[c] EXCEPT !.pc = "start", !.fresh = FALSE]
    <3>1. /\ q \in Requests /\ q.pc = "start" /\ q.version = cli[c].version
          /\ q.kind = cli[c].kind /\ q.verdicts = cli[c].verdicts /\ SetClient(c, q)
      BY <1>1, <2>1, RequestTypes, RequestFields
    <3> HIDE DEF q
    <3>2. QED
      BY <3>1, MovedClient
  <2>2. CASE Reply(c, "conflict")
    BY <1>4, <2>2, RepliedClient DEF RecoverMutation
  <2>3. CASE Owns(c) /\ SetClient(c, [cli[c] EXCEPT !.pc = "await", !.fresh = FALSE])
    <3> DEFINE q == [cli[c] EXCEPT !.pc = "await", !.fresh = FALSE]
    <3>1. /\ q \in Requests /\ q.pc = "await" /\ q.version = cli[c].version
          /\ q.kind = cli[c].kind /\ q.verdicts = cli[c].verdicts /\ SetClient(c, q)
      BY <1>1, <2>3, RequestTypes, RequestFields
    <3> HIDE DEF q
    <3>2. cli'[c] = q
      BY <1>1, <3>1 DEF SetClient
    <3>3. Owns(c)'
      BY <2>3, <3>1, <3>2, EffectsLast
    <3>4. QED
      BY <3>1, <3>3, MovedClient
  <2>4. CASE Reply(c, "invalid")
    BY <1>4, <2>4, RepliedClient DEF RecoverMutation
  <2>5. QED
    BY <1>4, <2>1, <2>2, <2>3, <2>4 DEF RecoverMutation
<1>5. CASE RunMutation(c)
  <2>1. CASE /\ arb[cli[c].version].phase = "none"
             /\ SetClient(c, [cli[c] EXCEPT !.pc = "await"])
    <3> DEFINE q == [cli[c] EXCEPT !.pc = "await"]
    <3>1. /\ q \in Requests /\ q.pc = "await" /\ q.version = cli[c].version
          /\ q.kind = cli[c].kind /\ q.verdicts = cli[c].verdicts /\ SetClient(c, q)
      BY <1>1, <2>1, RequestTypes, RequestFields
    <3> HIDE DEF q
    <3>2. cli'[c] = q
      BY <1>1, <3>1 DEF SetClient
    <3>3. Owns(c)'
      BY <1>5, <2>1, <3>1, <3>2, StartedIsOwned DEF RunMutation
    <3>4. QED
      BY <3>1, <3>3, MovedClient
  <2>2. CASE Owns(c) /\ SetClient(c, [cli[c] EXCEPT !.pc = "await", !.joined = TRUE])
    <3> DEFINE q == [cli[c] EXCEPT !.pc = "await", !.joined = TRUE]
    <3>1. /\ q \in Requests /\ q.pc = "await" /\ q.version = cli[c].version
          /\ q.kind = cli[c].kind /\ q.verdicts = cli[c].verdicts /\ SetClient(c, q)
      BY <1>1, <2>2, RequestTypes, RequestFields
    <3> HIDE DEF q
    <3>2. cli'[c] = q
      BY <1>1, <3>1 DEF SetClient
    <3>3. Owns(c)'
      BY <2>2, <3>1, <3>2, EffectsLast
    <3>4. QED
      BY <3>1, <3>3, MovedClient
  <2>3. CASE Reply(c, "conflict")
    BY <1>5, <2>3, RepliedClient DEF RunMutation
  <2>4. QED
    BY <1>5, <2>1, <2>2, <2>3 DEF RunMutation
<1>6. CASE RunMutationFails(c)
  BY <1>6, RepliedClient DEF RunMutationFails
<1>7. CASE LateCallLands(c)
  BY <1>7, OtherClient DEF LateCallLands
<1>8. CASE AwaitArbiter(c)
  BY <1>8, RepliedClient, ResultHasEffect DEF AwaitArbiter
<1>9. CASE AwaitTimeout(c)
  BY <1>9, RepliedClient DEF AwaitTimeout
<1>10. CASE Retry(c)
  <2> DEFINE q == [cli[c] EXCEPT !.pc = "sent"]
  <2>1. /\ q \in Requests /\ q.pc = "sent" /\ q.version = cli[c].version
        /\ q.kind = cli[c].kind /\ q.verdicts = cli[c].verdicts /\ SetClient(c, q)
    BY <1>1, <1>10, RequestTypes, RequestFields DEF Retry
  <2> HIDE DEF q
  <2>2. QED
    BY <2>1, MovedClient
<1>11. QED
  BY <1>2, <1>3, <1>4, <1>5, <1>6, <1>7, <1>8, <1>9, <1>10 DEF ClientNext

\* A step of one client leaves the others alone; other steps leave all alone.
LEMMA OthersUnchanged ==
    ASSUME Inv1, Next
    PROVE  /\ \A c \in Clients : ClientNext(c) =>
                \A d \in Clients \ {c} : /\ cli'[d] = cli[d]
                                         /\ d \in lateCall' => d \in lateCall
           /\ (~ \E c \in Clients : ClientNext(c)) => UNCHANGED <<cli, lateCall>>
<1>1. ASSUME NEW c \in Clients, ClientNext(c)
      PROVE  \A d \in Clients \ {c} : cli'[d] = cli[d] /\ (d \in lateCall' => d \in lateCall)
  <2>1. cli \in [Clients -> Requests]
    BY DEF Inv1, TypeOK
  <2>2. UNCHANGED cli \/ \E q : SetClient(c, q)
    BY <1>1 DEF ClientNext, Submit, ReadRecord, RecoverMutation, RunMutation,
       RunMutationFails, LateCallLands, AwaitArbiter, AwaitTimeout, Retry, Reply
  <2>3. lateCall' \subseteq lateCall \cup {c}
    BY <1>1 DEF ClientNext, Submit, ReadRecord, RecoverMutation, RunMutation,
       RunMutationFails, LateCallLands, AwaitArbiter, AwaitTimeout, Retry
  <2>4. QED
    BY <2>1, <2>2, <2>3 DEF SetClient
<1>2. ASSUME ~ \E c \in Clients : ClientNext(c)
      PROVE  UNCHANGED <<cli, lateCall>>
  BY <1>2 DEF Next, Create, Fire, ClaimCheck, ClaimDue, ArbiterNext, Prepare,
     AttemptAccepted, AttemptRejected, AttemptRunIdLost, AttemptAmbiguous, CommitRead,
     CommitWrite, CommitTimeout, LateCommitLands, LateRunLands, ApiStart, Activate,
     CleanupDescribe, CleanupDelete
<1>3. QED
  BY <1>1, <1>2

\* What clients are told stays true.
LEMMA ClientInvStep ==
    ASSUME Inv2, [Next]_vars
    PROVE  ClientInv'
<1>1. Inv1
  BY DEF Inv2
<1>2. CASE Next
  <2>1. ASSUME NEW c \in Clients, ClientNext(c) PROVE ClientInv'
    BY <1>1, <1>2, <2>1, ClientStep, OthersUnchanged, OtherClient DEF ClientInv
  <2>2. CASE ~ \E c \in Clients : ClientNext(c)
    BY <1>1, <1>2, <2>2, OthersUnchanged, OtherClient DEF ClientInv
  <2>3. QED
    BY <2>1, <2>2
<1>3. CASE UNCHANGED vars
  BY <1>3, OtherClient DEF vars, ClientInv
<1>4. QED
  BY <1>2, <1>3

\* An arbiter is opened only for a version that has been reached.
LEMMA OpenersReached ==
    ASSUME Inv2, Next, NEW v \in Versions, arb[v].phase = "none", arb'[v].phase # "none"
    PROVE  Reached(v)
<1>1. /\ arb \in [Versions -> Arbiters] /\ cli \in [Clients -> Requests]
      /\ \A c \in Clients : cli[c].version \in Versions
  BY DEF Inv2, Inv1, TypeOK, Requests
<1>2. ASSUME NEW u \in Versions, NEW b, SetArbiter(u, b)
      PROVE  u = v
  BY <1>1, <1>2 DEF SetArbiter
<1>3. ASSUME NEW u \in Versions, NEW k, NEW d, StartArbiter(u, k, d)
      PROVE  u = v
  BY <1>2, <1>3 DEF StartArbiter
<1>4. ~ UNCHANGED arb
  OBVIOUS
<1>5. ASSUME NEW u \in Versions, NEW answered \in BOOLEAN, ClaimDue(u, answered)
      PROVE  Reached(v)
  BY <1>3, <1>5 DEF ClaimDue, Inv2, ChainInv
<1>6. ASSUME NEW u \in Versions, ArbiterNext(u)
      PROVE  FALSE
  <2>1. arb[u].phase # "none"
    BY <1>4, <1>6 DEF ArbiterNext, Prepare, AttemptAccepted, AttemptRejected,
       AttemptRunIdLost, AttemptAmbiguous, CommitRead, CommitWrite, CommitTimeout,
       LateCommitLands
  <2>2. \E b : SetArbiter(u, b)
    BY <1>4, <1>6 DEF ArbiterNext, Prepare, PrepareProjection, AttemptAccepted,
       AttemptRejected, AttemptRunIdLost, AttemptAmbiguous, CommitRead, CommitWrite,
       CommitTimeout, LateCommitLands, CountRejection, Decide, Close
  <2>3. QED
    BY <1>2, <2>1, <2>2
<1>7. ASSUME NEW c \in Clients, ClientNext(c)
      PROVE  Reached(v)
  <2>1. StartArbiter(cli[c].version, cli[c].kind, c) /\ (cli[c].pc = "start" \/ c \in lateCall)
    BY <1>4, <1>7 DEF ClientNext, Submit, ReadRecord, RecoverMutation, RunMutation,
       RunMutationFails, LateCallLands, AwaitArbiter, AwaitTimeout, Retry
  <2>2. QED
    BY <1>1, <1>3, <2>1 DEF Inv2, ChainInv
<1>8. CASE Create \/ Fire \/ ClaimCheck \/ ApiStart \/ CleanupDescribe \/ CleanupDelete
  BY <1>4, <1>8 DEF Create, Fire, ClaimCheck, ApiStart, CleanupDescribe, CleanupDelete
<1>9. ASSUME NEW t \in Targets \cup {NoTarget}, LateRunLands(t) \/ Activate(t)
      PROVE  FALSE
  BY <1>4, <1>9 DEF LateRunLands, Activate
<1>10. QED
  BY <1>5, <1>6, <1>7, <1>8, <1>9 DEF Next

\* The schedule is armed only while it carries a pending record.
LEMMA ArmedStep ==
    ASSUME Inv2, Next
    PROVE  armed' => sched'.state = "scheduled"
<1>1. armed => sched.state = "scheduled"
  BY DEF Inv2, ChainInv
<1>2. ASSUME NEW v \in Versions, ArbiterNext(v)
      PROVE  armed' => sched'.state = "scheduled"
  BY <1>1, <1>2 DEF ArbiterNext, Prepare, AttemptAccepted, AttemptRejected,
     AttemptRunIdLost, AttemptAmbiguous, CommitRead, CommitWrite, CommitTimeout,
     LateCommitLands, WriteSchedule
<1>3. ASSUME NEW c \in Clients, ClientNext(c)
      PROVE  UNCHANGED <<armed, sched>>
  BY <1>3 DEF ClientNext, Submit, ReadRecord, RecoverMutation, RunMutation,
     RunMutationFails, LateCallLands, AwaitArbiter, AwaitTimeout, Retry
<1>4. QED
  BY <1>1, <1>2, <1>3 DEF Next, Create, WriteSchedule, Fire, ClaimCheck, ClaimDue,
     LateRunLands, ApiStart, Activate, CleanupDescribe, CleanupDelete

\* What the Due workflow captured, and what its claim activities checked, has
\* been reached.
LEMMA DueStep ==
    ASSUME Inv2, Next
    PROVE  (due' # 0 => Reached(due')) /\ \A v \in claims' : Reached(v)
<1>1. /\ armed => sched.state = "scheduled"
      /\ due # 0 => Reached(due)
      /\ \A v \in claims : Reached(v)
  BY DEF Inv2, ChainInv
<1>2. CASE Fire
  BY <1>1, <1>2, PendingReached DEF Fire
<1>3. CASE ClaimCheck
  BY <1>1, <1>3 DEF ClaimCheck
<1>4. ASSUME NEW v \in Versions, NEW answered \in BOOLEAN, ClaimDue(v, answered)
      PROVE  due' \in {0, due} /\ claims' \subseteq claims
  BY <1>4 DEF ClaimDue
<1>5. CASE UNCHANGED <<due, claims>>
  BY <1>1, <1>5
<1>6. ASSUME NEW c \in Clients, ClientNext(c)
      PROVE  UNCHANGED <<due, claims>>
  BY <1>6 DEF ClientNext, Submit, ReadRecord, RecoverMutation, RunMutation,
     RunMutationFails, LateCallLands, AwaitArbiter, AwaitTimeout, Retry
<1>7. ASSUME NEW v \in Versions, ArbiterNext(v)
      PROVE  UNCHANGED <<due, claims>>
  BY <1>7 DEF ArbiterNext, Prepare, AttemptAccepted, AttemptRejected,
     AttemptRunIdLost, AttemptAmbiguous, CommitRead, CommitWrite, CommitTimeout,
     LateCommitLands
<1>8. ASSUME NEW t \in Targets \cup {NoTarget}, LateRunLands(t) \/ Activate(t)
      PROVE  UNCHANGED <<due, claims>>
  BY <1>8 DEF LateRunLands, Activate
<1>9. CASE Create \/ ApiStart \/ CleanupDescribe \/ CleanupDelete
  BY <1>5, <1>9 DEF Create, ApiStart, CleanupDescribe, CleanupDelete
<1>10. QED
  BY <1>1, <1>2, <1>3, <1>4, <1>5, <1>6, <1>7, <1>8, <1>9 DEF Next

\* A client may start the arbiter only of a version it has seen pending.
LEMMA CallerStep ==
    ASSUME Inv2, Next, NEW d \in Clients,
           cli'[d].fresh \/ cli'[d].pc = "start" \/ d \in lateCall'
    PROVE  Reached(cli'[d].version)
<1>1. /\ cli \in [Clients -> Requests] /\ cli[d] \in Requests /\ Inv1 /\ ClientOK(d)
      /\ cli[d].fresh \/ cli[d].pc = "start" \/ d \in lateCall => Reached(cli[d].version)
  BY DEF Inv2, Inv1, TypeOK, ClientInv, ChainInv
<1>2. CASE cli'[d] = cli[d] /\ (d \in lateCall' => d \in lateCall)
  BY <1>1, <1>2
<1>3. CASE ClientNext(d)
  <2>1. ASSUME NEW kind \in Mutations, Submit(d, kind)
        PROVE  FALSE
    <3> DEFINE q == [cli[d] EXCEPT !.pc = "sent", !.kind = kind, !.version = Describe.version]
    <3>1. q.pc = "sent" /\ q.fresh = cli[d].fresh
      BY <1>1, RequestFields
    <3>2. cli'[d] = q /\ cli[d].pc = "new" /\ UNCHANGED lateCall
      BY <1>1, <2>1 DEF Submit, SetClient
    <3> HIDE DEF q
    <3>3. QED
      BY <1>1, <3>1, <3>2 DEF ClientOK
  <2>2. ASSUME NEW r, Reply(d, r)
        PROVE  cli'[d].pc = "done" /\ ~cli'[d].fresh /\ cli'[d].version = cli[d].version
    <3> DEFINE q == [cli[d] EXCEPT !.pc = "done", !.fresh = FALSE, !.joined = FALSE,
                                   !.verdicts = @ \cup (Verdicts \cap {r})]
    <3>1. q.pc = "done" /\ q.fresh = FALSE /\ q.version = cli[d].version
      BY <1>1, RequestFields
    <3>2. cli'[d] = q
      BY <1>1, <2>2 DEF Reply, SetClient
    <3> HIDE DEF q
    <3>3. QED
      BY <3>1, <3>2
  <2>3. CASE ReadRecord(d)
    <3>1. CASE \E r : Reply(d, r)
      BY <1>1, <2>2, <2>3, <3>1 DEF ReadRecord
    <3>2. CASE SetClient(d, [cli[d] EXCEPT !.pc = "recover", !.fresh = IsPending(cli[d].version)])
      <4> DEFINE q == [cli[d] EXCEPT !.pc = "recover", !.fresh = IsPending(cli[d].version)]
      <4>1. q.pc = "recover" /\ q.fresh = IsPending(cli[d].version) /\ q.version = cli[d].version
        BY <1>1, RequestFields
      <4>2. cli'[d] = q /\ UNCHANGED lateCall
        BY <1>1, <2>3, <3>2 DEF ReadRecord, SetClient
      <4> HIDE DEF q
      <4>3. CASE IsPending(cli[d].version)
        BY <4>1, <4>2, <4>3, PendingReached DEF IsPending
      <4>4. CASE ~IsPending(cli[d].version)
        BY <1>1, <4>1, <4>2, <4>4
      <4>5. QED
        BY <4>3, <4>4
    <3>3. QED
      BY <2>3, <3>1, <3>2 DEF ReadRecord
  <2>4. CASE RecoverMutation(d)
    <3>1. CASE \E r : Reply(d, r)
      BY <1>1, <2>2, <2>4, <3>1 DEF RecoverMutation
    <3>2. CASE cli[d].fresh /\ SetClient(d, [cli[d] EXCEPT !.pc = "start", !.fresh = FALSE])
      <4>1. cli'[d].version = cli[d].version
        BY <1>1, <3>2, RequestFields DEF SetClient
      <4>2. QED
        BY <1>1, <3>2, <4>1
    <3>3. CASE SetClient(d, [cli[d] EXCEPT !.pc = "await", !.fresh = FALSE])
      <4>1. cli'[d].version = cli[d].version /\ cli'[d].pc = "await" /\ ~cli'[d].fresh
        BY <1>1, <3>3, RequestFields DEF SetClient
      <4>2. QED
        BY <1>1, <2>4, <4>1 DEF RecoverMutation
    <3>4. QED
      BY <2>4, <3>1, <3>2, <3>3 DEF RecoverMutation
  <2>5. CASE RunMutation(d) \/ RunMutationFails(d)
    <3>1. cli[d].pc = "start" /\ Reached(cli[d].version)
      BY <1>1, <2>5 DEF RunMutation, RunMutationFails
    <3>2. CASE \E r : Reply(d, r)
      BY <2>2, <3>1, <3>2
    <3>3. CASE SetClient(d, [cli[d] EXCEPT !.pc = "await"])
      <4>1. cli'[d].version = cli[d].version
        BY <1>1, <3>3, RequestFields DEF SetClient
      <4>2. QED
        BY <3>1, <4>1
    <3>4. CASE SetClient(d, [cli[d] EXCEPT !.pc = "await", !.joined = TRUE])
      <4>1. cli'[d].version = cli[d].version
        BY <1>1, <3>4, RequestFields DEF SetClient
      <4>2. QED
        BY <3>1, <4>1
    <3>5. QED
      BY <2>5, <3>2, <3>3, <3>4 DEF RunMutation, RunMutationFails
  <2>6. CASE LateCallLands(d)
    BY <1>2, <2>6 DEF LateCallLands
  <2>7. CASE AwaitArbiter(d) \/ AwaitTimeout(d)
    BY <1>1, <2>2, <2>7 DEF AwaitArbiter, AwaitTimeout
  <2>8. CASE Retry(d)
    <3>1. /\ cli'[d].version = cli[d].version /\ cli'[d].pc = "sent"
          /\ cli'[d].fresh = cli[d].fresh /\ UNCHANGED lateCall
      BY <1>1, <2>8, RequestFields DEF Retry, SetClient
    <3>2. QED
      BY <1>1, <3>1
  <2>9. QED
    BY <1>3, <2>1, <2>3, <2>4, <2>5, <2>6, <2>7, <2>8 DEF ClientNext
<1>4. QED
  BY <1>1, <1>2, <1>3, OthersUnchanged

\* The second layer is inductive.
LEMMA Inv2Step == Inv2 /\ [Next]_vars => Inv2'
<1> SUFFICES ASSUME Inv2, [Next]_vars PROVE Inv2'
  OBVIOUS
<1>1. Inv1
  BY DEF Inv2
<1>2. Inv1'
  BY <1>1, Inv1Step
<1>3. \A v : Reached(v) => Reached(v)'
  BY <1>1, ReachedStable
<1>4. CASE Next
  <2>1. \A v \in Versions : arb'[v].phase # "none" => Reached(v)
    BY <1>4, OpenersReached DEF Inv2, ChainInv
  <2>2. ChainInv'
    BY <1>3, <1>4, <2>1, ArmedStep, DueStep, CallerStep DEF ChainInv, Reached
  <2>3. QED
    BY <1>2, <2>2, ProvenanceStep, ClientInvStep DEF Inv2
<1>5. CASE UNCHANGED vars
  BY <1>2, <1>5, ProvenanceStep, ClientInvStep DEF Inv2, vars, ChainInv, Reached
<1>6. QED
  BY <1>4, <1>5

-----------------------------------------------------------------------------
(***************************************************************************)
(* What follows for clients.                                               *)
(***************************************************************************)

\* "one outcome owns each version": two requests never both succeed on one
\* version, and one that succeeded is what its version's arbiter decided, for
\* any number of clients, retries, lost calls and late schedule writes.
THEOREM OneOutcome == Spec => []OneOutcomePerVersion
<1>1. Inv2 => OneOutcomePerVersion
  BY DEF Inv2, ClientInv, ClientOK, HasEffect, OneOutcomePerVersion
<1>2. QED
  BY <1>1, Inv2Init, Inv2Step, PTL DEF Spec

-----------------------------------------------------------------------------
(***************************************************************************)
(* Third layer: where the tenant run comes from.                           *)
(***************************************************************************)
Dispatched(a, t) == a.command = "due" /\ a.target = t

RunInv ==
    /\ run.by \in {"due", "lost"} => \E v \in Versions : run.target \in Targets /\ Dispatched(arb[v], run.target)
    /\ \A t \in lateRun : \E v \in Versions : Dispatched(arb[v], t) /\ arb[v].saw_ambiguous
    /\ \A v \in Versions : arb[v].projection.state = "started" =>
                              run.by # "none" /\ arb[v].projection.run = run.target

Inv3 == Inv2 /\ RunInv

\* An arbiter that resolved a target is a due arbiter, and the only one.
LEMMA OneDispatch ==
    ASSUME Inv2, NEW v \in Versions, arb[v].target # NoTarget
    PROVE  /\ arb[v].command = "due" /\ arb[v].phase \notin {"none", "initial"}
           /\ \A w \in Versions \ {v} :
                /\ arb[w].target = NoTarget
                /\ arb[w].phase # "none" => arb[w].command = "reschedule"
                /\ arb[w].projection.state \in {"none", "scheduled"}
<1>1. Shape(v, arb[v])
  BY DEF Inv2, Inv1, Good
<1>2. arb[v].command = "due" /\ arb[v].phase \notin {"none", "initial"}
  BY <1>1, OpenedFields DEF Shape
<1>3. ASSUME NEW w \in Versions, w # v
      PROVE  /\ arb[w].target = NoTarget
             /\ arb[w].phase # "none" => arb[w].command = "reschedule"
             /\ arb[w].projection.state \in {"none", "scheduled"}
  <2>1. Shape(w, arb[w])
    BY DEF Inv2, Inv1, Good
  <2>2. CASE w < v
    <3>1. arb[w].projection.state = "scheduled" /\ arb[w].command = "reschedule"
      BY <1>2, <2>2, EarlierRescheduled
    <3>2. QED
      BY <2>1, <3>1 DEF Shape
  <2>3. CASE v < w
    <3>1. arb[w].phase = "none"
      BY <1>2, <2>3, EarlierRescheduled
    <3>2. QED
      BY <2>1, <3>1, OpenedFields, RecordFields DEF Shape
  <2>4. QED
    BY <1>3, <2>2, <2>3 DEF Versions
<1>4. QED
  BY <1>2, <1>3

\* A step in which an attempt of version v starts the run, told its id or not.
StartedBy(v) ==
    \/ AttemptAccepted(v) /\ run' = [by |-> "due", target |-> arb[v].target]
    \/ AttemptRunIdLost(v) /\ run' = [by |-> "lost", target |-> arb[v].target]

\* The tenant workflow starts at most once: by an attempt of an arbiter that
\* is dispatching, by such an attempt that was given up, or by someone else.
LEMMA RunNext ==
    ASSUME Inv2, [Next]_vars
    PROVE  \/ run' = run
           \/ /\ run.by = "none"
              /\ \/ \E v \in Versions : StartedBy(v)
                 \/ \E t \in lateRun : UNCHANGED arb /\ run' = [by |-> "due", target |-> t]
                 \/ UNCHANGED arb /\ run'.by = "api"
<1>1. CASE UNCHANGED vars
  BY <1>1 DEF vars
<1>2. ASSUME NEW v \in Versions, ArbiterNext(v)
      PROVE  \/ run' = run
             \/ run.by = "none" /\ StartedBy(v)
  BY <1>2 DEF StartedBy, ArbiterNext, Prepare, AttemptAccepted, AttemptRejected, AttemptRunIdLost,
     AttemptAmbiguous, CommitRead, CommitWrite, CommitTimeout, LateCommitLands, StartRun
<1>3. ASSUME NEW t \in Targets, LateRunLands(t)
      PROVE  \/ run' = run
             \/ /\ run.by = "none" /\ t \in lateRun /\ UNCHANGED arb
                /\ run' = [by |-> "due", target |-> t]
  BY <1>3 DEF LateRunLands, StartRun
<1>4. ASSUME NEW c \in Clients, ClientNext(c)
      PROVE  run' = run
  BY <1>4 DEF ClientNext, Submit, ReadRecord, RecoverMutation, RunMutation,
     RunMutationFails, LateCallLands, AwaitArbiter, AwaitTimeout, Retry
<1>5. CASE ApiStart
  <2>1. run.by = "none" /\ UNCHANGED arb /\ run' = [by |-> "api", target |-> active]
    BY <1>5 DEF ApiStart, StartRun
  <2>2. QED
    BY <2>1
<1>6. CASE Create \/ Fire \/ ClaimCheck \/ CleanupDescribe \/ CleanupDelete
  BY <1>6 DEF Create, Fire, ClaimCheck, CleanupDescribe, CleanupDelete
<1>7. ASSUME NEW v \in Versions, NEW answered \in BOOLEAN, ClaimDue(v, answered)
      PROVE  run' = run
  BY <1>7 DEF ClaimDue
<1>8. ASSUME NEW t \in Targets \cup {NoTarget}, Activate(t)
      PROVE  run' = run
  BY <1>8 DEF Activate
<1>9. QED
  BY <1>1, <1>2, <1>3, <1>4, <1>5, <1>6, <1>7, <1>8 DEF Next

\* Start requests are left behind only by an ambiguous attempt.
LEMMA LateRunNext ==
    ASSUME Inv2, [Next]_vars, NEW t \in lateRun'
    PROVE  \/ t \in lateRun
           \/ \E v \in Versions : AttemptAmbiguous(v) /\ t = arb[v].target
<1>1. CASE UNCHANGED vars
  BY <1>1 DEF vars
<1>2. ASSUME NEW v \in Versions, ArbiterNext(v)
      PROVE  t \in lateRun \/ (AttemptAmbiguous(v) /\ t = arb[v].target)
  BY <1>2 DEF ArbiterNext, Prepare, AttemptAccepted, AttemptRejected, AttemptRunIdLost,
     AttemptAmbiguous, CommitRead, CommitWrite, CommitTimeout, LateCommitLands
<1>3. ASSUME NEW c \in Clients, ClientNext(c)
      PROVE  t \in lateRun
  BY <1>3 DEF ClientNext, Submit, ReadRecord, RecoverMutation, RunMutation,
     RunMutationFails, LateCallLands, AwaitArbiter, AwaitTimeout, Retry
<1>4. QED
  BY <1>1, <1>2, <1>3 DEF Next, Create, Fire, ClaimCheck, ClaimDue, LateRunLands,
     ApiStart, Activate, CleanupDescribe, CleanupDelete

\* The projections that SetArbiter, Decide, Close and CountRejection leave.
LEMMA ProjectionSet ==
    ASSUME Inv1, NEW v \in Versions
    PROVE  /\ \A b : SetArbiter(v, b) =>
                arb'[v] = b /\ \A w \in Versions \ {v} : arb'[w] = arb[w]
           /\ \A r : Decide(v, r) => arb'[v].projection = r
           /\ \A p : Close(v, p) => arb'[v].projection = arb[v].projection
           /\ CountRejection(v) => \/ arb'[v].projection = arb[v].projection
                                   \/ arb'[v].projection = fail_scheduled_start(v)
<1>1. arb \in [Versions -> Arbiters] /\ arb[v] \in Arbiters
  BY DEF Inv1, TypeOK
<1>2. ASSUME NEW b, SetArbiter(v, b)
      PROVE  arb'[v] = b /\ \A w \in Versions \ {v} : arb'[w] = arb[w]
  BY <1>1, <1>2 DEF SetArbiter
<1>3. ASSUME NEW r, Decide(v, r) PROVE arb'[v].projection = r
  <2> DEFINE b == [arb[v] EXCEPT !.phase = "terminal", !.projection = r]
  <2>1. arb'[v] = b
    BY <1>2, <1>3 DEF Decide
  <2>2. b.projection = r
    BY <1>1, UpdatedFields
  <2>3. QED
    BY <2>1, <2>2
<1>4. ASSUME NEW p, Close(v, p) PROVE arb'[v].projection = arb[v].projection
  <2> DEFINE b == [arb[v] EXCEPT !.phase = p]
  <2>1. arb'[v] = b
    BY <1>2, <1>4 DEF Close
  <2>2. b.projection = arb[v].projection
    BY <1>1, UpdatedFields
  <2>3. QED
    BY <2>1, <2>2
<1>5. ASSUME CountRejection(v)
      PROVE  \/ arb'[v].projection = arb[v].projection
             \/ arb'[v].projection = fail_scheduled_start(v)
  <2>1. PICK n : \/ SetArbiter(v, [arb[v] EXCEPT !.phase = "terminal", !.rejections = n,
                                                 !.projection = fail_scheduled_start(v)])
                 \/ SetArbiter(v, [arb[v] EXCEPT !.rejections = n])
    BY <1>5 DEF CountRejection
  <2>2. CASE SetArbiter(v, [arb[v] EXCEPT !.rejections = n])
    <3> DEFINE b == [arb[v] EXCEPT !.rejections = n]
    <3>1. arb'[v] = b
      BY <1>2, <2>2
    <3>2. b.projection = arb[v].projection
      BY <1>1, UpdatedFields
    <3>3. QED
      BY <3>1, <3>2
  <2>3. CASE SetArbiter(v, [arb[v] EXCEPT !.phase = "terminal", !.rejections = n,
                                          !.projection = fail_scheduled_start(v)])
    <3> DEFINE b == [arb[v] EXCEPT !.phase = "terminal", !.rejections = n,
                                   !.projection = fail_scheduled_start(v)]
    <3>1. arb'[v] = b
      BY <1>2, <2>3
    <3>2. b.projection = fail_scheduled_start(v)
      BY <1>1, UpdatedFields
    <3>3. QED
      BY <3>1, <3>2
  <2>4. QED
    BY <2>1, <2>2, <2>3
<1>6. QED
  BY <1>2, <1>3, <1>4, <1>5

\* Which arbiter a step may touch.
LEMMA OneArbiterTouched ==
    ASSUME Inv1, NEW v \in Versions, ArbiterNext(v)
    PROVE  \A w \in Versions \ {v} : arb'[w] = arb[w]
<1>1. UNCHANGED arb \/ \E b : SetArbiter(v, b)
  BY DEF ArbiterNext, Prepare, PrepareProjection, AttemptAccepted, AttemptRejected,
     AttemptRunIdLost, AttemptAmbiguous, CommitRead, CommitWrite, CommitTimeout,
     LateCommitLands, CountRejection, Decide, Close
<1>2. QED
  BY <1>1, ProjectionSet

\* An arbiter decides "started" only with the run that exists by then.
LEMMA StartedNext ==
    ASSUME Inv2, Next, NEW w \in Versions, arb[w].projection.state = "none",
           arb'[w].projection.state = "started"
    PROVE  run'.by # "none" /\ arb'[w].projection.run = run'.target
<1>1. Inv1 /\ Shape(w, arb[w]) /\ arb \in [Versions -> Arbiters]
  BY DEF Inv2, Inv1, Good, TypeOK
<1>2. arb'[w].projection # arb[w].projection
  OBVIOUS
<1>3. ASSUME NEW v \in Versions, ArbiterNext(v)
      PROVE  run'.by # "none" /\ arb'[w].projection.run = run'.target
  <2>1. v = w
    BY <1>1, <1>2, <1>3, OneArbiterTouched
  <2>2. ASSUME NEW r, Decide(w, r) PROVE arb'[w].projection = r
    BY <1>1, <2>2, ProjectionSet
  <2>3. CASE Prepare(w)
    <3>1. CASE run.by # "none" /\ Decide(w, complete_scheduled_start(w, run.target))
      <4>1. arb'[w].projection = complete_scheduled_start(w, run.target) /\ run' = run
        BY <2>2, <2>3, <3>1 DEF Prepare
      <4>2. QED
        BY <3>1, <4>1, RecordFields
    <3>2. CASE \E p : Close(w, p)
      BY <1>1, <1>2, <3>2, ProjectionSet
    <3>3. CASE \/ Decide(w, cancel_scheduled_start(w, arb[w].digest))
               \/ Decide(w, reschedule_scheduled_start(w, arb[w].digest))
               \/ Decide(w, fail_scheduled_start(w))
      BY <2>2, <3>3, RecordFields
    <3>4. CASE SetArbiter(w, [arb[w] EXCEPT !.phase = "resolved_due", !.target = active])
      <4>1. arb'[w] = [arb[w] EXCEPT !.phase = "resolved_due", !.target = active]
        BY <1>1, <3>4, ProjectionSet
      <4>2. QED
        BY <1>1, <1>2, <4>1, UpdatedFields
    <3>5. QED
      BY <2>3, <3>1, <3>2, <3>3, <3>4 DEF Prepare, PrepareProjection
  <2>4. CASE AttemptAccepted(w)
    <3>1. arb'[w].projection = complete_scheduled_start(w, run'.target)
      BY <2>2, <2>4 DEF AttemptAccepted
    <3>2. run'.by # "none"
      BY <2>4 DEF AttemptAccepted, StartRun
    <3>3. QED
      BY <3>1, <3>2, RecordFields
  <2>5. CASE AttemptRejected(w) \/ AttemptRunIdLost(w)
    BY <1>1, <1>2, <2>5, ProjectionSet, RecordFields DEF AttemptRejected, AttemptRunIdLost
  <2>6. CASE AttemptAmbiguous(w)
    <3>1. arb'[w] = [arb[w] EXCEPT !.saw_ambiguous = TRUE]
      BY <1>1, <2>6, ProjectionSet DEF AttemptAmbiguous
    <3>2. QED
      BY <1>1, <1>2, <3>1, UpdatedFields
  <2>7. CASE \/ CommitRead(w) \/ CommitTimeout(w) \/ LateCommitLands(w)
             \/ \E answered \in BOOLEAN : CommitWrite(w, answered)
    BY <1>1, <1>2, <2>7, ProjectionSet DEF CommitRead, CommitWrite, CommitTimeout, LateCommitLands
  <2>8. QED
    BY <1>3, <2>1, <2>3, <2>4, <2>5, <2>6, <2>7 DEF ArbiterNext
<1>4. ASSUME NEW v \in Versions, NEW k, NEW d, StartArbiter(v, k, d)
      PROVE  FALSE
  <2> DEFINE b == [NoArbiter EXCEPT !.phase = "initial", !.command = k, !.digest = d]
  <2>1. SetArbiter(v, b)
    BY <1>2, <1>4 DEF StartArbiter
  <2>2. b.projection = NoRecord
    BY OpenedFields
  <2> HIDE DEF b
  <2>3. CASE v = w
    BY <1>1, <2>1, <2>2, <2>3, ProjectionSet, RecordFields
  <2>4. CASE v # w
    BY <1>1, <1>2, <2>1, <2>4, ProjectionSet
  <2>5. QED
    BY <2>3, <2>4
<1>5. ASSUME NEW v \in Versions, NEW answered \in BOOLEAN, ClaimDue(v, answered)
      PROVE  FALSE
  BY <1>4, <1>5 DEF ClaimDue
<1>6. ASSUME NEW c \in Clients, ClientNext(c)
      PROVE  FALSE
  <2>1. cli[c].version \in Versions
    BY <1>1 DEF Inv1, TypeOK, Requests
  <2>2. UNCHANGED arb \/ StartArbiter(cli[c].version, cli[c].kind, c)
    BY <1>6 DEF ClientNext, Submit, ReadRecord, RecoverMutation, RunMutation,
       RunMutationFails, LateCallLands, AwaitArbiter, AwaitTimeout, Retry
  <2>3. QED
    BY <1>2, <1>4, <2>1, <2>2
<1>7. CASE Create \/ Fire \/ ClaimCheck \/ ApiStart \/ CleanupDescribe \/ CleanupDelete
  BY <1>2, <1>7 DEF Create, Fire, ClaimCheck, ApiStart, CleanupDescribe, CleanupDelete
<1>8. ASSUME NEW t \in Targets \cup {NoTarget}, LateRunLands(t) \/ Activate(t)
      PROVE  FALSE
  BY <1>2, <1>8 DEF LateRunLands, Activate
<1>9. QED
  BY <1>3, <1>5, <1>6, <1>7, <1>8 DEF Next

\* The third layer is inductive.
LEMMA Inv3Init == Init => Inv3
<1> SUFFICES ASSUME Init PROVE RunInv
  BY Inv2Init DEF Inv3
<1>1. \A v \in Versions : arb[v].projection.state = "none"
  BY OpenedFields, RecordFields DEF Init
<1>2. QED
  BY <1>1 DEF Init, RunInv, NoRun

LEMMA Inv3Step == Inv3 /\ [Next]_vars => Inv3'
<1> SUFFICES ASSUME Inv3, [Next]_vars PROVE Inv3'
  OBVIOUS
<1>1. Inv2 /\ Inv1 /\ RunInv
  BY DEF Inv3, Inv2
<1>2. Inv2' /\ Inv1'
  BY <1>1, Inv2Step DEF Inv2
<1>3. ASSUME NEW v \in Versions, NEW t \in Targets, Dispatched(arb[v], t)
      PROVE  Dispatched(arb'[v], t) /\ (arb[v].saw_ambiguous => arb'[v].saw_ambiguous)
  <2>1. arb[v].target # NoTarget /\ arb[v].command = "due"
    BY <1>3, ConstantsAssumption DEF Dispatched
  <2>2. arb[v].phase # "none"
    BY <1>1, <2>1, OneDispatch
  <2>3. QED
    BY <1>1, <1>3, <2>1, <2>2, ArbitersKeep DEF Dispatched
<1>4. lateRun \subseteq Targets
  BY <1>1 DEF Inv1, TypeOK
<1>5. run'.by \in {"due", "lost"} => \E v \in Versions : run'.target \in Targets /\ Dispatched(arb'[v], run'.target)
  <2>1. CASE run' = run
    BY <1>1, <1>3, <2>1 DEF RunInv
  <2>2. ASSUME NEW v \in Versions, StartedBy(v)
        PROVE  run'.target \in Targets /\ Dispatched(arb'[v], run'.target)
    <3>1. Shape(v, arb[v]) /\ arb[v].phase = "resolved_due"
      BY <1>1, <2>2 DEF Inv1, Good, StartedBy, AttemptAccepted, AttemptRunIdLost
    <3>2. arb[v].target \in Targets /\ Dispatched(arb[v], arb[v].target)
      BY <3>1 DEF Shape, Dispatched
    <3>3. Dispatched(arb'[v], arb[v].target) /\ run'.target = arb[v].target
      <4>1. run'.target = arb[v].target
        BY <2>2 DEF StartedBy
      <4>2. arb'[v].command = "due" /\ arb'[v].target = arb[v].target
        BY <1>1, <3>1, <3>2, ConstantsAssumption, ArbitersKeep DEF Dispatched
      <4>3. QED
        BY <4>1, <4>2, <3>2 DEF Dispatched
    <3>4. QED
      BY <1>1, <3>2, <3>3, ConstantsAssumption, ArbitersKeep DEF Dispatched
  <2>3. ASSUME NEW t \in lateRun, UNCHANGED arb, run' = [by |-> "due", target |-> t]
        PROVE  \E v \in Versions : run'.target \in Targets /\ Dispatched(arb'[v], run'.target)
    <3>1. PICK v \in Versions : Dispatched(arb[v], t)
      BY <1>1 DEF RunInv
    <3>2. run'.target = t /\ arb' = arb
      BY <2>3
    <3>3. QED
      BY <1>4, <3>1, <3>2 DEF Dispatched
  <2>4. QED
    BY <1>1, <2>1, <2>2, <2>3, RunNext
<1>6. ASSUME NEW t \in lateRun'
      PROVE  \E v \in Versions : Dispatched(arb'[v], t) /\ arb'[v].saw_ambiguous
  <2>1. CASE t \in lateRun
    <3>1. PICK v \in Versions : Dispatched(arb[v], t) /\ arb[v].saw_ambiguous
      BY <1>1, <2>1 DEF RunInv
    <3>2. QED
      BY <1>3, <1>4, <2>1, <3>1 DEF Dispatched
  <2>2. ASSUME NEW v \in Versions, AttemptAmbiguous(v), t = arb[v].target
        PROVE  Dispatched(arb'[v], t) /\ arb'[v].saw_ambiguous
    <3>1. Shape(v, arb[v]) /\ arb[v].phase = "resolved_due" /\ arb[v] \in Arbiters
      BY <1>1, <2>2 DEF Inv1, Good, AttemptAmbiguous
    <3>2. arb[v].command = "due"
      BY <3>1 DEF Shape
    <3>3. arb'[v] = [arb[v] EXCEPT !.saw_ambiguous = TRUE]
      BY <1>1, <2>2, ProjectionSet DEF AttemptAmbiguous
    <3>4. arb'[v].command = "due" /\ arb'[v].target = t /\ arb'[v].saw_ambiguous
      BY <2>2, <3>1, <3>2, <3>3, UpdatedFields
    <3>5. QED
      BY <3>4, <2>2 DEF Dispatched
  <2>3. QED
    BY <1>1, <2>1, <2>2, LateRunNext
<1>7. ASSUME NEW v \in Versions, arb'[v].projection.state = "started"
      PROVE  run'.by # "none" /\ arb'[v].projection.run = run'.target
  <2>1. CASE arb[v].projection.state = "none"
    <3>1. CASE Next
      BY <1>1, <1>7, <2>1, <3>1, StartedNext
    <3>2. CASE UNCHANGED vars
      BY <1>7, <2>1, <3>2 DEF vars
    <3>3. QED
      BY <3>1, <3>2
  <2>2. CASE arb[v].projection.state # "none"
    <3>1. arb'[v].projection = arb[v].projection
      BY <1>1, <2>2, ArbitersKeep
    <3>2. run.by # "none" /\ arb[v].projection.run = run.target
      BY <1>1, <1>7, <3>1 DEF RunInv
    <3>3. run' = run
      BY <1>1, <3>2, RunNext
    <3>4. QED
      BY <3>1, <3>2, <3>3
  <2>3. QED
    BY <2>1, <2>2
<1>8. RunInv'
  BY <1>5, <1>6, <1>7 DEF RunInv, Dispatched
<1>9. QED
  BY <1>2, <1>8 DEF Inv3

-----------------------------------------------------------------------------
(***************************************************************************)
(* What follows for the tenant run.                                        *)
(***************************************************************************)

\* If the scheduled start made, or may still make, the run, then a dispatching
\* arbiter did, and no other arbiter decided anything but a reschedule.
LEMMA RunOrigin ==
    ASSUME Inv3, run.by \in {"due", "lost"} \/ lateRun # {}
    PROVE  \E v \in Versions :
             /\ arb[v].command = "due" /\ arb[v].target \in Targets
             /\ run.by \in {"due", "lost"} => arb[v].target = run.target
             /\ lateRun # {} => arb[v].saw_ambiguous
             /\ \A w \in Versions \ {v} :
                  /\ arb[w].target = NoTarget
                  /\ arb[w].phase # "none" => arb[w].command = "reschedule"
                  /\ arb[w].projection.state \in {"none", "scheduled"}
<1>1. Inv2 /\ RunInv /\ lateRun \subseteq Targets /\ NoTarget \notin Targets
  BY ConstantsAssumption DEF Inv3, Inv2, Inv1, TypeOK
<1>2. ASSUME NEW v \in Versions, arb[v].target \in Targets
      PROVE  \A w \in Versions \ {v} :
                  /\ arb[w].target = NoTarget
                  /\ arb[w].phase # "none" => arb[w].command = "reschedule"
                  /\ arb[w].projection.state \in {"none", "scheduled"}
  BY <1>1, <1>2, OneDispatch
<1>3. CASE lateRun = {}
  BY <1>1, <1>2, <1>3 DEF RunInv, Dispatched
<1>4. CASE lateRun # {}
  <2>1. PICK t \in lateRun : TRUE
    BY <1>4
  <2>2. PICK v \in Versions : Dispatched(arb[v], t) /\ arb[v].saw_ambiguous
    BY <1>1, <2>1 DEF RunInv
  <2>3. arb[v].target \in Targets /\ arb[v].command = "due"
    BY <1>1, <2>1, <2>2 DEF Dispatched
  <2>4. run.by \in {"due", "lost"} => arb[v].target = run.target
    BY <1>1, <1>2, <2>3 DEF RunInv, Dispatched
  <2>5. QED
    BY <1>2, <2>2, <2>3, <2>4
<1>5. QED
  BY <1>3, <1>4

\* "Cancellation before dispatch cancels the scheduled start": once an arbiter
\* decided on a cancellation, no start request of the scheduled start has been
\* or will be made, whatever claims, retries and late calls are under way.
THEOREM CanceledStartsNothing == Spec => []CanceledNeverStarts
<1>1. ASSUME Inv3 PROVE CanceledNeverStarts
  <2>1. SUFFICES ASSUME NEW v \in Versions, arb[v].projection.state = "canceled",
                        run.by \in {"due", "lost"} \/ lateRun # {}
                 PROVE  FALSE
    BY DEF CanceledNeverStarts, StartedHere
  <2>2. Shape(v, arb[v])
    BY <1>1 DEF Inv3, Inv2, Inv1, Good
  <2>3. arb[v].command = "cancel"
    BY <2>1, <2>2 DEF Shape
  <2>4. QED
    BY <1>1, <2>1, <2>3, RunOrigin
<1>2. QED
  BY <1>1, Inv3Init, Inv3Step, PTL DEF Spec

\* A record that says started names the run that exists, whoever started it.
THEOREM StartedIsTheRun == Spec => []StartedNamesTheRun
<1>1. Inv3 => StartedNamesTheRun
  BY DEF Inv3, RunInv, StartedNamesTheRun
<1>2. QED
  BY <1>1, Inv3Init, Inv3Step, PTL DEF Spec

\* Fire-time resolution is pinned: the run uses the definition that the one
\* dispatching version resolved, however often attempts and activations follow.
THEOREM PinnedTarget == Spec => []RunUsesPinnedTarget
<1>1. ASSUME Inv3 PROVE RunUsesPinnedTarget
  BY <1>1, RunOrigin DEF RunUsesPinnedTarget, StartedHere
<1>2. QED
  BY <1>1, Inv3Init, Inv3Step, PTL DEF Spec

(***************************************************************************)
(* A dispatch none of whose attempts was ambiguous has started no run that *)
(* it was told of: what it may have started is a run whose id was lost.    *)
(***************************************************************************)
Unused(v) ==
    /\ arb[v].command = "due" /\ arb[v].phase # "none" /\ ~arb[v].saw_ambiguous
    /\ arb[v].projection.state \in {"none", "failed"}

UnusedInv == \A v \in Versions : Unused(v) => run.by # "due"

Inv4 == Inv3 /\ UnusedInv

LEMMA Inv4Init == Init => Inv4
BY Inv3Init DEF Inv4, UnusedInv, Init, NoRun

LEMMA Inv4Step == Inv4 /\ [Next]_vars => Inv4'
<1> SUFFICES ASSUME Inv4, [Next]_vars, NEW v \in Versions, Unused(v)',
                    run'.by = "due"
             PROVE  FALSE
  BY Inv3Step DEF Inv4, UnusedInv
<1>1. Inv3 /\ Inv2 /\ Inv1 /\ Shape(v, arb[v])
  BY DEF Inv4, Inv3, Inv2, Inv1, Good
<1>2. CASE UNCHANGED vars
  BY <1>2 DEF Inv4, UnusedInv, Unused, vars
<1>3. CASE Next /\ arb[v].phase = "none"
  <2>1. Reached(v) /\ ~ UNCHANGED arb
    BY <1>1, <1>3, OpenersReached DEF Unused
  <2>2. \A w \in Versions : ~AttemptAccepted(w) /\ ~AttemptRunIdLost(w)
    BY <1>1, <1>3, OneArbiterTouched DEF ArbiterNext, AttemptAccepted, AttemptRunIdLost, Unused
  <2>3. run.by = "due"
    BY <1>1, <2>1, <2>2, RunNext DEF StartedBy
  <2>4. PICK w \in Versions : arb[w].command = "due" /\ arb[w].target \in Targets
    BY <1>1, <2>3, RunOrigin
  <2>5. arb[w].phase # "none" /\ Shape(w, arb[w])
    BY <1>1, <2>4, OneDispatch, ConstantsAssumption DEF Inv1, Good
  <2>6. CASE w < v
    BY <2>1, <2>4, <2>5, <2>6 DEF Reached, Shape
  <2>7. CASE v < w
    BY <1>1, <1>3, <2>5, <2>7, EarlierRescheduled, OpenedFields, RecordFields DEF Shape
  <2>8. QED
    BY <1>3, <2>5, <2>6, <2>7 DEF Versions
<1>4. CASE Next /\ arb[v].phase # "none"
  <2>1. arb[v].command = "due" /\ ~arb[v].saw_ambiguous
    BY <1>1, <1>4, ArbitersKeep DEF Unused
  <2>2. arb[v].projection.state \in {"none", "failed"}
    BY <1>1, ArbitersKeep DEF Unused
  <2>3. run.by # "due"
    BY <1>4, <2>1, <2>2 DEF Inv4, UnusedInv, Unused
  <2>4. ASSUME NEW w \in Versions, AttemptAccepted(w)
        PROVE  FALSE
    <3>1. Shape(w, arb[w]) /\ arb[w].phase = "resolved_due"
      BY <1>1, <2>4 DEF Inv1, Good, AttemptAccepted
    <3>2. v = w
      BY <1>1, <1>4, <2>1, <3>1, OneDispatch, ConstantsAssumption DEF Shape
    <3>3. arb'[v].projection = complete_scheduled_start(v, run'.target)
      BY <1>1, <2>4, <3>2, ProjectionSet DEF AttemptAccepted
    <3>4. QED
      BY <3>3, RecordFields DEF Unused
  <2>5. ASSUME NEW t \in lateRun
        PROVE  FALSE
    <3>1. PICK w \in Versions : /\ arb[w].saw_ambiguous
                                /\ \A u \in Versions \ {w} :
                                     arb[u].phase # "none" => arb[u].command = "reschedule"
      BY <1>1, <2>5, RunOrigin
    <3>2. QED
      BY <1>4, <2>1, <3>1
  <2>6. QED
    BY <1>1, <2>3, <2>4, <2>5, RunNext DEF StartedBy
<1>5. QED
  BY <1>2, <1>3, <1>4

\* A scheduled start reported failed has no start request under way and started
\* no run but one whose id its attempt was not told, whatever attempts timed out,
\* were rejected, or were accepted without an answer (starter.py, _resolve_run_id).
THEOREM FailedMissesNoKnownRun == Spec => []FailedMissesOnlyLostRuns
<1>1. ASSUME Inv4 PROVE FailedMissesOnlyLostRuns
  <2>1. SUFFICES ASSUME NEW v \in Versions, arb[v].projection.state = "failed",
                        run.by = "due" \/ lateRun # {}
                 PROVE  FALSE
    BY DEF FailedMissesOnlyLostRuns
  <2>2. Inv3 /\ Shape(v, arb[v])
    BY <1>1 DEF Inv4, Inv3, Inv2, Inv1, Good
  <2>3. arb[v].command = "due" /\ ~arb[v].saw_ambiguous /\ arb[v].phase # "none"
    BY <2>1, <2>2, OpenedFields, RecordFields DEF Shape
  <2>4. run.by # "due"
    BY <1>1, <2>1, <2>3 DEF Inv4, UnusedInv, Unused
  <2>5. lateRun = {}
    BY <2>1, <2>2, <2>3, RunOrigin
  <2>6. QED
    BY <2>1, <2>4, <2>5
<1>2. Inv4 /\ [Next]_vars => Inv4'
  BY Inv4Step
<1>3. QED
  BY <1>1, <1>2, Inv4Init, PTL DEF Spec

-----------------------------------------------------------------------------
(***************************************************************************)
(* Fourth layer, until a schedule update is abandoned: the schedule is in step *)
(* with its arbiters.  An arbiter works on the pending record of its        *)
(* version, and what it decided is pending, written or overtaken.           *)
(***************************************************************************)

\* Before creation nothing refers to the scheduled start.
BeforeCreate ==
    sched.state = "none" =>
        /\ ~armed /\ due = 0 /\ claims = {} /\ lateCommit = {} /\ lateCall = {} /\ ~doomed
        /\ \A v \in Versions : arb[v].phase = "none"
        /\ \A c \in Clients : cli[c].pc = "new"

\* Nothing but creation ends the time before creation.
LEMMA BeforeCreateStep ==
    ASSUME Inv1, BeforeCreate, Next, sched'.state = "none"
    PROVE  BeforeCreate' /\ sched.state = "none" /\ UNCHANGED arb
<1>1. sched.state = "none"
  <2>1. create_scheduled_start_record.state # "none"
    BY RecordFields
  <2>2. [NoRecord EXCEPT !.state = "deleted"].state # "none"
    BY DEF NoRecord, Record
  <2>3. QED
    BY <2>1, <2>2, SchedNext DEF SchedStep
<1>2. /\ ~armed /\ due = 0 /\ claims = {} /\ lateCommit = {} /\ lateCall = {} /\ ~doomed
      /\ \A v \in Versions : arb[v].phase = "none"
      /\ \A c \in Clients : cli[c].pc = "new"
  BY <1>1 DEF BeforeCreate
<1>3. ~Create
  BY RecordFields DEF Create, WriteSchedule
<1>4. ASSUME NEW v \in Versions, ArbiterNext(v) PROVE FALSE
  BY <1>2, <1>4 DEF ArbiterNext, Prepare, AttemptAccepted, AttemptRejected,
     AttemptRunIdLost, AttemptAmbiguous, CommitRead, CommitWrite, CommitTimeout,
     LateCommitLands
<1>5. ASSUME NEW c \in Clients, ClientNext(c) PROVE FALSE
  <2>1. ~ \E kind \in Mutations : Submit(c, kind)
    BY <1>1 DEF Submit, Describe
  <2>2. QED
    BY <1>2, <1>5, <2>1 DEF ClientNext, ReadRecord, RecoverMutation, RunMutation,
       RunMutationFails, LateCallLands, AwaitArbiter, AwaitTimeout, Retry
<1>6. UNCHANGED <<armed, due, claims, lateCommit, lateCall, doomed, arb, cli>>
  BY <1>1, <1>2, <1>3, <1>4, <1>5 DEF Next, Fire, ClaimCheck, ClaimDue, LateRunLands, ApiStart,
     Activate, CleanupDescribe, CleanupDelete, Terminal
<1>7. QED
  BY <1>1, <1>2, <1>6 DEF BeforeCreate

\* Whoever may start the arbiter of version v saw it pending, and then only
\* its arbiter can have moved the record on.
Seen(v) == arb[v].phase # "none" \/ IsPending(v)

\* The record shows the decision of version v, or a later one.
Written(v) ==
    \/ sched.state = "deleted"
    \/ /\ arb[v].projection.state = "scheduled"
       /\ sched.version >= arb[v].projection.version
    \/ sched = arb[v].projection

Kept(v) ==
    /\ arb[v].phase \in {"initial", "resolved_due", "writing"} => IsPending(v)
    /\ arb[v].phase = "applied" => ~IsPending(v)
    /\ arb[v].phase # "stale"
    /\ arb[v].phase = "stalled" => sched.state = "deleted"
    /\ arb[v].projection.state # "none" => IsPending(v) \/ Written(v)

InStep ==
    /\ lateCommit = {}
    /\ doomed => sched.state \in Terminal \cup {"deleted"}
    /\ \A v \in Versions : Kept(v)
    /\ \A v \in claims : Seen(v)
    /\ \A c \in Clients :
         /\ cli[c].pc # "new" => Seen(cli[c].version)
         /\ cli[c].pc = "recover" /\ ~cli[c].fresh => arb[cli[c].version].phase # "none"

\* Only the arbiter of the version a client asked for can carry its request; one
\* that was told conflict has none, or one that recorded a run.
Mine(c) ==
    /\ \A v \in Versions : arb[v].digest = c =>
         cli[c].pc # "new" /\ v = cli[c].version /\ Owns(c)
    /\ "conflict" \in cli[c].verdicts =>
         /\ arb[cli[c].version].phase # "none"
         /\ Owns(c) => arb[cli[c].version].projection.state = "started"

Inv6 == Inv2 /\ BeforeCreate /\ InStep /\ \A c \in Clients : Mine(c)

\* The phase each update of an arbiter leaves, and that the updates of a running
\* arbiter leave its owner alone.
LEMMA PhaseSet ==
    ASSUME Inv1, NEW v \in Versions
    PROVE  /\ \A r : Decide(v, r) => arb'[v].phase = "terminal"
           /\ \A p : Close(v, p) => arb'[v].phase = p /\ arb'[v].projection = arb[v].projection
           /\ CountRejection(v) => arb'[v].phase \in {"terminal", arb[v].phase}
<1>1. arb \in [Versions -> Arbiters] /\ arb[v] \in Arbiters
  BY DEF Inv1, TypeOK
<1>2. \A b : SetArbiter(v, b) => arb'[v] = b
  BY <1>1 DEF SetArbiter
<1>3. ASSUME NEW r, Decide(v, r) PROVE arb'[v].phase = "terminal"
  <2> DEFINE b == [arb[v] EXCEPT !.phase = "terminal", !.projection = r]
  <2>1. b.phase = "terminal"
    BY <1>1, UpdatedFields
  <2>2. arb'[v] = b
    BY <1>2, <1>3 DEF Decide
  <2>3. QED
    BY <2>1, <2>2
<1>4. ASSUME NEW p, Close(v, p) PROVE arb'[v].phase = p /\ arb'[v].projection = arb[v].projection
  <2> DEFINE b == [arb[v] EXCEPT !.phase = p]
  <2>1. b.phase = p /\ b.projection = arb[v].projection
    BY <1>1, UpdatedFields
  <2>2. arb'[v] = b
    BY <1>2, <1>4 DEF Close
  <2>3. QED
    BY <2>1, <2>2
<1>5. ASSUME CountRejection(v) PROVE arb'[v].phase \in {"terminal", arb[v].phase}
  <2>1. PICK n : \/ SetArbiter(v, [arb[v] EXCEPT !.phase = "terminal", !.rejections = n,
                                                 !.projection = fail_scheduled_start(v)])
                 \/ SetArbiter(v, [arb[v] EXCEPT !.rejections = n])
    BY <1>5 DEF CountRejection
  <2>2. [arb[v] EXCEPT !.rejections = n].phase = arb[v].phase
    BY <1>1, UpdatedFields
  <2>3. [arb[v] EXCEPT !.phase = "terminal", !.rejections = n,
                       !.projection = fail_scheduled_start(v)].phase = "terminal"
    BY <1>1, UpdatedFields
  <2>4. QED
    BY <1>2, <2>1, <2>2, <2>3
<1>6. QED
  BY <1>3, <1>4, <1>5

\* The record is created once, written by the arbiter of the version that is
\* pending, and deleted when it is final.
LEMMA RecordMoves ==
    ASSUME Inv6, Next
    PROVE  \/ sched' = sched
           \/ /\ sched = NoRecord /\ sched.state = "none"
              /\ sched' = create_scheduled_start_record /\ UNCHANGED arb
           \/ \E w \in Versions :
                /\ arb[w].phase = "writing" /\ sched' = arb[w].projection
                /\ arb'[w].phase \in {"applied", "terminal"}
           \/ doomed /\ sched'.state = "deleted" /\ UNCHANGED arb
<1>1. Inv1 /\ lateCommit = {}
  BY DEF Inv6, Inv2, InStep
<1>2. ASSUME NEW w \in Versions, ArbiterNext(w), sched' # sched
      PROVE  /\ arb[w].phase = "writing" /\ sched' = arb[w].projection
             /\ arb'[w].phase \in {"applied", "terminal"}
  <2>1. ~LateCommitLands(w)
    BY <1>1 DEF LateCommitLands
  <2>2. PICK answered \in BOOLEAN : CommitWrite(w, answered)
    BY <1>2, <2>1 DEF ArbiterNext, Prepare, AttemptAccepted, AttemptRejected,
       AttemptRunIdLost, AttemptAmbiguous, CommitRead, CommitTimeout
  <2>3. /\ arb[w].phase = "writing" /\ sched' = arb[w].projection
        /\ Close(w, IF answered THEN "applied" ELSE "terminal")
    BY <1>2, <2>2 DEF CommitWrite, WriteSchedule
  <2>4. arb'[w].phase = IF answered THEN "applied" ELSE "terminal"
    BY <1>1, <2>3, PhaseSet
  <2>5. QED
    BY <2>3, <2>4
<1>3. ASSUME NEW c \in Clients, ClientNext(c)
      PROVE  UNCHANGED sched
  BY <1>3 DEF ClientNext, Submit, ReadRecord, RecoverMutation, RunMutation,
     RunMutationFails, LateCallLands, AwaitArbiter, AwaitTimeout, Retry
<1>4. CASE Create
  BY <1>4, RecordFields DEF Create, WriteSchedule
<1>5. CASE CleanupDelete
  <2>1. [NoRecord EXCEPT !.state = "deleted"].state = "deleted"
    BY DEF NoRecord, Record
  <2>2. QED
    BY <1>5, <2>1 DEF CleanupDelete
<1>6. QED
  BY <1>2, <1>3, <1>4, <1>5 DEF Next, Fire, ClaimCheck, ClaimDue,
     LateRunLands, ApiStart, Activate, CleanupDescribe

\* An arbiter that a step leaves alone stays in step with the record.
LEMMA OtherArbiterKept ==
    ASSUME Inv6, Next, NEW v \in Versions, arb'[v] = arb[v]
    PROVE  Kept(v)'
<1>1. Kept(v) /\ Shape(v, arb[v]) /\ BeforeCreate /\ v \in Nat
  BY DEF Inv6, InStep, Inv2, Inv1, Good, Versions
<1>2. CASE sched' = sched
  BY <1>1, <1>2 DEF Kept, IsPending, Written
<1>3. CASE sched.state = "none"
  <2>1. arb[v].phase = "none" /\ arb[v].projection.state = "none"
    BY <1>1, <1>3, OpenedFields, RecordFields DEF BeforeCreate, Shape
  <2>2. QED
    BY <2>1 DEF Kept
<1>4. ASSUME NEW w \in Versions, arb[w].phase = "writing", sched' = arb[w].projection,
             arb'[w].phase \in {"applied", "terminal"}
      PROVE  Kept(v)'
  <2>1. v # w
    BY <1>4
  <2>2. sched.state = "scheduled" /\ sched.version = w /\ w \in Nat
    BY <1>4 DEF Inv6, InStep, Kept, IsPending, Versions
  <2>3. /\ sched'.state = "scheduled" => sched'.version = w + 1
        /\ sched'.state # "scheduled" => sched'.state \in Terminal /\ sched'.version = w
    BY <1>4 DEF Inv6, Inv2, Inv1, Good, Shape
  <2>4. ~IsPending(v)
    BY <2>1, <2>2 DEF IsPending
  <2>5. arb[v].phase \notin {"initial", "resolved_due", "writing", "stale", "stalled"}
    BY <1>1, <2>2, <2>4 DEF Kept
  <2>6. CASE arb[v].projection.state = "none"
    BY <1>1, <2>5, <2>6 DEF Kept, Shape
  <2>7. CASE arb[v].projection.state # "none"
    <3>1. Written(v)
      BY <1>1, <2>4, <2>7 DEF Kept
    <3>2. /\ arb[v].projection.state = "scheduled" /\ arb[v].projection.version = v + 1
          /\ w >= v + 1
      BY <1>1, <2>2, <3>1 DEF Written, Shape, Terminal
    <3>3. ~IsPending(v)' /\ sched'.version >= v + 1
      BY <1>1, <2>2, <2>3, <3>2 DEF IsPending
    <3>4. QED
      BY <2>5, <3>2, <3>3 DEF Kept, Written
  <2>8. QED
    BY <2>6, <2>7
<1>5. CASE doomed /\ sched'.state = "deleted"
  <2>1. ~IsPending(v) /\ ~IsPending(v)'
    BY <1>5 DEF Inv6, InStep, IsPending, Terminal
  <2>2. QED
    BY <1>1, <1>5, <2>1 DEF Kept, Written
<1>6. QED
  BY <1>2, <1>3, <1>4, <1>5, RecordMoves

\* A step of the arbiter workflow keeps it in step: it prepares and dispatches
\* while its version is pending, and reads what it has written.
LEMMA ArbiterKept ==
    ASSUME Inv6, Next, NEW v \in Versions, ArbiterNext(v)
    PROVE  Kept(v)'
<1>1. Inv1 /\ Kept(v) /\ Shape(v, arb[v]) /\ BeforeCreate /\ lateCommit = {} /\ v \in Nat
  BY DEF Inv6, InStep, Inv2, Inv1, Good, Versions
<1>2. Shape(v, arb'[v])
  BY <1>1, Inv1Step DEF Inv1, Good
<1>3. arb[v].projection.state # "none" => arb'[v].projection = arb[v].projection
  BY <1>1, ArbitersKeep
<1>4. ASSUME UNCHANGED sched, IsPending(v), arb'[v].phase \in {"resolved_due", "terminal", "writing"}
      PROVE  Kept(v)'
  BY <1>4 DEF Kept, IsPending
<1>5. CASE Prepare(v)
  <2>1. arb[v].phase = "initial" /\ IsPending(v) /\ PrepareProjection(v) /\ UNCHANGED sched
    BY <1>1, <1>5 DEF Prepare, Kept
  <2>2. CASE \E r : Decide(v, r)
    BY <1>1, <1>4, <2>1, <2>2, PhaseSet
  <2>3. CASE SetArbiter(v, [arb[v] EXCEPT !.phase = "resolved_due", !.target = active])
    <3>1. arb[v] \in Arbiters
      BY <1>1 DEF Inv1, TypeOK
    <3>2. [arb[v] EXCEPT !.phase = "resolved_due", !.target = active].phase = "resolved_due"
      BY <3>1, UpdatedFields
    <3>3. arb'[v] = [arb[v] EXCEPT !.phase = "resolved_due", !.target = active]
      BY <1>1, <2>3, ProjectionSet
    <3>4. arb'[v].phase = "resolved_due"
      BY <3>2, <3>3
    <3>5. QED
      BY <1>4, <2>1, <3>4
  <2>4. QED
    BY <2>1, <2>2, <2>3 DEF PrepareProjection
<1>6. CASE AttemptAccepted(v) \/ AttemptRejected(v) \/ AttemptRunIdLost(v) \/ AttemptAmbiguous(v)
  <2>1. arb[v].phase = "resolved_due" /\ IsPending(v) /\ UNCHANGED sched
    BY <1>1, <1>6 DEF AttemptAccepted, AttemptRejected, AttemptRunIdLost, AttemptAmbiguous, Kept
  <2>2. CASE (\E r : Decide(v, r)) \/ CountRejection(v)
    <3>1. arb'[v].phase \in {"resolved_due", "terminal"}
      BY <1>1, <2>1, <2>2, PhaseSet
    <3>2. QED
      BY <1>4, <2>1, <3>1
  <2>3. CASE SetArbiter(v, [arb[v] EXCEPT !.saw_ambiguous = TRUE])
    <3>1. arb[v] \in Arbiters
      BY <1>1 DEF Inv1, TypeOK
    <3>2. [arb[v] EXCEPT !.saw_ambiguous = TRUE].phase = "resolved_due"
      BY <2>1, <3>1, UpdatedFields
    <3>3. arb'[v] = [arb[v] EXCEPT !.saw_ambiguous = TRUE]
      BY <1>1, <2>3, ProjectionSet
    <3>4. arb'[v].phase = "resolved_due"
      BY <3>2, <3>3
    <3>5. QED
      BY <1>4, <2>1, <3>4
  <2>4. QED
    BY <1>6, <2>2, <2>3 DEF AttemptAccepted, AttemptRejected, AttemptRunIdLost, AttemptAmbiguous
<1>7. CASE CommitRead(v)
  <2>1. /\ arb[v].phase = "terminal" /\ UNCHANGED sched /\ arb[v].projection.state # "none"
        /\ arb'[v].projection = arb[v].projection /\ sched.state # "none"
        /\ IsPending(v) \/ Written(v)
    BY <1>1, <1>3, <1>7 DEF CommitRead, Shape, Kept, BeforeCreate
  <2>2. (IsPending(v)' <=> IsPending(v)) /\ (Written(v)' <=> Written(v))
    BY <2>1 DEF IsPending, Written
  <2>3. CASE NotFound
    <3>1. sched.state = "deleted"
      BY <2>1, <2>3 DEF NotFound
    <3>2. arb'[v].phase = "stalled"
      BY <1>1, <1>7, <2>3, PhaseSet DEF CommitRead
    <3>3. QED
      BY <2>1, <3>1, <3>2 DEF Kept, Written
  <2>4. CASE ~NotFound /\ CommitIsDone(v)
    <3>1. arb'[v].phase = "applied"
      BY <1>1, <1>7, <2>4, PhaseSet DEF CommitRead
    <3>2. sched.version >= v + 1 \/ sched.state \in Terminal
      BY <1>1, <2>1, <2>4 DEF CommitIsDone, Shape
    <3>3. ~IsPending(v)
      BY <1>1, <3>2 DEF IsPending, Terminal
    <3>4. QED
      BY <2>1, <2>2, <3>1, <3>3 DEF Kept
  <2>5. CASE ~NotFound /\ ~CommitIsDone(v)
    <3>1. ~Written(v)
      BY <1>1, <2>1, <2>5 DEF Written, CommitIsDone, Shape, NotFound
    <3>2. IsPending(v) /\ CommitMayWrite(v)
      BY <2>1, <3>1 DEF CommitMayWrite
    <3>3. arb'[v].phase = "writing"
      BY <1>1, <1>7, <2>5, <3>2, PhaseSet DEF CommitRead
    <3>4. QED
      BY <1>4, <2>1, <3>2, <3>3
  <2>6. QED
    BY <2>3, <2>4, <2>5
<1>8. ASSUME NEW answered \in BOOLEAN, CommitWrite(v, answered)
      PROVE  Kept(v)'
  <2>1. /\ arb[v].phase = "writing" /\ IsPending(v) /\ ~NotFound
        /\ arb[v].projection.state # "none"
    BY <1>1, <1>8 DEF CommitWrite, Kept, Shape, IsPending, NotFound
  <2>2. /\ sched' = arb[v].projection
        /\ Close(v, IF answered THEN "applied" ELSE "terminal")
    BY <1>8, <2>1 DEF CommitWrite, WriteSchedule
  <2>3. arb'[v].phase \in {"applied", "terminal"} /\ arb'[v].projection = arb[v].projection
    BY <1>1, <2>2, PhaseSet
  <2>4. Written(v)'
    BY <2>2, <2>3 DEF Written
  <2>5. ~IsPending(v)'
    BY <1>1, <2>1, <2>2 DEF IsPending, Shape, Terminal
  <2>6. QED
    BY <2>3, <2>4, <2>5 DEF Kept
<1>9. CASE CommitTimeout(v)
  <2>1. arb[v].phase = "writing" /\ IsPending(v) /\ UNCHANGED sched /\ Close(v, "terminal")
    BY <1>1, <1>9 DEF CommitTimeout, Kept
  <2>2. arb'[v].phase = "terminal"
    BY <1>1, <2>1, PhaseSet
  <2>3. QED
    BY <1>4, <2>1, <2>2
<1>10. ~LateCommitLands(v)
  BY <1>1 DEF LateCommitLands
<1>11. QED
  BY <1>5, <1>6, <1>7, <1>8, <1>9, <1>10 DEF ArbiterNext

\* An arbiter is opened by a claim, or by the request of one client, that saw its
\* version pending.
LEMMA Openers ==
    ASSUME Inv6, Next, NEW v \in Versions, arb[v].phase = "none", arb'[v].phase # "none"
    PROVE  /\ UNCHANGED sched /\ IsPending(v) /\ arb'[v].phase = "initial"
           /\ \/ arb'[v].digest = NoClient
              \/ \E c \in Clients : /\ v = cli[c].version /\ cli[c].pc # "new"
                                    /\ arb'[v].digest = c /\ arb'[v].command = cli[c].kind
<1>1. /\ arb \in [Versions -> Arbiters] /\ cli \in [Clients -> Requests] /\ Inv1
      /\ \A c \in Clients : cli[c].version \in Versions
  BY DEF Inv6, Inv2, Inv1, TypeOK, Requests
<1>2. ASSUME NEW u \in Versions, NEW b, SetArbiter(u, b)
      PROVE  u = v /\ arb'[v] = b
  BY <1>1, <1>2 DEF SetArbiter
<1>3. ASSUME NEW u \in Versions, NEW k, NEW d, StartArbiter(u, k, d)
      PROVE  /\ u = v /\ arb'[v].phase = "initial"
             /\ arb'[v].command = k /\ arb'[v].digest = d
  <2> DEFINE b == [NoArbiter EXCEPT !.phase = "initial", !.command = k, !.digest = d]
  <2>1. b.phase = "initial" /\ b.command = k /\ b.digest = d
    BY OpenedFields
  <2>2. SetArbiter(u, b)
    BY <1>3 DEF StartArbiter
  <2> HIDE DEF b
  <2>3. QED
    BY <1>2, <2>1, <2>2
<1>4. ~ UNCHANGED arb
  OBVIOUS
<1>5. ASSUME NEW u \in Versions, NEW answered \in BOOLEAN, ClaimDue(u, answered)
      PROVE  /\ UNCHANGED sched /\ IsPending(v) /\ arb'[v].phase = "initial"
             /\ arb'[v].digest = NoClient
  BY <1>3, <1>5 DEF ClaimDue, Inv6, InStep, Seen
<1>6. ASSUME NEW u \in Versions, ArbiterNext(u)
      PROVE  FALSE
  <2>1. arb[u].phase # "none"
    BY <1>4, <1>6 DEF ArbiterNext, Prepare, AttemptAccepted, AttemptRejected,
       AttemptRunIdLost, AttemptAmbiguous, CommitRead, CommitWrite, CommitTimeout,
       LateCommitLands
  <2>2. u = v
    BY <1>1, <1>6, OneArbiterTouched
  <2>3. QED
    BY <2>1, <2>2
<1>7. ASSUME NEW c \in Clients, ClientNext(c)
      PROVE  /\ UNCHANGED sched /\ IsPending(v) /\ arb'[v].phase = "initial"
             /\ v = cli[c].version /\ cli[c].pc # "new"
             /\ arb'[v].digest = c /\ arb'[v].command = cli[c].kind
  <2>1. /\ StartArbiter(cli[c].version, cli[c].kind, c) /\ UNCHANGED sched
        /\ cli[c].pc = "start" \/ c \in lateCall
    BY <1>4, <1>7 DEF ClientNext, Submit, ReadRecord, RecoverMutation, RunMutation,
       RunMutationFails, LateCallLands, AwaitArbiter, AwaitTimeout, Retry
  <2>2. cli[c].pc # "new"
    BY <2>1 DEF Inv6, Inv2, ClientInv, ClientOK
  <2>3. IsPending(v)
    BY <1>1, <1>3, <2>1, <2>2 DEF Inv6, InStep, Seen
  <2>4. QED
    BY <1>1, <1>3, <2>1, <2>2, <2>3
<1>8. CASE Create \/ Fire \/ ClaimCheck \/ ApiStart \/ CleanupDescribe \/ CleanupDelete
  BY <1>4, <1>8 DEF Create, Fire, ClaimCheck, ApiStart, CleanupDescribe, CleanupDelete
<1>9. ASSUME NEW t \in Targets \cup {NoTarget}, LateRunLands(t) \/ Activate(t)
      PROVE  FALSE
  BY <1>4, <1>9 DEF LateRunLands, Activate
<1>10. QED
  BY <1>5, <1>6, <1>7, <1>8, <1>9 DEF Next

\* Whatever steps, every arbiter stays in step with the record.
LEMMA KeptStep ==
    ASSUME Inv6, Next, NEW v \in Versions
    PROVE  Kept(v)'
<1>1. Inv1 /\ Shape(v, arb[v]) /\ Shape(v, arb'[v])
  BY Inv1Step DEF Inv6, Inv2, Inv1, Good
<1>2. CASE arb'[v] = arb[v]
  BY <1>2, OtherArbiterKept
<1>3. CASE arb[v].phase = "none" /\ arb'[v].phase # "none"
  <2>1. UNCHANGED sched /\ IsPending(v) /\ arb'[v].phase = "initial"
    BY <1>3, Openers
  <2>2. arb'[v].projection.state = "none"
    BY <1>1, <2>1, RecordFields DEF Shape
  <2>3. QED
    BY <2>1, <2>2 DEF Kept, IsPending
<1>4. CASE arb[v].phase = "none" /\ arb'[v].phase = "none"
  BY <1>1, <1>2, <1>4 DEF Shape
<1>5. CASE arb[v].phase # "none" /\ arb'[v] # arb[v]
  <2>1. ArbiterNext(v)
    <3>1. ASSUME NEW u \in Versions, ArbiterNext(u) PROVE u = v
      BY <1>1, <1>5, <3>1, OneArbiterTouched
    <3>2. ASSUME NEW u \in Versions, NEW k, NEW d, StartArbiter(u, k, d) PROVE FALSE
      <4>1. arb \in [Versions -> Arbiters]
        BY <1>1 DEF Inv1, TypeOK
      <4>2. QED
        BY <1>5, <3>2, <4>1 DEF StartArbiter, SetArbiter
    <3>3. ASSUME NEW u \in Versions, NEW answered \in BOOLEAN, ClaimDue(u, answered) PROVE FALSE
      BY <3>2, <3>3 DEF ClaimDue
    <3>4. ASSUME NEW c \in Clients, ClientNext(c) PROVE FALSE
      <4>1. cli[c].version \in Versions
        BY <1>1 DEF Inv1, TypeOK, Requests
      <4>2. UNCHANGED arb \/ StartArbiter(cli[c].version, cli[c].kind, c)
        BY <3>4 DEF ClientNext, Submit, ReadRecord, RecoverMutation, RunMutation,
           RunMutationFails, LateCallLands, AwaitArbiter, AwaitTimeout, Retry
      <4>3. QED
        BY <1>5, <3>2, <4>1, <4>2
    <3>5. CASE Create \/ Fire \/ ClaimCheck \/ ApiStart \/ CleanupDescribe \/ CleanupDelete
      BY <1>5, <3>5 DEF Create, Fire, ClaimCheck, ApiStart, CleanupDescribe, CleanupDelete
    <3>6. ASSUME NEW t \in Targets \cup {NoTarget}, LateRunLands(t) \/ Activate(t)
          PROVE  FALSE
      BY <1>5, <3>6 DEF LateRunLands, Activate
    <3>7. QED
      BY <3>1, <3>3, <3>4, <3>5, <3>6 DEF Next
  <2>2. QED
    BY <2>1, ArbiterKept
<1>6. QED
  BY <1>2, <1>3, <1>4, <1>5

\* Who saw a version pending may rely on it: only its arbiter moves the record on.
LEMMA SeenStep ==
    ASSUME Inv6, Next, NEW v \in Versions, Seen(v)
    PROVE  Seen(v)'
<1>1. arb[v].phase # "none" => arb'[v].phase # "none"
  BY ArbitersKeep DEF Inv6, Inv2
<1>2. CASE arb[v].phase = "none"
  <2>1. IsPending(v)
    BY <1>2 DEF Seen
  <2>2. ASSUME NEW w \in Versions, arb[w].phase = "writing" PROVE FALSE
    <3>1. IsPending(w)
      BY <2>2 DEF Inv6, InStep, Kept
    <3>2. QED
      BY <1>2, <2>1, <2>2, <3>1 DEF IsPending
  <2>3. ~doomed /\ sched.state # "none"
    BY <2>1 DEF Inv6, InStep, IsPending, Terminal
  <2>4. sched' = sched
    BY <2>2, <2>3, RecordMoves
  <2>5. QED
    BY <2>1, <2>4 DEF Seen, IsPending
<1>3. QED
  BY <1>1, <1>2 DEF Seen

\* When a request is told conflict: it saw the version taken, its version has another
\* owner, or its arbiter recorded a run.
ToldConflict(c) ==
    \/ cli[c].pc = "recover" /\ ~cli[c].fresh /\ arb[cli[c].version].phase = "none"
    \/ arb[cli[c].version].phase # "none" /\ ~Owns(c)
    \/ /\ cli[c].pc = "await" /\ arb[cli[c].version].phase \in {"applied", "stale"}
       /\ ResultReply(c) = "conflict"

\* How the request of a client may change, apart from its submission.
Goes(c) ==
    /\ cli'[c].pc # "new" /\ cli'[c].version = cli[c].version /\ cli'[c].kind = cli[c].kind
    /\ cli'[c].pc = "recover" /\ ~cli'[c].fresh =>
         \/ cli[c].pc = "recover" /\ ~cli[c].fresh
         \/ ~NotFound /\ ~IsPending(cli[c].version)
    /\ "conflict" \in cli'[c].verdicts =>
         "conflict" \in cli[c].verdicts \/ ToldConflict(c)

Submits(c) ==
    /\ cli[c].pc = "new" /\ cli'[c].pc # "new" /\ cli'[c].pc # "recover"
    /\ cli'[c].verdicts = cli[c].verdicts
    /\ Describe.state = "scheduled" /\ cli'[c].version = Describe.version
    /\ UNCHANGED <<sched, arb>>

LEMMA ClientGoes ==
    ASSUME Inv2, Next, NEW c \in Clients
    PROVE  cli'[c] = cli[c] \/ (cli[c].pc # "new" /\ Goes(c)) \/ Submits(c)
<1>1. /\ cli \in [Clients -> Requests] /\ cli[c] \in Requests /\ Inv1 /\ ClientOK(c)
  BY DEF Inv2, Inv1, TypeOK, ClientInv
<1>2. ASSUME NEW r, Reply(c, r), cli[c].pc # "new", r = "conflict" => ToldConflict(c)
      PROVE  cli[c].pc # "new" /\ Goes(c)
  <2> DEFINE q == [cli[c] EXCEPT !.pc = "done", !.fresh = FALSE, !.joined = FALSE,
                                 !.verdicts = @ \cup (Verdicts \cap {r})]
  <2>1. /\ q.pc = "done" /\ q.version = cli[c].version /\ q.kind = cli[c].kind
        /\ q.verdicts = cli[c].verdicts \cup (Verdicts \cap {r})
    BY <1>1 DEF Requests
  <2>2. cli'[c] = q
    BY <1>1, <1>2 DEF Reply, SetClient
  <2> HIDE DEF q
  <2>3. QED
    BY <1>2, <2>1, <2>2 DEF Goes
<1>3. ASSUME NEW q, SetClient(c, q), cli[c].pc # "new",
             /\ q.pc \notin {"new", "recover"} /\ q.version = cli[c].version
             /\ q.kind = cli[c].kind /\ q.verdicts = cli[c].verdicts
      PROVE  cli[c].pc # "new" /\ Goes(c)
  <2>1. cli'[c] = q
    BY <1>1, <1>3 DEF SetClient
  <2>2. QED
    BY <1>3, <2>1 DEF Goes
<1>4. ASSUME NEW kind \in Mutations, Submit(c, kind)
      PROVE  Submits(c)
  <2> DEFINE q == [cli[c] EXCEPT !.pc = "sent", !.kind = kind, !.version = Describe.version]
  <2>1. /\ q.pc = "sent" /\ q.version = Describe.version /\ q.verdicts = cli[c].verdicts
    BY <1>1, RequestFields
  <2>2. cli'[c] = q /\ cli[c].pc = "new" /\ Describe.state = "scheduled" /\ UNCHANGED <<sched, arb>>
    BY <1>1, <1>4 DEF Submit, SetClient
  <2> HIDE DEF q
  <2>3. QED
    BY <2>1, <2>2 DEF Submits
<1>5. CASE ReadRecord(c)
  <2>1. cli[c].pc = "sent"
    BY <1>5 DEF ReadRecord
  <2>2. CASE Reply(c, "not_found") \/ Reply(c, "success")
    BY <1>2, <2>1, <2>2
  <2>3. CASE ~NotFound /\ SetClient(c, [cli[c] EXCEPT !.pc = "recover",
                                                      !.fresh = IsPending(cli[c].version)])
    <3> DEFINE q == [cli[c] EXCEPT !.pc = "recover", !.fresh = IsPending(cli[c].version)]
    <3>1. /\ q.pc = "recover" /\ q.version = cli[c].version /\ q.kind = cli[c].kind
          /\ q.verdicts = cli[c].verdicts /\ q.fresh = IsPending(cli[c].version)
      BY <1>1, RequestFields
    <3>2. cli'[c] = q
      BY <1>1, <2>3 DEF SetClient
    <3> HIDE DEF q
    <3>3. QED
      BY <2>1, <2>3, <3>1, <3>2 DEF Goes
  <2>4. QED
    BY <1>5, <2>2, <2>3 DEF ReadRecord
<1>6. CASE RecoverMutation(c)
  <2>1. cli[c].pc = "recover"
    BY <1>6 DEF RecoverMutation
  <2>2. CASE SetClient(c, [cli[c] EXCEPT !.pc = "start", !.fresh = FALSE])
    <3> DEFINE q == [cli[c] EXCEPT !.pc = "start", !.fresh = FALSE]
    <3>1. /\ q.pc = "start" /\ q.version = cli[c].version /\ q.kind = cli[c].kind
          /\ q.verdicts = cli[c].verdicts
      BY <1>1, RequestFields
    <3>2. SetClient(c, q)
      BY <2>2
    <3> HIDE DEF q
    <3>3. QED
      BY <1>3, <2>1, <3>1, <3>2
  <2>3. CASE SetClient(c, [cli[c] EXCEPT !.pc = "await", !.fresh = FALSE])
    <3> DEFINE q == [cli[c] EXCEPT !.pc = "await", !.fresh = FALSE]
    <3>1. /\ q.pc = "await" /\ q.version = cli[c].version /\ q.kind = cli[c].kind
          /\ q.verdicts = cli[c].verdicts
      BY <1>1, RequestFields
    <3>2. SetClient(c, q)
      BY <2>3
    <3> HIDE DEF q
    <3>3. QED
      BY <1>3, <2>1, <3>1, <3>2
  <2>4. CASE /\ Reply(c, "conflict")
             /\ \/ arb[cli[c].version].phase = "none" /\ ~cli[c].fresh
                \/ arb[cli[c].version].phase # "none" /\ ~Owns(c)
    BY <1>2, <2>1, <2>4 DEF ToldConflict
  <2>5. CASE Reply(c, "invalid")
    BY <1>2, <2>1, <2>5
  <2>6. QED
    BY <1>6, <2>2, <2>3, <2>4, <2>5 DEF RecoverMutation
<1>7. CASE RunMutation(c)
  <2>1. cli[c].pc = "start"
    BY <1>7 DEF RunMutation
  <2>2. CASE SetClient(c, [cli[c] EXCEPT !.pc = "await"])
    <3> DEFINE q == [cli[c] EXCEPT !.pc = "await"]
    <3>1. /\ q.pc = "await" /\ q.version = cli[c].version /\ q.kind = cli[c].kind
          /\ q.verdicts = cli[c].verdicts
      BY <1>1, RequestFields
    <3>2. SetClient(c, q)
      BY <2>2
    <3> HIDE DEF q
    <3>3. QED
      BY <1>3, <2>1, <3>1, <3>2
  <2>3. CASE SetClient(c, [cli[c] EXCEPT !.pc = "await", !.joined = TRUE])
    <3> DEFINE q == [cli[c] EXCEPT !.pc = "await", !.joined = TRUE]
    <3>1. /\ q.pc = "await" /\ q.version = cli[c].version /\ q.kind = cli[c].kind
          /\ q.verdicts = cli[c].verdicts
      BY <1>1, RequestFields
    <3>2. SetClient(c, q)
      BY <2>3
    <3> HIDE DEF q
    <3>3. QED
      BY <1>3, <2>1, <3>1, <3>2
  <2>4. CASE Reply(c, "conflict") /\ arb[cli[c].version].phase # "none" /\ ~Owns(c)
    BY <1>2, <2>1, <2>4 DEF ToldConflict
  <2>5. QED
    BY <1>7, <2>2, <2>3, <2>4 DEF RunMutation
<1>8. CASE RunMutationFails(c)
  BY <1>2, <1>8 DEF RunMutationFails
<1>9. CASE LateCallLands(c)
  BY <1>9 DEF LateCallLands
<1>10. CASE AwaitArbiter(c)
  BY <1>2, <1>10 DEF AwaitArbiter, ToldConflict
<1>11. CASE AwaitTimeout(c)
  BY <1>2, <1>11 DEF AwaitTimeout
<1>12. CASE Retry(c)
  <2> DEFINE q == [cli[c] EXCEPT !.pc = "sent"]
  <2>1. /\ q.pc = "sent" /\ q.version = cli[c].version /\ q.kind = cli[c].kind
        /\ q.verdicts = cli[c].verdicts
    BY <1>1, RequestFields
  <2>2. SetClient(c, q) /\ cli[c].pc = "done"
    BY <1>12 DEF Retry
  <2> HIDE DEF q
  <2>3. QED
    BY <1>3, <2>1, <2>2
<1>13. CASE ~ClientNext(c)
  BY <1>1, <1>13, OthersUnchanged
<1>14. QED
  BY <1>4, <1>5, <1>6, <1>7, <1>8, <1>9, <1>10, <1>11, <1>12, <1>13 DEF ClientNext

\* A client submits only a version that is pending.
LEMMA SubmittedPending ==
    ASSUME Inv6, Describe.state = "scheduled"
    PROVE  IsPending(Describe.version)
<1>1. sched.state = "scheduled" => sched.version \in Versions
  BY DEF Inv6, Inv2, Inv1, Bounded
<1>2. CASE sched.state = "scheduled"
  <2>1. arb[sched.version].phase \notin {"applied", "stale", "stalled"}
    BY <1>1, <1>2 DEF Inv6, InStep, Kept, IsPending
  <2>2. QED
    BY <1>2, <2>1 DEF Describe, IsPending
<1>3. CASE sched.state # "scheduled"
  BY <1>3 DEF Describe
<1>4. QED
  BY <1>2, <1>3

\* A version that is asked for and not pending any more has its arbiter.
LEMMA ClientsSeen ==
    ASSUME Inv6, Next, NEW c \in Clients, NEW v \in Versions, v = cli'[c].version
    PROVE  /\ cli'[c].pc # "new" => Seen(v)'
           /\ cli'[c].pc = "recover" /\ ~cli'[c].fresh => arb'[v].phase # "none"
<1>1. /\ cli[c].pc # "new" => Seen(cli[c].version)
      /\ cli[c].pc = "recover" /\ ~cli[c].fresh => arb[cli[c].version].phase # "none"
      /\ cli[c].version \in Versions /\ Inv1
  BY DEF Inv6, Inv2, Inv1, TypeOK, Requests, InStep
<1>2. arb[v].phase # "none" => arb'[v].phase # "none"
  BY <1>1, ArbitersKeep
<1>3. CASE cli'[c] = cli[c]
  BY <1>1, <1>2, <1>3, SeenStep
<1>4. CASE cli[c].pc # "new" /\ Goes(c)
  <2>1. v = cli[c].version
    BY <1>4 DEF Goes
  <2>2. Seen(v)'
    BY <1>1, <1>4, <2>1, SeenStep
  <2>3. cli'[c].pc = "recover" /\ ~cli'[c].fresh => arb[v].phase # "none"
    BY <1>1, <1>4, <2>1 DEF Goes, Seen
  <2>4. QED
    BY <1>2, <2>2, <2>3
<1>5. CASE Submits(c)
  <2>1. IsPending(v)
    BY <1>5, SubmittedPending DEF Submits
  <2>2. Seen(v)'
    BY <2>1, SeenStep DEF Seen
  <2>3. QED
    BY <1>5, <2>2 DEF Submits
<1>6. QED
  BY <1>3, <1>4, <1>5, ClientGoes DEF Inv6

\* The rest of the fourth layer: nothing lands late, and cleanup dooms a record
\* that is final, which it stays.
LEMMA RestInStep ==
    ASSUME lateCommit' = {}, Inv6, Next
    PROVE  /\ doomed' => sched'.state \in Terminal \cup {"deleted"}
           /\ \A v \in claims' : v \in claims \/ Seen(v)
<1>1. lateCommit = {} /\ (doomed => sched.state \in Terminal \cup {"deleted"})
  BY DEF Inv6, InStep
<1>2. \A v \in Versions : ArbiterNext(v) => lateCommit' = {} /\ UNCHANGED <<claims, doomed>>
  BY <1>1 DEF ArbiterNext, Prepare, AttemptAccepted, AttemptRejected,
     AttemptRunIdLost, AttemptAmbiguous, CommitRead, CommitWrite, CommitTimeout,
     LateCommitLands
<1>3. \A c \in Clients : ClientNext(c) => UNCHANGED <<lateCommit, claims, doomed>>
  BY DEF ClientNext, Submit, ReadRecord, RecoverMutation, RunMutation,
     RunMutationFails, LateCallLands, AwaitArbiter, AwaitTimeout, Retry
<1>4. lateCommit' = {}
  BY <1>1, <1>2, <1>3 DEF Next, Create, Fire, ClaimCheck, ClaimDue,
     LateRunLands, ApiStart, Activate, CleanupDescribe, CleanupDelete
<1>5. \A v \in claims' : v \in claims \/ Seen(v)
  BY <1>2, <1>3 DEF Next, Create, Fire, ClaimCheck, ClaimDue, Seen,
     LateRunLands, ApiStart, Activate, CleanupDescribe, CleanupDelete
<1>6. doomed' => doomed \/ (sched.state \in Terminal /\ UNCHANGED sched)
  BY <1>2, <1>3 DEF Next, Create, Fire, ClaimCheck, ClaimDue,
     LateRunLands, ApiStart, Activate, CleanupDescribe, CleanupDelete
<1>7. ASSUME doomed PROVE sched'.state \in Terminal \cup {"deleted"}
  <2>1. sched.state \notin {"none", "scheduled"}
    BY <1>1, <1>7 DEF Terminal
  <2>2. \A w \in Versions : arb[w].phase # "writing"
    BY <2>1 DEF Inv6, InStep, Kept, IsPending
  <2>3. QED
    BY <1>1, <1>7, <2>1, <2>2, RecordMoves
<1>8. QED
  BY <1>4, <1>5, <1>6, <1>7

LEMMA InStepStep ==
    ASSUME lateCommit' = {}, Inv6, Next
    PROVE  InStep'
<1>1. \A v \in claims : v \in Versions /\ Seen(v)
  BY DEF Inv6, Inv2, Inv1, TypeOK, InStep
<1>2. \A v \in claims' : v \in Versions
  BY Inv1Step DEF Inv6, Inv2, Inv1, TypeOK
<1>3. \A v \in claims' : Seen(v)'
  BY <1>1, <1>2, RestInStep, SeenStep
<1>4. ASSUME NEW c \in Clients
      PROVE  \E v \in Versions : v = cli'[c].version
  BY Inv1Step DEF Inv6, Inv2, Inv1, TypeOK, Requests
<1>5. ASSUME NEW c \in Clients
      PROVE  /\ cli'[c].pc # "new" => Seen(cli[c].version)'
             /\ cli'[c].pc = "recover" /\ ~cli'[c].fresh => arb'[cli'[c].version].phase # "none"
  <2>1. PICK v \in Versions : v = cli'[c].version
    BY <1>4
  <2>2. /\ cli'[c].pc # "new" => Seen(v)'
        /\ cli'[c].pc = "recover" /\ ~cli'[c].fresh => arb'[v].phase # "none"
    BY <2>1, ClientsSeen
  <2>3. QED
    BY <2>1, <2>2 DEF Seen, IsPending
<1>6. \A v \in Versions : Kept(v)'
  BY KeptStep
<1>7. QED
  BY <1>3, <1>5, <1>6, RestInStep DEF InStep

\* Whose an arbiter is, and what a request that was told conflict came to, last.
LEMMA MineStep ==
    ASSUME Inv6, Next, NEW c \in Clients
    PROVE  Mine(c)'
<1>1. /\ Inv1 /\ Mine(c) /\ cli[c].version \in Versions /\ NoClient \notin Clients
      /\ cli[c].pc = "await" => Owns(c)
  BY ConstantsAssumption DEF Inv6, Inv2, Inv1, TypeOK, Requests, ClientInv, ClientOK
<1>2. \A v \in Versions : Shape(v, arb[v]) /\ Shape(v, arb'[v]) /\ v \in Nat
  BY Inv1Step DEF Inv6, Inv2, Inv1, Good, Versions
<1>3. \A v \in Versions :
         arb[v].phase # "none" => /\ arb'[v].phase # "none"
                                  /\ arb'[v].command = arb[v].command
                                  /\ arb'[v].digest = arb[v].digest
  BY <1>1, ArbitersKeep
<1>4. \A v \in Versions : arb[v].phase = "none" => arb[v].digest # c
  BY <1>1, <1>2, OpenedFields DEF Shape
<1>5. \A v \in Versions : arb'[v].phase = "none" => arb'[v].digest # c
  BY <1>1, <1>2, OpenedFields DEF Shape
<1>6. CASE cli[c].pc # "new" /\ cli'[c].version = cli[c].version /\ cli'[c].kind = cli[c].kind
  <2>1. ASSUME NEW v \in Versions, arb'[v].digest = c
        PROVE  /\ v = cli[c].version
               /\ arb'[v].phase # "none" /\ arb'[v].command = cli[c].kind
    <3>1. CASE arb[v].phase # "none"
      <4>1. arb[v].digest = c
        BY <1>3, <2>1, <3>1
      <4>2. v = cli[c].version /\ Owns(c)
        BY <1>1, <4>1 DEF Mine
      <4>3. QED
        BY <1>3, <3>1, <4>2 DEF Owns
    <3>2. CASE arb[v].phase = "none"
      <4>1. arb'[v].phase # "none"
        BY <1>5, <2>1
      <4>2. PICK d \in Clients : /\ v = cli[d].version
                                 /\ arb'[v].digest = d /\ arb'[v].command = cli[d].kind
        BY <1>1, <2>1, <3>2, <4>1, Openers
      <4>3. d = c
        BY <2>1, <4>2
      <4>4. QED
        BY <4>1, <4>2, <4>3
    <3>3. QED
      BY <3>1, <3>2
  <2>2. Owns(c)' => Owns(c) \/ arb[cli[c].version].phase = "none"
    BY <1>1, <1>3, <1>6 DEF Owns
  <2>3. ASSUME arb[cli[c].version].phase # "none",
               Owns(c) => arb[cli[c].version].projection.state = "started"
        PROVE  /\ arb'[cli[c].version].phase # "none"
               /\ Owns(c)' => arb'[cli[c].version].projection.state = "started"
    <3>1. Owns(c)' => Owns(c)
      BY <2>2, <2>3
    <3>2. Owns(c) => arb'[cli[c].version].projection = arb[cli[c].version].projection
      BY <1>1, <2>3, ArbitersKeep
    <3>3. QED
      BY <1>1, <1>3, <2>3, <3>1, <3>2
  <2>4. ASSUME ToldConflict(c)
        PROVE  /\ arb[cli[c].version].phase # "none"
               /\ Owns(c) => arb[cli[c].version].projection.state = "started"
    <3>1. ~(cli[c].pc = "recover" /\ ~cli[c].fresh /\ arb[cli[c].version].phase = "none")
      BY DEF Inv6, InStep
    <3>2. ~(arb[cli[c].version].phase = "stale")
      BY <1>1 DEF Inv6, InStep, Kept
    <3>3. CASE arb[cli[c].version].phase # "none" /\ ~Owns(c)
      BY <3>3
    <3>4. CASE arb[cli[c].version].phase = "applied" /\ ResultReply(c) = "conflict"
      <4>1. arb[cli[c].version].projection.state = "started"
        BY <3>4 DEF ResultReply
      <4>2. QED
        BY <3>4, <4>1
    <3>5. QED
      BY <2>4, <3>1, <3>2, <3>3, <3>4 DEF ToldConflict
  <2>5. "conflict" \in cli'[c].verdicts =>
           "conflict" \in cli[c].verdicts \/ ToldConflict(c)
    BY <1>6, ClientGoes DEF Inv6, Goes, Submits
  <2>6. "conflict" \in cli[c].verdicts =>
          /\ arb[cli[c].version].phase # "none"
          /\ Owns(c) => arb[cli[c].version].projection.state = "started"
    BY <1>1 DEF Mine
  <2>7. "conflict" \in cli'[c].verdicts =>
          /\ arb'[cli[c].version].phase # "none"
          /\ Owns(c)' => arb'[cli[c].version].projection.state = "started"
    BY <2>3, <2>4, <2>5, <2>6
  <2>8. cli'[c].pc # "new"
    BY <1>6, ClientGoes DEF Inv6, Goes, Submits
  <2>9. \A v \in Versions : arb'[v].digest = c =>
           cli'[c].pc # "new" /\ v = cli'[c].version /\ Owns(c)'
    BY <1>6, <2>1, <2>8 DEF Owns
  <2>10. QED
    BY <1>6, <2>7, <2>9 DEF Mine
<1>7. CASE cli[c].pc = "new"
  <2>1. ASSUME NEW v \in Versions, arb'[v].digest = c
        PROVE  FALSE
    <3>1. CASE arb[v].phase # "none"
      BY <1>1, <1>3, <1>7, <2>1, <3>1 DEF Mine
    <3>2. CASE arb[v].phase = "none"
      <4>1. arb'[v].phase # "none"
        BY <1>5, <2>1
      <4>2. PICK d \in Clients : arb'[v].digest = d /\ cli[d].pc # "new"
        BY <1>1, <2>1, <3>2, <4>1, Openers
      <4>3. QED
        BY <1>7, <2>1, <4>2
    <3>3. QED
      BY <3>1, <3>2
  <2>2. cli[c].verdicts = {}
    BY <1>7 DEF Inv6, Inv2, ClientInv, ClientOK
  <2>3. cli'[c].verdicts = {}
    BY <1>7, <2>2, ClientGoes DEF Inv6, Submits
  <2>4. QED
    BY <2>1, <2>3 DEF Mine
<1>8. cli[c].pc = "new" \/ (cli'[c].version = cli[c].version /\ cli'[c].kind = cli[c].kind)
  BY ClientGoes DEF Inv6, Goes, Submits
<1>9. QED
  BY <1>6, <1>7, <1>8

LEMMA Inv6Init == Init => Inv6
<1> SUFFICES ASSUME Init PROVE Inv6
  OBVIOUS
<1>1. \A v \in Versions : arb[v].phase = "none" /\ arb[v].digest = NoClient
                          /\ arb[v].projection.state = "none"
  BY OpenedFields, RecordFields DEF Init
<1>2. BeforeCreate
  BY <1>1 DEF Init, BeforeCreate, NewRequest
<1>3. InStep
  BY <1>1 DEF Init, InStep, Kept, Seen, NewRequest
<1>4. \A c \in Clients : Mine(c)
  BY <1>1, ConstantsAssumption DEF Init, Mine, NewRequest
<1>5. QED
  BY <1>2, <1>3, <1>4, Inv2Init DEF Inv6

LEMMA Inv6Step ==
    ASSUME lateCommit' = {}, Inv6, [Next]_vars
    PROVE  Inv6'
<1>1. Inv2' /\ Inv1
  BY Inv2Step DEF Inv6, Inv2
<1>2. CASE Next
  <2>1. BeforeCreate'
    BY <1>1, <1>2, BeforeCreateStep DEF Inv6, BeforeCreate
  <2>2. QED
    BY <1>1, <1>2, <2>1, InStepStep, MineStep DEF Inv6
<1>3. CASE UNCHANGED vars
  BY <1>1, <1>3 DEF Inv6, vars, BeforeCreate, InStep, Kept, Seen, Written, IsPending,
                    Mine, Owns
<1>4. QED
  BY <1>2, <1>3

\* An update once abandoned stays possible: nothing limits how many there are.
LEMMA AbandonedStays ==
    ASSUME [Next]_vars, lateCommit' = {}
    PROVE  lateCommit = {}
<1>1. \A v \in Versions : ArbiterNext(v) => lateCommit \subseteq lateCommit'
  BY DEF ArbiterNext, Prepare, AttemptAccepted, AttemptRejected,
     AttemptRunIdLost, AttemptAmbiguous, CommitRead, CommitWrite, CommitTimeout,
     LateCommitLands
<1>2. \A c \in Clients : ClientNext(c) => UNCHANGED lateCommit
  BY DEF ClientNext, Submit, ReadRecord, RecoverMutation, RunMutation,
     RunMutationFails, LateCallLands, AwaitArbiter, AwaitTimeout, Retry
<1>3. lateCommit \subseteq lateCommit'
  BY <1>1, <1>2 DEF Next, Create, Fire, ClaimCheck, ClaimDue, vars,
     LateRunLands, ApiStart, Activate, CleanupDescribe, CleanupDelete
<1>4. QED
  BY <1>3

\* Until an update is abandoned everything holds; what holds in any case holds on.
Inv7 == Inv2 /\ (NoneAbandoned => Inv6)

LEMMA Inv7Init == Init => Inv7
BY Inv2Init, Inv6Init DEF Inv7

LEMMA Inv7Step == Inv7 /\ [Next]_vars => Inv7'
<1> SUFFICES ASSUME Inv7, [Next]_vars PROVE Inv7'
  OBVIOUS
<1>1. Inv2'
  BY Inv2Step DEF Inv7
<1>2. NoneAbandoned' => NoneAbandoned
  BY AbandonedStays DEF NoneAbandoned
<1>3. NoneAbandoned' => Inv6'
  BY <1>2, Inv6Step DEF Inv7, NoneAbandoned
<1>4. QED
  BY <1>1, <1>3 DEF Inv7

\* As long as no schedule update was abandoned on its way, for any number of clients
\* and versions: a request that was told conflict has not taken effect and never will,
\* one that succeeded is never told conflict, and an arbiter gives up only on a record
\* that cleanup removed (reschedule, cancel, commit_arbiter).
THEOREM AnswersStayTrue == Spec => []AnswersAreTrue
<1>1. ASSUME Inv6 PROVE ConflictHasNoEffect
  <2>1. SUFFICES ASSUME NEW c \in Clients, "conflict" \in cli[c].verdicts,
                        NEW v \in Versions, arb[v].projection.digest = c
                 PROVE  FALSE
    BY DEF ConflictHasNoEffect
  <2>2. Shape(v, arb[v]) /\ Mine(c) /\ NoClient \notin Clients
    BY <1>1, ConstantsAssumption DEF Inv6, Inv2, Inv1, Good
  <2>3. arb[v].projection.state \in {"scheduled", "canceled"} /\ arb[v].digest = c
    BY <2>1, <2>2, RecordFields DEF Shape, Terminal
  <2>4. v = cli[c].version /\ Owns(c)
    BY <2>2, <2>3 DEF Mine
  <2>5. QED
    BY <2>1, <2>2, <2>3, <2>4 DEF Mine
<1>2. ASSUME Inv6 PROVE RetryRecoversResult
  <2>1. \A c \in Clients : Succeeded(c) => arb[cli[c].version].projection.digest = c
    BY <1>2 DEF Inv6, Inv2, ClientInv, ClientOK, HasEffect
  <2>2. \A c \in Clients : cli[c].version \in Versions
    BY <1>2 DEF Inv6, Inv2, Inv1, TypeOK, Requests
  <2>3. QED
    BY <1>1, <1>2, <2>1, <2>2 DEF RetryRecoversResult, ConflictHasNoEffect
<1>3. ASSUME Inv6 PROVE ArbiterStallsOnlyAfterCleanup
  BY <1>3 DEF Inv6, InStep, Kept, ArbiterStallsOnlyAfterCleanup
<1>4. Inv7 => AnswersAreTrue
  BY <1>1, <1>2, <1>3 DEF Inv7, AnswersAreTrue
<1>5. QED
  BY <1>4, Inv7Init, Inv7Step, PTL DEF Spec

\* What a description shows: the record, and while it is pending whether a claim
\* has its version.
Shown ==
    /\ sched.state # "scheduled" =>
         Describe = [state |-> sched.state, version |-> sched.version]
    /\ sched.state = "scheduled" =>
         /\ Describe.version = sched.version /\ sched.version \in Versions
         /\ Describe.state = IF /\ arb[sched.version].phase # "none"
                                /\ arb[sched.version].command = "due"
                             THEN "dispatching" ELSE "scheduled"

LEMMA Described == Inv6 => Shown
<1> SUFFICES ASSUME Inv6 PROVE Shown
  OBVIOUS
<1>1. CASE sched.state # "scheduled"
  BY <1>1 DEF Describe, Shown
<1>2. CASE sched.state = "scheduled"
  <2>1. sched.version \in Versions
    BY <1>2 DEF Inv6, Inv2, Inv1, Bounded
  <2>2. arb[sched.version].phase \notin {"applied", "stale", "stalled"}
    BY <1>2, <2>1 DEF Inv6, InStep, Kept, IsPending
  <2>3. QED
    BY <1>2, <2>1, <2>2 DEF Describe, Shown
<1>3. QED
  BY <1>1, <1>2

LEMMA RecordForward ==
    ASSUME Inv6, Next, Shown, Shown'
    PROVE  /\ Describe'.state # "deleted" => Describe'.version >= Describe.version
           /\ Describe.state = "dispatching" =>
                 Describe'.state \in {"dispatching", "started", "failed"}
           /\ Describe.state \in Terminal =>
                 Describe' = Describe \/ Describe'.state = "deleted"
           /\ sched'.state = "deleted" /\ sched.state # "deleted" => sched.state \in Terminal
<1>1. /\ sched.state = "scheduled" => sched.version \in Nat /\ sched.version >= sched.version
      /\ sched.version \in Nat
      /\ doomed => sched.state \in Terminal \cup {"deleted"}
  BY ConstantsAssumption DEF Inv6, Inv2, Inv1, TypeOK, Records, InStep
<1>2. CASE sched' = sched /\ sched.state # "scheduled"
  BY <1>1, <1>2 DEF Shown, Terminal
<1>3. CASE sched' = sched /\ sched.state = "scheduled"
  <2>1. sched.version \in Versions /\ Inv1
    BY <1>3 DEF Shown, Inv6, Inv2
  <2>2. arb[sched.version].phase # "none" => /\ arb'[sched.version].phase # "none"
                                             /\ arb'[sched.version].command = arb[sched.version].command
    BY <2>1, ArbitersKeep
  <2>3. Describe.version = sched.version /\ Describe'.version = sched.version
    BY <1>3 DEF Shown
  <2>4. /\ Describe.state = "dispatching" => Describe'.state = "dispatching"
        /\ Describe.state \in {"dispatching", "scheduled"}
    BY <1>3, <2>2 DEF Shown
  <2>5. QED
    BY <1>1, <1>3, <2>3, <2>4 DEF Terminal
<1>4. CASE sched = NoRecord /\ sched' = create_scheduled_start_record
  <2>1. Describe.version = 0 /\ Describe.state = "none" /\ Describe'.version = 1
        /\ sched'.state = "scheduled"
    BY <1>4, RecordFields DEF Shown
  <2>2. QED
    BY <2>1 DEF Terminal
<1>5. ASSUME NEW w \in Versions, arb[w].phase = "writing", sched' = arb[w].projection
      PROVE  /\ Describe.version = w /\ Describe'.version \in {w, w + 1} /\ sched.state = "scheduled"
             /\ Describe.state \in {"dispatching", "scheduled"}
             /\ Describe.state = "dispatching" => Describe'.state \in {"started", "failed"}
             /\ sched'.state # "deleted"
  <2>1. IsPending(w) /\ Shape(w, arb[w])
    BY <1>5 DEF Inv6, InStep, Kept, Inv2, Inv1, Good
  <2>2. /\ Describe.version = w /\ sched.state = "scheduled"
        /\ Describe.state \in {"dispatching", "scheduled"}
        /\ Describe.state = "dispatching" => arb[w].command = "due"
    BY <2>1 DEF Shown, IsPending
  <2>3. /\ sched'.state \in {"scheduled"} \cup Terminal
        /\ sched'.version \in {w, w + 1}
        /\ arb[w].command = "due" => sched'.state \in {"started", "failed"}
    BY <1>5, <2>1 DEF Shape, Terminal
  <2>4. Describe'.version = sched'.version /\ (sched'.state # "scheduled" => Describe'.state = sched'.state)
    BY DEF Shown
  <2>5. QED
    BY <2>2, <2>3, <2>4 DEF Terminal
<1>6. CASE doomed /\ sched'.state = "deleted"
  <2>1. Describe'.state = "deleted" /\ Describe.state = sched.state
    BY <1>1, <1>6 DEF Shown, Terminal
  <2>2. QED
    BY <1>1, <1>6, <2>1 DEF Terminal
<1>7. CASE \E w \in Versions : arb[w].phase = "writing" /\ sched' = arb[w].projection
  <2>1. PICK w \in Versions : arb[w].phase = "writing" /\ sched' = arb[w].projection
    BY <1>7
  <2>2. /\ Describe.version = w /\ Describe'.version \in {w, w + 1}
        /\ Describe.state \in {"dispatching", "scheduled"}
        /\ Describe.state = "dispatching" => Describe'.state \in {"started", "failed"}
        /\ sched'.state # "deleted" /\ w \in Nat
    BY <1>5, <2>1 DEF Versions
  <2>3. QED
    BY <2>2 DEF Terminal
<1>8. QED
  BY <1>2, <1>3, <1>4, <1>6, <1>7, RecordMoves

\* A request that succeeded is not told conflict, whatever updates land late.
LEMMA SuccessIsKept ==
    ASSUME Inv2, Next, NEW c \in Clients, Succeeded(c)
    PROVE  /\ "conflict" \in cli'[c].verdicts => "conflict" \in cli[c].verdicts
           /\ arb'[cli[c].version].projection = arb[cli[c].version].projection
<1> DEFINE v == cli[c].version
<1>1. HasEffect(c) /\ v \in Versions /\ ClientOK(c) /\ Inv1 /\ c # NoClient
  BY ConstantsAssumption DEF Inv2, ClientInv, ClientOK, Inv1, TypeOK, Requests
<1>2. Shape(v, arb[v])
  BY <1>1 DEF Inv1, Good
<1>3. arb[v].projection.digest = c /\ arb[v].command = cli[c].kind
  BY <1>1 DEF HasEffect
<1>4. arb[v].projection.state \in {"scheduled", "canceled"} /\ arb[v].digest = c
  BY <1>1, <1>2, <1>3 DEF Shape, Terminal
<1>5. arb[v].phase \notin {"none", "stale"} /\ Owns(c)
  <2>1. arb[v].phase \notin {"none", "stale"}
    BY <1>2, <1>4, OpenedFields, RecordFields DEF Shape
  <2>2. QED
    BY <1>3, <1>4, <2>1 DEF Owns
<1>6. ~ToldConflict(c)
  BY <1>4, <1>5 DEF ToldConflict, ResultReply
<1>7. "conflict" \in cli'[c].verdicts => "conflict" \in cli[c].verdicts
  BY <1>1, <1>6, ClientGoes DEF Goes, Submits
<1>8. arb'[v].projection = arb[v].projection
  BY <1>1, <1>4, ArbitersKeep
<1>9. QED
  BY <1>7, <1>8

\* An answer of success is final, whatever schedule updates land late; and as long as
\* none was abandoned on its way, what was read never goes back and cleanup removes only
\* a final record (_run_mutation, _authoritative_description, the cleanup activity).
THEOREM RecordGoesForward == Spec => RecordNeverGoesBack
<1> DEFINE Forward == NoneAbandoned' =>
                        /\ Describe'.state # "deleted" => Describe'.version >= Describe.version
                        /\ Describe.state = "dispatching" =>
                              Describe'.state \in {"dispatching", "started", "failed"}
                        /\ Describe.state \in Terminal =>
                              Describe' = Describe \/ Describe'.state = "deleted"
           OnlyFinal == NoneAbandoned' /\ sched'.state = "deleted" /\ sched.state # "deleted" =>
                            sched.state \in Terminal
           FinalSuccess == \A c \in Clients : Succeeded(c) =>
                        /\ "conflict" \in cli'[c].verdicts => "conflict" \in cli[c].verdicts
                        /\ arb'[cli[c].version].projection = arb[cli[c].version].projection
           WhenSeen == NoneAbandoned => Shown
<1>1. Inv7 /\ WhenSeen /\ WhenSeen' /\ [Next]_vars => [Forward]_vars /\ [OnlyFinal]_vars
  <2> SUFFICES ASSUME Inv7, WhenSeen, WhenSeen', Next, NoneAbandoned' PROVE Forward /\ OnlyFinal
    OBVIOUS
  <2>1. NoneAbandoned
    BY AbandonedStays DEF NoneAbandoned
  <2>2. Inv6 /\ Shown /\ Shown'
    BY <2>1 DEF Inv7
  <2>3. QED
    BY <2>2, RecordForward
<1>2. Inv7 /\ [Next]_vars => [FinalSuccess]_vars
  BY SuccessIsKept DEF Inv7
<1>3. Inv7 => WhenSeen
  BY Described DEF Inv7
<1> HIDE DEF Forward, OnlyFinal, FinalSuccess, WhenSeen
<1>4. Spec => [][Forward]_vars /\ [][OnlyFinal]_vars /\ [][FinalSuccess]_vars
  BY <1>1, <1>2, <1>3, Inv7Init, Inv7Step, PTL DEF Spec
<1>5. QED
  BY <1>4 DEF RecordNeverGoesBack, DescribeNeverGoesBack, CleanupDeletesOnlyTerminal,
              SuccessIsNeverTakenBack, Forward, OnlyFinal, FinalSuccess

-----------------------------------------------------------------------------
(* ScheduledStarts implements ScheduledStartLifecycle: the arbiters of the *)
(* versions, opened by racing claims and clients and projected by commits  *)
(* that may arrive late, behave as one line of versions.                   *)

IsCurrent(v) == Reached(v) /\ arb[v].projection.state # "scheduled"

Inv5 == Inv2 /\ BeforeCreate /\ \E v \in Versions : IsCurrent(v)

\* The current version is well defined.
LEMMA CurrentIs ==
    ASSUME NEW v \in Versions, IsCurrent(v)
    PROVE  CurrentVersion = v
<1>1. \A w \in Versions : IsCurrent(w) => w = v
  BY DEF IsCurrent, Reached, Versions
<1>2. CurrentVersion \in Versions /\ IsCurrent(CurrentVersion)
  BY DEF CurrentVersion, IsCurrent
<1>3. QED
  BY <1>1, <1>2

LEMMA CurrentIsNext ==
    ASSUME NEW v \in Versions, IsCurrent(v)'
    PROVE  CurrentVersion' = v
<1>1. \A w \in Versions : IsCurrent(w)' => w = v
  BY DEF IsCurrent, Reached, Versions
<1>2. CurrentVersion' \in Versions /\ IsCurrent(CurrentVersion)'
  BY DEF CurrentVersion, IsCurrent
<1>3. QED
  BY <1>1, <1>2 DEF IsCurrent, Reached

LEMMA Inv5Init == Init => Inv5
<1> SUFFICES ASSUME Init PROVE Inv5
  OBVIOUS
<1>1. 1 \in Versions /\ \A v \in Versions : arb[v].phase = "none" /\ arb[v].projection.state = "none"
  BY ConstantsAssumption, OpenedFields, RecordFields DEF Init, Versions
<1>2. IsCurrent(1)
  BY <1>1 DEF IsCurrent, Reached, Versions
<1>3. BeforeCreate
  BY <1>1 DEF Init, BeforeCreate, NewRequest
<1>4. QED
  BY <1>1, <1>2, <1>3, Inv2Init DEF Inv5

\* One step of the arbiter of version v, as the lifecycle sees it.
LEMMA ArbiterAsSeen ==
    ASSUME Inv5, Next, NEW v \in Versions, IsCurrent(v)
    PROVE  \/ arb'[v].projection = arb[v].projection
           \/ /\ arb[v].projection.state = "none" /\ arb[v].phase # "none"
              /\ \/ arb'[v].projection.state = "started"
                 \/ arb'[v].projection.state = "canceled" /\ arb[v].command = "cancel"
                 \/ arb'[v].projection.state = "failed" /\ arb[v].command = "due"
                 \/ /\ arb'[v].projection.state = "scheduled" /\ arb[v].command = "reschedule"
                    /\ \A w \in Versions \ {v} : arb'[w] = arb[w]
<1>1. Inv1 /\ Shape(v, arb[v])
  BY DEF Inv5, Inv2, Inv1, Good
<1>2. PICK u \in Versions : ArbStepAt(u)
  BY <1>1, ArbNext
<1>3. CASE u # v
  BY <1>2, <1>3 DEF ArbStepAt
<1>4. CASE arb[v].phase = "none" /\ Opened(v, arb'[v])
  BY <1>1, <1>4, OpenedFields DEF Opened, Shape
<1>5. CASE u = v /\ Moved(v, arb[v], arb'[v])
  <2>1. CASE arb'[v].projection = arb[v].projection
    BY <2>1
  <2>2. CASE arb'[v].projection # arb[v].projection
    <3>1. /\ arb[v].phase \in {"initial", "resolved_due"}
          /\ Outcome(v, arb[v], arb'[v].projection)
      BY <1>5, <2>2 DEF Moved
    <3>2. arb[v].projection.state = "none"
      BY <1>1, <3>1, RecordFields DEF Shape
    <3>3. QED
      BY <1>2, <1>5, <3>1, <3>2, RecordFields DEF Outcome, ArbStepAt
  <2>3. QED
    BY <2>1, <2>2
<1>6. QED
  BY <1>2, <1>3, <1>4, <1>5 DEF ArbStepAt

\* A step changes the current version only by the reschedule that consumes it.
LEMMA CurrentStep ==
    ASSUME Inv5, Next, NEW v \in Versions, IsCurrent(v)
    PROVE  \/ arb'[v].projection.state # "scheduled" /\ IsCurrent(v)'
           \/ /\ arb'[v].projection.state = "scheduled"
              /\ arb[v].phase # "none" /\ arb[v].projection.state = "none"
              /\ arb[v].command = "reschedule"
              /\ v + 1 \in Versions /\ IsCurrent(v + 1)'
              /\ arb'[v + 1].phase = "none" /\ arb'[v + 1].projection.state = "none"
<1>1. Inv1 /\ Inv2 /\ Shape(v, arb[v])
  BY DEF Inv5, Inv2, Inv1, Good
<1>2. Reached(v)'
  BY <1>1, ReachedStable DEF IsCurrent
<1>3. CASE arb'[v].projection.state # "scheduled"
  BY <1>2, <1>3 DEF IsCurrent, Reached
<1>4. CASE arb'[v].projection.state = "scheduled"
  <2>1. /\ arb[v].projection.state = "none" /\ arb[v].phase # "none"
        /\ arb[v].command = "reschedule" /\ \A w \in Versions \ {v} : arb'[w] = arb[w]
    BY <1>4, ArbiterAsSeen DEF IsCurrent
  <2>2. v + 1 \in Versions
    BY <1>1, <2>1, ConstantsAssumption DEF Shape, Versions
  <2>3. arb[v + 1].phase = "none"
    BY <1>1, <2>1, <2>2, EarlierRescheduled DEF Versions
  <2>4. arb'[v + 1].phase = "none" /\ arb'[v + 1].projection.state = "none"
    <3>1. arb'[v + 1] = arb[v + 1]
      BY <2>1, <2>2 DEF Versions
    <3>2. arb[v + 1] = NoArbiter
      BY <1>1, <2>2, <2>3 DEF Inv1, Good, Shape
    <3>3. QED
      BY <2>3, <3>1, <3>2, OpenedFields, RecordFields
  <2>5. Reached(v + 1)'
    BY <1>2, <1>4 DEF Reached, Versions
  <2>6. QED
    BY <1>4, <2>1, <2>2, <2>4, <2>5 DEF IsCurrent
<1>5. QED
  BY <1>3, <1>4

LEMMA Inv5Step == Inv5 /\ [Next]_vars => Inv5'
<1> SUFFICES ASSUME Inv5, [Next]_vars PROVE Inv5'
  OBVIOUS
<1>1. Inv2'
  BY Inv2Step DEF Inv5
<1>2. CASE Next
  <2>1. BeforeCreate'
    BY <1>2, BeforeCreateStep DEF Inv5, Inv2, BeforeCreate
  <2>2. \E v \in Versions : IsCurrent(v)'
    BY <1>2, CurrentStep DEF Inv5
  <2>3. QED
    BY <1>1, <2>1, <2>2 DEF Inv5, IsCurrent, Reached
<1>3. CASE UNCHANGED vars
  BY <1>1, <1>3 DEF Inv5, vars, BeforeCreate, IsCurrent, Reached
<1>4. QED
  BY <1>2, <1>3

-----------------------------------------------------------------------------
\* Every step of the implementation is a step of the lifecycle or none.
LEMMA StepSimulation ==
    ASSUME Inv5, [Next]_vars
    PROVE  [Lifecycle!LifecycleNext]_(Lifecycle!lifecycle)
<1>1. PICK v \in Versions : IsCurrent(v)
  BY DEF Inv5
<1>2. CurrentVersion = v
  BY <1>1, CurrentIs
<1>3. Inv1 /\ Inv2 /\ Shape(v, arb[v]) /\ BeforeCreate
  BY DEF Inv5, Inv2, Inv1, Good
<1>4. CASE UNCHANGED vars
  <2>1. IsCurrent(v)'
    BY <1>1, <1>4 DEF IsCurrent, Reached, vars
  <2>2. CurrentVersion' = v
    BY <2>1, CurrentIsNext
  <2>3. AuthorityOn(CurrentVersion)' = AuthorityOn(CurrentVersion)
    BY <1>2, <1>4, <2>2 DEF AuthorityOn, vars
  <2>4. QED
    BY <1>2, <2>2, <2>3 DEF Lifecycle!lifecycle
<1>5. CASE Next /\ sched.state = "none" /\ sched'.state = "none"
  <2>1. UNCHANGED arb
    BY <1>3, <1>5, BeforeCreateStep
  <2>2. CurrentVersion' = v
    BY <1>1, <2>1, CurrentIsNext DEF IsCurrent, Reached
  <2>3. AuthorityOn(CurrentVersion)' = AuthorityOn(CurrentVersion)
    BY <1>5 DEF AuthorityOn
  <2>4. QED
    BY <1>2, <2>2, <2>3 DEF Lifecycle!lifecycle
<1>6. CASE Next /\ sched.state = "none" /\ sched'.state # "none"
  <2>1. \A w \in Versions : arb[w].phase = "none" /\ arb[w] = NoArbiter
    BY <1>3, <1>6 DEF BeforeCreate, Inv1, Good, Shape
  <2>2. Create
    <3>1. /\ ~armed /\ due = 0 /\ claims = {} /\ lateCommit = {} /\ lateCall = {} /\ ~doomed
          /\ \A c \in Clients : cli[c].pc = "new"
      BY <1>3, <1>6 DEF BeforeCreate
    <3>2. ASSUME NEW w \in Versions, ArbiterNext(w) PROVE FALSE
      BY <2>1, <3>1, <3>2 DEF ArbiterNext, Prepare, AttemptAccepted, AttemptRejected,
         AttemptRunIdLost, AttemptAmbiguous, CommitRead, CommitWrite, CommitTimeout,
         LateCommitLands
    <3>3. ASSUME NEW c \in Clients, ClientNext(c) PROVE UNCHANGED sched
      BY <3>3 DEF ClientNext, Submit, ReadRecord, RecoverMutation, RunMutation,
         RunMutationFails, LateCallLands, AwaitArbiter, AwaitTimeout, Retry
    <3>4. QED
      BY <1>6, <3>1, <3>2, <3>3 DEF Next, Fire, ClaimCheck, ClaimDue, LateRunLands, ApiStart,
         Activate, CleanupDescribe, CleanupDelete
  <2>3. UNCHANGED arb
    BY <2>2 DEF Create
  <2>4. CurrentVersion' = v
    BY <1>1, <2>3, CurrentIsNext DEF IsCurrent, Reached
  <2>5. AuthorityOn(CurrentVersion) = "none"
    BY <1>6 DEF AuthorityOn
  <2>6. AuthorityOn(CurrentVersion)' = "scheduled"
    BY <1>6, <2>1, <2>3, <2>4, OpenedFields, RecordFields DEF AuthorityOn
  <2>7. QED
    BY <1>2, <2>4, <2>5, <2>6 DEF Lifecycle!LifecycleNext, Lifecycle!Accept
<1>7. CASE Next /\ sched.state # "none" /\ arb'[v].projection.state = "scheduled"
  <2>1. /\ arb[v].phase # "none" /\ arb[v].projection.state = "none"
        /\ arb[v].command = "reschedule" /\ v + 1 \in Versions /\ IsCurrent(v + 1)'
        /\ arb'[v + 1].phase = "none" /\ arb'[v + 1].projection.state = "none"
    BY <1>1, <1>7, CurrentStep
  <2>2. CurrentVersion' = v + 1
    BY <2>1, CurrentIsNext
  <2>3. AuthorityOn(CurrentVersion) = "scheduled"
    BY <1>2, <1>7, <2>1 DEF AuthorityOn
  <2>4. sched'.state # "none"
    BY <1>3, <1>7, BeforeCreateStep
  <2>5. AuthorityOn(CurrentVersion)' = "scheduled"
    BY <2>1, <2>2, <2>4 DEF AuthorityOn
  <2>6. QED
    BY <1>2, <2>2, <2>3, <2>5 DEF Lifecycle!LifecycleNext, Lifecycle!Reschedule
<1>8. CASE Next /\ sched.state # "none" /\ arb'[v].projection.state # "scheduled"
  <2>1. CurrentVersion' = v
    BY <1>1, <1>8, CurrentStep, CurrentIsNext
  <2>2. sched'.state # "none"
    BY <1>3, <1>8, BeforeCreateStep
  <2>3. AuthorityOn(CurrentVersion) =
          IF arb[v].projection.state # "none" THEN arb[v].projection.state
          ELSE IF arb[v].phase # "none" /\ arb[v].command = "due" THEN "dispatching"
          ELSE "scheduled"
    BY <1>2, <1>8 DEF AuthorityOn
  <2>4. AuthorityOn(CurrentVersion)' =
          IF arb'[v].projection.state # "none" THEN arb'[v].projection.state
          ELSE IF arb'[v].phase # "none" /\ arb'[v].command = "due" THEN "dispatching"
          ELSE "scheduled"
    BY <2>1, <2>2 DEF AuthorityOn
  <2>5. CASE arb'[v].projection = arb[v].projection
    <3>1. arb[v].phase # "none" => arb'[v].phase # "none" /\ arb'[v].command = arb[v].command
      BY <1>3, <1>8, ArbitersKeep
    <3>2. QED
      BY <1>2, <2>1, <2>3, <2>4, <2>5, <3>1
         DEF Lifecycle!LifecycleNext, Lifecycle!Claim, Lifecycle!lifecycle
  <2>6. CASE arb'[v].projection # arb[v].projection
    <3>1. /\ arb[v].projection.state = "none" /\ arb[v].phase # "none"
          /\ \/ arb'[v].projection.state = "started"
             \/ arb'[v].projection.state = "canceled" /\ arb[v].command = "cancel"
             \/ arb'[v].projection.state = "failed" /\ arb[v].command = "due"
      BY <1>1, <1>8, <2>6, ArbiterAsSeen
    <3>2. QED
      BY <1>2, <2>1, <2>3, <2>4, <3>1 DEF Lifecycle!LifecycleNext, Lifecycle!Start,
         Lifecycle!Cancel, Lifecycle!Fail
  <2>7. QED
    BY <2>5, <2>6
<1>9. QED
  BY <1>4, <1>5, <1>6, <1>7, <1>8

\* The implementation starts where the lifecycle starts.
LEMMA InitSimulation == Init => Lifecycle!LifecycleInit
<1> SUFFICES ASSUME Init PROVE Lifecycle!LifecycleInit
  OBVIOUS
<1>1. /\ 1 \in Versions /\ sched.state = "none"
      /\ \A v \in Versions : arb[v].projection.state = "none"
  BY ConstantsAssumption, OpenedFields, RecordFields DEF Init, Versions
<1>2. IsCurrent(1)
  BY <1>1 DEF IsCurrent, Reached, Versions
<1>3. CurrentVersion = 1 /\ AuthorityOn(CurrentVersion) = "none"
  BY <1>1, <1>2, CurrentIs DEF AuthorityOn
<1>4. QED
  BY <1>3 DEF Lifecycle!LifecycleInit

\* Racing due claims, cancels and reschedules, retried activities, lost calls
\* and late schedule writes together behave as the single-line lifecycle.
THEOREM Refinement == Spec => ImplementsLifecycle
<1>1. Inv5 /\ [Next]_vars => [Lifecycle!LifecycleNext]_(Lifecycle!lifecycle)
  BY StepSimulation
<1>2. QED
  BY <1>1, Inv5Init, Inv5Step, InitSimulation, PTL
     DEF Spec, ImplementsLifecycle, Lifecycle!LifecycleSpec
=============================================================================
