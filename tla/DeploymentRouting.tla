------------------------- MODULE DeploymentRouting -------------------------
(***************************************************************************)
(* Executions are pinned to the worker deployment and the definition they  *)
(* were started with (definitions/routing.py).  Hosts of an old and a new  *)
(* release start executions next to each other, each on the deployment its *)
(* router has active; an operator asks whether a deployment or a           *)
(* definition can be retired, which reads the open executions one by one,  *)
(* in pages that are fetched when they are needed, while executions start, *)
(* continue as new and end.                                                *)
(*                                                                         *)
(* The pages come from Temporal's visibility, which follows the executions *)
(* with a delay.  A run that it shows when the listing begins, and that    *)
(* stays open, is on one of the pages; any other run may be on one or not. *)
(*                                                                         *)
(* What the operator does with the answer is external: an allowed          *)
(* retirement is carried out.  One question is asked in a behaviour.       *)
(***************************************************************************)
EXTENDS Naturals, FiniteSets

CONSTANTS
  Hosts,
  RouterOf,           \* [Hosts -> [active, supports: definitions]]
  Deployments, Definitions,
  ActiveDeployment, ActiveDefinition,   \* of the operator's router and catalog
  Questions,          \* what is assessed: [subject, approved, fixture]
  SchedulePins,       \* choices of what schedules are pinned to
  PinnedAttempts,     \* DEFAULT_PINNED_START_RETRY_ATTEMPTS
  PageSize,           \* runs on a page of list_workflows
  MaxExecutions, MaxRunsOfOne   \* bounds

VARIABLES
  routes,       \* deployments whose route Temporal knows
  scheduled,    \* deployments and definitions a schedule is pinned to
  pin,          \* [Hosts -> the start under way]
  executions,   \* [id, run, definition, deployment, memo, open]
  assessment, retired,
  knownThen     \* history: [retired subject -> executions its assessment could see]

routingVars == <<routes, scheduled, pin, executions, assessment, retired, knownThen>>

Subjects == ({"worker"} \X Deployments) \cup ({"definition"} \X Definitions)

ASSUME RoutingAssumption ==
  /\ \A q \in Questions : q.subject \in Subjects
  /\ "none" \notin Deployments /\ "none" \notin Definitions

NoStart == [pc |-> "idle"]
NoAssessment == [pc |-> "none"]
Assessed == [pc |-> "assessed"]
Needs(e, subject) ==
  IF subject[1] = "worker" THEN e.deployment = subject[2] ELSE e.definition = subject[2]

RoutingIs(registered, pinned) ==
  /\ routes = registered /\ scheduled = pinned
  /\ pin = [h \in Hosts |-> NoStart]
  /\ executions = {} /\ assessment = NoAssessment /\ retired = {}
  /\ knownThen = [s \in Subjects |-> {}]
RoutingInit ==
  \E pinned \in SchedulePins : RoutingIs(Deployments \ {ActiveDeployment}, pinned)

RegisterRoute(d) ==
  /\ d \notin routes /\ <<"worker", d>> \notin retired
  /\ routes' = routes \cup {d}
  /\ UNCHANGED <<scheduled, pin, executions, assessment, retired, knownThen>>

-----------------------------------------------------------------------------
(* WorkerDeploymentRouter.select *)
Select(h, definition) ==
  IF definition \in RouterOf[h].supports THEN {RouterOf[h].active} ELSE {}

BeginStart(h, definition) ==
  /\ pin[h] = NoStart
  /\ pin' = [pin EXCEPT ![h] =
       IF Select(h, definition) = {} THEN [pc |-> "refused"]
       ELSE [pc |-> "starting", definition |-> definition,
             deployment |-> CHOOSE d \in Select(h, definition) : TRUE, attempt |-> 1]]
  /\ UNCHANGED <<routes, scheduled, executions, assessment, retired, knownThen>>

(* execution_memo; an execution of another program, or of before versions, *)
(* has none.                                                               *)
Started(definition, deployment, memo) ==
  executions \cup {[id |-> Cardinality(executions) + 1, run |-> 1, definition |-> definition,
                    deployment |-> deployment, memo |-> memo, open |-> TRUE]}

(* retry_pinned_workflow_start: only the rejection of a version that is    *)
(* not there yet is tried again; any other error may hide a start.         *)
StartPinned(h) ==
  LET s == pin[h] IN
  /\ s.pc = "starting" /\ Cardinality(executions) < MaxExecutions
  /\ \/ /\ s.deployment \in routes
        /\ executions' = Started(s.definition, s.deployment, "ours")
        /\ pin' = [pin EXCEPT ![h] = [pc |-> "started"]]
     \/ /\ s.deployment \notin routes
        /\ pin' = [pin EXCEPT ![h] = IF s.attempt < PinnedAttempts THEN [s EXCEPT !.attempt = @ + 1]
                                     ELSE [pc |-> "failed"]]
        /\ UNCHANGED executions
     \/ /\ executions' \in {executions} \cup
             (IF s.deployment \in routes THEN {Started(s.definition, s.deployment, "ours")} ELSE {})
        /\ pin' = [pin EXCEPT ![h] = [pc |-> "failed"]]
  /\ UNCHANGED <<routes, scheduled, assessment, retired, knownThen>>

OthersStart ==
  /\ Cardinality(executions) < MaxExecutions
  /\ executions' \in {Started("none", "none", memo) : memo \in {"none", "invalid"}}
  /\ UNCHANGED <<routes, scheduled, pin, assessment, retired, knownThen>>

Listing == assessment.pc = "listing"
Open == {e \in executions : e.open}
RunOf(e) == <<e.id, e.run>>
Runs == UNION {{<<e.id, r>> : r \in 1..e.run} : e \in executions}

(* What becomes of the listing when the run of e ends ahead of it. *)
Overtaken(e) ==
  [[assessment EXCEPT !.due = @ \ {RunOf(e)}]
     EXCEPT !.known = IF RunOf(e) \in assessment.due THEN @ \ {e.id} ELSE @]

(* Continue-as-new keeps the memo and the pin. *)
Continue(e) ==
  /\ e \in Open /\ e.run < MaxRunsOfOne
  /\ executions' = (executions \ {e}) \cup {[e EXCEPT !.run = @ + 1]}
  /\ assessment' = IF Listing THEN Overtaken(e) ELSE assessment
  /\ UNCHANGED <<routes, scheduled, pin, retired, knownThen>>

Close(e) ==
  /\ e \in Open
  /\ executions' = (executions \ {e}) \cup {[e EXCEPT !.open = FALSE]}
  /\ assessment' = IF Listing THEN Overtaken(e) ELSE assessment
  /\ UNCHANGED <<routes, scheduled, pin, retired, knownThen>>

-----------------------------------------------------------------------------
(* list_open_execution_dependencies: a page of the list, then a            *)
(* description of each run on it, then the next page.  due are the open    *)
(* runs shown ever since the listing began that no page has had; known are *)
(* the executions of which a page had such a run, or will.                 *)
BeginAssessment(question) ==
  /\ assessment = NoAssessment
  /\ \E shown \in SUBSET Open :
        assessment' =
          [pc |-> "listing", subject |-> question.subject, approved |-> question.approved,
           fixture |-> question.fixture, due |-> {RunOf(e) : e \in shown}, page |-> {},
           found |-> {}, known |-> {e.id : e \in shown}]
  /\ UNCHANGED <<routes, scheduled, pin, executions, retired, knownThen>>

ListOpen(page) ==
  /\ Listing /\ assessment.page = {}
  /\ page # {} /\ Cardinality(page) <= PageSize
  /\ assessment' = [[assessment EXCEPT !.due = @ \ page] EXCEPT !.page = page]
  /\ UNCHANGED <<routes, scheduled, pin, executions, retired, knownThen>>

(* Mutant: a run that has continued as new meanwhile is taken for closed. *)
DependencyOfCurrent(listed) ==
  {e \in executions : e.id = listed[1] /\ e.run = listed[2] /\ e.memo # "none"}

(* The description of the listed run, and _dependency_from_memo: what has  *)
(* no definition in its memo is skipped.                                   *)
Dependency(listed) == {e \in executions : e.id = listed[1] /\ e.memo # "none"}

(* A description that fails ends the assessment. *)
DescribeOpen(listed) ==
  /\ Listing /\ listed \in assessment.page
  /\ \/ assessment' = Assessed
     \/ /\ \A e \in Dependency(listed) : e.memo # "invalid"
        /\ assessment' = [[assessment EXCEPT !.page = @ \ {listed}]
                             EXCEPT !.found = @ \cup {[definition |-> e.definition,
                                                       deployment |-> e.deployment]
                                                      : e \in Dependency(listed)}]
  /\ UNCHANGED <<routes, scheduled, pin, executions, retired, knownThen>>

(* assess_definition_retirement and assess_worker_retirement *)
Blockers(a) ==
  {b \in {"approval_required", "active", "open_executions", "replay_fixture_required",
          "active_schedules"} :
     CASE b = "approval_required" -> ~a.approved
       [] b = "active" -> a.subject \in {<<"worker", ActiveDeployment>>, <<"definition", ActiveDefinition>>}
       [] b = "open_executions" -> \E e \in a.found : Needs(e, a.subject)
       [] b = "replay_fixture_required" -> ~a.fixture
       [] b = "active_schedules" -> a.subject \in scheduled}

Assess ==
  /\ Listing /\ assessment.page = {} /\ assessment.due = {}
  /\ assessment' = Assessed
  /\ IF Blockers(assessment) = {}
     THEN /\ retired' = retired \cup {assessment.subject}
          /\ routes' = routes \ {d \in Deployments : <<"worker", d>> = assessment.subject}
          /\ knownThen' = [knownThen EXCEPT ![assessment.subject] = assessment.known]
     ELSE UNCHANGED <<retired, routes, knownThen>>
  /\ UNCHANGED <<scheduled, pin, executions>>

RoutingNext ==
  \/ \E d \in Deployments : RegisterRoute(d)
  \/ \E h \in Hosts : StartPinned(h) \/ \E d \in Definitions : BeginStart(h, d)
  \/ OthersStart \/ Assess
  \/ \E e \in executions : Continue(e) \/ Close(e)
  \/ \E q \in Questions : BeginAssessment(q)
  \/ \E page \in SUBSET Runs : ListOpen(page)
  \/ \E e \in executions, r \in 1..MaxRunsOfOne : DescribeOpen(<<e.id, r>>)

-----------------------------------------------------------------------------
(* A retirement that was allowed strands no execution that visibility      *)
(* showed when the listing began and that did not continue as new before a *)
(* page had it, also one that did so later: what it can strand was not     *)
(* shown yet, continued ahead of the listing, or was started after it by a *)
(* host whose router still had the old deployment active                   *)
(* (list_open_execution_dependencies, assess_worker_retirement,            *)
(* assess_definition_retirement).                                          *)
RetirementStrandsOnlyLateStarts ==
  \A s \in retired, e \in executions :
    e.open /\ Needs(e, s) => e.id \notin knownThen[s]
=============================================================================
