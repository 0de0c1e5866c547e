---------------------------- MODULE ControlPlane ----------------------------
(***************************************************************************)
(* The control plane's components side by side: the HTTP API, the          *)
(* operations queries, the managed schedules, the definition catalog, the  *)
(* list of scheduled starts, the events of objects and worker deployments. *)
(* They share no state that two of them write, so that a behaviour         *)
(* explores the interleavings inside one component while the others rest   *)
(* in a first state of theirs.                                             *)
(***************************************************************************)
EXTENDS ControlApi, OperationsQuery, ManagedSchedules, DefinitionCatalog, ScheduledStartList,
        ObjectEvents, DeploymentRouting

CONSTANT Components   \* the ones that are explored

ASSUME FirstStatesAssumption ==
  /\ ApiHosts # {} /\ ApiPolicies # {} /\ ScheduleScenarios # {} /\ SchedulePins # {}
  /\ \E m \in Mappings : MappingAccepted(m)

VARIABLE component

controlPlaneVars == <<component, apiVars, queryVars, scheduleVars, catalogVars, listVars,
                      objectVars, routingVars>>

Rests(choice) == CHOOSE c \in choice : TRUE

(* A refused retirement ends the behaviour. *)
Refused == assessment.pc = "assessed" /\ retired = {}

-----------------------------------------------------------------------------
Init ==
  /\ component \in Components
  /\ IF component = "api" THEN ApiInit ELSE ApiIs(Rests(ApiHosts), Rests(ApiPolicies))
  /\ QueriesInit
  /\ IF component = "schedules" THEN SchedulesInit ELSE SchedulesAre(Rests(ScheduleScenarios))
  /\ IF component = "definitions" THEN CatalogInit ELSE CatalogIs("local")
  /\ IF component = "list" THEN ListInit ELSE ListIs([i \in ListIds |-> "none"])
  /\ IF component = "objects" THEN ObjectsInit
     ELSE ObjectsAre(Rests({m \in Mappings : MappingAccepted(m)}))
  /\ IF component = "routing" THEN RoutingInit
     ELSE RoutingIs(Deployments \ {ActiveDeployment}, Rests(SchedulePins))

Next ==
  \/ /\ component = "api" /\ ApiNext
     /\ UNCHANGED <<component, queryVars, scheduleVars, catalogVars, listVars, objectVars, routingVars>>
  \/ /\ component = "queries" /\ QueriesNext
     /\ UNCHANGED <<component, apiVars, scheduleVars, catalogVars, listVars, objectVars, routingVars>>
  \/ /\ component = "schedules" /\ SchedulesNext
     /\ UNCHANGED <<component, apiVars, queryVars, catalogVars, listVars, objectVars, routingVars>>
  \/ /\ component = "definitions" /\ CatalogNext
     /\ UNCHANGED <<component, apiVars, queryVars, scheduleVars, listVars, objectVars, routingVars>>
  \/ /\ component = "list" /\ ListNext
     /\ UNCHANGED <<component, apiVars, queryVars, scheduleVars, catalogVars, objectVars, routingVars>>
  \/ /\ component = "objects" /\ ObjectsNext
     /\ UNCHANGED <<component, apiVars, queryVars, scheduleVars, catalogVars, listVars, routingVars>>
  \/ /\ component = "routing" /\ ~Refused /\ RoutingNext
     /\ UNCHANGED <<component, apiVars, queryVars, scheduleVars, catalogVars, listVars, objectVars>>

Spec == Init /\ [][Next]_controlPlaneVars

-----------------------------------------------------------------------------
\* The provider had allowed whatever was done or shown, in the scope it was done in, although
\* the policy changes at any time: ControlApi.
AccessIsAuthorized ==
  /\ EffectWasAuthorized
  /\ OnlyOwnExecutionsAreShown

\* What was accepted exists once, what was refused did nothing unless the call is one that may
\* be refused after its effect (RefusedLate), and a cancelled request neither leaks a slot nor
\* frees one that is still in use: ControlApi, run_blocking.
RequestsHaveOneEffect ==
  /\ AcceptedExistsOnce
  /\ RefusalHasNoEffect
  /\ BlockingIsBounded

\* A walk through the pages of a list that changes meanwhile misses nothing but what was
\* removed, or is told to begin again: OperationsQuery, ScheduledStartList.
ListsAreComplete ==
  /\ WorkflowPagesAreOneList
  /\ NoDefinitionIsMissed
  /\ EveryChildIsShown
  /\ WalkMissesOnlyForRemoved

\* An occurrence starts one run of a target that is retained, an apply without failures has
\* converged, a backfill keeps its bound: ManagedSchedules. And a workflow is not started by
\* the objects it writes: ObjectEvents.
TriggersAreSafe ==
  /\ TargetIsRetained
  /\ OneRunPerOccurrence
  /\ AppliedMeansConverged
  /\ BackfillIsBounded
  /\ OwnWritesStartNothing

\* Every alias names a complete manifest, no load misses one, no alias document is overwritten
\* unseen, and retirement strands no execution that was shown when its listing began and did
\* not continue as new ahead of it: DefinitionCatalog, DeploymentRouting.
DefinitionsAreAvailable ==
  /\ AliasesResolve
  /\ LoadFindsEveryDefinition
  /\ NoLostAliases
  /\ RetirementStrandsOnlyLateStarts

\* Schedules of others are never changed, a repeated reconciliation does not lift a pause, and
\* an import changes no alias that is there: ManagedSchedules, DefinitionCatalog.
OthersAreLeftAlone ==
  /\ OnlyManagedAreChanged
  /\ PauseOutlivesRepeats
  /\ ImportKeepsAliases
=============================================================================
