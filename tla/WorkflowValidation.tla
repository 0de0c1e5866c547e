-------------------------- MODULE WorkflowValidation --------------------------
(***************************************************************************)
(* Validation of a configuration before it is published: the phases of     *)
(* ConfigValidator (config/validator.py), the rules of one workflow        *)
(* (config/_workflow_validation.py), what a JSON Schema says of a path     *)
(* (engine/contracts.py), and the manifests made of an accepted            *)
(* configuration (definitions/manifest.py).  What the rules promise is     *)
(* stated against how the engine resolves a reference (engine/references,  *)
(* engine/data, _store_output of engine/runner).                           *)
(*                                                                         *)
(* A name is a string, an absent one None.  A path is a sequence of        *)
(* tokens; those in Indexes are numeric.  The analysis of the graph of a   *)
(* flow, which validation runs last, is module FlowAnalysis.               *)
(***************************************************************************)
EXTENDS FiniteSets, FiniteSetsExt, Naturals, SequencesExt, TLC

CONSTANTS
  Bundles,         \* the configurations to validate
  Probes,          \* [schema, path]: questions to inspect_schema_path
  Values,          \* JSON values
  MaxDiagnostics,
  Limits           \* [iterations, concurrency]

VARIABLES
  bundle, probe,   \* what is examined; the other one is empty
  phase,
  diagnostics,     \* what ValidationResult holds, oldest first
  overflowed,
  raised,          \* some rule reported an error
  manifests        \* [workflow -> manifest], or Unbuildable

validationVars == <<bundle, probe, phase, diagnostics, overflowed, raised, manifests>>

None == "none"
NoRef == [root |-> None, path |-> <<>>]
NoManifests == [kind |-> "none"]
Unbuildable == [kind |-> "error"]
NoBundle == [kind |-> "none"]
NoProbe == [kind |-> "none"]
InputRoot == "input"
ReservedDataRoots == {"error", "input", "request_id"}
Indexes == {"0", "1"}
Phases == <<"resources", "services", "workflows", "triggers", "reachability", "cycles">>

Elements(s) == {s[i] : i \in DOMAIN s}
Duplicates(s) == {x \in Elements(s) : Cardinality({i \in DOMAIN s : s[i] = x}) > 1}

-----------------------------------------------------------------------------
(* Schemas: what _inspect_schema_node can tell of a path *)

NoSchema == [kind |-> "none"]
AnyValue == [kind |-> "any"]
Never == [kind |-> "never"]
RootSchema == [kind |-> "ref"]   \* {"$ref": "#"}
\* alts are the alternatives of anyOf or oneOf; an absent part is NoSchema.
Node(types, props, additional, items, alts) ==
  [kind |-> "node", types |-> types, props |-> props, additional |-> additional,
   items |-> items, alts |-> alts]

Verdict(exists, known, types) == [exists |-> exists, known |-> known, types |-> types]
Unknown == Verdict("unknown", FALSE, {})
Refused == Verdict("no", FALSE, {})

\* _schema_value_types: the declared types, or the one the keywords imply.
ImpliedTypes(node) ==
  IF node.types # {} THEN node.types
  ELSE IF DOMAIN node.props # {} \/ node.additional # NoSchema THEN {"object"}
  ELSE IF node.items # NoSchema THEN {"array"}
  ELSE {}

\* Mutant: one alternative that refuses the path refuses it for all.
CombineAny(results) ==
  IF \E r \in results : r.exists = "no" THEN Refused
  ELSE IF \E r \in results : r.exists = "unknown" THEN Unknown
  ELSE Verdict("yes", \A r \in results : r.known, UNION {r.types : r \in results})

\* _combine_schema_results: refused only where every alternative refuses.
Combine(results) ==
  LET existing == {r \in results : r.exists = "yes"} IN
  IF \A r \in results : r.exists = "no" THEN Refused
  ELSE IF \E r \in results : r.exists = "unknown" THEN Unknown
  ELSE Verdict("yes", \A r \in existing : r.known,
               IF \A r \in existing : r.known THEN UNION {r.types : r \in existing} ELSE {})

RECURSIVE InspectNode(_, _, _, _)
InspectNode(root, node, tokens, followed) ==
  CASE node.kind = "never" -> Refused
    [] node.kind = "any"   -> IF tokens = <<>> THEN Verdict("yes", FALSE, {}) ELSE Unknown
    [] node.kind = "none"  -> Unknown
    [] node.kind = "ref"   -> IF followed THEN Unknown ELSE InspectNode(root, root, tokens, TRUE)
    [] node.kind = "node" /\ node.alts # <<>> ->
         Combine({InspectNode(root, node.alts[i], tokens, followed) : i \in DOMAIN node.alts})
    [] node.kind = "node" /\ node.alts = <<>> ->
         LET types == ImpliedTypes(node)
             named == DOMAIN node.props # {} IN
         IF tokens = <<>> THEN Verdict("yes", types # {}, types)
         ELSE LET token == Head(tokens) rest == Tail(tokens) IN
              IF types # {} /\ types \cap {"object", "array"} = {} THEN Refused
              ELSE IF named \/ "object" \in types
                   THEN IF token \in Indexes THEN Refused
                        ELSE IF token \in DOMAIN node.props
                             THEN InspectNode(root, node.props[token], rest, followed)
                        ELSE IF node.additional # NoSchema
                             THEN InspectNode(root, node.additional, rest, followed)
                        ELSE IF named THEN Refused ELSE Unknown
              ELSE IF "array" \in types \/ node.items # NoSchema
                   THEN IF token \notin Indexes THEN Refused
                        ELSE InspectNode(root, node.items, rest, followed)
              ELSE Unknown

InspectSchemaPath(schema, path) == InspectNode(schema, schema, path, FALSE)

\* The reference definition: which values a schema accepts, where a path leads.
RECURSIVE Accepts(_, _, _)
Accepts(root, node, value) ==
  CASE node.kind \in {"any", "none"} -> TRUE
    [] node.kind = "never" -> FALSE
    [] node.kind = "ref"   -> Accepts(root, root, value)
    [] node.kind = "node"  ->
         /\ node.types = {} \/ value.type \in node.types
         /\ node.alts # <<>> => \E i \in DOMAIN node.alts : Accepts(root, node.alts[i], value)
         /\ value.type = "object" =>
              \A name \in DOMAIN value.fields :
                Accepts(root, IF name \in DOMAIN node.props THEN node.props[name]
                              ELSE node.additional, value.fields[name])
         /\ value.type = "array" =>
              \A i \in DOMAIN value.items : Accepts(root, node.items, value.items[i])

\* resolve_json_path, for tokens "0" and "1" of an array.
Index(token) == IF token = "0" THEN 1 ELSE 2
RECURSIVE Leads(_, _)
Leads(value, path) ==
  \/ path = <<>>
  \/ /\ path # <<>>
     /\ \/ /\ value.type = "object" /\ Head(path) \in DOMAIN value.fields
           /\ Leads(value.fields[Head(path)], Tail(path))
        \/ /\ value.type = "array" /\ Head(path) \in Indexes
           /\ Index(Head(path)) \in DOMAIN value.items
           /\ Leads(value.items[Index(Head(path))], Tail(path))
RECURSIVE At(_, _)
At(value, path) ==
  IF path = <<>> THEN value
  ELSE IF value.type = "object" THEN At(value.fields[Head(path)], Tail(path))
  ELSE At(value.items[Index(Head(path))], Tail(path))

\* _store_output: under the step's name, and under its alias.
StoreOutput(step, result, outputs) ==
  LET key == IF step.output = None THEN step.name ELSE step.output
      held == IF step.name \in DOMAIN outputs /\ outputs[step.name].type = "object"
              THEN outputs[step.name].fields ELSE <<>>
  IN  (key :> result) @@ (step.name :> [type |-> "object", fields |-> (key :> result) @@ held])
        @@ outputs
\* What the outputs hold once every step has run, if `step` returned value.
StoredOutputs(wf, step, value) ==
  FoldLeft(LAMBDA outputs, s :
             IF s.terminal THEN outputs
             ELSE StoreOutput(s, IF s.name = step.name THEN value ELSE [type |-> "null"], outputs),
           <<>>, wf.flow)
\* resolve_reference: an output hides a parameter of the same name.
Resolves(outputs, params, ref) ==
  \/ ref.root \in DOMAIN outputs /\ Leads(outputs[ref.root], ref.path)
  \/ /\ ref.root \notin DOMAIN outputs /\ ref.root \in DOMAIN params
     /\ Leads(params[ref.root], ref.path)

-----------------------------------------------------------------------------
(* The rules of one workflow.  A report is [rule, at], of some workflow.   *)

Report(rule, at) == [rule |-> rule, at |-> at, of |-> None]
Reports(rule, subjects) == {Report(rule, x) : x \in subjects}
When(test, rule, at) == IF test THEN {Report(rule, at)} ELSE {}
Within(workflow, reports) == {[r EXCEPT !.of = workflow] : r \in reports}

Steps(wf) == Elements(wf.flow)
Active(wf) == {s \in Steps(wf) : ~s.terminal}
StepNames(wf) == {s.name : s \in Steps(wf)}
Aliases(wf) == {s.output : s \in Steps(wf)} \ {None}
HandlesErrors(wf) == wf.onError # None \/ \E s \in Steps(wf) : s.onFailure # None
Namespaces(wf) == StepNames(wf) \cup Aliases(wf) \cup wf.params
                    \cup (IF HandlesErrors(wf) THEN {"error"} ELSE {})

\* Mutant: an alias may have the name of its own step.
ReservedAliasesLessSteps(wf) == ReservedDataRoots \cup wf.params
ReservedAliases(wf) == ReservedDataRoots \cup wf.params \cup StepNames(wf)

NamespaceErrors(wf) ==
  Reports("duplicate_step", Duplicates([i \in DOMAIN wf.flow |-> wf.flow[i].name]))
    \cup Reports("reserved_param", ReservedDataRoots \cap wf.params)
    \cup Reports("reserved_step", ReservedDataRoots \cap StepNames(wf))
    \cup Reports("reserved_as", {s.as : s \in Steps(wf)} \cap ReservedDataRoots)
    \cup Reports("alias_collides", Aliases(wf) \cap ReservedAliases(wf))
    \cup Reports("alias_producers",
                 {a \in Aliases(wf) : Cardinality({s \in Steps(wf) : s.output = a}) > 1})
    \cup Reports("alias_step", {s.output : s \in {t \in Active(wf) : t.output # t.name}} \cap StepNames(wf))
    \cup When(wf.onError \notin StepNames(wf) \cup {None}, "on_error_target", wf.onError)

InputSchema(wf, s) == IF s.op \in DOMAIN wf.steps THEN wf.steps[s.op].in ELSE NoSchema
OutputSchema(wf, s) == IF s.op \in DOMAIN wf.steps THEN wf.steps[s.op].out ELSE NoSchema

\* _inspect_workflow_components: a step's name stands for an object with its
\* output under the alias, an alias for the output, a parameter for a field of
\* the input.
WrapperOf(wf, s) ==
  Node({"object"},
       (IF s.output = None THEN s.name ELSE s.output) :>
         (IF OutputSchema(wf, s) = NoSchema THEN AnyValue ELSE OutputSchema(wf, s)),
       Never, NoSchema, <<>>)
ProducersOf(wf, root) ==
  {s \in Active(wf) : (IF s.output = None THEN s.name ELSE s.output) = root}
InspectReference(wf, ref) ==
  IF ref.root \in StepNames(wf)
  THEN LET s == CHOOSE t \in Steps(wf) : t.name = ref.root IN
       IF s.forEach # NoRef /\ Len(ref.path) > 1 THEN Unknown
       ELSE InspectSchemaPath(WrapperOf(wf, s), ref.path)
  ELSE LET producers == ProducersOf(wf, ref.root)
           sole == IF Cardinality(producers) = 1 THEN {s \in producers : s.op # None} ELSE {} IN
       IF \E s \in sole : s.forEach # NoRef /\ ref.path # <<>> THEN Unknown
       ELSE IF \E s \in sole : OutputSchema(wf, s) # NoSchema
            THEN InspectSchemaPath(OutputSchema(wf, CHOOSE s \in sole : TRUE), ref.path)
       ELSE IF ref.root \in wf.params /\ wf.input # NoSchema
            THEN InspectSchemaPath(wf.input, <<ref.root>> \o ref.path)
       ELSE IF ref.root = "request_id"
            THEN InspectSchemaPath(Node({"string"}, <<>>, NoSchema, NoSchema, <<>>), ref.path)
       ELSE Unknown
InspectDeclared(schema, path) ==
  IF schema = NoSchema THEN Unknown ELSE InspectSchemaPath(schema, path)

PathErrors(verdict, at) == When(verdict.exists = "no", "schema_path", at)
TypeErrors(verdict, allowed, at) ==
  When(verdict.known /\ verdict.types \cap allowed = {}, "schema_type", at)
Collections == {"array", "object"}
Deadlines == {"integer", "number", "string"}

ContractErrors(wf) ==
  When(wf.contract = "bad", "contract", "workflow")
    \cup Reports("contract", {op \in DOMAIN wf.steps : wf.steps[op].contract = "bad"})
    \cup Reports("placeholder", wf.globals \ (wf.params \cup {"request_id"}))

ResultErrors(wf) ==
  IF wf.result = NoRef THEN {}
  ELSE IF wf.result.root \notin Namespaces(wf) THEN {Report("reference", wf.result.root)}
  ELSE PathErrors(InspectReference(wf, wf.result), "result")

Lacks(b, name, capability) ==
  /\ name \in DOMAIN b.resources /\ b.resources[name].resolves
  /\ capability \notin b.resources[name].offers

CompletionErrors(b, wf) ==
  IF wf.complete.resource = None THEN {}
  ELSE When(wf.complete.resource \notin DOMAIN b.resources, "resource", wf.complete.resource)
         \cup When(Lacks(b, wf.complete.resource, "archive"), "capability", wf.complete.resource)
         \cup When(wf.complete.large, "audit_limit", wf.complete.resource)

TargetErrors(b, wf, op) ==
  LET target == wf.steps[op].target IN
  IF target.kind = "workflow" THEN When(target.name \notin DOMAIN b.workflows, "child", target.name)
  ELSE IF target.name \notin DOMAIN b.services THEN {Report("service", target.name)}
  ELSE When(b.services[target.name].resolves /\ target.action \notin b.services[target.name].actions,
            "action", target.action)

ResourceErrors(b, wf, op) ==
  LET def == wf.steps[op] IN
  Reports("resource", Elements(def.required) \ DOMAIN b.resources)
    \cup Reports("duplicate_grant", Duplicates(def.required))
    \cup When(def.cache \notin DOMAIN b.resources \cup {None}, "resource", def.cache)
    \cup When(def.cache # None /\ Lacks(b, def.cache, "cache"), "capability", def.cache)

LimitErrors(s) ==
  When(s.iterations > Limits.iterations, "iterations", s.name)
    \cup When(s.concurrency > Limits.concurrency, "concurrency", s.name)

OperationErrors(wf, s) ==
  IF s.op = None THEN {}
  ELSE IF s.op \notin DOMAIN wf.steps THEN {Report("operation", s.op)}
  ELSE When((s.forEach # NoRef \/ s.iterations > 0) /\ wf.steps[s.op].cache # None,
            "cache_in_loop", s.name)

JumpTargets(s) ==
  ({s.then, s.onFailure, s.onExhausted, s.onTimeout}
     \cup {s.branches[i].target : i \in DOMAIN s.branches}) \ {None}

TargetsMissing(wf, s) == Reports("target", JumpTargets(s) \ StepNames(wf))

DeadlineErrors(wf, s) ==
  IF s.deadline = NoRef THEN {}
  ELSE IF s.deadline.root \notin Namespaces(wf) THEN {Report("reference", s.deadline.root)}
  ELSE LET verdict == InspectReference(wf, s.deadline) IN
       PathErrors(verdict, s.name) \cup TypeErrors(verdict, Deadlines, s.name)

\* inputs, for_each and the conditions: the roots, then the paths.
RootErrors(wf, s) ==
  Reports("reference",
    ({r.root : r \in s.inputs} \ Namespaces(wf))
      \cup ({s.forEach.root} \ (Namespaces(wf) \cup {None, InputRoot}))
      \cup ({r.root : r \in s.inConditions \cup s.outConditions} \ (Namespaces(wf) \cup {InputRoot})))
    \cup When(s.forEach.root = InputRoot /\ s.inputs = {}, "no_input", s.name)

ConditionErrors(wf, conditions, schema, at) ==
  UNION { PathErrors(IF r.root = InputRoot THEN InspectDeclared(schema, r.path)
                     ELSE InspectReference(wf, r), at) : r \in {c \in conditions : ~c.optional} }
SchemaErrors(wf, s) ==
  LET each == IF s.forEach.root = InputRoot THEN InspectDeclared(InputSchema(wf, s), s.forEach.path)
              ELSE InspectReference(wf, s.forEach) IN
  UNION { PathErrors(InspectReference(wf, r), s.name) : r \in s.inputs }
    \cup (IF s.forEach = NoRef THEN {}
          ELSE PathErrors(each, s.name) \cup TypeErrors(each, Collections, s.name))
    \cup ConditionErrors(wf, s.inConditions, InputSchema(wf, s), s.name)
    \cup ConditionErrors(wf, s.outConditions, OutputSchema(wf, s), s.name)

BranchErrors(b, s) ==
  When(Duplicates([i \in DOMAIN s.branches |-> s.branches[i].when]) \ {None} # {},
       "duplicate_branch", s.name)
    \cup UNION { LET branch == s.branches[i] IN
                 When(~branch.imports, "evaluator", s.name)
                   \cup Reports("duplicate_grant", Duplicates(branch.resources))
                   \cup Reports("resource", Elements(branch.resources) \ DOMAIN b.resources)
                 : i \in DOMAIN s.branches }

FlowStepErrors(b, wf, s) ==
  LimitErrors(s) \cup OperationErrors(wf, s) \cup TargetsMissing(wf, s) \cup DeadlineErrors(wf, s)
    \cup RootErrors(wf, s) \cup SchemaErrors(wf, s) \cup BranchErrors(b, s)

WorkflowErrors(b, name) ==
  LET wf == b.workflows[name] IN
  NamespaceErrors(wf) \cup ContractErrors(wf) \cup ResultErrors(wf) \cup CompletionErrors(b, wf)
    \cup UNION { TargetErrors(b, wf, op) \cup ResourceErrors(b, wf, op) : op \in DOMAIN wf.steps }
    \cup UNION { FlowStepErrors(b, wf, s) : s \in Active(wf) }
UnusedOperations(wf) == DOMAIN wf.steps \ {s.op : s \in Steps(wf)}

-----------------------------------------------------------------------------
(* The phases of ConfigValidator.validate *)

Children(b, name) ==
  {b.workflows[name].steps[op].target.name : op \in
     {o \in DOMAIN b.workflows[name].steps : b.workflows[name].steps[o].target.kind = "workflow"}}
KnownChildren(b, name) == Children(b, name) \cap DOMAIN b.workflows

\* _check_composition_cycles: a depth-first search from every workflow that is
\* still white; an edge to a gray one closes a cycle.
RECURSIVE GrayEdge(_, _, _)
GrayEdge(b, name, gray) ==
  \E child \in KnownChildren(b, name) :
    child \in gray \cup {name} \/ GrayEdge(b, child, gray \cup {name})
\* Mutant: only a workflow that uses itself is a cycle.
CompositionCyclesDirect(b) == {name \in DOMAIN b.workflows : name \in KnownChildren(b, name)}
CompositionCycles(b) == {name \in DOMAIN b.workflows : GrayEdge(b, name, {})}

ErrorsOf(b, p) ==
  CASE p = "resources" ->
         Reports("resource", {r \in DOMAIN b.resources : ~b.resources[r].resolves})
           \cup When(/\ \A r \in DOMAIN b.resources : b.resources[r].resolves
                     /\ \E r \in DOMAIN b.resources : b.resources[r].needs \ DOMAIN b.resources # {},
                     "load_order", "resources")
    [] p = "services" ->
         Reports("service", {s \in DOMAIN b.services : ~b.services[s].resolves \/ ~b.services[s].starts})
    [] p = "workflows" -> UNION {Within(name, WorkflowErrors(b, name)) : name \in DOMAIN b.workflows}
    [] p = "triggers" -> Reports("trigger", {t \in DOMAIN b.triggers :
                                               b.triggers[t] \notin DOMAIN b.workflows})
    [] p = "reachability" -> {}
    [] p = "cycles" -> Reports("cycle", CompositionCycles(b))

WarningsOf(b, p) ==
  CASE p = "workflows" ->
         UNION {Within(w, Reports("unused", UnusedOperations(b.workflows[w]))) : w \in DOMAIN b.workflows}
    [] p = "reachability" ->
         Reports("internal_only",
                 DOMAIN b.workflows \ ({b.triggers[t] : t \in DOMAIN b.triggers}
                   \cup UNION {Children(b, w) : w \in DOMAIN b.workflows}))
    [] OTHER -> {}

Diagnostic(report, severity) == [report |-> report, severity |-> severity]
Omitted == Diagnostic(Report("omitted", "diagnostics"), "error")

\* ValidationResult.add.
Room(held) == Len(held) < MaxDiagnostics
\* Mutant: what does not fit is dropped without a trace.
OverflowSilent(held) == held
Overflow(held) == [held EXCEPT ![Len(held)] = Omitted]

AddTo(d, result) ==
  IF Room(result.held) THEN [result EXCEPT !.held = Append(@, d)]
  ELSE IF result.over THEN result
  ELSE [held |-> Overflow(result.held), over |-> TRUE]

IsValid == \A i \in DOMAIN diagnostics : diagnostics[i].severity # "error"

Following(p) ==
  LET i == CHOOSE j \in DOMAIN Phases : Phases[j] = p
  IN  IF i = Len(Phases) THEN "validated" ELSE Phases[i + 1]

\* One phase: the reports of its rules, in some order.
ValidatePhase ==
  LET errors == ErrorsOf(bundle, phase)
      reported == FoldSet(AddTo, [held |-> diagnostics, over |-> overflowed],
                          {Diagnostic(r, "error") : r \in errors})
      result == FoldSet(AddTo, reported,
                        {Diagnostic(r, "warning") : r \in WarningsOf(bundle, phase)}) IN
  /\ phase \in Elements(Phases)
  /\ diagnostics' = result.held /\ overflowed' = result.over
  /\ raised' = (raised \/ errors # {})
  /\ phase' = Following(phase)
  /\ UNCHANGED <<bundle, probe, manifests>>

\* build_definition_manifests: children first, the resources a workflow names
\* and the ones those need.  It raises where validation should have reported.
ResourceNames(wf) ==
  ({wf.complete.resource} \cup UNION {Elements(wf.steps[op].required) : op \in DOMAIN wf.steps}
     \cup {wf.steps[op].cache : op \in DOMAIN wf.steps}
     \cup UNION {UNION {Elements(s.branches[i].resources) : i \in DOMAIN s.branches} : s \in Steps(wf)})
    \ {None}
ServiceNames(wf) ==
  {wf.steps[op].target.name : op \in {o \in DOMAIN wf.steps : wf.steps[o].target.kind = "service"}}
Resolved(declared) == {x \in DOMAIN declared : declared[x].resolves}

RECURSIVE Needed(_, _)
Needed(b, names) ==
  LET more == names \cup UNION {b.resources[r].needs : r \in names \cap DOMAIN b.resources}
  IN  IF more = names THEN names ELSE Needed(b, more)

RECURSIVE Builds(_, _, _)
Builds(b, name, visiting) ==
  /\ name \in DOMAIN b.workflows /\ name \notin visiting
  /\ \A child \in Children(b, name) : Builds(b, child, visiting \cup {name})
  /\ LET wf == b.workflows[name] IN
     /\ ServiceNames(wf) \subseteq Resolved(b.services)
     /\ Needed(b, ResourceNames(wf)) \subseteq Resolved(b.resources)
     /\ wf.contract # "bad" /\ \A op \in DOMAIN wf.steps : wf.steps[op].contract # "bad"

BuildManifests ==
  /\ phase = "validated" /\ IsValid
  /\ manifests' = IF \A name \in DOMAIN bundle.workflows : Builds(bundle, name, {})
                  THEN [kind |-> "built", of |-> DOMAIN bundle.workflows] ELSE Unbuildable
  /\ phase' = "published"
  /\ UNCHANGED <<bundle, probe, diagnostics, overflowed, raised>>

RaiseIfInvalid ==
  /\ phase = "validated" /\ ~IsValid
  /\ phase' = "rejected"
  /\ UNCHANGED <<bundle, probe, diagnostics, overflowed, raised, manifests>>

Inspect ==
  /\ phase = "probe"
  /\ phase' = "inspected"
  /\ UNCHANGED <<bundle, probe, diagnostics, overflowed, raised, manifests>>

ValidationIdle ==
  /\ bundle = NoBundle /\ probe = NoProbe /\ phase = "idle"
  /\ diagnostics = <<>> /\ overflowed = FALSE /\ raised = FALSE /\ manifests = NoManifests

ValidationInit ==
  /\ \/ bundle \in Bundles /\ probe = NoProbe /\ phase = Phases[1]
     \/ bundle = NoBundle /\ probe \in Probes /\ phase = "probe"
  /\ diagnostics = <<>> /\ overflowed = FALSE /\ raised = FALSE /\ manifests = NoManifests

ValidationNext == ValidatePhase \/ BuildManifests \/ RaiseIfInvalid \/ Inspect

-----------------------------------------------------------------------------
(* Properties *)

\* An error that any rule reports rejects the configuration, also when the report
\* no longer fits: ValidationResult.add never drops an error without leaving one.
EveryErrorRejects == (phase = "published") => ~raised

\* What validation accepts can be published: the manifests of its workflows can be
\* built, with every child, service, resource and contract they name.
AcceptedCanBeBuilt == phase = "published" => manifests # Unbuildable

\* A reference that validation accepts can resolve when the runner reaches it: the
\* engine finds the root in the outputs as _store_output left them, or in the
\* parameters, and some value the declared contract allows has the path.  (For a
\* step without an alias validator and engine disagree on the shape: see README.)
Aliased(wf, root) == {s \in Active(wf) : s.output # None /\ s.forEach = NoRef
                                          /\ root \in {s.name, s.output}}
AcceptedReferencesCanResolve ==
  phase = "published" =>
    \A w \in DOMAIN bundle.workflows :
      LET wf == bundle.workflows[w] IN
      \A r \in UNION {s.inputs : s \in Active(wf)} :
        /\ Aliased(wf, r.root) # {} =>
             \E s \in Aliased(wf, r.root) : \E v \in Values :
               /\ Accepts(OutputSchema(wf, s), OutputSchema(wf, s), v)
               /\ Resolves(StoredOutputs(wf, s, v), <<>>, r)
        /\ r.root \in wf.params =>
             \E v \in {x \in Values : x.type = "object" /\ r.root \in DOMAIN x.fields} :
               /\ Accepts(wf.input, wf.input, v)
               /\ Resolves(StoredOutputs(wf, [name |-> None], v), v.fields, r)

\* What inspect_schema_path says of a path is so for every value the schema
\* accepts, where the schema states its types and closes its objects: a refused
\* path leads nowhere, and a value at a path has one of the known types.
RECURSIVE Explicit(_)
Explicit(node) ==
  node.kind = "node" =>
    IF node.alts # <<>> THEN \A i \in DOMAIN node.alts : Explicit(node.alts[i])
    ELSE /\ Cardinality(node.types) = 1
         /\ node.types = {"object"} => node.additional # NoSchema
         /\ \A name \in DOMAIN node.props : Explicit(node.props[name])
         /\ node.additional # NoSchema => Explicit(node.additional)
         /\ node.items # NoSchema => Explicit(node.items)

VerdictsAreSound ==
  phase = "inspected" =>
    LET verdict == InspectSchemaPath(probe.schema, probe.path) IN
    Explicit(probe.schema) =>
      \A v \in {x \in Values : Accepts(probe.schema, probe.schema, x) /\ Leads(x, probe.path)} :
        /\ verdict.exists # "no"
        /\ verdict.known => At(v, probe.path).type \in verdict.types

\* What validation accepts has no error, can be published, and refers to what the runner will
\* find; the verdict on a path agrees with the instances of the schema.
ValidationIsSound ==
  /\ EveryErrorRejects
  /\ AcceptedCanBeBuilt
  /\ AcceptedReferencesCanResolve
  /\ VerdictsAreSound
=============================================================================
