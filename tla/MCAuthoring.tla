------------------------------ MODULE MCAuthoring ------------------------------
(* Saves of a configuration directory (module LocalAuthoring) and validation   *)
(* of a configuration (module WorkflowValidation).  A behaviour is of one of   *)
(* the two: a save of the first takes validation as its outcome, which the     *)
(* second explains.                                                            *)
(*                                                                             *)
(* Saves: two workflows; of their declarations the validator rejects one, the  *)
(* loader one ("long") and the bundle one ("secret"); one trigger, an author   *)
(* and a viewer.  The process starts on a directory whose   *)
(* files bear the names of their workflows, or on one file with another name.  *)
(* Validation: two workflows of two steps, and every single edit below and     *)
(* every pair of them.                                                         *)
EXTENDS LocalAuthoring, WorkflowValidation

MCPlace == [a |-> 1, b |-> 2]
MCGrants == [author |-> Actions, viewer |-> {"view", "validate"}]
FileOf(w, c) == [wf |-> w, content |-> c]
MCDirectories ==
  { [files |-> [a |-> FileOf("a", "good"), b |-> FileOf("b", "good")],
     triggers |-> [t |-> "b"]],
    [files |-> [a |-> NoFile, b |-> FileOf("a", "good")],
     triggers |-> [t |-> "absent"]] }

MCSubmitted == { Document([a |-> "good", b |-> "absent"], [t |-> "a"]),
                 Document([a |-> "good", b |-> "good"], [t |-> "b"]),
                 Document([a |-> "absent", b |-> "good"], [t |-> "absent"]),
                 Document([a |-> "bad", b |-> "absent"], [t |-> "b"]),
                 Document([a |-> "good", b |-> "long"], [t |-> "a"]) }
MCUnbounded == {doc \in AllDocuments : \E w \in Workflows : doc.wf[w] = "secret"}
Fragment(w, name, c) == [wf |-> w, name |-> name, content |-> c]
MCFragments == { Fragment("a", "a", "bad"), Fragment("a", "a", "secret"), Fragment("a", "b", "good"),
                 Fragment("a", "absent", "good") }
MCEdited == { [file |-> "a", wf |-> "a", content |-> "bad"],
              [file |-> "b", wf |-> "a", content |-> "good"] }

-----------------------------------------------------------------------------
(* Values and schemas of depth two *)

NullValue == [type |-> "null"]
StringValue == [type |-> "string"]
ObjectValue(fields) == [type |-> "object", fields |-> fields]
ArrayValue(items) == [type |-> "array", items |-> items]
Flat == {NullValue, StringValue, ObjectValue(<<>>), ObjectValue([x |-> StringValue]),
         ObjectValue([y |-> StringValue]), ArrayValue(<<StringValue>>)}
MCValues == Flat \cup {ObjectValue([x |-> v]) : v \in Flat} \cup {ObjectValue([p |-> v]) : v \in Flat}
                 \cup {ArrayValue(<<v, StringValue>>) : v \in Flat}

Text == Node({"string"}, <<>>, NoSchema, NoSchema, <<>>)
ClosedObject(props) == Node({"object"}, props, Never, NoSchema, <<>>)
Listed(items) == Node({"array"}, <<>>, NoSchema, items, <<>>)
OneOf(alts) == Node({}, <<>>, NoSchema, NoSchema, alts)
Leaves == {Text, AnyValue, Never, RootSchema, ClosedObject([x |-> Text]), ClosedObject(<<>>), Listed(Text)}
OrChosen(schemas) == schemas \cup {OneOf(<<s, t>>) : s \in schemas, t \in schemas}
Inner == OrChosen(Leaves)
\* A schema refers to itself only below an object or an array.
MCSchemas ==
  OrChosen(Leaves \ {RootSchema}) \cup {ClosedObject([x |-> s]) : s \in Inner} \cup {Listed(s) : s \in Inner}
    \cup {Node({"object"}, [x |-> s], t, NoSchema, <<>>) : s \in Leaves, t \in Leaves}
    \cup {Node({}, [x |-> s], NoSchema, NoSchema, <<>>) : s \in Leaves}
MCPaths == {<<>>, <<"x">>, <<"y">>, <<"0">>, <<"x", "x">>, <<"x", "0">>, <<"0", "x">>, <<"1">>}
MCProbes == [schema : MCSchemas, path : MCPaths]

-----------------------------------------------------------------------------
(* The configurations: one that is accepted, and edits of it *)

Ref(root, path) == [root |-> root, path |-> path]
Condition(root, path) == [root |-> root, path |-> path, optional |-> FALSE]
PlainStep(name, op) ==
  [name |-> name, op |-> op, terminal |-> FALSE, output |-> None, as |-> None,
   forEach |-> NoRef, iterations |-> 0, concurrency |-> 0, inputs |-> {},
   inConditions |-> {}, outConditions |-> {}, deadline |-> NoRef, branches |-> <<>>,
   then |-> None, onFailure |-> None, onExhausted |-> None, onTimeout |-> None]
Operation(kind, name) ==
  [target |-> [kind |-> kind, name |-> name, action |-> "go"], required |-> <<>>, cache |-> None,
   contract |-> "ok", in |-> NoSchema, out |-> NoSchema]
GetStep == [PlainStep("s1", "get") EXCEPT !.output = "data", !.inputs = {Ref("p", <<>>)}]
PutStep == [PlainStep("s2", "put") EXCEPT
             !.inputs = {Ref("data", <<"x">>), Ref("s1", <<"data", "x">>)}]
Workflow ==
  [flow |-> <<GetStep, PutStep>>, params |-> {"p"}, input |-> ClosedObject([p |-> ClosedObject([x |-> Text])]),
   contract |-> "ok", onError |-> None, globals |-> {"p"}, result |-> Ref("data", <<>>),
   complete |-> [resource |-> None, large |-> FALSE],
   steps |-> [get |-> [Operation("service", "svc") EXCEPT !.out = ClosedObject([x |-> Text]),
                                                          !.required = <<"db">>],
              put |-> Operation("service", "svc")]]
Base ==
  [resources |-> [db |-> [resolves |-> TRUE, offers |-> {"cache"}, needs |-> {"disk"}],
                  disk |-> [resolves |-> TRUE, offers |-> {"archive"}, needs |-> {}]],
   services |-> [svc |-> [resolves |-> TRUE, starts |-> TRUE, actions |-> {"go"}]],
   workflows |-> [a |-> Workflow, b |-> Workflow],
   triggers |-> [t |-> "a", u |-> "b"]]

Edits ==
  {"alias_own", "alias_step", "alias_param", "alias_twice", "as_reserved", "branches", "cache_loop",
   "cache_plain", "call_a", "call_b", "call_none", "capture", "condition", "deadline", "each_data",
   "each_input", "grants", "globals", "handler", "input_list", "jump", "limits", "no_action",
   "no_archive", "no_contract", "no_operation", "no_resource", "no_schema", "no_service", "no_trigger",
   "param_path", "ref_deep", "ref_missing", "result_missing", "same_step", "unresolved_disk", "unused"}

WithEdit(b, e) ==
  CASE e = "alias_own"   -> [b EXCEPT !.workflows.a.flow[1].output = "s1",
                                      !.workflows.a.result = NoRef,
                                      !.workflows.a.flow[2].inputs = {Ref("s1", <<"s1", "x">>)}]
    [] e = "alias_step"  -> [b EXCEPT !.workflows.a.flow[1].output = "s2"]
    [] e = "alias_param" -> [b EXCEPT !.workflows.a.flow[1].output = "p"]
    [] e = "alias_twice" -> [b EXCEPT !.workflows.a.flow[2].output = "data"]
    [] e = "as_reserved" -> [b EXCEPT !.workflows.a.flow[2].as = "input"]
    [] e = "branches"    -> [b EXCEPT !.workflows.a.flow[1].branches =
                               <<[when |-> "c", target |-> "s2", imports |-> TRUE, resources |-> <<"db">>],
                                 [when |-> "c", target |-> "s9", imports |-> FALSE, resources |-> <<"gone">>]>>]
    [] e = "cache_loop"  -> [b EXCEPT !.workflows.a.steps.get.cache = "db", !.workflows.a.flow[1].iterations = 1]
    [] e = "cache_plain" -> [b EXCEPT !.workflows.a.steps.put.cache = "disk"]
    [] e = "call_a"      -> [b EXCEPT !.workflows.b.steps.put.target = [kind |-> "workflow", name |-> "a"]]
    [] e = "call_b"      -> [b EXCEPT !.workflows.a.steps.put.target = [kind |-> "workflow", name |-> "b"]]
    [] e = "call_none"   -> [b EXCEPT !.workflows.a.steps.put.target = [kind |-> "workflow", name |-> "gone"]]
    [] e = "capture"     -> [b EXCEPT !.workflows.a.complete = [resource |-> "disk", large |-> TRUE]]
    [] e = "condition"   -> [b EXCEPT !.workflows.a.flow[2].inConditions = {Condition("input", <<"x">>)},
                                      !.workflows.a.flow[1].outConditions = {Condition("input", <<"y">>)}]
    [] e = "deadline"    -> [b EXCEPT !.workflows.a.flow[2].deadline = Ref("data", <<>>)]
    [] e = "each_data"   -> [b EXCEPT !.workflows.a.flow[2].forEach = Ref("data", <<"x">>)]
    [] e = "each_input"  -> [b EXCEPT !.workflows.a.flow[2].forEach = Ref("input", <<>>),
                                      !.workflows.a.flow[2].inputs = {}]
    [] e = "grants"      -> [b EXCEPT !.workflows.a.steps.get.required = <<"db", "db", "gone">>]
    [] e = "globals"     -> [b EXCEPT !.workflows.a.globals = {"q"}]
    [] e = "handler"     -> [b EXCEPT !.workflows.a.onError = "s9", !.workflows.a.flow[1].onFailure = "s2"]
    [] e = "input_list"  -> [b EXCEPT !.workflows.a.steps.get.out = Listed(Text)]
    [] e = "jump"        -> [b EXCEPT !.workflows.a.flow[1].onExhausted = "s9"]
    [] e = "limits"      -> [b EXCEPT !.workflows.a.flow[1].iterations = 9, !.workflows.a.flow[1].concurrency = 9]
    [] e = "no_action"   -> [b EXCEPT !.services.svc.actions = {}]
    [] e = "no_archive"  -> [b EXCEPT !.workflows.a.complete = [resource |-> "db", large |-> FALSE]]
    [] e = "no_contract" -> [b EXCEPT !.workflows.a.steps.put.contract = "bad"]
    [] e = "no_operation" -> [b EXCEPT !.workflows.a.flow[2].op = "gone"]
    [] e = "no_resource" -> [b EXCEPT !.workflows.a.steps.put.cache = "gone"]
    [] e = "no_schema"   -> [b EXCEPT !.workflows.a.steps.get.out = NoSchema]
    [] e = "no_service"  -> [b EXCEPT !.services.svc.starts = FALSE]
    [] e = "no_trigger"  -> [b EXCEPT !.triggers.t = "gone"]
    [] e = "param_path"  -> [b EXCEPT !.workflows.a.flow[2].inputs = @ \cup {Ref("p", <<"x">>)}]
    [] e = "ref_deep"    -> [b EXCEPT !.workflows.a.flow[2].inputs = {Ref("data", <<"x", "x">>)}]
    [] e = "ref_missing" -> [b EXCEPT !.workflows.a.flow[2].inputs = {Ref("gone", <<>>)}]
    [] e = "result_missing" -> [b EXCEPT !.workflows.a.result = Ref("s2", <<"y">>)]
    [] e = "same_step"   -> [b EXCEPT !.workflows.a.flow[2].name = "s1"]
    [] e = "unresolved_disk" -> [b EXCEPT !.resources.disk.resolves = FALSE]
    [] e = "unused"      -> [b EXCEPT !.workflows.a.flow[2].op = None, !.workflows.b.flow[2].op = None]

MCBundles == {Base} \cup {WithEdit(WithEdit(Base, e), f) : e \in Edits, f \in Edits}
MCLimits == [iterations |-> 3, concurrency |-> 3]

-----------------------------------------------------------------------------

\* While a configuration is validated on its own the directory stays as it is.
AuthoringInit ==
  \/ Init /\ ValidationIdle
  \/ Init /\ ValidationInit /\ store = FALSE /\ files["a"] = NoFile
AuthoringNext ==
  \/ phase = "idle" /\ Next /\ UNCHANGED validationVars
  \/ ValidationNext /\ UNCHANGED authoringVars
AuthoringSpec == AuthoringInit /\ [][AuthoringNext]_<<authoringVars, validationVars>>
=============================================================================
