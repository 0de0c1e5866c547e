---------------------------- MODULE FlowAnalysis ----------------------------
(***************************************************************************)
(* The declared flow of a workflow and its static analysis                 *)
(* (src/justflow/config/models.py and src/justflow/engine/analysis.py).    *)
(*                                                                         *)
(* A flow is a record [entry, on_error, result, steps]; steps maps a name  *)
(* to its FlowStep.  A step refers to at most one data root: the analysis  *)
(* treats each root by itself, and an output alias is available exactly    *)
(* where the name of its producer is.                                      *)
(***************************************************************************)
EXTENDS Integers, FiniteSets, Sequences

CONSTANTS
    Names,    \* step names
    NoStep,   \* an absent target
    NoRoot    \* an absent reference

\* Data roots: the outputs of steps, and the error alias of failure handlers.
Roots == Names \cup {"error"}

\* FlowStep with every field at its default.  The input of a wait is its
\* timeout_until; branch is the one conditional branch of on_result,
\* branch_default its last branch, branch_then a then that the last branch may
\* carry too.
FlowStep ==
    [kind |-> "op", input |-> NoRoot, then |-> NoStep, condition |-> FALSE,
     branch |-> NoStep, branch_default |-> NoStep, branch_then |-> NoStep,
     mode |-> "once", parallel |-> FALSE, items |-> 1, max_iterations |-> 1,
     on_iteration_fail |-> "stop", on_exhausted |-> NoStep,
     on_timeout |-> NoStep, on_failure |-> NoStep, reason |-> FALSE]

\* The fields of FlowStep and of WorkflowConfig: a target is a step of the flow.
Targets == Names \cup {NoStep}
DeclaredSteps ==
    [kind : {"op", "wait", "sleep", "terminal"}, input : Roots \cup {NoRoot}, then : Targets,
     condition : BOOLEAN, branch : Targets, branch_default : Targets, branch_then : Targets,
     mode : {"once", "until", "each"}, parallel : BOOLEAN, items : Nat,
     max_iterations : Nat \ {0}, on_iteration_fail : {"stop", "skip", "collect"},
     on_exhausted : Targets, on_timeout : Targets, on_failure : Targets, reason : BOOLEAN]
DeclaredWorkflows ==
    [entry : Names, on_error : Targets, result : Roots \cup {NoRoot}, steps : [Names -> DeclaredSteps]]

OnResult(step) == step.branch_default # NoStep

\* FlowStep and WorkflowConfig accept the declaration.
DeclaredStep(step) ==
    IF step.kind = "terminal" THEN [step EXCEPT !.reason = FALSE] = [FlowStep EXCEPT !.kind = "terminal"]
    ELSE /\ step.then # NoStep \/ OnResult(step)
         /\ step.branch # NoStep \/ step.branch_then # NoStep => OnResult(step)
         /\ step.kind = "sleep" => ~OnResult(step)
         /\ step.kind # "op" => step.on_failure = NoStep /\ ~step.condition
         /\ step.kind # "op" => step.mode = "once"
         /\ step.then # NoStep /\ OnResult(step) => step.condition
         /\ step.condition => step.then # NoStep
         /\ step.on_timeout # NoStep => step.kind = "wait"
         /\ step.on_exhausted # NoStep => step.mode = "until"
         /\ step.parallel => step.mode = "each"

(***************************************************************************)
(* The edges of the control-flow graph.                                    *)
(***************************************************************************)
Edge(s, t, produced) == [source |-> s, target |-> t, produced |-> produced]

\* _build_edges without the failure edges.
ExecutionEdges(wf) ==
    UNION { LET step == wf.steps[s]
                out  == IF step.kind = "sleep" THEN {} ELSE {s}
                last == IF step.branch_then # NoStep THEN step.branch_then
                        ELSE step.branch_default
            IN  {e \in
                   (IF step.condition THEN {Edge(s, step.then, {})} ELSE {})
                     \cup (IF OnResult(step)
                           THEN {Edge(s, step.branch, out), Edge(s, last, out)}
                           ELSE {Edge(s, step.then, out)})
                     \cup (IF step.kind = "wait" THEN {Edge(s, step.on_timeout, {})} ELSE {})
                     \cup (IF step.mode = "until" THEN {Edge(s, step.on_exhausted, {})} ELSE {})
                   : e.target \in Names}
          : s \in {n \in Names : wf.steps[n].kind # "terminal"} }

\* The handler of a failing operation.
HandlerOf(wf, s) ==
    IF wf.steps[s].on_failure # NoStep THEN wf.steps[s].on_failure ELSE wf.on_error

FailureEdges(wf) ==
    {Edge(s, HandlerOf(wf, s), {"error"}) :
        s \in {n \in Names : wf.steps[n].kind = "op" /\ HandlerOf(wf, n) \in Names}}

\* What can be reached along succ, which maps a name to its successors: the least
\* set that has the entries and all successors of its members.
Closure(succ, entries) ==
    {n \in Names : \A S \in SUBSET Names :
        entries \subseteq S /\ (\A m \in S : succ[m] \subseteq S) => n \in S}

Successors(edges) == [n \in Names |-> {e.target : e \in {x \in edges : x.source = n}}]

Reachable(edges, entries) == Closure(Successors(edges), entries)

Cyclic(edges) ==
    LET succ == Successors(edges) IN \E n \in Names : n \in Closure(succ, succ[n])

(***************************************************************************)
(* Data flow: what is produced on every path to a step.                    *)
(***************************************************************************)
\* A set of steps is certain of a root if the entries among them start with it and
\* every other way into the set brings it.
Certain(root, S, edges, reachable, entry_available) ==
    \A n \in S :
        /\ n \in DOMAIN entry_available => root \in entry_available[n]
        /\ \A e \in edges : e.target = n /\ e.source \in reachable =>
              e.source \in S \/ root \in e.produced

\* _must_available, of an acyclic graph: entry_available gives what the entries
\* start with; a step no path reaches has everything.
MustAvailable(edges, reachable, entry_available) ==
    [n \in Names |-> {r \in Roots :
        \E S \in SUBSET Names : n \in S /\ Certain(r, S, edges, reachable, entry_available)}]

\* Mutant: what the failing step would have produced counts for its handler.
MutHandlerSeesOutput(wf, normal, available) ==
    LET edges == {e \in FailureEdges(wf) : e.source \in normal} IN
    [h \in {e.target : e \in edges} |->
        {r \in Roots : \A e \in edges : e.target = h =>
            r \in available[e.source] \cup e.produced \cup {e.source}}]

\* _handler_entry_available: a handler may be entered from any normal step it
\* handles, with what the normal paths to that step produce.
HandlerEntryAvailable(wf, normal, available) ==
    LET edges == {e \in FailureEdges(wf) : e.source \in normal} IN
    [h \in {e.target : e \in edges} |->
        {r \in Roots : \A e \in edges : e.target = h =>
            r \in available[e.source] \cup e.produced}]

\* analyze_workflow reports no issue.
Accepted(wf) ==
    LET edges     == ExecutionEdges(wf)
        normal    == Reachable(edges, {wf.entry})
        available == MustAvailable(edges, normal, [n \in {wf.entry} |-> {}])
        entries   == HandlerEntryAvailable(wf, normal, available)
        handling  == Reachable(edges, DOMAIN entries)
        handled   == MustAvailable(edges, handling, entries)
        guaranteed(n) == {r \in Roots : /\ n \in normal => r \in available[n]
                                        /\ n \in handling => r \in handled[n]}
    IN  /\ ~Cyclic(edges)
        /\ normal \cup handling = Names
        /\ \A n \in Names : wf.steps[n].kind = "terminal" \/ \E e \in edges : e.source = n
        /\ \A n \in Names : LET step == wf.steps[n] IN
              /\ step.kind # "terminal" /\ step.input # NoRoot => step.input \in guaranteed(n)
              /\ step.kind = "terminal" /\ ~step.reason /\ wf.result # NoRoot =>
                    wf.result \in guaranteed(n)
=============================================================================
