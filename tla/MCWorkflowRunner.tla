-------------------------- MODULE MCWorkflowRunner --------------------------
(***************************************************************************)
(* Instances of WorkflowRunner for TLC: families of small workflows.       *)
(***************************************************************************)
EXTENDS WorkflowRunner

\* s1 and s2 are the normal flow, h1 and h2 its handlers.
FiveNames == {"s1", "s2", "h1", "h2", "done"}
OneSignal == {"event"}
AllOnOne  == [n \in FiveNames |-> "event"]

Op(then, input)  == [FlowStep EXCEPT !.then = then, !.input = input]
Done             == [FlowStep EXCEPT !.kind = "terminal"]
Flow(s1, s2, h1, h2, on_error, result) ==
    [entry |-> "s1", on_error |-> on_error, result |-> result,
     steps |-> [n \in FiveNames |->
                  CASE n = "s1" -> s1 [] n = "s2" -> s2 [] n = "h1" -> h1
                    [] n = "h2" -> h2 [] n = "done" -> Done]]

\* Operations with handlers that give up, rejoin the flow or start it again;
\* one of them, or the result, refers to data.
Refers == [n \in {"s2", "h1", "h2", "none"} |->
              IF n = "none" THEN {NoRoot} ELSE {"s1", "s2", "h1", "error"}]
HandlerFlows ==
    UNION {{Flow([Op(t1, NoRoot) EXCEPT !.on_failure = f1],
                 [Op("done", IF n = "s2" THEN r ELSE NoRoot) EXCEPT !.on_failure = f2],
                 [Op(t3, IF n = "h1" THEN r ELSE NoRoot) EXCEPT !.kind = k3],
                 Op(t4, IF n = "h2" THEN r ELSE NoRoot), NoStep, result) :
              r \in Refers[n], t1 \in {"s2"}, f1 \in {"h1", "s2"}, f2 \in {"h1", "h2"},
              k3 \in IF n = "none" THEN {"op", "sleep"} ELSE {"op"},
              t3 \in {"s1", "s2", "h2", "done"}, t4 \in {"s2", "done"},
              result \in IF n = "none" THEN {NoRoot, "s2"} ELSE {NoRoot}} : n \in DOMAIN Refers}

\* A loop, alone, with a handler or with an on_exhausted target, then a decision,
\* a sleep and an operation that may be skipped.
Loops ==
    {[FlowStep EXCEPT !.mode = "until", !.max_iterations = 2, !.on_exhausted = x] :
        x \in {NoStep, "h1"}}
    \cup {[FlowStep EXCEPT !.mode = "each", !.parallel = p, !.items = i,
                           !.on_iteration_fail = f] :
             p \in BOOLEAN, i \in {0, 3}, f \in {"stop", "skip", "collect"}}
LoopFlows ==
    {Flow([loop EXCEPT !.then = "s2", !.on_failure = x.failure],
          [Op(NoStep, "s1") EXCEPT !.branch = "h1", !.branch_default = "done"],
          [FlowStep EXCEPT !.kind = "sleep", !.then = "h2"],
          [Op("done", NoRoot) EXCEPT !.condition = TRUE], x.on_error, NoRoot) :
        loop \in Loops,
        x \in {[failure |-> NoStep, on_error |-> NoStep], [failure |-> "h1", on_error |-> NoStep],
               [failure |-> NoStep, on_error |-> "h2"]}}

\* Two waits for the same event, with and without a target for the timeout.
WaitFlows ==
    {Flow([FlowStep EXCEPT !.kind = "wait", !.then = "s2", !.on_timeout = "h1"],
          [FlowStep EXCEPT !.kind = "wait", !.branch = "h2", !.branch_default = "done",
                           !.on_timeout = x],
          [FlowStep EXCEPT !.kind = k, !.then = "s2"],
          Op("done", "s2"), NoStep, NoRoot) :
        x \in {NoStep, "done"}, k \in {"sleep", "wait", "op"}}

\* A last branch with a then beside its default: the analysis sees h1, the runner s2.
BranchFlows ==
    {Flow([Op(NoStep, NoRoot) EXCEPT !.branch = "h2", !.branch_default = "s2",
                                     !.branch_then = t, !.on_failure = f],
          Op("done", r), Op("s2", NoRoot), Op("done", NoRoot), NoStep, NoRoot) :
        t \in {NoStep, "h1"}, f \in {NoStep, "h1"}, r \in {"s1", "h1"}}

AllFlows == HandlerFlows \cup LoopFlows \cup WaitFlows \cup BranchFlows
=============================================================================
