---------------------------- MODULE MCExecution ----------------------------
(***************************************************************************)
(* An execution for TLC, in two halves of which each behaviour shows one:  *)
(* the runner through the families of workflows of MCWorkflowRunner, whose *)
(* calls are answered in any order, and the calls themselves, made in any  *)
(* order, whose callers are the executions of StepCalls.                   *)
(***************************************************************************)
EXTENDS MCWorkflowRunner, StepCalls

\* c is an inline step with a cache, q and l are behind a queue,
\* e is an evaluator; the service of l answers under the correlation id.
FourSteps == {"c", "q", "l", "e"}
KindOf == [s \in FourSteps |->
             CASE s = "c" -> "inline" [] s \in {"q", "l"} -> "queue" [] s = "e" -> "evaluator"]
CachedSteps == {"c"}
LegacySteps == {"l"}

\* Executions of two definitions, whose contracts differ.
TwoExecutions == {"w1", "w2"}
DigestOf == [x \in TwoExecutions |-> IF x = "w1" THEN "d1" ELSE "d2"]
ContractOf == [d \in {"d1", "d2"} |-> IF d = "d1" THEN {"good", "odd"} ELSE {"good", "big"}]
ThreeValues == {"good", "odd", "big"}
LargeValues == {"big"}

OneCaller(s) == {<<"w1", s>>}
TwoCallers(s) == {<<"w1", s>>, <<"w2", s>>}
Callers == {OneCaller("q"), OneCaller("l"), OneCaller("e"), TwoCallers("c")}
FaultsOf == [s \in FourSteps |-> IF s = "q" THEN 2 ELSE 1]

NoWorkflow ==
  /\ wf = Compiled(CHOOSE f \in WaitFlows : TRUE)
  /\ st = FreshState(wf) /\ pc = "cancelled" /\ chunk = <<>>
  /\ pending = [s \in Signals |-> <<>>]
  /\ carry = [state |-> st, events |-> pending]
  /\ run = 1 /\ outcome = Running
  /\ called = {} /\ dispatched = 0
  /\ accepted = [s \in Signals |-> <<>>] /\ taken = [s \in Signals |-> 0]

NoCalls == status = [x \in Executions |-> "off"]

ExecutionInit ==
  \/ Init /\ CallsAre({{}}, "off")
  \/ NoWorkflow /\ CallInit

ExecutionNext ==
  \/ NoCalls /\ Next /\ UNCHANGED callVars
  \/ ~NoCalls /\ CallNext /\ UNCHANGED vars
  \/ (\A x \in Executions : status[x] \in {"done", "failed"}) /\ UNCHANGED <<vars, callVars>>

ExecutionSpec ==
  /\ ExecutionInit /\ [][ExecutionNext]_<<vars, callVars>>
  /\ WF_vars(RunnerNext /\ UNCHANGED callVars)
  /\ WF_callVars(CallProgress /\ UNCHANGED vars)

\* Every execution and every call of a step ends.
EverythingEnds ==
  /\ EveryExecutionEnds
  /\ EveryCallEnds
=============================================================================
