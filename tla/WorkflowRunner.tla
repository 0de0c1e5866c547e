--------------------------- MODULE WorkflowRunner ---------------------------
(***************************************************************************)
(* The execution of one workflow (src/justflow/engine/runner.py), with the *)
(* Temporal side of it that carries the execution from one run to the next *)
(* (src/justflow/engine/continuation.py and compiler.py).                  *)
(*                                                                         *)
(* A step, a loop attempt or a chunk of items may end the Temporal run: a  *)
(* checkpoint goes to the next run, which restores its state from it.      *)
(* Service calls, events and timers are answered in any order.             *)
(*                                                                         *)
(* Abstractions.  Data is the set of roots that can be resolved; a call    *)
(* returns or fails.  What the history observation says is arbitrary, so   *)
(* every checkpoint may end the run.  The size of the carried state is the *)
(* number of recorded transitions, the part of it that grows without end.  *)
(***************************************************************************)
EXTENDS FlowAnalysis

CONSTANTS
    Flows,             \* declared workflows
    Signals,           \* the signals of wait steps
    SignalOf,          \* SignalOf[n]: the signal wait step n waits for
    TotalInvocations,  \* limits.total_invocations
    MaxTransitions,    \* limits.workflow_state_bytes, in transitions
    ChunkItems,        \* limits.fanout_chunk_items
    MaxConcurrency,    \* max_concurrency of the parallel steps
    QueuedMessages,    \* limits.queued_messages
    ContinuationInput, \* limits.continuation_input_bytes, in transitions and events
    MaxEvents,         \* bound: events that are sent
    MaxRuns            \* bound: Temporal runs of the execution

ASSUME RunnerConstants ==
    /\ NoStep \notin Names
    /\ NoRoot \notin Roots
    /\ Flows \subseteq DeclaredWorkflows
    /\ SignalOf \in [Names -> Signals]
    /\ {TotalInvocations, MaxTransitions, QueuedMessages, ContinuationInput, MaxEvents} \subseteq Nat
    /\ {ChunkItems, MaxConcurrency, MaxRuns} \subseteq Nat \ {0}

VARIABLES
    wf,          \* the compiled workflow
    st,          \* _RunState and the locals of _execute
    pc,          \* where the execution stands
    chunk,       \* chunk[k]: the task of item or attempt k of the current step
    pending,     \* pending[s]: the events queued in this Temporal run
    carry,       \* the continuation input: state and events
    run,         \* the number of the Temporal run
    outcome,     \* how the execution ended
    called,      \* history: the calls made, by step visit and item
    dispatched,  \* history: how many calls were made
    accepted,    \* history: accepted[s]: the events accepted
    taken        \* history: taken[s]: how many of them wait steps consumed

vars == <<wf, st, pc, chunk, pending, carry, run, outcome,
          called, dispatched, accepted, taken>>
messages == <<pending, accepted, taken>>
history == <<called, dispatched>>

NoEpisode == [primary |-> NoStep, handler_steps |-> {}]
NoLoop    == [results |-> <<>>, failed |-> 0]

\* entries[n] is the audit entry of step n: its seq and status.
FreshState(w) ==
    [cur |-> w.entry, outputs |-> {}, entries |-> [n \in Names |-> [seq |-> 0, status |-> "none"]],
     transitions |-> 0, failures |-> <<>>, episode |-> NoEpisode, seq |-> 0,
     invocations |-> 0, loop |-> NoLoop]

(***************************************************************************)
(* The failure handler's region.                                           *)
(***************************************************************************)
\* _normal_successors.
NormalSuccessors(step) ==
    {step.then, IF step.branch_then # NoStep THEN step.branch_then ELSE step.branch_default,
     step.branch, step.on_timeout, step.on_exhausted} \cap Names

\* _reachable_from_entry.
NormalReachable(flow) ==
    Closure([n \in Names |-> NormalSuccessors(flow.steps[n])], {flow.entry})

\* Mutant: the handler's region goes on into the normal flow.
MutRegionGoesOn(flow, entry) ==
    Closure([n \in Names |-> NormalSuccessors(flow.steps[n])], {entry})

\* _handler_region: from the handler on, up to the steps of the normal flow.
HandlerRegion(flow, entry) ==
    LET normal == NormalReachable(flow)
        succ == [n \in Names |-> IF n \in normal THEN {}
                                 ELSE NormalSuccessors(flow.steps[n]) \ (normal \ {entry})]
    IN  Closure(succ, {entry})

\* What FlowRunner keeps of the declared workflow.
Compiled(flow) ==
    [entry |-> flow.entry, on_error |-> flow.on_error, result |-> flow.result,
     steps |-> flow.steps, region |-> [h \in Names |-> HandlerRegion(flow, h)]]

Running == [code |-> "none", primary |-> NoStep]

Init ==
    /\ wf \in {Compiled(f) : f \in {g \in Flows : (\A n \in Names : DeclaredStep(g.steps[n]))
                                                 /\ Accepted(g)}}
    /\ st = FreshState(wf)
    /\ pc = "step"
    /\ chunk = <<>>
    /\ pending = [s \in Signals |-> <<>>]
    /\ carry = [state |-> st, events |-> pending]
    /\ run = 1
    /\ outcome = Running
    /\ called = {}
    /\ dispatched = 0
    /\ accepted = [s \in Signals |-> <<>>]
    /\ taken = [s \in Signals |-> 0]

(***************************************************************************)
(* Ends of the execution and of a run.                                     *)
(***************************************************************************)
Ended == pc \in {"completed", "failed", "cancelled"}

\* The audit entry of the current step.
Entered(s, status) ==
    [s EXCEPT !.entries[s.cur] = [seq |-> s.seq, status |-> status]]

\* _record_unhandled_step.
Unhandled(s) == IF s.entries[s.cur].status = "failed" THEN s ELSE Entered(s, "failed")

\* _build_execution_error: inside a handler's region the primary failure is the one
\* being handled, and the current step is recorded failed.
FailWith(s, code) ==
    /\ pc' = "failed"
    /\ outcome' = [code |-> code,
                   primary |-> IF s.episode = NoEpisode THEN s.cur ELSE s.episode.primary]
    /\ st' = Unhandled(s)
    /\ chunk' = <<>>
    /\ UNCHANGED <<carry, run>>

\* The history is long enough: the Temporal run shall end here.
EndRun(s) ==
    /\ run < MaxRuns
    /\ st' = s
    /\ pc' = "continuing"
    /\ chunk' = <<>>
    /\ UNCHANGED <<carry, run, outcome>>

GoOn(s, next) ==
    /\ st' = s
    /\ pc' = next
    /\ chunk' = <<>>
    /\ UNCHANGED <<carry, run, outcome>>

TooLarge(s) == s.transitions > MaxTransitions

\* _checkpoint_after_step.
CheckpointAfterStep(s) ==
    \/ TooLarge(s) /\ FailWith([s EXCEPT !.cur = st.cur, !.seq = st.seq], "limit")
    \/ ~TooLarge(s) /\ EndRun(s)
    \/ ~TooLarge(s) /\ GoOn(s, "step")

\* The step is done: record it, go to its successor.
Advance(s, status, target) ==
    LET done == Entered(s, status) IN
    CheckpointAfterStep([done EXCEPT !.seq = @ + 1, !.cur = target, !.loop = NoLoop])

\* The same, by a transition that is recorded.
Divert(s, status, target) ==
    Advance([s EXCEPT !.transitions = @ + 1], status, target)

\* _store_output and _next_step, which takes the default of the last branch whatever
\* else that branch says.  A condition or an evaluator may raise: the step was recorded,
\* and no handler is asked.
Succeed(s, step) ==
    LET stored == [s EXCEPT !.outputs = @ \cup {s.cur}] IN
    \/ ~OnResult(step) /\ Advance(stored, "succeeded", step.then)
    \/ OnResult(step) /\ \E target \in {step.branch, step.branch_default} \ {NoStep} :
            Divert(stored, "succeeded", target)
    \/ OnResult(step) /\ step.branch # NoStep /\ FailWith(Entered(stored, "succeeded"), "decision")

\* An operation raised.
StepFails(s) ==
    LET handler == HandlerOf(wf, s.cur) IN
    IF s.episode # NoEpisode \/ handler = NoStep
    THEN FailWith(s, "step")
    ELSE Divert([s EXCEPT !.failures = Append(@, s.cur), !.outputs = @ \cup {"error"},
                          !.episode = [primary |-> s.cur,
                                       handler_steps |-> wf.region[handler]]],
                "failed", handler)

(***************************************************************************)
(* The step loop.                                                          *)
(***************************************************************************)
Step == wf.steps[st.cur]

\* The head of the loop: control that left the handler's region ends the episode.
Entering ==
    IF st.cur \in st.episode.handler_steps THEN st ELSE [st EXCEPT !.episode = NoEpisode]

Resolves(step) == step.input \in st.outputs \cup {NoRoot}

\* The final record; its result must be there unless a reason was given.  The output
\* contract, the size limits and the archive may refuse it, which is no step's failure.
Terminal ==
    /\ pc = "step" /\ Step.kind = "terminal"
    /\ st' = [st EXCEPT !.episode = NoEpisode]
    /\ \/ /\ wf.result \in st.outputs \cup {NoRoot} \/ Step.reason
          /\ pc' = "completed"
          /\ UNCHANGED outcome
       \/ /\ wf.result \notin st.outputs \cup {NoRoot} /\ ~Step.reason
          /\ pc' = "failed"
          /\ outcome' = [code |-> "result", primary |-> NoStep]
       \/ /\ wf.result \in st.outputs \cup {NoRoot} \/ Step.reason
          /\ pc' = "failed"
          /\ outcome' = [code |-> "record", primary |-> NoStep]
    /\ UNCHANGED <<wf, chunk, carry, run, messages, history>>

Sleep ==
    /\ pc = "step" /\ Step.kind = "sleep"
    /\ Advance(Entering, "slept", Step.then)
    /\ UNCHANGED <<wf, messages, history>>

Unresolved ==
    /\ pc = "step" /\ Step.kind \in {"op", "wait"}
    /\ ~Resolves(Step)
    /\ FailWith(Entering, "resolution")
    /\ UNCHANGED <<wf, messages, history>>

\* A wait takes the oldest queued event, if there is one, at once.
Take(s) ==
    /\ pending[s] # <<>>
    /\ pending' = [pending EXCEPT ![s] = Tail(@)]
    /\ taken' = [taken EXCEPT ![s] = @ + 1]
    /\ UNCHANGED accepted

StartWait ==
    /\ pc = "step" /\ Step.kind = "wait"
    /\ Resolves(Step)
    /\ \/ Take(SignalOf[st.cur]) /\ Succeed(Entering, Step)
       \/ /\ pending[SignalOf[st.cur]] = <<>>
          /\ st' = Entering
          /\ pc' = "waiting"
          /\ UNCHANGED <<chunk, carry, run, outcome, messages>>
    /\ UNCHANGED <<wf, history>>

WaitEnds ==
    /\ pc = "waiting"
    /\ Take(SignalOf[st.cur])
    /\ Succeed(st, Step)
    /\ UNCHANGED <<wf, history>>

\* Mutant: a wait without a target for its timeout waits for ever.
MutWaitForEver ==
    /\ pc = "waiting" /\ Step.on_timeout # NoStep
    /\ Divert(st, "timed_out", Step.on_timeout)
    /\ UNCHANGED <<wf, messages, history>>

\* The timer may fire together with the event.
WaitTimesOut ==
    /\ pc = "waiting"
    /\ IF Step.on_timeout = NoStep THEN FailWith(st, "wait_timeout")
       ELSE Divert(st, "timed_out", Step.on_timeout)
    /\ UNCHANGED <<wf, messages, history>>

SkipOperation ==
    /\ pc = "step" /\ Step.kind = "op" /\ Step.condition
    /\ Resolves(Step)
    /\ Advance(Entering, "skipped", Step.then)
    /\ UNCHANGED <<wf, messages, history>>

(***************************************************************************)
(* Operations: once, until, for_each.                                      *)
(***************************************************************************)
Total(step) ==
    CASE step.mode = "once"  -> 1
      [] step.mode = "until" -> step.max_iterations
      [] step.mode = "each"  -> step.items

\* Mutant: the item at the restored offset is done again.
MutRepeatLast(step, done) ==
    (IF done = 0 THEN 1 ELSE done) .. (IF done + ChunkItems < step.items THEN done + ChunkItems
                                       ELSE step.items)

\* Mutant: the last chunk is not cut off at the last item.
MutPastTheEnd(step, done) ==
    IF step.mode = "each" /\ step.parallel THEN (done + 1) .. (done + ChunkItems)
    ELSE {done + 1} \cap 1..Total(step)

\* The attempts or items that are started together: one, or a chunk.
NextKeys(step, done) ==
    LET size == IF step.mode = "each" /\ step.parallel THEN ChunkItems ELSE 1
        last == done + size
    IN  (done + 1) .. (IF last < Total(step) THEN last ELSE Total(step))

Slots(step) == IF step.mode = "each" /\ step.parallel THEN MaxConcurrency ELSE 1

\* A restored loop continues where the checkpoint left it.
StartOperation ==
    /\ pc \in {"step", "loop"} /\ Step.kind = "op"
    /\ Resolves(Step)
    /\ st' = Entering
    /\ chunk' = [k \in NextKeys(Step, Len(st.loop.results)) |-> "queued"]
    /\ pc' = "running"
    /\ UNCHANGED <<wf, carry, run, outcome, messages, history>>

Tasks(status) == {k \in DOMAIN chunk : chunk[k] = status}

\* Under stop, and without items to go on with, the first failure ends the step.
Stops(step) ==
    /\ Tasks("error") # {}
    /\ step.mode = "each" => step.on_iteration_fail = "stop"

\* _invoke: the invocation is counted, then checked against the limit.
Invoke(k) ==
    /\ pc = "running"
    /\ k \in Tasks("queued")
    /\ \A j \in Tasks("queued") : k <= j
    /\ Cardinality(Tasks("running")) < Slots(Step)
    /\ st' = [st EXCEPT !.invocations = @ + 1]
    /\ IF st.invocations < TotalInvocations
       THEN /\ chunk' = [chunk EXCEPT ![k] = "running"]
            /\ called' = called \cup {<<st.seq, k>>}
            /\ dispatched' = dispatched + 1
       ELSE chunk' = [chunk EXCEPT ![k] = "error"] /\ UNCHANGED history
    /\ UNCHANGED <<wf, pc, carry, run, outcome, messages>>

\* A call returns or raises.
Answer(k) ==
    /\ pc \in {"running", "cancelling"}
    /\ k \in Tasks("running")
    /\ chunk' = [chunk EXCEPT ![k] = IF pc = "cancelling" THEN "cancelled" ELSE "ok"]
    /\ UNCHANGED <<wf, st, pc, carry, run, outcome, messages, history>>

CallFails(k) ==
    /\ pc = "running"
    /\ k \in Tasks("running")
    /\ chunk' = [chunk EXCEPT ![k] = "error"]
    /\ UNCHANGED <<wf, st, pc, carry, run, outcome, messages, history>>

\* gather raises the first failure some callbacks after it happened: items that
\* were queued may have been invoked meanwhile.  All tasks are cancelled.
CancelTasks ==
    /\ pc = "running"
    /\ Stops(Step)
    /\ pc' = "cancelling"
    /\ chunk' = [k \in DOMAIN chunk |-> IF chunk[k] = "queued" THEN "cancelled" ELSE chunk[k]]
    /\ UNCHANGED <<wf, st, carry, run, outcome, messages, history>>

\* Mutant: the step fails without waiting for the calls that are still out.
MutDoNotAwait ==
    /\ pc = "cancelling"
    /\ StepFails(st)
    /\ UNCHANGED <<wf, messages, history>>

\* _cancel_and_await has ended: the failure goes to its handler.
OperationFails ==
    /\ pc = "cancelling"
    /\ Tasks("running") = {}
    /\ StepFails(st)
    /\ UNCHANGED <<wf, messages, history>>

\* _checkpoint_during_loop, inside the handling of the step's failures: what it
\* raises, FlowContinuation too, goes to the step's handler if there is one.
CheckpointDuringLoop(s, next) ==
    \/ TooLarge(s) /\ StepFails(s)
    \/ ~TooLarge(s) /\ GoOn(s, next)
    \/ /\ ~TooLarge(s) /\ run < MaxRuns
       /\ IF s.episode = NoEpisode /\ HandlerOf(wf, s.cur) = NoStep THEN EndRun(s)
          ELSE StepFails(s)

\* _append_iteration_results, in the order of the keys.
Appended(loop, step) ==
    LET done == Len(loop.results)
        kept(k) == CASE chunk[k] = "ok" -> "included"
                     [] chunk[k] = "error" /\ step.on_iteration_fail = "collect" -> "included"
                     [] OTHER -> "omitted"
    IN  [results |-> loop.results \o [i \in 1..Cardinality(DOMAIN chunk) |-> kept(done + i)],
         failed |-> loop.failed + Cardinality(Tasks("error"))]

\* Every task of the chunk has ended.
ChunkEnds ==
    /\ pc = "running"
    /\ ~Stops(Step)
    /\ Tasks("queued") \cup Tasks("running") = {}
    /\ LET s == [st EXCEPT !.loop = Appended(@, Step)]
           more == Len(s.loop.results) < Total(Step)
       IN  \/ /\ Step.mode = "once" \/ DOMAIN chunk = {}
              /\ Succeed(s, Step)
           \/ /\ Step.mode = "until"                   \* the condition holds
              /\ Succeed(s, Step)
           \/ /\ Step.mode # "once" /\ DOMAIN chunk # {}
              /\ CheckpointDuringLoop(s, IF more THEN "loop" ELSE "drained")
    /\ UNCHANGED <<wf, messages, history>>

\* All items or attempts were made: after the last checkpoint of the loop.
LoopEnds ==
    /\ pc = "drained"
    /\ \/ Step.mode = "each" /\ Succeed(st, Step)
       \/ /\ Step.mode = "until"
          /\ IF Step.on_exhausted = NoStep
             THEN FailWith(Entered(st, "exhausted"), "exhausted")
             ELSE Divert(st, "exhausted", Step.on_exhausted)
    /\ UNCHANGED <<wf, messages, history>>

(***************************************************************************)
(* Events, and the step from one Temporal run to the next.                 *)
(***************************************************************************)
Queued(queues) ==
    LET count[S \in SUBSET Signals] ==
            IF S = {} THEN 0
            ELSE LET s == CHOOSE x \in S : TRUE IN Len(queues[s]) + count[S \ {s}]
    IN  count[Signals]

\* _handle_event: over the limit, the handler fails the execution.
EventArrives(s) ==
    LET e == Len(accepted[s]) + 1 IN
    /\ ~Ended
    /\ Len(accepted[s]) < MaxEvents
    /\ IF Queued(pending) < QueuedMessages
       THEN /\ pending' = [pending EXCEPT ![s] = Append(@, e)]
            /\ accepted' = [accepted EXCEPT ![s] = Append(@, e)]
            /\ UNCHANGED <<pc, outcome>>
       ELSE /\ pc' = "failed"
            /\ outcome' = [code |-> "queue", primary |-> NoStep]
            /\ UNCHANGED <<pending, accepted>>
    /\ UNCHANGED <<wf, st, chunk, carry, run, taken, history>>

\* Mutant: the checkpoint forgets how many invocations were made.
MutForgetInvocations(s) == [s EXCEPT !.invocations = 0]

\* Mutant: the checkpoint forgets the failure that is being handled.
MutForgetEpisode(s) == [s EXCEPT !.episode = NoEpisode]

\* Mutant: the next run counts the audit entries from the beginning.
MutForgetSeq(s) == [s EXCEPT !.seq = 0]

\* _build_checkpoint: everything the next run needs.
BuildCheckpoint(s) ==
    [cur |-> s.cur, outputs |-> s.outputs, entries |-> s.entries,
     transitions |-> s.transitions, failures |-> s.failures, episode |-> s.episode,
     seq |-> s.seq, invocations |-> s.invocations, loop |-> s.loop]

\* The run ends: its queued events go with the checkpoint to the next one, which
\* has queues of its own from the beginning.
ContinueAsNew ==
    /\ pc = "continuing"
    /\ IF st.transitions + Queued(pending) <= ContinuationInput
       THEN /\ carry' = [state |-> BuildCheckpoint(st), events |-> pending]
            /\ pending' = [s \in Signals |-> <<>>]
            /\ run' = run + 1
            /\ pc' = "restart"
            /\ UNCHANGED outcome
       ELSE /\ pc' = "failed"
            /\ outcome' = [code |-> "limit", primary |-> NoStep]
            /\ UNCHANGED <<carry, pending, run>>
    /\ UNCHANGED <<wf, st, chunk, accepted, taken, history>>

\* Mutant: what the new run received goes before what it inherited.
MutNewFirst(s) == pending[s] \o carry.events[s]

\* The queues of a continued run.
Merged(s) == carry.events[s] \o pending[s]

\* _restore_state: a loop continues where its checkpoint left it.
Restart ==
    LET merged == [s \in Signals |-> Merged(s)]
        done   == Len(carry.state.loop.results)
    IN  /\ pc = "restart"
        /\ IF Queued(merged) <= QueuedMessages
           THEN /\ st' = carry.state
                /\ pending' = merged
                /\ pc' = CASE done = 0 -> "step"
                           [] done > 0 /\ done < Total(wf.steps[carry.state.cur]) -> "loop"
                           [] OTHER -> "drained"
                /\ UNCHANGED outcome
           ELSE /\ pc' = "failed"
                /\ outcome' = [code |-> "queue", primary |-> NoStep]
                /\ UNCHANGED <<st, pending>>
        /\ UNCHANGED <<wf, chunk, carry, run, accepted, taken, history>>

\* Temporal cancels the execution; calls that are out are awaited first.
Cancel ==
    /\ pc \in {"step", "waiting", "running", "cancelling", "loop", "drained"}
    /\ pc' = "cancelled"
    /\ chunk' = <<>>
    /\ UNCHANGED <<wf, st, carry, run, outcome, messages, history>>

\* Nothing more happens.
Stop == Ended /\ UNCHANGED vars

RunnerNext ==
    \/ Terminal
    \/ Sleep
    \/ Unresolved
    \/ StartWait
    \/ WaitEnds
    \/ WaitTimesOut
    \/ SkipOperation
    \/ StartOperation
    \/ \E k \in DOMAIN chunk : Invoke(k) \/ Answer(k) \/ CallFails(k)
    \/ CancelTasks
    \/ OperationFails
    \/ ChunkEnds
    \/ LoopEnds
    \/ ContinueAsNew
    \/ Restart

Next ==
    \/ RunnerNext
    \/ \E s \in Signals : EventArrives(s)
    \/ Cancel
    \/ Stop

\* Temporal runs every workflow task, fires every timer and times every call out.
Spec == Init /\ [][Next]_vars /\ WF_vars(RunnerNext)

(***************************************************************************)
(* Properties.                                                             *)
(***************************************************************************)
\* Every variable holds a value of its kind.
TypeOK ==
    /\ st.cur \in Names
    /\ st.outputs \subseteq Roots
    /\ st.entries \in [Names -> [seq : Nat, status : {"none", "slept", "timed_out", "succeeded",
                                 "skipped", "exhausted", "failed"}]]
    /\ st.episode.handler_steps \subseteq Names
    /\ st.loop.failed <= Len(st.loop.results)
    /\ Len(st.loop.results) <= Total(Step)
    /\ pc \in {"step", "waiting", "running", "cancelling", "loop", "drained",
               "continuing", "restart", "completed", "failed", "cancelled"}
    /\ run \in 1..MaxRuns
    /\ pending \in [Signals -> Seq(1..MaxEvents)]

\* Every item and every attempt is called at most once, and all calls together
\* stay within total_invocations, however many Temporal runs they take
\* ("test_total_invocation_limit_stops_before_next_call").
EachCallOnceWithinTheLimit ==
    Cardinality(called) = dispatched /\ dispatched <= TotalInvocations

\* Events are taken in the order they were accepted, none is lost or seen twice,
\* whether they arrive before, during or after a change of runs.
EventsAreTakenInOrder ==
    \A s \in Signals :
        LET carried == IF pc = "restart" THEN carry.events[s] ELSE <<>> IN
        outcome.code # "queue" =>
            accepted[s] = SubSeq(accepted[s], 1, taken[s]) \o carried \o pending[s]

\* "Continue-as-new ... preserves ... required state"
\* (docs/operations/troubleshooting.md): the next run goes on with the state the
\* last one had.
ContinuationPreservesState ==
    [][ pc = "restart" => st' = st ]_vars

\* "every step entry carries an explicit `seq`": the entries of the audit trail
\* are in the order of execution, over all runs and revisits of a step.
SeqIsExecutionOrder ==
    \A m, n \in Names :
        LET e == st.entries[m] f == st.entries[n] IN
        /\ e.status # "none" => e.seq <= st.seq /\ (~Ended => e.seq < st.seq)
        /\ m # n /\ e.status # "none" /\ f.status # "none" => e.seq # f.seq

\* The failure that ends an execution names a step whose audit entry says failed:
\* handlers that fail, and a state that grows too large, do not mask it.
PrimaryFailureIsRecorded ==
    pc = "failed" /\ outcome.primary # NoStep => st.entries[outcome.primary].status = "failed"

\* A step ends, by success or by failure, only after all its calls have ended
\* ("test_fatal_child_failure_propagates_and_awaits_siblings").
CallsEndBeforeTheStep ==
    [][ /\ pc \in {"running", "cancelling"}
        /\ pc' \notin {"running", "cancelling", "cancelled"}
        /\ outcome'.code # "queue"
        => Tasks("running") = {} ]_vars

\* A decision was taken whose last branch names two steps: the runner goes to its
\* default, the analysis and the region of a handler go by its then.
DecidedTwoWays ==
    \E n \in Names \cap st.outputs : wf.steps[n].branch_then # NoStep

\* "path-sensitive dataflow analysis": an accepted workflow resolves every
\* reference, with any outcome of its operations, before a second failure is
\* handled.
ResolvesUntilSecondFailure ==
    outcome.code \in {"resolution", "result"} => Len(st.failures) >= 2

\* A step is recorded failed, and its handler runs, only when one of its calls
\* failed or a limit was reached; continuing as new is no failure.
ContinuationIsNoFailure ==
    [][ Len(st'.failures) > Len(st.failures) =>
            Tasks("error") # {} \/ TooLarge(st) \/ TooLarge(st') ]_vars

\* Every execution ends, also one whose handlers lead back to the failing step.
EveryExecutionEnds == <>Ended

\* The state is well formed and every call of an execution is made once, within its limit.
InvocationsAreBounded ==
  /\ TypeOK
  /\ EachCallOnceWithinTheLimit

\* Events are consumed in the order they came, and the record has the order of execution.
OrderIsKept ==
  /\ EventsAreTakenInOrder
  /\ SeqIsExecutionOrder

\* As long as no last branch with two targets was decided: the failure that counts is on
\* the record, and until a second failure is handled every reference of an accepted
\* workflow resolves.
FailuresAreHandled ==
  ~DecidedTwoWays => PrimaryFailureIsRecorded /\ ResolvesUntilSecondFailure

\* Neither a change of Temporal runs nor the end of a step leaves anything behind.
RunsHandOver ==
  /\ ContinuationPreservesState
  /\ CallsEndBeforeTheStep
=============================================================================
