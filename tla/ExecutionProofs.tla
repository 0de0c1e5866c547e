--------------------------- MODULE ExecutionProofs ---------------------------
(***************************************************************************)
(* Proofs about WorkflowRunner and StepCalls, the two halves of an         *)
(* execution.                                                              *)
(*                                                                         *)
(* The runner, for any workflows, events, bounds and number of Temporal    *)
(* runs.  Most of the work is done once.  Every step of the runner either  *)
(* Stays at the current step or Gives it up in one of few ways: it GoesOn  *)
(* along a Way of the step, it Handles a failure, or it Fails.  The        *)
(* invariants are proved from these kinds, not from the seventeen actions: *)
(*   WellFormed          the type of the state, and what each pc implies;  *)
(*   CallsRecorded       the calls made, against the results recorded;     *)
(*   EventsInPlace       consumed, carried and queued events, in order;    *)
(*   AnalysisRespected   the data the analysis promised is there.          *)
(*                                                                         *)
(* The calls, for any executions, steps, contracts, retries, continuations *)
(* and limits, and for any order of answers, timeouts, duplicates and      *)
(* losses.  CallInv follows one response from the service to the call it   *)
(* answers: what a service may still send (ServicesFit), what is queued at *)
(* a run or carried into the next one (QueuesFit, Counted), what the cache *)
(* holds (CacheFits), and what each call and result record (CallsFit,      *)
(* ResultsFit).  A response is about an earlier call of its step; Onward   *)
(* says that no step of the system changes which calls are earlier, so a   *)
(* response once right stays right wherever it waits.                      *)
(***************************************************************************)
EXTENDS WorkflowRunner, StepCalls, FiniteSetTheorems, SequenceTheorems, TLAPS

-----------------------------------------------------------------------------
(* Reachability.                                                           *)

\* The closure has the entries, and all successors of what it has.
LEMMA ClosureIsClosed ==
    ASSUME NEW succ, NEW entries \in SUBSET Names, \A n \in Names : succ[n] \subseteq Names
    PROVE  /\ Closure(succ, entries) \subseteq Names
           /\ entries \subseteq Closure(succ, entries)
           /\ \A n \in Closure(succ, entries) : succ[n] \subseteq Closure(succ, entries)
<1>1. Closure(succ, entries) \subseteq Names /\ entries \subseteq Closure(succ, entries)
  BY DEF Closure
<1>2. ASSUME NEW n \in Closure(succ, entries), NEW m \in succ[n]
      PROVE  m \in Closure(succ, entries)
  <2>1. n \in Names /\ m \in Names
    BY <1>2 DEF Closure
  <2>2. ASSUME NEW S \in SUBSET Names, entries \subseteq S, \A x \in S : succ[x] \subseteq S
        PROVE  m \in S
    <3>1. n \in S
      BY <1>2, <2>2 DEF Closure
    <3> QED BY <1>2, <2>2, <3>1
  <2> QED BY <2>1, <2>2 DEF Closure
<1> QED BY <1>1, <1>2

\* It is within every closed set that has the entries.
LEMMA ClosureIsLeast ==
    ASSUME NEW succ, NEW entries, NEW S \in SUBSET Names,
           entries \subseteq S, \A n \in S : succ[n] \subseteq S
    PROVE  Closure(succ, entries) \subseteq S
  BY DEF Closure

\* The steps an execution may be at outside of a handler's region.
Normal(w) == NormalReachable(w)

LEMMA NormalIsClosed ==
    ASSUME NEW w, w.entry \in Names
    PROVE  /\ Normal(w) \subseteq Names
           /\ w.entry \in Normal(w)
           /\ \A n \in Normal(w) : NormalSuccessors(w.steps[n]) \subseteq Normal(w)
<1> DEFINE succ == [n \in Names |-> NormalSuccessors(w.steps[n])]
<1>1. \A n \in Names : succ[n] = NormalSuccessors(w.steps[n]) /\ succ[n] \subseteq Names
  BY DEF NormalSuccessors
<1>2. Normal(w) = Closure(succ, {w.entry})
  BY DEF Normal, NormalReachable
<1> HIDE DEF succ
<1>3. /\ Closure(succ, {w.entry}) \subseteq Names
      /\ {w.entry} \subseteq Closure(succ, {w.entry})
      /\ \A n \in Closure(succ, {w.entry}) : succ[n] \subseteq Closure(succ, {w.entry})
  BY <1>1, ClosureIsClosed
<1>4. ASSUME NEW n \in Normal(w) PROVE NormalSuccessors(w.steps[n]) \subseteq Normal(w)
  <2>1. n \in Names /\ succ[n] \subseteq Normal(w)
    BY <1>2, <1>3, <1>4
  <2> QED BY <1>1, <2>1
<1> QED BY <1>2, <1>3, <1>4

\* The region of a handler: from the handler on, up to the normal flow.
LEMMA RegionEndsInNormal ==
    ASSUME NEW w, w.entry \in Names, NEW h \in Names
    PROVE  /\ HandlerRegion(w, h) \subseteq Names /\ h \in HandlerRegion(w, h)
           /\ h \in Normal(w) => HandlerRegion(w, h) = {h}
           /\ \A n \in HandlerRegion(w, h) \cap Normal(w) : n = h
           /\ \A n \in HandlerRegion(w, h) : \A m \in NormalSuccessors(w.steps[n]) :
                m \in HandlerRegion(w, h) \/ m \in Normal(w)
<1> DEFINE N == Normal(w)
           succ == [n \in Names |-> IF n \in N THEN {}
                                    ELSE NormalSuccessors(w.steps[n]) \ (N \ {h})]
           R == Closure(succ, {h})
<1>1. HandlerRegion(w, h) = R
  BY DEF HandlerRegion, Normal
<1>2. /\ \A n \in Names : succ[n] \subseteq Names
      /\ \A n \in Names : n \in N => succ[n] = {}
      /\ \A n \in Names : n \notin N => succ[n] = NormalSuccessors(w.steps[n]) \ (N \ {h})
  BY DEF NormalSuccessors
<1>3. \A n \in N : n \in Names /\ NormalSuccessors(w.steps[n]) \subseteq N
  BY NormalIsClosed
<1> HIDE DEF succ, N
<1>4. R \subseteq Names /\ h \in R /\ \A n \in R : succ[n] \subseteq R
  BY <1>2, ClosureIsClosed
<1>5. ASSUME h \in N PROVE R = {h}
  <2>1. {h} \in SUBSET Names /\ \A n \in {h} : succ[n] \subseteq {h}
    BY <1>2, <1>5
  <2>2. R \subseteq {h}
    BY <2>1, ClosureIsLeast
  <2> QED BY <1>4, <2>2
<1>6. R \subseteq (Names \ N) \cup {h}
  <2> DEFINE S == (Names \ N) \cup {h}
  <2>1. S \in SUBSET Names /\ {h} \subseteq S
    OBVIOUS
  <2>2. \A n \in S : succ[n] \subseteq S
    BY <1>2
  <2> QED BY <2>1, <2>2, ClosureIsLeast
<1>7. ASSUME NEW n \in R, NEW m \in NormalSuccessors(w.steps[n])
      PROVE  m \in R \/ m \in N
  BY <1>2, <1>3, <1>4, <1>7
<1> HIDE DEF R
<1>8. N = Normal(w)
  BY DEF N
<1> QED BY <1>1, <1>4, <1>5, <1>6, <1>7, <1>8

-----------------------------------------------------------------------------
(* The analysis: what is available is there on every way.                  *)

LEMMA AvailableOnEveryWay ==
    ASSUME NEW edges, NEW reachable, NEW starts, NEW n \in Names,
           NEW r \in MustAvailable(edges, reachable, starts)[n]
    PROVE  /\ r \in Roots
           /\ n \in DOMAIN starts => r \in starts[n]
           /\ \A e \in edges : e.target = n /\ e.source \in reachable =>
                r \in MustAvailable(edges, reachable, starts)[e.source] \/ r \in e.produced
<1> DEFINE Has(m) == \E S \in SUBSET Names : m \in S /\ Certain(r, S, edges, reachable, starts)
<1>1. /\ r \in Roots /\ Has(n)
      /\ \A m \in Names : Has(m) => r \in MustAvailable(edges, reachable, starts)[m]
  BY DEF MustAvailable
<1>2. PICK S \in SUBSET Names : n \in S /\ Certain(r, S, edges, reachable, starts)
  BY <1>1
<1>3. n \in DOMAIN starts => r \in starts[n]
  BY <1>2 DEF Certain
<1>4. ASSUME NEW e \in edges, e.target = n, e.source \in reachable, r \notin e.produced
      PROVE  r \in MustAvailable(edges, reachable, starts)[e.source]
  <2>1. e.source \in S
    BY <1>2, <1>4 DEF Certain
  <2>2. Has(e.source) /\ e.source \in Names
    BY <1>2, <2>1
  <2> HIDE DEF Has
  <2> QED BY <1>1, <2>2
<1> HIDE DEF Has
<1> QED BY <1>1, <1>3, <1>4

LEMMA EdgesAreBetweenNames ==
    ASSUME NEW w, NEW e \in ExecutionEdges(w)
    PROVE  e.source \in Names /\ e.target \in Names
  BY DEF ExecutionEdges, Edge

LEMMA ReachableIsClosed ==
    ASSUME NEW w, NEW entries \in SUBSET Names
    PROVE  /\ entries \subseteq Reachable(ExecutionEdges(w), entries)
           /\ \A e \in ExecutionEdges(w) : e.source \in Reachable(ExecutionEdges(w), entries) =>
                e.target \in Reachable(ExecutionEdges(w), entries)
<1> DEFINE E == ExecutionEdges(w)
           succ == Successors(E)
<1>1. \A e \in E : e.source \in Names /\ e.target \in Names
  BY EdgesAreBetweenNames
<1> HIDE DEF E
<1>2. \A n \in Names : succ[n] \subseteq Names
  BY <1>1 DEF Successors
<1>3. \A e \in E : e.target \in succ[e.source]
  BY <1>1 DEF Successors
<1> HIDE DEF succ
<1>4. /\ entries \subseteq Closure(succ, entries)
      /\ \A n \in Closure(succ, entries) : succ[n] \subseteq Closure(succ, entries)
  BY <1>2, ClosureIsClosed
<1>5. Reachable(E, entries) = Closure(succ, entries)
  BY DEF Reachable, succ
<1>6. entries \subseteq Reachable(E, entries)
  BY <1>4, <1>5
<1>7. \A e \in E : e.source \in Reachable(E, entries) => e.target \in Reachable(E, entries)
  BY <1>3, <1>4, <1>5
<1> QED BY <1>6, <1>7 DEF E

\* The parts of Accepted: the normal flow, and the flow of the handlers.
NormalReach(w)  == Reachable(ExecutionEdges(w), {w.entry})
NormalAvail(w)  == MustAvailable(ExecutionEdges(w), NormalReach(w), [n \in {w.entry} |-> {}])
HandlerStart(w) == HandlerEntryAvailable(w, NormalReach(w), NormalAvail(w))
HandlerReach(w) == Reachable(ExecutionEdges(w), DOMAIN HandlerStart(w))
HandlerAvail(w) == MustAvailable(ExecutionEdges(w), HandlerReach(w), HandlerStart(w))

\* What the analysis promises of an execution at step n: until a failure has been
\* handled by the normal flow, until a second one has by the handlers' flow.
Known(w, n, failures, outputs) ==
    /\ failures = 0 => n \in NormalReach(w) /\ NormalAvail(w)[n] \subseteq outputs
    /\ failures = 1 => n \in HandlerReach(w) /\ HandlerAvail(w)[n] \subseteq outputs

LEMMA KnownAtEntry ==
    ASSUME NEW w, w.entry \in Names
    PROVE  Known(w, w.entry, 0, {})
<1>1. w.entry \in NormalReach(w)
  BY ReachableIsClosed DEF NormalReach
<1>2. ASSUME NEW r \in NormalAvail(w)[w.entry] PROVE FALSE
  <2> DEFINE starts == [n \in {w.entry} |-> {}]
  <2>1. w.entry \in DOMAIN starts => r \in starts[w.entry]
    BY <1>2, AvailableOnEveryWay DEF NormalAvail
  <2> QED BY <2>1
<1> QED BY <1>1, <1>2 DEF Known

LEMMA HandlersAreNames ==
    ASSUME NEW w
    PROVE  DOMAIN HandlerStart(w) \subseteq Names
  BY DEF HandlerStart, HandlerEntryAvailable, FailureEdges, Edge

LEMMA KnownAlongAnEdge ==
    ASSUME NEW w, w.entry \in Names, NEW n \in Names, NEW t \in Names, NEW produced,
           NEW failures, NEW outputs, NEW more,
           Known(w, n, failures, outputs), Edge(n, t, produced) \in ExecutionEdges(w),
           outputs \cup produced \subseteq more
    PROVE  Known(w, t, failures, more)
<1> DEFINE e == Edge(n, t, produced)
<1>1. e \in ExecutionEdges(w) /\ e.source = n /\ e.target = t /\ e.produced = produced
  BY DEF Edge
<1> HIDE DEF e
<1>2. ASSUME failures = 0 PROVE t \in NormalReach(w) /\ NormalAvail(w)[t] \subseteq more
  <2>1. n \in NormalReach(w) /\ NormalAvail(w)[n] \subseteq outputs
    BY <1>2 DEF Known
  <2>2. t \in NormalReach(w)
    BY <1>1, <2>1, ReachableIsClosed DEF NormalReach
  <2>3. \A r \in NormalAvail(w)[t] : r \in NormalAvail(w)[n] \/ r \in produced
    BY <1>1, <2>1, AvailableOnEveryWay DEF NormalAvail
  <2> QED BY <2>1, <2>2, <2>3
<1>3. ASSUME failures = 1 PROVE t \in HandlerReach(w) /\ HandlerAvail(w)[t] \subseteq more
  <2>1. n \in HandlerReach(w) /\ HandlerAvail(w)[n] \subseteq outputs
    BY <1>3 DEF Known
  <2>2. t \in HandlerReach(w)
    BY <1>1, <2>1, ReachableIsClosed, HandlersAreNames DEF HandlerReach
  <2>3. \A r \in HandlerAvail(w)[t] : r \in HandlerAvail(w)[n] \/ r \in produced
    BY <1>1, <2>1, AvailableOnEveryWay DEF HandlerAvail
  <2> QED BY <2>1, <2>2, <2>3
<1> QED BY <1>2, <1>3 DEF Known

LEMMA KnownAtAHandler ==
    ASSUME NEW w, w.entry \in Names, NEW n \in Names, w.steps[n].kind = "op",
           HandlerOf(w, n) \in Names, NEW outputs, NEW more,
           Known(w, n, 0, outputs), outputs \cup {"error"} \subseteq more
    PROVE  Known(w, HandlerOf(w, n), 1, more)
<1> DEFINE h == HandlerOf(w, n)
           e == Edge(n, h, {"error"})
           F == {x \in FailureEdges(w) : x.source \in NormalReach(w)}
<1>1. n \in NormalReach(w) /\ NormalAvail(w)[n] \subseteq outputs
  BY DEF Known
<1>2. e \in F /\ e.source = n /\ e.target = h /\ e.produced = {"error"}
  BY <1>1 DEF Edge, FailureEdges
<1>3. /\ h \in DOMAIN HandlerStart(w)
      /\ \A r \in HandlerStart(w)[h] :
            \A x \in F : x.target = h => r \in NormalAvail(w)[x.source] \cup x.produced
  <2> HIDE DEF h, e
  <2> QED BY <1>2 DEF HandlerStart, HandlerEntryAvailable
<1> HIDE DEF h, e, F
<1>4. HandlerStart(w)[h] \subseteq more
  BY <1>1, <1>2, <1>3
<1>5. h \in HandlerReach(w)
  BY <1>3, HandlersAreNames, ReachableIsClosed DEF HandlerReach
<1>6. h \in Names
  BY DEF h
<1>7. \A r \in HandlerAvail(w)[h] : r \in HandlerStart(w)[h]
  BY <1>3, <1>6, AvailableOnEveryWay DEF HandlerAvail
<1> QED BY <1>4, <1>5, <1>7 DEF Known, h

\* In an accepted workflow, what is known resolves every reference of a step.
LEMMA KnownResolves ==
    ASSUME NEW w, Accepted(w), NEW n \in Names, NEW failures \in {0, 1}, NEW outputs,
           Known(w, n, failures, outputs),
           w.steps[n].input \in Roots \cup {NoRoot}, w.result \in Roots \cup {NoRoot}
    PROVE  /\ w.steps[n].kind # "terminal" => w.steps[n].input \in outputs \cup {NoRoot}
           /\ w.steps[n].kind = "terminal" /\ ~w.steps[n].reason =>
                w.result \in outputs \cup {NoRoot}
<1> DEFINE guaranteed == {r \in Roots : /\ n \in NormalReach(w) => r \in NormalAvail(w)[n]
                                        /\ n \in HandlerReach(w) => r \in HandlerAvail(w)[n]}
<1>1. /\ w.steps[n].kind # "terminal" /\ w.steps[n].input # NoRoot =>
            w.steps[n].input \in guaranteed
      /\ w.steps[n].kind = "terminal" /\ ~w.steps[n].reason /\ w.result # NoRoot =>
            w.result \in guaranteed
  BY DEF Accepted, NormalReach, NormalAvail, HandlerStart, HandlerReach, HandlerAvail
<1>2. guaranteed \subseteq outputs
  BY DEF Known
<1> HIDE DEF guaranteed
<1> QED BY <1>1, <1>2

-----------------------------------------------------------------------------
(* A workflow that is executed.                                            *)

Executable(w) ==
    /\ w.entry \in Names /\ w.on_error \in Targets /\ w.result \in Roots \cup {NoRoot}
    /\ w.steps \in [Names -> DeclaredSteps]
    /\ \A n \in Names : DeclaredStep(w.steps[n])
    /\ \A h \in Names : w.region[h] = HandlerRegion(w, h)
    /\ Accepted(w)

\* Accepted, by the names of its parts.
LEMMA AcceptedMeans ==
    ASSUME NEW w
    PROVE  Accepted(w) <=>
             /\ ~Cyclic(ExecutionEdges(w))
             /\ NormalReach(w) \cup HandlerReach(w) = Names
             /\ \A n \in Names : \/ w.steps[n].kind = "terminal"
                                 \/ \E e \in ExecutionEdges(w) : e.source = n
             /\ \A n \in Names :
                  LET guaranteed == {r \in Roots :
                        /\ n \in NormalReach(w) => r \in NormalAvail(w)[n]
                        /\ n \in HandlerReach(w) => r \in HandlerAvail(w)[n]}
                  IN  /\ w.steps[n].kind # "terminal" /\ w.steps[n].input # NoRoot =>
                            w.steps[n].input \in guaranteed
                      /\ /\ w.steps[n].kind = "terminal" /\ ~w.steps[n].reason
                         /\ w.result # NoRoot
                         => w.result \in guaranteed
  BY DEF Accepted, NormalReach, NormalAvail, HandlerStart, HandlerReach, HandlerAvail

LEMMA CompiledIsExecutable ==
    ASSUME NEW f \in Flows, \A n \in Names : DeclaredStep(f.steps[n]), Accepted(f)
    PROVE  Executable(Compiled(f))
<1> DEFINE w == Compiled(f)
<1>1. /\ w.entry = f.entry /\ w.on_error = f.on_error /\ w.result = f.result
      /\ w.steps = f.steps /\ \A h \in Names : w.region[h] = HandlerRegion(f, h)
  BY DEF Compiled
<1> HIDE DEF w
<1>2. f \in DeclaredWorkflows
  BY RunnerConstants
<1>3. /\ w.entry \in Names /\ w.on_error \in Targets /\ w.result \in Roots \cup {NoRoot}
      /\ w.steps \in [Names -> DeclaredSteps]
  BY <1>1, <1>2 DEF DeclaredWorkflows
<1>4. \A h \in Names : HandlerRegion(w, h) = HandlerRegion(f, h)
  BY <1>1 DEF HandlerRegion, NormalReachable
<1>5. ExecutionEdges(w) = ExecutionEdges(f) /\ FailureEdges(w) = FailureEdges(f)
  BY <1>1 DEF ExecutionEdges, FailureEdges, HandlerOf
<1>6. Accepted(w)
  <2>1. NormalReach(w) = NormalReach(f) /\ NormalAvail(w) = NormalAvail(f)
    BY <1>1, <1>5 DEF NormalReach, NormalAvail
  <2>2. HandlerStart(w) = HandlerStart(f)
    BY <1>5, <2>1 DEF HandlerStart, HandlerEntryAvailable
  <2>3. HandlerReach(w) = HandlerReach(f) /\ HandlerAvail(w) = HandlerAvail(f)
    BY <1>5, <2>2 DEF HandlerReach, HandlerAvail
  <2> QED BY <1>1, <1>5, <2>1, <2>2, <2>3, AcceptedMeans
<1> QED BY <1>1, <1>3, <1>4, <1>6 DEF Executable, w

\* Where a declared step may lead to, and how often its operation may be called.
LEMMA StepFacts ==
    ASSUME NEW step \in DeclaredSteps, DeclaredStep(step)
    PROVE  /\ step.kind \in {"op", "wait", "sleep", "terminal"}
           /\ step.kind = "terminal" => ~OnResult(step) /\ ~step.condition
           /\ step.kind = "sleep" => ~OnResult(step)
           /\ step.kind # "terminal" /\ ~OnResult(step) => step.then \in Names
           /\ step.condition => step.then \in Names
           /\ OnResult(step) => step.branch_default \in Names
           /\ step.mode \in {"once", "until", "each"}
           /\ step.mode # "once" => step.kind = "op"
           /\ Total(step) \in Nat
<1>1. /\ step.then \in Targets /\ step.branch_default \in Targets
      /\ step.kind \in {"op", "wait", "sleep", "terminal"}
      /\ step.condition \in BOOLEAN /\ step.mode \in {"once", "until", "each"}
      /\ step.items \in Nat /\ step.max_iterations \in Nat
  BY DEF DeclaredSteps
<1>2. ASSUME step.kind = "terminal"
      PROVE  step.branch_default = NoStep /\ step.condition = FALSE /\ step.mode = "once"
  <2>1. [step EXCEPT !.reason = FALSE] = [FlowStep EXCEPT !.kind = "terminal"]
    BY <1>2 DEF DeclaredStep
  <2>2. /\ [step EXCEPT !.reason = FALSE].branch_default = step.branch_default
        /\ [step EXCEPT !.reason = FALSE].condition = step.condition
        /\ [step EXCEPT !.reason = FALSE].mode = step.mode
    BY DEF DeclaredSteps
  <2>3. /\ [FlowStep EXCEPT !.kind = "terminal"].branch_default = NoStep
        /\ [FlowStep EXCEPT !.kind = "terminal"].condition = FALSE
        /\ [FlowStep EXCEPT !.kind = "terminal"].mode = "once"
    BY DEF FlowStep
  <2> QED BY <2>1, <2>2, <2>3
<1>3. Total(step) \in Nat
  BY <1>1 DEF Total
<1>4. step.kind # "terminal" =>
        /\ step.then # NoStep \/ OnResult(step)
        /\ step.kind = "sleep" => ~OnResult(step)
        /\ step.kind # "op" => step.mode = "once"
        /\ step.condition => step.then # NoStep
  BY DEF DeclaredStep
<1> QED BY <1>1, <1>2, <1>3, <1>4 DEF OnResult, Targets

\* The ways a step may be left, and what it has produced then.
Way(step, n, target, produced) ==
    \/ /\ step.kind \in {"op", "wait"} /\ OnResult(step)
       /\ target \in {step.branch, step.branch_default}
       /\ produced = {n}
    \/ /\ step.kind # "terminal" /\ ~OnResult(step)
       /\ target = step.then /\ produced = (IF step.kind = "sleep" THEN {} ELSE {n})
    \/ step.kind = "op" /\ step.condition /\ target = step.then /\ produced = {}
    \/ step.kind = "wait" /\ target = step.on_timeout /\ produced = {}
    \/ step.kind = "op" /\ step.mode = "until" /\ target = step.on_exhausted /\ produced = {}

\* The edges of the analysis and the successors of the runner are these ways.
LEMMA WaysAreEdges ==
    ASSUME NEW w, NEW n \in Names, NEW target \in Names, NEW produced,
           Way(w.steps[n], n, target, produced),
           n \in produced => w.steps[n].branch_then = NoStep
    PROVE  /\ Edge(n, target, produced) \in ExecutionEdges(w)
           /\ target \in NormalSuccessors(w.steps[n])
<1> DEFINE step == w.steps[n]
           e == Edge(n, target, produced)
           out  == IF step.kind = "sleep" THEN {} ELSE {n}
           final == IF step.branch_then # NoStep THEN step.branch_then
                   ELSE step.branch_default
           all ==  (IF step.condition THEN {Edge(n, step.then, {})} ELSE {})
                     \cup (IF OnResult(step)
                           THEN {Edge(n, step.branch, out), Edge(n, final, out)}
                           ELSE {Edge(n, step.then, out)})
                     \cup (IF step.kind = "wait" THEN {Edge(n, step.on_timeout, {})} ELSE {})
                     \cup (IF step.mode = "until" THEN {Edge(n, step.on_exhausted, {})} ELSE {})
<1>1. step.kind # "terminal"
  BY DEF Way
<1>2. OnResult(step) /\ produced = {n} => step.branch_then = NoStep
  OBVIOUS
<1>3. e \in all
  BY <1>2 DEF Way
<1>4. e.target \in Names
  BY DEF Edge
<1>5. {x \in all : x.target \in Names} \subseteq ExecutionEdges(w)
  BY <1>1 DEF ExecutionEdges
<1>6. e \in ExecutionEdges(w)
  <2> HIDE DEF all, e
  <2> QED BY <1>3, <1>4, <1>5
<1>7. target \in NormalSuccessors(step)
  <2> HIDE DEF e, all
  <2> QED BY <1>2 DEF Way, NormalSuccessors
<1> QED BY <1>6, <1>7

-----------------------------------------------------------------------------
(* The first invariant: what kind of state the runner is in.               *)

Statuses == {"none", "slept", "timed_out", "succeeded", "skipped", "exhausted", "failed"}
Entries  == [Names -> [seq : Nat, status : Statuses]]
Episodes == [primary : Targets, handler_steps : SUBSET Names]
Loops    == [results : Seq({"included", "omitted"}), failed : Nat]
RunStates ==
    [cur : Names, outputs : SUBSET Roots, entries : Entries, transitions : Nat,
     failures : Seq(Names), episode : Episodes, seq : Nat, invocations : Nat, loop : Loops]

Codes == {"none", "step", "resolution", "result", "wait_timeout", "exhausted", "limit", "queue",
          "decision", "record"}
Outcomes == [code : Codes, primary : Targets]

Types ==
    /\ Executable(wf)
    /\ st \in RunStates
    /\ pc \in {"step", "waiting", "running", "cancelling", "loop", "drained",
               "continuing", "restart", "completed", "failed", "cancelled"}
    /\ run \in 1..MaxRuns
    /\ outcome \in Outcomes

\* The head of the step loop has been passed.
Settled == st.episode # NoEpisode => st.cur \in st.episode.handler_steps

\* The loop of a step is within its bounds.
LoopFits(loop, step) ==
    /\ loop.failed <= Len(loop.results) /\ Len(loop.results) <= Total(step)
    /\ Len(loop.results) > 0 => step.kind = "op"

TaskStates == {"queued", "running", "ok", "error", "cancelled"}

Shaped ==
    /\ LoopFits(st.loop, Step)
    /\ Len(st.loop.results) > 0 => Settled
    /\ pc = "waiting" => Step.kind = "wait" /\ Settled
    /\ pc \in {"running", "cancelling", "loop", "drained"} => Step.kind = "op" /\ Settled
    /\ pc \in {"running", "cancelling"} =>
         chunk \in [NextKeys(Step, Len(st.loop.results)) -> TaskStates]
    /\ pc = "continuing" => run < MaxRuns
    /\ pc = "restart" => carry.state = st
    /\ ~Ended => outcome = Running

WellFormed == Types /\ Shaped

(***************************************************************************)
(* The kinds of a runner's step, as far as the state of the run goes.      *)
(***************************************************************************)
\* The execution leaves the current step, which gets its audit entry.
Leaves(ending) ==
    /\ ~Ended
    /\ pc' \in {"step", "continuing"} /\ (pc' = "continuing" => run < MaxRuns)
    /\ UNCHANGED <<wf, carry, run, outcome>>
    /\ st' \in RunStates
    /\ st'.seq = st.seq + 1 /\ st'.loop = NoLoop /\ st'.invocations = st.invocations
    /\ st'.entries = [st.entries EXCEPT ![st.cur] = [seq |-> st.seq, status |-> ending]]

\* By one of the ways of the step.
GoesOn ==
    /\ \E ending \in Statuses \ {"none"} : Leaves(ending)
    /\ st'.failures = st.failures /\ st'.episode = Entering.episode
    /\ \E produced : /\ Way(Step, st.cur, st'.cur, produced)
                     /\ st.outputs \cup produced \subseteq st'.outputs

\* Or to the handler of its failure.
Handles ==
    /\ Leaves("failed")
    /\ Step.kind = "op" /\ Entering.episode = NoEpisode
    /\ st'.cur = HandlerOf(wf, st.cur)
    /\ st'.failures = Append(st.failures, st.cur)
    /\ st'.episode = [primary |-> st.cur, handler_steps |-> wf.region[st'.cur]]
    /\ st.outputs \cup {"error"} \subseteq st'.outputs

\* The execution fails at the current step.
Fails(code) ==
    /\ ~Ended
    /\ pc' = "failed" /\ outcome' \in Outcomes /\ outcome'.code = code
    /\ UNCHANGED <<wf, carry, run>>
    /\ st' \in RunStates /\ st'.cur = st.cur /\ st'.seq = st.seq
    /\ st.outputs \subseteq st'.outputs
    /\ LoopFits(st'.loop, Step)
    /\ Len(st'.loop.results) > 0 => st'.episode = NoEpisode \/ st.cur \in st'.episode.handler_steps
    /\ st'.entries[st.cur].status = "failed"
    /\ st'.entries[st.cur] = st.entries[st.cur] \/ st'.entries[st.cur].seq = st.seq
    /\ \A n \in Names : n # st.cur => st'.entries[n] = st.entries[n]
    /\ outcome'.primary = st.cur \/ /\ Entering.episode # NoEpisode
                                    /\ outcome'.primary = Entering.episode.primary

\* The state at the end of the current step's own work.
From(s) ==
    /\ ~Ended
    /\ s \in RunStates /\ s.cur = st.cur /\ s.seq = st.seq /\ s.entries = st.entries
    /\ s.invocations = st.invocations /\ s.failures = st.failures
    /\ s.episode = Entering.episode /\ st.outputs \subseteq s.outputs
    /\ LoopFits(s.loop, Step)
    /\ Len(s.loop.results) > 0 => s.episode = NoEpisode \/ s.cur \in s.episode.handler_steps

LEMMA DeclaredAt ==
    ASSUME NEW w, Executable(w), NEW n \in Names
    PROVE  w.steps[n] \in DeclaredSteps /\ DeclaredStep(w.steps[n])
  BY DEF Executable

LEMMA StepIsDeclared ==
    ASSUME Types
    PROVE  /\ st.cur \in Names /\ Step \in DeclaredSteps /\ DeclaredStep(Step)
           /\ st.cur \in Roots
  BY DEF Types, Executable, RunStates, Step, Roots

LEMMA EpisodeFacts ==
    ASSUME Types
    PROVE  /\ NoEpisode \in Episodes /\ st.episode \in Episodes
           /\ Entering \in RunStates
           /\ Entering.episode = NoEpisode \/ st.cur \in Entering.episode.handler_steps
           /\ Entering.episode \in {st.episode, NoEpisode}
           /\ Settled => Entering = st
           /\ Entering.cur = st.cur /\ Entering.seq = st.seq /\ Entering.entries = st.entries
           /\ Entering.invocations = st.invocations /\ Entering.failures = st.failures
           /\ Entering.outputs = st.outputs /\ Entering.loop = st.loop
           /\ Entering.transitions = st.transitions
<1>1. /\ st \in RunStates
      /\ NoEpisode \in Episodes
  BY DEF Types, NoEpisode, Episodes, Targets
<1> DEFINE y == [st EXCEPT !.episode = NoEpisode]
<1>2. /\ y \in RunStates /\ y.episode = NoEpisode /\ y.cur = st.cur /\ y.seq = st.seq
      /\ y.entries = st.entries /\ y.invocations = st.invocations
      /\ y.failures = st.failures /\ y.outputs = st.outputs /\ y.loop = st.loop
      /\ y.transitions = st.transitions
  BY <1>1 DEF RunStates
<1>3. st.episode \in Episodes
  BY <1>1 DEF RunStates
<1>4. Settled /\ st.episode = NoEpisode => y = st
  BY <1>1 DEF RunStates
<1>5. Entering = IF st.cur \in st.episode.handler_steps THEN st ELSE y
  BY DEF Entering
<1> HIDE DEF y
<1>6. CASE st.cur \in st.episode.handler_steps
  BY <1>1, <1>3, <1>5, <1>6
<1>7. CASE st.cur \notin st.episode.handler_steps
  BY <1>1, <1>2, <1>3, <1>4, <1>5, <1>7 DEF Settled
<1> QED BY <1>6, <1>7

LEMMA EnteringIsFrom ==
    ASSUME WellFormed, ~Ended
    PROVE  From(Entering)
  BY EpisodeFacts DEF WellFormed, Shaped, Types, From, Settled

\* FailWith, at a state whose audit entries may already have that of the step.
LEMMA FailWithFails ==
    ASSUME WellFormed, ~Ended, UNCHANGED wf, NEW s \in RunStates, s.cur = st.cur, s.seq = st.seq,
           s.episode # NoEpisode =>
             s.episode.primary = st.cur \/ /\ Entering.episode # NoEpisode
                                           /\ s.episode.primary = Entering.episode.primary,
           s.entries[st.cur] = st.entries[st.cur] \/ s.entries[st.cur].seq = st.seq,
           \A n \in Names : n # st.cur => s.entries[n] = st.entries[n],
           LoopFits(s.loop, Step), st.outputs \subseteq s.outputs,
           Len(s.loop.results) > 0 => s.episode = NoEpisode \/ st.cur \in s.episode.handler_steps,
           NEW code \in Codes, FailWith(s, code)
    PROVE  Fails(code)
<1> DEFINE e == [seq |-> s.seq, status |-> "failed"]
           y == [s EXCEPT !.entries[s.cur] = e]
<1>1. /\ s.cur \in Names /\ s.entries \in Entries /\ s.seq \in Nat /\ s.episode \in Episodes
  BY DEF RunStates
<1>2. e \in [seq : Nat, status : Statuses] /\ e.seq = s.seq /\ e.status = "failed"
  BY <1>1 DEF Statuses
<1> HIDE DEF e
<1>3. /\ y \in RunStates /\ y.cur = s.cur /\ y.seq = s.seq /\ y.loop = s.loop
      /\ y.episode = s.episode /\ y.outputs = s.outputs
      /\ y.entries[s.cur] = e /\ \A n \in Names : n # s.cur => y.entries[n] = s.entries[n]
  BY <1>1, <1>2 DEF RunStates, Entries
<1>4. Unhandled(s) = IF s.entries[s.cur].status = "failed" THEN s ELSE y
  BY DEF Unhandled, Entered, e
<1> HIDE DEF y
<1> DEFINE p == IF s.episode = NoEpisode THEN s.cur ELSE s.episode.primary
<1>5. /\ pc' = "failed" /\ outcome' = [code |-> code, primary |-> p] /\ st' = Unhandled(s)
      /\ UNCHANGED <<carry, run>>
  BY DEF FailWith
<1>6. outcome' \in Outcomes /\ outcome'.code = code /\ outcome'.primary = p
  BY <1>1, <1>5 DEF Outcomes, Episodes, Targets
<1>7. outcome'.primary = st.cur \/ /\ Entering.episode # NoEpisode
                                   /\ outcome'.primary = Entering.episode.primary
  BY <1>6
<1>8. CASE s.entries[s.cur].status = "failed"
  <2>1. st' = s
    BY <1>4, <1>5, <1>8
  <2> QED BY <1>5, <1>6, <1>7, <1>8, <2>1 DEF Fails
<1>9. CASE s.entries[s.cur].status # "failed"
  <2>1. st' = y
    BY <1>4, <1>5, <1>9
  <2> QED BY <1>2, <1>3, <1>5, <1>6, <1>7, <2>1 DEF Fails
<1> QED BY <1>8, <1>9

LEMMA FromFails ==
    ASSUME WellFormed, UNCHANGED wf, NEW s, From(s), NEW code \in Codes, FailWith(s, code)
    PROVE  Fails(code)
  BY FailWithFails DEF From

\* The same after the step's entry was made.
LEMMA RecordedFails ==
    ASSUME WellFormed, UNCHANGED wf, NEW s, From(s), NEW ending \in Statuses, NEW code \in Codes,
           FailWith(Entered(s, ending), code)
    PROVE  Fails(code)
<1> DEFINE e == [seq |-> s.seq, status |-> ending]
           done == [s EXCEPT !.entries[s.cur] = e]
<1>1. /\ s \in RunStates /\ s.cur \in Names /\ s.entries \in Entries /\ s.seq \in Nat
      /\ s.cur = st.cur /\ s.seq = st.seq /\ s.entries = st.entries
  BY DEF From, RunStates
<1>2. e \in [seq : Nat, status : Statuses] /\ e.seq = st.seq
  BY <1>1
<1> HIDE DEF e
<1>3. /\ done \in RunStates /\ done.cur = s.cur /\ done.seq = s.seq
      /\ done.episode = s.episode /\ done.outputs = s.outputs /\ done.loop = s.loop
      /\ done.entries = [st.entries EXCEPT ![st.cur] = e]
  BY <1>1, <1>2 DEF RunStates, Entries
<1>4. /\ done.entries[st.cur].seq = st.seq
      /\ \A n \in Names : n # st.cur => done.entries[n] = st.entries[n]
  BY <1>1, <1>2, <1>3 DEF Entries
<1>5. FailWith(done, code)
  BY DEF Entered, e
<1> HIDE DEF done
<1> QED BY <1>1, <1>3, <1>4, <1>5, FailWithFails DEF From

\* Advance, when the episode is kept and when a failure starts one.
LEMMA AdvanceLeaves ==
    ASSUME WellFormed, ~Ended, UNCHANGED wf, NEW s \in RunStates, s.cur = st.cur, s.seq = st.seq,
           s.entries = st.entries, s.invocations = st.invocations, st.outputs \subseteq s.outputs,
           s.episode # NoEpisode =>
             s.episode.primary = st.cur \/ /\ Entering.episode # NoEpisode
                                           /\ s.episode.primary = Entering.episode.primary,
           NEW ending \in Statuses, NEW target \in Names, Advance(s, ending, target)
    PROVE  \/ /\ Leaves(ending) /\ st'.cur = target /\ st'.failures = s.failures
              /\ st'.episode = s.episode /\ st'.outputs = s.outputs
           \/ Fails("limit")
<1> DEFINE e == [seq |-> s.seq, status |-> ending]
           done == [s EXCEPT !.entries[s.cur] = e]
           t == [done EXCEPT !.seq = @ + 1, !.cur = target, !.loop = NoLoop]
           u == [t EXCEPT !.cur = st.cur, !.seq = st.seq]
<1>1. /\ s.cur \in Names /\ s.entries \in Entries /\ s.seq \in Nat /\ s.episode \in Episodes
      /\ s.invocations \in Nat
  BY DEF RunStates
<1>2. e \in [seq : Nat, status : Statuses] /\ e.seq = st.seq /\ e.status = ending
  BY <1>1 DEF Statuses
<1>3. NoLoop \in Loops /\ NoLoop.failed = 0 /\ Len(NoLoop.results) = 0
  BY DEF NoLoop, Loops
<1> HIDE DEF e
<1>4. /\ done \in RunStates /\ done.cur = s.cur /\ done.seq = s.seq
      /\ done.episode = s.episode /\ done.failures = s.failures /\ done.outputs = s.outputs
      /\ done.invocations = s.invocations
      /\ done.entries = [st.entries EXCEPT ![st.cur] = e]
  BY <1>1, <1>2 DEF RunStates, Entries
<1>5. done = Entered(s, ending)
  BY DEF Entered, e
<1> HIDE DEF done
<1>6. /\ t \in RunStates /\ t.cur = target /\ t.seq = st.seq + 1
      /\ t.episode = s.episode /\ t.failures = s.failures /\ t.outputs = s.outputs
      /\ t.invocations = st.invocations /\ t.loop = NoLoop
      /\ t.entries = [st.entries EXCEPT ![st.cur] = e]
  <2>1. done.seq \in Nat /\ done.seq + 1 \in Nat
    BY <1>1, <1>4
  <2>2. t = [[[done EXCEPT !.seq = done.seq + 1] EXCEPT !.cur = target] EXCEPT !.loop = NoLoop]
    BY <1>4 DEF RunStates
  <2>3. /\ t \in RunStates /\ t.cur = target /\ t.seq = done.seq + 1
        /\ t.episode = done.episode /\ t.failures = done.failures /\ t.outputs = done.outputs
        /\ t.invocations = done.invocations /\ t.loop = NoLoop /\ t.entries = done.entries
    BY <1>3, <1>4, <2>1, <2>2 DEF RunStates
  <2> HIDE DEF t
  <2> QED BY <1>4, <2>3
<1>7. CheckpointAfterStep(t)
  BY <1>5 DEF Advance
<1> HIDE DEF t
<1>8. /\ u \in RunStates /\ u.cur = st.cur /\ u.seq = st.seq
      /\ u.episode = s.episode /\ u.loop = NoLoop /\ u.outputs = s.outputs
      /\ u.entries = [st.entries EXCEPT ![st.cur] = e]
  BY <1>1, <1>6 DEF RunStates
<1>9. CASE FailWith(u, "limit")
  <2> HIDE DEF u
  <2>1. /\ u.entries[st.cur].seq = st.seq
        /\ \A n \in Names : n # st.cur => u.entries[n] = st.entries[n]
    BY <1>1, <1>2, <1>8 DEF Entries
  <2>2. Total(Step) \in Nat
    BY StepIsDeclared, StepFacts DEF WellFormed
  <2>3. LoopFits(u.loop, Step) /\ ~(Len(u.loop.results) > 0)
    BY <1>3, <1>8, <2>2 DEF LoopFits
  <2>4. "limit" \in Codes
    BY DEF Codes
  <2> QED BY <1>8, <1>9, <2>1, <2>3, <2>4, FailWithFails
<1>10. CASE EndRun(t) \/ GoOn(t, "step")
  <2>1. /\ st' = t /\ pc' \in {"step", "continuing"} /\ (pc' = "continuing" => run < MaxRuns)
        /\ UNCHANGED <<carry, run, outcome>>
    BY <1>10 DEF EndRun, GoOn
  <2> QED BY <1>6, <2>1 DEF Leaves, e
<1> QED BY <1>7, <1>9, <1>10 DEF CheckpointAfterStep

\* The state with one more recorded transition.
LEMMA OneMoreTransition ==
    ASSUME NEW s \in RunStates
    PROVE  LET t == [s EXCEPT !.transitions = @ + 1]
           IN  /\ t \in RunStates /\ t.cur = s.cur /\ t.seq = s.seq /\ t.entries = s.entries
               /\ t.invocations = s.invocations /\ t.episode = s.episode
               /\ t.failures = s.failures /\ t.outputs = s.outputs
               /\ t.loop = s.loop
  BY DEF RunStates

LEMMA AdvanceGoesOn ==
    ASSUME WellFormed, UNCHANGED wf, NEW s, From(s), NEW ending \in Statuses \ {"none"},
           NEW target \in Names, NEW produced, Way(Step, st.cur, target, produced),
           st.outputs \cup produced \subseteq s.outputs,
           Advance(s, ending, target) \/ Divert(s, ending, target)
    PROVE  GoesOn \/ Fails("limit")
<1>1. CASE Advance(s, ending, target)
  <2>1. \/ /\ Leaves(ending) /\ st'.cur = target /\ st'.failures = s.failures
           /\ st'.episode = s.episode /\ st'.outputs = s.outputs
        \/ Fails("limit")
    BY <1>1, AdvanceLeaves DEF From
  <2> QED BY <2>1 DEF GoesOn, From
<1>2. CASE Divert(s, ending, target)
  <2> DEFINE t == [s EXCEPT !.transitions = @ + 1]
  <2>1. /\ t \in RunStates /\ t.cur = s.cur /\ t.seq = s.seq /\ t.entries = s.entries
        /\ t.invocations = s.invocations /\ t.episode = s.episode
        /\ t.failures = s.failures /\ t.outputs = s.outputs
    BY OneMoreTransition DEF From
  <2>2. Advance(t, ending, target)
    BY <1>2 DEF Divert
  <2> HIDE DEF t
  <2>3. \/ /\ Leaves(ending) /\ st'.cur = target /\ st'.failures = t.failures
           /\ st'.episode = t.episode /\ st'.outputs = t.outputs
        \/ Fails("limit")
    BY <2>1, <2>2, AdvanceLeaves DEF From
  <2> QED BY <2>1, <2>3 DEF GoesOn, From
<1> QED BY <1>1, <1>2

LEMMA SucceedGoesOn ==
    ASSUME WellFormed, UNCHANGED wf, NEW s, From(s), Step.kind \in {"op", "wait"}, Succeed(s, Step)
    PROVE  GoesOn \/ Fails("limit") \/ Fails("decision")
<1> DEFINE t == [s EXCEPT !.outputs = @ \cup {s.cur}]
<1>1. /\ s \in RunStates /\ s.cur = st.cur /\ st.cur \in Roots /\ s.outputs \subseteq Roots
      /\ Step \in DeclaredSteps /\ DeclaredStep(Step)
  BY StepIsDeclared DEF WellFormed, From, RunStates
<1>2. /\ t \in RunStates /\ t.outputs = s.outputs \cup {st.cur} /\ t.cur = s.cur
      /\ t.seq = s.seq /\ t.entries = s.entries /\ t.invocations = s.invocations
      /\ t.failures = s.failures /\ t.episode = s.episode /\ t.loop = s.loop
  BY <1>1 DEF RunStates
<1>3. \/ ~OnResult(Step) /\ Advance(t, "succeeded", Step.then)
      \/ /\ OnResult(Step)
         /\ \E target \in {Step.branch, Step.branch_default} \ {NoStep} :
              Divert(t, "succeeded", target)
      \/ FailWith(Entered(t, "succeeded"), "decision")
  BY DEF Succeed
<1> HIDE DEF t
<1>4. From(t) /\ st.outputs \cup {st.cur} \subseteq t.outputs
  BY <1>2 DEF From
<1>5. "succeeded" \in Statuses \ {"none"}
  BY DEF Statuses
<1>6. CASE ~OnResult(Step) /\ Advance(t, "succeeded", Step.then)
  <2>1. Step.then \in Names
    BY <1>1, <1>6, StepFacts
  <2>2. Way(Step, st.cur, Step.then, {st.cur})
    BY <1>6 DEF Way
  <2> QED BY <1>4, <1>5, <1>6, <2>1, <2>2, AdvanceGoesOn
<1>7. ASSUME OnResult(Step), NEW target \in {Step.branch, Step.branch_default} \ {NoStep},
             Divert(t, "succeeded", target)
      PROVE  GoesOn \/ Fails("limit")
  <2>1. target \in Names
    BY <1>1, <1>7 DEF DeclaredSteps, Targets
  <2>2. Way(Step, st.cur, target, {st.cur})
    BY <1>7 DEF Way
  <2> QED BY <1>4, <1>5, <1>7, <2>1, <2>2, AdvanceGoesOn
<1>8. CASE FailWith(Entered(t, "succeeded"), "decision")
  BY <1>4, <1>5, <1>8, RecordedFails DEF Codes
<1> QED BY <1>3, <1>6, <1>7, <1>8

LEMMA StepFailsHandles ==
    ASSUME WellFormed, UNCHANGED wf, NEW s, From(s), Step.kind = "op", StepFails(s)
    PROVE  Handles \/ Fails("limit") \/ Fails("step")
<1> DEFINE h == HandlerOf(wf, s.cur)
           ep == [primary |-> s.cur, handler_steps |-> wf.region[h]]
           t == [s EXCEPT !.failures = Append(@, s.cur), !.outputs = @ \cup {"error"},
                          !.episode = ep]
           u == [t EXCEPT !.transitions = @ + 1]
<1>1. /\ s \in RunStates /\ s.cur = st.cur /\ st.cur \in Names
      /\ s.failures \in Seq(Names) /\ s.outputs \subseteq Roots /\ s.failures = st.failures
      /\ s.episode = Entering.episode /\ st.outputs \subseteq s.outputs
  BY StepIsDeclared DEF WellFormed, From, RunStates
<1>2. CASE s.episode # NoEpisode \/ h = NoStep
  <2>1. FailWith(s, "step")
    BY <1>2 DEF StepFails
  <2> QED BY <2>1, FromFails DEF Codes
<1>3. CASE ~(s.episode # NoEpisode \/ h = NoStep)
  <2>1. h \in Names
    BY <1>1, <1>3, StepIsDeclared DEF HandlerOf, WellFormed, Types, Executable, DeclaredSteps,
                                    Targets, Step
  <2>2. wf.region[h] \subseteq Names
    BY <2>1, RegionEndsInNormal DEF WellFormed, Types, Executable
  <2>3. ep \in Episodes /\ ep.primary = st.cur /\ ep.handler_steps = wf.region[h]
    BY <1>1, <2>2 DEF Episodes, Targets
  <2>4. Append(s.failures, s.cur) \in Seq(Names) /\ s.outputs \cup {"error"} \subseteq Roots
    BY <1>1 DEF Roots
  <2>5. Divert(t, "failed", h)
    BY <1>3 DEF StepFails
  <2>6. ep = [primary |-> st.cur, handler_steps |-> wf.region[h]] /\ h = HandlerOf(wf, st.cur)
    BY <1>1
  <2> HIDE DEF ep, h
  <2>7. /\ t \in RunStates /\ t.cur = s.cur /\ t.seq = s.seq /\ t.entries = s.entries
        /\ t.invocations = s.invocations /\ t.episode = ep
        /\ t.failures = Append(s.failures, s.cur) /\ t.outputs = s.outputs \cup {"error"}
    BY <1>1, <2>3, <2>4 DEF RunStates
  <2>8. Advance(u, "failed", h)
    BY <2>5 DEF Divert
  <2> HIDE DEF t
  <2>9. /\ u \in RunStates /\ u.cur = t.cur /\ u.seq = t.seq /\ u.entries = t.entries
        /\ u.invocations = t.invocations /\ u.episode = t.episode
        /\ u.failures = t.failures /\ u.outputs = t.outputs
    BY <2>7, OneMoreTransition
  <2> HIDE DEF u
  <2>10. "failed" \in Statuses
    BY DEF Statuses
  <2>11. \/ /\ Leaves("failed") /\ st'.cur = h /\ st'.failures = u.failures
            /\ st'.episode = u.episode /\ st'.outputs = u.outputs
         \/ Fails("limit")
    BY <2>1, <2>3, <2>7, <2>8, <2>9, <2>10, AdvanceLeaves DEF From
  <2>12. Entering.episode = NoEpisode
    BY <1>1, <1>3
  <2> QED BY <1>1, <2>6, <2>7, <2>9, <2>11, <2>12 DEF Handles
<1> QED BY <1>2, <1>3

\* These steps keep the invariant.
LEMMA LeavingIsShaped ==
    ASSUME WellFormed, GoesOn \/ Handles
    PROVE  WellFormed'
<1>1. PICK ending \in Statuses : Leaves(ending)
  BY DEF GoesOn, Handles, Statuses
<1>2. /\ pc' \in {"step", "continuing"} /\ (pc' = "continuing" => run < MaxRuns)
      /\ UNCHANGED <<wf, carry, run, outcome>>
      /\ st' \in RunStates /\ st'.loop = NoLoop
  BY <1>1 DEF Leaves
<1>3. outcome = Running
  BY <1>1 DEF WellFormed, Shaped, Leaves
<1>4. Types'
  BY <1>2 DEF WellFormed, Types
<1>5. Step' \in DeclaredSteps /\ DeclaredStep(Step')
  BY <1>4, DeclaredAt DEF Types, RunStates, Step
<1>6. Total(Step') \in Nat
  BY <1>5, StepFacts
<1>7. NoLoop.failed = 0 /\ Len(NoLoop.results) = 0
  BY DEF NoLoop
<1>8. LoopFits(st'.loop, Step') /\ ~(Len(st'.loop.results) > 0)
  BY <1>2, <1>6, <1>7 DEF LoopFits
<1> QED BY <1>2, <1>3, <1>4, <1>8 DEF WellFormed, Shaped

LEMMA FailingIsShaped ==
    ASSUME WellFormed, NEW code, Fails(code)
    PROVE  WellFormed'
<1>1. /\ pc' = "failed" /\ outcome' \in Outcomes /\ UNCHANGED <<wf, carry, run>>
      /\ st' \in RunStates /\ st'.cur = st.cur
  BY DEF Fails
<1>2. Types'
  BY <1>1 DEF WellFormed, Types
<1>3. Step' = Step
  BY <1>1 DEF Step
<1>4. /\ LoopFits(st'.loop, Step)
      /\ Len(st'.loop.results) > 0 => st'.episode = NoEpisode \/ st.cur \in st'.episode.handler_steps
  BY DEF Fails
<1>5. LoopFits(st'.loop, Step') /\ (Len(st'.loop.results) > 0 => Settled')
  BY <1>1, <1>3, <1>4 DEF Settled
<1> QED BY <1>1, <1>2, <1>5 DEF WellFormed, Shaped, Ended

\* The other steps leave the place and the record of the execution as they are.
Stays ==
    /\ UNCHANGED wf
    /\ st'.cur = st.cur /\ st'.seq = st.seq /\ st'.entries = st.entries
    /\ st'.failures = st.failures /\ st'.outputs = st.outputs
    /\ ~Ended' => ~Ended /\ st'.episode \in {st.episode, Entering.episode}
    /\ \/ outcome' = outcome
       \/ outcome'.primary = NoStep /\ outcome'.code \in {"queue", "limit", "record"}
       \/ /\ outcome'.primary = NoStep /\ ~Ended
          /\ Step.kind = "terminal" /\ ~Step.reason /\ wf.result \notin st.outputs \cup {NoRoot}

\* A step refers to what is not there.
FailsUnresolved ==
    /\ Fails("resolution")
    /\ st'.failures = st.failures
    /\ Step.kind # "terminal" /\ Step.input \notin st.outputs \cup {NoRoot}

Gives == GoesOn \/ Handles \/ FailsUnresolved
           \/ \E code \in {"step", "limit", "wait_timeout", "exhausted", "decision"} : Fails(code)

LEMMA GivesIsShaped ==
    ASSUME WellFormed, Gives
    PROVE  WellFormed'
  BY LeavingIsShaped, FailingIsShaped DEF Gives, FailsUnresolved

LEMMA SucceedGives ==
    ASSUME WellFormed, UNCHANGED wf, NEW s, From(s), Step.kind \in {"op", "wait"}, Succeed(s, Step)
    PROVE  Gives
  BY SucceedGoesOn DEF Gives

LEMMA StepFailsGives ==
    ASSUME WellFormed, UNCHANGED wf, NEW s, From(s), Step.kind = "op", StepFails(s)
    PROVE  Gives
  BY StepFailsHandles DEF Gives

LEMMA FailWithGives ==
    ASSUME WellFormed, UNCHANGED wf, NEW s, From(s), NEW code \in {"wait_timeout", "exhausted"},
           FailWith(s, code)
    PROVE  Gives
<1>1. code \in Codes
  BY DEF Codes
<1>2. Fails(code)
  BY <1>1, FromFails
<1> QED BY <1>2 DEF Gives

LEMMA RecordedGives ==
    ASSUME WellFormed, UNCHANGED wf, NEW s, From(s), FailWith(Entered(s, "exhausted"), "exhausted")
    PROVE  Gives
<1>1. "exhausted" \in Codes /\ "exhausted" \in Statuses
  BY DEF Codes, Statuses
<1>2. Fails("exhausted")
  BY <1>1, RecordedFails
<1> QED BY <1>2 DEF Gives

LEMMA AdvanceGives ==
    ASSUME WellFormed, UNCHANGED wf, NEW s, From(s), NEW ending \in Statuses \ {"none"},
           NEW target \in Names, NEW produced, Way(Step, st.cur, target, produced),
           st.outputs \cup produced \subseteq s.outputs,
           Advance(s, ending, target) \/ Divert(s, ending, target)
    PROVE  Gives
  BY AdvanceGoesOn DEF Gives

\* Where the head of the loop has been passed, the run is its own state.
LEMMA StIsFrom ==
    ASSUME WellFormed, ~Ended, Settled
    PROVE  From(st)
  BY EnteringIsFrom, EpisodeFacts DEF WellFormed

\* A step that keeps the run's state, place and kind.
LEMMA SameStateIsShaped ==
    ASSUME WellFormed, UNCHANGED <<wf, st, run, outcome>>, ~Ended,
           \/ /\ pc' = pc /\ carry' = carry
              /\ pc \in {"running", "cancelling"} =>
                   chunk' \in [NextKeys(Step, Len(st.loop.results)) -> TaskStates]
           \/ pc' \in {"completed", "failed", "cancelled", "step"}
           \/ pc' = "restart" /\ carry'.state = st
           \/ pc' \in {"loop", "drained"} /\ Step.kind = "op" /\ Settled
           \/ pc' = "cancelling" /\ pc = "running"
                /\ chunk' \in [NextKeys(Step, Len(st.loop.results)) -> TaskStates]
    PROVE  WellFormed'
<1>1. Step' = Step /\ (Settled' <=> Settled)
  BY DEF Step, Settled
<1>2. Types'
  BY DEF WellFormed, Types
<1>3. Shaped'
  BY <1>1 DEF WellFormed, Shaped, Ended
<1> QED BY <1>2, <1>3 DEF WellFormed

LEMMA SameStateStays ==
    ASSUME UNCHANGED <<wf, st, outcome>>, ~Ended \/ Ended'
    PROVE  Stays
  BY DEF Stays

-----------------------------------------------------------------------------
(* Every step is of a kind, and keeps the first invariant.                 *)

OfAKind == WellFormed' /\ (Stays \/ Gives)

LEMMA TerminalStep ==
    ASSUME WellFormed, Terminal
    PROVE  OfAKind
<1>1. /\ pc = "step" /\ Step.kind = "terminal" /\ UNCHANGED <<wf, chunk, carry, run>>
      /\ st' = [st EXCEPT !.episode = NoEpisode]
      /\ \/ pc' = "completed" /\ UNCHANGED outcome
         \/ /\ wf.result \notin st.outputs \cup {NoRoot} /\ ~Step.reason
            /\ pc' = "failed" /\ outcome' = [code |-> "result", primary |-> NoStep]
         \/ pc' = "failed" /\ outcome' = [code |-> "record", primary |-> NoStep]
  BY DEF Terminal
<1>2. st \in RunStates /\ NoEpisode \in Episodes
  BY EpisodeFacts DEF WellFormed, Types
<1>3. /\ st' \in RunStates /\ st'.cur = st.cur /\ st'.seq = st.seq /\ st'.entries = st.entries
      /\ st'.failures = st.failures /\ st'.outputs = st.outputs /\ st'.loop = st.loop
      /\ st'.episode = NoEpisode
  BY <1>1, <1>2 DEF RunStates
<1>4. Step' = Step
  BY <1>1, <1>3 DEF Step
<1>5. Settled'
  BY <1>3 DEF Settled
<1>6. Types'
  BY <1>1, <1>3 DEF WellFormed, Types, Outcomes, Codes, Targets
<1>7. Shaped'
  BY <1>1, <1>3, <1>4, <1>5 DEF WellFormed, Shaped, Ended
<1>8. Stays
  BY <1>1, <1>3 DEF Stays, Ended
<1> QED BY <1>6, <1>7, <1>8 DEF OfAKind, WellFormed

LEMMA SleepStep ==
    ASSUME WellFormed, Sleep
    PROVE  WellFormed' /\ Gives
<1>1. pc = "step" /\ Step.kind = "sleep" /\ UNCHANGED wf /\ Advance(Entering, "slept", Step.then)
  BY DEF Sleep
<1>2. From(Entering) /\ Entering.outputs = st.outputs
  BY <1>1, EnteringIsFrom, EpisodeFacts DEF WellFormed, Ended
<1>3. Step.then \in Names /\ ~OnResult(Step)
  BY <1>1, StepIsDeclared, StepFacts DEF WellFormed
<1>4. Way(Step, st.cur, Step.then, {})
  BY <1>1, <1>3 DEF Way
<1>5. "slept" \in Statuses \ {"none"}
  BY DEF Statuses
<1>6. st.outputs \cup {} \subseteq Entering.outputs
  BY <1>2
<1>7. Gives
  BY <1>1, <1>2, <1>3, <1>4, <1>5, <1>6, AdvanceGives
<1> QED BY <1>7, GivesIsShaped

LEMMA UnresolvedStep ==
    ASSUME WellFormed, Unresolved
    PROVE  WellFormed' /\ Gives
<1>1. /\ pc = "step" /\ Step.kind \in {"op", "wait"} /\ UNCHANGED wf
      /\ Step.input \notin st.outputs \cup {NoRoot} /\ FailWith(Entering, "resolution")
  BY DEF Unresolved, Resolves
<1>2. From(Entering) /\ Entering.failures = st.failures /\ Entering \in RunStates
  BY <1>1, EnteringIsFrom, EpisodeFacts DEF WellFormed, Ended
<1>3. Fails("resolution")
  BY <1>1, <1>2, FromFails DEF Codes
<1>4. st'.failures = st.failures
  <2>1. st' = Unhandled(Entering)
    BY <1>1 DEF FailWith
  <2>2. [Entering EXCEPT !.entries[Entering.cur] =
           [seq |-> Entering.seq, status |-> "failed"]].failures = Entering.failures
    BY <1>2 DEF RunStates
  <2> QED BY <1>2, <2>1, <2>2 DEF Unhandled, Entered
<1>5. Gives
  BY <1>1, <1>3, <1>4 DEF Gives, FailsUnresolved
<1> QED BY <1>5, GivesIsShaped

LEMMA StartWaitStep ==
    ASSUME WellFormed, StartWait
    PROVE  WellFormed' /\ (Gives \/ (Stays /\ st' = Entering /\ pc' = "waiting"))
<1>1. /\ pc = "step" /\ Step.kind = "wait" /\ UNCHANGED wf
      /\ \/ Succeed(Entering, Step)
         \/ /\ st' = Entering /\ pc' = "waiting"
            /\ UNCHANGED <<chunk, carry, run, outcome>>
  BY DEF StartWait
<1>2. From(Entering) /\ ~Ended
  BY <1>1, EnteringIsFrom DEF Ended
<1>3. CASE Succeed(Entering, Step)
  BY <1>1, <1>2, <1>3, SucceedGives, GivesIsShaped
<1>4. CASE /\ st' = Entering /\ pc' = "waiting" /\ UNCHANGED <<chunk, carry, run, outcome>>
  <2>1. /\ st' \in RunStates /\ st'.cur = st.cur /\ st'.seq = st.seq
        /\ st'.entries = st.entries /\ st'.failures = st.failures
        /\ st'.outputs = st.outputs /\ st'.loop = st.loop /\ st'.episode = Entering.episode
        /\ st'.episode = NoEpisode \/ st.cur \in st'.episode.handler_steps
    BY <1>4, EpisodeFacts DEF WellFormed
  <2>2. Step' = Step /\ Settled'
    BY <1>1, <2>1 DEF Step, Settled
  <2>3. Types'
    BY <1>1, <1>4, <2>1 DEF WellFormed, Types
  <2>4. Shaped'
    BY <1>1, <1>2, <1>4, <2>1, <2>2 DEF WellFormed, Shaped
  <2>5. Stays
    BY <1>1, <1>2, <1>4, <2>1 DEF Stays
  <2> QED BY <1>4, <2>3, <2>4, <2>5 DEF WellFormed
<1> QED BY <1>1, <1>3, <1>4

LEMMA WaitEndsStep ==
    ASSUME WellFormed, WaitEnds
    PROVE  WellFormed' /\ Gives
<1>1. pc = "waiting" /\ UNCHANGED wf /\ Succeed(st, Step)
  BY DEF WaitEnds
<1>2. Step.kind = "wait" /\ Settled /\ ~Ended
  BY <1>1 DEF WellFormed, Shaped, Ended
<1>3. Gives
  BY <1>1, <1>2, StIsFrom, SucceedGives
<1> QED BY <1>3, GivesIsShaped

LEMMA WaitTimesOutStep ==
    ASSUME WellFormed, WaitTimesOut
    PROVE  WellFormed' /\ Gives
<1>1. /\ pc = "waiting" /\ UNCHANGED wf
      /\ IF Step.on_timeout = NoStep THEN FailWith(st, "wait_timeout")
         ELSE Divert(st, "timed_out", Step.on_timeout)
  BY DEF WaitTimesOut
<1>2. Step.kind = "wait" /\ Settled /\ ~Ended
  BY <1>1 DEF WellFormed, Shaped, Ended
<1>3. From(st)
  BY <1>2, StIsFrom
<1>4. CASE Step.on_timeout = NoStep
  <2>1. Gives
    BY <1>1, <1>3, <1>4, FailWithGives
  <2> QED BY <2>1, GivesIsShaped
<1>5. CASE Step.on_timeout # NoStep
  <2>1. Step.on_timeout \in Names
    BY <1>5, StepIsDeclared DEF WellFormed, DeclaredSteps, Targets
  <2>2. Way(Step, st.cur, Step.on_timeout, {})
    BY <1>2 DEF Way
  <2>3. "timed_out" \in Statuses \ {"none"} /\ st.outputs \cup {} \subseteq st.outputs
    BY DEF Statuses
  <2>4. Gives
    BY <1>1, <1>3, <1>5, <2>1, <2>2, <2>3, AdvanceGives
  <2> QED BY <2>4, GivesIsShaped
<1> QED BY <1>4, <1>5

LEMMA SkipOperationStep ==
    ASSUME WellFormed, SkipOperation
    PROVE  WellFormed' /\ Gives
<1>1. /\ pc = "step" /\ Step.kind = "op" /\ Step.condition /\ UNCHANGED wf
      /\ Advance(Entering, "skipped", Step.then)
  BY DEF SkipOperation
<1>2. From(Entering) /\ Entering.outputs = st.outputs
  BY <1>1, EnteringIsFrom, EpisodeFacts DEF WellFormed, Ended
<1>3. Step.then \in Names
  BY <1>1, StepIsDeclared, StepFacts DEF WellFormed
<1>4. Way(Step, st.cur, Step.then, {})
  BY <1>1 DEF Way
<1>5. "skipped" \in Statuses \ {"none"} /\ st.outputs \cup {} \subseteq Entering.outputs
  BY <1>2 DEF Statuses
<1>6. Gives
  BY <1>1, <1>2, <1>3, <1>4, <1>5, AdvanceGives
<1> QED BY <1>6, GivesIsShaped

\* The tasks of a chunk: the next attempts or items, up to the last one.
LEMMA NextKeysFacts ==
    ASSUME NEW step \in DeclaredSteps, DeclaredStep(step),
           NEW done \in Nat, done <= Total(step)
    PROVE  /\ NextKeys(step, done) \subseteq Nat /\ IsFiniteSet(NextKeys(step, done))
           /\ done + Cardinality(NextKeys(step, done)) <= Total(step)
           /\ \A k \in NextKeys(step, done) :
                done < k /\ k <= done + Cardinality(NextKeys(step, done))
<1> DEFINE size == IF step.mode = "each" /\ step.parallel THEN ChunkItems ELSE 1
           limit == IF done + size < Total(step) THEN done + size ELSE Total(step)
<1>1. Total(step) \in Nat /\ size \in Nat
  BY StepFacts, RunnerConstants
<1>2. limit \in Nat /\ done <= limit /\ limit <= Total(step)
  BY <1>1
<1>3. NextKeys(step, done) = (done + 1)..limit
  BY DEF NextKeys
<1> HIDE DEF limit
<1>4. IsFiniteSet((done + 1)..limit) /\ Cardinality((done + 1)..limit) = limit - done
  <2>1. done + 1 \in Int /\ limit \in Int /\ (done + 1 > limit => limit = done)
    BY <1>2
  <2>2. /\ IsFiniteSet((done + 1)..limit)
        /\ Cardinality((done + 1)..limit) = IF done + 1 > limit THEN 0 ELSE limit - (done + 1) + 1
    BY <2>1, FS_Interval
  <2> QED BY <1>2, <2>1, <2>2
<1> QED BY <1>1, <1>2, <1>3, <1>4

\* The chunk of the operation at hand.
LEMMA ChunkFacts ==
    ASSUME WellFormed, pc \in {"running", "cancelling"}
    PROVE  /\ chunk \in [DOMAIN chunk -> TaskStates]
           /\ DOMAIN chunk = NextKeys(Step, Len(st.loop.results))
           /\ DOMAIN chunk \subseteq Nat /\ IsFiniteSet(DOMAIN chunk)
           /\ Len(st.loop.results) + Cardinality(DOMAIN chunk) <= Total(Step)
           /\ \A k \in DOMAIN chunk :
                /\ Len(st.loop.results) < k
                /\ k <= Len(st.loop.results) + Cardinality(DOMAIN chunk)
           /\ Step.kind = "op" /\ Settled /\ ~Ended
<1>1. /\ chunk \in [NextKeys(Step, Len(st.loop.results)) -> TaskStates]
      /\ Step.kind = "op" /\ Settled /\ ~Ended
  BY DEF WellFormed, Shaped, Ended
<1>2. st.loop.results \in Seq({"included", "omitted"}) /\ Len(st.loop.results) <= Total(Step)
  BY DEF WellFormed, Types, Shaped, RunStates, Loops, LoopFits
<1>3. Len(st.loop.results) \in Nat
  BY <1>2
<1>4. Step \in DeclaredSteps /\ DeclaredStep(Step)
  BY StepIsDeclared DEF WellFormed
<1> QED BY <1>1, <1>2, <1>3, <1>4, NextKeysFacts

LEMMA StartOperationStep ==
    ASSUME WellFormed, StartOperation
    PROVE  OfAKind
<1>1. /\ pc \in {"step", "loop"} /\ Step.kind = "op" /\ st' = Entering /\ pc' = "running"
      /\ chunk' = [k \in NextKeys(Step, Len(st.loop.results)) |-> "queued"]
      /\ UNCHANGED <<wf, carry, run, outcome>>
  BY DEF StartOperation
<1>2. /\ st' \in RunStates /\ st'.cur = st.cur /\ st'.seq = st.seq
      /\ st'.entries = st.entries /\ st'.failures = st.failures
      /\ st'.outputs = st.outputs /\ st'.loop = st.loop /\ st'.episode = Entering.episode
      /\ st'.episode = NoEpisode \/ st.cur \in st'.episode.handler_steps
  BY <1>1, EpisodeFacts DEF WellFormed
<1>3. Step' = Step /\ Settled'
  BY <1>1, <1>2 DEF Step, Settled
<1>4. chunk' \in [NextKeys(Step, Len(st'.loop.results)) -> TaskStates]
  BY <1>1, <1>2 DEF TaskStates
<1>5. Types'
  BY <1>1, <1>2 DEF WellFormed, Types
<1>6. Shaped'
  BY <1>1, <1>2, <1>3, <1>4 DEF WellFormed, Shaped, Ended
<1>7. Stays
  BY <1>1, <1>2 DEF Stays, Ended
<1> QED BY <1>5, <1>6, <1>7 DEF OfAKind, WellFormed

LEMMA TaskStep ==
    ASSUME WellFormed, NEW k \in DOMAIN chunk, Answer(k) \/ CallFails(k)
    PROVE  OfAKind
<1>1. /\ pc \in {"running", "cancelling"} /\ UNCHANGED <<wf, st, pc, carry, run, outcome>>
      /\ \E task \in TaskStates : chunk' = [chunk EXCEPT ![k] = task]
  BY DEF Answer, CallFails, TaskStates
<1>2. chunk \in [NextKeys(Step, Len(st.loop.results)) -> TaskStates] /\ ~Ended
  BY <1>1, ChunkFacts
<1>3. chunk' \in [NextKeys(Step, Len(st.loop.results)) -> TaskStates]
  BY <1>1, <1>2
<1>4. WellFormed'
  BY <1>1, <1>2, <1>3, SameStateIsShaped
<1> QED BY <1>1, <1>2, <1>4, SameStateStays DEF OfAKind

LEMMA InvokeStep ==
    ASSUME WellFormed, NEW k \in DOMAIN chunk, Invoke(k)
    PROVE  OfAKind
<1>1. /\ pc = "running" /\ UNCHANGED <<wf, pc, carry, run, outcome>>
      /\ st' = [st EXCEPT !.invocations = @ + 1]
      /\ \E task \in TaskStates : chunk' = [chunk EXCEPT ![k] = task]
  BY DEF Invoke, TaskStates
<1>2. st \in RunStates
  BY DEF WellFormed, Types
<1>3. /\ st' \in RunStates /\ st'.cur = st.cur /\ st'.seq = st.seq
      /\ st'.entries = st.entries /\ st'.failures = st.failures
      /\ st'.outputs = st.outputs /\ st'.loop = st.loop /\ st'.episode = st.episode
  BY <1>1, <1>2 DEF RunStates
<1>4. chunk \in [NextKeys(Step, Len(st.loop.results)) -> TaskStates] /\ ~Ended
  BY <1>1, ChunkFacts
<1>5. Step' = Step /\ (Settled' <=> Settled)
  BY <1>1, <1>3 DEF Step, Settled
<1>6. chunk' \in [NextKeys(Step', Len(st'.loop.results)) -> TaskStates]
  BY <1>1, <1>3, <1>4, <1>5
<1>7. Types'
  BY <1>1, <1>3 DEF WellFormed, Types
<1>8. Shaped'
  BY <1>1, <1>3, <1>5, <1>6 DEF WellFormed, Shaped, Ended
<1>9. Stays
  BY <1>1, <1>3, <1>4 DEF Stays
<1> QED BY <1>7, <1>8, <1>9 DEF OfAKind, WellFormed

LEMMA CancelTasksStep ==
    ASSUME WellFormed, CancelTasks
    PROVE  OfAKind
<1>1. /\ pc = "running" /\ pc' = "cancelling" /\ UNCHANGED <<wf, st, carry, run, outcome>>
      /\ chunk' = [k \in DOMAIN chunk |-> IF chunk[k] = "queued" THEN "cancelled" ELSE chunk[k]]
  BY DEF CancelTasks
<1>2. /\ chunk \in [DOMAIN chunk -> TaskStates] /\ ~Ended
      /\ DOMAIN chunk = NextKeys(Step, Len(st.loop.results))
  BY <1>1, ChunkFacts
<1>3. chunk' \in [NextKeys(Step, Len(st.loop.results)) -> TaskStates]
  BY <1>1, <1>2 DEF TaskStates
<1>4. WellFormed'
  BY <1>1, <1>2, <1>3, SameStateIsShaped
<1> QED BY <1>1, <1>2, <1>4, SameStateStays DEF OfAKind

LEMMA OperationFailsStep ==
    ASSUME WellFormed, OperationFails
    PROVE  WellFormed' /\ Gives
<1>1. pc = "cancelling" /\ UNCHANGED wf /\ StepFails(st)
  BY DEF OperationFails
<1>2. Step.kind = "op" /\ Settled /\ ~Ended
  BY <1>1 DEF WellFormed, Shaped, Ended
<1>3. Gives
  BY <1>1, <1>2, StIsFrom, StepFailsGives
<1> QED BY <1>3, GivesIsShaped

\* What a chunk adds to the results.
LEMMA AppendedFits ==
    ASSUME WellFormed, pc \in {"running", "cancelling"}
    PROVE  LET loop == Appended(st.loop, Step)
           IN  /\ loop \in Loops /\ LoopFits(loop, Step)
               /\ Len(loop.results) = Len(st.loop.results) + Cardinality(DOMAIN chunk)
<1> DEFINE done == Len(st.loop.results)
           n == Cardinality(DOMAIN chunk)
           kept(k) == CASE chunk[k] = "ok" -> "included"
                        [] chunk[k] = "error" /\ Step.on_iteration_fail = "collect" -> "included"
                        [] OTHER -> "omitted"
           more == [i \in 1..n |-> kept(done + i)]
           bad == Cardinality(Tasks("error"))
           loop == Appended(st.loop, Step)
<1>1. /\ IsFiniteSet(DOMAIN chunk) /\ done + n <= Total(Step) /\ Step.kind = "op"
  BY ChunkFacts
<1>2. n \in Nat
  BY <1>1, FS_CardinalityType
<1>3. bad \in Nat /\ bad <= n
  <2>1. Tasks("error") \in SUBSET DOMAIN chunk
    BY DEF Tasks
  <2> QED BY <1>1, <2>1, FS_Subset, FS_CardinalityType
<1>4. /\ st.loop \in Loops /\ st.loop.results \in Seq({"included", "omitted"})
      /\ st.loop.failed \in Nat /\ st.loop.failed <= done /\ done \in Nat
  BY DEF WellFormed, Types, Shaped, RunStates, Loops, LoopFits
<1>5. more \in Seq({"included", "omitted"}) /\ Len(more) = n
  <2>1. \A i \in 1..n : kept(done + i) \in {"included", "omitted"}
    OBVIOUS
  <2> HIDE DEF kept, n
  <2>2. more \in [1..n -> {"included", "omitted"}]
    BY <2>1
  <2> HIDE DEF more
  <2> QED BY <1>2, <2>2
<1>6. /\ loop.results = st.loop.results \o more
      /\ loop.failed = st.loop.failed + bad
      /\ loop = [results |-> st.loop.results \o more, failed |-> st.loop.failed + bad]
  BY DEF Appended
<1> HIDE DEF more, bad, loop, n, done
<1>7. loop.results \in Seq({"included", "omitted"}) /\ Len(loop.results) = done + n
  BY <1>4, <1>5, <1>6, ConcatProperties DEF done
<1>8. loop \in Loops
  BY <1>3, <1>4, <1>6, <1>7 DEF Loops
<1>9. LoopFits(loop, Step)
  BY <1>1, <1>2, <1>3, <1>4, <1>6, <1>7 DEF LoopFits
<1> QED BY <1>7, <1>8, <1>9 DEF loop, done, n

\* The run with a chunk appended to its loop.
LEMMA ChunkEndsFrom ==
    ASSUME WellFormed, pc = "running"
    PROVE  LET s == [st EXCEPT !.loop = Appended(@, Step)]
           IN  From(s) /\ s.loop = Appended(st.loop, Step) /\ s.failures = st.failures
                       /\ s.episode = st.episode /\ s.outputs = st.outputs
<1> DEFINE loop == Appended(st.loop, Step)
           s == [st EXCEPT !.loop = loop]
<1>1. loop \in Loops /\ LoopFits(loop, Step)
  BY AppendedFits
<1>2. st \in RunStates /\ Settled /\ ~Ended
  BY ChunkFacts DEF WellFormed, Types
<1> HIDE DEF loop
<1>3. /\ s \in RunStates /\ s.cur = st.cur /\ s.seq = st.seq /\ s.entries = st.entries
      /\ s.invocations = st.invocations /\ s.failures = st.failures
      /\ s.episode = st.episode /\ s.outputs = st.outputs /\ s.loop = loop
  BY <1>1, <1>2 DEF RunStates
<1> HIDE DEF s
<1>4. From(s)
  BY <1>1, <1>2, <1>3, EpisodeFacts DEF From, WellFormed, Settled
<1> QED BY <1>3, <1>4 DEF s, loop

\* A checkpoint that goes on with the loop, in this Temporal run or the next.
LEMMA LoopStays ==
    ASSUME WellFormed, pc = "running", UNCHANGED wf, NEW s, From(s),
           s.episode = st.episode, s.outputs = st.outputs,
           NEW next \in {"loop", "drained"}, GoOn(s, next) \/ EndRun(s)
    PROVE  WellFormed' /\ Stays /\ st' = s
<1>1. /\ st' = s /\ UNCHANGED <<run, outcome, carry>>
      /\ pc' \in {"loop", "drained"} \/ (pc' = "continuing" /\ run < MaxRuns)
  BY DEF GoOn, EndRun
<1>2. Step.kind = "op" /\ Settled /\ ~Ended
  BY ChunkFacts
<1>3. Step' = Step /\ Settled'
  BY <1>1, <1>2 DEF From, Step, Settled
<1>4. Types'
  BY <1>1 DEF WellFormed, Types, From
<1>5. LoopFits(st'.loop, Step')
  BY <1>1, <1>3 DEF From
<1>6. Shaped'
  BY <1>1, <1>2, <1>3, <1>5 DEF WellFormed, Shaped
<1>7. Stays
  BY <1>1, <1>2 DEF Stays, From
<1> QED BY <1>1, <1>4, <1>6, <1>7 DEF WellFormed

LEMMA ChunkEndsStep ==
    ASSUME WellFormed, ChunkEnds
    PROVE  /\ WellFormed'
           /\ \/ Gives
              \/ /\ Stays /\ st'.invocations = st.invocations
                 /\ st'.loop = Appended(st.loop, Step)
<1> DEFINE s == [st EXCEPT !.loop = Appended(@, Step)]
           next == IF Len(s.loop.results) < Total(Step) THEN "loop" ELSE "drained"
<1>1. /\ pc = "running" /\ UNCHANGED wf
      /\ Succeed(s, Step) \/ CheckpointDuringLoop(s, next)
  BY DEF ChunkEnds
<1>2. /\ From(s) /\ s.episode = st.episode /\ s.outputs = st.outputs
      /\ s.loop = Appended(st.loop, Step) /\ next \in {"loop", "drained"}
  BY <1>1, ChunkEndsFrom
<1> HIDE DEF s, next
<1>3. Step.kind = "op"
  BY <1>1, ChunkFacts
<1>4. CASE Succeed(s, Step)
  <2>1. Gives
    BY <1>1, <1>2, <1>3, <1>4, SucceedGives
  <2> QED BY <2>1, GivesIsShaped
<1>5. CASE StepFails(s)
  <2>1. Gives
    BY <1>1, <1>2, <1>3, <1>5, StepFailsGives
  <2> QED BY <2>1, GivesIsShaped
<1>6. CASE GoOn(s, next) \/ EndRun(s)
  BY <1>1, <1>2, <1>6, LoopStays DEF From
<1> QED BY <1>1, <1>4, <1>5, <1>6 DEF CheckpointDuringLoop

LEMMA LoopEndsStep ==
    ASSUME WellFormed, LoopEnds
    PROVE  WellFormed' /\ Gives
<1>1. /\ pc = "drained" /\ UNCHANGED wf
      /\ \/ Succeed(st, Step)
         \/ /\ Step.mode = "until"
            /\ IF Step.on_exhausted = NoStep THEN FailWith(Entered(st, "exhausted"), "exhausted")
               ELSE Divert(st, "exhausted", Step.on_exhausted)
  BY DEF LoopEnds
<1>2. Step.kind = "op" /\ Settled /\ ~Ended
  BY <1>1 DEF WellFormed, Shaped, Ended
<1>3. From(st)
  BY <1>2, StIsFrom
<1>4. CASE Succeed(st, Step)
  <2>1. Gives
    BY <1>1, <1>2, <1>3, <1>4, SucceedGives
  <2> QED BY <2>1, GivesIsShaped
<1>5. CASE Step.on_exhausted = NoStep /\ FailWith(Entered(st, "exhausted"), "exhausted")
  <2>1. Gives
    BY <1>1, <1>3, <1>5, RecordedGives
  <2> QED BY <2>1, GivesIsShaped
<1>6. CASE /\ Step.mode = "until" /\ Step.on_exhausted # NoStep
           /\ Divert(st, "exhausted", Step.on_exhausted)
  <2>1. Step.on_exhausted \in Names
    BY <1>6, StepIsDeclared DEF WellFormed, DeclaredSteps, Targets
  <2>2. Way(Step, st.cur, Step.on_exhausted, {})
    BY <1>2, <1>6 DEF Way
  <2>3. "exhausted" \in Statuses \ {"none"} /\ st.outputs \cup {} \subseteq st.outputs
    BY DEF Statuses
  <2>4. Gives
    BY <1>1, <1>3, <1>6, <2>1, <2>2, <2>3, AdvanceGives
  <2> QED BY <2>4, GivesIsShaped
<1> QED BY <1>1, <1>4, <1>5, <1>6

\* The checkpoint has everything the run has.
LEMMA CheckpointIsTheRun ==
    ASSUME NEW s \in RunStates
    PROVE  BuildCheckpoint(s) = s
  BY DEF BuildCheckpoint, RunStates

LEMMA ContinueAsNewStep ==
    ASSUME WellFormed, ContinueAsNew
    PROVE  OfAKind
<1>1. /\ pc = "continuing" /\ UNCHANGED <<wf, st, chunk>>
      /\ \/ /\ carry' = [state |-> BuildCheckpoint(st), events |-> pending]
            /\ run' = run + 1 /\ pc' = "restart" /\ UNCHANGED outcome
         \/ /\ pc' = "failed" /\ outcome' = [code |-> "limit", primary |-> NoStep]
            /\ UNCHANGED <<carry, run>>
  BY DEF ContinueAsNew
<1>2. st \in RunStates /\ run < MaxRuns /\ run \in 1..MaxRuns /\ MaxRuns \in Nat
  BY <1>1, RunnerConstants DEF WellFormed, Types, Shaped
<1>3. carry' = [state |-> BuildCheckpoint(st), events |-> pending] => carry'.state = st
  BY <1>2, CheckpointIsTheRun
<1>4. Step' = Step /\ (Settled' <=> Settled)
  BY <1>1 DEF Step, Settled
<1>5. Types'
  BY <1>1, <1>2 DEF WellFormed, Types, Outcomes, Codes, Targets
<1>6. Shaped'
  BY <1>1, <1>3, <1>4 DEF WellFormed, Shaped, Ended
<1>7. Stays
  BY <1>1 DEF Stays, Ended
<1> QED BY <1>5, <1>6, <1>7 DEF OfAKind, WellFormed

LEMMA RestartStep ==
    ASSUME WellFormed, Restart
    PROVE  OfAKind /\ st' = st
<1> DEFINE done == Len(carry.state.loop.results)
<1>1. /\ pc = "restart" /\ UNCHANGED <<wf, chunk, carry, run>>
      /\ \/ /\ st' = carry.state /\ UNCHANGED outcome
            /\ pc' = CASE done = 0 -> "step"
                       [] done > 0 /\ done < Total(wf.steps[carry.state.cur]) -> "loop"
                       [] OTHER -> "drained"
         \/ /\ pc' = "failed" /\ outcome' = [code |-> "queue", primary |-> NoStep]
            /\ UNCHANGED st
  BY DEF Restart
<1>2. /\ carry.state = st /\ st.loop.results \in Seq({"included", "omitted"})
      /\ done = Len(st.loop.results)
      /\ Len(st.loop.results) > 0 => Step.kind = "op" /\ Settled
  BY <1>1 DEF WellFormed, Types, Shaped, RunStates, Loops, LoopFits
<1>3. st' = st /\ (pc' = "step" \/ pc' = "failed" \/ (pc' \in {"loop", "drained"} /\ done > 0))
  BY <1>1, <1>2
<1>4. Step' = Step /\ (Settled' <=> Settled)
  BY <1>1, <1>3 DEF Step, Settled
<1>5. Types'
  BY <1>1, <1>3 DEF WellFormed, Types, Outcomes, Codes, Targets
<1>6. outcome' = outcome \/ pc' = "failed"
  BY <1>1
<1>7. Shaped'
  BY <1>1, <1>2, <1>3, <1>4, <1>6 DEF WellFormed, Shaped, Ended
<1>8. Stays
  BY <1>1, <1>3 DEF Stays, Ended
<1> QED BY <1>3, <1>5, <1>7, <1>8 DEF OfAKind, WellFormed

LEMMA EventArrivesStep ==
    ASSUME WellFormed, NEW s \in Signals, EventArrives(s)
    PROVE  OfAKind
<1>1. /\ ~Ended /\ UNCHANGED <<wf, st, chunk, carry, run>>
      /\ \/ UNCHANGED <<pc, outcome>>
         \/ pc' = "failed" /\ outcome' = [code |-> "queue", primary |-> NoStep]
  BY DEF EventArrives
<1>2. Step' = Step /\ (Settled' <=> Settled)
  BY <1>1 DEF Step, Settled
<1>3. Types'
  BY <1>1 DEF WellFormed, Types, Outcomes, Codes, Targets
<1>4. Shaped'
  BY <1>1, <1>2 DEF WellFormed, Shaped, Ended
<1>5. Stays
  BY <1>1 DEF Stays, Ended
<1> QED BY <1>3, <1>4, <1>5 DEF OfAKind, WellFormed

LEMMA CancelStep ==
    ASSUME WellFormed, Cancel
    PROVE  OfAKind
<1>1. /\ ~Ended /\ pc' = "cancelled" /\ UNCHANGED <<wf, st, carry, run, outcome>>
  BY DEF Cancel, Ended
<1>2. WellFormed'
  BY <1>1, SameStateIsShaped
<1> QED BY <1>1, <1>2, SameStateStays DEF OfAKind

LEMMA StutterStep ==
    ASSUME WellFormed, UNCHANGED vars
    PROVE  OfAKind
<1>1. UNCHANGED <<wf, st, pc, chunk, carry, run, outcome>>
  BY DEF vars
<1>2. Step' = Step /\ (Settled' <=> Settled) /\ (Ended' <=> Ended)
  BY <1>1 DEF Step, Settled, Ended
<1>3. WellFormed'
  BY <1>1, <1>2 DEF WellFormed, Types, Shaped
<1> QED BY <1>1, <1>2, <1>3, SameStateStays DEF OfAKind

LEMMA EveryStepIsOfAKind ==
    ASSUME WellFormed, [Next]_vars
    PROVE  OfAKind
<1>1. ASSUME NEW k \in DOMAIN chunk, Invoke(k) \/ Answer(k) \/ CallFails(k) PROVE OfAKind
  BY <1>1, InvokeStep, TaskStep
<1>2. ASSUME NEW s \in Signals, EventArrives(s) PROVE OfAKind
  BY <1>2, EventArrivesStep
<1>3. CASE RunnerNext
  BY <1>1, <1>3, TerminalStep, SleepStep, UnresolvedStep, StartWaitStep, WaitEndsStep,
     WaitTimesOutStep, SkipOperationStep, StartOperationStep, CancelTasksStep,
     OperationFailsStep, ChunkEndsStep, LoopEndsStep, ContinueAsNewStep, RestartStep
     DEF RunnerNext, OfAKind
<1>4. CASE Cancel \/ Stop \/ UNCHANGED vars
  BY <1>4, CancelStep, StutterStep DEF Stop
<1> QED BY <1>2, <1>3, <1>4 DEF Next

LEMMA InitIsShaped ==
    ASSUME Init
    PROVE  WellFormed
<1>1. PICK f \in Flows : (\A n \in Names : DeclaredStep(f.steps[n])) /\ Accepted(f)
                           /\ wf = Compiled(f)
  BY DEF Init
<1>2. Executable(wf)
  BY <1>1, CompiledIsExecutable
<1>3. /\ st = FreshState(wf) /\ pc = "step" /\ run = 1 /\ outcome = Running
  BY DEF Init
<1>4. NoLoop \in Loops /\ NoLoop.failed = 0 /\ Len(NoLoop.results) = 0
  BY DEF NoLoop, Loops
<1>5. NoEpisode \in Episodes /\ wf.entry \in Names
  BY <1>2 DEF NoEpisode, Episodes, Targets, Executable
<1>6. /\ st \in RunStates /\ st.cur = wf.entry /\ st.loop = NoLoop /\ st.episode = NoEpisode
  BY <1>3, <1>4, <1>5 DEF FreshState, RunStates, Entries, Statuses
<1>7. Types
  BY <1>2, <1>3, <1>6, RunnerConstants DEF Types, Outcomes, Codes, Targets, Running
<1>8. Step \in DeclaredSteps /\ DeclaredStep(Step)
  BY <1>7, StepIsDeclared
<1>9. Total(Step) \in Nat
  BY <1>8, StepFacts
<1>10. LoopFits(st.loop, Step) /\ ~(Len(st.loop.results) > 0)
  BY <1>4, <1>6, <1>9 DEF LoopFits
<1>11. Shaped
  BY <1>3, <1>10 DEF Shaped
<1> QED BY <1>7, <1>11 DEF WellFormed

LEMMA RunsAreShaped == Spec => []WellFormed
<1>1. Init => WellFormed
  BY InitIsShaped
<1>2. WellFormed /\ [Next]_vars => WellFormed'
  BY EveryStepIsOfAKind DEF OfAKind
<1> QED BY <1>1, <1>2, PTL DEF Spec

-----------------------------------------------------------------------------
(* The audit trail.                                                        *)

\* The audit entries, as the step at hand leaves its own.
LEMMA EntriesAfterLeaving ==
    ASSUME WellFormed, NEW ending \in Statuses, Leaves(ending)
    PROVE  /\ st'.entries[st.cur].seq = st.seq /\ st'.entries[st.cur].status = ending
           /\ \A n \in Names : n # st.cur => st'.entries[n] = st.entries[n]
           /\ st.seq \in Nat /\ st'.seq = st.seq + 1
<1>1. st.entries \in Entries /\ st.cur \in Names /\ st.seq \in Nat
  BY DEF WellFormed, Types, RunStates
<1> DEFINE e == [seq |-> st.seq, status |-> ending]
<1>2. e.seq = st.seq /\ e.status = ending
  OBVIOUS
<1>3. st'.entries = [st.entries EXCEPT ![st.cur] = e] /\ st'.seq = st.seq + 1
  BY DEF Leaves
<1> HIDE DEF e
<1>4. st'.entries[st.cur] = e /\ \A n \in Names : n # st.cur => st'.entries[n] = st.entries[n]
  BY <1>1, <1>3 DEF Entries
<1> QED BY <1>1, <1>2, <1>3, <1>4

LEMMA SeqIsKept ==
    ASSUME WellFormed, OfAKind, SeqIsExecutionOrder
    PROVE  SeqIsExecutionOrder'
<1>1. /\ st.entries \in Entries /\ st'.entries \in Entries /\ st.cur \in Names
      /\ st.seq \in Nat /\ st'.seq \in Nat
  BY DEF OfAKind, WellFormed, Types, RunStates
<1>2. \A n \in Names : st.entries[n].seq \in Nat /\ st'.entries[n].seq \in Nat
  BY <1>1 DEF Entries
<1>3. /\ \A n \in Names : st.entries[n].status # "none" =>
            st.entries[n].seq <= st.seq /\ (~Ended => st.entries[n].seq < st.seq)
      /\ \A m, n \in Names : m # n /\ st.entries[m].status # "none" /\ st.entries[n].status # "none"
            => st.entries[m].seq # st.entries[n].seq
  BY DEF SeqIsExecutionOrder
<1>4. CASE Stays
  BY <1>3, <1>4 DEF Stays, SeqIsExecutionOrder
<1>5. ASSUME NEW ending \in Statuses, Leaves(ending) PROVE SeqIsExecutionOrder'
  <2>1. /\ st'.entries[st.cur].seq = st.seq /\ st'.seq = st.seq + 1 /\ ~Ended
        /\ \A n \in Names : n # st.cur => st'.entries[n] = st.entries[n]
    BY <1>5, EntriesAfterLeaving DEF Leaves
  <2> QED BY <1>1, <1>2, <1>3, <2>1 DEF SeqIsExecutionOrder
<1>6. ASSUME NEW code, Fails(code) PROVE SeqIsExecutionOrder'
  <2>1. /\ Ended' /\ ~Ended /\ st'.seq = st.seq
        /\ st'.entries[st.cur] = st.entries[st.cur] \/ st'.entries[st.cur].seq = st.seq
        /\ st'.entries[st.cur].status = "failed"
        /\ \A n \in Names : n # st.cur => st'.entries[n] = st.entries[n]
    BY <1>6 DEF Fails, Ended
  <2>2. ASSUME NEW n \in Names, st'.entries[n].status # "none"
        PROVE  /\ st'.entries[n].seq <= st.seq
               /\ n # st.cur => st'.entries[n] = st.entries[n] /\ st.entries[n].seq < st.seq
    BY <1>1, <1>2, <1>3, <2>1, <2>2
  <2>3. ASSUME NEW n \in Names, st'.entries[n].status # "none", n # st.cur
        PROVE  st'.entries[n].seq # st'.entries[st.cur].seq
    BY <1>1, <1>2, <1>3, <2>1, <2>2, <2>3
  <2>4. ASSUME NEW m \in Names, NEW n \in Names, m # n, st'.entries[m].status # "none",
               st'.entries[n].status # "none"
        PROVE  st'.entries[m].seq # st'.entries[n].seq
    BY <1>3, <2>1, <2>3, <2>4
  <2> QED BY <2>1, <2>2, <2>4 DEF SeqIsExecutionOrder
<1>7. "failed" \in Statuses
  BY DEF Statuses
<1> QED BY <1>4, <1>5, <1>6, <1>7 DEF OfAKind, Gives, GoesOn, Handles, FailsUnresolved

-----------------------------------------------------------------------------
(* The calls.                                                              *)

\* Attempt or item k of the current step has been called, or will not be.
Past(k) ==
    \/ k <= Len(st.loop.results)
    \/ pc \in {"running", "cancelling"} /\ k \in DOMAIN chunk /\ chunk[k] # "queued"

CallsCounted ==
    /\ IsFiniteSet(called) /\ Cardinality(called) = dispatched
    /\ dispatched \in Nat /\ dispatched <= TotalInvocations
    /\ ~Ended => dispatched <= st.invocations

CallsPast ==
    /\ \A q, k : <<q, k>> \in called => q \in Nat /\ k \in Nat /\ q <= st.seq
    /\ ~Ended => \A k : <<st.seq, k>> \in called => Past(k)

CallsRecorded == CallsCounted /\ CallsPast

\* No call is made, and what was called stays past.
LEMMA NoCallIsMade ==
    ASSUME WellFormed, CallsRecorded, UNCHANGED history, st'.seq = st.seq,
           ~Ended' => /\ ~Ended /\ st'.invocations = st.invocations
                      /\ \A k \in Nat : Past(k) => Past(k)'
    PROVE  CallsRecorded'
<1>1. CallsCounted'
  BY DEF CallsRecorded, CallsCounted, history
<1>2. CallsPast'
  BY DEF CallsRecorded, CallsPast, history
<1> QED BY <1>1, <1>2 DEF CallsRecorded

LEMMA GivesMakesNoCall ==
    ASSUME WellFormed, CallsRecorded, UNCHANGED history, Gives
    PROVE  CallsRecorded'
<1>1. st.seq \in Nat
  BY DEF WellFormed, Types, RunStates
<1>2. ASSUME NEW ending, Leaves(ending) PROVE CallsRecorded'
  <2>1. st'.seq = st.seq + 1 /\ st'.invocations = st.invocations /\ ~Ended
    BY <1>2 DEF Leaves
  <2>2. CallsCounted'
    BY <2>1 DEF CallsRecorded, CallsCounted, history
  <2>3. CallsPast'
    BY <1>1, <2>1 DEF CallsRecorded, CallsPast, history
  <2> QED BY <2>2, <2>3 DEF CallsRecorded
<1>3. ASSUME NEW code, Fails(code) PROVE CallsRecorded'
  <2>1. st'.seq = st.seq /\ Ended'
    BY <1>3 DEF Fails, Ended
  <2> QED BY <2>1, NoCallIsMade
<1> QED BY <1>2, <1>3 DEF Gives, GoesOn, Handles, FailsUnresolved

\* The place and the loop of the run stay, and no task is queued again.
LEMMA SameLoopMakesNoCall ==
    ASSUME WellFormed, CallsRecorded, UNCHANGED history, st'.seq = st.seq,
           ~Ended' => /\ ~Ended /\ st'.invocations = st.invocations /\ st'.loop = st.loop
                      /\ pc \in {"running", "cancelling"} =>
                           /\ pc' \in {"running", "cancelling"}
                           /\ DOMAIN chunk' = DOMAIN chunk
                           /\ \A k \in DOMAIN chunk : chunk[k] # "queued" => chunk'[k] # "queued"
    PROVE  CallsRecorded'
  BY NoCallIsMade DEF Past

LEMMA InvokeKeepsCalls ==
    ASSUME WellFormed, CallsRecorded, NEW k \in DOMAIN chunk, Invoke(k)
    PROVE  CallsRecorded'
<1>1. /\ pc = "running" /\ pc' = pc /\ chunk[k] = "queued"
      /\ st' = [st EXCEPT !.invocations = @ + 1]
      /\ \/ /\ st.invocations < TotalInvocations /\ chunk' = [chunk EXCEPT ![k] = "running"]
            /\ called' = called \cup {<<st.seq, k>>} /\ dispatched' = dispatched + 1
         \/ chunk' = [chunk EXCEPT ![k] = "error"] /\ UNCHANGED history
  BY DEF Invoke, Tasks
<1>2. /\ st \in RunStates /\ st.seq \in Nat /\ st.invocations \in Nat /\ ~Ended
      /\ k \in Nat /\ Len(st.loop.results) < k /\ chunk \in [DOMAIN chunk -> TaskStates]
      /\ Len(st.loop.results) \in Nat
  BY <1>1, ChunkFacts DEF WellFormed, Types, RunStates, Loops
<1>3. /\ st'.seq = st.seq /\ st'.loop = st.loop /\ st'.invocations = st.invocations + 1
  BY <1>1, <1>2 DEF RunStates
<1>4. /\ chunk'[k] # "queued" /\ DOMAIN chunk' = DOMAIN chunk
      /\ \A j \in DOMAIN chunk : j # k => chunk'[j] = chunk[j]
  BY <1>1, <1>2
<1>5. Past(k)' /\ \A j \in Nat : Past(j) => Past(j)'
  BY <1>1, <1>3, <1>4 DEF Past
<1>6. ~Past(k)
  BY <1>1, <1>2 DEF Past
<1>7. <<st.seq, k>> \notin called
  BY <1>2, <1>6 DEF CallsRecorded, CallsPast
<1>8. CASE called' = called \cup {<<st.seq, k>>} /\ dispatched' = dispatched + 1
             /\ st.invocations < TotalInvocations
  <2>1. IsFiniteSet(called') /\ Cardinality(called') = Cardinality(called) + 1
    BY <1>7, <1>8, FS_AddElement DEF CallsRecorded, CallsCounted
  <2>2. CallsCounted'
    BY <1>2, <1>3, <1>8, <2>1, RunnerConstants DEF CallsRecorded, CallsCounted
  <2>3. ASSUME NEW q, NEW j, <<q, j>> \in called'
        PROVE  /\ q \in Nat /\ j \in Nat /\ q <= st'.seq
               /\ q = st'.seq => Past(j)'
    <3>1. CASE <<q, j>> \in called
      BY <1>2, <1>3, <1>5, <3>1 DEF CallsRecorded, CallsPast
    <3>2. CASE q = st.seq /\ j = k
      BY <1>2, <1>3, <1>5, <3>2
    <3> QED BY <1>8, <2>3, <3>1, <3>2
  <2>4. CallsPast'
    BY <2>3 DEF CallsPast
  <2> QED BY <2>2, <2>4 DEF CallsRecorded
<1>9. CASE UNCHANGED history
  <2>1. CallsCounted'
    BY <1>2, <1>3, <1>9 DEF CallsRecorded, CallsCounted, history
  <2>2. CallsPast'
    BY <1>2, <1>3, <1>5, <1>9 DEF CallsRecorded, CallsPast, history
  <2> QED BY <2>1, <2>2 DEF CallsRecorded
<1> QED BY <1>1, <1>8, <1>9

\* When a chunk ends, all its tasks are among the results.
LEMMA ChunkEndsKeepsCalls ==
    ASSUME WellFormed, CallsRecorded, ChunkEnds
    PROVE  CallsRecorded'
<1>1. pc = "running" /\ UNCHANGED history
  BY DEF ChunkEnds
<1>2. CASE Gives
  BY <1>1, <1>2, GivesMakesNoCall
<1>3. CASE /\ Stays /\ st'.invocations = st.invocations /\ st'.loop = Appended(st.loop, Step)
  <2> DEFINE done == Len(st.loop.results)
             n == Cardinality(DOMAIN chunk)
  <2>1. Len(st'.loop.results) = done + n
    BY <1>1, <1>3, AppendedFits
  <2>2. /\ IsFiniteSet(DOMAIN chunk) /\ \A k \in DOMAIN chunk : k <= done + n
        /\ st.loop.results \in Seq({"included", "omitted"})
    BY <1>1, ChunkFacts DEF WellFormed, Types, RunStates, Loops
  <2>3. n \in Nat /\ done \in Nat
    BY <2>2, FS_CardinalityType
  <2>4. \A k \in Nat : Past(k) => k <= Len(st'.loop.results)
    <3> HIDE DEF n, done
    <3>1. \A k \in Nat : Past(k) => k <= done \/ k \in DOMAIN chunk
      BY DEF Past, done
    <3> QED BY <2>1, <2>2, <2>3, <3>1
  <2>5. \A k \in Nat : Past(k) => Past(k)'
    BY <2>4 DEF Past
  <2>6. st'.seq = st.seq /\ (~Ended' => ~Ended)
    BY <1>3 DEF Stays
  <2> QED BY <1>1, <1>3, <2>5, <2>6, NoCallIsMade
<1> QED BY <1>2, <1>3, ChunkEndsStep

LEMMA CallsAreKept ==
    ASSUME WellFormed, CallsRecorded, [Next]_vars
    PROVE  CallsRecorded'
<1> USE DEF Ended
<1>1. CASE Sleep \/ Unresolved \/ WaitEnds \/ WaitTimesOut \/ SkipOperation \/ OperationFails
             \/ LoopEnds
  <2>1. UNCHANGED history
    BY <1>1 DEF Sleep, Unresolved, WaitEnds, WaitTimesOut, SkipOperation, OperationFails,
                LoopEnds
  <2>2. Gives
    BY <1>1, SleepStep, UnresolvedStep, WaitEndsStep, WaitTimesOutStep, SkipOperationStep,
       OperationFailsStep, LoopEndsStep
  <2> QED BY <2>1, <2>2, GivesMakesNoCall
<1>2. CASE Terminal
  <2>1. UNCHANGED history /\ Ended' /\ st' = [st EXCEPT !.episode = NoEpisode]
    BY <1>2 DEF Terminal
  <2>2. st'.seq = st.seq
    BY <2>1 DEF WellFormed, Types, RunStates
  <2> QED BY <2>1, <2>2, SameLoopMakesNoCall
<1>3. CASE StartWait
  <2>1. UNCHANGED history /\ pc = "step"
    BY <1>3 DEF StartWait
  <2>2. Gives \/ st' = Entering
    BY <1>3, StartWaitStep
  <2>3. CASE st' = Entering
    BY <2>1, <2>3, EpisodeFacts, SameLoopMakesNoCall DEF WellFormed
  <2> QED BY <2>1, <2>2, <2>3, GivesMakesNoCall
<1>4. CASE StartOperation
  <2>1. UNCHANGED history /\ pc \in {"step", "loop"} /\ st' = Entering
    BY <1>4 DEF StartOperation
  <2> QED BY <2>1, EpisodeFacts, SameLoopMakesNoCall DEF WellFormed
<1>5. ASSUME NEW k \in DOMAIN chunk, Invoke(k) \/ Answer(k) \/ CallFails(k) PROVE CallsRecorded'
  <2>1. CASE Invoke(k)
    BY <2>1, InvokeKeepsCalls
  <2>2. CASE Answer(k) \/ CallFails(k)
    <3>1. /\ UNCHANGED <<called, dispatched, st, pc>> /\ pc \in {"running", "cancelling"}
          /\ \E task \in TaskStates \ {"queued"} : chunk' = [chunk EXCEPT ![k] = task]
      BY <2>2 DEF Answer, CallFails, history, TaskStates
    <3>2. chunk \in [DOMAIN chunk -> TaskStates]
      BY <3>1, ChunkFacts
    <3>3. /\ DOMAIN chunk' = DOMAIN chunk
          /\ \A j \in DOMAIN chunk : chunk[j] # "queued" => chunk'[j] # "queued"
      BY <3>1, <3>2
    <3> QED BY <3>1, <3>3, SameLoopMakesNoCall DEF history
  <2> QED BY <1>5, <2>1, <2>2
<1>6. CASE CancelTasks
  <2>1. /\ UNCHANGED <<called, dispatched, st>> /\ pc = "running" /\ pc' = "cancelling"
        /\ DOMAIN chunk' = DOMAIN chunk
        /\ \A j \in DOMAIN chunk : chunk[j] # "queued" => chunk'[j] # "queued"
    BY <1>6 DEF CancelTasks, history
  <2> QED BY <2>1, SameLoopMakesNoCall DEF history
<1>7. CASE ChunkEnds
  BY <1>7, ChunkEndsKeepsCalls
<1>8. CASE ContinueAsNew \/ Restart
  <2>1. UNCHANGED history /\ pc \in {"continuing", "restart"}
    BY <1>8 DEF ContinueAsNew, Restart
  <2>2. st' = st
    BY <1>8, RestartStep DEF ContinueAsNew
  <2> QED BY <2>1, <2>2, SameLoopMakesNoCall
<1>9. ASSUME NEW s \in Signals, EventArrives(s) PROVE CallsRecorded'
  <2>1. UNCHANGED <<called, dispatched, st, chunk>> /\ (pc' = pc \/ pc' = "failed") /\ ~Ended
    BY <1>9 DEF EventArrives, history
  <2> QED BY <2>1, SameLoopMakesNoCall DEF history
<1>10. CASE Cancel
  <2>1. UNCHANGED <<called, dispatched, st>> /\ Ended'
    BY <1>10 DEF Cancel, history
  <2> QED BY <2>1, SameLoopMakesNoCall DEF history
<1>11. CASE UNCHANGED vars
  <2>1. UNCHANGED <<called, dispatched, st, chunk, pc>>
    BY <1>11 DEF vars
  <2> QED BY <2>1, SameLoopMakesNoCall DEF history
<1> QED BY <1>1, <1>2, <1>3, <1>4, <1>5, <1>6, <1>7, <1>8, <1>9, <1>10, <1>11
        DEF Next, RunnerNext, Stop

-----------------------------------------------------------------------------
(* The events.                                                             *)

\* The accepted events are those taken, those carried to the next Temporal run and
\* those queued, element by element.
InPlace(all, t, kept, queued) ==
    /\ Len(all) = t + Len(kept) + Len(queued)
    /\ \A i \in 1..Len(kept) : kept[i] = all[t + i]
    /\ \A i \in 1..Len(queued) : queued[i] = all[t + Len(kept) + i]

LEMMA InPlaceIsConcatenation ==
    ASSUME NEW S, NEW all \in Seq(S), NEW t \in Nat, NEW kept \in Seq(S), NEW queued \in Seq(S),
           InPlace(all, t, kept, queued)
    PROVE  all = SubSeq(all, 1, t) \o kept \o queued
<1> DEFINE head == SubSeq(all, 1, t)
           front == head \o kept
<1>1. /\ Len(all) \in Nat /\ Len(kept) \in Nat /\ Len(queued) \in Nat
      /\ Len(all) = t + Len(kept) + Len(queued)
  BY DEF InPlace
<1>2. \A i \in 1..t : all[i] \in S
  BY <1>1, ElementOfSeq
<1>3. head \in Seq(S) /\ Len(head) = t /\ \A i \in 1..t : head[i] = all[i]
  BY <1>2, SubSeqProperties, Z3
<1> HIDE DEF head
<1>4. /\ front \in Seq(S) /\ Len(front) = t + Len(kept)
      /\ \A i \in 1..(t + Len(kept)) :
            front[i] = IF i <= t THEN head[i] ELSE kept[i - t]
  BY <1>3, ConcatProperties
<1> HIDE DEF front
<1>5. /\ front \o queued \in Seq(S) /\ Len(front \o queued) = Len(all)
      /\ \A i \in 1..Len(all) :
            (front \o queued)[i] =
               IF i <= t + Len(kept) THEN front[i] ELSE queued[i - (t + Len(kept))]
  <2>1. /\ front \o queued \in Seq(S) /\ Len(front \o queued) = Len(front) + Len(queued)
        /\ \A i \in 1..(Len(front) + Len(queued)) :
              (front \o queued)[i] =
                 IF i <= Len(front) THEN front[i] ELSE queued[i - Len(front)]
    BY <1>4, ConcatProperties
  <2>2. Len(front) + Len(queued) = Len(all) /\ Len(front) = t + Len(kept)
    BY <1>1, <1>4
  <2> QED BY <2>1, <2>2
<1>6. ASSUME NEW i \in 1..Len(all) PROVE all[i] = (front \o queued)[i]
  <2>1. CASE i <= t
    BY <1>1, <1>3, <1>4, <1>5, <2>1
  <2>2. CASE t < i /\ i <= t + Len(kept)
    <3>1. i - t \in 1..Len(kept) /\ t + (i - t) = i
      BY <1>1, <2>2
    <3>2. kept[i - t] = all[t + (i - t)]
      BY <3>1 DEF InPlace
    <3> QED BY <1>1, <1>4, <1>5, <2>2, <3>1, <3>2
  <2>3. CASE t + Len(kept) < i
    <3> DEFINE j == i - (t + Len(kept))
    <3>1. j \in 1..Len(queued) /\ t + Len(kept) + j = i
      BY <1>1, <2>3
    <3>2. queued[j] = all[t + Len(kept) + j]
      BY <3>1 DEF InPlace
    <3> QED BY <1>1, <1>5, <2>3, <3>1, <3>2
  <2>4. i <= t \/ (t < i /\ i <= t + Len(kept)) \/ t + Len(kept) < i
    BY <1>1
  <2> QED BY <2>1, <2>2, <2>3, <2>4
<1>7. all = front \o queued
  BY <1>5, <1>6, SeqEqual
<1> QED BY <1>7 DEF front, head

\* A wait takes the oldest event.
LEMMA InPlaceAfterTaking ==
    ASSUME NEW S, NEW all \in Seq(S), NEW t \in Nat, NEW queued \in Seq(S), queued # <<>>,
           InPlace(all, t, <<>>, queued)
    PROVE  InPlace(all, t + 1, <<>>, Tail(queued))
<1>1. /\ Tail(queued) \in Seq(S) /\ Len(queued) \in Nat /\ Len(Tail(queued)) = Len(queued) - 1
      /\ \A i \in 1..Len(Tail(queued)) : Tail(queued)[i] = queued[i + 1]
  BY HeadTailProperties
<1>2. Len(all) = t + Len(queued) /\ \A i \in 1..Len(queued) : queued[i] = all[t + i]
  BY <1>1 DEF InPlace
<1>3. ASSUME NEW i \in 1..Len(Tail(queued)) PROVE Tail(queued)[i] = all[t + 1 + i]
  <2>1. i + 1 \in 1..Len(queued) /\ t + (i + 1) = t + 1 + i
    BY <1>1
  <2> QED BY <1>1, <1>2, <2>1
<1>4. Len(<<>>) = 0 /\ t + 1 + 0 = t + 1
  OBVIOUS
<1>5. Len(all) = (t + 1) + 0 + Len(Tail(queued))
  BY <1>1, <1>2
<1> HIDE DEF InPlace
<1> QED BY <1>3, <1>4, <1>5 DEF InPlace

\* An event that arrives goes behind all others.
LEMMA InPlaceAfterArrival ==
    ASSUME NEW S, NEW all \in Seq(S), NEW t \in Nat, NEW kept \in Seq(S), NEW queued \in Seq(S),
           NEW e \in S, InPlace(all, t, kept, queued)
    PROVE  InPlace(Append(all, e), t, kept, Append(queued, e))
<1>1. /\ Len(all) \in Nat /\ Len(kept) \in Nat /\ Len(queued) \in Nat
      /\ Len(all) = t + Len(kept) + Len(queued)
      /\ \A i \in 1..Len(kept) : kept[i] = all[t + i]
      /\ \A i \in 1..Len(queued) : queued[i] = all[t + Len(kept) + i]
  BY DEF InPlace
<1>2. /\ Len(Append(all, e)) = Len(all) + 1 /\ Append(all, e)[Len(all) + 1] = e
      /\ \A i \in 1..Len(all) : Append(all, e)[i] = all[i]
      /\ Len(Append(queued, e)) = Len(queued) + 1 /\ Append(queued, e)[Len(queued) + 1] = e
      /\ \A i \in 1..Len(queued) : Append(queued, e)[i] = queued[i]
  BY AppendProperties
<1>3. ASSUME NEW i \in 1..Len(kept) PROVE kept[i] = Append(all, e)[t + i]
  <2>1. t + i \in 1..Len(all)
    BY <1>1
  <2> QED BY <1>1, <1>2, <2>1
<1>4. ASSUME NEW i \in 1..Len(Append(queued, e))
      PROVE  Append(queued, e)[i] = Append(all, e)[t + Len(kept) + i]
  <2>1. CASE i \in 1..Len(queued)
    <3>1. t + Len(kept) + i \in 1..Len(all)
      BY <1>1, <2>1
    <3> QED BY <1>1, <1>2, <2>1, <3>1
  <2>2. CASE i = Len(queued) + 1
    <3>1. t + Len(kept) + i = Len(all) + 1
      BY <1>1, <2>2
    <3> QED BY <1>2, <2>2, <3>1
  <2> QED BY <1>1, <1>2, <2>1, <2>2
<1>5. Len(Append(all, e)) = t + Len(kept) + Len(Append(queued, e))
  BY <1>1, <1>2
<1> QED BY <1>3, <1>4, <1>5 DEF InPlace

\* The queues of a run go to the next one, before what arrives there.
LEMMA InPlaceAfterContinuing ==
    ASSUME NEW S, NEW all \in Seq(S), NEW t \in Nat, NEW queued \in Seq(S),
           InPlace(all, t, <<>>, queued)
    PROVE  InPlace(all, t, queued, <<>>)
<1>1. Len(<<>>) = 0 /\ Len(queued) \in Nat /\ Len(all) \in Nat
  OBVIOUS
<1>2. Len(all) = t + Len(queued) /\ \A i \in 1..Len(queued) : queued[i] = all[t + i]
  BY <1>1 DEF InPlace
<1> QED BY <1>1, <1>2 DEF InPlace

LEMMA InPlaceAfterMerging ==
    ASSUME NEW S, NEW all \in Seq(S), NEW t \in Nat, NEW kept \in Seq(S), NEW queued \in Seq(S),
           InPlace(all, t, kept, queued)
    PROVE  InPlace(all, t, <<>>, kept \o queued)
<1>1. /\ Len(all) \in Nat /\ Len(kept) \in Nat /\ Len(queued) \in Nat
      /\ Len(all) = t + Len(kept) + Len(queued)
      /\ \A i \in 1..Len(kept) : kept[i] = all[t + i]
      /\ \A i \in 1..Len(queued) : queued[i] = all[t + Len(kept) + i]
  BY DEF InPlace
<1> DEFINE both == kept \o queued
<1>2. /\ Len(both) = Len(kept) + Len(queued)
      /\ \A i \in 1..(Len(kept) + Len(queued)) :
            both[i] = IF i <= Len(kept) THEN kept[i] ELSE queued[i - Len(kept)]
  BY ConcatProperties
<1> HIDE DEF both
<1>3. ASSUME NEW i \in 1..Len(both) PROVE both[i] = all[t + i]
  <2>1. CASE i <= Len(kept)
    BY <1>1, <1>2, <2>1
  <2>2. CASE Len(kept) < i
    <3> DEFINE j == i - Len(kept)
    <3>1. j \in 1..Len(queued) /\ t + Len(kept) + j = t + i
      BY <1>1, <1>2, <2>2
    <3>2. queued[j] = all[t + Len(kept) + j]
      BY <1>1, <3>1
    <3> QED BY <1>1, <1>2, <2>2, <3>1, <3>2
  <2> QED BY <1>1, <1>2, <2>1, <2>2
<1>4. Len(<<>>) = 0 /\ t + Len(<<>>) = t
  OBVIOUS
<1> QED BY <1>1, <1>2, <1>3, <1>4 DEF InPlace, both

Queues == [Signals -> Seq(1..MaxEvents)]

\* The events on their way from one Temporal run to the next.
Carried(s) == IF pc = "restart" THEN carry.events[s] ELSE <<>>

EventsInPlace ==
    /\ pending \in Queues /\ carry.events \in Queues /\ accepted \in Queues
    /\ taken \in [Signals -> Nat]
    /\ outcome.code # "queue" =>
         \A s \in Signals : InPlace(accepted[s], taken[s], Carried(s), pending[s])

LEMMA RunningIsNotQueue ==
    ASSUME WellFormed, ~Ended
    PROVE  outcome.code # "queue"
  BY DEF WellFormed, Shaped, Running

LEMMA NoEventMoves ==
    ASSUME WellFormed, EventsInPlace, UNCHANGED messages, UNCHANGED carry,
           ~Ended \/ UNCHANGED <<outcome, pc>>,
           pc = "restart" <=> pc' = "restart"
    PROVE  EventsInPlace'
<1>1. outcome'.code # "queue" => outcome.code # "queue"
  BY RunningIsNotQueue
<1>2. \A s : Carried(s)' = Carried(s)
  BY DEF Carried
<1> QED BY <1>1, <1>2 DEF EventsInPlace, messages

LEMMA GivesKeepsPlace ==
    ASSUME Gives
    PROVE  UNCHANGED carry /\ pc' # "restart" /\ ~Ended
  BY DEF Gives, GoesOn, Handles, FailsUnresolved, Leaves, Fails

LEMMA TakeKeepsEvents ==
    ASSUME WellFormed, EventsInPlace, NEW s \in Signals, Take(s), UNCHANGED carry, ~Ended,
           pc # "restart", pc' # "restart"
    PROVE  EventsInPlace'
<1>1. /\ pending[s] # <<>> /\ pending' = [pending EXCEPT ![s] = Tail(@)]
      /\ taken' = [taken EXCEPT ![s] = @ + 1] /\ UNCHANGED accepted
  BY DEF Take
<1>2. /\ pending \in Queues /\ accepted \in Queues /\ taken \in [Signals -> Nat]
      /\ carry.events \in Queues
      /\ \A x \in Signals : InPlace(accepted[x], taken[x], <<>>, pending[x])
  BY RunningIsNotQueue DEF EventsInPlace, Carried
<1>3. /\ pending[s] \in Seq(1..MaxEvents) /\ accepted[s] \in Seq(1..MaxEvents) /\ taken[s] \in Nat
      /\ InPlace(accepted[s], taken[s], <<>>, pending[s])
  BY <1>2 DEF Queues
<1>4. Tail(pending[s]) \in Seq(1..MaxEvents)
  BY <1>1, <1>3, HeadTailProperties
<1>5. InPlace(accepted[s], taken[s] + 1, <<>>, Tail(pending[s]))
  BY <1>1, <1>3, InPlaceAfterTaking
<1>6. /\ pending' \in Queues /\ taken' \in [Signals -> Nat]
      /\ pending'[s] = Tail(pending[s]) /\ taken'[s] = taken[s] + 1
      /\ \A x \in Signals : x # s => pending'[x] = pending[x] /\ taken'[x] = taken[x]
  BY <1>1, <1>2, <1>3, <1>4 DEF Queues
<1>7. \A x \in Signals : InPlace(accepted[x], taken'[x], <<>>, pending'[x])
  BY <1>2, <1>5, <1>6
<1> QED BY <1>1, <1>2, <1>6, <1>7 DEF EventsInPlace, Carried

LEMMA ArrivalKeepsEvents ==
    ASSUME WellFormed, EventsInPlace, NEW s \in Signals, EventArrives(s)
    PROVE  EventsInPlace'
<1> DEFINE e == Len(accepted[s]) + 1
<1>1. /\ ~Ended /\ Len(accepted[s]) < MaxEvents /\ UNCHANGED <<carry, taken>>
      /\ \/ /\ pending' = [pending EXCEPT ![s] = Append(@, e)]
            /\ accepted' = [accepted EXCEPT ![s] = Append(@, e)]
            /\ UNCHANGED <<pc, outcome>>
         \/ /\ outcome' = [code |-> "queue", primary |-> NoStep]
            /\ UNCHANGED <<pending, accepted>>
  BY DEF EventArrives
<1>2. /\ pending \in Queues /\ accepted \in Queues /\ taken \in [Signals -> Nat]
      /\ carry.events \in Queues
      /\ \A x \in Signals : InPlace(accepted[x], taken[x], Carried(x), pending[x])
  BY <1>1, RunningIsNotQueue DEF EventsInPlace
<1>3. CASE outcome' = [code |-> "queue", primary |-> NoStep] /\ UNCHANGED <<pending, accepted>>
  BY <1>1, <1>2, <1>3 DEF EventsInPlace
<1>4. CASE /\ pending' = [pending EXCEPT ![s] = Append(@, e)]
           /\ accepted' = [accepted EXCEPT ![s] = Append(@, e)]
           /\ UNCHANGED <<pc, outcome>>
  <2>1. /\ pending[s] \in Seq(1..MaxEvents) /\ accepted[s] \in Seq(1..MaxEvents) /\ taken[s] \in Nat
        /\ carry.events[s] \in Seq(1..MaxEvents) /\ <<>> \in Seq(1..MaxEvents)
    BY <1>2 DEF Queues
  <2>2. Carried(s) \in Seq(1..MaxEvents) /\ Len(accepted[s]) \in Nat /\ e \in 1..MaxEvents
    <3>1. Len(accepted[s]) \in Nat /\ MaxEvents \in Nat
      BY <2>1, RunnerConstants
    <3>2. Carried(s) \in Seq(1..MaxEvents)
      BY <2>1 DEF Carried
    <3> QED BY <1>1, <3>1, <3>2
  <2> HIDE DEF e
  <2>3. InPlace(Append(accepted[s], e), taken[s], Carried(s), Append(pending[s], e))
    BY <1>2, <2>1, <2>2, InPlaceAfterArrival
  <2>4. /\ pending' \in Queues /\ accepted' \in Queues
        /\ pending'[s] = Append(pending[s], e) /\ accepted'[s] = Append(accepted[s], e)
        /\ \A x \in Signals : x # s => pending'[x] = pending[x] /\ accepted'[x] = accepted[x]
    BY <1>2, <1>4, <2>1, <2>2 DEF Queues
  <2>5. \A x \in Signals : Carried(x)' = Carried(x)
    BY <1>1, <1>4 DEF Carried
  <2>6. \A x \in Signals : InPlace(accepted'[x], taken[x], Carried(x)', pending'[x])
    BY <1>2, <2>3, <2>4, <2>5
  <2> QED BY <1>1, <1>2, <2>4, <2>6 DEF EventsInPlace
<1> QED BY <1>1, <1>3, <1>4

LEMMA ContinuingKeepsEvents ==
    ASSUME WellFormed, EventsInPlace, ContinueAsNew
    PROVE  EventsInPlace'
<1>1. /\ pc = "continuing" /\ ~Ended /\ UNCHANGED <<accepted, taken>>
      /\ \/ /\ carry' = [state |-> BuildCheckpoint(st), events |-> pending]
            /\ pending' = [s \in Signals |-> <<>>] /\ pc' = "restart"
         \/ pc' = "failed" /\ UNCHANGED <<carry, pending>>
  BY DEF ContinueAsNew, Ended
<1>2. /\ pending \in Queues /\ accepted \in Queues /\ taken \in [Signals -> Nat]
      /\ carry.events \in Queues
      /\ \A x \in Signals : InPlace(accepted[x], taken[x], <<>>, pending[x])
  BY <1>1, RunningIsNotQueue DEF EventsInPlace, Carried
<1>3. CASE pc' = "failed" /\ UNCHANGED <<carry, pending>>
  BY <1>1, <1>2, <1>3 DEF EventsInPlace, Carried
<1>4. CASE /\ carry' = [state |-> BuildCheckpoint(st), events |-> pending]
           /\ pending' = [s \in Signals |-> <<>>] /\ pc' = "restart"
  <2>1. carry'.events = pending
    BY <1>4
  <2>2. \A x \in Signals : pending[x] \in Seq(1..MaxEvents) /\ accepted[x] \in Seq(1..MaxEvents)
                             /\ taken[x] \in Nat
    BY <1>2 DEF Queues
  <2>3. \A x \in Signals : InPlace(accepted[x], taken[x], pending[x], <<>>)
    BY <1>2, <2>2, InPlaceAfterContinuing
  <2>4. pending' \in Queues /\ \A x \in Signals : pending'[x] = <<>>
    BY <1>4 DEF Queues
  <2>5. \A x \in Signals : InPlace(accepted[x], taken[x], Carried(x)', pending'[x])
    BY <1>4, <2>1, <2>3, <2>4 DEF Carried
  <2> QED BY <1>1, <1>2, <2>1, <2>4, <2>5 DEF EventsInPlace
<1> QED BY <1>1, <1>3, <1>4

LEMMA RestartKeepsEvents ==
    ASSUME WellFormed, EventsInPlace, Restart
    PROVE  EventsInPlace'
<1>1. /\ pc = "restart" /\ ~Ended /\ UNCHANGED <<carry, accepted, taken>>
      /\ \/ /\ pending' = [s \in Signals |-> Merged(s)]
            /\ pc' \in {"step", "loop", "drained"}
         \/ outcome' = [code |-> "queue", primary |-> NoStep] /\ UNCHANGED pending
  <2>1. pc = "restart" /\ UNCHANGED <<carry, accepted, taken>>
    BY DEF Restart
  <2>2. \/ /\ pending' = [s \in Signals |-> Merged(s)]
           /\ pc' = CASE Len(carry.state.loop.results) = 0 -> "step"
                      [] /\ Len(carry.state.loop.results) > 0
                         /\ Len(carry.state.loop.results) < Total(wf.steps[carry.state.cur])
                         -> "loop"
                      [] OTHER -> "drained"
        \/ outcome' = [code |-> "queue", primary |-> NoStep] /\ UNCHANGED pending
    BY DEF Restart
  <2> QED BY <2>1, <2>2 DEF Ended
<1>2. /\ pending \in Queues /\ accepted \in Queues /\ taken \in [Signals -> Nat]
      /\ carry.events \in Queues
      /\ \A x \in Signals : InPlace(accepted[x], taken[x], carry.events[x], pending[x])
  BY <1>1, RunningIsNotQueue DEF EventsInPlace, Carried
<1>3. CASE outcome' = [code |-> "queue", primary |-> NoStep] /\ UNCHANGED pending
  BY <1>1, <1>2, <1>3 DEF EventsInPlace
<1>4. CASE pending' = [s \in Signals |-> Merged(s)] /\ pc' \in {"step", "loop", "drained"}
  <2>1. ASSUME NEW x \in Signals
        PROVE  /\ pending'[x] = carry.events[x] \o pending[x]
               /\ pending'[x] \in Seq(1..MaxEvents)
               /\ InPlace(accepted[x], taken[x], <<>>, carry.events[x] \o pending[x])
    <3>1. /\ pending[x] \in Seq(1..MaxEvents) /\ accepted[x] \in Seq(1..MaxEvents)
          /\ carry.events[x] \in Seq(1..MaxEvents) /\ taken[x] \in Nat
      BY <1>2 DEF Queues
    <3>2. pending'[x] = carry.events[x] \o pending[x]
      BY <1>4 DEF Merged
    <3>3. carry.events[x] \o pending[x] \in Seq(1..MaxEvents)
      BY <3>1, ConcatProperties
    <3> QED BY <1>2, <3>1, <3>2, <3>3, InPlaceAfterMerging
  <2>2. pending' \in Queues
    BY <1>4, <2>1 DEF Queues
  <2>3. \A x \in Signals : InPlace(accepted[x], taken[x], Carried(x)', pending'[x])
    BY <1>4, <2>1 DEF Carried
  <2> QED BY <1>1, <1>2, <2>2, <2>3 DEF EventsInPlace
<1> QED BY <1>1, <1>3, <1>4

LEMMA EventsAreKept ==
    ASSUME WellFormed, EventsInPlace, [Next]_vars
    PROVE  EventsInPlace'
<1>1. CASE Sleep \/ Unresolved \/ WaitTimesOut \/ SkipOperation \/ OperationFails
             \/ LoopEnds
  <2>1. UNCHANGED messages /\ pc # "restart"
    BY <1>1 DEF Sleep, Unresolved, WaitTimesOut, SkipOperation, OperationFails, LoopEnds
  <2>2. Gives
    BY <1>1, SleepStep, UnresolvedStep, WaitTimesOutStep, SkipOperationStep,
       OperationFailsStep, LoopEndsStep
  <2> QED BY <2>1, <2>2, GivesKeepsPlace, NoEventMoves
<1>2. CASE StartWait \/ WaitEnds
  <2> DEFINE s == SignalOf[st.cur]
  <2>1. s \in Signals
    BY RunnerConstants DEF WellFormed, Types, RunStates
  <2>2. pc \in {"step", "waiting"} /\ ~Ended /\ pc # "restart"
    BY <1>2 DEF StartWait, WaitEnds, Ended
  <2>3. \/ Take(s) /\ (Succeed(Entering, Step) \/ Succeed(st, Step))
        \/ pc' = "waiting" /\ UNCHANGED <<carry, pending, accepted, taken>>
    BY <1>2 DEF StartWait, WaitEnds, messages
  <2>4. (UNCHANGED carry /\ pc' # "restart") \/ (Gives /\ UNCHANGED carry /\ pc' # "restart")
    <3>1. Gives \/ (st' = Entering /\ pc' = "waiting" /\ Stays)
      <4>1. CASE StartWait
        BY <4>1, StartWaitStep
      <4>2. CASE WaitEnds
        BY <4>2, WaitEndsStep
      <4> QED BY <1>2, <4>1, <4>2
    <3>2. CASE Gives
      BY <3>2, GivesKeepsPlace
    <3>3. CASE st' = Entering /\ pc' = "waiting" /\ Stays
      <4>1. UNCHANGED carry
        BY <1>2, <2>3, <3>3 DEF StartWait, WaitEnds, Succeed, Divert, Advance,
           CheckpointAfterStep, FailWith, EndRun, GoOn
      <4> QED BY <3>3, <4>1
    <3> QED BY <3>1, <3>2, <3>3
  <2>5. CASE Take(s)
    <3> HIDE DEF s
    <3> QED BY <2>1, <2>2, <2>4, <2>5, TakeKeepsEvents
  <2>6. CASE pc' = "waiting" /\ UNCHANGED <<carry, pending, accepted, taken>>
    BY <2>2, <2>6, NoEventMoves DEF messages
  <2> QED BY <2>3, <2>5, <2>6
<1>3. CASE Terminal \/ StartOperation \/ CancelTasks \/ Cancel
  <2>1. /\ UNCHANGED messages /\ UNCHANGED carry /\ pc # "restart" /\ pc' # "restart" /\ ~Ended
    BY <1>3 DEF Terminal, StartOperation, CancelTasks, Cancel, Ended
  <2> QED BY <2>1, NoEventMoves
<1>4. ASSUME NEW k \in DOMAIN chunk, Invoke(k) \/ Answer(k) \/ CallFails(k) PROVE EventsInPlace'
  <2>1. /\ UNCHANGED messages /\ UNCHANGED <<carry, pc>> /\ pc # "restart" /\ ~Ended
    BY <1>4 DEF Invoke, Answer, CallFails, Ended
  <2> QED BY <2>1, NoEventMoves
<1>5. CASE ChunkEnds
  <2>1. UNCHANGED messages /\ pc = "running" /\ ~Ended
    BY <1>5 DEF ChunkEnds, Ended
  <2>2. UNCHANGED carry /\ pc' # "restart"
    BY <1>5 DEF ChunkEnds, CheckpointDuringLoop, StepFails, Succeed, Divert, Advance,
       CheckpointAfterStep, FailWith, EndRun, GoOn
  <2> QED BY <2>1, <2>2, NoEventMoves
<1>6. ASSUME NEW s \in Signals, EventArrives(s) PROVE EventsInPlace'
  BY <1>6, ArrivalKeepsEvents
<1>7. CASE UNCHANGED vars
  BY <1>7, NoEventMoves DEF vars, messages
<1> QED BY <1>1, <1>2, <1>3, <1>4, <1>5, <1>6, <1>7, ContinuingKeepsEvents, RestartKeepsEvents
        DEF Next, RunnerNext, Stop

-----------------------------------------------------------------------------
(* The theorems on calls, order and hand-over.                             *)

LEMMA InitOfTheRecords ==
    ASSUME Init
    PROVE  CallsRecorded /\ EventsInPlace /\ SeqIsExecutionOrder
<1>1. /\ st = FreshState(wf) /\ pc = "step" /\ called = {} /\ dispatched = 0
      /\ pending = [s \in Signals |-> <<>>] /\ carry = [state |-> st, events |-> pending]
      /\ accepted = [s \in Signals |-> <<>>] /\ taken = [s \in Signals |-> 0]
  BY DEF Init
<1>2. st.invocations = 0 /\ \A n \in Names : st.entries[n].status = "none"
  BY <1>1 DEF FreshState
<1>3. CallsRecorded
  BY <1>1, <1>2, FS_EmptySet, RunnerConstants DEF CallsRecorded, CallsCounted, CallsPast
<1>4. SeqIsExecutionOrder
  BY <1>2 DEF SeqIsExecutionOrder
<1>5. <<>> \in Seq(1..MaxEvents) /\ Len(<<>>) = 0
  OBVIOUS
<1>6. pending \in Queues /\ accepted \in Queues /\ carry.events \in Queues
      /\ taken \in [Signals -> Nat]
  BY <1>1, <1>5 DEF Queues
<1>7. \A s \in Signals : InPlace(accepted[s], taken[s], Carried(s), pending[s])
  BY <1>1, <1>5 DEF InPlace, Carried
<1> QED BY <1>3, <1>4, <1>6, <1>7 DEF EventsInPlace

LEMMA RunsAreInOrder == Spec => [](WellFormed /\ CallsRecorded /\ EventsInPlace /\ SeqIsExecutionOrder)
<1> DEFINE I == WellFormed /\ CallsRecorded /\ EventsInPlace /\ SeqIsExecutionOrder
<1>1. Init => I
  BY InitIsShaped, InitOfTheRecords
<1>2. I /\ [Next]_vars => I'
  BY EveryStepIsOfAKind, CallsAreKept, EventsAreKept, SeqIsKept DEF OfAKind
<1> HIDE DEF I
<1>3. Spec => []I
  BY <1>1, <1>2, PTL DEF Spec
<1> QED BY <1>3 DEF I

LEMMA ShapedIsTypeOK ==
    ASSUME WellFormed, EventsInPlace
    PROVE  TypeOK
<1>1. st \in RunStates /\ LoopFits(st.loop, Step) /\ run \in 1..MaxRuns /\ pending \in Queues
  BY DEF WellFormed, Types, Shaped, EventsInPlace
<1> QED BY <1>1 DEF WellFormed, Types, TypeOK, RunStates, Entries, Statuses, Episodes, LoopFits, Queues

\* Every attempt and every item of every step is called at most once and all calls
\* together stay within total_invocations, over any number of Temporal runs, and
\* the state of the execution is well formed.
THEOREM EveryCallIsMadeOnce == Spec => []InvocationsAreBounded
<1>1. WellFormed /\ CallsRecorded /\ EventsInPlace => InvocationsAreBounded
  BY ShapedIsTypeOK DEF InvocationsAreBounded, EachCallOnceWithinTheLimit, CallsRecorded, CallsCounted
<1> QED BY <1>1, RunsAreInOrder, PTL

LEMMA EventsInPlaceAreInOrder ==
    ASSUME EventsInPlace
    PROVE  EventsAreTakenInOrder
<1> SUFFICES ASSUME NEW s \in Signals, outcome.code # "queue"
             PROVE  accepted[s] = SubSeq(accepted[s], 1, taken[s]) \o Carried(s) \o pending[s]
  BY DEF EventsAreTakenInOrder, Carried
<1>1. /\ accepted[s] \in Seq(1..MaxEvents) /\ pending[s] \in Seq(1..MaxEvents)
      /\ carry.events[s] \in Seq(1..MaxEvents) /\ taken[s] \in Nat
      /\ InPlace(accepted[s], taken[s], Carried(s), pending[s])
  BY DEF EventsInPlace, Queues
<1>2. Carried(s) \in Seq(1..MaxEvents)
  <2>1. <<>> \in Seq(1..MaxEvents)
    OBVIOUS
  <2> QED BY <1>1, <2>1 DEF Carried
<1> DEFINE all == accepted[s]
           queued == pending[s]
           kept == Carried(s)
           t == taken[s]
<1>3. /\ all \in Seq(1..MaxEvents) /\ queued \in Seq(1..MaxEvents)
      /\ kept \in Seq(1..MaxEvents) /\ t \in Nat /\ InPlace(all, t, kept, queued)
  BY <1>1, <1>2
<1> HIDE DEF all, queued, kept, t
<1>4. all = SubSeq(all, 1, t) \o kept \o queued
  BY <1>3, InPlaceIsConcatenation
<1> QED BY <1>4 DEF all, queued, kept, t

\* Events are consumed in the order in which they were accepted, none twice and none
\* lost in a change of runs, and the audit entries have the order of execution.
THEOREM OrderSurvivesRuns == Spec => []OrderIsKept
<1>1. EventsInPlace /\ SeqIsExecutionOrder => OrderIsKept
  BY EventsInPlaceAreInOrder DEF OrderIsKept
<1> QED BY <1>1, RunsAreInOrder, PTL

\* The next Temporal run goes on with exactly the state the last one had, and no
\* step is left while one of its calls is out.
THEOREM NothingIsLeftBehind == Spec => RunsHandOver
<1> DEFINE A == pc = "restart" => st' = st
           B == /\ pc \in {"running", "cancelling"}
                /\ pc' \notin {"running", "cancelling", "cancelled"}
                /\ outcome'.code # "queue"
                => Tasks("running") = {}
<1>1. WellFormed /\ [Next]_vars => [A]_vars
  <2> SUFFICES ASSUME WellFormed, Next, pc = "restart" PROVE st' = st
    BY DEF vars
  <2>1. CASE Restart
    BY <2>1, RestartStep
  <2>2. ASSUME NEW s \in Signals, EventArrives(s) PROVE st' = st
    BY <2>2 DEF EventArrives
  <2>3. ~RunnerNext \/ Restart
    BY DEF RunnerNext, Terminal, Sleep, Unresolved, StartWait, WaitEnds, WaitTimesOut,
       SkipOperation, StartOperation, Invoke, Answer, CallFails, CancelTasks, OperationFails,
       ChunkEnds, LoopEnds, ContinueAsNew
  <2> QED BY <2>1, <2>2, <2>3 DEF Next, Cancel, Stop, vars
<1>2. WellFormed /\ [Next]_vars => [B]_vars
  <2> SUFFICES ASSUME WellFormed, Next, pc \in {"running", "cancelling"},
                      pc' \notin {"running", "cancelling", "cancelled"}, outcome'.code # "queue"
               PROVE  Tasks("running") = {}
    BY DEF vars
  <2>1. CASE OperationFails \/ ChunkEnds
    BY <2>1 DEF OperationFails, ChunkEnds
  <2>2. ASSUME NEW s \in Signals, EventArrives(s) PROVE FALSE
    BY <2>2 DEF EventArrives
  <2>3. ~RunnerNext \/ OperationFails \/ ChunkEnds
    BY DEF RunnerNext, Terminal, Sleep, Unresolved, StartWait, WaitEnds, WaitTimesOut,
       SkipOperation, StartOperation, Invoke, Answer, CallFails, CancelTasks, LoopEnds,
       ContinueAsNew, Restart
  <2> QED BY <2>1, <2>2, <2>3 DEF Next, Cancel, Stop, Ended, vars
<1> HIDE DEF A, B
<1>3. Spec => [][A]_vars /\ [][B]_vars
  BY <1>1, <1>2, RunsAreShaped, PTL DEF Spec
<1>4. RunsHandOver <=> [][A]_vars /\ [][B]_vars
  BY DEF RunsHandOver, ContinuationPreservesState, CallsEndBeforeTheStep, A, B
<1> QED BY <1>3, <1>4

-----------------------------------------------------------------------------
(* Failures: what the analysis promises, and what the record says.         *)

\* Outside of a handler's region the execution is in the normal flow; inside, the
\* step whose failure is handled is recorded failed, unless it is its own handler
\* and runs again.
InRegion ==
    ~Ended =>
      IF st.episode = NoEpisode THEN st.cur \in Normal(wf)
      ELSE /\ \E h \in Names : st.episode.handler_steps = HandlerRegion(wf, h)
           /\ st.episode.primary \in Normal(wf)
           /\ st.cur \in st.episode.handler_steps \/ st.cur \in Normal(wf)
           /\ st.cur \in st.episode.handler_steps /\ st.cur # st.episode.primary =>
                st.entries[st.episode.primary].status = "failed"

FailureOnRecord ==
    outcome.primary # NoStep => st.entries[outcome.primary].status = "failed"

AnalysisHolds ==
    /\ ~Ended => Known(wf, st.cur, Len(st.failures), st.outputs)
    /\ outcome.code \in {"resolution", "result"} => Len(st.failures) >= 2

AnalysisRespected == ~DecidedTwoWays => InRegion /\ FailureOnRecord /\ AnalysisHolds

\* A decision stays taken.
LEMMA DecisionsStay ==
    ASSUME OfAKind, DecidedTwoWays
    PROVE  DecidedTwoWays'
<1>1. wf' = wf /\ st.outputs \subseteq st'.outputs
  BY DEF OfAKind, Stays, Gives, GoesOn, Handles, FailsUnresolved, Leaves, Fails
<1> QED BY <1>1 DEF DecidedTwoWays

\* The ways that are taken while no last branch with two targets was decided.
LEMMA WaysTakenAreEdges ==
    ASSUME WellFormed, ~DecidedTwoWays', UNCHANGED wf, st'.cur \in Names, NEW produced,
           Way(Step, st.cur, st'.cur, produced), st.outputs \cup produced \subseteq st'.outputs
    PROVE  /\ Edge(st.cur, st'.cur, produced) \in ExecutionEdges(wf)
           /\ st'.cur \in NormalSuccessors(wf.steps[st.cur])
<1>1. st.cur \in Names
  BY DEF WellFormed, Types, RunStates
<1>2. st.cur \in produced => wf.steps[st.cur].branch_then = NoStep
  BY <1>1 DEF DecidedTwoWays
<1> QED BY <1>1, <1>2, WaysAreEdges DEF Step

\* A step that is being worked on, outside of a region or within.
LEMMA EnteredFlow ==
    ASSUME WellFormed, InRegion, ~Ended
    PROVE  /\ Entering.episode = NoEpisode => st.cur \in Normal(wf)
           /\ Entering.episode # NoEpisode =>
                /\ Entering.episode = st.episode /\ st.cur \in st.episode.handler_steps
                /\ \E h \in Names : st.episode.handler_steps = HandlerRegion(wf, h)
                /\ st.episode.primary \in Normal(wf)
                /\ st.cur # st.episode.primary =>
                     st.entries[st.episode.primary].status = "failed"
<1>1. /\ Entering.episode \in {st.episode, NoEpisode}
      /\ Entering.episode = NoEpisode \/ st.cur \in Entering.episode.handler_steps
      /\ st.cur \in st.episode.handler_steps => Entering.episode = st.episode
  <2>1. st.cur \in st.episode.handler_steps => Entering = st
    BY DEF Entering
  <2> QED BY <2>1, EpisodeFacts DEF WellFormed
<1> QED BY <1>1 DEF InRegion

LEMMA GoingOnStaysInRegion ==
    ASSUME WellFormed, WellFormed', ~DecidedTwoWays', InRegion, GoesOn
    PROVE  InRegion'
<1>1. PICK ending \in Statuses : Leaves(ending)
  BY DEF GoesOn
<1>2. PICK produced : /\ Way(Step, st.cur, st'.cur, produced)
                      /\ st.outputs \cup produced \subseteq st'.outputs
  BY DEF GoesOn
<1>3. /\ ~Ended /\ wf' = wf /\ st'.episode = Entering.episode
      /\ st.cur \in Names /\ st'.cur \in Names /\ wf.entry \in Names
      /\ \A n \in Names : n # st.cur => st'.entries[n] = st.entries[n]
  BY <1>1, EntriesAfterLeaving DEF GoesOn, Leaves, WellFormed, Types, RunStates, Executable
<1>4. st'.cur \in NormalSuccessors(wf.steps[st.cur])
  BY <1>2, <1>3, WaysTakenAreEdges
<1>5. CASE Entering.episode = NoEpisode
  <2>1. st.cur \in Normal(wf)
    BY <1>3, <1>5, EnteredFlow
  <2>2. st'.cur \in Normal(wf)
    BY <1>3, <1>4, <2>1, NormalIsClosed
  <2> QED BY <1>3, <1>5, <2>2 DEF InRegion
<1>6. CASE Entering.episode # NoEpisode
  <2>1. /\ Entering.episode = st.episode /\ st.cur \in st.episode.handler_steps
        /\ st.episode.primary \in Normal(wf)
        /\ st.cur # st.episode.primary => st.entries[st.episode.primary].status = "failed"
    BY <1>3, <1>6, EnteredFlow
  <2>2. PICK h \in Names : st.episode.handler_steps = HandlerRegion(wf, h)
    BY <1>3, <1>6, EnteredFlow
  <2>3. /\ h \in Normal(wf) => HandlerRegion(wf, h) = {h}
        /\ \A n \in HandlerRegion(wf, h) \cap Normal(wf) : n = h
        /\ st'.cur \in HandlerRegion(wf, h) \/ st'.cur \in Normal(wf)
    BY <1>3, <1>4, <2>1, <2>2, RegionEndsInNormal
  <2>4. st.episode.primary \in Names
    BY <1>3, <2>1, NormalIsClosed
  <2>5. ASSUME st'.cur \in st.episode.handler_steps, st'.cur # st.episode.primary
        PROVE  st'.entries[st.episode.primary].status = "failed"
    <3>1. CASE st.cur # st.episode.primary
      BY <1>3, <2>1, <2>4, <3>1
    <3>2. CASE st.cur = st.episode.primary
      BY <2>1, <2>2, <2>3, <2>5, <3>2
    <3> QED BY <3>1, <3>2
  <2> QED BY <1>3, <1>6, <2>1, <2>2, <2>3, <2>5 DEF InRegion
<1> QED BY <1>5, <1>6

LEMMA HandlingStaysInRegion ==
    ASSUME WellFormed, WellFormed', InRegion, Handles
    PROVE  InRegion'
<1>1. Leaves("failed") /\ "failed" \in Statuses
  BY DEF Handles, Statuses
<1>2. /\ ~Ended /\ wf' = wf /\ st.cur \in Names /\ st'.cur \in Names /\ wf.entry \in Names
      /\ st'.entries[st.cur].status = "failed"
      /\ wf.region[st'.cur] = HandlerRegion(wf, st'.cur)
  BY <1>1, EntriesAfterLeaving DEF Leaves, WellFormed, Types, RunStates, Executable
<1>3. st.cur \in Normal(wf)
  BY <1>2, EnteredFlow DEF Handles
<1> DEFINE ep == [primary |-> st.cur, handler_steps |-> wf.region[st'.cur]]
<1>4. /\ st'.episode = ep /\ ep.primary = st.cur /\ ep.handler_steps = HandlerRegion(wf, st'.cur)
  BY <1>2 DEF Handles
<1>5. ep # NoEpisode
  <2>1. NoStep \notin Names /\ NoEpisode.primary = NoStep
    BY RunnerConstants DEF NoEpisode
  <2> QED BY <1>2, <1>4, <2>1
<1> HIDE DEF ep
<1>6. st'.cur \in HandlerRegion(wf, st'.cur)
  BY <1>2, RegionEndsInNormal
<1> QED BY <1>2, <1>3, <1>4, <1>5, <1>6 DEF InRegion

LEMMA RegionIsKept ==
    ASSUME WellFormed, OfAKind, ~DecidedTwoWays', InRegion
    PROVE  InRegion'
<1>1. CASE Stays
  <2>1. ~Ended' => /\ ~Ended /\ st'.episode \in {st.episode, Entering.episode}
                   /\ st'.cur = st.cur /\ st'.entries = st.entries /\ wf' = wf
    BY <1>1 DEF Stays
  <2>2. ASSUME ~Ended', st'.episode = st.episode PROVE InRegion'
    BY <2>1, <2>2 DEF InRegion
  <2>3. ASSUME ~Ended', st'.episode = Entering.episode PROVE InRegion'
    <3>1. CASE Entering.episode = NoEpisode
      BY <2>1, <2>3, <3>1, EnteredFlow DEF InRegion
    <3>2. CASE Entering.episode # NoEpisode
      BY <2>1, <2>2, <2>3, <3>2, EnteredFlow
    <3> QED BY <3>1, <3>2
  <2>4. CASE Ended'
    BY <2>4 DEF InRegion
  <2> QED BY <2>1, <2>2, <2>3, <2>4
<1>2. ASSUME NEW code, Fails(code) PROVE InRegion'
  BY <1>2 DEF Fails, Ended, InRegion
<1> QED BY <1>1, <1>2, GoingOnStaysInRegion, HandlingStaysInRegion
        DEF OfAKind, Gives, FailsUnresolved

LEMMA RecordIsKept ==
    ASSUME WellFormed, OfAKind, InRegion, FailureOnRecord
    PROVE  FailureOnRecord'
<1>1. CASE Stays
  BY <1>1 DEF Stays, FailureOnRecord
<1>2. ASSUME NEW ending, Leaves(ending) PROVE FailureOnRecord'
  BY <1>2 DEF Leaves, WellFormed, Shaped, Running, FailureOnRecord
<1>3. ASSUME NEW code, Fails(code) PROVE FailureOnRecord'
  <2>1. /\ ~Ended /\ st'.entries[st.cur].status = "failed"
        /\ \A n \in Names : n # st.cur => st'.entries[n] = st.entries[n]
        /\ \/ outcome'.primary = st.cur
           \/ /\ Entering.episode # NoEpisode /\ outcome'.primary = Entering.episode.primary
    BY <1>3 DEF Fails
  <2>2. wf.entry \in Names
    BY DEF WellFormed, Types, Executable
  <2>3. CASE outcome'.primary = st.cur
    BY <2>1, <2>3 DEF FailureOnRecord
  <2>4. CASE Entering.episode # NoEpisode /\ outcome'.primary = Entering.episode.primary
    <3>1. /\ outcome'.primary = st.episode.primary /\ st.episode.primary \in Normal(wf)
          /\ st.cur # st.episode.primary => st.entries[st.episode.primary].status = "failed"
      BY <2>1, <2>4, EnteredFlow
    <3>2. st.episode.primary \in Names
      BY <2>2, <3>1, NormalIsClosed
    <3> QED BY <2>1, <3>1, <3>2 DEF FailureOnRecord
  <2> QED BY <2>1, <2>3, <2>4
<1> QED BY <1>1, <1>2, <1>3 DEF OfAKind, Gives, GoesOn, Handles, FailsUnresolved

\* Before a second failure is handled, a step and the result resolve.
LEMMA ResolvesSoFar ==
    ASSUME WellFormed, AnalysisHolds, ~Ended, ~(Len(st.failures) >= 2)
    PROVE  /\ Step.kind # "terminal" => Step.input \in st.outputs \cup {NoRoot}
           /\ Step.kind = "terminal" /\ ~Step.reason => wf.result \in st.outputs \cup {NoRoot}
<1>1. /\ st.cur \in Names /\ st.failures \in Seq(Names) /\ Accepted(wf)
      /\ wf.result \in Roots \cup {NoRoot} /\ wf.steps[st.cur] \in DeclaredSteps
  BY DEF WellFormed, Types, RunStates, Executable
<1>2. Len(st.failures) \in {0, 1}
  <2> DEFINE n == Len(st.failures)
  <2>1. n \in Nat /\ ~(n >= 2)
    BY <1>1
  <2> HIDE DEF n
  <2>2. n = 0 \/ n = 1
    BY <2>1
  <2> QED BY <2>2 DEF n
<1>3. wf.steps[st.cur].input \in Roots \cup {NoRoot}
  BY <1>1 DEF DeclaredSteps
<1>4. Known(wf, st.cur, Len(st.failures), st.outputs)
  BY DEF AnalysisHolds
<1> QED BY <1>1, <1>2, <1>3, <1>4, KnownResolves DEF Step

LEMMA AnalysisIsKept ==
    ASSUME WellFormed, OfAKind, ~DecidedTwoWays', AnalysisHolds
    PROVE  AnalysisHolds'
<1>1. /\ st.cur \in Names /\ st'.cur \in Names /\ wf.entry \in Names
      /\ st.failures \in Seq(Names)
  BY DEF OfAKind, WellFormed, Types, RunStates, Executable
<1>2. CASE Stays
  <2>1. /\ st'.cur = st.cur /\ st'.failures = st.failures /\ st'.outputs = st.outputs
        /\ wf' = wf /\ (~Ended' => ~Ended)
    BY <1>2 DEF Stays
  <2>2. ~Ended' => Known(wf, st.cur, Len(st.failures), st.outputs)'
    BY <2>1 DEF AnalysisHolds
  <2>3. outcome'.code \in {"resolution", "result"} => Len(st'.failures) >= 2
    <3>1. CASE outcome' = outcome
      BY <2>1, <3>1 DEF AnalysisHolds
    <3>2. CASE outcome'.code \in {"queue", "limit", "record"}
      BY <3>2
    <3>3. CASE /\ ~Ended /\ Step.kind = "terminal" /\ ~Step.reason
               /\ wf.result \notin st.outputs \cup {NoRoot}
      BY <2>1, <3>3, ResolvesSoFar
    <3> QED BY <1>2, <3>1, <3>2, <3>3 DEF Stays
  <2> QED BY <2>2, <2>3 DEF AnalysisHolds
<1>3. CASE GoesOn
  <2>1. PICK produced : /\ Way(Step, st.cur, st'.cur, produced)
                        /\ st.outputs \cup produced \subseteq st'.outputs
    BY <1>3 DEF GoesOn
  <2>2. /\ ~Ended /\ wf' = wf /\ outcome' = outcome /\ st'.failures = st.failures
    BY <1>3 DEF GoesOn, Leaves
  <2>3. Edge(st.cur, st'.cur, produced) \in ExecutionEdges(wf)
    BY <1>1, <2>1, <2>2, WaysTakenAreEdges
  <2>4. Known(wf, st.cur, Len(st.failures), st.outputs)
    BY <2>2 DEF AnalysisHolds
  <2>5. Known(wf, st'.cur, Len(st.failures), st'.outputs)
    BY <1>1, <2>1, <2>3, <2>4, KnownAlongAnEdge
  <2> QED BY <2>2, <2>5 DEF AnalysisHolds
<1>4. CASE Handles
  <2>1. /\ ~Ended /\ wf' = wf /\ outcome' = outcome /\ Step.kind = "op"
        /\ st'.cur = HandlerOf(wf, st.cur) /\ st'.failures = Append(st.failures, st.cur)
        /\ st.outputs \cup {"error"} \subseteq st'.outputs
    BY <1>4 DEF Handles, Leaves
  <2>2. Len(st.failures) \in Nat /\ Len(st'.failures) = Len(st.failures) + 1
    BY <1>1, <2>1
  <2>3. Known(wf, st.cur, Len(st.failures), st.outputs)
    BY <2>1 DEF AnalysisHolds
  <2>4. outcome'.code \notin {"resolution", "result"}
    BY <2>1 DEF WellFormed, Shaped, Running
  <2>5. CASE Len(st.failures) = 0
    <3>1. Known(wf, HandlerOf(wf, st.cur), 1, st'.outputs)
      BY <1>1, <2>1, <2>3, <2>5, KnownAtAHandler DEF Step
    <3> QED BY <2>1, <2>2, <2>4, <2>5, <3>1 DEF AnalysisHolds
  <2>6. CASE Len(st.failures) # 0
    <3>1. Len(st'.failures) \notin {0, 1}
      BY <2>2, <2>6
    <3>2. Known(wf, st.cur, Len(st.failures), st.outputs)'
      BY <3>1 DEF Known
    <3> QED BY <2>4, <3>2 DEF AnalysisHolds
  <2> QED BY <2>5, <2>6
<1>5. CASE FailsUnresolved
  <2>1. /\ ~Ended /\ Ended' /\ st'.failures = st.failures
        /\ Step.kind # "terminal" /\ Step.input \notin st.outputs \cup {NoRoot}
    BY <1>5 DEF FailsUnresolved, Fails, Ended
  <2>2. Len(st.failures) >= 2
    BY <2>1, ResolvesSoFar
  <2> QED BY <2>1, <2>2 DEF AnalysisHolds
<1>6. ASSUME NEW code \in {"step", "limit", "wait_timeout", "exhausted", "decision"}, Fails(code)
      PROVE  AnalysisHolds'
  BY <1>6 DEF Fails, Ended, AnalysisHolds
<1> QED BY <1>2, <1>3, <1>4, <1>5, <1>6 DEF OfAKind, Gives

LEMMA InitIsKnown ==
    ASSUME Init
    PROVE  AnalysisRespected
<1>1. PICK f \in Flows : (\A n \in Names : DeclaredStep(f.steps[n])) /\ Accepted(f)
                           /\ wf = Compiled(f)
  BY DEF Init
<1>2. wf.steps = f.steps /\ wf.entry \in Names
  <2>1. Compiled(f).steps = f.steps
    BY DEF Compiled
  <2> QED BY <1>1, <2>1, InitIsShaped DEF WellFormed, Types, Executable
<1>4. /\ st = FreshState(wf) /\ outcome = Running
  BY DEF Init
<1>5. /\ st.cur = wf.entry /\ st.failures = <<>> /\ st.outputs = {} /\ st.episode = NoEpisode
      /\ outcome.primary = NoStep /\ outcome.code = "none" /\ Len(<<>>) = 0
  BY <1>4 DEF FreshState, Running
<1>6. InRegion
  BY <1>2, <1>5, NormalIsClosed DEF InRegion
<1>7. FailureOnRecord
  BY <1>5 DEF FailureOnRecord
<1>8. AnalysisHolds
  BY <1>2, <1>5, KnownAtEntry DEF AnalysisHolds
<1> QED BY <1>6, <1>7, <1>8 DEF AnalysisRespected

\* The analysis is sound for every accepted workflow: whatever its operations, its
\* decisions and its timeouts do, until a second failure is handled every reference
\* resolves, and a failure that ends an execution names a step recorded failed; unless
\* a decision was taken whose last branch names two steps.
THEOREM AcceptedWorkflowsResolve == Spec => []FailuresAreHandled
<1>1. Init => WellFormed /\ AnalysisRespected
  BY InitIsShaped, InitIsKnown
<1>2. WellFormed /\ AnalysisRespected /\ [Next]_vars => (WellFormed /\ AnalysisRespected)'
  <2> SUFFICES ASSUME WellFormed, AnalysisRespected, [Next]_vars PROVE (WellFormed /\ AnalysisRespected)'
    OBVIOUS
  <2>1. OfAKind
    BY EveryStepIsOfAKind
  <2>2. ASSUME ~DecidedTwoWays'
        PROVE  (InRegion /\ FailureOnRecord /\ AnalysisHolds)'
    <3>1. InRegion /\ FailureOnRecord /\ AnalysisHolds
      BY <2>1, <2>2, DecisionsStay DEF AnalysisRespected
    <3> QED BY <2>1, <2>2, <3>1, RegionIsKept, RecordIsKept, AnalysisIsKept
  <2> QED BY <2>1, <2>2 DEF AnalysisRespected, OfAKind
<1>3. WellFormed /\ AnalysisRespected => FailuresAreHandled
  BY DEF AnalysisRespected, FailureOnRecord, AnalysisHolds, FailuresAreHandled, PrimaryFailureIsRecorded,
         ResolvesUntilSecondFailure
<1> QED BY <1>1, <1>2, <1>3, PTL DEF Spec


-----------------------------------------------------------------------------
(* Counting queued responses.                                              *)

QueueSlots(q) == UNION {{<<k, i>> : i \in DOMAIN q[k]} : k \in ResponseKeys}
QueuesOf(S) == [ResponseKeys -> Seq(S)]

LEMMA SlotsAre ==
    ASSUME NEW S, NEW q \in QueuesOf(S), NEW k, NEW i
    PROVE  <<k, i>> \in QueueSlots(q) <=> k \in ResponseKeys /\ i \in 1..Len(q[k])
<1>1. \A h \in ResponseKeys : DOMAIN q[h] = 1..Len(q[h])
  BY LenProperties DEF QueuesOf
<1> QED BY <1>1 DEF QueueSlots

LEMMA SlotsArePairs ==
    ASSUME NEW q, NEW z \in QueueSlots(q)
    PROVE  z = <<z[1], z[2]>>
  BY DEF QueueSlots

LEMMA Shifted ==
    ASSUME NEW p \in Nat, NEW q \in Nat, NEW i
    PROVE  /\ i \in 1..p => i \in 1..(p + q)
           /\ i \in 1..q => p + i \in 1..(p + q) /\ p + i \notin 1..p
           /\ i \in 1..(p + q) /\ i \notin 1..p => i - p \in 1..q /\ p + (i - p) = i
           /\ i \in 1..p /\ i # p <=> i \in 1..(p - 1)
  OBVIOUS

LEMMA KeysAreFinite == IsFiniteSet(ResponseKeys)
<1>1. IsFiniteSet(0..(MaxContinuations + 1))
  BY CallAssumption, FS_Interval
<1> QED BY <1>1, CallAssumption, FS_Product DEF ResponseKeys

LEMMA CountIsNat ==
    ASSUME NEW S, NEW q \in QueuesOf(S)
    PROVE  IsFiniteSet(QueueSlots(q)) /\ Count(q) \in Nat /\ Count(q) = Cardinality(QueueSlots(q))
<1> DEFINE Row(k) == {<<k, i>> : i \in DOMAIN q[k]}
           f == [k \in ResponseKeys |-> Row(k)]
           Rows == {Row(k) : k \in ResponseKeys}
<1>1. ASSUME NEW k \in ResponseKeys PROVE IsFiniteSet(Row(k))
  <2> DEFINE g == [i \in 1..Len(q[k]) |-> <<k, i>>]
  <2>1. DOMAIN q[k] = 1..Len(q[k]) /\ Len(q[k]) \in Nat
    BY LenProperties DEF QueuesOf
  <2>2. g \in Surjection(1..Len(q[k]), Row(k))
    BY <2>1 DEF Surjection
  <2>3. IsFiniteSet(1..Len(q[k]))
    BY <2>1, FS_Interval
  <2> QED BY <2>2, <2>3, FS_Surjection
<1>2. f \in Surjection(ResponseKeys, Rows)
  BY DEF Surjection
<1>3. IsFiniteSet(Rows)
  BY <1>2, KeysAreFinite, FS_Surjection
<1>4. \A R \in Rows : IsFiniteSet(R)
  BY <1>1
<1>5. IsFiniteSet(UNION Rows)
  BY <1>3, <1>4, FS_UNION
<1>6. IsFiniteSet(QueueSlots(q))
  BY <1>5 DEF QueueSlots
<1>7. Count(q) = Cardinality(QueueSlots(q))
  BY DEF Count, QueueSlots
<1> QED BY <1>6, <1>7, FS_CardinalityType

LEMMA CountOfEmpty ==
    ASSUME NEW S
    PROVE  EmptyQueues \in QueuesOf(S) /\ Count(EmptyQueues) = 0
<1>1. EmptyQueues \in QueuesOf(S)
  BY EmptySeq DEF EmptyQueues, QueuesOf
<1>2. QueueSlots(EmptyQueues) = {}
  BY DEF QueueSlots, EmptyQueues
<1> QED BY <1>1, <1>2, CountIsNat, FS_EmptySet

LEMMA CountOfAppended ==
    ASSUME NEW S, NEW q \in QueuesOf(S), NEW k \in ResponseKeys, NEW r \in S
    PROVE  /\ [q EXCEPT ![k] = Append(q[k], r)] \in QueuesOf(S)
           /\ Count([q EXCEPT ![k] = Append(q[k], r)]) = Count(q) + 1
<1> DEFINE p == [q EXCEPT ![k] = Append(q[k], r)]
           z == <<k, Len(q[k]) + 1>>
<1>1. q[k] \in Seq(S) /\ Len(q[k]) \in Nat
  BY LenProperties DEF QueuesOf
<1>2. Append(q[k], r) \in Seq(S) /\ Len(Append(q[k], r)) = Len(q[k]) + 1
  BY <1>1, AppendProperties
<1>3. /\ p \in QueuesOf(S) /\ p[k] = Append(q[k], r)
      /\ \A h \in ResponseKeys \ {k} : p[h] = q[h]
  BY <1>2 DEF QueuesOf
<1> HIDE DEF p
<1>4. QueueSlots(p) = QueueSlots(q) \cup {z}
  <2>1. ASSUME NEW h, NEW i
        PROVE  <<h, i>> \in QueueSlots(p) <=> <<h, i>> \in QueueSlots(q) \/ <<h, i>> = z
    <3>1. <<h, i>> \in QueueSlots(p) <=> h \in ResponseKeys /\ i \in 1..Len(p[h])
      BY <1>3, SlotsAre
    <3>2. <<h, i>> \in QueueSlots(q) <=> h \in ResponseKeys /\ i \in 1..Len(q[h])
      BY SlotsAre
    <3>3. CASE h = k
      BY <1>1, <1>2, <1>3, <3>1, <3>2, <3>3
    <3>4. CASE h # k
      BY <1>3, <3>1, <3>2, <3>4
    <3> QED BY <3>3, <3>4
  <2>2. QueueSlots(p) \subseteq QueueSlots(q) \cup {z}
    BY <2>1, SlotsArePairs
  <2>3. QueueSlots(q) \cup {z} \subseteq QueueSlots(p)
    BY <2>1, SlotsArePairs
  <2> QED BY <2>2, <2>3
<1>5. z \notin QueueSlots(q)
  BY <1>1, SlotsAre
<1>6. Cardinality(QueueSlots(p)) = Cardinality(QueueSlots(q)) + 1
  BY <1>4, <1>5, CountIsNat, FS_AddElement
<1>7. Count(p) = Count(q) + 1
  BY <1>3, <1>6, CountIsNat
<1> QED BY <1>3, <1>7 DEF p

LEMMA CountOfPopped ==
    ASSUME NEW S, NEW q \in QueuesOf(S), NEW k \in ResponseKeys, q[k] # <<>>
    PROVE  /\ Popped(q, k) \in QueuesOf(S)
           /\ Count(Popped(q, k)) = Count(q) - 1
<1> DEFINE p == Popped(q, k)
           z == <<k, Len(q[k])>>
<1>1. q[k] \in Seq(S) /\ Len(q[k]) \in Nat \ {0}
  BY EmptySeq DEF QueuesOf
<1>2. Tail(q[k]) \in Seq(S) /\ Len(Tail(q[k])) = Len(q[k]) - 1
  BY <1>1, HeadTailProperties
<1>3. /\ p \in QueuesOf(S) /\ p[k] = Tail(q[k])
      /\ \A h \in ResponseKeys \ {k} : p[h] = q[h]
  BY <1>2 DEF QueuesOf, Popped
<1> HIDE DEF p
<1>4. QueueSlots(p) = QueueSlots(q) \ {z}
  <2>1. ASSUME NEW h, NEW i
        PROVE  <<h, i>> \in QueueSlots(p) <=> <<h, i>> \in QueueSlots(q) /\ <<h, i>> # z
    <3>1. <<h, i>> \in QueueSlots(p) <=> h \in ResponseKeys /\ i \in 1..Len(p[h])
      BY <1>3, SlotsAre
    <3>2. <<h, i>> \in QueueSlots(q) <=> h \in ResponseKeys /\ i \in 1..Len(q[h])
      BY SlotsAre
    <3>3. CASE h = k
      <4>1. i \in 1..Len(q[k]) /\ i # Len(q[k]) <=> i \in 1..(Len(q[k]) - 1)
        BY <1>1, Shifted
      <4> QED BY <1>2, <1>3, <3>1, <3>2, <3>3, <4>1
    <3>4. CASE h # k
      BY <1>3, <3>1, <3>2, <3>4
    <3> QED BY <3>3, <3>4
  <2>2. QueueSlots(p) \subseteq QueueSlots(q) \ {z}
    BY <2>1, SlotsArePairs
  <2>3. QueueSlots(q) \ {z} \subseteq QueueSlots(p)
    BY <2>1, SlotsArePairs
  <2> QED BY <2>2, <2>3
<1>5. z \in QueueSlots(q)
  BY <1>1, SlotsAre
<1>6. Cardinality(QueueSlots(p)) = Cardinality(QueueSlots(q)) - 1
  BY <1>4, <1>5, CountIsNat, FS_RemoveElement
<1>7. Count(p) = Count(q) - 1
  BY <1>3, <1>6, CountIsNat
<1> QED BY <1>3, <1>7 DEF p

LEMMA CountOfMerged ==
    ASSUME NEW S, NEW a \in QueuesOf(S), NEW b \in QueuesOf(S)
    PROVE  /\ MergedQueues(a, b) \in QueuesOf(S)
           /\ Count(MergedQueues(a, b)) = Count(a) + Count(b)
<1> DEFINE m == MergedQueues(a, b)
           f == [z \in QueueSlots(b) |-> <<z[1], Len(a[z[1]]) + z[2]>>]
           T == QueueSlots(m) \ QueueSlots(a)
<1>1. ASSUME NEW k \in ResponseKeys
      PROVE  /\ m[k] \in Seq(S) /\ Len(a[k]) \in Nat /\ Len(b[k]) \in Nat
             /\ Len(m[k]) = Len(a[k]) + Len(b[k])
  <2>1. a[k] \in Seq(S) /\ b[k] \in Seq(S) /\ m[k] = a[k] \o b[k]
    BY DEF QueuesOf, MergedQueues
  <2> QED BY <2>1, ConcatProperties, LenProperties
<1>2. m \in QueuesOf(S)
  BY <1>1 DEF QueuesOf, MergedQueues
<1> HIDE DEF m
<1>3. ASSUME NEW k, NEW i
      PROVE  /\ <<k, i>> \in QueueSlots(m) <=> k \in ResponseKeys /\ i \in 1..Len(m[k])
             /\ <<k, i>> \in QueueSlots(a) <=> k \in ResponseKeys /\ i \in 1..Len(a[k])
             /\ <<k, i>> \in QueueSlots(b) <=> k \in ResponseKeys /\ i \in 1..Len(b[k])
  BY <1>2, SlotsAre
<1>4. QueueSlots(a) \subseteq QueueSlots(m)
  <2>1. \A k, i : <<k, i>> \in QueueSlots(a) => <<k, i>> \in QueueSlots(m)
    BY <1>1, <1>3, Shifted
  <2> QED BY <2>1, SlotsArePairs
<1>5. f \in [QueueSlots(b) -> T]
  <2>1. ASSUME NEW k, NEW i, <<k, i>> \in QueueSlots(b)
        PROVE  <<k, Len(a[k]) + i>> \in T
    <3> DEFINE j == Len(a[k]) + i
    <3>1. k \in ResponseKeys /\ i \in 1..Len(b[k])
      BY <1>3, <2>1
    <3>2. j \in 1..Len(m[k]) /\ j \notin 1..Len(a[k])
      <4>1. Len(a[k]) \in Nat /\ Len(b[k]) \in Nat /\ Len(m[k]) = Len(a[k]) + Len(b[k])
        BY <1>1, <3>1
      <4> QED BY <3>1, <4>1, Shifted
    <3> HIDE DEF j
    <3>3. <<k, j>> \in T
      BY <1>3, <3>1, <3>2
    <3> QED BY <3>3 DEF j
  <2> QED BY <2>1, SlotsArePairs
<1>6. \A y, z \in QueueSlots(b) : f[y] = f[z] => y = z
  <2>1. ASSUME NEW k, NEW i, NEW j, <<k, i>> \in QueueSlots(b), <<k, j>> \in QueueSlots(b),
               Len(a[k]) + i = Len(a[k]) + j
        PROVE  i = j
    BY <1>1, <1>3, <2>1
  <2>2. \A y \in QueueSlots(b) : f[y] = <<y[1], Len(a[y[1]]) + y[2]>>
    OBVIOUS
  <2> HIDE DEF f
  <2>3. ASSUME NEW y \in QueueSlots(b), NEW z \in QueueSlots(b), f[y] = f[z]
        PROVE  y = z
    <3>1. y[1] = z[1] /\ Len(a[y[1]]) + y[2] = Len(a[z[1]]) + z[2]
      BY <2>2, <2>3
    <3>2. y = <<y[1], y[2]>> /\ z = <<z[1], z[2]>>
      BY SlotsArePairs
    <3>3. y[2] = z[2]
      BY <2>1, <3>1, <3>2
    <3> QED BY <3>1, <3>2, <3>3
  <2> QED BY <2>3
<1>7. \A t \in T : \E z \in QueueSlots(b) : f[z] = t
  <2>1. ASSUME NEW k, NEW i, <<k, i>> \in T
        PROVE  \E z \in QueueSlots(b) : f[z] = <<k, i>>
    <3> DEFINE j == i - Len(a[k])
    <3>1. k \in ResponseKeys /\ i \in 1..Len(m[k]) /\ i \notin 1..Len(a[k])
      BY <1>3, <2>1
    <3>2. j \in 1..Len(b[k]) /\ Len(a[k]) + j = i
      <4>1. /\ Len(a[k]) \in Nat /\ Len(b[k]) \in Nat
            /\ i \in 1..(Len(a[k]) + Len(b[k])) /\ i \notin 1..Len(a[k])
        BY <1>1, <3>1
      <4> QED BY <4>1, Shifted
    <3>3. <<k, j>> \in QueueSlots(b)
      BY <1>3, <3>1, <3>2
    <3>4. f[<<k, j>>] = <<k, i>>
      BY <3>2, <3>3
    <3> QED BY <3>3, <3>4
  <2>2. ASSUME NEW t \in T PROVE \E z \in QueueSlots(b) : f[z] = t
    <3>1. t = <<t[1], t[2]>>
      BY SlotsArePairs
    <3> HIDE DEF T, f
    <3> QED BY <2>1, <3>1
  <2> QED BY <2>2
<1>8. f \in Bijection(QueueSlots(b), T)
  <2>1. f \in Injection(QueueSlots(b), T)
    BY <1>5, <1>6 DEF Injection, IsInjective
  <2>2. f \in Surjection(QueueSlots(b), T)
    BY <1>5, <1>7 DEF Surjection
  <2> QED BY <2>1, <2>2 DEF Bijection
<1>9. Cardinality(T) = Cardinality(QueueSlots(b))
  BY <1>8, CountIsNat, FS_Bijection DEF ExistsBijection
<1>10. QueueSlots(m) \cap QueueSlots(a) = QueueSlots(a)
  BY <1>4
<1>11. Cardinality(T) = Cardinality(QueueSlots(m)) - Cardinality(QueueSlots(a))
  <2>1. IsFiniteSet(QueueSlots(m))
    BY <1>2, CountIsNat
  <2>2. Cardinality(T) = Cardinality(QueueSlots(m)) - Cardinality(QueueSlots(m) \cap QueueSlots(a))
    BY <2>1, FS_Difference
  <2> QED BY <1>10, <2>2
<1>12. Count(m) = Count(a) + Count(b)
  <2>1. Count(m) \in Nat /\ Count(m) = Cardinality(QueueSlots(m))
    BY <1>2, CountIsNat
  <2>2. Count(a) \in Nat /\ Count(a) = Cardinality(QueueSlots(a))
    BY CountIsNat
  <2>3. Count(b) \in Nat /\ Count(b) = Cardinality(QueueSlots(b))
    BY CountIsNat
  <2> QED BY <1>9, <1>11, <2>1, <2>2, <2>3
<1> QED BY <1>2, <1>12 DEF m

-----------------------------------------------------------------------------
(* What a call, a result and a response are.                               *)

Runs      == 1..(MaxContinuations + 1)
Requests  == [of : Executions, run : Runs, step : Steps, n : Nat]
Responses == [step : Steps, run : Runs, n : Nat, key : ResponseKeys,
              value : Values \cup {ErrorAnswer}]
Attempts  == 1..(Retries + 1)
Calls ==
    {NoCall}
    \cup [phase : {"queued", "missed"}, n : Nat, attempt : Attempts]
    \cup [phase : {"sent"}, n : Nat, attempt : Attempts, value : Values]
    \cup [phase : {"awaiting"}, n : Nat]
    \cup [phase : {"validating"}, n : Nat, response : Responses]

\* What may be cached for x.
Storable(x, value) == value \in Contract[Digest[x]] \ Large

\* A response under the key of an invocation is one to the run of that key.
Proper == {r \in Responses : /\ r.key[2] = r.step
                             /\ r.key[1] # ByCorrelation => r.run = r.key[1]}

\* Call c is one that execution x can have for step s in its run, after total calls.
Fits(x, s, c, ofRun, total) ==
    /\ c \in Calls
    /\ c # NoCall => c.n <= total
    /\ c.phase = "sent" => s \in Caches /\ Storable(x, c.value)
    /\ c.phase = "validating" => /\ c.response.step = s /\ c.response.n <= c.n
                                 /\ c.response.key[1] # ByCorrelation => c.response.run = ofRun

\* Result r is one that a call of step s by x may have.
ResultFits(x, s, r) ==
    /\ r.how = "signal" => /\ r.response.step = s /\ r.response.n <= r.n
                           /\ r.response.key[1] # ByCorrelation => r.response.run = r.run
    /\ r.how \in {"called", "hit", "signal"} => r.value \in Contract[Digest[x]]
    /\ r.how = "hit" => r.maker = Digest[x]

LEMMA CallFields ==
    ASSUME NEW c \in Calls
    PROVE  /\ c.phase \in {"none", "queued", "missed", "sent", "awaiting", "validating"}
           /\ c.phase = "none" <=> c = NoCall
           /\ c # NoCall => c.n \in Nat
           /\ c.phase \in {"queued", "missed", "sent"} => c.attempt \in Attempts
           /\ c.phase = "sent" => c.value \in Values
           /\ c.phase = "validating" => c.response \in Responses
  BY DEF Calls, NoCall

LEMMA CallsMade ==
    ASSUME NEW n \in Nat
    PROVE  /\ NoCall \in Calls
           /\ \A a \in Attempts : /\ [phase |-> "queued", n |-> n, attempt |-> a] \in Calls
                                  /\ \A v \in Values :
                                       [phase |-> "sent", n |-> n, attempt |-> a, value |-> v] \in Calls
           /\ [phase |-> "awaiting", n |-> n] \in Calls
           /\ \A r \in Responses : [phase |-> "validating", n |-> n, response |-> r] \in Calls
  BY DEF Calls

LEMMA NothingFits ==
    ASSUME NEW x, NEW s, NEW ofRun, NEW total
    PROVE  Fits(x, s, NoCall, ofRun, total)
  BY DEF Fits, Calls, NoCall

LEMMA MissedFits ==
    ASSUME NEW x, NEW s, NEW c, NEW ofRun, NEW total, Fits(x, s, c, ofRun, total), c.phase = "queued"
    PROVE  LET d == [c EXCEPT !.phase = "missed"] IN Fits(x, s, d, ofRun, total) /\ d.n = c.n
<1> DEFINE d == [c EXCEPT !.phase = "missed"]
<1>1. c \in [phase : {"queued", "missed"}, n : Nat, attempt : Attempts] /\ c # NoCall /\ c.n <= total
  BY DEF Fits, Calls, NoCall
<1>2. /\ d \in [phase : {"queued", "missed"}, n : Nat, attempt : Attempts]
      /\ d.phase = "missed" /\ d.n = c.n
  BY <1>1
<1> HIDE DEF d
<1>3. Fits(x, s, d, ofRun, total)
  BY <1>1, <1>2 DEF Fits, Calls
<1> QED BY <1>2, <1>3 DEF d

LEMMA FailedFits ==
    ASSUME NEW x, NEW s, NEW c
    PROVE  ResultFits(x, s, Failed(c))
  BY DEF ResultFits, Failed

LEMMA CalledFits ==
    ASSUME NEW x, NEW s, NEW c, NEW value, value \in Contract[Digest[x]]
    PROVE  ResultFits(x, s, Returned(c, value))
  BY DEF ResultFits, Returned

-----------------------------------------------------------------------------
(* The invariant.                                                          *)

\* Calls are only open in a run; a run starts with what was carried into it.
RunsFit ==
    /\ status \in [Executions -> {"running", "continuing", "done", "failed"}]
    /\ runNo \in [Executions -> Runs] /\ calls \in [Executions -> Nat]
    /\ \A x \in Executions :
         /\ status[x] # "running" => \A s \in Steps : call[x][s] = NoCall
         /\ status[x] = "running" => carried[x] = EmptyQueues
         /\ status[x] = "continuing" => runNo[x] <= MaxContinuations

CallsFit ==
    /\ call \in [Executions -> [Steps -> Calls]]
    /\ \A x \in Executions, s \in Steps : Fits(x, s, call[x][s], runNo[x], calls[x])

ResultsFit ==
    /\ \E R : last \in [Executions -> [Steps -> R]]
    /\ \A x \in Executions, s \in Steps : ResultFits(x, s, last[x][s])

\* An entry is under the definition that made it.
CacheEntries == [value : Values, maker : {Digest[x] : x \in Executions}]
CacheFits ==
    /\ cache \in [CacheKeys -> CacheEntries \cup {NoEntry}]
    /\ \A k \in CacheKeys : cache[k] # NoEntry =>
         cache[k].maker = k[1] /\ cache[k].value \in Contract[k[1]] \ Large

\* Call n of x for s is not after the one that is open.
Earlier(x, s, n) ==
    /\ n \in Nat /\ n <= calls[x]
    /\ call[x][s] # NoCall => n <= call[x][s].n

StragglerFits(z) ==
    /\ z \in [of : Executions, run : Runs, step : Steps, c : Calls]
    /\ z.c.phase \in {"missed", "sent"}
    /\ Earlier(z.of, z.step, z.c.n)
    /\ z.c.phase = "sent" => z.step \in Caches /\ Storable(z.of, z.c.value)

ServicesFit ==
    /\ requests \subseteq Requests
    /\ \A r \in requests : Earlier(r.of, r.step, r.n)
    /\ \A z \in stragglers : StragglerFits(z)

\* What execution x may have in its queue under key k.
Heard(x, k) == {r \in Proper : r.key = k /\ Earlier(x, r.step, r.n)}
QueuesFit ==
    /\ signals \in [Executions -> QueuesOf(Proper)]
    /\ carried \in [Executions -> QueuesOf(Proper)]
    /\ \A x \in Executions, k \in ResponseKeys :
         signals[x][k] \in Seq(Heard(x, k)) /\ carried[x][k] \in Seq(Heard(x, k))

Counted ==
    /\ heard \in [Executions -> Nat] /\ took \in [Executions -> Nat]
    /\ \A x \in Executions :
         /\ Count(signals[x]) <= SignalLimit
         /\ status[x] \in {"running", "continuing"} =>
              heard[x] = took[x] + Count(signals[x]) + Count(carried[x])

CallInv ==
    /\ RunsFit /\ CallsFit /\ ResultsFit /\ CacheFits
    /\ ServicesFit /\ QueuesFit /\ Counted

-----------------------------------------------------------------------------
(* The parts that a step does not touch.                                   *)

\* No step makes an earlier call a later one.
Onward == \A x \in Executions, s \in Steps : \A n : Earlier(x, s, n) => Earlier(x, s, n)'

LEMMA SameCallsGoOnward ==
    ASSUME UNCHANGED <<call, calls>>
    PROVE  Onward
  BY DEF Onward, Earlier

LEMMA StragglersStay ==
    ASSUME Onward, NEW z, StragglerFits(z)
    PROVE  StragglerFits(z)'
  BY DEF Onward, StragglerFits

LEMMA ServicesStay ==
    ASSUME Onward, ServicesFit, UNCHANGED <<requests, stragglers>>
    PROVE  ServicesFit'
<1>1. requests' \subseteq Requests /\ \A r \in requests' : Earlier(r.of, r.step, r.n)'
  BY DEF ServicesFit, Onward, Requests
<1>2. \A z \in stragglers' : StragglerFits(z)'
  BY StragglersStay DEF ServicesFit
<1> QED BY <1>1, <1>2 DEF ServicesFit

LEMMA HeardStays ==
    ASSUME Onward, NEW x \in Executions, NEW k
    PROVE  Heard(x, k) \subseteq Heard(x, k)'
  BY DEF Heard, Onward, Proper, Responses

LEMMA QueueStays ==
    ASSUME Onward, NEW x \in Executions, NEW k, NEW q \in Seq(Heard(x, k))
    PROVE  q \in Seq(Heard(x, k)')
  BY HeardStays, SeqMonotonic

LEMMA QueuesStay ==
    ASSUME Onward, QueuesFit, UNCHANGED <<signals, carried>>
    PROVE  QueuesFit'
<1>1. ASSUME NEW x \in Executions, NEW k \in ResponseKeys
      PROVE  signals'[x][k] \in Seq(Heard(x, k)') /\ carried'[x][k] \in Seq(Heard(x, k)')
  BY QueueStays DEF QueuesFit
<1> QED BY <1>1 DEF QueuesFit

LEMMA CountsStay ==
    ASSUME Counted, UNCHANGED <<status, signals, carried, heard, took>>
    PROVE  Counted'
  BY DEF Counted

LEMMA CacheStays ==
    ASSUME CacheFits, UNCHANGED cache
    PROVE  CacheFits'
  BY DEF CacheFits

-----------------------------------------------------------------------------
(* A step of an open call.                                                 *)

LEMMA SetAt ==
    ASSUME NEW A, NEW B, NEW C, NEW f \in [A -> [B -> C]], NEW a \in A, NEW b \in B, NEW v
    PROVE  LET g == [f EXCEPT ![a][b] = v] IN
           /\ g \in [A -> [B -> C \cup {v}]] /\ (v \in C => g \in [A -> [B -> C]])
           /\ g[a][b] = v
           /\ \A p \in A, q \in B : p # a \/ q # b => g[p][q] = f[p][q]
  OBVIOUS

\* The open call of x for s becomes c, or ends with result r.
CallMoves(x, s, c, r) ==
    /\ call[x][s] # NoCall
    /\ call' = [call EXCEPT ![x][s] = c]
    /\ last' \in {last, [last EXCEPT ![x][s] = r]}
    /\ UNCHANGED <<status, runNo, calls, carried>>
    /\ Fits(x, s, c, runNo[x], calls[x])
    /\ c # NoCall => c.n = call[x][s].n
    /\ ResultFits(x, s, r)
Moves == \E x \in Executions, s \in Steps : \E c, r : CallMoves(x, s, c, r)

LEMMA MovesFit ==
    ASSUME RunsFit, CallsFit, ResultsFit,
           NEW x \in Executions, NEW s \in Steps, NEW c, NEW r, CallMoves(x, s, c, r)
    PROVE  RunsFit' /\ CallsFit' /\ ResultsFit' /\ Onward
<1>1. /\ call' \in [Executions -> [Steps -> Calls]]
      /\ call'[x][s] = c
      /\ \A y \in Executions, t \in Steps : y # x \/ t # s => call'[y][t] = call[y][t]
  <2>1. c \in Calls /\ call \in [Executions -> [Steps -> Calls]]
    BY DEF CallMoves, Fits, CallsFit
  <2> QED BY <2>1, SetAt DEF CallMoves
<1>2. CallsFit'
  BY <1>1 DEF CallsFit, CallMoves
<1>3. RunsFit'
  <2>1. status[x] = "running"
    BY DEF RunsFit, CallMoves
  <2> QED BY <1>1, <2>1 DEF RunsFit, CallMoves
<1>4. ResultsFit'
  <2>1. CASE last' = last
    BY <2>1 DEF ResultsFit
  <2>2. CASE last' = [last EXCEPT ![x][s] = r]
    <3>1. PICK R : last \in [Executions -> [Steps -> R]]
      BY DEF ResultsFit
    <3>2. /\ last' \in [Executions -> [Steps -> R \cup {r}]]
          /\ last'[x][s] = r
          /\ \A y \in Executions, t \in Steps : y # x \/ t # s => last'[y][t] = last[y][t]
      BY <2>2, <3>1, SetAt
    <3>3. \E Q : last' \in [Executions -> [Steps -> Q]]
      BY <3>2
    <3>4. \A y \in Executions, t \in Steps : ResultFits(y, t, last'[y][t])
      BY <3>2 DEF ResultsFit, CallMoves
    <3> QED BY <3>3, <3>4 DEF ResultsFit
  <2> QED BY <2>1, <2>2 DEF CallMoves
<1>5. Onward
  <2> SUFFICES ASSUME NEW y \in Executions, NEW t \in Steps, NEW n, Earlier(y, t, n)
               PROVE  Earlier(y, t, n)'
    BY DEF Onward
  <2> QED BY <1>1 DEF Earlier, CallMoves
<1> QED BY <1>2, <1>3, <1>4, <1>5

\* A move of a call that leaves everything else alone.
LEMMA QuietMove ==
    ASSUME CallInv, Moves, UNCHANGED <<cache, requests, stragglers, messageVars>>
    PROVE  CallInv'
<1>1. RunsFit' /\ CallsFit' /\ ResultsFit' /\ Onward
  BY MovesFit DEF CallInv, Moves
<1>2. UNCHANGED status
  BY DEF Moves, CallMoves
<1> QED BY <1>1, <1>2, ServicesStay, QueuesStay, CountsStay, CacheStays
        DEF CallInv, messageVars

LEMMA OpenCall ==
    ASSUME CallInv, NEW x \in Executions, NEW s \in Steps, Open(x, s)
    PROVE  /\ call[x][s] \in Calls /\ call[x][s] # NoCall /\ call[x][s].n \in Nat
           /\ call[x][s].n <= calls[x] /\ Fits(x, s, call[x][s], runNo[x], calls[x])
           /\ status[x] = "running" /\ runNo[x] \in Runs /\ calls[x] \in Nat
<1>1. call[x][s] # NoCall
  BY DEF Open
<1>2. call[x][s] \in Calls /\ Fits(x, s, call[x][s], runNo[x], calls[x])
  BY DEF CallInv, CallsFit
<1> QED BY <1>1, <1>2, CallFields DEF CallInv, RunsFit, Fits

LEMMA EndCallMoves ==
    ASSUME CallInv, NEW x \in Executions, NEW s \in Steps, Open(x, s), NEW r, ResultFits(x, s, r),
           EndCall(x, s, r), UNCHANGED <<status, runNo, calls, carried>>
    PROVE  Moves
<1>1. CallMoves(x, s, NoCall, r)
  BY NothingFits DEF CallMoves, EndCall, SetCall, Open
<1> QED BY <1>1 DEF Moves

LEMMA SetCallMoves ==
    ASSUME CallInv, NEW x \in Executions, NEW s \in Steps, Open(x, s), NEW c,
           Fits(x, s, c, runNo[x], calls[x]), c.n = call[x][s].n,
           SetCall(x, s, c), UNCHANGED <<last, status, runNo, calls, carried>>
    PROVE  Moves
<1>1. ResultFits(x, s, Failed(c))
  BY FailedFits
<1>2. CallMoves(x, s, c, Failed(c))
  BY <1>1 DEF CallMoves, SetCall, Open
<1> QED BY <1>2 DEF Moves

LEMMA CallFailsMoves ==
    ASSUME CallInv, NEW x \in Executions, NEW s \in Steps, Open(x, s),
           EndCall(x, s, Failed(call[x][s])), UNCHANGED <<status, runNo, calls, carried>>
    PROVE  Moves
  BY FailedFits, EndCallMoves

LEMMA AttemptFailsMoves ==
    ASSUME CallInv, NEW x \in Executions, NEW s \in Steps, Open(x, s),
           call[x][s].phase \in {"queued", "missed", "sent"},
           AttemptFails(x, s), UNCHANGED <<status, runNo, calls, carried>>
    PROVE  Moves
<1> DEFINE c == call[x][s]
           d == [phase |-> "queued", n |-> c.n, attempt |-> c.attempt + 1]
<1>1. CASE MayRetry(c)
  <2>1. c.attempt \in Nat /\ c.attempt + 1 \in Attempts /\ c.n \in Nat /\ c.n <= calls[x]
    BY <1>1, OpenCall, CallFields, CallAssumption DEF MayRetry, Attempts
  <2>2. d \in Calls /\ d.n = c.n /\ d.phase = "queued"
    BY <2>1, CallsMade
  <2>3. SetCall(x, s, d) /\ UNCHANGED last
    BY <1>1 DEF AttemptFails
  <2> HIDE DEF d
  <2>4. Fits(x, s, d, runNo[x], calls[x])
    BY <2>1, <2>2 DEF Fits
  <2> QED BY <2>2, <2>3, <2>4, SetCallMoves
<1>2. CASE ~MayRetry(c)
  BY <1>2, CallFailsMoves DEF AttemptFails
<1> QED BY <1>1, <1>2

-----------------------------------------------------------------------------
(* The activity.                                                           *)

LEMMA BeginAttemptStep ==
    ASSUME CallInv, NEW x \in Executions, NEW s \in Steps, BeginAttempt(x, s)
    PROVE  CallInv'
<1> DEFINE c == call[x][s]
           e == cache[CacheKey(x, s)]
<1>1. /\ Open(x, s) /\ c.phase = "queued"
      /\ UNCHANGED <<status, runNo, calls, carried>>
      /\ UNCHANGED <<cache, requests, stragglers, messageVars>>
  BY DEF BeginAttempt, serviceVars, messageVars
<1>2. CASE s \in Caches /\ e # NoEntry
  <2>1. EndCall(x, s, CachedResult(x, c, e))
    BY <1>2 DEF BeginAttempt
  <2>2. ResultFits(x, s, CachedResult(x, c, e))
    <3>1. CASE Meets(x, e.value)
      <4>1. CacheKey(x, s) \in CacheKeys /\ CacheKey(x, s)[1] = Digest[x]
        BY <1>2 DEF CacheKey, CacheKeys
      <4>2. e.maker = Digest[x]
        BY <1>2, <4>1 DEF CallInv, CacheFits
      <4> HIDE DEF e
      <4> QED BY <3>1, <4>2 DEF CachedResult, ResultFits, Meets
    <3>2. CASE ~Meets(x, e.value)
      BY <3>2, FailedFits DEF CachedResult
    <3> QED BY <3>1, <3>2
  <2> QED BY <1>1, <2>1, <2>2, EndCallMoves, QuietMove
<1>3. CASE ~(s \in Caches /\ e # NoEntry)
  <2> DEFINE d == [c EXCEPT !.phase = "missed"]
  <2>1. SetCall(x, s, d) /\ UNCHANGED last
    BY <1>3 DEF BeginAttempt
  <2>2. Fits(x, s, d, runNo[x], calls[x]) /\ d.n = c.n
    BY <1>1, OpenCall, MissedFits
  <2> HIDE DEF d
  <2> QED BY <1>1, <2>1, <2>2, SetCallMoves, QuietMove
<1> QED BY <1>2, <1>3

LEMMA AttemptRefusedStep ==
    ASSUME CallInv, NEW x \in Executions, NEW s \in Steps, AttemptRefused(x, s)
    PROVE  CallInv'
<1>1. /\ Open(x, s) /\ call[x][s].phase \in {"queued", "missed", "sent"}
      /\ AttemptFails(x, s) \/ EndCall(x, s, Failed(call[x][s]))
      /\ UNCHANGED <<status, runNo, calls, carried>>
      /\ UNCHANGED <<cache, requests, stragglers, messageVars>>
  BY DEF AttemptRefused, serviceVars, messageVars
<1> QED BY <1>1, AttemptFailsMoves, CallFailsMoves, QuietMove

LEMMA SendFailsStep ==
    ASSUME CallInv, NEW x \in Executions, NEW s \in Steps, SendFails(x, s)
    PROVE  CallInv'
<1>1. /\ Open(x, s) /\ call[x][s].phase \in {"queued", "missed", "sent"}
      /\ AttemptFails(x, s) \/ EndCall(x, s, Failed(call[x][s]))
      /\ UNCHANGED <<status, runNo, calls, carried>>
      /\ UNCHANGED <<cache, requests, stragglers, messageVars>>
  BY DEF SendFails, serviceVars, messageVars
<1> QED BY <1>1, AttemptFailsMoves, CallFailsMoves, QuietMove

LEMMA EvaluateStep ==
    ASSUME CallInv, NEW x \in Executions, NEW s \in Steps, Evaluate(x, s)
    PROVE  CallInv'
<1> DEFINE r == [how |-> "evaluated", n |-> call[x][s].n]
<1>1. /\ Open(x, s) /\ EndCall(x, s, r)
      /\ UNCHANGED <<status, runNo, calls, carried>>
      /\ UNCHANGED <<cache, requests, stragglers, messageVars>>
  BY DEF Evaluate, serviceVars, messageVars
<1>2. ResultFits(x, s, r)
  BY DEF ResultFits
<1> HIDE DEF r
<1> QED BY <1>1, <1>2, EndCallMoves, QuietMove

LEMMA SendInlineStep ==
    ASSUME CallInv, NEW x \in Executions, NEW s \in Steps, NEW value \in Values,
           SendInline(x, s, value)
    PROVE  CallInv'
<1> DEFINE c == call[x][s]
           d == [phase |-> "sent", n |-> c.n, attempt |-> c.attempt, value |-> value]
<1>1. /\ Open(x, s) /\ c.phase = "missed"
      /\ UNCHANGED <<status, runNo, calls, carried>>
      /\ UNCHANGED <<cache, requests, stragglers, messageVars>>
  BY DEF SendInline, serviceVars, messageVars
<1>2. \/ EndCall(x, s, Failed(c))
      \/ AttemptFails(x, s)
      \/ Verdict(x, value) = "ok" /\ s \in Caches /\ SetCall(x, s, d) /\ UNCHANGED last
      \/ Verdict(x, value) = "ok" /\ EndCall(x, s, Returned(c, value))
  BY DEF SendInline, Verdict
<1>3. Verdict(x, value) = "ok" => Storable(x, value)
  BY DEF Verdict, Storable, Meets
<1>4. CASE EndCall(x, s, Failed(c))
  BY <1>1, <1>4, CallFailsMoves, QuietMove
<1>5. CASE AttemptFails(x, s)
  BY <1>1, <1>5, AttemptFailsMoves, QuietMove
<1>6. CASE Verdict(x, value) = "ok" /\ s \in Caches /\ SetCall(x, s, d) /\ UNCHANGED last
  <2>1. c.n \in Nat /\ c.n <= calls[x] /\ c.attempt \in Attempts
    BY <1>1, OpenCall, CallFields
  <2>2. d \in Calls /\ d.n = c.n /\ d.phase = "sent" /\ d.value = value
    BY <2>1, CallsMade
  <2>3. SetCall(x, s, d) /\ UNCHANGED last /\ s \in Caches
    BY <1>6
  <2> HIDE DEF d
  <2>4. Fits(x, s, d, runNo[x], calls[x])
    BY <1>3, <1>6, <2>1, <2>2, <2>3 DEF Fits
  <2> QED BY <1>1, <2>2, <2>3, <2>4, SetCallMoves, QuietMove
<1>7. CASE Verdict(x, value) = "ok" /\ EndCall(x, s, Returned(c, value))
  <2>1. ResultFits(x, s, Returned(c, value))
    BY <1>3, <1>7, CalledFits DEF Storable
  <2> QED BY <1>1, <1>7, <2>1, EndCallMoves, QuietMove
<1> QED BY <1>2, <1>4, <1>5, <1>6, <1>7

\* The parts that a move keeps, whatever it does to the others.
LEMMA MovesKeep ==
    ASSUME CallInv, Moves
    PROVE  RunsFit' /\ CallsFit' /\ ResultsFit' /\ Onward /\ UNCHANGED <<status, carried>>
  BY MovesFit DEF CallInv, Moves, CallMoves

LEMMA PublishStep ==
    ASSUME CallInv, NEW x \in Executions, NEW s \in Steps, Publish(x, s)
    PROVE  CallInv'
<1> DEFINE c == call[x][s]
           d == [phase |-> "awaiting", n |-> c.n]
           r == Request(x, s, c.n)
<1>1. /\ Open(x, s) /\ SetCall(x, s, d) /\ UNCHANGED last
      /\ requests' = requests \cup {r}
      /\ UNCHANGED <<status, runNo, calls, carried>>
      /\ UNCHANGED <<cache, stragglers, messageVars>>
  BY DEF Publish, messageVars
<1>2. c.n \in Nat /\ c.n <= calls[x] /\ runNo[x] \in Runs /\ c # NoCall
  BY <1>1, OpenCall
<1>3. d \in Calls /\ d.n = c.n /\ d.phase = "awaiting"
  BY <1>2, CallsMade
<1>4. r \in Requests /\ r.of = x /\ r.step = s /\ r.n = c.n
  BY <1>2 DEF Request, Requests
<1>5. Earlier(x, s, c.n)
  BY <1>2 DEF Earlier
<1> HIDE DEF d, r
<1>6. Fits(x, s, d, runNo[x], calls[x])
  BY <1>2, <1>3 DEF Fits
<1>7. Moves
  BY <1>1, <1>3, <1>6, SetCallMoves
<1>8. RunsFit' /\ CallsFit' /\ ResultsFit' /\ Onward
  BY <1>7, MovesKeep
<1>9. ServicesFit'
  <2>1. requests' \subseteq Requests
    BY <1>1, <1>4 DEF CallInv, ServicesFit
  <2>2. ASSUME NEW q \in requests' PROVE Earlier(q.of, q.step, q.n)'
    <3>1. Earlier(q.of, q.step, q.n) /\ q.of \in Executions /\ q.step \in Steps
      BY <1>1, <1>4, <1>5 DEF CallInv, ServicesFit, Requests
    <3> QED BY <1>8, <3>1 DEF Onward
  <2>3. ASSUME NEW z \in stragglers' PROVE StragglerFits(z)'
    BY <1>1, <1>8, StragglersStay DEF CallInv, ServicesFit
  <2> QED BY <2>1, <2>2, <2>3 DEF ServicesFit
<1> QED BY <1>1, <1>8, <1>9, QueuesStay, CountsStay, CacheStays DEF CallInv, messageVars

\* Caching a value that may be cached.
LEMMA Caching ==
    ASSUME CacheFits, NEW x \in Executions, NEW s \in Caches, NEW value \in Values,
           Storable(x, value), cache' = [cache EXCEPT ![CacheKey(x, s)] = Entry(x, value)]
    PROVE  CacheFits'
<1> DEFINE k == CacheKey(x, s)
           e == Entry(x, value)
<1>1. k \in CacheKeys /\ k[1] = Digest[x]
  BY DEF CacheKey, CacheKeys
<1>2. e \in CacheEntries /\ e.maker = Digest[x] /\ e.value = value
  BY DEF Entry, CacheEntries
<1> HIDE DEF k, e
<1>3. cache' = [cache EXCEPT ![k] = e]
  BY DEF k, e
<1>4. value \in Contract[Digest[x]] \ Large
  BY DEF Storable
<1> QED BY <1>1, <1>2, <1>3, <1>4 DEF CacheFits

LEMMA StoreCacheStep ==
    ASSUME CallInv, NEW x \in Executions, NEW s \in Steps, StoreCache(x, s)
    PROVE  CallInv'
<1> DEFINE c == call[x][s]
<1>1. /\ Open(x, s) /\ c.phase = "sent"
      /\ cache' = [cache EXCEPT ![CacheKey(x, s)] = Entry(x, c.value)]
      /\ EndCall(x, s, Returned(c, c.value))
      /\ UNCHANGED <<status, runNo, calls, carried>>
      /\ UNCHANGED <<requests, stragglers, messageVars>>
  BY DEF StoreCache, serviceVars, messageVars
<1>2. s \in Caches /\ Storable(x, c.value) /\ c.value \in Values
  BY <1>1, OpenCall, CallFields DEF Fits
<1>3. CacheFits'
  BY <1>1, <1>2, Caching DEF CallInv
<1>4. ResultFits(x, s, Returned(c, c.value))
  BY <1>2, CalledFits DEF Storable
<1>5. Moves
  BY <1>1, <1>4, EndCallMoves
<1> QED BY <1>1, <1>3, <1>5, MovesKeep, ServicesStay, QueuesStay, CountsStay
        DEF CallInv, messageVars

LEMMA AttemptLostStep ==
    ASSUME CallInv, NEW x \in Executions, NEW s \in Steps, AttemptLost(x, s)
    PROVE  CallInv'
<1> DEFINE c == call[x][s]
           z == [of |-> x, run |-> runNo[x], step |-> s, c |-> c]
<1>1. /\ Open(x, s) /\ c.phase \in {"missed", "sent"}
      /\ stragglers' \in {stragglers, stragglers \cup {z}}
      /\ AttemptFails(x, s)
      /\ UNCHANGED <<status, runNo, calls, carried>>
      /\ UNCHANGED <<cache, requests, messageVars>>
  BY DEF AttemptLost, messageVars
<1>2. Moves
  BY <1>1, AttemptFailsMoves
<1>3. RunsFit' /\ CallsFit' /\ ResultsFit' /\ Onward /\ UNCHANGED status
  BY <1>2, MovesKeep
<1>4. StragglerFits(z)
  <2>1. /\ c \in Calls /\ c # NoCall /\ c.n \in Nat /\ c.n <= calls[x] /\ runNo[x] \in Runs
        /\ Fits(x, s, c, runNo[x], calls[x])
    BY <1>1, OpenCall
  <2>2. /\ z \in [of : Executions, run : Runs, step : Steps, c : Calls]
        /\ z.of = x /\ z.step = s /\ z.c = c
    BY <2>1
  <2>3. Earlier(x, s, c.n)
    BY <2>1 DEF Earlier
  <2> HIDE DEF z, c
  <2> QED BY <1>1, <2>1, <2>2, <2>3 DEF StragglerFits, Fits
<1> HIDE DEF z
<1>5. ServicesFit'
  <2>1. ASSUME NEW y \in stragglers' PROVE StragglerFits(y)'
    BY <1>1, <1>3, <1>4, StragglersStay DEF CallInv, ServicesFit
  <2>2. ASSUME NEW q \in requests' PROVE q \in Requests /\ Earlier(q.of, q.step, q.n)'
    <3>1. Earlier(q.of, q.step, q.n) /\ q \in Requests /\ q.of \in Executions /\ q.step \in Steps
      BY <1>1 DEF CallInv, ServicesFit, Requests
    <3> QED BY <1>3, <3>1 DEF Onward
  <2> QED BY <2>1, <2>2 DEF ServicesFit
<1> QED BY <1>1, <1>3, <1>5, QueuesStay, CountsStay, CacheStays DEF CallInv, messageVars

\* A step that touches no execution.
LEMMA OutsideKeeps ==
    ASSUME CallInv, UNCHANGED <<status, runNo, call, calls, last, messageVars>>
    PROVE  RunsFit' /\ CallsFit' /\ ResultsFit' /\ QueuesFit' /\ Counted' /\ Onward
<1>1. Onward
  BY SameCallsGoOnward
<1>2. RunsFit' /\ CallsFit' /\ ResultsFit'
  BY DEF CallInv, RunsFit, CallsFit, ResultsFit, messageVars
<1> QED BY <1>1, <1>2, QueuesStay, CountsStay DEF CallInv, messageVars

LEMMA StragglerSendsStep ==
    ASSUME CallInv, NEW z \in stragglers, NEW value \in Values, StragglerSends(z, value)
    PROVE  CallInv'
<1> DEFINE c == [phase |-> "sent", n |-> z.c.n, attempt |-> z.c.attempt, value |-> value]
           y == [z EXCEPT !.c = c]
           r == [of |-> z.of, run |-> z.run, step |-> z.step, n |-> z.c.n]
<1>1. /\ UNCHANGED <<status, runNo, call, calls, last, messageVars>> /\ UNCHANGED cache
      /\ z.c.phase = "missed"
      /\ \/ requests' = requests \cup {r} /\ stragglers' \subseteq stragglers
         \/ requests' = requests /\ stragglers' \subseteq stragglers
         \/ /\ requests' = requests /\ stragglers' \subseteq stragglers \cup {y}
            /\ Verdict(z.of, value) = "ok" /\ z.step \in Caches
  BY DEF StragglerSends
<1>2. StragglerFits(z) /\ z.of \in Executions /\ z.step \in Steps /\ z.run \in Runs
  BY DEF CallInv, ServicesFit, StragglerFits
<1>3. z.c.n \in Nat /\ z.c.attempt \in Attempts /\ Earlier(z.of, z.step, z.c.n)
  BY <1>1, <1>2, CallFields DEF StragglerFits, Earlier
<1>4. r \in Requests /\ r.of = z.of /\ r.step = z.step /\ r.n = z.c.n
  BY <1>2, <1>3 DEF Requests
<1>5. c \in Calls /\ c.n = z.c.n /\ c.phase = "sent" /\ c.value = value
  BY <1>3, CallsMade
<1> HIDE DEF c, r
<1>6. /\ y \in [of : Executions, run : Runs, step : Steps, c : Calls]
      /\ y.of = z.of /\ y.step = z.step /\ y.c = c
  BY <1>2, <1>5 DEF StragglerFits
<1> HIDE DEF y
<1>7. ASSUME Verdict(z.of, value) = "ok", z.step \in Caches PROVE StragglerFits(y)
  <2>1. Storable(z.of, value)
    BY <1>7 DEF Verdict, Storable, Meets
  <2> QED BY <1>3, <1>5, <1>6, <1>7, <2>1 DEF StragglerFits
<1>8. RunsFit' /\ CallsFit' /\ ResultsFit' /\ QueuesFit' /\ Counted' /\ Onward
  BY <1>1, OutsideKeeps
<1>9. ServicesFit'
  <2>1. ASSUME NEW w \in stragglers' PROVE StragglerFits(w)'
    <3>1. StragglerFits(w)
      BY <1>1, <1>7 DEF CallInv, ServicesFit
    <3> QED BY <1>8, <3>1, StragglersStay
  <2>2. ASSUME NEW q \in requests' PROVE q \in Requests /\ Earlier(q.of, q.step, q.n)'
    <3>1. q \in Requests /\ Earlier(q.of, q.step, q.n)
      BY <1>1, <1>3, <1>4 DEF CallInv, ServicesFit
    <3>2. q.of \in Executions /\ q.step \in Steps
      BY <3>1 DEF Requests
    <3> QED BY <1>8, <3>1, <3>2 DEF Onward
  <2> QED BY <2>1, <2>2 DEF ServicesFit
<1> QED BY <1>1, <1>8, <1>9, CacheStays DEF CallInv

LEMMA StragglerStoresStep ==
    ASSUME CallInv, NEW z \in stragglers, StragglerStores(z)
    PROVE  CallInv'
<1>1. /\ UNCHANGED <<status, runNo, call, calls, last, messageVars>> /\ UNCHANGED requests
      /\ stragglers' \subseteq stragglers /\ z.c.phase = "sent"
      /\ cache' = [cache EXCEPT ![CacheKey(z.of, z.step)] = Entry(z.of, z.c.value)]
  BY DEF StragglerStores
<1>2. /\ z.of \in Executions /\ z.step \in Caches /\ z.c.value \in Values
      /\ Storable(z.of, z.c.value)
  BY <1>1, CallFields DEF CallInv, ServicesFit, StragglerFits
<1>3. CacheFits'
  BY <1>1, <1>2, Caching DEF CallInv
<1>4. RunsFit' /\ CallsFit' /\ ResultsFit' /\ QueuesFit' /\ Counted' /\ Onward
  BY <1>1, OutsideKeeps
<1>5. ServicesFit'
  <2>1. ASSUME NEW w \in stragglers' PROVE StragglerFits(w)'
    BY <1>1, <1>4, StragglersStay DEF CallInv, ServicesFit
  <2>2. requests' \subseteq Requests /\ \A q \in requests' : Earlier(q.of, q.step, q.n)'
    BY <1>1, <1>4 DEF CallInv, ServicesFit, Onward, Requests
  <2> QED BY <2>1, <2>2 DEF ServicesFit
<1> QED BY <1>3, <1>4, <1>5 DEF CallInv

LEMMA EntryExpiresStep ==
    ASSUME CallInv, NEW k \in CacheKeys, EntryExpires(k)
    PROVE  CallInv'
<1>1. /\ UNCHANGED <<status, runNo, call, calls, last, messageVars>>
      /\ UNCHANGED <<requests, stragglers>>
      /\ cache' = [cache EXCEPT ![k] = NoEntry]
  BY DEF EntryExpires, serviceVars
<1>2. CacheFits'
  BY <1>1 DEF CallInv, CacheFits
<1> QED BY <1>1, <1>2, OutsideKeeps, ServicesStay DEF CallInv

-----------------------------------------------------------------------------
(* Responses.                                                              *)

LEMMA ResponseTimesOutStep ==
    ASSUME CallInv, NEW x \in Executions, NEW s \in Steps, ResponseTimesOut(x, s)
    PROVE  CallInv'
<1>1. /\ Open(x, s) /\ EndCall(x, s, Failed(call[x][s]))
      /\ UNCHANGED <<status, runNo, calls, carried>>
      /\ UNCHANGED <<cache, requests, stragglers, messageVars>>
  BY DEF ResponseTimesOut, serviceVars, messageVars
<1> QED BY <1>1, CallFailsMoves, QuietMove

LEMMA ValidateResponseStep ==
    ASSUME CallInv, NEW x \in Executions, NEW s \in Steps, ValidateResponse(x, s)
    PROVE  CallInv'
<1> DEFINE c == call[x][s]
<1>1. /\ Open(x, s) /\ c.phase = "validating" /\ EndCall(x, s, ValidatedResult(x, c))
      /\ UNCHANGED <<status, runNo, calls, carried>>
      /\ UNCHANGED <<cache, requests, stragglers, messageVars>>
  BY DEF ValidateResponse, serviceVars, messageVars
<1>2. Fits(x, s, c, runNo[x], calls[x])
  BY <1>1, OpenCall
<1> HIDE DEF c
<1>3. ResultFits(x, s, ValidatedResult(x, c))
  <2>1. CASE Meets(x, c.response.value)
    BY <1>1, <1>2, <2>1 DEF ValidatedResult, ResultFits, Fits, Meets
  <2>2. CASE ~Meets(x, c.response.value)
    BY <2>2, FailedFits DEF ValidatedResult
  <2> QED BY <2>1, <2>2
<1> QED BY <1>1, <1>3, EndCallMoves, QuietMove

\* The key of a response that is there for a step, and the response.
LEMMA AcceptedResponse ==
    ASSUME CallInv, NEW x \in Executions, NEW s \in Steps, NEW i \in Waiting(x, s)
    PROVE  LET key == AcceptedKeys(x, s)[i] IN
           /\ key \in ResponseKeys /\ key[2] = s /\ key[1] \in {runNo[x], ByCorrelation}
           /\ signals[x][key] # <<>> /\ Head(signals[x][key]) \in Heard(x, key)
<1> DEFINE key == AcceptedKeys(x, s)[i]
<1>1. key \in {<<runNo[x], s>>, <<ByCorrelation, s>>} /\ signals[x][key] # <<>>
  BY DEF Waiting, AcceptedKeys
<1>2. runNo[x] \in 0..(MaxContinuations + 1) /\ ByCorrelation \in 0..(MaxContinuations + 1)
  BY CallAssumption DEF CallInv, RunsFit, Runs, ByCorrelation
<1>3. key \in ResponseKeys /\ key[2] = s /\ key[1] \in {runNo[x], ByCorrelation}
  BY <1>1, <1>2 DEF ResponseKeys
<1> HIDE DEF key
<1>4. signals[x][key] \in Seq(Heard(x, key))
  BY <1>3 DEF CallInv, QueuesFit
<1>5. Head(signals[x][key]) \in Heard(x, key)
  BY <1>1, <1>4, HeadTailProperties
<1> QED BY <1>1, <1>3, <1>5 DEF key

LEMMA FirstWaiting ==
    ASSUME NEW x, NEW s, Waiting(x, s) # {}
    PROVE  (CHOOSE i \in Waiting(x, s) : \A j \in Waiting(x, s) : i <= j) \in Waiting(x, s)
<1>1. Waiting(x, s) \subseteq {1, 2}
  BY DEF Waiting, AcceptedKeys
<1>2. \E i \in Waiting(x, s) : \A j \in Waiting(x, s) : i <= j
  <2>1. CASE 1 \in Waiting(x, s)
    BY <1>1, <2>1
  <2>2. CASE 1 \notin Waiting(x, s)
    BY <1>1, <2>2
  <2> QED BY <2>1, <2>2
<1> QED BY <1>2

\* Taking the first response of a queue.
LEMMA Popping ==
    ASSUME CallInv, Onward, NEW x \in Executions, NEW k \in ResponseKeys, signals[x][k] # <<>>,
           signals' = [signals EXCEPT ![x] = Popped(@, k)],
           took' = [took EXCEPT ![x] = @ + 1], UNCHANGED <<status, carried, heard>>
    PROVE  QueuesFit' /\ Counted'
<1> DEFINE q == signals[x]
           p == Popped(q, k)
<1>1. q \in QueuesOf(Proper) /\ \A h \in ResponseKeys : q[h] \in Seq(Heard(x, h))
  BY DEF CallInv, QueuesFit
<1>2. p \in QueuesOf(Proper) /\ Count(p) = Count(q) - 1 /\ Count(q) \in Nat /\ Count(p) \in Nat
  BY <1>1, CountOfPopped, CountIsNat
<1>3. ASSUME NEW h \in ResponseKeys PROVE p[h] \in Seq(Heard(x, h))
  <2>1. q \in [ResponseKeys -> Seq(Proper)] /\ q[h] \in Seq(Heard(x, h))
    BY <1>1 DEF QueuesOf
  <2>2. CASE h = k
    BY <2>1, <2>2, HeadTailProperties DEF Popped
  <2>3. CASE h # k
    BY <2>1, <2>3 DEF Popped
  <2> QED BY <2>2, <2>3
<1> HIDE DEF p
<1>4. signals \in [Executions -> QueuesOf(Proper)] /\ signals' = [signals EXCEPT ![x] = p]
  BY DEF CallInv, QueuesFit, p
<1>5. QueuesFit'
  <2>1. signals' \in [Executions -> QueuesOf(Proper)]
    BY <1>2, <1>4
  <2>2. ASSUME NEW y \in Executions, NEW h \in ResponseKeys
        PROVE  signals'[y][h] \in Seq(Heard(y, h)) /\ carried'[y][h] \in Seq(Heard(y, h))
    BY <1>3, <1>4 DEF CallInv, QueuesFit
  <2>3. ASSUME NEW y \in Executions, NEW h \in ResponseKeys
        PROVE  signals'[y][h] \in Seq(Heard(y, h)') /\ carried'[y][h] \in Seq(Heard(y, h)')
    BY <2>2, QueueStays
  <2> QED BY <2>1, <2>3 DEF CallInv, QueuesFit
<1>6. Counted'
  <2> SUFFICES ASSUME NEW y \in Executions
               PROVE  /\ Count(signals'[y]) <= SignalLimit
                      /\ status[y] \in {"running", "continuing"} =>
                           heard[y] = took'[y] + Count(signals'[y]) + Count(carried[y])
    BY DEF CallInv, Counted
  <2>1. carried[y] \in QueuesOf(Proper) /\ Count(carried[y]) \in Nat
    BY CountIsNat DEF CallInv, QueuesFit
  <2>2. CASE y = x
    <3>1. signals'[y] = p /\ took'[y] = took[y] + 1 /\ took[y] \in Nat
      BY <1>4, <2>2 DEF CallInv, Counted
    <3>2. Count(q) <= SignalLimit /\ SignalLimit \in Nat
      BY CallAssumption DEF CallInv, Counted
    <3>3. status[y] \in {"running", "continuing"} => heard[y] = took[y] + Count(q) + Count(carried[y])
      BY <2>2 DEF CallInv, Counted
    <3> HIDE DEF q
    <3> QED BY <1>2, <2>1, <3>1, <3>2, <3>3
  <2>3. CASE y # x
    BY <1>4, <2>3 DEF CallInv, Counted
  <2> QED BY <2>2, <2>3
<1> QED BY <1>5, <1>6

LEMMA TakeResponseStep ==
    ASSUME CallInv, NEW x \in Executions, NEW s \in Steps, TakeResponse(x, s)
    PROVE  CallInv'
<1> DEFINE c == call[x][s]
           key == AcceptedKeys(x, s)[CHOOSE i \in Waiting(x, s) :
                                        \A j \in Waiting(x, s) : i <= j]
           response == Head(signals[x][key])
           d == [phase |-> "validating", n |-> c.n, response |-> response]
<1>1. /\ Open(x, s) /\ Waiting(x, s) # {}
      /\ signals' = [signals EXCEPT ![x] = Popped(@, key)]
      /\ took' = [took EXCEPT ![x] = @ + 1]
      /\ (SetCall(x, s, d) /\ UNCHANGED last) \/ EndCall(x, s, Failed(c))
      /\ UNCHANGED <<status, runNo, calls, carried, heard>>
      /\ UNCHANGED <<cache, requests, stragglers>>
  BY DEF TakeResponse, serviceVars
<1>2. /\ key \in ResponseKeys /\ key[2] = s /\ key[1] \in {runNo[x], ByCorrelation}
      /\ signals[x][key] # <<>> /\ response \in Heard(x, key)
  BY <1>1, FirstWaiting, AcceptedResponse
<1> HIDE DEF key
<1>3. /\ c.n \in Nat /\ c.n <= calls[x] /\ c # NoCall
  BY <1>1, OpenCall
<1>4. /\ response \in Responses /\ response.step = s /\ response.n <= c.n
      /\ response.key[1] # ByCorrelation => response.run = runNo[x]
  BY <1>2, <1>3 DEF Heard, Proper, Earlier
<1> HIDE DEF response
<1>5. d \in Calls /\ d.n = c.n /\ d.phase = "validating" /\ d.response = response
  BY <1>3, <1>4, CallsMade
<1> HIDE DEF d
<1>6. Fits(x, s, d, runNo[x], calls[x])
  BY <1>3, <1>4, <1>5 DEF Fits
<1>7. Moves
  <2>1. CASE SetCall(x, s, d) /\ UNCHANGED last
    BY <1>1, <1>5, <1>6, <2>1, SetCallMoves
  <2>2. CASE EndCall(x, s, Failed(c))
    BY <1>1, <2>2, CallFailsMoves
  <2> QED BY <1>1, <2>1, <2>2
<1>8. RunsFit' /\ CallsFit' /\ ResultsFit' /\ Onward
  BY <1>7, MovesKeep
<1>9. QueuesFit' /\ Counted'
  BY <1>1, <1>2, <1>8, Popping
<1> QED BY <1>1, <1>8, <1>9, ServicesStay, CacheStays DEF CallInv

LEMMA StartCallStep ==
    ASSUME CallInv, NEW x \in Executions, NEW s \in Steps, StartCall(x, s)
    PROVE  CallInv'
<1> DEFINE d == [phase |-> "queued", n |-> calls[x] + 1, attempt |-> 1]
<1>1. /\ status[x] = "running" /\ call[x][s] = NoCall
      /\ calls' = [calls EXCEPT ![x] = @ + 1] /\ SetCall(x, s, d)
      /\ UNCHANGED <<status, runNo, last, carried>>
      /\ UNCHANGED <<cache, requests, stragglers, messageVars>>
  BY DEF StartCall, Open, serviceVars, messageVars
<1>2. /\ calls \in [Executions -> Nat] /\ calls[x] \in Nat /\ 1 \in Attempts
  BY CallAssumption DEF CallInv, RunsFit, Attempts
<1>3. d \in Calls /\ d.n = calls[x] + 1 /\ d.phase = "queued"
  <2>1. calls[x] + 1 \in Nat
    BY <1>2
  <2> QED BY <1>2, <2>1, CallsMade
<1> HIDE DEF d
<1>4. /\ call' \in [Executions -> [Steps -> Calls]] /\ call'[x][s] = d
      /\ \A y \in Executions, t \in Steps : y # x \/ t # s => call'[y][t] = call[y][t]
  BY <1>1, <1>3, SetAt DEF SetCall, CallInv, CallsFit
<1>5. /\ calls' \in [Executions -> Nat] /\ calls'[x] = calls[x] + 1
      /\ \A y \in Executions : calls[y] <= calls'[y] /\ (y # x => calls'[y] = calls[y])
  BY <1>1, <1>2
<1>6. RunsFit'
  BY <1>1, <1>4, <1>5 DEF CallInv, RunsFit
<1>7. CallsFit'
  <2>1. ASSUME NEW y \in Executions, NEW t \in Steps
        PROVE  Fits(y, t, call'[y][t], runNo'[y], calls'[y])
    <3>1. Fits(y, t, call[y][t], runNo[y], calls[y]) /\ calls[y] \in Nat /\ calls'[y] \in Nat
      BY <1>2, <1>5 DEF CallInv, CallsFit
    <3>2. CASE y = x /\ t = s
      BY <1>2, <1>3, <1>4, <1>5, <3>2 DEF Fits
    <3>3. CASE y # x \/ t # s
      <4>1. call[y][t] # NoCall => call[y][t].n \in Nat
        BY <3>1, CallFields DEF Fits
      <4> QED BY <1>1, <1>4, <1>5, <3>1, <3>3, <4>1 DEF Fits
    <3> QED BY <3>2, <3>3
  <2> QED BY <1>4, <2>1 DEF CallsFit
<1>8. ResultsFit'
  BY <1>1 DEF CallInv, ResultsFit
<1>9. Onward
  <2> SUFFICES ASSUME NEW y \in Executions, NEW t \in Steps, NEW n, Earlier(y, t, n)
               PROVE  Earlier(y, t, n)'
    BY DEF Onward
  <2>1. n \in Nat /\ n <= calls[y] /\ calls[y] \in Nat /\ calls'[y] \in Nat
    BY <1>2, <1>5 DEF Earlier
  <2>2. n <= calls'[y]
    BY <1>5, <2>1
  <2>3. CASE y = x /\ t = s
    BY <1>3, <1>4, <2>1, <2>2, <2>3 DEF Earlier
  <2>4. CASE y # x \/ t # s
    BY <1>4, <2>1, <2>2, <2>4 DEF Earlier
  <2> QED BY <2>3, <2>4
<1> QED BY <1>1, <1>6, <1>7, <1>8, <1>9, ServicesStay, QueuesStay, CountsStay, CacheStays
        DEF CallInv, messageVars

-----------------------------------------------------------------------------
(* The service answers, and the runs of an execution.                      *)

LEMMA FailingKeeps ==
    ASSUME CallInv, NEW x \in Executions, ExecutionFails(x), UNCHANGED <<runNo, calls, last>>,
           \A y \in Executions \ {x} : carried'[y] = carried[y]
    PROVE  RunsFit' /\ CallsFit' /\ ResultsFit' /\ Onward
<1> DEFINE nothing == [s \in Steps |-> NoCall]
<1>1. /\ call \in [Executions -> [Steps -> Calls]] /\ nothing \in [Steps -> Calls]
      /\ call' = [call EXCEPT ![x] = nothing]
      /\ \A s \in Steps : nothing[s] = NoCall
  BY DEF CallInv, CallsFit, ExecutionFails, Calls
<1> HIDE DEF nothing
<1>2. /\ call' \in [Executions -> [Steps -> Calls]]
      /\ \A s \in Steps : call'[x][s] = NoCall
      /\ \A y \in Executions \ {x} : call'[y] = call[y]
  BY <1>1
<1>3. /\ status' \in [Executions -> {"running", "continuing", "done", "failed"}]
      /\ status'[x] = "failed" /\ \A y \in Executions \ {x} : status'[y] = status[y]
  BY DEF CallInv, RunsFit, ExecutionFails
<1>4. RunsFit'
  BY <1>2, <1>3 DEF CallInv, RunsFit
<1>5. CallsFit'
  <2>1. ASSUME NEW y \in Executions, NEW s \in Steps
        PROVE  Fits(y, s, call'[y][s], runNo'[y], calls'[y])
    BY <1>2, NothingFits DEF CallInv, CallsFit
  <2> QED BY <1>2, <2>1 DEF CallsFit
<1>6. ResultsFit'
  BY DEF CallInv, ResultsFit
<1>7. Onward
  BY <1>2 DEF Onward, Earlier
<1> QED BY <1>4, <1>5, <1>6, <1>7

LEMMA ResponseIsProper ==
    ASSUME CallInv, NEW r \in requests, NEW value \in Values \cup {ErrorAnswer}
    PROVE  /\ AnswerKey(r) \in ResponseKeys
           /\ Response(r, value) \in Heard(r.of, AnswerKey(r))
<1> DEFINE k == AnswerKey(r)
           response == Response(r, value)
<1>1. /\ r \in Requests /\ Earlier(r.of, r.step, r.n)
      /\ r.step \in Steps /\ r.run \in Runs /\ r.n \in Nat
  BY DEF CallInv, ServicesFit, Requests
<1>2. k \in ResponseKeys /\ k[2] = r.step /\ (k[1] # ByCorrelation => r.run = k[1])
  <2>1. r.run \in 0..(MaxContinuations + 1) /\ ByCorrelation \in 0..(MaxContinuations + 1)
    BY <1>1, CallAssumption DEF Runs, ByCorrelation
  <2> QED BY <1>1, <2>1 DEF AnswerKey, ResponseKeys
<1>3. /\ response.step = r.step /\ response.run = r.run /\ response.n = r.n /\ response.key = k
      /\ response \in Responses
  BY <1>1, <1>2 DEF Response, Responses
<1> HIDE DEF k, response
<1>4. response \in Heard(r.of, k)
  BY <1>1, <1>2, <1>3 DEF Heard, Proper
<1> QED BY <1>2, <1>4 DEF k, response

LEMMA Hearing ==
    ASSUME CallInv, NEW x \in Executions, NEW k \in ResponseKeys, NEW response \in Heard(x, k),
           signals' = [signals EXCEPT ![x] = WithResponse(@, response)],
           heard' = [heard EXCEPT ![x] = @ + 1], UNCHANGED <<status, call, calls, carried, took>>,
           ~(Count(signals[x]) >= SignalLimit)
    PROVE  QueuesFit' /\ Counted'
<1> DEFINE q == signals[x]
           p == WithResponse(q, response)
<1>1. q \in QueuesOf(Proper) /\ \A h \in ResponseKeys : q[h] \in Seq(Heard(x, h))
  BY DEF CallInv, QueuesFit
<1>2. response \in Proper /\ response.key = k
  BY DEF Heard
<1>3. p = [q EXCEPT ![k] = Append(q[k], response)]
  BY <1>2 DEF WithResponse
<1>4. p \in QueuesOf(Proper) /\ Count(p) = Count(q) + 1 /\ Count(q) \in Nat
  BY <1>1, <1>2, <1>3, CountOfAppended, CountIsNat
<1>5. ASSUME NEW h \in ResponseKeys PROVE p[h] \in Seq(Heard(x, h))
  <2>1. q \in [ResponseKeys -> Seq(Proper)] /\ q[h] \in Seq(Heard(x, h))
    BY <1>1 DEF QueuesOf
  <2>2. CASE h = k
    BY <1>3, <2>1, <2>2, AppendProperties
  <2>3. CASE h # k
    BY <1>3, <2>1, <2>3
  <2> QED BY <2>2, <2>3
<1> HIDE DEF p
<1>6. signals \in [Executions -> QueuesOf(Proper)] /\ signals' = [signals EXCEPT ![x] = p]
  BY DEF CallInv, QueuesFit, p
<1>7. QueuesFit'
  <2>1. signals' \in [Executions -> QueuesOf(Proper)]
    BY <1>4, <1>6
  <2>2. ASSUME NEW y \in Executions, NEW h \in ResponseKeys
        PROVE  signals'[y][h] \in Seq(Heard(y, h)) /\ carried'[y][h] \in Seq(Heard(y, h))
    BY <1>5, <1>6 DEF CallInv, QueuesFit
  <2>3. ASSUME NEW y \in Executions, NEW h \in ResponseKeys
        PROVE  signals'[y][h] \in Seq(Heard(y, h)') /\ carried'[y][h] \in Seq(Heard(y, h)')
    BY <2>2, SameCallsGoOnward, QueueStays
  <2> QED BY <2>1, <2>3 DEF CallInv, QueuesFit
<1>8. Counted'
  <2> SUFFICES ASSUME NEW y \in Executions
               PROVE  /\ Count(signals'[y]) <= SignalLimit
                      /\ status[y] \in {"running", "continuing"} =>
                           heard'[y] = took[y] + Count(signals'[y]) + Count(carried[y])
    BY DEF CallInv, Counted
  <2>1. carried[y] \in QueuesOf(Proper) /\ Count(carried[y]) \in Nat
    BY CountIsNat DEF CallInv, QueuesFit
  <2>2. CASE y = x
    <3>1. signals'[y] = p /\ heard'[y] = heard[y] + 1 /\ heard[y] \in Nat /\ took[y] \in Nat
      BY <1>6, <2>2 DEF CallInv, Counted
    <3>2. ~(Count(q) >= SignalLimit) /\ SignalLimit \in Nat
      BY CallAssumption
    <3>3. status[y] \in {"running", "continuing"} => heard[y] = took[y] + Count(q) + Count(carried[y])
      BY <2>2 DEF CallInv, Counted
    <3> HIDE DEF q
    <3> QED BY <1>4, <2>1, <3>1, <3>2, <3>3
  <2>3. CASE y # x
    BY <1>6, <2>3 DEF CallInv, Counted
  <2> QED BY <2>2, <2>3
<1> QED BY <1>7, <1>8

LEMMA RespondStep ==
    ASSUME CallInv, NEW r \in requests, NEW value \in Values \cup {ErrorAnswer}, Respond(r, value)
    PROVE  CallInv'
<1> DEFINE x == r.of
           k == AnswerKey(r)
           response == Response(r, value)
<1>1. /\ UNCHANGED <<runNo, calls, last, carried, took>>
      /\ UNCHANGED <<cache, requests, stragglers>>
      /\ \/ /\ ~Refuses(x, value)
            /\ signals' = [signals EXCEPT ![x] = WithResponse(@, response)]
            /\ heard' = [heard EXCEPT ![x] = @ + 1]
            /\ UNCHANGED <<status, call>>
         \/ ExecutionFails(x) /\ UNCHANGED <<signals, heard>>
  BY DEF Respond
<1>2. x \in Executions
  BY DEF CallInv, ServicesFit, Requests
<1>3. k \in ResponseKeys /\ response \in Heard(x, k)
  BY ResponseIsProper
<1> HIDE DEF response, k
<1>5. CASE ExecutionFails(x) /\ UNCHANGED <<signals, heard>>
  <2>1. RunsFit' /\ CallsFit' /\ ResultsFit' /\ Onward
    BY <1>1, <1>2, <1>5, FailingKeeps
  <2>2. Counted'
    BY <1>1, <1>2, <1>5 DEF CallInv, Counted, ExecutionFails, RunsFit
  <2> QED BY <1>1, <1>5, <2>1, <2>2, ServicesStay, QueuesStay, CacheStays DEF CallInv
<1>6. CASE /\ ~Refuses(x, value)
           /\ signals' = [signals EXCEPT ![x] = WithResponse(@, response)]
           /\ heard' = [heard EXCEPT ![x] = @ + 1]
           /\ UNCHANGED <<status, call>>
  <2>1. RunsFit' /\ CallsFit' /\ ResultsFit'
    BY <1>1, <1>6 DEF CallInv, RunsFit, CallsFit, ResultsFit
  <2>2. Onward
    BY <1>1, <1>6, SameCallsGoOnward
  <2>3. ~(Count(signals[x]) >= SignalLimit)
    BY <1>6 DEF Refuses
  <2>4. QueuesFit' /\ Counted'
    BY <1>1, <1>2, <1>3, <1>6, <2>3, Hearing
  <2> QED BY <1>1, <2>1, <2>2, <2>4, ServicesStay, CacheStays DEF CallInv
<1> QED BY <1>1, <1>5, <1>6

LEMMA EmptyQueuesFit ==
    ASSUME NEW x \in Executions, NEW k \in ResponseKeys
    PROVE  EmptyQueues[k] \in Seq(Heard(x, k))
  BY EmptySeq DEF EmptyQueues

LEMMA ContinueRunStep ==
    ASSUME CallInv, NEW x \in Executions, ContinueRun(x)
    PROVE  CallInv'
<1>1. /\ status[x] = "running" /\ runNo[x] <= MaxContinuations /\ \A s \in Steps : call[x][s] = NoCall
      /\ carried' = [carried EXCEPT ![x] = signals[x]]
      /\ signals' = [signals EXCEPT ![x] = EmptyQueues]
      /\ status' = [status EXCEPT ![x] = "continuing"]
      /\ UNCHANGED <<runNo, call, calls, last, heard, took>>
      /\ UNCHANGED <<cache, requests, stragglers>>
  BY DEF ContinueRun, NoOpenCall, Open, serviceVars
<1>2. RunsFit' /\ CallsFit' /\ ResultsFit'
  <2>1. /\ status' \in [Executions -> {"running", "continuing", "done", "failed"}]
        /\ status'[x] = "continuing"
        /\ \A y \in Executions \ {x} : status'[y] = status[y] /\ carried'[y] = carried[y]
    BY <1>1 DEF CallInv, RunsFit, QueuesFit
  <2>2. RunsFit'
    BY <1>1, <2>1 DEF CallInv, RunsFit
  <2> QED BY <1>1, <2>2 DEF CallInv, CallsFit, ResultsFit
<1>3. Onward
  BY <1>1, SameCallsGoOnward
<1>4. /\ EmptyQueues \in QueuesOf(Proper) /\ Count(EmptyQueues) = 0
      /\ signals \in [Executions -> QueuesOf(Proper)] /\ carried \in [Executions -> QueuesOf(Proper)]
  BY CountOfEmpty DEF CallInv, QueuesFit
<1>5. QueuesFit'
  <2>1. /\ signals' \in [Executions -> QueuesOf(Proper)]
        /\ carried' \in [Executions -> QueuesOf(Proper)]
    BY <1>1, <1>4
  <2>2. ASSUME NEW y \in Executions, NEW k \in ResponseKeys
        PROVE  signals'[y][k] \in Seq(Heard(y, k)) /\ carried'[y][k] \in Seq(Heard(y, k))
    BY <1>1, <1>4, EmptyQueuesFit DEF CallInv, QueuesFit
  <2>3. ASSUME NEW y \in Executions, NEW k \in ResponseKeys
        PROVE  signals'[y][k] \in Seq(Heard(y, k)') /\ carried'[y][k] \in Seq(Heard(y, k)')
    BY <1>3, <2>2, QueueStays
  <2> QED BY <2>1, <2>3 DEF QueuesFit
<1>6. Counted'
  <2> SUFFICES ASSUME NEW y \in Executions
               PROVE  /\ Count(signals'[y]) <= SignalLimit
                      /\ status'[y] \in {"running", "continuing"} =>
                           heard[y] = took[y] + Count(signals'[y]) + Count(carried'[y])
    BY <1>1 DEF CallInv, Counted
  <2>1. CASE y = x
    <3>1. signals'[y] = EmptyQueues /\ carried'[y] = signals[y] /\ carried[y] = EmptyQueues
      BY <1>1, <1>4, <2>1 DEF CallInv, RunsFit
    <3>2. heard[y] = took[y] + Count(signals[y]) + Count(carried[y]) /\ took[y] \in Nat
      BY <1>1, <2>1 DEF CallInv, Counted
    <3>3. Count(signals[y]) \in Nat
      BY <1>4, CountIsNat
    <3>4. SignalLimit \in Nat
      BY CallAssumption
    <3> QED BY <1>4, <3>1, <3>2, <3>3, <3>4
  <2>2. CASE y # x
    BY <1>1, <1>4, <2>2 DEF CallInv, Counted, RunsFit
  <2> QED BY <2>1, <2>2
<1> QED BY <1>1, <1>2, <1>3, <1>5, <1>6, ServicesStay, CacheStays DEF CallInv

\* What was carried and what arrived since, put together.
LEMMA Merging ==
    ASSUME CallInv, Onward, NEW x \in Executions, status[x] = "continuing",
           Count(MergedQueues(carried[x], signals[x])) <= SignalLimit,
           carried' = [carried EXCEPT ![x] = EmptyQueues],
           signals' = [signals EXCEPT ![x] = MergedQueues(carried[x], signals[x])],
           \A y \in Executions \ {x} : status'[y] = status[y], UNCHANGED <<heard, took>>
    PROVE  QueuesFit' /\ Counted'
<1> DEFINE m == MergedQueues(carried[x], signals[x])
<1>1. /\ signals \in [Executions -> QueuesOf(Proper)] /\ carried \in [Executions -> QueuesOf(Proper)]
      /\ EmptyQueues \in QueuesOf(Proper) /\ Count(EmptyQueues) = 0
  BY CountOfEmpty DEF CallInv, QueuesFit
<1>2. m \in QueuesOf(Proper) /\ Count(m) = Count(carried[x]) + Count(signals[x])
  BY <1>1, CountOfMerged
<1>3. ASSUME NEW k \in ResponseKeys PROVE m[k] \in Seq(Heard(x, k))
  <2>1. carried[x][k] \in Seq(Heard(x, k)) /\ signals[x][k] \in Seq(Heard(x, k))
    BY DEF CallInv, QueuesFit
  <2>2. m[k] = carried[x][k] \o signals[x][k]
    BY DEF MergedQueues
  <2> QED BY <2>1, <2>2, ConcatProperties
<1>4. Count(m) <= SignalLimit
  OBVIOUS
<1>5. signals' = [signals EXCEPT ![x] = m]
  OBVIOUS
<1> HIDE DEF m
<1>6. QueuesFit'
  <2>1. /\ signals' \in [Executions -> QueuesOf(Proper)]
        /\ carried' \in [Executions -> QueuesOf(Proper)]
    BY <1>1, <1>2, <1>5
  <2>2. ASSUME NEW y \in Executions, NEW k \in ResponseKeys
        PROVE  signals'[y][k] \in Seq(Heard(y, k)) /\ carried'[y][k] \in Seq(Heard(y, k))
    BY <1>1, <1>3, <1>5, EmptyQueuesFit DEF CallInv, QueuesFit
  <2>3. ASSUME NEW y \in Executions, NEW k \in ResponseKeys
        PROVE  signals'[y][k] \in Seq(Heard(y, k)') /\ carried'[y][k] \in Seq(Heard(y, k)')
    BY <2>2, QueueStays
  <2> QED BY <2>1, <2>3 DEF QueuesFit
<1>7. Counted'
  <2> SUFFICES ASSUME NEW y \in Executions
               PROVE  /\ Count(signals'[y]) <= SignalLimit
                      /\ status'[y] \in {"running", "continuing"} =>
                           heard[y] = took[y] + Count(signals'[y]) + Count(carried'[y])
    BY DEF CallInv, Counted
  <2>1. CASE y = x
    <3>1. signals'[y] = m /\ carried'[y] = EmptyQueues
      BY <1>1, <1>5, <2>1
    <3>2. heard[y] = took[y] + Count(signals[y]) + Count(carried[y]) /\ took[y] \in Nat
      BY <2>1 DEF CallInv, Counted
    <3>3. Count(signals[y]) \in Nat /\ Count(carried[y]) \in Nat
      BY <1>1, CountIsNat
    <3> QED BY <1>1, <1>2, <1>4, <2>1, <3>1, <3>2, <3>3
  <2>2. CASE y # x
    BY <1>1, <1>5, <2>2 DEF CallInv, Counted
  <2> QED BY <2>1, <2>2
<1> QED BY <1>6, <1>7

LEMMA BeginRunStep ==
    ASSUME CallInv, NEW x \in Executions, BeginRun(x)
    PROVE  CallInv'
<1> DEFINE m == MergedQueues(carried[x], signals[x])
<1>1. /\ status[x] = "continuing"
      /\ carried' = [carried EXCEPT ![x] = EmptyQueues]
      /\ UNCHANGED <<calls, last, heard, took>> /\ UNCHANGED <<cache, requests, stragglers>>
  BY DEF BeginRun, serviceVars
<1>2. /\ carried \in [Executions -> QueuesOf(Proper)] /\ signals \in [Executions -> QueuesOf(Proper)]
      /\ EmptyQueues \in QueuesOf(Proper)
      /\ \A y \in Executions \ {x} : carried'[y] = carried[y]
  BY <1>1, CountOfEmpty DEF CallInv, QueuesFit
<1>3. CASE ExecutionFails(x) /\ UNCHANGED <<signals, runNo>>
  <2>1. RunsFit' /\ CallsFit' /\ ResultsFit' /\ Onward
    BY <1>1, <1>2, <1>3, FailingKeeps
  <2>2. Counted'
    <3>1. status'[x] = "failed" /\ \A y \in Executions \ {x} : status'[y] = status[y]
      BY <1>3 DEF CallInv, RunsFit, ExecutionFails
    <3> QED BY <1>1, <1>2, <1>3, <3>1 DEF CallInv, Counted
  <2>3. QueuesFit'
    <3>1. carried' \in [Executions -> QueuesOf(Proper)]
      BY <1>1, <1>2
    <3>2. ASSUME NEW y \in Executions, NEW k \in ResponseKeys
          PROVE  signals'[y][k] \in Seq(Heard(y, k)) /\ carried'[y][k] \in Seq(Heard(y, k))
      BY <1>1, <1>2, <1>3, EmptyQueuesFit DEF CallInv, QueuesFit
    <3>3. ASSUME NEW y \in Executions, NEW k \in ResponseKeys
          PROVE  signals'[y][k] \in Seq(Heard(y, k)') /\ carried'[y][k] \in Seq(Heard(y, k)')
      BY <2>1, <3>2, QueueStays
    <3> QED BY <1>2, <1>3, <3>1, <3>3 DEF QueuesFit
  <2> QED BY <1>1, <2>1, <2>2, <2>3, ServicesStay, CacheStays DEF CallInv
<1>4. CASE /\ ~(Count(m) > SignalLimit) /\ signals' = [signals EXCEPT ![x] = m]
           /\ runNo' = [runNo EXCEPT ![x] = @ + 1] /\ status' = [status EXCEPT ![x] = "running"]
           /\ UNCHANGED call
  <2>1. /\ runNo[x] \in Runs /\ runNo[x] <= MaxContinuations /\ MaxContinuations \in Nat
        /\ \A s \in Steps : call[x][s] = NoCall
    BY <1>1, CallAssumption DEF CallInv, RunsFit
  <2>2. runNo[x] + 1 \in Runs
    BY <2>1 DEF Runs
  <2>3. /\ status' \in [Executions -> {"running", "continuing", "done", "failed"}]
        /\ status'[x] = "running" /\ \A y \in Executions \ {x} : status'[y] = status[y]
        /\ runNo' \in [Executions -> Runs] /\ \A y \in Executions \ {x} : runNo'[y] = runNo[y]
        /\ carried'[x] = EmptyQueues
    BY <1>1, <1>2, <1>4, <2>2 DEF CallInv, RunsFit
  <2>4. RunsFit'
    BY <1>1, <1>2, <1>4, <2>3 DEF CallInv, RunsFit
  <2>5. CallsFit'
    <3>1. ASSUME NEW y \in Executions, NEW s \in Steps
          PROVE  Fits(y, s, call[y][s], runNo'[y], calls[y])
      BY <2>1, <2>3, NothingFits DEF CallInv, CallsFit
    <3> QED BY <1>1, <1>4, <3>1 DEF CallInv, CallsFit
  <2>6. ResultsFit'
    BY <1>1 DEF CallInv, ResultsFit
  <2>7. Onward
    BY <1>1, <1>4, SameCallsGoOnward
  <2>8. Count(m) <= SignalLimit
    <3>1. m \in QueuesOf(Proper)
      BY <1>2, CountOfMerged
    <3>2. Count(m) \in Nat /\ SignalLimit \in Nat
      BY <3>1, CountIsNat, CallAssumption
    <3> QED BY <1>4, <3>2
  <2>9. QueuesFit' /\ Counted'
    BY <1>1, <1>4, <2>3, <2>7, <2>8, Merging
  <2> QED BY <1>1, <2>4, <2>5, <2>6, <2>7, <2>9, ServicesStay, CacheStays DEF CallInv
<1> QED BY <1>3, <1>4 DEF BeginRun

LEMMA FinishExecutionStep ==
    ASSUME CallInv, NEW x \in Executions, FinishExecution(x)
    PROVE  CallInv'
<1>1. /\ \A s \in Steps : call[x][s] = NoCall
      /\ status' = [status EXCEPT ![x] = "done"]
      /\ UNCHANGED <<runNo, call, calls, last, messageVars>> /\ UNCHANGED messageVars
      /\ UNCHANGED <<cache, requests, stragglers>>
  BY DEF FinishExecution, NoOpenCall, Open, serviceVars
<1>2. /\ status' \in [Executions -> {"running", "continuing", "done", "failed"}]
      /\ status'[x] = "done" /\ \A y \in Executions \ {x} : status'[y] = status[y]
  BY <1>1 DEF CallInv, RunsFit
<1>3. RunsFit' /\ CallsFit' /\ ResultsFit' /\ Onward
  <2>1. RunsFit'
    BY <1>1, <1>2 DEF CallInv, RunsFit, messageVars
  <2> QED BY <1>1, <2>1, SameCallsGoOnward DEF CallInv, CallsFit, ResultsFit
<1>4. Counted'
  BY <1>1, <1>2 DEF CallInv, Counted, messageVars
<1> QED BY <1>1, <1>3, <1>4, ServicesStay, QueuesStay, CacheStays DEF CallInv, messageVars

LEMMA InitFits == CallInit => CallInv
<1> SUFFICES ASSUME CallInit PROVE CallInv
  OBVIOUS
<1>1. /\ status = [x \in Executions |-> "running"] /\ runNo = [x \in Executions |-> 1]
      /\ call = [x \in Executions |-> [s \in Steps |-> NoCall]]
      /\ calls = [x \in Executions |-> 0]
      /\ last = [x \in Executions |-> [s \in Steps |-> NoResult]]
      /\ cache = [k \in CacheKeys |-> NoEntry]
      /\ requests = {} /\ stragglers = {}
      /\ signals = [x \in Executions |-> EmptyQueues]
      /\ carried = [x \in Executions |-> EmptyQueues]
      /\ heard = [x \in Executions |-> 0] /\ took = [x \in Executions |-> 0]
  BY DEF CallInit, CallsAre
<1>2. /\ EmptyQueues \in QueuesOf(Proper) /\ Count(EmptyQueues) = 0
      /\ SignalLimit \in Nat /\ MaxContinuations \in Nat /\ 1 \in Runs
  BY CountOfEmpty, CallAssumption DEF Runs
<1>3. RunsFit
  BY <1>1, <1>2 DEF RunsFit
<1>4. CallsFit
  BY <1>1, NothingFits DEF CallsFit, Fits
<1>5. ResultsFit
  <2>1. last \in [Executions -> [Steps -> {NoResult}]]
    BY <1>1
  <2>2. \A x, s : ResultFits(x, s, NoResult)
    BY DEF ResultFits, NoResult
  <2> QED BY <1>1, <2>1, <2>2 DEF ResultsFit
<1>6. CacheFits
  BY <1>1 DEF CacheFits
<1>7. ServicesFit
  BY <1>1 DEF ServicesFit
<1>8. QueuesFit
  BY <1>1, <1>2, EmptyQueuesFit DEF QueuesFit
<1>9. Counted
  BY <1>1, <1>2 DEF Counted
<1> QED BY <1>3, <1>4, <1>5, <1>6, <1>7, <1>8, <1>9 DEF CallInv

LEMMA StepCallsAreKept == CallInv /\ [CallNext]_callVars => CallInv'
<1> SUFFICES ASSUME CallInv, [CallNext]_callVars PROVE CallInv'
  OBVIOUS
<1>1. ASSUME NEW x \in Executions, NEW s \in Steps,
             StartCall(x, s) \/ Progress(x, s) \/ AttemptRefused(x, s) \/ SendFails(x, s)
               \/ AttemptLost(x, s)
      PROVE  CallInv'
  BY <1>1, StartCallStep, BeginAttemptStep, EvaluateStep, SendInlineStep, PublishStep,
     StoreCacheStep, TakeResponseStep, ResponseTimesOutStep, ValidateResponseStep,
     AttemptRefusedStep, SendFailsStep, AttemptLostStep DEF Progress
<1>2. ASSUME NEW z \in stragglers,
             StragglerStores(z) \/ \E v \in Values : StragglerSends(z, v)
      PROVE  CallInv'
  BY <1>2, StragglerStoresStep, StragglerSendsStep
<1>3. ASSUME NEW r \in requests, NEW v \in Values \cup {ErrorAnswer}, Respond(r, v)
      PROVE  CallInv'
  BY <1>3, RespondStep
<1>4. ASSUME NEW x \in Executions, ContinueRun(x) \/ BeginRun(x) \/ FinishExecution(x)
      PROVE  CallInv'
  BY <1>4, ContinueRunStep, BeginRunStep, FinishExecutionStep
<1>5. CASE UNCHANGED callVars
  <2>1. /\ UNCHANGED <<status, runNo, call, calls, last, messageVars>>
        /\ UNCHANGED cache /\ UNCHANGED <<requests, stragglers>>
    BY <1>5 DEF callVars, messageVars
  <2> QED BY <2>1, OutsideKeeps, ServicesStay, CacheStays DEF CallInv
<1> QED BY <1>1, <1>2, <1>3, <1>4, <1>5, EntryExpiresStep DEF CallNext

-----------------------------------------------------------------------------
(* The theorems.                                                           *)

\* Every response is kept until a call takes it, and the call that takes it asked for
\* it, however attempts, stragglers, late answers and changes of runs interleave.
THEOREM ResponsesMeetTheirCalls == CallSpec => []CallsAreAnswered
<1>1. CallInv => CallsAreAnswered
  <2> SUFFICES ASSUME CallInv PROVE CallsAreAnswered
    OBVIOUS
  <2>1. CallTypeOK
    <3> SUFFICES ASSUME NEW x \in Executions, NEW s \in Steps
                 PROVE  /\ call[x][s].phase \in {"none", "queued", "missed", "sent", "awaiting",
                                                 "validating"}
                        /\ call[x][s].phase \in {"queued", "missed", "sent"} =>
                             call[x][s].attempt \in 1..(Retries + 1)
                        /\ runNo[x] \in 1..(MaxContinuations + 1)
                        /\ Count(signals[x]) <= SignalLimit + Count(carried[x])
      BY DEF CallTypeOK
    <3>1. call[x][s] \in Calls /\ runNo[x] \in Runs
      BY DEF CallInv, CallsFit, RunsFit
    <3>2. Count(signals[x]) \in Nat /\ Count(carried[x]) \in Nat /\ SignalLimit \in Nat
      BY CountIsNat, CallAssumption DEF CallInv, QueuesFit
    <3>3. Count(signals[x]) <= SignalLimit
      BY DEF CallInv, Counted
    <3>4. Count(signals[x]) <= SignalLimit + Count(carried[x])
      BY <3>2, <3>3
    <3> QED BY <3>1, <3>4, CallFields DEF Attempts, Runs
  <2>2. AnswerIsToThisStep
    BY DEF AnswerIsToThisStep, CallInv, ResultsFit, ResultFits
  <2>3. ResponsesAreKept
    BY DEF ResponsesAreKept, CallInv, Counted
  <2> QED BY <2>1, <2>2, <2>3 DEF CallsAreAnswered
<1> QED BY <1>1, InitFits, StepCallsAreKept, PTL DEF CallSpec

\* A result meets the contract of the definition that uses it, and what is cached was
\* made by the definition that reads it, stragglers and all.
THEOREM ResultsCanBeUsed == CallSpec => []ResultsAreValid
<1>1. CallInv => ResultsAreValid
  <2> SUFFICES ASSUME CallInv PROVE ResultsAreValid
    OBVIOUS
  <2>1. \A x \in Executions, s \in Steps : ResultFits(x, s, last[x][s])
    BY DEF CallInv, ResultsFit
  <2>2. \A k \in CacheKeys : cache[k] # NoEntry =>
           cache[k].maker = k[1] /\ cache[k].value \in Contract[k[1]] \ Large
    BY DEF CallInv, CacheFits
  <2>3. ResultsMeetTheContract
    BY <2>1, <2>2 DEF ResultsMeetTheContract, ResultFits
  <2>4. \A x \in Executions, s \in Caches : CacheKey(x, s) \in CacheKeys /\ CacheKey(x, s)[1] = Digest[x]
    BY DEF CacheKey, CacheKeys
  <2>5. CacheServesItsDefinition
    BY <2>1, <2>2, <2>4, CallAssumption DEF CacheServesItsDefinition, ResultFits
  <2> QED BY <2>3, <2>5 DEF ResultsAreValid
<1> QED BY <1>1, InitFits, StepCallsAreKept, PTL DEF CallSpec

====
