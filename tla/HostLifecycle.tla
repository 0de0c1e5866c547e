---------------------------- MODULE HostLifecycle ----------------------------
(***************************************************************************)
(* One host process: the ASGI application that owns a RuntimeGateway, a     *)
(* WorkflowEngine or both (runtime/application.py), the engine's own start  *)
(* and stop (engine/worker.py), the ordered load of the resources           *)
(* (sdk/resource_loader.py, resources/registry.py), the wait for the        *)
(* worker's route (definitions/routing.py) and the health registry.         *)
(*                                                                          *)
(* All of it runs in one asyncio loop: an action is what one coroutine does *)
(* between two awaits.  What an await waits for (Temporal, a resource, a    *)
(* broker) is external and may succeed or fail.                             *)
(***************************************************************************)
EXTENDS Integers, FiniteSets, SequencesExt

CONSTANTS
  Hosts,          \* the processes considered: [shape, plan], shape the application
                  \* (create_gateway_app, create_worker_app, create_combined_app or
                  \* run_engine) and plan what its configuration settles
  Endpoints,      \* the configured message consumers, a subset of {"response", "trigger"}
  OwnedStores     \* the configuration stores the gateway opens itself, in order

Nothing == "nothing"

\* The names of a declaration are the keys of a mapping, so no name comes twice.
ASSUME HostAssumption ==
  /\ \A h \in Hosts :
       /\ h.shape \in {"gateway", "worker", "combined", "engine"}
       /\ h.plan.attempts \in Nat \ {0}
       /\ h.plan.names \in Seq(STRING) /\ Nothing \notin ToSet(h.plan.names)
  /\ Endpoints \subseteq {"response", "trigger"}
  /\ OwnedStores \in Seq(STRING) /\ IsInjective(OwnedStores)
  /\ ToSet(OwnedStores) \cap ({Nothing, "broker"} \cup Endpoints) = {}

VARIABLES
  shape,      \* which application the process runs
  plan,       \* its configuration: the resource declarations [names, needs, offers], and
              \* `attempts`, temporal.deployment_registration.attempts
  app,        \* the ASGI application and its lifespan
  gateway,    \* RuntimeGateway: the coroutine of start, and of stop
  engine,     \* WorkflowEngine: the coroutine of start, and of stop
  loader,     \* ResourceLoader
  consumers,  \* the relay and ingress tasks of each owner
  open,       \* what is open: <<owner, name>>, owner "gateway", "engine" or "loader"
  health      \* HealthRegistry

vars == <<shape, plan, app, gateway, engine, loader, consumers, open, health>>

Owners == {"gateway", "engine"}
HealthComponents == {"catalog", "temporal", "worker", "worker_registration",
                     "trigger_consumer", "response_consumer", "providers"}
ConsumerHealth(e) == IF e = "response" THEN "response_consumer" ELSE "trigger_consumer"
WorkerTasks == {"temporal-worker", "schedule-worker"}

HasGateway == shape \in {"gateway", "combined"}
HasEngine == shape \in {"worker", "combined", "engine"}
HasIngress == shape = "engine"     \* only run_engine leaves enable_ingress on

(***************************************************************************)
(* Health.                                                                  *)
(***************************************************************************)
Required ==
  {"catalog", "temporal", "providers"}
    \cup (IF HasGateway THEN {"worker_registration"} ELSE {})
    \cup (IF HasEngine THEN {"worker"} ELSE {})
    \cup (IF HasGateway \/ HasIngress THEN {ConsumerHealth(e) : e \in Endpoints} ELSE {})

Mark(components, status) ==
  [c \in HealthComponents |-> IF c \in components THEN status ELSE health[c]]

\* HealthRegistry.report: what /readyz answers.
Ready == \A c \in Required : health[c] = "ready"

(***************************************************************************)
(* Resource declarations: [names, needs, offers], names in the order of the  *)
(* document, needs[r] the dependencies of r in order, offers[r] what r       *)
(* provides to the resources that depend on it.                             *)
(***************************************************************************)
DependenciesDeclared(p) ==
  \A r \in ToSet(p.names) : \A d \in ToSet(p.needs[r]) :
    d.name \in ToSet(p.names) /\ d.capability \in p.offers[d.name]

\* The orders in which every resource follows what it needs.  The depth-first walk of
\* the code (ResourceOrder) finds one of them, or a cycle when there is none; which
\* one, the document order decides, and nothing here depends on it.
LoadOrders(p) ==
  LET places == 1..Len(p.names) IN
  {o \in [places -> ToSet(p.names)] :
    /\ IsInjective(o)
    /\ \A i \in places : \A d \in ToSet(p.needs[o[i]]) : \E j \in 1..i - 1 : o[j] = d.name}

Loadable(p) == DependenciesDeclared(p) /\ LoadOrders(p) # {}

(***************************************************************************)
(* Exit stacks.  aclose pops until nothing is left, so what is pushed while *)
(* it runs is popped too; `closing` is what is being awaited.               *)
(***************************************************************************)
\* Mutant: the cleanups run in the order they were registered.
PopNextFifo(s) ==
  IF s.stack = <<>> THEN [s EXCEPT !.closing = Nothing]
  ELSE [s EXCEPT !.closing = Head(s.stack), !.stack = Tail(s.stack)]

PopNext(s) ==
  IF s.stack = <<>> THEN [s EXCEPT !.closing = Nothing]
  ELSE [s EXCEPT !.closing = Last(s.stack), !.stack = Front(s.stack)]

\* Mutant: what is registered while the stack is being closed is dropped.
OwnWhileOpen(s, n) ==
  IF n \in s.owned \/ s.stop # "no" THEN s
  ELSE [s EXCEPT !.stack = Append(@, n), !.owned = @ \cup {n}]

\* _own_cleanup registers a component once, however often it is asked to.
Own(s, n) ==
  IF n \in s.owned THEN s
  ELSE [s EXCEPT !.stack = Append(@, n), !.owned = @ \cup {n}]

Init ==
  /\ \E h \in Hosts : shape = h.shape /\ plan = h.plan
  /\ app = [pc |-> "new", worker |-> "pending", started |-> FALSE, skipped |-> FALSE]
  /\ gateway = [pc |-> "new", attempt |-> 0, stack |-> <<>>, closing |-> Nothing,
                stop |-> "no", holder |-> Nothing, failed |-> FALSE, started |-> FALSE,
                overtaken |-> "no"]
  /\ engine = [pc |-> "new", attempt |-> 0, stack |-> <<"resources">>, owned |-> {"resources"},
               closing |-> Nothing, stop |-> "no", holder |-> Nothing, failed |-> FALSE,
               ready |-> FALSE, running |-> {}, died |-> FALSE, cancelled |-> FALSE]
  /\ loader = [order |-> <<>>, next |-> 0, stack |-> <<>>, closing |-> Nothing,
               loaded |-> {}, closed |-> FALSE, overlapped |-> FALSE]
  /\ consumers = [o \in Owners |-> [e \in Endpoints |-> "none"]]
  /\ open = {}
  /\ health = [c \in HealthComponents |-> "unavailable"]

(***************************************************************************)
(* The resource loader, inside WorkflowEngine.start.                        *)
(***************************************************************************)
Buildable(l, r) == \A d \in ToSet(plan.needs[r]) : d.name \in l.loaded

\* ResourceLoader.close, entered by a failing load: once, whoever comes first.
\* The next state of the loader, and whether the caller has to wait.
Unwound(l) == IF l.closed THEN l ELSE PopNext([l EXCEPT !.closed = TRUE])

UnwindLoad(l) ==
  /\ loader' = Unwound(l)
  /\ engine' = [engine EXCEPT !.pc = IF l.closed \/ Unwound(l).closing = Nothing
                                     THEN "finally" ELSE "unwinding"]

\* The next resource of the order is built, its cleanup pushed, and its
\* initialize awaited; or building it fails and the load unwinds.
BuildNext(l) ==
  LET r == l.order[l.next + 1] IN
  \/ /\ Buildable(l, r)
     /\ loader' = [l EXCEPT !.next = @ + 1, !.stack = Append(@, r),
                            !.overlapped = @ \/ l.closed]
     /\ open' = open \cup {<<"loader", r>>}
     /\ engine' = [engine EXCEPT !.pc = "loading"]
  \/ UnwindLoad(l) /\ UNCHANGED open

(***************************************************************************)
(* WorkflowEngine.start.                                                    *)
(***************************************************************************)
EngineFails(e) == [e EXCEPT !.pc = "finally"]

\* The brokers are owned before the retention and reply-destination checks that
\* may fail.
EngineBrokers == Own(engine, "broker")

\* After the load: brokers, their checks, the activities; then the connection is
\* awaited.
AfterLoad(ok, marked) ==
  LET brokered == EngineBrokers IN
  /\ health' = Mark(marked, "ready")
  /\ engine' = IF ok THEN [Own(brokered, "activities") EXCEPT !.pc = "connecting"]
               ELSE EngineFails(brokered)
  /\ open' = open \cup {<<"engine", "broker">>}
               \cup (IF ok THEN {<<"engine", "activities">>} ELSE {})

\* The synchronous prefix: configuration, validation, catalog, definitions; then
\* the load begins.  `outcome` is the first of them that fails, or "ok".
EngineBegin(outcome, order, checked) ==
  LET marked == IF outcome = "configuration" THEN {} ELSE {"catalog"} IN
  /\ engine.pc = "scheduled"
  /\ IF outcome # "ok"
     THEN engine' = EngineFails(engine) /\ health' = Mark(marked, "ready")
          /\ UNCHANGED <<loader, open>>
     ELSE IF ~Loadable(plan)
     THEN UnwindLoad(loader) /\ health' = Mark(marked, "ready") /\ UNCHANGED open
     ELSE IF plan.names = <<>>
     THEN AfterLoad(checked, marked \cup {"providers"}) /\ UNCHANGED loader
     ELSE /\ order \in LoadOrders(plan)
          /\ BuildNext([loader EXCEPT !.order = order])
          /\ health' = Mark(marked, "ready")
  /\ UNCHANGED <<shape, plan, app, gateway, consumers>>

\* initialize() of the resource being loaded returns or raises.
ResourceInitialized(ok, checked) ==
  LET now == [loader EXCEPT !.loaded = @ \cup {loader.order[loader.next]}] IN
  /\ engine.pc = "loading" /\ ~engine.cancelled
  /\ IF ~ok THEN UnwindLoad(loader) /\ UNCHANGED <<open, health>>
     ELSE IF loader.next < Len(loader.order)
     THEN BuildNext(now) /\ UNCHANGED health
     ELSE loader' = now /\ AfterLoad(checked, {"providers"})
  /\ UNCHANGED <<shape, plan, app, gateway, consumers>>

\* The client is connected: the two workers are created and owned, and their
\* tasks started.
EngineConnected(ok) ==
  /\ engine.pc = "connecting" /\ ~engine.cancelled
  /\ IF ok
     THEN /\ engine' = [Own(Own(engine, "temporal-worker"), "schedule-worker") EXCEPT
                          !.pc = "ensuring", !.running = WorkerTasks]
          /\ open' = open \cup {<<"engine", t>> : t \in WorkerTasks}
          /\ health' = Mark({"temporal"}, "ready")
     ELSE engine' = EngineFails(engine) /\ UNCHANGED <<open, health>>
  /\ UNCHANGED <<shape, plan, app, gateway, loader, consumers>>

\* ScheduledStartMaintenance.ensure_schedule.
EngineEnsured(ok) ==
  /\ engine.pc = "ensuring" /\ ~engine.cancelled
  /\ engine' = IF ok THEN [engine EXCEPT !.pc = "routing"] ELSE EngineFails(engine)
  /\ UNCHANGED <<shape, plan, app, gateway, loader, consumers, open, health>>

\* Mutant: it waits as long as it takes.
RouteFailsNever(attempt, answer) == answer = "error"

\* One check of wait_for_worker_deployment: the route is there, is not there yet,
\* or cannot be read.  The last check that does not find it fails.
RouteFound(answer) == answer = "registered"
RouteFails(attempt, answer) ==
  answer = "error" \/ (answer = "pending" /\ attempt + 1 = plan.attempts)

Started(owner) == [consumers EXCEPT ![owner] = [e \in Endpoints |-> "starting"]]
Consumer(e) == IF e \in Endpoints THEN <<e>> ELSE <<>>
ConsumerNames == Consumer("response") \o Consumer("trigger")
OwnConsumer(s, e) == IF e \in Endpoints THEN Own(s, e) ELSE s

\* The route is registered: the worker is ready, and so is the engine once its
\* own consumers, when it has any, are.
EngineRouted(answer) ==
  /\ engine.pc = "routing" /\ ~engine.cancelled
  /\ CASE RouteFound(answer) ->
            /\ health' = Mark({"worker"}, "ready")
            /\ IF HasIngress /\ Endpoints # {}
               THEN /\ consumers' = Started("engine")
                    /\ engine' = [OwnConsumer(OwnConsumer(engine, "response"), "trigger") EXCEPT
                                 !.pc = "consumers"]
                    /\ open' = open \cup {<<"engine", e>> : e \in Endpoints}
               ELSE /\ engine' = [engine EXCEPT !.pc = "supervising", !.ready = TRUE]
                    /\ UNCHANGED <<consumers, open>>
       [] RouteFails(engine.attempt, answer) ->
            engine' = EngineFails(engine) /\ UNCHANGED <<health, consumers, open>>
       [] OTHER ->
            engine' = [engine EXCEPT !.attempt = @ + 1] /\ UNCHANGED <<health, consumers, open>>
  /\ UNCHANGED <<shape, plan, app, gateway, loader>>

ConsumersReady(owner) == \A e \in Endpoints : consumers[owner][e] = "ready"

\* _wait_for_consumer_readiness: both events, or the timeout of one.
EngineConsumersReady(ok) ==
  /\ engine.pc = "consumers" /\ ~engine.cancelled
  /\ ok => ConsumersReady("engine")
  /\ engine' = IF ok THEN [engine EXCEPT !.pc = "supervising", !.ready = TRUE]
               ELSE EngineFails(engine)
  /\ UNCHANGED <<shape, plan, app, gateway, loader, consumers, open, health>>

\* Mutant: it waits for the last of them.
SupervisedEndedAll ==
  /\ engine.running = {}
  /\ HasIngress => \A e \in Endpoints : consumers["engine"][e] = "done"

\* _supervise_services: the first service to end ends all the others.
SupervisedEnded ==
  \/ engine.running # WorkerTasks
  \/ HasIngress /\ \E e \in Endpoints : consumers["engine"][e] = "done"

StoppedConsumers(owner) ==
  [consumers EXCEPT ![owner] = [e \in Endpoints |-> IF @[e] = "none" THEN "none" ELSE "done"]]

\* A consumer task that is cancelled or that stops has reported that it is not ready
\* only through stop; the gateway's done-callback reports it in every case.
ConsumersDown(owner) ==
  Mark({ConsumerHealth(e) : e \in {x \in Endpoints : consumers[owner][x] # "none"}},
       "unavailable")

EngineSupervise ==
  /\ engine.pc = "supervising"
  /\ SupervisedEnded \/ engine.cancelled
  /\ engine' = [engine EXCEPT !.running = {}, !.pc = "finally"]
  /\ consumers' = StoppedConsumers("engine")
  /\ UNCHANGED <<shape, plan, app, gateway, loader, open, health>>

\* The application cancelled the task of start while it awaited something.
EngineCancelled ==
  /\ engine.cancelled
  /\ \/ engine.pc = "loading" /\ UnwindLoad(loader)
     \/ /\ engine.pc \in {"connecting", "ensuring", "routing", "consumers"}
        /\ engine' = EngineFails(engine) /\ UNCHANGED loader
  /\ UNCHANGED <<shape, plan, app, gateway, consumers, open, health>>

\* A worker task returns or raises on its own.
WorkerTaskEnds(t) ==
  /\ t \in engine.running
  /\ engine' = [engine EXCEPT !.running = @ \ {t}, !.died = TRUE]
  /\ UNCHANGED <<shape, plan, app, gateway, loader, consumers, open, health>>

(***************************************************************************)
(* Closing the loader: by the load that failed, or as the "resources"       *)
(* cleanup of the engine.                                                   *)
(***************************************************************************)
\* Mutant: stop leaves the registry as it is.
EngineStoppedHealthKept == health

\* The end of stop marks every component of the shared registry.
EngineStoppedHealth == Mark(HealthComponents, "unavailable")

\* One cleanup of the engine has ended: the next one is popped, or stop is over.
\* A cleanup that failed is remembered; stop then raises to its caller, which
\* skips what the caller would have done next.
EngineCloseNext(e, failed) ==
  LET after == PopNext([e EXCEPT !.failed = @ \/ failed])
      raises == after.failed /\ e.holder = "app"
  IN
  IF after.closing # Nothing
  THEN engine' = after /\ UNCHANGED <<app, health>>
  ELSE /\ engine' = [after EXCEPT !.stop = "yes",
            !.cancelled = e.holder = "app" /\ ~raises /\ e.pc \notin {"finally", "done"}]
       /\ app' = IF e.holder # "app" THEN app
                 ELSE IF raises THEN [app EXCEPT !.pc = "down", !.skipped = TRUE]
                 ELSE [app EXCEPT !.pc = "reaping"]
       /\ health' = EngineStoppedHealth

\* close() of one resource returns or raises; the failure is collected.
ResourceClosed(ok) ==
  LET next == PopNext(loader)
      over == next.closing = Nothing
      cleared == IF over THEN [next EXCEPT !.loaded = {}] ELSE next
  IN
  /\ loader.closing # Nothing
  /\ loader' = cleared
  /\ open' = open \ {<<"loader", loader.closing>>}
  /\ IF ~over THEN UNCHANGED <<engine, app, health>>
     ELSE IF engine.pc = "unwinding"
     THEN engine' = EngineFails(engine) /\ UNCHANGED <<app, health>>
     ELSE EngineCloseNext(engine, ~ok)
  /\ UNCHANGED <<shape, plan, gateway, consumers>>

(***************************************************************************)
(* WorkflowEngine.stop, under its lock, by the finally of start or by the   *)
(* application.  Only the first caller closes; the others wait for it.      *)
(* Every component registers its cleanup as it is created, so what stop     *)
(* registers again before it closes adds nothing.                           *)
(***************************************************************************)
EngineStopBegins(holder) ==
  /\ engine.stop = "no"
  /\ engine' = PopNext([engine EXCEPT !.stop = "closing", !.holder = holder, !.ready = FALSE])

\* The cleanup of one owned component ends.  Closing the resources is over at
\* once when a failing load has closed them or is closing them.
EngineComponentClosed(ok) ==
  LET c == engine.closing IN
  /\ engine.stop = "closing" /\ c # Nothing
  /\ \/ c = "resources" /\ loader.closed /\ loader.closing = Nothing /\ UNCHANGED loader
     \/ c = "resources" /\ engine.pc = "unwinding" /\ UNCHANGED loader
     \/ c = "resources" /\ ~loader.closed /\ loader.stack = <<>>
        /\ loader' = [loader EXCEPT !.closed = TRUE]
     \/ c # "resources" /\ UNCHANGED loader
  /\ c = "resources" => ok
  /\ open' = open \ {<<"engine", c>>}
  /\ consumers' = IF c \in Endpoints THEN [consumers EXCEPT !["engine"][c] = "done"]
                  ELSE consumers
  /\ EngineCloseNext([engine EXCEPT !.running = @ \ {c}], ~ok)
  /\ UNCHANGED <<shape, plan, gateway>>

\* The "resources" cleanup starts to close what the loader holds.
EngineClosesResources ==
  /\ engine.stop = "closing" /\ engine.closing = "resources"
  /\ ~loader.closed /\ loader.stack # <<>>
  /\ loader' = [Unwound(loader) EXCEPT !.overlapped = engine.pc = "loading"]
  /\ UNCHANGED <<shape, plan, app, gateway, engine, consumers, open, health>>

\* The finally of start: the first to stop, or after whoever is stopping.
EngineFinally ==
  /\ engine.pc = "finally"
  /\ \/ EngineStopBegins("start")
     \/ engine.stop = "yes" /\ engine' = [engine EXCEPT !.pc = "done"]
  /\ UNCHANGED <<shape, plan, app, gateway, loader, consumers, open, health>>

(***************************************************************************)
(* The consumer tasks of either owner.  MessageDelivery has what they do    *)
(* with a message; here only their readiness matters.                       *)
(***************************************************************************)
Polling(o, e) == consumers[o][e] \in {"starting", "ready", "lost"}

\* A poll succeeds or fails: _set_ready reports the change to the health registry.
ConsumerPolls(o, e, ok) ==
  /\ Polling(o, e)
  /\ consumers' = [consumers EXCEPT ![o][e] = IF ok THEN "ready" ELSE "lost"]
  /\ consumers'[o][e] # consumers[o][e]
  /\ health' = IF ok THEN Mark({ConsumerHealth(e)}, "ready")
               ELSE IF consumers[o][e] = "ready"
               THEN Mark({ConsumerHealth(e)}, "unavailable") ELSE health
  /\ UNCHANGED <<shape, plan, app, gateway, engine, loader, open>>

\* The task ends on its own.  The gateway's done-callback reports it; the engine's
\* supervision sees it.
ConsumerTaskEnds(o, e) ==
  /\ Polling(o, e)
  /\ consumers' = [consumers EXCEPT ![o][e] = "done"]
  /\ health' = IF o = "gateway" THEN Mark({ConsumerHealth(e)}, "unavailable") ELSE health
  /\ UNCHANGED <<shape, plan, app, gateway, engine, loader, open>>

(***************************************************************************)
(* RuntimeGateway.start.                                                    *)
(***************************************************************************)
\* start has failed: its except awaits stop.
GatewayFails(g) == [g EXCEPT !.pc = "stopping"]

\* _prepare_start_targets opens the stores it owns before it reads the configuration,
\* validates it and loads the catalog: they are open whatever fails after that.
PreparedStores == OwnedStores

\* _configure_brokers opens the brokers before it compares the retention of the
\* deduplication store with the redelivery window.
ConfiguredBrokers(outcome) == IF outcome = "configuration" THEN <<>> ELSE <<"broker">>

\* The synchronous prefix of start; then the connection is awaited.  A gateway that
\* has been stopped does not begin.
GatewayBegin(outcome) ==
  LET now == [gateway EXCEPT !.stack = PreparedStores \o ConfiguredBrokers(outcome)] IN
  /\ gateway.pc = "scheduled" /\ engine.pc # "scheduled"
  /\ IF gateway.stop # "no"
     THEN gateway' = [gateway EXCEPT !.pc = "failed"] /\ UNCHANGED <<open, health>>
     ELSE /\ gateway' = IF outcome = "ok" THEN [now EXCEPT !.pc = "connecting"]
                        ELSE GatewayFails(now)
          /\ open' = open \cup {<<"gateway", n>> : n \in ToSet(now.stack)}
          /\ health' = CASE outcome = "ok" -> Mark({"catalog", "providers"}, "ready")
                         [] outcome = "broker" -> Mark({"catalog"}, "ready")
                         [] OTHER -> health
  /\ UNCHANGED <<shape, plan, app, engine, loader, consumers>>

GatewayConnected(ok) ==
  /\ gateway.pc = "connecting"
  /\ gateway' = IF ok THEN [gateway EXCEPT !.pc = "routing"] ELSE GatewayFails(gateway)
  /\ health' = IF ok THEN Mark({"temporal"}, "ready") ELSE health
  /\ UNCHANGED <<shape, plan, app, engine, loader, consumers, open>>

\* The route is registered: the consumers are started and their stop pushed.  Nothing
\* asks whether the gateway has been stopped while it waited.
GatewayRouted(answer) ==
  /\ gateway.pc = "routing"
  /\ CASE RouteFound(answer) ->
            /\ health' = Mark({"worker_registration"}, "ready")
            /\ consumers' = Started("gateway")
            /\ open' = open \cup {<<"gateway", e>> : e \in Endpoints}
            /\ gateway' = [gateway EXCEPT
                 !.stack = @ \o ConsumerNames, !.overtaken = gateway.stop,
                 !.pc = IF Endpoints = {} THEN "done" ELSE "consumers",
                 !.started = Endpoints = {}]
       [] RouteFails(gateway.attempt, answer) ->
            gateway' = GatewayFails(gateway) /\ UNCHANGED <<health, consumers, open>>
       [] OTHER ->
            gateway' = [gateway EXCEPT !.attempt = @ + 1] /\ UNCHANGED <<health, consumers, open>>
  /\ UNCHANGED <<shape, plan, app, engine, loader>>

\* Both consumers are ready and the control API is created; or a wait times out.
GatewayConsumersReady(ok) ==
  /\ gateway.pc = "consumers"
  /\ ok => ConsumersReady("gateway")
  /\ gateway' = IF ok THEN [gateway EXCEPT !.pc = "done", !.started = TRUE]
                ELSE GatewayFails(gateway)
  /\ UNCHANGED <<shape, plan, app, engine, loader, consumers, open, health>>

(***************************************************************************)
(* RuntimeGateway.stop.                                                     *)
(***************************************************************************)
GatewayRaised(g) == [g EXCEPT !.pc = IF g.holder = "start" THEN "failed" ELSE @]

\* The end of stop.  A cleanup that raised skips the health registry, and whatever
\* the caller would have done next.
GatewayStopEnds(g) ==
  /\ gateway' = GatewayRaised([g EXCEPT !.stop = "yes",
                                        !.started = IF g.failed THEN @ ELSE FALSE])
  /\ app' = IF g.holder # "app" THEN app
            ELSE IF g.failed THEN [app EXCEPT !.pc = "down", !.skipped = TRUE]
            ELSE [app EXCEPT !.pc = "stop_worker"]

\* The tasks are cancelled and awaited, then the stack is closed.
GatewayStopBegins(holder) ==
  /\ gateway.stop = "no"
  /\ gateway' = [gateway EXCEPT !.stop = "cancelling", !.holder = holder]

GatewayTasksCancelled ==
  LET next == PopNext([gateway EXCEPT !.stop = "closing"]) IN
  /\ gateway.stop = "cancelling"
  /\ consumers' = StoppedConsumers("gateway")
  /\ IF next.closing # Nothing
     THEN gateway' = next /\ health' = ConsumersDown("gateway") /\ UNCHANGED app
     ELSE GatewayStopEnds(next) /\ health' = Mark(HealthComponents, "unavailable")
  /\ UNCHANGED <<shape, plan, engine, loader, open>>

\* One callback of the stack ends; the stack runs the others also when one raises.
GatewayComponentClosed(ok) ==
  LET c == gateway.closing
      next == PopNext([gateway EXCEPT !.failed = @ \/ ~ok])
  IN
  /\ gateway.stop = "closing"
  /\ open' = open \ {<<"gateway", c>>}
  /\ consumers' = IF c \in Endpoints THEN [consumers EXCEPT !["gateway"][c] = "done"]
                  ELSE consumers
  /\ IF next.closing # Nothing
     THEN /\ gateway' = next /\ UNCHANGED app
          /\ health' = IF c \in Endpoints THEN Mark({ConsumerHealth(c)}, "unavailable")
                       ELSE health
     ELSE /\ GatewayStopEnds(next)
          /\ health' = IF next.failed THEN health
                       ELSE Mark(HealthComponents, "unavailable")
  /\ UNCHANGED <<shape, plan, engine, loader>>

\* The except of start: it stops the gateway, or waits for whoever does.
GatewayExcept ==
  /\ gateway.pc = "stopping"
  /\ \/ GatewayStopBegins("start")
     \/ gateway.stop = "yes" /\ gateway' = [gateway EXCEPT !.pc = "failed"]
  /\ UNCHANGED <<shape, plan, app, engine, loader, consumers, open, health>>

(***************************************************************************)
(* The ASGI applications and run_engine.                                    *)
(***************************************************************************)
\* lifespan.startup, or the call of run_engine.
Startup ==
  /\ app.pc = "new"
  /\ app' = [app EXCEPT !.pc = "starting"]
  /\ engine' = IF HasEngine THEN [engine EXCEPT !.pc = "scheduled"] ELSE engine
  /\ gateway' = IF HasGateway THEN [gateway EXCEPT !.pc = "scheduled"] ELSE gateway
  /\ UNCHANGED <<shape, plan, loader, consumers, open, health>>

\* Mutant: it waits for the event alone, without a bound.
WorkerVerdictEventOnly == IF engine.ready THEN {"ok"} ELSE {}

\* _wait_for_worker_ready: the worker's task has ended, its readiness event is set,
\* or the wait times out.
WorkerVerdict ==
  IF engine.pc = "done" THEN {"failed"}
  ELSE {"failed"} \cup (IF engine.ready THEN {"ok"} ELSE {})

WorkerWaitEnds ==
  /\ app.pc = "starting" /\ app.worker = "pending"
  /\ shape \in {"worker", "combined"} /\ engine.pc # "scheduled"
  /\ \E v \in WorkerVerdict : app' = [app EXCEPT !.worker = v]
  /\ UNCHANGED <<shape, plan, gateway, engine, loader, consumers, open, health>>

StartupSucceeded ==
  /\ HasGateway => gateway.pc = "done"
  /\ shape \in {"worker", "combined"} => app.worker = "ok"

\* gather raises with the first failure; the other coroutine is not cancelled.
StartupRaised == gateway.pc = "failed" \/ app.worker = "failed"

StartupEndsWell ==
  /\ app.pc = "starting" /\ shape # "engine" /\ StartupSucceeded
  /\ app' = [app EXCEPT !.pc = "up", !.started = TRUE]
  /\ UNCHANGED <<shape, plan, gateway, engine, loader, consumers, open, health>>

\* RuntimeAsgiApplication shuts down what it started; WorkerAsgiApplication leaves
\* it and only reports lifespan.startup.failed.
StartupFails ==
  /\ app.pc = "starting" /\ StartupRaised
  /\ app' = [app EXCEPT !.pc = IF shape = "worker" THEN "failed" ELSE "stop_gateway"]
  /\ UNCHANGED <<shape, plan, gateway, engine, loader, consumers, open, health>>

\* lifespan.shutdown.
Shutdown ==
  /\ app.pc = "up"
  /\ app' = [app EXCEPT !.pc = IF HasGateway THEN "stop_gateway" ELSE "stop_worker"]
  /\ UNCHANGED <<shape, plan, gateway, engine, loader, consumers, open, health>>

AppStopsGateway ==
  /\ app.pc = "stop_gateway"
  /\ \/ GatewayStopBegins("app") /\ UNCHANGED app
     \/ /\ gateway.stop = "yes" /\ gateway.holder # "app"
        /\ app' = [app EXCEPT !.pc = "stop_worker"] /\ UNCHANGED gateway
  /\ UNCHANGED <<shape, plan, engine, loader, consumers, open, health>>

\* worker.stop, then the cancellation of its task: EngineCloseNext has the case in
\* which the application itself is the one that stopped it.
AppStopsWorker ==
  /\ app.pc = "stop_worker"
  /\ \/ /\ HasEngine /\ EngineStopBegins("app") /\ UNCHANGED app
     \/ /\ HasEngine /\ engine.stop = "yes" /\ engine.holder # "app"
        /\ app' = [app EXCEPT !.pc = "reaping"] /\ UNCHANGED engine
     \/ /\ ~HasEngine
        /\ app' = [app EXCEPT !.pc = "down", !.started = FALSE] /\ UNCHANGED engine
  /\ UNCHANGED <<shape, plan, gateway, loader, consumers, open, health>>

AppReaps ==
  /\ app.pc = "reaping" /\ engine.pc = "done"
  /\ app' = [app EXCEPT !.pc = "down", !.started = FALSE]
  /\ UNCHANGED <<shape, plan, gateway, engine, loader, consumers, open, health>>

\* run_engine: an interrupt cancels start; when start returns the engine is stopped.
EngineInterrupted ==
  /\ shape = "engine" /\ ~engine.cancelled
  /\ engine.pc \in {"loading", "connecting", "ensuring", "routing", "consumers", "supervising"}
  /\ engine' = [engine EXCEPT !.cancelled = TRUE]
  /\ UNCHANGED <<shape, plan, app, gateway, loader, consumers, open, health>>

RunEngineEnds ==
  /\ shape = "engine" /\ app.pc = "starting" /\ engine.pc = "done"
  /\ app' = [app EXCEPT !.pc = "down"]
  /\ UNCHANGED <<shape, plan, gateway, engine, loader, consumers, open, health>>

Answers == {"registered", "pending", "error"}

EngineStep ==
  \/ \E o \in {"configuration", "definitions", "ok"}, checked \in BOOLEAN,
        order \in LoadOrders(plan) \cup {<<>>} : EngineBegin(o, order, checked)
  \/ \E ok, checked \in BOOLEAN : ResourceInitialized(ok, checked)
  \/ \E ok \in BOOLEAN : EngineConnected(ok) \/ EngineEnsured(ok) \/ EngineConsumersReady(ok)
  \/ \E a \in Answers : EngineRouted(a)
  \/ EngineSupervise \/ EngineCancelled \/ EngineFinally \/ EngineClosesResources
  \/ \E ok \in BOOLEAN : ResourceClosed(ok) \/ EngineComponentClosed(ok)

GatewayStep ==
  \/ \E o \in {"configuration", "broker", "ok"} : GatewayBegin(o)
  \/ \E ok \in BOOLEAN : GatewayConnected(ok) \/ GatewayConsumersReady(ok)
                         \/ GatewayComponentClosed(ok)
  \/ \E a \in Answers : GatewayRouted(a)
  \/ GatewayTasksCancelled \/ GatewayExcept

AppStep ==
  \/ Startup \/ WorkerWaitEnds \/ StartupEndsWell \/ StartupFails
  \/ AppStopsGateway \/ AppStopsWorker \/ AppReaps \/ RunEngineEnds

\* What the environment may do and need not.
HostEvent ==
  \/ Shutdown \/ EngineInterrupted
  \/ \E t \in WorkerTasks : WorkerTaskEnds(t)
  \/ \E o \in Owners, e \in Endpoints :
       ConsumerTaskEnds(o, e) \/ \E ok \in BOOLEAN : ConsumerPolls(o, e, ok)

HostNext == EngineStep \/ GatewayStep \/ AppStep \/ HostEvent

\* The loop runs whatever is ready, and everything awaited returns or fails: the
\* waits for a route and for readiness are bounded by the code, the others by the
\* client libraries.
HostFairness == WF_vars(EngineStep) /\ WF_vars(GatewayStep) /\ WF_vars(AppStep)

HostSpec == Init /\ [][HostNext]_vars /\ HostFairness

(***************************************************************************)
(* Properties.                                                              *)
(***************************************************************************)
Components == {"resources", "broker", "activities"} \cup WorkerTasks \cup Endpoints

TypeOK ==
  /\ app.pc \in {"new", "starting", "up", "stop_gateway", "stop_worker", "reaping", "down",
                 "failed"}
  /\ app.worker \in {"pending", "ok", "failed"}
  /\ gateway.pc \in {"new", "scheduled", "connecting", "routing", "consumers", "stopping",
                     "done", "failed"}
  /\ gateway.stop \in {"no", "cancelling", "closing", "yes"}
  /\ gateway.attempt \in 0..plan.attempts - 1 /\ engine.attempt \in 0..plan.attempts - 1
  /\ engine.pc \in {"new", "scheduled", "loading", "unwinding", "connecting", "ensuring",
                    "routing", "consumers", "supervising", "finally", "done"}
  /\ engine.stop \in {"no", "closing", "yes"}
  /\ engine.owned \subseteq Components /\ ToSet(engine.stack) \subseteq engine.owned
  /\ engine.closing \in engine.owned \cup {Nothing}
  /\ loader.next \in 0..Len(loader.order)
  /\ \A o \in Owners, e \in Endpoints :
       consumers[o][e] \in {"none", "starting", "ready", "lost", "done"}
  /\ health \in [HealthComponents -> {"ready", "unavailable"}]

\* However a start and a stop interleave, when the shutdown has run to its end
\* nothing the process opened is still open.  The exceptions are the ones the code
\* has: a cleanup that raised out of the gateway's or the engine's stop skips the
\* rest of the shutdown, and a gateway.start that gather left behind may start its
\* consumers after the gateway was closed.
ShutdownClosesEverything ==
  app.pc = "down" /\ ~app.skipped /\ gateway.overtaken # "yes" => open = {}

\* A resource is open only while what it depends on is: dependencies are built first
\* and closed last, on the way up, in the unwinding of a failed load and on the way
\* down.  (A stop that overtakes the load is the exception.)
DependenciesOutliveDependents ==
  ~loader.overlapped =>
    \A r \in ToSet(plan.names) : <<"loader", r>> \in open =>
      \A d \in ToSet(plan.needs[r]) : <<"loader", d.name>> \in open

\* A consumer takes messages only while the broker it reads from is open, so that no
\* message is received that cannot be acknowledged.
ConsumersHaveTheirBroker ==
  \A o \in Owners, e \in Endpoints :
    Polling(o, e) /\ ~(o = "gateway" /\ gateway.overtaken # "no") => <<o, "broker">> \in open

\* Once the engine has stopped, for whatever reason, the process never reports
\* ready again, although the gateway and its consumers keep writing to the registry
\* the two share.
StoppedEngineIsNotReady == engine.stop = "yes" => ~Ready

\* Startup ends: the application is up, or has taken down what it started.
StartupEnds ==
  app.pc = "starting" ~>
    (app.pc \in {"up", "down", "failed"} \/ (shape = "engine" /\ engine.ready))

\* When either worker task dies the process stops reporting ready, for good.
WorkerDeathIsSeen == engine.died ~> []~Ready

\* Whenever start-up failed or stop came, everything is closed, nothing before what needs it,
\* and a stopped process does not report ready.
ShutdownIsOrderly ==
  /\ TypeOK
  /\ ShutdownClosesEverything
  /\ DependenciesOutliveDependents
  /\ ConsumersHaveTheirBroker
  /\ StoppedEngineIsNotReady

\* Start-up ends, and a worker that dies is noticed for good.
HostProgresses ==
  /\ StartupEnds
  /\ WorkerDeathIsSeen
=============================================================================
