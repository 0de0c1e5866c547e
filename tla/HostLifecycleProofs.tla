------------------------- MODULE HostLifecycleProofs -------------------------
(***************************************************************************)
(* Proofs about HostLifecycle, for any shape of process, any plan of       *)
(* resources, any endpoints and stores, and any number of attempts.        *)
(*                                                                         *)
(* What is open is always what some owner still has to close (OpenIsHeld): *)
(* the exit stacks of the gateway, the engine and the loader, with what    *)
(* each is closing now.  An order of closing is then a fact about stacks:  *)
(* whatever is registered has what it needs registered below it (BelowIn). *)
(* The rest says who may be where when:                                    *)
(*   LoaderSound     the load, its unwinding, and the stop that may run    *)
(*                   beside them;                                          *)
(*   EngineSound     what the engine owns at each await of start, and who  *)
(*                   holds its stop;                                       *)
(*   GatewaySound    the same for the gateway, whose start may overtake    *)
(*                   the application's stop of it;                         *)
(*   AppSound        how far the application is, against both;             *)
(*   ConsumersSound  a consumer that polls is registered to be stopped;    *)
(*   HealthSound     what the end of a stop has marked unavailable.        *)
(* The invariant is HostInv; every action is shown to keep it, and         *)
(* ShutdownIsOrderly, which the runs check, follows from it.               *)
(***************************************************************************)
EXTENDS HostLifecycle, TLAPS

(***************************************************************************)
(* Types.                                                                  *)
(***************************************************************************)
Names == ToSet(plan.names)
GatewayNames == ToSet(OwnedStores) \cup {"broker"} \cup Endpoints
EnginePcs == {"new", "scheduled", "loading", "unwinding", "connecting", "ensuring", "routing",
              "consumers", "supervising", "finally", "done"}
GatewayPcs == {"new", "scheduled", "connecting", "routing", "consumers", "stopping", "done",
               "failed"}
Apps == [pc : {"new", "starting", "up", "stop_gateway", "stop_worker", "reaping", "down",
               "failed"},
         worker : {"pending", "ok", "failed"}, started : BOOLEAN, skipped : BOOLEAN]
Gateways ==
  [pc : GatewayPcs, attempt : Nat, stack : Seq(GatewayNames),
   closing : GatewayNames \cup {Nothing}, stop : {"no", "cancelling", "closing", "yes"},
   holder : {Nothing, "start", "app"}, failed : BOOLEAN, started : BOOLEAN,
   overtaken : {"no", "cancelling", "closing", "yes"}]
Engines ==
  [pc : EnginePcs, attempt : Nat, stack : Seq(Components), owned : SUBSET Components,
   closing : Components \cup {Nothing}, stop : {"no", "closing", "yes"},
   holder : {Nothing, "start", "app"}, failed : BOOLEAN, ready : BOOLEAN,
   running : SUBSET WorkerTasks, died : BOOLEAN, cancelled : BOOLEAN]
Loaders(names) ==
  [order : Seq(names), next : Nat, stack : Seq(names), closing : names \cup {Nothing},
   loaded : SUBSET names, closed : BOOLEAN, overlapped : BOOLEAN]
ConsumerStates == {"none", "starting", "ready", "lost", "done"}

HostTypes ==
  /\ \E h \in Hosts : shape = h.shape /\ plan = h.plan
  /\ app \in Apps /\ gateway \in Gateways /\ engine \in Engines /\ loader \in Loaders(Names)
  /\ consumers \in [Owners -> [Endpoints -> ConsumerStates]]
  /\ health \in [HealthComponents -> {"ready", "unavailable"}]

(***************************************************************************)
(* Exit stacks, as what is registered and what is being closed.            *)
(***************************************************************************)
\* What an owner has to close.
HeldIn(stack, closing) == ToSet(stack) \cup ({closing} \ {Nothing})

\* No cleanup is registered twice.
OnceIn(stack, closing) == IsInjective(stack) /\ closing \notin ToSet(stack)

\* Whatever is registered has what it needs registered below it.
BelowIn(stack, closing, needs) ==
  \A a, b : <<a, b>> \in needs =>
    /\ \A i \in DOMAIN stack : stack[i] = a => \E j \in 1..i - 1 : stack[j] = b
    /\ closing = a => b \in ToSet(stack)

Held(s) == HeldIn(s.stack, s.closing)
Once(s) == OnceIn(s.stack, s.closing)
Below(s, needs) == BelowIn(s.stack, s.closing, needs)

ConsumerNeeds == Endpoints \X {"broker"}
ResourceNeeds == UNION {{<<r, d.name>> : d \in ToSet(plan.needs[r])} : r \in Names}

\* What is open is what somebody still has to close.
OpenOf(g, e, l) ==
  {<<"gateway", n>> : n \in Held(g)} \cup {<<"engine", n>> : n \in Held(e) \ {"resources"}}
    \cup {<<"loader", n>> : n \in Held(l)}

OpenIsHeld == open = OpenOf(gateway, engine, loader)

(***************************************************************************)
(* The loader.                                                             *)
(***************************************************************************)
Taken(l) == {l.order[i] : i \in 1..l.next}

LoaderCore(l, needs) ==
  /\ IsInjective(l.order) /\ l.next <= Len(l.order)
  /\ Once(l) /\ Held(l) \subseteq Taken(l) /\ l.loaded \subseteq Taken(l)
  /\ ~l.closed => l.closing = Nothing /\ ToSet(l.stack) = Taken(l) /\ ~l.overlapped
  /\ ~l.overlapped => Below(l, needs)

\* What the loader and the engine know of each other.
LoaderTies(l, e, skipped) ==
  /\ e.pc \in {"new", "scheduled"} => l.order = <<>> /\ ~l.closed
  /\ e.pc = "loading" => l.next >= 1
  /\ e.pc = "unwinding" => l.closed /\ l.closing # Nothing
  /\ l.closing # Nothing /\ e.pc # "unwinding" => e.stop = "closing" /\ e.closing = "resources"
  /\ "resources" \notin Held(e) /\ e.pc # "unwinding" /\ ~skipped => l.closed /\ Held(l) = {}
  /\ l.closed /\ l.closing = Nothing /\ l.stack # <<>> => skipped
  /\ e.pc = "loading" /\ l.closed /\ l.closing = Nothing => e.stop = "yes"

LoaderSound == LoaderCore(loader, ResourceNeeds) /\ LoaderTies(loader, engine, app.skipped)

(***************************************************************************)
(* The engine.                                                             *)
(***************************************************************************)
Connected == {"resources", "broker", "activities"}
OwnedAt(e) ==
  CASE e.pc \in {"new", "scheduled", "loading", "unwinding"} -> {"resources"}
    [] e.pc = "connecting" -> Connected
    [] e.pc \in {"ensuring", "routing"} -> Connected \cup WorkerTasks
    [] OTHER -> e.owned \cup {"resources"}

EngineStack(e) ==
  /\ Held(e) \subseteq e.owned /\ Once(e) /\ Below(e, ConsumerNeeds)
  /\ e.stop = "no" => e.closing = Nothing /\ ToSet(e.stack) = e.owned

EngineCore(e) ==
  /\ EngineStack(e) /\ e.owned = OwnedAt(e)
  /\ e.stop = "no" => e.holder = Nothing
  /\ e.stop = "closing" => e.closing # Nothing
  /\ e.stop = "yes" => e.closing = Nothing
  /\ e.stop # "no" => e.holder # Nothing
  /\ e.holder = "start" => e.pc \in {"finally", "done"}
  /\ e.pc = "done" => e.stop = "yes"
  /\ e.pc \in {"new", "scheduled"} => e.stop = "no"

\* What the engine, the application and the gateway know of each other.
EngineTies(e, a, stop) ==
  /\ e.stop = "yes" /\ ~a.skipped => e.stack = <<>>
  /\ e.stop = "yes" /\ e.pc \notin {"finally", "done"} => e.cancelled \/ a.skipped
  /\ e.pc = "new" => a.pc = "new" \/ ~HasEngine
  /\ e.holder = "app" => /\ a.pc \in {"stop_worker", "reaping", "down"} /\ shape # "engine"
                         /\ HasGateway => stop = "yes"
  /\ e.stop = "closing" /\ e.holder = "app" => a.pc = "stop_worker" /\ ~a.skipped
  /\ ~HasEngine => e.pc = "new"

EngineSound ==
  EngineCore(engine) /\ EngineTies(engine, app, gateway.stop) /\ engine.attempt < plan.attempts

(***************************************************************************)
(* The gateway.                                                            *)
(***************************************************************************)
GatewayCore(g) ==
  /\ Once(g) /\ (g.overtaken = "no" => Below(g, ConsumerNeeds))
  /\ g.stop \in {"no", "cancelling"} => g.closing = Nothing
  /\ g.stop = "closing" => g.closing # Nothing
  /\ g.stop = "yes" => g.closing = Nothing /\ (g.overtaken # "yes" => g.stack = <<>>)
  /\ g.pc \in {"new", "scheduled"} => g.stack = <<>> /\ g.closing = Nothing
  /\ g.pc \in {"new", "scheduled", "connecting", "routing"} =>
       g.overtaken = "no" /\ Held(g) \cap Endpoints = {}
  /\ g.pc \in {"connecting", "routing"} /\ g.stop = "no" => "broker" \in ToSet(g.stack)
  /\ g.stop # "no" => g.holder # Nothing
  /\ g.holder = "start" => g.pc \notin {"new", "scheduled"}

GatewayTies(g, a) ==
  /\ g.stop \in {"cancelling", "closing"} /\ g.holder = "app" => a.pc = "stop_gateway" /\ ~a.skipped
  /\ g.stop # "no" => HasGateway
  /\ g.pc = "new" => a.pc = "new" \/ ~HasGateway
  /\ ~HasGateway => g.pc = "new"

GatewaySound ==
  GatewayCore(gateway) /\ GatewayTies(gateway, app) /\ gateway.attempt < plan.attempts

(***************************************************************************)
(* The application.                                                        *)
(***************************************************************************)
AppTies(a, g, e) ==
  /\ HasGateway /\ (a.pc \in {"stop_worker", "reaping"} \/ (a.pc = "down" /\ ~a.skipped)) =>
       g.stop = "yes"
  /\ a.pc = "new" => e.pc = "new" /\ g.pc = "new"
  /\ a.pc = "reaping" => HasEngine
  /\ HasEngine /\ a.pc = "down" /\ ~a.skipped => e.pc = "done"
  /\ a.skipped => a.pc = "down"
  /\ HasEngine /\ e.pc \in {"new", "scheduled"} =>
       a.pc \in {"new", "starting"} /\ g.pc \in {"new", "scheduled"} /\ a.worker = "pending"
  /\ a.pc = "stop_gateway" => HasGateway
  /\ shape \in {"gateway", "engine"} => a.worker = "pending"
  /\ shape = "engine" => a.pc \in {"new", "starting", "down"}

AppSound == AppTies(app, gateway, engine)

(***************************************************************************)
(* Consumers and health.                                                   *)
(***************************************************************************)
ConsumersIn(c, g, e) ==
  \A n \in Endpoints :
    /\ c["engine"][n] \in {"starting", "ready", "lost"} => n \in Held(e)
    /\ c["gateway"][n] \in {"starting", "ready", "lost"} /\ g.overtaken = "no" => n \in Held(g)

ConsumersSound == ConsumersIn(consumers, gateway, engine)

HealthIn(h, e) ==
  e.stop = "yes" =>
    IF e.holder = "app" THEN h["catalog"] = "unavailable" ELSE h["worker"] = "unavailable"

HealthSound == HealthIn(health, engine)

HostInv ==
  /\ HostTypes /\ OpenIsHeld /\ LoaderSound /\ EngineSound /\ GatewaySound /\ AppSound
  /\ ConsumersSound /\ HealthSound

(***************************************************************************)
(* Facts about stacks.                                                     *)
(***************************************************************************)

\* A stack that registers nothing is empty.
LEMMA EmptyStack ==
  ASSUME NEW S, NEW s \in Seq(S), ToSet(s) = {}
  PROVE  s = <<>>
<1>1. Len(s) \in Nat /\ DOMAIN s = 1..Len(s)
  OBVIOUS
<1>2. Len(s) # 0 => s[1] \in ToSet(s)
  BY <1>1 DEF ToSet
<1>3. QED
  BY <1>1, <1>2

\* What popping leaves.
LEMMA PopFacts ==
  ASSUME NEW S, NEW s \in Seq(S), s # <<>>, IsInjective(s)
  PROVE  /\ Front(s) \in Seq(S) /\ Last(s) \in S /\ IsInjective(Front(s))
         /\ Last(s) \notin ToSet(Front(s)) /\ ToSet(s) = ToSet(Front(s)) \cup {Last(s)}
<1>1. /\ Len(s) \in Nat /\ Len(s) >= 1 /\ DOMAIN s = 1..Len(s) /\ \A i \in 1..Len(s) : s[i] \in S
  OBVIOUS
<1>2. /\ Front(s) \in Seq(S) /\ DOMAIN Front(s) = 1..Len(s) - 1
      /\ \A i \in 1..Len(s) - 1 : Front(s)[i] = s[i]
  BY <1>1 DEF Front
<1>3. \A i, j \in 1..Len(s) : s[i] = s[j] => i = j
  BY <1>1 DEF IsInjective
<1>4. Last(s) = s[Len(s)]
  BY DEF Last
<1>5. ToSet(s) = {s[i] : i \in 1..Len(s)} /\ ToSet(Front(s)) = {s[i] : i \in 1..Len(s) - 1}
  BY <1>1, <1>2 DEF ToSet
<1>6. 1..Len(s) = (1..Len(s) - 1) \cup {Len(s)}
  BY <1>1
<1>7. QED
  BY <1>1, <1>2, <1>3, <1>4, <1>5, <1>6 DEF IsInjective

\* What is registered is registered on top.
LEMMA PushFacts ==
  ASSUME NEW S, NEW s \in Seq(S), NEW x \in S, IsInjective(s), x \notin ToSet(s)
  PROVE  /\ Append(s, x) \in Seq(S) /\ IsInjective(Append(s, x))
         /\ ToSet(Append(s, x)) = ToSet(s) \cup {x} /\ Append(s, x) # <<>>
<1>1. /\ Len(s) \in Nat /\ DOMAIN s = 1..Len(s) /\ Append(s, x) \in Seq(S)
      /\ DOMAIN Append(s, x) = 1..Len(s) + 1 /\ Append(s, x)[Len(s) + 1] = x
      /\ \A i \in 1..Len(s) : Append(s, x)[i] = s[i]
  OBVIOUS
<1>2. 1..Len(s) + 1 = (1..Len(s)) \cup {Len(s) + 1}
  BY <1>1
<1>3. \A i \in 1..Len(s) : s[i] # x
  BY <1>1 DEF ToSet
<1>4. \A i, j \in 1..Len(s) : s[i] = s[j] => i = j
  BY <1>1 DEF IsInjective
<1>5. IsInjective(Append(s, x))
  BY <1>1, <1>2, <1>3, <1>4 DEF IsInjective
<1>6. ToSet(Append(s, x)) = ToSet(s) \cup {x}
  BY <1>1, <1>2 DEF ToSet
<1>7. QED
  BY <1>1, <1>5, <1>6

\* When the top is taken off to be closed, what was being closed is no longer held, and
\* everything keeps what it needs below it.
LEMMA PopKeeps ==
  ASSUME NEW S, NEW s \in Seq(S), NEW c \in S \cup {Nothing}, NEW needs, Nothing \notin S,
         s # <<>>, OnceIn(s, c)
  PROVE  /\ HeldIn(Front(s), Last(s)) = HeldIn(s, c) \ {c} /\ OnceIn(Front(s), Last(s))
         /\ BelowIn(s, c, needs) => BelowIn(Front(s), Last(s), needs)
<1>1. IsInjective(s) /\ c \notin ToSet(s)
  BY DEF OnceIn
<1>2. /\ Front(s) \in Seq(S) /\ Last(s) \in S /\ IsInjective(Front(s))
      /\ Last(s) \notin ToSet(Front(s)) /\ ToSet(s) = ToSet(Front(s)) \cup {Last(s)}
  BY <1>1, PopFacts
<1>3. HeldIn(Front(s), Last(s)) = HeldIn(s, c) \ {c}
  BY <1>1, <1>2 DEF HeldIn
<1>4. ASSUME BelowIn(s, c, needs), NEW a, NEW b, <<a, b>> \in needs
      PROVE  /\ \A i \in DOMAIN Front(s) : Front(s)[i] = a => \E j \in 1..i - 1 : Front(s)[j] = b
             /\ Last(s) = a => b \in ToSet(Front(s))
  <2>1. \A i \in DOMAIN s : s[i] = a => \E j \in 1..i - 1 : s[j] = b
    BY <1>4 DEF BelowIn
  <2>2. Len(s) \in Nat /\ Len(s) >= 1 /\ DOMAIN s = 1..Len(s)
    OBVIOUS
  <2>3. DOMAIN Front(s) = 1..Len(s) - 1 /\ \A i \in 1..Len(s) - 1 : Front(s)[i] = s[i]
    BY <2>2 DEF Front
  <2>4. \A i \in DOMAIN Front(s) : Front(s)[i] = a => \E j \in 1..i - 1 : Front(s)[j] = b
    <3>1. TAKE i \in DOMAIN Front(s)
    <3>2. i \in 1..Len(s) - 1 /\ i \in DOMAIN s /\ Front(s)[i] = s[i]
      BY <2>2, <2>3
    <3>3. HAVE Front(s)[i] = a
    <3>4. PICK j \in 1..i - 1 : s[j] = b
      BY <2>1, <3>2, <3>3
    <3>5. j \in 1..Len(s) - 1 /\ Front(s)[j] = b
      BY <2>2, <2>3, <3>2, <3>4
    <3>6. QED
      BY <3>5
  <2>5. Last(s) = a => b \in ToSet(Front(s))
    <3>1. HAVE Last(s) = a
    <3>2. Len(s) \in DOMAIN s /\ s[Len(s)] = a
      BY <2>2, <3>1 DEF Last
    <3>3. PICK j \in 1..Len(s) - 1 : s[j] = b
      BY <2>1, <3>2
    <3>4. QED
      BY <2>3, <3>3 DEF ToSet
  <2>6. QED
    BY <2>4, <2>5
<1>5. QED
  BY <1>2, <1>3, <1>4 DEF OnceIn, BelowIn

\* What is registered is held once.
LEMMA PushHeld ==
  ASSUME NEW S, NEW s \in Seq(S), NEW c \in S \cup {Nothing}, NEW x \in S,
         x # Nothing, x \notin ToSet(s), x # c, OnceIn(s, c)
  PROVE  HeldIn(Append(s, x), c) = HeldIn(s, c) \cup {x} /\ OnceIn(Append(s, x), c)
<1>1. /\ IsInjective(s) /\ c \notin ToSet(s)
      /\ IsInjective(Append(s, x)) /\ ToSet(Append(s, x)) = ToSet(s) \cup {x}
  BY PushFacts DEF OnceIn
<1>2. QED
  BY <1>1 DEF HeldIn, OnceIn

\* What is registered with what it needs already registered keeps the order.
LEMMA PushKeeps ==
  ASSUME NEW S, NEW s \in Seq(S), NEW c \in S \cup {Nothing}, NEW x \in S, NEW needs,
         x \notin ToSet(s), OnceIn(s, c),
         BelowIn(s, c, needs), \A b : <<x, b>> \in needs => b \in ToSet(s)
  PROVE  BelowIn(Append(s, x), c, needs)
<1>1. /\ IsInjective(s) /\ c \notin ToSet(s)
      /\ IsInjective(Append(s, x)) /\ ToSet(Append(s, x)) = ToSet(s) \cup {x}
  BY PushFacts DEF OnceIn
<1>2. ASSUME NEW a, NEW b, <<a, b>> \in needs
      PROVE  /\ \A i \in DOMAIN Append(s, x) :
                  Append(s, x)[i] = a => \E j \in 1..i - 1 : Append(s, x)[j] = b
             /\ c = a => b \in ToSet(Append(s, x))
  <2>1. /\ \A i \in DOMAIN s : s[i] = a => \E j \in 1..i - 1 : s[j] = b
        /\ c = a => b \in ToSet(s)
    BY <1>2 DEF BelowIn
  <2>2. /\ Len(s) \in Nat /\ DOMAIN s = 1..Len(s)
        /\ DOMAIN Append(s, x) = 1..Len(s) + 1 /\ Append(s, x)[Len(s) + 1] = x
        /\ \A i \in 1..Len(s) : Append(s, x)[i] = s[i]
    OBVIOUS
  <2>3. ASSUME NEW i \in DOMAIN Append(s, x), Append(s, x)[i] = a
        PROVE  \E j \in 1..i - 1 : Append(s, x)[j] = b
    <3>1. CASE i \in 1..Len(s)
      <4>1. PICK j \in 1..i - 1 : s[j] = b
        BY <2>1, <2>2, <2>3, <3>1
      <4>2. j \in 1..Len(s)
        BY <2>2, <3>1, <4>1
      <4>3. QED
        BY <2>2, <4>1, <4>2
    <3>2. CASE i = Len(s) + 1
      <4>1. b \in ToSet(s)
        BY <1>2, <2>2, <2>3, <3>2
      <4>2. PICK j \in 1..Len(s) : s[j] = b
        BY <2>2, <4>1 DEF ToSet
      <4>3. j \in 1..i - 1 /\ Append(s, x)[j] = b
        BY <2>2, <3>2, <4>2
      <4>4. QED
        BY <4>3
    <3>3. QED
      BY <2>2, <2>3, <3>1, <3>2
  <2>4. QED
    BY <1>1, <2>1, <2>3
<1>3. QED
  BY <1>2 DEF BelowIn

\* When what is being closed is closed and nothing is left, nothing is held.
LEMMA EmptyKeeps ==
  ASSUME NEW c, NEW needs
  PROVE  /\ HeldIn(<<>>, Nothing) = {} /\ OnceIn(<<>>, Nothing)
         /\ HeldIn(<<>>, c) \ {c} = {}
         /\ (\A a, b : <<a, b>> \in needs => a # Nothing) => BelowIn(<<>>, Nothing, needs)
<1>1. ToSet(<<>>) = {} /\ DOMAIN <<>> = {}
  BY DEF ToSet
<1>2. QED
  BY <1>1 DEF HeldIn, OnceIn, BelowIn, IsInjective

(***************************************************************************)
(* What the operators do to the loader.                                    *)
(***************************************************************************)
\* A resource that is built is registered on top of what it needs, unless the load goes
\* on in a loader that has been closed.
LEMMA LoaderPush ==
  ASSUME NEW N, Nothing \notin N, NEW l \in Loaders(N), NEW R, LoaderCore(l, R),
         l.next < Len(l.order), \A b : <<l.order[l.next + 1], b>> \in R => b \in l.loaded
  PROVE  LET m == [l EXCEPT !.next = @ + 1, !.stack = Append(@, l.order[l.next + 1]),
                            !.overlapped = @ \/ l.closed]
         IN
         /\ m \in Loaders(N) /\ LoaderCore(m, R) /\ Held(m) = Held(l) \cup {l.order[l.next + 1]}
         /\ m.next >= 1 /\ m.closed = l.closed /\ m.closing = l.closing /\ m.stack # <<>>
         /\ l.order[l.next + 1] \notin Held(l)
<1> DEFINE r == l.order[l.next + 1]
           m == [l EXCEPT !.next = @ + 1, !.stack = Append(@, l.order[l.next + 1]),
                          !.overlapped = @ \/ l.closed]
<1>1. /\ l.order \in Seq(N) /\ l.next \in Nat /\ l.stack \in Seq(N) /\ l.closing \in N \cup {Nothing}
      /\ l.loaded \subseteq N /\ l.closed \in BOOLEAN /\ l.overlapped \in BOOLEAN
      /\ Len(l.order) \in Nat /\ DOMAIN l.order = 1..Len(l.order)
  BY DEF Loaders
<1>2. r \in N /\ r # Nothing
  BY <1>1
<1>3. /\ m.order = l.order /\ m.next = l.next + 1 /\ m.stack = Append(l.stack, r)
      /\ m.closing = l.closing /\ m.loaded = l.loaded /\ m.closed = l.closed
      /\ m.overlapped = (l.overlapped \/ l.closed)
  BY DEF Loaders
<1>4. m \in Loaders(N)
  <2>1. Append(l.stack, r) \in Seq(N)
    BY <1>1, <1>2
  <2>2. (l.overlapped \/ l.closed) \in BOOLEAN /\ l.next + 1 \in Nat
    BY <1>1
  <2>3. QED
    BY <1>1, <2>1, <2>2 DEF Loaders
<1>5. r \notin Taken(l) /\ Taken(m) = Taken(l) \cup {r}
  <2>1. \A i, j \in 1..Len(l.order) : l.order[i] = l.order[j] => i = j
    BY <1>1 DEF LoaderCore, IsInjective
  <2>2. \A i \in 1..l.next : i \in 1..Len(l.order) /\ i # l.next + 1
    BY <1>1
  <2>3. l.next + 1 \in 1..Len(l.order)
    BY <1>1
  <2>4. 1..l.next + 1 = (1..l.next) \cup {l.next + 1}
    BY <1>1
  <2>5. QED
    BY <1>3, <2>1, <2>2, <2>3, <2>4 DEF Taken
<1>6. r \notin Held(l) /\ Once(l)
  BY <1>5 DEF LoaderCore
<1>7. r \notin ToSet(l.stack) /\ r # l.closing
  BY <1>2, <1>6 DEF Held, HeldIn
<1>8. Held(m) = Held(l) \cup {r} /\ Once(m)
  <2>1. OnceIn(l.stack, l.closing)
    BY <1>6 DEF Once
  <2>2. /\ HeldIn(Append(l.stack, r), l.closing) = HeldIn(l.stack, l.closing) \cup {r}
        /\ OnceIn(Append(l.stack, r), l.closing)
    BY <1>1, <1>2, <1>7, <2>1, PushHeld
  <2>3. QED
    BY <1>3, <2>2 DEF Held, Once
<1>9. ~m.closed => m.closing = Nothing /\ ToSet(m.stack) = Taken(m) /\ ~m.overlapped
  <2>1. HAVE ~m.closed
  <2>2. l.closing = Nothing /\ ToSet(l.stack) = Taken(l) /\ ~l.overlapped
    BY <1>3, <2>1 DEF LoaderCore
  <2>3. ToSet(Append(l.stack, r)) = ToSet(l.stack) \cup {r}
    BY <1>1, <1>2, <1>6, <1>7, PushFacts DEF Once, OnceIn
  <2>4. QED
    BY <1>1, <1>3, <1>5, <2>1, <2>2, <2>3
<1>10. ~m.overlapped => Below(m, R)
  <2>1. HAVE ~m.overlapped
  <2>2. ~l.overlapped /\ ~l.closed /\ BelowIn(l.stack, l.closing, R) /\ OnceIn(l.stack, l.closing)
    BY <1>1, <1>3, <1>6, <2>1 DEF LoaderCore, Below, Once
  <2>3. l.loaded \subseteq ToSet(l.stack)
    BY <2>2 DEF LoaderCore
  <2>4. \A b : <<r, b>> \in R => b \in ToSet(l.stack)
    BY <2>3
  <2>5. BelowIn(Append(l.stack, r), l.closing, R)
    BY <1>1, <1>2, <1>7, <2>2, <2>4, PushKeeps
  <2>6. QED
    BY <1>3, <2>5 DEF Below
<1>11. IsInjective(m.order) /\ m.next <= Len(m.order)
  BY <1>1, <1>3 DEF LoaderCore
<1>12. Held(m) \subseteq Taken(m) /\ m.loaded \subseteq Taken(m)
  BY <1>3, <1>5, <1>8 DEF LoaderCore
<1>13. m.stack # <<>> /\ m.next >= 1
  BY <1>1, <1>2, <1>3, <1>6, <1>7, PushFacts DEF Once, OnceIn
<1>14. LoaderCore(m, R)
  BY <1>8, <1>9, <1>10, <1>11, <1>12 DEF LoaderCore
<1>15. QED
  BY <1>3, <1>4, <1>6, <1>8, <1>13, <1>14

\* The next resource is taken off to be closed, or the loader is through.
LEMMA LoaderPop ==
  ASSUME NEW N, Nothing \notin N, NEW l \in Loaders(N), NEW R, LoaderCore(l, R), l.closed,
         \A a, b : <<a, b>> \in R => a # Nothing
  PROVE  /\ PopNext(l) \in Loaders(N) /\ LoaderCore(PopNext(l), R) /\ PopNext(l).closed
         /\ Held(PopNext(l)) = Held(l) \ {l.closing}
         /\ PopNext(l).order = l.order /\ PopNext(l).next = l.next
         /\ PopNext(l).loaded = l.loaded /\ PopNext(l).overlapped = l.overlapped
         /\ (PopNext(l).closing = Nothing <=> l.stack = <<>>)
         /\ l.stack = <<>> => PopNext(l).stack = <<>>
<1>1. /\ l.order \in Seq(N) /\ l.next \in Nat /\ l.stack \in Seq(N) /\ l.closing \in N \cup {Nothing}
      /\ l.loaded \subseteq N /\ l.closed \in BOOLEAN /\ l.overlapped \in BOOLEAN
  BY DEF Loaders
<1>2. OnceIn(l.stack, l.closing) /\ Held(l) \subseteq Taken(l)
  BY DEF LoaderCore, Once
<1>3. CASE l.stack = <<>>
  <2> DEFINE m == [l EXCEPT !.closing = Nothing]
  <2>1. PopNext(l) = m
    BY <1>3 DEF PopNext
  <2>2. /\ m \in Loaders(N) /\ m.order = l.order /\ m.next = l.next /\ m.stack = <<>>
        /\ m.closing = Nothing /\ m.loaded = l.loaded /\ m.closed = l.closed
        /\ m.overlapped = l.overlapped
    BY <1>3 DEF Loaders
  <2>3. /\ HeldIn(<<>>, Nothing) = {} /\ OnceIn(<<>>, Nothing) /\ BelowIn(<<>>, Nothing, R)
        /\ HeldIn(<<>>, l.closing) \ {l.closing} = {}
    BY EmptyKeeps
  <2>4. Held(m) = {} /\ Once(m) /\ Below(m, R) /\ Held(l) \ {l.closing} = {}
    BY <1>3, <2>2, <2>3 DEF Held, Once, Below
  <2>5. Taken(m) = Taken(l)
    BY <2>2 DEF Taken
  <2>6. LoaderCore(m, R)
    BY <2>2, <2>4, <2>5 DEF LoaderCore
  <2>7. QED
    BY <1>3, <2>1, <2>2, <2>4, <2>6
<1>4. CASE l.stack # <<>>
  <2> DEFINE m == [l EXCEPT !.closing = Last(l.stack), !.stack = Front(l.stack)]
  <2>1. PopNext(l) = m
    BY <1>4 DEF PopNext
  <2>2. Front(l.stack) \in Seq(N) /\ Last(l.stack) \in N
    BY <1>1, <1>2, <1>4, PopFacts DEF OnceIn
  <2>3. /\ m \in Loaders(N) /\ m.order = l.order /\ m.next = l.next /\ m.stack = Front(l.stack)
        /\ m.closing = Last(l.stack) /\ m.loaded = l.loaded /\ m.closed = l.closed
        /\ m.overlapped = l.overlapped
    BY <2>2 DEF Loaders
  <2>4. /\ HeldIn(Front(l.stack), Last(l.stack)) = HeldIn(l.stack, l.closing) \ {l.closing}
        /\ OnceIn(Front(l.stack), Last(l.stack))
        /\ BelowIn(l.stack, l.closing, R) => BelowIn(Front(l.stack), Last(l.stack), R)
    BY <1>1, <1>2, <1>4, PopKeeps
  <2>5. /\ Held(m) = Held(l) \ {l.closing} /\ Once(m) /\ (Below(l, R) => Below(m, R))
    BY <2>3, <2>4 DEF Held, Once, Below
  <2>6. Taken(m) = Taken(l)
    BY <2>3 DEF Taken
  <2>7. LoaderCore(m, R)
    BY <2>3, <2>5, <2>6 DEF LoaderCore
  <2>8. QED
    BY <1>4, <2>1, <2>2, <2>3, <2>5, <2>7
<1>5. QED
  BY <1>3, <1>4

\* Closing the loader keeps everything it holds; the first to do so begins with the top.
LEMMA LoaderUnwound ==
  ASSUME NEW N, Nothing \notin N, NEW l \in Loaders(N), NEW R, LoaderCore(l, R),
         \A a, b : <<a, b>> \in R => a # Nothing
  PROVE  /\ Unwound(l) \in Loaders(N) /\ LoaderCore(Unwound(l), R) /\ Unwound(l).closed
         /\ Held(Unwound(l)) = Held(l) /\ (l.closed => Unwound(l) = l)
         /\ Unwound(l).order = l.order /\ Unwound(l).next = l.next
         /\ ~l.closed => (Unwound(l).closing = Nothing <=> l.stack = <<>>)
         /\ ~l.closed /\ l.stack = <<>> => Unwound(l).stack = <<>>
<1>1. CASE l.closed
  BY <1>1 DEF Unwound
<1>2. CASE ~l.closed
  <2> DEFINE m == [l EXCEPT !.closed = TRUE]
  <2>1. Unwound(l) = PopNext(m)
    BY <1>2 DEF Unwound
  <2>2. /\ m \in Loaders(N) /\ m.order = l.order /\ m.next = l.next /\ m.stack = l.stack
        /\ m.closing = l.closing /\ m.loaded = l.loaded /\ m.closed
        /\ m.overlapped = l.overlapped
    BY DEF Loaders
  <2>3. Held(m) = Held(l) /\ Once(m) = Once(l) /\ Below(m, R) = Below(l, R) /\ Taken(m) = Taken(l)
    BY <2>2 DEF Held, Once, Below, Taken
  <2>4. LoaderCore(m, R)
    BY <2>2, <2>3 DEF LoaderCore
  <2> HIDE DEF m
  <2>5. /\ PopNext(m) \in Loaders(N) /\ LoaderCore(PopNext(m), R) /\ PopNext(m).closed
        /\ Held(PopNext(m)) = Held(m) \ {m.closing}
        /\ PopNext(m).order = m.order /\ PopNext(m).next = m.next
        /\ (PopNext(m).closing = Nothing <=> m.stack = <<>>)
        /\ m.stack = <<>> => PopNext(m).stack = <<>>
    BY <2>2, <2>4, LoaderPop
  <2>6. l.closing = Nothing
    BY <1>2 DEF LoaderCore
  <2>7. Nothing \notin Held(l)
    <3>1. l.stack \in Seq(N)
      BY DEF Loaders
    <3>2. ToSet(l.stack) \subseteq N
      BY <3>1 DEF ToSet
    <3>3. QED
      BY <3>2 DEF Held, HeldIn
  <2>8. QED
    BY <1>2, <2>1, <2>2, <2>3, <2>5, <2>6, <2>7
<1>3. QED
  BY <1>1, <1>2 DEF Loaders

(***************************************************************************)
(* What the operators do to the engine and to the gateway.                 *)
(***************************************************************************)
\* The names the host gives its components are not the sentinel.
LEMMA NamesAreNames ==
  /\ Nothing \notin Components /\ Nothing \notin GatewayNames
  /\ Endpoints \subseteq Components /\ Endpoints \subseteq GatewayNames
  /\ "broker" \in Components /\ "broker" \in GatewayNames /\ "broker" \notin Endpoints
  /\ "resources" \notin Endpoints /\ WorkerTasks \cap Endpoints = {}
BY HostAssumption DEF Components, GatewayNames, Nothing, WorkerTasks

\* What is needed by a consumer, and by nothing else, is its broker.
LEMMA NeedsOfConsumers ==
  /\ \A a, b : <<a, b>> \in ConsumerNeeds <=> a \in Endpoints /\ b = "broker"
  /\ \A a, b : <<a, b>> \in ConsumerNeeds => a # Nothing
BY NamesAreNames DEF ConsumerNeeds

\* Two states of the engine that differ in what is registered only.
SameEngine(d, e) ==
  /\ d.pc = e.pc /\ d.attempt = e.attempt /\ d.closing = e.closing /\ d.stop = e.stop
  /\ d.holder = e.holder /\ d.failed = e.failed /\ d.ready = e.ready /\ d.running = e.running
  /\ d.died = e.died /\ d.cancelled = e.cancelled

\* A component that is created is registered; a consumer, on top of its broker.
LEMMA EngineOwn ==
  ASSUME NEW e \in Engines, EngineStack(e), NEW n \in Components, n \notin e.owned,
         n \in Endpoints => "broker" \in ToSet(e.stack)
  PROVE  /\ Own(e, n) \in Engines /\ EngineStack(Own(e, n)) /\ SameEngine(Own(e, n), e)
         /\ Own(e, n).owned = e.owned \cup {n} /\ Held(Own(e, n)) = Held(e) \cup {n}
         /\ ToSet(Own(e, n).stack) = ToSet(e.stack) \cup {n} /\ Own(e, n).stack # <<>>
<1> DEFINE d == [e EXCEPT !.stack = Append(@, n), !.owned = @ \cup {n}]
<1>1. Own(e, n) = d
  BY DEF Own
<1>2. /\ e.stack \in Seq(Components) /\ e.closing \in Components \cup {Nothing}
      /\ e.owned \subseteq Components
  BY DEF Engines
<1>3. OnceIn(e.stack, e.closing) /\ BelowIn(e.stack, e.closing, ConsumerNeeds)
  BY DEF EngineStack, Once, Below
<1>4. n \notin Held(e) /\ n # Nothing
  BY NamesAreNames DEF EngineStack
<1>5. n \notin ToSet(e.stack) /\ n # e.closing
  BY <1>4 DEF Held, HeldIn
<1>6. /\ Append(e.stack, n) \in Seq(Components) /\ Append(e.stack, n) # <<>>
      /\ ToSet(Append(e.stack, n)) = ToSet(e.stack) \cup {n}
  BY <1>2, <1>3, <1>5, PushFacts DEF OnceIn
<1>7. /\ HeldIn(Append(e.stack, n), e.closing) = HeldIn(e.stack, e.closing) \cup {n}
      /\ OnceIn(Append(e.stack, n), e.closing)
  BY <1>2, <1>3, <1>4, <1>5, PushHeld
<1>8. BelowIn(Append(e.stack, n), e.closing, ConsumerNeeds)
  <2>1. \A b : <<n, b>> \in ConsumerNeeds => b \in ToSet(e.stack)
    BY NeedsOfConsumers
  <2>2. QED
    BY <1>2, <1>3, <1>5, <2>1, PushKeeps
<1>9. d \in Engines /\ d.stack = Append(e.stack, n) /\ d.owned = e.owned \cup {n} /\ SameEngine(d, e)
  BY <1>2, <1>6 DEF Engines, SameEngine
<1> HIDE DEF d
<1>10. Held(d) = Held(e) \cup {n} /\ Once(d) /\ Below(d, ConsumerNeeds)
  BY <1>7, <1>8, <1>9 DEF Held, Once, Below, SameEngine
<1>11. EngineStack(d)
  BY <1>6, <1>9, <1>10 DEF EngineStack, SameEngine
<1>12. QED
  BY <1>1, <1>6, <1>9, <1>10, <1>11

\* The next component is taken off to be closed, or the stack is through.
LEMMA EnginePop ==
  ASSUME NEW e \in Engines, EngineStack(e), e.stop # "no"
  PROVE  LET d == PopNext(e) IN
         /\ d \in Engines /\ EngineStack(d) /\ Held(d) = Held(e) \ {e.closing}
         /\ d.pc = e.pc /\ d.attempt = e.attempt /\ d.stop = e.stop /\ d.owned = e.owned
         /\ d.holder = e.holder /\ d.failed = e.failed /\ d.ready = e.ready
         /\ d.running = e.running /\ d.died = e.died /\ d.cancelled = e.cancelled
         /\ (d.closing = Nothing <=> e.stack = <<>>) /\ (e.stack = <<>> => d.stack = <<>>)
         /\ d.closing \in ToSet(e.stack) \cup {Nothing}
<1>1. /\ e.stack \in Seq(Components) /\ e.closing \in Components \cup {Nothing}
      /\ e.owned \subseteq Components
  BY DEF Engines
<1>2. /\ OnceIn(e.stack, e.closing) /\ BelowIn(e.stack, e.closing, ConsumerNeeds)
      /\ Held(e) \subseteq e.owned
  BY DEF EngineStack, Once, Below
<1>3. CASE e.stack = <<>>
  <2> DEFINE d == [e EXCEPT !.closing = Nothing]
  <2>1. PopNext(e) = d
    BY <1>3 DEF PopNext
  <2>2. /\ d \in Engines /\ d.closing = Nothing /\ d.stack = <<>>
        /\ d.pc = e.pc /\ d.attempt = e.attempt /\ d.stop = e.stop /\ d.owned = e.owned
        /\ d.holder = e.holder /\ d.failed = e.failed /\ d.ready = e.ready
        /\ d.running = e.running /\ d.died = e.died /\ d.cancelled = e.cancelled
    BY <1>3 DEF Engines
  <2>3. /\ HeldIn(<<>>, Nothing) = {} /\ OnceIn(<<>>, Nothing)
        /\ BelowIn(<<>>, Nothing, ConsumerNeeds) /\ HeldIn(<<>>, e.closing) \ {e.closing} = {}
    BY EmptyKeeps, NeedsOfConsumers
  <2>4. Held(d) = {} /\ Once(d) /\ Below(d, ConsumerNeeds) /\ Held(e) \ {e.closing} = {}
    BY <1>3, <2>2, <2>3 DEF Held, Once, Below
  <2>5. EngineStack(d)
    BY <2>2, <2>4 DEF EngineStack
  <2>6. QED
    BY <1>3, <2>1, <2>2, <2>4, <2>5
<1>4. CASE e.stack # <<>>
  <2> DEFINE d == [e EXCEPT !.closing = Last(e.stack), !.stack = Front(e.stack)]
  <2>1. PopNext(e) = d
    BY <1>4 DEF PopNext
  <2>2. /\ Front(e.stack) \in Seq(Components) /\ Last(e.stack) \in Components
        /\ ToSet(e.stack) = ToSet(Front(e.stack)) \cup {Last(e.stack)}
    BY <1>1, <1>2, <1>4, PopFacts DEF OnceIn
  <2>3. /\ d \in Engines /\ d.closing = Last(e.stack) /\ d.stack = Front(e.stack)
        /\ d.pc = e.pc /\ d.attempt = e.attempt /\ d.stop = e.stop /\ d.owned = e.owned
        /\ d.holder = e.holder /\ d.failed = e.failed /\ d.ready = e.ready
        /\ d.running = e.running /\ d.died = e.died /\ d.cancelled = e.cancelled
    BY <2>2 DEF Engines
  <2>4. /\ HeldIn(Front(e.stack), Last(e.stack)) = HeldIn(e.stack, e.closing) \ {e.closing}
        /\ OnceIn(Front(e.stack), Last(e.stack))
        /\ BelowIn(Front(e.stack), Last(e.stack), ConsumerNeeds)
    BY <1>1, <1>2, <1>4, PopKeeps, NamesAreNames
  <2>5. Held(d) = Held(e) \ {e.closing} /\ Once(d) /\ Below(d, ConsumerNeeds)
    BY <2>3, <2>4 DEF Held, Once, Below
  <2>6. EngineStack(d)
    BY <1>2, <2>3, <2>5 DEF EngineStack
  <2>7. Last(e.stack) # Nothing
    BY <2>2, NamesAreNames
  <2>8. QED
    BY <1>4, <2>1, <2>2, <2>3, <2>5, <2>6, <2>7
<1>5. QED
  BY <1>3, <1>4

\* What the gateway has registered and what is being closed: the part of GatewayCore that
\* the stack decides.
GatewayStack(g) == Once(g) /\ (g.overtaken = "no" => Below(g, ConsumerNeeds))

\* Popping the gateway's stack closes its top and changes nothing else.
LEMMA GatewayPop ==
  ASSUME NEW g \in Gateways, GatewayStack(g)
  PROVE  LET d == PopNext(g) IN
         /\ d \in Gateways /\ GatewayStack(d) /\ Held(d) = Held(g) \ {g.closing}
         /\ d.pc = g.pc /\ d.attempt = g.attempt /\ d.stop = g.stop /\ d.holder = g.holder
         /\ d.failed = g.failed /\ d.started = g.started /\ d.overtaken = g.overtaken
         /\ (d.closing = Nothing <=> g.stack = <<>>) /\ (g.stack = <<>> => d.stack = <<>>)
         /\ g.stack # <<>> => ToSet(g.stack) = ToSet(d.stack) \cup {d.closing}
<1>1. g.stack \in Seq(GatewayNames) /\ g.closing \in GatewayNames \cup {Nothing}
  BY DEF Gateways
<1>2. OnceIn(g.stack, g.closing)
  BY DEF GatewayStack, Once
<1>3. CASE g.stack = <<>>
  <2> DEFINE d == [g EXCEPT !.closing = Nothing]
  <2>1. PopNext(g) = d
    BY <1>3 DEF PopNext
  <2>2. /\ d \in Gateways /\ d.closing = Nothing /\ d.stack = <<>>
        /\ d.pc = g.pc /\ d.attempt = g.attempt /\ d.stop = g.stop /\ d.holder = g.holder
        /\ d.failed = g.failed /\ d.started = g.started /\ d.overtaken = g.overtaken
    BY <1>3 DEF Gateways
  <2>3. /\ HeldIn(<<>>, Nothing) = {} /\ OnceIn(<<>>, Nothing)
        /\ BelowIn(<<>>, Nothing, ConsumerNeeds) /\ HeldIn(<<>>, g.closing) \ {g.closing} = {}
    BY EmptyKeeps, NeedsOfConsumers
  <2>4. Held(d) = {} /\ Once(d) /\ Below(d, ConsumerNeeds) /\ Held(g) \ {g.closing} = {}
    BY <1>3, <2>2, <2>3 DEF Held, Once, Below
  <2>5. QED
    BY <1>3, <2>1, <2>2, <2>4 DEF GatewayStack
<1>4. CASE g.stack # <<>>
  <2> DEFINE d == [g EXCEPT !.closing = Last(g.stack), !.stack = Front(g.stack)]
  <2>1. PopNext(g) = d
    BY <1>4 DEF PopNext
  <2>2. /\ Front(g.stack) \in Seq(GatewayNames) /\ Last(g.stack) \in GatewayNames
        /\ ToSet(g.stack) = ToSet(Front(g.stack)) \cup {Last(g.stack)}
    BY <1>1, <1>2, <1>4, PopFacts DEF OnceIn
  <2>3. /\ d \in Gateways /\ d.closing = Last(g.stack) /\ d.stack = Front(g.stack)
        /\ d.pc = g.pc /\ d.attempt = g.attempt /\ d.stop = g.stop /\ d.holder = g.holder
        /\ d.failed = g.failed /\ d.started = g.started /\ d.overtaken = g.overtaken
    BY <2>2 DEF Gateways
  <2>4. /\ HeldIn(Front(g.stack), Last(g.stack)) = HeldIn(g.stack, g.closing) \ {g.closing}
        /\ OnceIn(Front(g.stack), Last(g.stack))
        /\ BelowIn(g.stack, g.closing, ConsumerNeeds) =>
             BelowIn(Front(g.stack), Last(g.stack), ConsumerNeeds)
    BY <1>1, <1>2, <1>4, PopKeeps, NamesAreNames
  <2>5. /\ Held(d) = Held(g) \ {g.closing} /\ Once(d)
        /\ Below(g, ConsumerNeeds) => Below(d, ConsumerNeeds)
    BY <2>3, <2>4 DEF Held, Once, Below
  <2>6. Last(g.stack) # Nothing
    BY <2>2, NamesAreNames
  <2>7. QED
    BY <1>4, <2>1, <2>2, <2>3, <2>5, <2>6 DEF GatewayStack
<1>5. QED
  BY <1>3, <1>4

\* The consumers, when there are any, are registered on top, one by one.
PushConsumer(s, e) == IF e \in Endpoints THEN Append(s, e) ELSE s

\* The gateway registers its consumers one after the other, on top.
LEMMA ConsumersOnTop ==
  ASSUME NEW s \in Seq(GatewayNames)
  PROVE  s \o ConsumerNames = PushConsumer(PushConsumer(s, "response"), "trigger")
<1>1. /\ "response" \in Endpoints => "response" \in GatewayNames
      /\ "trigger" \in Endpoints => "trigger" \in GatewayNames
  BY NamesAreNames
<1>2. CASE "response" \in Endpoints /\ "trigger" \in Endpoints
  <2>1. ConsumerNames = <<"response">> \o <<"trigger">>
    BY <1>2 DEF ConsumerNames, Consumer
  <2>2. s \o (<<"response">> \o <<"trigger">>) = Append(Append(s, "response"), "trigger")
    BY <1>1, <1>2
  <2>3. QED
    BY <1>2, <2>1, <2>2 DEF PushConsumer
<1>3. CASE "response" \in Endpoints /\ "trigger" \notin Endpoints
  <2>1. ConsumerNames = <<"response">> \o <<>>
    BY <1>3 DEF ConsumerNames, Consumer
  <2>2. s \o (<<"response">> \o <<>>) = Append(s, "response")
    BY <1>1, <1>3
  <2>3. QED
    BY <1>3, <2>1, <2>2 DEF PushConsumer
<1>4. CASE "response" \notin Endpoints /\ "trigger" \in Endpoints
  <2>1. ConsumerNames = <<>> \o <<"trigger">>
    BY <1>4 DEF ConsumerNames, Consumer
  <2>2. s \o (<<>> \o <<"trigger">>) = Append(s, "trigger")
    BY <1>1, <1>4
  <2>3. QED
    BY <1>4, <2>1, <2>2 DEF PushConsumer
<1>5. CASE "response" \notin Endpoints /\ "trigger" \notin Endpoints
  <2>1. ConsumerNames = <<>> \o <<>>
    BY <1>5 DEF ConsumerNames, Consumer
  <2>2. s \o (<<>> \o <<>>) = s
    OBVIOUS
  <2>3. QED
    BY <1>5, <2>1, <2>2 DEF PushConsumer
<1>6. QED
  BY <1>2, <1>3, <1>4, <1>5

\* One consumer registered on top of a stack that has its broker.
LEMMA ConsumerPushed ==
  ASSUME NEW s \in Seq(GatewayNames), NEW c \in GatewayNames \cup {Nothing}, OnceIn(s, c),
         NEW e, e \in Endpoints => e \notin HeldIn(s, c)
  PROVE  LET t == PushConsumer(s, e) IN
         /\ t \in Seq(GatewayNames) /\ OnceIn(t, c)
         /\ HeldIn(t, c) = HeldIn(s, c) \cup ({e} \cap Endpoints) /\ ToSet(s) \subseteq ToSet(t)
         /\ BelowIn(s, c, ConsumerNeeds) /\ "broker" \in ToSet(s) => BelowIn(t, c, ConsumerNeeds)
<1>1. CASE e \notin Endpoints
  BY <1>1 DEF PushConsumer
<1>2. CASE e \in Endpoints
  <2>1. e \in GatewayNames /\ e # Nothing /\ e \notin ToSet(s) /\ e # c
    BY <1>2, NamesAreNames DEF HeldIn
  <2>2. PushConsumer(s, e) = Append(s, e)
    BY <1>2 DEF PushConsumer
  <2>3. Append(s, e) \in Seq(GatewayNames) /\ ToSet(Append(s, e)) = ToSet(s) \cup {e}
    BY <2>1, PushFacts DEF OnceIn
  <2>4. HeldIn(Append(s, e), c) = HeldIn(s, c) \cup {e} /\ OnceIn(Append(s, e), c)
    BY <2>1, PushHeld
  <2>5. ASSUME BelowIn(s, c, ConsumerNeeds), "broker" \in ToSet(s)
        PROVE  BelowIn(Append(s, e), c, ConsumerNeeds)
    <3>1. \A b : <<e, b>> \in ConsumerNeeds => b \in ToSet(s)
      BY <2>5, NeedsOfConsumers
    <3>2. QED
      BY <2>1, <2>5, <3>1, PushKeeps
  <2>6. QED
    BY <1>2, <2>2, <2>3, <2>4, <2>5
<1>3. QED
  BY <1>1, <1>2

(***************************************************************************)
(* What does not change.                                                   *)
(***************************************************************************)

\* What a plan is: names once each, in an order that load can follow, and some attempts.
LEMMA PlanFacts ==
  ASSUME HostTypes
  PROVE  /\ Nothing \notin Names /\ plan.attempts \in Nat \ {0} /\ plan.names \in Seq(Names)
         /\ shape \in {"gateway", "worker", "combined", "engine"}
         /\ \A a, b : <<a, b>> \in ResourceNeeds => a # Nothing
         /\ \A o \in LoadOrders(plan) : o \in Seq(Names) /\ IsInjective(o) /\ Len(o) = Len(plan.names)
<1>1. PICK h \in Hosts : shape = h.shape /\ plan = h.plan
  BY DEF HostTypes
<1>2. /\ Nothing \notin Names /\ plan.attempts \in Nat \ {0} /\ plan.names \in Seq(STRING)
      /\ shape \in {"gateway", "worker", "combined", "engine"}
  BY <1>1, HostAssumption DEF Names
<1>3. Len(plan.names) \in Nat /\ plan.names \in Seq(Names)
  <2>1. /\ Len(plan.names) \in Nat /\ DOMAIN plan.names = 1..Len(plan.names)
        /\ plan.names = [i \in 1..Len(plan.names) |-> plan.names[i]]
    BY <1>2
  <2>2. \A i \in 1..Len(plan.names) : plan.names[i] \in Names
    BY <2>1 DEF Names, ToSet
  <2>3. QED
    BY <2>1, <2>2
<1>4. \A o \in LoadOrders(plan) : o \in Seq(Names) /\ IsInjective(o) /\ Len(o) = Len(plan.names)
  BY <1>3 DEF LoadOrders, Names
<1>5. \A a, b : <<a, b>> \in ResourceNeeds => a # Nothing
  BY <1>2 DEF ResourceNeeds
<1>6. QED
  BY <1>2, <1>3, <1>4, <1>5

\* A process that keeps its shape and its plan keeps its names and its needs.
LEMMA SameHost ==
  ASSUME UNCHANGED <<shape, plan>>
  PROVE  /\ Names' = Names /\ ResourceNeeds' = ResourceNeeds
         /\ HasEngine' = HasEngine /\ HasGateway' = HasGateway /\ HasIngress' = HasIngress
BY DEF Names, ResourceNeeds, HasEngine, HasGateway, HasIngress

\* What is opened when more is held, and what is left when less is.
LEMMA OpenComponents ==
  ASSUME NEW g, NEW e, NEW l, NEW e2, NEW B, Held(e2) = Held(e) \cup B, "resources" \notin B
  PROVE  OpenOf(g, e2, l) = OpenOf(g, e, l) \cup {<<"engine", n>> : n \in B}
BY DEF OpenOf

\* What the gateway registers is opened.
LEMMA OpenGateway ==
  ASSUME NEW g, NEW e, NEW l, NEW g2, NEW A, Held(g2) = Held(g) \cup A
  PROVE  OpenOf(g2, e, l) = OpenOf(g, e, l) \cup {<<"gateway", n>> : n \in A}
BY DEF OpenOf

\* What its owner no longer holds is closed.
LEMMA OpenLess ==
  ASSUME NEW g, NEW e, NEW l, NEW g2, NEW e2, NEW l2, NEW a, NEW b, NEW c,
         Held(g2) = Held(g) \ {a}, Held(e2) = Held(e) \ {b}, Held(l2) = Held(l) \ {c}
  PROVE  OpenOf(g2, e2, l2) =
           OpenOf(g, e, l) \ {<<"gateway", a>>, <<"engine", b>>, <<"loader", c>>}
BY DEF OpenOf

\* Nothing is opened or closed while nobody's holdings change.
LEMMA OpenSame ==
  ASSUME NEW g, NEW e, NEW l, NEW g2, NEW e2, NEW l2,
         Held(g2) = Held(g), Held(e2) = Held(e), Held(l2) = Held(l)
  PROVE  OpenOf(g2, e2, l2) = OpenOf(g, e, l)
BY DEF OpenOf

\* Nothing is not something an owner holds.
LEMMA NothingIsNotHeld ==
  ASSUME HostTypes
  PROVE  Nothing \notin Held(gateway) /\ Nothing \notin Held(engine) /\ Nothing \notin Held(loader)
<1>1. ASSUME NEW S, NEW s \in Seq(S), NEW c, Nothing \notin S
      PROVE  Nothing \notin HeldIn(s, c)
  BY <1>1 DEF HeldIn, ToSet
<1>2. /\ gateway.stack \in Seq(GatewayNames) /\ engine.stack \in Seq(Components)
      /\ loader.stack \in Seq(Names)
  BY DEF HostTypes, Gateways, Engines, Loaders
<1>3. QED
  BY <1>1, <1>2, NamesAreNames, PlanFacts DEF Held

(***************************************************************************)
(* The engine moves on without registering or closing anything.            *)
(***************************************************************************)
Moves(p, q, stop) ==
  \/ q = p
  \/ q = "finally" /\ p # "done"
  \/ q \in {"loading", "unwinding"} /\ p \in {"scheduled", "loading"}
  \/ q = "routing" /\ p = "ensuring"
  \/ q \in {"consumers", "supervising"} /\ p \in {"routing", "consumers", "supervising"}
  \/ q = "done" /\ p = "finally" /\ stop = "yes"

\* WorkflowEngine.start moving on with its stack as it is, whatever becomes of the loader.
LEMMA EngineGoesOn ==
  ASSUME HostInv, UNCHANGED <<shape, plan, app, gateway>>,
         engine' \in Engines, engine'.stack = engine.stack, engine'.owned = engine.owned,
         engine'.closing = engine.closing, engine'.stop = engine.stop,
         engine'.holder = engine.holder, engine.cancelled => engine'.cancelled,
         engine'.attempt < plan.attempts, Moves(engine.pc, engine'.pc, engine.stop),
         engine.pc = "new" => engine'.pc = "new"
  PROVE  EngineSound' /\ GatewaySound' /\ AppSound' /\ Held(engine') = Held(engine)
<1>1. Held(engine') = Held(engine) /\ Once(engine') = Once(engine)
      /\ Below(engine', ConsumerNeeds) = Below(engine, ConsumerNeeds)
  BY DEF Held, Once, Below
<1>2. EngineCore(engine')
  <2>1. engine'.owned = OwnedAt(engine')
    <3>1. engine.owned = OwnedAt(engine) /\ "resources" \in engine.owned
      BY DEF HostInv, EngineSound, EngineCore, OwnedAt, Connected
    <3>2. QED
      BY <3>1 DEF OwnedAt, Moves
  <2>2. QED
    BY <1>1, <2>1 DEF HostInv, EngineSound, EngineCore, EngineStack, Moves
<1>3. EngineTies(engine, app, gateway.stop)'
  BY SameHost DEF HostInv, EngineSound, EngineTies, Moves
<1>4. GatewaySound'
  BY SameHost DEF HostInv, GatewaySound, GatewayTies
<1>5. AppSound'
  BY SameHost DEF HostInv, AppSound, AppTies, Moves
<1>6. QED
  BY <1>1, <1>2, <1>3, <1>4, <1>5 DEF EngineSound

\* WorkflowEngine.start moving on while the loader stays as it is.
LEMMA EngineMoves ==
  ASSUME HostInv, UNCHANGED <<shape, plan, app, gateway, loader, open>>,
         engine.pc = "unwinding" => engine'.pc = engine.pc,
         engine' \in Engines, engine'.stack = engine.stack, engine'.owned = engine.owned,
         engine'.closing = engine.closing, engine'.stop = engine.stop,
         engine'.holder = engine.holder, engine.cancelled => engine'.cancelled,
         engine'.attempt < plan.attempts, Moves(engine.pc, engine'.pc, engine.stop),
         engine'.pc \in {"loading", "unwinding"} => engine'.pc = engine.pc,
         consumers' \in [Owners -> [Endpoints -> ConsumerStates]],
         health' \in [HealthComponents -> {"ready", "unavailable"}],
         ConsumersSound', HealthSound',
         engine.pc = "new" => engine'.pc = "new"
  PROVE  HostInv'
<1>1. EngineSound' /\ GatewaySound' /\ AppSound' /\ Held(engine') = Held(engine)
  BY EngineGoesOn
<1>2. HostTypes'
  BY SameHost DEF HostInv, HostTypes
<1>3. OpenIsHeld'
  BY <1>1, OpenSame DEF HostInv, OpenIsHeld
<1>4. LoaderSound'
  BY <1>1, SameHost DEF HostInv, LoaderSound, LoaderTies, Moves
<1>5. QED
  BY <1>1, <1>2, <1>3, <1>4 DEF HostInv

\* The health and the consumers as they were are sound if the engine holds what it held and
\* has not stopped since.
LEMMA Unheeded ==
  ASSUME HostInv, UNCHANGED <<gateway, consumers, health>>, Held(engine') = Held(engine),
         engine'.stop = engine.stop, engine'.holder = engine.holder
  PROVE  /\ ConsumersSound' /\ HealthSound'
         /\ consumers' \in [Owners -> [Endpoints -> ConsumerStates]]
         /\ health' \in [HealthComponents -> {"ready", "unavailable"}]
BY DEF HostInv, HostTypes, ConsumersSound, ConsumersIn, HealthSound, HealthIn

\* A worker task that ends keeps the invariant.
LEMMA WorkerEnds ==
  ASSUME HostInv, NEW t, WorkerTaskEnds(t)
  PROVE  HostInv'
<1>1. /\ engine \in Engines /\ engine' = [engine EXCEPT !.running = @ \ {t}, !.died = TRUE]
      /\ UNCHANGED <<shape, plan, app, gateway, loader, consumers, open, health>>
      /\ engine.attempt < plan.attempts
  BY DEF HostInv, HostTypes, WorkerTaskEnds, EngineSound
<1>2. /\ engine' \in Engines /\ engine'.pc = engine.pc /\ engine'.attempt = engine.attempt
      /\ engine'.stack = engine.stack /\ engine'.owned = engine.owned
      /\ engine'.closing = engine.closing /\ engine'.stop = engine.stop
      /\ engine'.holder = engine.holder /\ engine'.cancelled = engine.cancelled
  BY <1>1 DEF Engines
<1>3. Held(engine') = Held(engine)
  BY <1>2 DEF Held
<1>4. QED
  BY <1>1, <1>2, <1>3, Unheeded, EngineMoves DEF Moves, WorkerTaskEnds

\* Two states of the engine with the same stack.
SameStack(d, e) ==
  /\ d.stack = e.stack /\ d.owned = e.owned /\ d.closing = e.closing /\ d.stop = e.stop
  /\ d.holder = e.holder

\* Moving the engine on changes where it is and nothing it holds.
LEMMA EnginePc ==
  ASSUME NEW e \in Engines, NEW p \in EnginePcs
  PROVE  LET d == [e EXCEPT !.pc = p] IN
         /\ d \in Engines /\ d.pc = p /\ d.attempt = e.attempt /\ d.cancelled = e.cancelled
         /\ SameStack(d, e)
BY DEF Engines, SameStack

\* So does moving it on and declaring it ready.
LEMMA EnginePcReady ==
  ASSUME NEW e \in Engines, NEW p \in EnginePcs
  PROVE  LET d == [e EXCEPT !.pc = p, !.ready = TRUE] IN
         /\ d \in Engines /\ d.pc = p /\ d.attempt = e.attempt /\ d.cancelled = e.cancelled
         /\ SameStack(d, e)
BY DEF Engines, SameStack

\* WorkflowEngine.start moving on with nothing else changed.
LEMMA MovesQuietly ==
  ASSUME HostInv, UNCHANGED <<shape, plan, app, gateway, loader, consumers, open, health>>,
         engine.pc # "new", engine.pc = "unwinding" => engine'.pc = engine.pc,
         engine'.pc \in {"loading", "unwinding"} => engine'.pc = engine.pc,
         engine' \in Engines, SameStack(engine', engine),
         engine.cancelled => engine'.cancelled, engine'.attempt < plan.attempts,
         Moves(engine.pc, engine'.pc, engine.stop)
  PROVE  HostInv'
<1>1. Held(engine') = Held(engine)
  BY DEF Held, SameStack
<1>2. QED
  BY <1>1, Unheeded, EngineMoves DEF SameStack

\* _ensure_deployment, done or failed, keeps the invariant.
LEMMA EnsuredKeeps ==
  ASSUME HostInv, NEW ok, EngineEnsured(ok)
  PROVE  HostInv'
<1>1. engine \in Engines /\ engine.attempt < plan.attempts
  BY DEF HostInv, HostTypes, EngineSound
<1>2. /\ engine' = [engine EXCEPT !.pc = "routing"] \/ engine' = [engine EXCEPT !.pc = "finally"]
      /\ UNCHANGED <<shape, plan, app, gateway, loader, consumers, open, health>>
      /\ engine.pc = "ensuring"
  BY DEF EngineEnsured, EngineFails
<1>3. "routing" \in EnginePcs /\ "finally" \in EnginePcs
  BY DEF EnginePcs
<1>4. /\ engine' \in Engines /\ engine'.pc \in {"routing", "finally"}
      /\ engine'.attempt = engine.attempt /\ engine'.cancelled = engine.cancelled
      /\ SameStack(engine', engine)
  BY <1>1, <1>2, <1>3 DEF Engines, SameStack
<1>5. QED
  BY <1>1, <1>2, <1>4, MovesQuietly DEF Moves

\* The wait for the engine's consumers, however it ends, keeps the invariant.
LEMMA ConsumersReadyKeeps ==
  ASSUME HostInv, NEW ok, EngineConsumersReady(ok)
  PROVE  HostInv'
<1>1. engine \in Engines /\ engine.attempt < plan.attempts
  BY DEF HostInv, HostTypes, EngineSound
<1>2. /\ \/ engine' = [engine EXCEPT !.pc = "supervising", !.ready = TRUE]
         \/ engine' = [engine EXCEPT !.pc = "finally"]
      /\ UNCHANGED <<shape, plan, app, gateway, loader, consumers, open, health>>
      /\ engine.pc = "consumers"
  BY DEF EngineConsumersReady, EngineFails
<1>3. "supervising" \in EnginePcs /\ "finally" \in EnginePcs
  BY DEF EnginePcs
<1>4. /\ engine' \in Engines /\ engine'.pc \in {"supervising", "finally"}
      /\ engine'.attempt = engine.attempt /\ engine'.cancelled = engine.cancelled
      /\ SameStack(engine', engine)
  BY <1>1, <1>2, <1>3 DEF Engines, SameStack
<1>5. QED
  BY <1>1, <1>2, <1>4, MovesQuietly DEF Moves

\* A signal that cancels run_engine keeps the invariant.
LEMMA InterruptedKeeps ==
  ASSUME HostInv, EngineInterrupted
  PROVE  HostInv'
<1>1. /\ engine \in Engines /\ engine.attempt < plan.attempts
      /\ engine' = [engine EXCEPT !.cancelled = TRUE]
      /\ UNCHANGED <<shape, plan, app, gateway, loader, consumers, open, health>>
      /\ engine.pc \notin {"unwinding", "new"}
  BY DEF HostInv, HostTypes, EngineSound, EngineInterrupted
<1>2. /\ engine' \in Engines /\ engine'.pc = engine.pc /\ engine'.attempt = engine.attempt
      /\ engine'.cancelled /\ SameStack(engine', engine)
  BY <1>1 DEF Engines, SameStack
<1>3. QED
  BY <1>1, <1>2, MovesQuietly DEF Moves

\* What the tasks of an owner are when they have been stopped.
LEMMA StoppedConsumersFacts ==
  ASSUME HostTypes, NEW o \in Owners
  PROVE  /\ StoppedConsumers(o) \in [Owners -> [Endpoints -> ConsumerStates]]
         /\ \A e \in Endpoints : StoppedConsumers(o)[o][e] \in {"none", "done"}
         /\ \A q \in Owners : q # o => StoppedConsumers(o)[q] = consumers[q]
BY DEF HostTypes, StoppedConsumers, Owners, ConsumerStates

\* _supervise_services, when it stops the services, keeps the invariant.
LEMMA SuperviseKeeps ==
  ASSUME HostInv, EngineSupervise
  PROVE  HostInv'
<1>1. /\ engine \in Engines /\ engine.attempt < plan.attempts /\ HostTypes
      /\ engine' = [engine EXCEPT !.running = {}, !.pc = "finally"]
      /\ consumers' = StoppedConsumers("engine")
      /\ UNCHANGED <<shape, plan, app, gateway, loader, open, health>>
      /\ engine.pc = "supervising"
  BY DEF HostInv, HostTypes, EngineSound, EngineSupervise
<1>2. /\ engine' \in Engines /\ engine'.pc = "finally" /\ engine'.attempt = engine.attempt
      /\ engine'.cancelled = engine.cancelled /\ SameStack(engine', engine)
  BY <1>1 DEF Engines, EnginePcs, SameStack
<1>3. "engine" \in Owners /\ "gateway" \in Owners
  BY DEF Owners
<1>4. /\ consumers' \in [Owners -> [Endpoints -> ConsumerStates]]
      /\ \A e \in Endpoints : consumers'["engine"][e] \in {"none", "done"}
      /\ consumers'["gateway"] = consumers["gateway"]
  BY <1>1, <1>3, StoppedConsumersFacts
<1>5. ConsumersSound'
  BY <1>1, <1>4 DEF HostInv, ConsumersSound, ConsumersIn
<1>6. HealthSound' /\ health' \in [HealthComponents -> {"ready", "unavailable"}]
  BY <1>1, <1>2 DEF HostInv, HostTypes, HealthSound, HealthIn, SameStack
<1>7. QED
  BY <1>1, <1>2, <1>4, <1>5, <1>6, EngineMoves DEF Moves, SameStack

\* Marking.
LEMMA MarkFacts ==
  ASSUME HostTypes, NEW cs, NEW status \in {"ready", "unavailable"}
  PROVE  /\ Mark(cs, status) \in [HealthComponents -> {"ready", "unavailable"}]
         /\ \A c \in HealthComponents : Mark(cs, status)[c] = IF c \in cs THEN status ELSE health[c]
BY DEF HostTypes, Mark

\* A consumer reports about itself only.
LEMMA ConsumerHealthFacts ==
  /\ \A e : ConsumerHealth(e) \in HealthComponents \ {"catalog", "worker"}
  /\ {"catalog", "worker", "temporal", "providers", "worker_registration"} \subseteq HealthComponents
BY DEF ConsumerHealth, HealthComponents

(***************************************************************************)
(* The load.                                                               *)
(***************************************************************************)
\* The loader as the coroutine of the load has it in hand: what it has noted since its
\* last await, it has neither opened nor closed.
Resumed(l) ==
  /\ l \in Loaders(Names) /\ LoaderCore(l, ResourceNeeds)
  /\ l.stack = loader.stack /\ l.closing = loader.closing /\ l.closed = loader.closed
  /\ engine.pc = "loading" => l.next >= 1

\* While the load runs, the engine holds its resources and nothing else.
LEMMA LoadingHolds ==
  ASSUME HostInv, engine.pc \in {"new", "scheduled", "loading", "unwinding"}
  PROVE  /\ engine.owned = {"resources"} /\ Held(engine) \subseteq {"resources"}
         /\ engine.stop = "closing" => engine.closing = "resources" /\ engine.stack = <<>>
         /\ engine.stop = "no" => ToSet(engine.stack) = {"resources"}
         /\ "resources" \notin Held(engine) => engine.stop = "yes"
<1>1. /\ engine.owned = {"resources"} /\ Held(engine) \subseteq {"resources"} /\ Once(engine)
      /\ engine.stop = "no" => ToSet(engine.stack) = {"resources"}
      /\ engine.stop = "closing" => engine.closing # Nothing
      /\ engine.stack \in Seq(Components) /\ engine.stop \in {"no", "closing", "yes"}
  BY DEF HostInv, HostTypes, Engines, EngineSound, EngineCore, EngineStack, OwnedAt
<1>2. ASSUME engine.stop = "closing"
      PROVE  engine.closing = "resources" /\ engine.stack = <<>>
  <2>1. engine.closing = "resources" /\ ToSet(engine.stack) \subseteq {"resources"}
    BY <1>1, <1>2 DEF Held, HeldIn
  <2>2. "resources" \notin ToSet(engine.stack)
    BY <1>1, <2>1 DEF Once, OnceIn
  <2>3. ToSet(engine.stack) = {}
    BY <2>1, <2>2
  <2>4. QED
    BY <1>1, <2>1, <2>3, EmptyStack
<1>3. "resources" \notin Held(engine) => engine.stop = "yes"
  BY <1>1, <1>2, NamesAreNames DEF Held, HeldIn, Nothing
<1>4. QED
  BY <1>1, <1>2, <1>3

\* An engine that has not started has a loader that has loaded nothing, and no stop has begun.
LEMMA ScheduledLoader ==
  ASSUME HostInv, engine.pc = "scheduled"
  PROVE  /\ loader.next = 0 /\ Taken(loader) = {} /\ engine.stop = "no"
         /\ ~loader.closed /\ loader.closing = Nothing /\ loader.stack = <<>> /\ loader.loaded = {}
<1>1. /\ loader \in Loaders(Names) /\ LoaderCore(loader, ResourceNeeds) /\ loader.order = <<>>
      /\ engine.stop = "no"
  BY DEF HostInv, HostTypes, LoaderSound, LoaderTies, EngineSound, EngineCore
<1>2. loader.next = 0 /\ loader.stack \in Seq(Names) /\ loader.loaded \subseteq Taken(loader)
      /\ Held(loader) \subseteq Taken(loader)
  BY <1>1 DEF Loaders, LoaderCore
<1>3. Taken(loader) = {}
  BY <1>2 DEF Taken
<1>4. loader.stack = <<>> /\ loader.loaded = {}
  BY <1>2, <1>3, EmptyStack DEF Held, HeldIn
<1>5. ~loader.closed /\ loader.closing = Nothing
  BY <1>2, <1>3 DEF HostInv, LoaderSound, LoaderTies, Held, HeldIn
<1>6. QED
  BY <1>1, <1>2, <1>3, <1>4, <1>5

\* A load that fails closes what it has loaded, unless somebody has.
LEMMA UnwindKeeps ==
  ASSUME HostInv, NEW l, Resumed(l), engine.pc \in {"scheduled", "loading"}, UnwindLoad(l),
         UNCHANGED <<shape, plan, app, gateway, consumers, open>>,
         health' \in [HealthComponents -> {"ready", "unavailable"}], HealthSound'
  PROVE  HostInv'
<1>1. /\ engine \in Engines /\ loader \in Loaders(Names) /\ engine.attempt < plan.attempts
      /\ l \in Loaders(Names) /\ LoaderCore(l, ResourceNeeds) /\ l.stack = loader.stack
      /\ l.closing = loader.closing /\ l.closed = loader.closed /\ HostTypes
      /\ engine.pc = "loading" => l.next >= 1
      /\ LoaderTies(loader, engine, app.skipped)
  BY DEF HostInv, HostTypes, EngineSound, Resumed, LoaderSound
<1>2. /\ Nothing \notin Names /\ \A a, b : <<a, b>> \in ResourceNeeds => a # Nothing
  BY <1>1, PlanFacts
<1>3. Held(l) = Held(loader)
  BY <1>1 DEF Held
<1> DEFINE u == Unwound(l)
<1>4. /\ u \in Loaders(Names) /\ LoaderCore(u, ResourceNeeds) /\ u.closed /\ Held(u) = Held(l)
      /\ l.closed => u = l
      /\ ~l.closed => (u.closing = Nothing <=> l.stack = <<>>)
      /\ ~l.closed /\ l.stack = <<>> => u.stack = <<>>
  BY <1>1, <1>2, LoaderUnwound
<1>5. /\ loader' = u
      /\ engine' = [engine EXCEPT !.pc = IF l.closed \/ u.closing = Nothing
                                         THEN "finally" ELSE "unwinding"]
  BY DEF UnwindLoad
<1> HIDE DEF u
<1>6. /\ engine' \in Engines /\ engine'.attempt = engine.attempt
      /\ engine'.cancelled = engine.cancelled /\ SameStack(engine', engine)
      /\ engine'.pc = IF l.closed \/ u.closing = Nothing THEN "finally" ELSE "unwinding"
  BY <1>1, <1>5 DEF Engines, EnginePcs, SameStack
<1>7. EngineSound' /\ GatewaySound' /\ AppSound' /\ Held(engine') = Held(engine)
  BY <1>1, <1>6, EngineGoesOn DEF Moves, SameStack
<1>8. HostTypes'
  BY <1>4, <1>5, <1>6, SameHost DEF HostInv, HostTypes
<1>9. OpenIsHeld'
  BY <1>3, <1>4, <1>5, <1>7, OpenSame DEF HostInv, OpenIsHeld
<1>10. LoaderTies(u, engine', app.skipped)
  <2>1. CASE l.closed
    BY <1>1, <1>3, <1>4, <1>6, <1>7, <2>1 DEF LoaderTies, SameStack
  <2>2. CASE ~l.closed /\ l.stack = <<>>
    <3>1. u.closing = Nothing /\ u.stack = <<>> /\ engine'.pc = "finally"
      BY <1>4, <1>6, <2>2
    <3>2. Held(u) = {}
      BY <3>1, EmptyKeeps DEF Held
    <3>3. QED
      BY <1>4, <3>1, <3>2 DEF LoaderTies
  <2>3. CASE ~l.closed /\ l.stack # <<>>
    BY <1>4, <1>6, <2>3 DEF LoaderTies
  <2>4. QED
    BY <2>1, <2>2, <2>3
<1>11. LoaderSound'
  BY <1>4, <1>5, <1>10, SameHost DEF LoaderSound
<1>12. ConsumersSound'
  BY <1>7 DEF HostInv, ConsumersSound, ConsumersIn
<1>13. QED
  BY <1>7, <1>8, <1>9, <1>11, <1>12 DEF HostInv

\* A load that goes on opens the next resource, or fails.
LEMMA BuildKeeps ==
  ASSUME HostInv, NEW l, Resumed(l), engine.pc \in {"scheduled", "loading"},
         engine.stop = "yes" => ~engine.cancelled, l.next < Len(l.order), BuildNext(l),
         UNCHANGED <<shape, plan, app, gateway, consumers>>,
         health' \in [HealthComponents -> {"ready", "unavailable"}], HealthSound'
  PROVE  HostInv'
<1> DEFINE r == l.order[l.next + 1]
           m == [l EXCEPT !.next = @ + 1, !.stack = Append(@, r), !.overlapped = @ \/ l.closed]
<1>1. CASE UnwindLoad(l) /\ UNCHANGED open
  BY <1>1, UnwindKeeps
<1>2. CASE /\ Buildable(l, r) /\ loader' = m /\ open' = open \cup {<<"loader", r>>}
           /\ engine' = [engine EXCEPT !.pc = "loading"]
  <2>1. /\ engine \in Engines /\ loader \in Loaders(Names) /\ engine.attempt < plan.attempts
        /\ l \in Loaders(Names) /\ LoaderCore(l, ResourceNeeds) /\ l.stack = loader.stack
        /\ l.closing = loader.closing /\ l.closed = loader.closed /\ HostTypes
        /\ LoaderTies(loader, engine, app.skipped)
    BY DEF HostInv, HostTypes, EngineSound, Resumed, LoaderSound
  <2>2. Nothing \notin Names
    BY <2>1, PlanFacts
  <2>3. \A b : <<r, b>> \in ResourceNeeds => b \in l.loaded
    BY <1>2 DEF Buildable, ResourceNeeds
  <2>4. /\ m \in Loaders(Names) /\ LoaderCore(m, ResourceNeeds) /\ Held(m) = Held(l) \cup {r}
        /\ m.next >= 1 /\ m.closed = l.closed /\ m.closing = l.closing
    BY <2>1, <2>2, <2>3, LoaderPush
  <2> HIDE DEF m, r
  <2>5. Held(l) = Held(loader)
    BY <2>1 DEF Held
  <2>6. /\ engine' \in Engines /\ engine'.attempt = engine.attempt
        /\ engine'.cancelled = engine.cancelled /\ SameStack(engine', engine)
        /\ engine'.pc = "loading"
    BY <1>2, <2>1 DEF Engines, EnginePcs, SameStack
  <2>7. EngineSound' /\ GatewaySound' /\ AppSound' /\ Held(engine') = Held(engine)
    BY <2>1, <2>6, EngineGoesOn DEF Moves, SameStack
  <2>8. HostTypes'
    BY <1>2, <2>4, <2>6, SameHost DEF HostInv, HostTypes
  <2>9. OpenIsHeld'
    <3>1. Held(engine') = Held(engine) /\ Held(m) = Held(loader) \cup {r}
      BY <2>4, <2>5, <2>7
    <3>2. OpenOf(gateway, engine', m) = OpenOf(gateway, engine, loader) \cup {<<"loader", r>>}
      BY <3>1 DEF OpenOf
    <3>3. QED
      BY <1>2, <3>2 DEF HostInv, OpenIsHeld
  <2>10. engine.stop = "yes" => app.skipped
    BY <2>1 DEF HostInv, EngineSound, EngineTies
  <2>11. "resources" \notin Held(engine) => engine.stop = "yes"
    BY LoadingHolds
  <2>12. LoaderTies(m, engine', app.skipped)
    <3>1. engine.pc = "scheduled" => ~loader.closed /\ loader.closing = Nothing
      BY ScheduledLoader
    <3>2. QED
      BY <2>1, <2>4, <2>6, <2>7, <2>10, <2>11, <3>1 DEF LoaderTies, SameStack
  <2>13. LoaderSound'
    BY <1>2, <2>4, <2>12, SameHost DEF LoaderSound
  <2>14. ConsumersSound'
    BY <2>7 DEF HostInv, ConsumersSound, ConsumersIn
  <2>15. QED
    BY <2>7, <2>8, <2>9, <2>13, <2>14 DEF HostInv
<1>3. QED
  BY <1>1, <1>2 DEF BuildNext

\* The engine registers more, and is not being cancelled.
LEMMA EngineGrows ==
  ASSUME HostInv, UNCHANGED <<shape, plan, app, gateway>>,
         engine' \in Engines, EngineStack(engine'), engine'.owned = OwnedAt(engine'),
         engine'.closing = engine.closing, engine'.stop = engine.stop,
         engine'.holder = engine.holder, engine'.attempt = engine.attempt,
         engine.stop = "yes" => ~engine.cancelled,
         engine.pc \in {"scheduled", "loading", "connecting", "routing"},
         engine'.pc \in {"connecting", "finally", "ensuring", "consumers"},
         Held(engine) \subseteq Held(engine'),
         LoaderCore(loader', ResourceNeeds), Held(loader') = Held(loader),
         loader'.stack = loader.stack, loader'.closing = loader.closing,
         loader'.closed = loader.closed
  PROVE  EngineSound' /\ GatewaySound' /\ AppSound' /\ LoaderSound'
<1>1. engine.stop = "yes" => app.skipped
  BY DEF HostInv, EngineSound, EngineTies
<1>2. EngineCore(engine')
  BY DEF HostInv, EngineSound, EngineCore
<1>3. EngineTies(engine, app, gateway.stop)'
  BY <1>1, SameHost DEF HostInv, EngineSound, EngineTies
<1>4. EngineSound'
  BY <1>2, <1>3 DEF HostInv, EngineSound
<1>5. GatewaySound'
  BY SameHost DEF HostInv, GatewaySound, GatewayTies
<1>6. AppSound'
  BY SameHost DEF HostInv, AppSound, AppTies
<1>7. LoaderTies(loader', engine', app.skipped)
  BY DEF HostInv, LoaderSound, LoaderTies
<1>8. LoaderSound'
  BY <1>7, SameHost DEF LoaderSound
<1>9. QED
  BY <1>4, <1>5, <1>6, <1>8

\* The part of WorkflowEngine.start after the load keeps the invariant.
LEMMA AfterLoadKeeps ==
  ASSUME HostInv, Resumed(loader'), engine.pc \in {"scheduled", "loading"},
         engine.stop = "yes" => ~engine.cancelled,
         NEW ok, NEW marked, AfterLoad(ok, marked),
         UNCHANGED <<shape, plan, app, gateway, consumers>>,
         health' \in [HealthComponents -> {"ready", "unavailable"}], HealthSound'
  PROVE  HostInv'
<1> DEFINE b == Own(engine, "broker")
           a == Own(b, "activities")
<1>1. /\ engine \in Engines /\ EngineStack(engine) /\ engine.owned = {"resources"}
      /\ loader' \in Loaders(Names) /\ LoaderCore(loader', ResourceNeeds)
      /\ loader'.stack = loader.stack /\ loader'.closing = loader.closing
      /\ loader'.closed = loader.closed
  BY DEF HostInv, HostTypes, EngineSound, EngineCore, OwnedAt, Resumed
<1>2. /\ {"broker", "activities"} \subseteq Components /\ "broker" \notin Endpoints
      /\ "activities" \notin Endpoints
  BY HostAssumption DEF Components
<1>3. /\ b \in Engines /\ EngineStack(b) /\ SameEngine(b, engine)
      /\ b.owned = {"resources", "broker"} /\ Held(b) = Held(engine) \cup {"broker"}
  BY <1>1, <1>2, EngineOwn
<1> HIDE DEF b
<1>4. /\ a \in Engines /\ EngineStack(a) /\ SameEngine(a, b) /\ a.owned = Connected
      /\ Held(a) = Held(b) \cup {"activities"}
  <2>1. "activities" \notin b.owned
    BY <1>3
  <2>2. /\ a \in Engines /\ EngineStack(a) /\ SameEngine(a, b)
        /\ a.owned = b.owned \cup {"activities"} /\ Held(a) = Held(b) \cup {"activities"}
    BY <1>2, <1>3, <2>1, EngineOwn
  <2>3. QED
    BY <1>3, <2>2 DEF Connected
<1> HIDE DEF a
<1>5. /\ engine' = IF ok THEN [a EXCEPT !.pc = "connecting"] ELSE [b EXCEPT !.pc = "finally"]
      /\ open' = open \cup {<<"engine", "broker">>}
                   \cup (IF ok THEN {<<"engine", "activities">>} ELSE {})
  BY DEF AfterLoad, EngineBrokers, EngineFails, a, b
<1> DEFINE base == IF ok THEN a ELSE b
<1>6. /\ engine' \in Engines /\ engine'.pc = (IF ok THEN "connecting" ELSE "finally")
      /\ engine'.stack = base.stack /\ engine'.owned = base.owned
      /\ SameEngine(base, engine) /\ engine'.closing = base.closing /\ engine'.stop = base.stop
      /\ engine'.holder = base.holder /\ engine'.attempt = base.attempt
      /\ base \in Engines /\ EngineStack(base)
      /\ Held(base) = Held(engine) \cup {"broker"} \cup (IF ok THEN {"activities"} ELSE {})
  <2>1. CASE ok
    <3>1. base = a /\ engine' = [a EXCEPT !.pc = "connecting"]
      BY <1>5, <2>1
    <3>2. /\ engine' \in Engines /\ engine'.pc = "connecting" /\ SameStack(engine', a)
          /\ engine'.attempt = a.attempt
      BY <1>4, <3>1, EnginePc DEF EnginePcs
    <3>3. QED
      BY <1>3, <1>4, <2>1, <3>1, <3>2 DEF SameEngine, SameStack
  <2>2. CASE ~ok
    <3>1. base = b /\ engine' = [b EXCEPT !.pc = "finally"]
      BY <1>5, <2>2
    <3>2. /\ engine' \in Engines /\ engine'.pc = "finally" /\ SameStack(engine', b)
          /\ engine'.attempt = b.attempt
      BY <1>3, <3>1, EnginePc DEF EnginePcs
    <3>3. QED
      BY <1>3, <2>2, <3>1, <3>2 DEF SameEngine, SameStack
  <2>3. QED
    BY <2>1, <2>2
<1> HIDE DEF base
<1>7. Held(engine') = Held(base) /\ EngineStack(engine')
  BY <1>6 DEF Held, EngineStack, Once, Below
<1>8. engine'.owned = OwnedAt(engine')
  BY <1>3, <1>4, <1>6 DEF OwnedAt, base
<1>9. Held(loader') = Held(loader)
  BY <1>1 DEF Held
<1>10. EngineSound' /\ GatewaySound' /\ AppSound' /\ LoaderSound'
  BY <1>1, <1>6, <1>7, <1>8, <1>9, EngineGrows DEF SameEngine
<1>11. HostTypes'
  BY <1>1, <1>6, SameHost DEF HostInv, HostTypes
<1>12. OpenIsHeld'
  BY <1>5, <1>6, <1>7, <1>9 DEF HostInv, OpenIsHeld, OpenOf
<1>13. ConsumersSound'
  BY <1>6, <1>7 DEF HostInv, ConsumersSound, ConsumersIn
<1>14. QED
  BY <1>10, <1>11, <1>12, <1>13 DEF HostInv

\* While the engine loads, its health may be marked; the catalog only before it loads.
LEMMA LoadHealth ==
  ASSUME HostInv, NEW marked, engine.pc \in {"scheduled", "loading"},
         health' = Mark(marked, "ready"), "worker" \notin marked,
         "catalog" \in marked => engine.pc = "scheduled",
         engine'.stop = engine.stop, engine'.holder = engine.holder
  PROVE  health' \in [HealthComponents -> {"ready", "unavailable"}] /\ HealthSound'
<1>1. /\ health' \in [HealthComponents -> {"ready", "unavailable"}]
      /\ \A c \in HealthComponents : health'[c] = IF c \in marked THEN "ready" ELSE health[c]
  BY MarkFacts DEF HostInv
<1>2. engine.pc = "scheduled" => engine.stop = "no"
  BY DEF HostInv, EngineSound, EngineCore
<1>3. QED
  BY <1>1, <1>2, ConsumerHealthFacts DEF HostInv, HealthSound, HealthIn

\* Registering is all that registering does.
LEMMA OwnFacts ==
  ASSUME NEW e \in Engines, NEW n \in Components
  PROVE  Own(e, n) \in Engines /\ SameEngine(Own(e, n), e)
<1>1. e.stack \in Seq(Components) => Append(e.stack, n) \in Seq(Components)
  OBVIOUS
<1>2. QED
  BY <1>1 DEF Own, Engines, SameEngine

\* It neither begins nor ends a stop.
LEMMA AfterLoadStop ==
  ASSUME NEW ok, NEW marked, engine \in Engines, AfterLoad(ok, marked)
  PROVE  engine'.stop = engine.stop /\ engine'.holder = engine.holder
<1> DEFINE b == Own(engine, "broker")
           a == Own(b, "activities")
<1>1. "broker" \in Components /\ "activities" \in Components
  BY DEF Components
<1>2. b \in Engines /\ SameEngine(b, engine)
  BY <1>1, OwnFacts
<1> HIDE DEF b
<1>3. a \in Engines /\ SameEngine(a, b)
  BY <1>1, <1>2, OwnFacts
<1> HIDE DEF a
<1>4. engine' = [a EXCEPT !.pc = "connecting"] \/ engine' = [b EXCEPT !.pc = "finally"]
  BY DEF AfterLoad, EngineBrokers, EngineFails, a, b
<1>5. QED
  BY <1>2, <1>3, <1>4 DEF Engines, SameEngine

\* WorkflowEngine.start, up to its first await, keeps the invariant.
LEMMA BeginKeeps ==
  ASSUME HostInv, NEW outcome, NEW order, NEW checked, EngineBegin(outcome, order, checked)
  PROVE  HostInv'
<1> DEFINE marked == IF outcome = "configuration" THEN {} ELSE {"catalog"}
<1>1. /\ engine.pc = "scheduled" /\ UNCHANGED <<shape, plan, app, gateway, consumers>>
      /\ engine \in Engines /\ loader \in Loaders(Names) /\ engine.attempt < plan.attempts
      /\ LoaderCore(loader, ResourceNeeds) /\ HostTypes
  BY DEF EngineBegin, HostInv, HostTypes, EngineSound, LoaderSound
<1>2. /\ loader.next = 0 /\ Taken(loader) = {} /\ engine.stop = "no" /\ ~loader.closed
      /\ loader.closing = Nothing /\ loader.stack = <<>> /\ loader.loaded = {}
  BY <1>1, ScheduledLoader
<1>3. /\ "worker" \notin marked /\ "worker" \notin marked \cup {"providers"}
  OBVIOUS
<1>4. Resumed(loader)
  BY <1>1 DEF Resumed
<1>5. CASE /\ outcome # "ok" /\ engine' = EngineFails(engine) /\ health' = Mark(marked, "ready")
           /\ UNCHANGED <<loader, open>>
  <2>1. /\ engine' \in Engines /\ engine'.pc = "finally" /\ engine'.attempt = engine.attempt
        /\ engine'.cancelled = engine.cancelled /\ SameStack(engine', engine)
    BY <1>1, <1>5, EnginePc DEF EngineFails, EnginePcs
  <2>2. health' \in [HealthComponents -> {"ready", "unavailable"}] /\ HealthSound'
    BY <1>1, <1>3, <1>5, <2>1, LoadHealth DEF SameStack
  <2>3. Held(engine') = Held(engine)
    BY <2>1 DEF Held, SameStack
  <2>4. /\ ConsumersSound' /\ consumers' \in [Owners -> [Endpoints -> ConsumerStates]]
    BY <1>1, <2>3 DEF HostInv, HostTypes, ConsumersSound, ConsumersIn
  <2>5. QED
    BY <1>1, <1>5, <2>1, <2>2, <2>4, EngineMoves DEF Moves, SameStack
<1>6. CASE UnwindLoad(loader) /\ health' = Mark(marked, "ready") /\ UNCHANGED open
  <2>1. SameStack(engine', engine)
    BY <1>1, <1>6 DEF UnwindLoad, Engines, SameStack
  <2>2. health' \in [HealthComponents -> {"ready", "unavailable"}] /\ HealthSound'
    BY <1>1, <1>3, <1>6, <2>1, LoadHealth DEF SameStack
  <2>3. QED
    BY <1>1, <1>4, <1>6, <2>2, UnwindKeeps
<1>7. CASE AfterLoad(checked, marked \cup {"providers"}) /\ UNCHANGED loader
  <2>1. Resumed(loader')
    BY <1>1, <1>4, <1>7, SameHost DEF Resumed
  <2>2. engine'.stop = engine.stop /\ engine'.holder = engine.holder
    BY <1>1, <1>7, AfterLoadStop
  <2>3. health' = Mark(marked \cup {"providers"}, "ready")
    BY <1>7 DEF AfterLoad
  <2>4. health' \in [HealthComponents -> {"ready", "unavailable"}] /\ HealthSound'
    BY <1>1, <1>3, <2>2, <2>3, LoadHealth
  <2>5. QED
    BY <1>1, <1>2, <1>7, <2>1, <2>4, AfterLoadKeeps
<1>8. CASE /\ plan.names # <<>> /\ order \in LoadOrders(plan)
           /\ BuildNext([loader EXCEPT !.order = order]) /\ health' = Mark(marked, "ready")
  <2> DEFINE l == [loader EXCEPT !.order = order]
  <2>1. /\ order \in Seq(Names) /\ IsInjective(order) /\ Len(order) = Len(plan.names)
        /\ plan.names \in Seq(Names)
    BY <1>1, <1>8, PlanFacts
  <2>2. /\ l \in Loaders(Names) /\ l.order = order /\ l.next = loader.next
        /\ l.stack = loader.stack /\ l.closing = loader.closing /\ l.loaded = loader.loaded
        /\ l.closed = loader.closed /\ l.overlapped = loader.overlapped
    BY <1>1, <2>1 DEF Loaders
  <2>3. Held(l) = Held(loader)
    BY <2>2 DEF Held
  <2> HIDE DEF l
  <2>4. l.next < Len(l.order)
    BY <1>2, <1>8, <2>1, <2>2
  <2>5. LoaderCore(l, ResourceNeeds)
    <3>1. Once(l) /\ Below(l, ResourceNeeds) = Below(loader, ResourceNeeds)
      BY <1>1, <2>2 DEF LoaderCore, Once, Below
    <3>2. Taken(l) = {}
      BY <1>2, <2>2 DEF Taken
    <3>3. QED
      BY <1>1, <1>2, <2>1, <2>2, <2>3, <2>4, <3>1, <3>2 DEF LoaderCore
  <2>6. Resumed(l)
    BY <1>1, <2>2, <2>5 DEF Resumed
  <2>7. BuildNext(l)
    BY <1>8 DEF l
  <2>8. SameStack(engine', engine)
    BY <1>1, <2>7 DEF BuildNext, UnwindLoad, Engines, SameStack
  <2>9. health' \in [HealthComponents -> {"ready", "unavailable"}] /\ HealthSound'
    BY <1>1, <1>3, <1>8, <2>8, LoadHealth DEF SameStack
  <2>10. QED
    BY <1>1, <1>2, <2>4, <2>6, <2>7, <2>9, BuildKeeps
<1>9. QED
  BY <1>5, <1>6, <1>7, <1>8 DEF EngineBegin
\* What a resource that has been initialized adds to what the load has in hand.
LEMMA InitializedFacts ==
  ASSUME HostInv, engine.pc = "loading"
  PROVE  /\ Resumed(loader)
         /\ Resumed([loader EXCEPT !.loaded = @ \cup {loader.order[loader.next]}])
<1>1. /\ loader \in Loaders(Names) /\ LoaderCore(loader, ResourceNeeds) /\ loader.next >= 1
  BY DEF HostInv, HostTypes, LoaderSound, LoaderTies
<1>2. /\ loader.next \in Nat /\ loader.order \in Seq(Names) /\ loader.next <= Len(loader.order)
      /\ loader.loaded \subseteq Names
  BY <1>1 DEF Loaders, LoaderCore
<1>3. loader.order[loader.next] \in Names /\ loader.order[loader.next] \in Taken(loader)
  BY <1>1, <1>2 DEF Taken
<1> DEFINE m == [loader EXCEPT !.loaded = @ \cup {loader.order[loader.next]}]
<1>4. /\ m \in Loaders(Names) /\ m.order = loader.order /\ m.next = loader.next
      /\ m.stack = loader.stack /\ m.closing = loader.closing /\ m.closed = loader.closed
      /\ m.overlapped = loader.overlapped
      /\ m.loaded = loader.loaded \cup {loader.order[loader.next]}
  BY <1>1, <1>2, <1>3 DEF Loaders
<1> HIDE DEF m
<1>5. LoaderCore(m, ResourceNeeds)
  BY <1>1, <1>3, <1>4 DEF LoaderCore, Once, Held, Below, Taken
<1>6. Resumed(m) /\ Resumed(loader)
  BY <1>1, <1>4, <1>5 DEF Resumed
<1>7. QED
  BY <1>6 DEF m

\* A resource that is initialized, or fails to be, keeps the invariant.
LEMMA InitializedKeeps ==
  ASSUME HostInv, NEW ok, NEW checked, ResourceInitialized(ok, checked)
  PROVE  HostInv'
<1> DEFINE m == [loader EXCEPT !.loaded = @ \cup {loader.order[loader.next]}]
<1>1. /\ engine.pc = "loading" /\ ~engine.cancelled /\ engine \in Engines /\ HostTypes
      /\ UNCHANGED <<shape, plan, app, gateway, consumers>>
  BY DEF ResourceInitialized, HostInv, HostTypes
<1>2. Resumed(loader) /\ Resumed(m) /\ m.next = loader.next /\ m.order = loader.order
  BY <1>1, InitializedFacts DEF HostTypes, Loaders
<1> HIDE DEF m
<1>3. ASSUME SameStack(engine', engine), UNCHANGED health
      PROVE  health' \in [HealthComponents -> {"ready", "unavailable"}] /\ HealthSound'
  BY <1>1, <1>3 DEF HostInv, HostTypes, HealthSound, HealthIn, SameStack
<1>4. CASE UnwindLoad(loader) /\ UNCHANGED <<open, health>>
  <2>1. SameStack(engine', engine)
    BY <1>1, <1>4 DEF UnwindLoad, Engines, SameStack
  <2>2. QED
    BY <1>1, <1>2, <1>3, <1>4, <2>1, UnwindKeeps
<1>5. CASE loader.next < Len(loader.order) /\ BuildNext(m) /\ UNCHANGED health
  <2>1. SameStack(engine', engine)
    BY <1>1, <1>5 DEF BuildNext, UnwindLoad, Engines, SameStack
  <2>2. QED
    BY <1>1, <1>2, <1>3, <1>5, <2>1, BuildKeeps
<1>6. CASE loader' = m /\ AfterLoad(checked, {"providers"})
  <2>1. Resumed(loader')
    BY <1>1, <1>2, <1>6
  <2>2. engine'.stop = engine.stop /\ engine'.holder = engine.holder
    BY <1>1, <1>6, AfterLoadStop
  <2>3. health' = Mark({"providers"}, "ready")
    BY <1>6 DEF AfterLoad
  <2>4. health' \in [HealthComponents -> {"ready", "unavailable"}] /\ HealthSound'
    BY <1>1, <2>2, <2>3, LoadHealth
  <2>5. QED
    BY <1>1, <1>6, <2>1, <2>4, AfterLoadKeeps
<1>7. QED
  BY <1>4, <1>5, <1>6 DEF ResourceInitialized, m

\* A start that is cancelled at an await keeps the invariant.
LEMMA CancelledKeeps ==
  ASSUME HostInv, EngineCancelled
  PROVE  HostInv'
<1>1. /\ engine \in Engines /\ engine.attempt < plan.attempts /\ HostTypes
      /\ UNCHANGED <<shape, plan, app, gateway, consumers, open, health>>
  BY DEF HostInv, HostTypes, EngineSound, EngineCancelled
<1>2. CASE engine.pc = "loading" /\ UnwindLoad(loader)
  <2>1. SameStack(engine', engine)
    BY <1>1, <1>2 DEF UnwindLoad, Engines, SameStack
  <2>2. health' \in [HealthComponents -> {"ready", "unavailable"}] /\ HealthSound'
    BY <1>1, <2>1 DEF HostInv, HostTypes, HealthSound, HealthIn, SameStack
  <2>3. QED
    BY <1>1, <1>2, <2>2, InitializedFacts, UnwindKeeps
<1>3. CASE /\ engine.pc \in {"connecting", "ensuring", "routing", "consumers"}
           /\ engine' = EngineFails(engine) /\ UNCHANGED loader
  <2>1. /\ engine' \in Engines /\ engine'.pc = "finally" /\ engine'.attempt = engine.attempt
        /\ engine'.cancelled = engine.cancelled /\ SameStack(engine', engine)
    BY <1>1, <1>3, EnginePc DEF EngineFails, EnginePcs
  <2>2. QED
    BY <1>1, <1>3, <2>1, MovesQuietly DEF Moves
<1>4. QED
  BY <1>2, <1>3 DEF EngineCancelled

\* While the engine starts, nobody has stopped it but the application.
LEMMA NotStoppedByStart ==
  ASSUME HostInv, engine.pc \notin {"finally", "done"}
  PROVE  /\ engine.stop # "no" => engine.holder = "app"
         /\ shape = "engine" => engine.stop = "no"
BY DEF HostInv, HostTypes, Engines, EngineSound, EngineCore, EngineTies

\* The connection, made or refused, and what start opens on it keep the invariant.
LEMMA ConnectedKeeps ==
  ASSUME HostInv, NEW ok, EngineConnected(ok)
  PROVE  HostInv'
<1>1. /\ engine.pc = "connecting" /\ ~engine.cancelled /\ engine \in Engines /\ HostTypes
      /\ UNCHANGED <<shape, plan, app, gateway, loader, consumers>>
      /\ EngineStack(engine) /\ engine.owned = Connected /\ engine.attempt < plan.attempts
      /\ LoaderCore(loader, ResourceNeeds)
  BY DEF EngineConnected, HostInv, HostTypes, EngineSound, EngineCore, OwnedAt, LoaderSound
<1>2. CASE ~ok
  <2>1. engine' = EngineFails(engine) /\ UNCHANGED <<open, health>>
    BY <1>2 DEF EngineConnected
  <2>2. /\ engine' \in Engines /\ engine'.pc = "finally" /\ engine'.attempt = engine.attempt
        /\ engine'.cancelled = engine.cancelled /\ SameStack(engine', engine)
    BY <1>1, <2>1, EnginePc DEF EngineFails, EnginePcs
  <2>3. QED
    BY <1>1, <2>1, <2>2, MovesQuietly DEF Moves
<1>3. CASE ok
  <2> DEFINE a == Own(engine, "temporal-worker")
             b == Own(a, "schedule-worker")
  <2>1. /\ WorkerTasks = {"temporal-worker", "schedule-worker"} /\ WorkerTasks \subseteq Components
        /\ WorkerTasks \cap Endpoints = {} /\ WorkerTasks \cap Connected = {}
        /\ "resources" \notin WorkerTasks
    BY NamesAreNames DEF WorkerTasks, Components, Connected
  <2>2. /\ a \in Engines /\ EngineStack(a) /\ SameEngine(a, engine)
        /\ a.owned = Connected \cup {"temporal-worker"}
        /\ Held(a) = Held(engine) \cup {"temporal-worker"}
    BY <1>1, <2>1, EngineOwn
  <2> HIDE DEF a
  <2>3. "schedule-worker" \notin a.owned
    BY <2>1, <2>2
  <2>4. /\ b \in Engines /\ EngineStack(b) /\ SameEngine(b, a)
        /\ b.owned = a.owned \cup {"schedule-worker"} /\ Held(b) = Held(a) \cup {"schedule-worker"}
    BY <2>1, <2>2, <2>3, EngineOwn
  <2> HIDE DEF b
  <2>5. /\ engine' = [b EXCEPT !.pc = "ensuring", !.running = WorkerTasks]
        /\ open' = open \cup {<<"engine", t>> : t \in WorkerTasks}
        /\ health' = Mark({"temporal"}, "ready")
    BY <1>3 DEF EngineConnected, a, b
  <2>6. /\ engine' \in Engines /\ engine'.pc = "ensuring" /\ SameStack(engine', b)
        /\ engine'.attempt = b.attempt
    BY <2>4, <2>5 DEF Engines, EnginePcs, SameStack
  <2>7. Held(engine') = Held(b) /\ EngineStack(engine')
    BY <2>4, <2>6 DEF Held, EngineStack, Once, Below, SameStack
  <2>8. engine'.owned = OwnedAt(engine') /\ Held(engine') = Held(engine) \cup WorkerTasks
    BY <2>1, <2>2, <2>4, <2>6, <2>7 DEF OwnedAt, SameStack
  <2>9. EngineSound' /\ GatewaySound' /\ AppSound' /\ LoaderSound'
    BY <1>1, <2>2, <2>4, <2>6, <2>7, <2>8, SameHost, EngineGrows DEF SameEngine, SameStack
  <2>10. /\ health' \in [HealthComponents -> {"ready", "unavailable"}]
         /\ health'["catalog"] = health["catalog"] /\ health'["worker"] = health["worker"]
    BY <1>1, <2>5, MarkFacts, ConsumerHealthFacts
  <2>11. HealthSound'
    BY <2>2, <2>4, <2>6, <2>10 DEF HostInv, HealthSound, HealthIn, SameEngine, SameStack
  <2>12. HostTypes'
    BY <1>1, <2>6, <2>10, SameHost DEF HostTypes
  <2>13. OpenIsHeld'
    <3>1. OpenOf(gateway, engine', loader) =
            OpenOf(gateway, engine, loader) \cup {<<"engine", t>> : t \in WorkerTasks}
      BY <2>1, <2>8 DEF OpenOf
    <3>2. QED
      BY <1>1, <2>5, <3>1 DEF HostInv, OpenIsHeld
  <2>14. ConsumersSound'
    BY <1>1, <2>8 DEF HostInv, ConsumersSound, ConsumersIn
  <2>15. QED
    BY <2>9, <2>11, <2>12, <2>13, <2>14 DEF HostInv
<1>4. QED
  BY <1>2, <1>3
\* The engine's consumers are registered on top of their broker.
LEMMA EngineOwnsConsumer ==
  ASSUME NEW e \in Engines, EngineStack(e), NEW n, n \in Endpoints => n \notin e.owned,
         "broker" \in ToSet(e.stack)
  PROVE  LET d == OwnConsumer(e, n) IN
         /\ d \in Engines /\ EngineStack(d) /\ SameEngine(d, e)
         /\ d.owned = e.owned \cup ({n} \cap Endpoints)
         /\ Held(d) = Held(e) \cup ({n} \cap Endpoints) /\ "broker" \in ToSet(d.stack)
<1>1. CASE n \notin Endpoints
  BY <1>1 DEF OwnConsumer, SameEngine
<1>2. CASE n \in Endpoints
  <2>1. n \in Components /\ n \notin e.owned
    BY <1>2, NamesAreNames
  <2>2. OwnConsumer(e, n) = Own(e, n)
    BY <1>2 DEF OwnConsumer
  <2>3. QED
    BY <1>2, <2>1, <2>2, EngineOwn
<1>3. QED
  BY <1>1, <1>2

\* An answer to the wait for the worker's deployment keeps the invariant.
LEMMA RoutedKeeps ==
  ASSUME HostInv, NEW answer \in Answers, EngineRouted(answer)
  PROVE  HostInv'
<1>1. /\ engine.pc = "routing" /\ ~engine.cancelled /\ engine \in Engines /\ HostTypes
      /\ UNCHANGED <<shape, plan, app, gateway, loader>>
      /\ EngineStack(engine) /\ engine.owned = Connected \cup WorkerTasks
      /\ engine.attempt < plan.attempts /\ engine.attempt \in Nat /\ plan.attempts \in Nat
      /\ LoaderCore(loader, ResourceNeeds)
  BY PlanFacts DEF EngineRouted, HostInv, HostTypes, EngineSound, EngineCore, OwnedAt, LoaderSound, Engines
<1>2. CASE /\ engine' = EngineFails(engine) /\ UNCHANGED <<health, consumers, open>>
  <2>1. /\ engine' \in Engines /\ engine'.pc = "finally" /\ engine'.attempt = engine.attempt
        /\ engine'.cancelled = engine.cancelled /\ SameStack(engine', engine)
    BY <1>1, <1>2, EnginePc DEF EngineFails, EnginePcs
  <2>2. QED
    BY <1>1, <1>2, <2>1, MovesQuietly DEF Moves
<1>3. CASE /\ ~RouteFound(answer) /\ ~RouteFails(engine.attempt, answer) /\ answer \in Answers
           /\ engine' = [engine EXCEPT !.attempt = @ + 1] /\ UNCHANGED <<health, consumers, open>>
  <2>1. engine.attempt + 1 # plan.attempts
    BY <1>3 DEF RouteFails, RouteFound, Answers
  <2>2. engine.attempt + 1 \in Nat /\ engine.attempt + 1 < plan.attempts
    BY <1>1, <2>1
  <2>3. /\ engine' \in Engines /\ engine'.pc = engine.pc /\ engine'.attempt = engine.attempt + 1
        /\ engine'.cancelled = engine.cancelled /\ SameStack(engine', engine)
    BY <1>1, <1>3, <2>2 DEF Engines, SameStack
  <2>4. QED
    BY <1>1, <1>3, <2>2, <2>3, MovesQuietly DEF Moves
<1>4. CASE health' = Mark({"worker"}, "ready") /\ HasIngress /\ Endpoints # {}
           /\ consumers' = Started("engine")
           /\ engine' = [OwnConsumer(OwnConsumer(engine, "response"), "trigger") EXCEPT
                           !.pc = "consumers"]
           /\ open' = open \cup {<<"engine", e>> : e \in Endpoints}
  <2> DEFINE a == OwnConsumer(engine, "response")
             b == OwnConsumer(a, "trigger")
  <2>1. /\ engine.stop = "no" /\ ToSet(engine.stack) = engine.owned
    BY <1>1, <1>4, NotStoppedByStart DEF HasIngress, EngineStack
  <2>2. /\ "broker" \in ToSet(engine.stack) /\ Endpoints \cap engine.owned = {}
    BY <1>1, <2>1, NamesAreNames, HostAssumption DEF Connected, WorkerTasks
  <2>3. /\ a \in Engines /\ EngineStack(a) /\ SameEngine(a, engine)
        /\ a.owned = engine.owned \cup ({"response"} \cap Endpoints)
        /\ Held(a) = Held(engine) \cup ({"response"} \cap Endpoints) /\ "broker" \in ToSet(a.stack)
    BY <1>1, <2>2, EngineOwnsConsumer
  <2> HIDE DEF a
  <2>4. "trigger" \in Endpoints => "trigger" \notin a.owned
    BY <2>2, <2>3
  <2>5. /\ b \in Engines /\ EngineStack(b) /\ SameEngine(b, a)
        /\ b.owned = a.owned \cup ({"trigger"} \cap Endpoints)
        /\ Held(b) = Held(a) \cup ({"trigger"} \cap Endpoints)
    BY <2>3, <2>4, EngineOwnsConsumer
  <2> HIDE DEF b
  <2>6. engine' = [b EXCEPT !.pc = "consumers"]
    BY <1>4 DEF a, b
  <2>7. /\ engine' \in Engines /\ engine'.pc = "consumers" /\ SameStack(engine', b)
        /\ engine'.attempt = b.attempt
    BY <2>5, <2>6, EnginePc DEF EnginePcs
  <2>8. Held(engine') = Held(b) /\ EngineStack(engine')
    BY <2>5, <2>7 DEF Held, EngineStack, Once, Below, SameStack
  <2>9. engine'.owned = OwnedAt(engine') /\ Held(engine') = Held(engine) \cup Endpoints
    <3>1. "resources" \in engine'.owned
      BY <1>1, <2>3, <2>5, <2>7 DEF Connected, SameStack
    <3>2. QED
      BY <2>3, <2>5, <2>7, <2>8, <3>1, HostAssumption DEF OwnedAt
  <2>10. EngineSound' /\ GatewaySound' /\ AppSound' /\ LoaderSound'
    BY <1>1, <2>3, <2>5, <2>7, <2>8, <2>9, SameHost, EngineGrows DEF SameEngine, SameStack
  <2>11. health' \in [HealthComponents -> {"ready", "unavailable"}]
    BY <1>1, <1>4, MarkFacts
  <2>12. HealthSound'
    BY <2>1, <2>3, <2>5, <2>7 DEF HealthSound, HealthIn, SameEngine, SameStack
  <2>13. /\ consumers' \in [Owners -> [Endpoints -> ConsumerStates]]
         /\ consumers'["gateway"] = consumers["gateway"]
    BY <1>1, <1>4 DEF HostTypes, Started, Owners, ConsumerStates
  <2>14. HostTypes'
    BY <1>1, <2>7, <2>11, <2>13, SameHost DEF HostTypes
  <2>15. OpenIsHeld'
    <3>1. OpenOf(gateway, engine', loader) =
            OpenOf(gateway, engine, loader) \cup {<<"engine", e>> : e \in Endpoints}
      BY <2>9, NamesAreNames DEF OpenOf
    <3>2. QED
      BY <1>1, <1>4, <3>1 DEF HostInv, OpenIsHeld
  <2>16. ConsumersSound'
    BY <1>1, <2>9, <2>13 DEF HostInv, ConsumersSound, ConsumersIn
  <2>17. QED
    BY <2>10, <2>12, <2>14, <2>15, <2>16 DEF HostInv
<1>5. CASE /\ health' = Mark({"worker"}, "ready")
           /\ engine' = [engine EXCEPT !.pc = "supervising", !.ready = TRUE]
           /\ UNCHANGED <<consumers, open>>
  <2>1. /\ engine' \in Engines /\ engine'.pc = "supervising" /\ engine'.attempt = engine.attempt
        /\ engine'.cancelled = engine.cancelled /\ SameStack(engine', engine)
    BY <1>1, <1>5, EnginePcReady DEF EnginePcs
  <2>2. Held(engine') = Held(engine)
    BY <2>1 DEF Held, SameStack
  <2>3. /\ health' \in [HealthComponents -> {"ready", "unavailable"}]
        /\ health'["catalog"] = health["catalog"]
    BY <1>1, <1>5, MarkFacts, ConsumerHealthFacts
  <2>4. engine'.stop = "yes" => engine'.holder = "app"
    BY <1>1, <2>1, NotStoppedByStart DEF SameStack
  <2>5. HealthSound'
    BY <2>1, <2>3, <2>4 DEF HostInv, HealthSound, HealthIn, SameStack
  <2>6. /\ ConsumersSound' /\ consumers' \in [Owners -> [Endpoints -> ConsumerStates]]
    BY <1>1, <1>5, <2>2 DEF HostInv, HostTypes, ConsumersSound, ConsumersIn
  <2>7. QED
    BY <1>1, <1>5, <2>1, <2>3, <2>5, <2>6, EngineMoves DEF Moves, SameStack
<1>6. QED
  BY <1>2, <1>3, <1>4, <1>5 DEF EngineRouted
(***************************************************************************)
(* The stop.                                                               *)
(***************************************************************************)

\* WorkflowEngine.stop, begun by start itself or by the application, keeps the invariant.
LEMMA EngineStopBeginsKeeps ==
  ASSUME HostInv, NEW holder \in {"start", "app"}, EngineStopBegins(holder),
         holder = "start" => engine.pc = "finally",
         holder = "app" => app.pc = "stop_worker" /\ HasEngine,
         UNCHANGED <<shape, plan, app, gateway, loader, consumers, open, health>>
  PROVE  HostInv'
<1> DEFINE s == [engine EXCEPT !.stop = "closing", !.holder = holder, !.ready = FALSE]
<1>1. /\ engine \in Engines /\ engine.stop = "no" /\ engine' = PopNext(s) /\ HostTypes
      /\ EngineStack(engine) /\ engine.owned = OwnedAt(engine)
  BY DEF EngineStopBegins, HostInv, HostTypes, EngineSound, EngineCore
<1>2. "resources" \in ToSet(engine.stack) /\ engine.closing = Nothing
  BY <1>1 DEF EngineStack, OwnedAt, Connected
<1>3. /\ s \in Engines /\ s.stop = "closing" /\ s.holder = holder /\ s.pc = engine.pc
      /\ s.stack = engine.stack /\ s.closing = engine.closing /\ s.owned = engine.owned
      /\ s.attempt = engine.attempt /\ s.cancelled = engine.cancelled
  BY <1>1 DEF Engines
<1> HIDE DEF s
<1>4. EngineStack(s) /\ Held(s) = Held(engine)
  BY <1>1, <1>3 DEF EngineStack, Held, Once, Below
<1>5. s.stack # <<>>
  BY <1>2, <1>3 DEF ToSet
<1>6. /\ engine' \in Engines /\ EngineStack(engine') /\ Held(engine') = Held(s) \ {s.closing}
      /\ engine'.pc = s.pc /\ engine'.stop = s.stop /\ engine'.owned = s.owned
      /\ engine'.holder = s.holder /\ engine'.attempt = s.attempt
      /\ engine'.cancelled = s.cancelled /\ engine'.closing # Nothing
  BY <1>1, <1>3, <1>4, <1>5, EnginePop
<1>7. Held(engine') = Held(engine)
  BY <1>1, <1>2, <1>3, <1>4, <1>6, NothingIsNotHeld
<1>8. engine.pc \notin {"new", "scheduled", "done"}
  BY <1>1 DEF HostInv, AppSound, AppTies, EngineSound, EngineCore
<1>9. EngineCore(engine')
  <2>1. engine'.owned = OwnedAt(engine')
    BY <1>1, <1>3, <1>6 DEF OwnedAt
  <2>2. QED
    BY <1>3, <1>6, <1>8, <2>1 DEF EngineCore, Nothing
<1>10. EngineTies(engine, app, gateway.stop)'
  BY <1>1, <1>3, <1>6, <1>8, SameHost DEF HostInv, EngineSound, EngineTies, AppSound, AppTies
<1>11. LoaderTies(loader, engine', app.skipped)
  BY <1>1, <1>3, <1>6, <1>7 DEF HostInv, LoaderSound, LoaderTies
<1>12. LoaderSound'
  BY <1>11, SameHost DEF HostInv, LoaderSound
<1>13. EngineSound'
  BY <1>3, <1>6, <1>9, <1>10 DEF HostInv, EngineSound
<1>14. GatewaySound' /\ AppSound'
  BY <1>3, <1>6, SameHost DEF HostInv, GatewaySound, GatewayTies, AppSound, AppTies
<1>15. HostTypes' /\ HealthSound' /\ ConsumersSound'
  BY <1>3, <1>6, <1>7, SameHost DEF HostInv, HostTypes, HealthSound, HealthIn, ConsumersSound, ConsumersIn
<1>16. OpenIsHeld'
  BY <1>7, OpenSame DEF HostInv, OpenIsHeld
<1>17. QED
  BY <1>12, <1>13, <1>14, <1>15, <1>16 DEF HostInv

\* The finally of WorkflowEngine.start keeps the invariant.
LEMMA FinallyKeeps ==
  ASSUME HostInv, EngineFinally
  PROVE  HostInv'
<1>1. CASE EngineStopBegins("start")
  BY <1>1, EngineStopBeginsKeeps DEF EngineFinally
<1>2. CASE engine.stop = "yes" /\ engine' = [engine EXCEPT !.pc = "done"]
  <2>1. /\ engine \in Engines /\ engine.pc = "finally" /\ engine.attempt < plan.attempts
        /\ UNCHANGED <<shape, plan, app, gateway, loader, consumers, open, health>>
    BY DEF EngineFinally, HostInv, HostTypes, EngineSound
  <2>2. /\ engine' \in Engines /\ engine'.pc = "done" /\ engine'.attempt = engine.attempt
        /\ engine'.cancelled = engine.cancelled /\ SameStack(engine', engine)
    BY <1>2, <2>1, EnginePc DEF EnginePcs
  <2>3. QED
    BY <1>2, <2>1, <2>2, MovesQuietly DEF Moves
<1>3. QED
  BY <1>1, <1>2 DEF EngineFinally

\* The stop that begins to unwind the resources keeps the invariant.
LEMMA ClosesResourcesKeeps ==
  ASSUME HostInv, EngineClosesResources
  PROVE  HostInv'
<1> DEFINE u == Unwound(loader)
           v == [u EXCEPT !.overlapped = engine.pc = "loading"]
<1>1. /\ engine.stop = "closing" /\ engine.closing = "resources" /\ ~loader.closed
      /\ loader.stack # <<>> /\ loader' = v /\ HostTypes /\ loader \in Loaders(Names)
      /\ UNCHANGED <<shape, plan, app, gateway, engine, consumers, open, health>>
      /\ LoaderCore(loader, ResourceNeeds) /\ LoaderTies(loader, engine, app.skipped)
  BY DEF EngineClosesResources, HostInv, HostTypes, LoaderSound
<1>2. /\ Nothing \notin Names /\ \A a, b : <<a, b>> \in ResourceNeeds => a # Nothing
  BY <1>1, PlanFacts
<1>3. /\ u \in Loaders(Names) /\ LoaderCore(u, ResourceNeeds) /\ u.closed /\ Held(u) = Held(loader)
      /\ u.order = loader.order /\ u.next = loader.next /\ u.closing # Nothing
  BY <1>1, <1>2, LoaderUnwound
<1>4. ~u.overlapped
  BY <1>1 DEF LoaderCore, Unwound, PopNext, Loaders
<1> HIDE DEF u
<1>5. /\ v \in Loaders(Names) /\ v.order = u.order /\ v.next = u.next /\ v.stack = u.stack
      /\ v.closing = u.closing /\ v.loaded = u.loaded /\ v.closed = u.closed
  BY <1>3 DEF Loaders
<1> HIDE DEF v
<1>6. LoaderCore(v, ResourceNeeds) /\ Held(v) = Held(u)
  BY <1>3, <1>4, <1>5 DEF LoaderCore, Held, Once, Below, Taken
<1>7. LoaderTies(v, engine, app.skipped)
  <2>1. engine.pc \notin {"new", "scheduled", "unwinding"}
    BY <1>1 DEF HostInv, EngineSound, EngineCore, LoaderTies
  <2>2. "resources" \in Held(engine)
    BY <1>1 DEF Held, HeldIn, Nothing
  <2>3. QED
    BY <1>1, <1>3, <1>5, <2>1, <2>2 DEF LoaderTies
<1>8. LoaderSound'
  BY <1>1, <1>6, <1>7, SameHost DEF LoaderSound
<1>9. EngineSound' /\ GatewaySound' /\ AppSound'
  BY <1>1, SameHost DEF HostInv, EngineSound, EngineTies, GatewaySound, GatewayTies, AppSound, AppTies
<1>10. HostTypes'
  BY <1>1, <1>5, SameHost DEF HostInv, HostTypes
<1>11. HealthSound' /\ ConsumersSound'
  BY <1>1 DEF HostInv, HealthSound, ConsumersSound
<1>12. OpenIsHeld'
  BY <1>1, <1>3, <1>6 DEF HostInv, OpenIsHeld, OpenOf
<1>13. QED
  BY <1>8, <1>9, <1>10, <1>11, <1>12 DEF HostInv
\* What the rest of the process knows of the engine does not ask which workers run or
\* whether a cleanup failed.
LEMMA CloseNextFacts ==
  ASSUME HostInv, NEW e \in Engines, SameStack(e, engine), e.pc = engine.pc,
         e.attempt = engine.attempt, e.cancelled = engine.cancelled,
         engine.stop = "closing", NEW failed \in BOOLEAN, EngineCloseNext(e, failed),
         UNCHANGED <<shape, plan, gateway>>
  PROVE  /\ EngineSound' /\ GatewaySound' /\ AppSound' /\ HealthSound'
         /\ engine' \in Engines /\ app' \in Apps
         /\ health' \in [HealthComponents -> {"ready", "unavailable"}]
         /\ Held(engine') = Held(engine) \ {engine.closing} /\ engine'.pc = engine.pc
         /\ engine'.stop \in {"closing", "yes"} /\ (engine.stack = <<>> => engine'.stop = "yes")
         /\ app.skipped => app'.skipped
<1> DEFINE s == [e EXCEPT !.failed = @ \/ failed]
           after == PopNext(s)
           raises == after.failed /\ e.holder = "app"
<1>1. /\ EngineStack(engine) /\ engine \in Engines /\ HostTypes /\ engine.owned = OwnedAt(engine)
      /\ EngineCore(engine) /\ EngineTies(engine, app, gateway.stop) /\ engine.attempt < plan.attempts
      /\ app \in Apps
  BY DEF HostInv, HostTypes, EngineSound, EngineCore
<1>2. /\ s \in Engines /\ SameStack(s, e) /\ s.pc = e.pc /\ s.attempt = e.attempt
      /\ s.cancelled = e.cancelled
  BY DEF Engines, SameStack
<1>3. /\ IF after.closing # Nothing
         THEN engine' = after /\ UNCHANGED <<app, health>>
         ELSE /\ engine' = [after EXCEPT !.stop = "yes",
                   !.cancelled = e.holder = "app" /\ ~raises /\ e.pc \notin {"finally", "done"}]
              /\ app' = IF e.holder # "app" THEN app
                        ELSE IF raises THEN [app EXCEPT !.pc = "down", !.skipped = TRUE]
                        ELSE [app EXCEPT !.pc = "reaping"]
              /\ health' = EngineStoppedHealth
  BY DEF EngineCloseNext
<1> HIDE DEF s
<1>4. EngineStack(s) /\ Held(s) = Held(engine) /\ s.stop # "no"
  BY <1>1, <1>2 DEF EngineStack, Held, Once, Below, SameStack
<1>5. /\ after \in Engines /\ EngineStack(after) /\ Held(after) = Held(s) \ {s.closing}
      /\ after.pc = s.pc /\ after.attempt = s.attempt /\ after.stop = s.stop
      /\ after.owned = s.owned /\ after.holder = s.holder /\ after.cancelled = s.cancelled
      /\ (after.closing = Nothing <=> s.stack = <<>>) /\ (s.stack = <<>> => after.stack = <<>>)
  BY <1>2, <1>4, EnginePop
<1> HIDE DEF after
<1>6. /\ Held(after) = Held(engine) \ {engine.closing} /\ after.pc = engine.pc
      /\ after.stop = "closing" /\ after.owned = engine.owned /\ after.holder = engine.holder
      /\ after.attempt = engine.attempt /\ after.cancelled = engine.cancelled
      /\ e.holder = engine.holder /\ e.pc = engine.pc
      /\ (after.closing = Nothing <=> engine.stack = <<>>)
      /\ (engine.stack = <<>> => after.stack = <<>>)
  BY <1>2, <1>4, <1>5 DEF SameStack
<1>7. /\ engine.pc \notin {"new", "scheduled", "done"} /\ engine.holder \in {"start", "app"} /\ HasEngine
      /\ engine.holder = "start" => engine.pc \in {"finally", "done"}
  BY <1>1 DEF EngineCore, EngineTies, Engines
<1>8. CASE after.closing # Nothing
  <2>1. engine' = after /\ UNCHANGED <<app, health>>
    BY <1>3, <1>8
  <2>2. EngineCore(after)
    <3>1. after.owned = OwnedAt(after)
      BY <1>1, <1>6 DEF OwnedAt
    <3>2. QED
      BY <1>1, <1>5, <1>6, <1>7, <1>8, <3>1 DEF EngineCore
  <2>3. EngineTies(engine, app, gateway.stop)'
    BY <1>1, <1>6, <1>7, <2>1, SameHost DEF EngineTies
  <2>4. EngineSound'
    BY <1>1, <1>6, <2>1, <2>2, <2>3 DEF EngineSound
  <2>5. GatewaySound' /\ AppSound'
    BY <1>6, <2>1, SameHost DEF HostInv, GatewaySound, GatewayTies, AppSound, AppTies
  <2>6. HealthSound'
    BY <1>6, <2>1 DEF HealthSound, HealthIn
  <2>7. QED
    BY <1>1, <1>5, <1>6, <1>8, <2>1, <2>4, <2>5, <2>6 DEF HostTypes
<1>9. CASE after.closing = Nothing
  <2>1. /\ engine' = [after EXCEPT !.stop = "yes",
             !.cancelled = e.holder = "app" /\ ~raises /\ e.pc \notin {"finally", "done"}]
        /\ app' = IF e.holder # "app" THEN app
                  ELSE IF raises THEN [app EXCEPT !.pc = "down", !.skipped = TRUE]
                  ELSE [app EXCEPT !.pc = "reaping"]
        /\ health' = EngineStoppedHealth
    BY <1>3, <1>9
  <2> DEFINE raised == raises
  <2>2. /\ engine' = [after EXCEPT !.stop = "yes",
             !.cancelled = e.holder = "app" /\ ~raised /\ e.pc \notin {"finally", "done"}]
        /\ raised \in BOOLEAN /\ (raised => e.holder = "app")
        /\ app' = IF e.holder # "app" THEN app
                  ELSE IF raised THEN [app EXCEPT !.pc = "down", !.skipped = TRUE]
                  ELSE [app EXCEPT !.pc = "reaping"]
    BY <1>5, <2>1 DEF Engines
  <2> HIDE DEF raised, raises
  <2>3. /\ engine' \in Engines /\ engine'.pc = after.pc /\ engine'.stop = "yes"
        /\ engine'.stack = after.stack /\ engine'.closing = after.closing
        /\ engine'.owned = after.owned /\ engine'.holder = after.holder
        /\ engine'.attempt = after.attempt
        /\ engine'.cancelled = (e.holder = "app" /\ ~raised /\ e.pc \notin {"finally", "done"})
    BY <1>5, <2>2 DEF Engines
  <2>4. /\ Held(engine') = Held(after) /\ EngineStack(engine') /\ engine'.stack = <<>>
    BY <1>5, <1>6, <1>9, <2>3 DEF Held, EngineStack, Once, Below
  <2>5. /\ app' \in Apps /\ app'.worker = app.worker
        /\ engine.holder # "app" => app' = app
        /\ engine.holder = "app" /\ raised => app'.pc = "down" /\ app'.skipped
        /\ engine.holder = "app" /\ ~raised => app'.pc = "reaping" /\ app'.skipped = app.skipped
    BY <1>1, <1>6, <2>2 DEF Apps
  <2>6. engine.holder = "app" => app.pc = "stop_worker" /\ ~app.skipped
    BY <1>1 DEF EngineTies
  <2>7. EngineCore(engine')
    <3>1. engine'.owned = OwnedAt(engine')
      BY <1>1, <1>6, <2>3 DEF OwnedAt
    <3>2. QED
      BY <1>6, <1>7, <1>9, <2>3, <2>4, <3>1, NamesAreNames DEF EngineCore, Nothing
  <2>8. EngineTies(engine', app', gateway.stop)
    <3>1. engine'.pc \notin {"finally", "done"} => engine'.cancelled \/ app'.skipped
      BY <1>6, <1>7, <2>3, <2>5
    <3>2. engine'.holder = "app" => /\ app'.pc \in {"stop_worker", "reaping", "down"} /\ shape # "engine"
                                    /\ HasGateway => gateway.stop = "yes"
      BY <1>1, <1>6, <2>2, <2>3, <2>5 DEF EngineTies
    <3>3. QED
      BY <1>6, <1>7, <2>3, <2>4, <3>1, <3>2 DEF EngineTies
  <2>9. EngineSound'
    BY <1>1, <1>6, <2>3, <2>7, <2>8, SameHost DEF EngineSound, EngineTies
  <2>10. AppTies(app', gateway, engine')
    <3>1. AppTies(app, gateway, engine)
      BY DEF HostInv, AppSound
    <3>2. engine.holder = "app" => (HasGateway => gateway.stop = "yes") /\ shape # "engine"
      BY <1>1 DEF EngineTies
    <3>3. QED
      BY <1>6, <1>7, <2>2, <2>3, <2>5, <2>6, <3>1, <3>2 DEF AppTies
  <2>11. AppSound'
    BY <2>10, SameHost DEF AppSound, AppTies
  <2>12. GatewaySound'
    <3>1. GatewaySound
      BY DEF HostInv
    <3>2. GatewayTies(gateway, app')
      BY <1>7, <2>5, <2>6, <3>1 DEF GatewaySound, GatewayTies
    <3>3. QED
      BY <3>1, <3>2, SameHost DEF GatewaySound, GatewayTies
  <2>13. /\ health' \in [HealthComponents -> {"ready", "unavailable"}]
         /\ health'["catalog"] = "unavailable" /\ health'["worker"] = "unavailable"
    BY <1>1, <2>1, MarkFacts, ConsumerHealthFacts DEF EngineStoppedHealth
  <2>14. HealthSound'
    BY <2>13 DEF HealthSound, HealthIn
  <2>15. QED
    BY <1>6, <2>2, <2>3, <2>4, <2>5, <2>6, <2>9, <2>11, <2>12, <2>13, <2>14
<1>10. QED
  BY <1>8, <1>9

\* A resource that is closed, for whoever closes it, keeps the invariant.
LEMMA ResourceClosedKeeps ==
  ASSUME HostInv, NEW ok \in BOOLEAN, ResourceClosed(ok)
  PROVE  HostInv'
<1> DEFINE p == PopNext(loader)
           q == [p EXCEPT !.loaded = {}]
<1>1. /\ loader.closing # Nothing /\ HostTypes /\ loader \in Loaders(Names) /\ engine \in Engines
      /\ UNCHANGED <<shape, plan, gateway, consumers>>
      /\ open' = open \ {<<"loader", loader.closing>>}
      /\ LoaderCore(loader, ResourceNeeds) /\ LoaderTies(loader, engine, app.skipped)
      /\ engine.attempt < plan.attempts
  BY DEF ResourceClosed, HostInv, HostTypes, LoaderSound, EngineSound
<1>2. /\ Nothing \notin Names /\ \A a, b : <<a, b>> \in ResourceNeeds => a # Nothing
  BY <1>1, PlanFacts
<1>3. loader.closed
  BY <1>1 DEF LoaderCore
<1>4. /\ p \in Loaders(Names) /\ LoaderCore(p, ResourceNeeds) /\ p.closed
      /\ Held(p) = Held(loader) \ {loader.closing} /\ p.order = loader.order /\ p.next = loader.next
      /\ (p.closing = Nothing <=> loader.stack = <<>>) /\ (loader.stack = <<>> => p.stack = <<>>)
  BY <1>1, <1>2, <1>3, LoaderPop
<1>5. CASE p.closing # Nothing
  <2>1. loader' = p /\ UNCHANGED <<engine, app, health>>
    BY <1>5 DEF ResourceClosed
  <2> HIDE DEF p
  <2>2. LoaderTies(p, engine, app.skipped)
    <3>1. Held(loader) # {}
      BY <1>1 DEF Held, HeldIn
    <3>2. QED
      BY <1>1, <1>3, <1>4, <1>5, <3>1 DEF LoaderTies
  <2>3. LoaderSound'
    BY <1>1, <1>4, <2>1, <2>2, SameHost DEF LoaderSound
  <2>4. EngineSound' /\ GatewaySound' /\ AppSound'
    BY <1>1, <2>1, SameHost DEF HostInv, EngineSound, EngineTies, GatewaySound, GatewayTies, AppSound, AppTies
  <2>5. HostTypes' /\ HealthSound' /\ ConsumersSound'
    BY <1>1, <1>4, <2>1, SameHost DEF HostInv, HostTypes, HealthSound, ConsumersSound
  <2>6. OpenIsHeld'
    <3>1. OpenOf(gateway, engine, p) = OpenOf(gateway, engine, loader) \ {<<"loader", loader.closing>>}
      BY <1>4 DEF OpenOf
    <3>2. QED
      BY <1>1, <2>1, <3>1 DEF HostInv, OpenIsHeld
  <2>7. QED
    BY <2>3, <2>4, <2>5, <2>6 DEF HostInv
<1>6. CASE p.closing = Nothing
  <2>1. /\ loader' = q
        /\ \/ engine.pc = "unwinding" /\ engine' = EngineFails(engine) /\ UNCHANGED <<app, health>>
           \/ engine.pc # "unwinding" /\ EngineCloseNext(engine, ~ok)
    BY <1>6 DEF ResourceClosed
  <2> HIDE DEF p
  <2>2. /\ q \in Loaders(Names) /\ q.order = p.order /\ q.next = p.next /\ q.stack = p.stack
        /\ q.closing = p.closing /\ q.loaded = {} /\ q.closed = p.closed
        /\ q.overlapped = p.overlapped
    BY <1>4 DEF Loaders
  <2> HIDE DEF q
  <2>3. LoaderCore(q, ResourceNeeds) /\ Held(q) = Held(p)
    BY <1>4, <2>2 DEF LoaderCore, Held, Once, Below, Taken
  <2>4. q.stack = <<>> /\ Held(q) = {} /\ q.closed /\ q.closing = Nothing
    BY <1>4, <1>6, <2>2, EmptyKeeps DEF Held
  <2>5. /\ EngineSound' /\ GatewaySound' /\ AppSound' /\ HealthSound' /\ engine' \in Engines
        /\ app' \in Apps /\ health' \in [HealthComponents -> {"ready", "unavailable"}]
        /\ LoaderTies(q, engine', app'.skipped) /\ Held(engine') \ {"resources"} = Held(engine) \ {"resources"}
        /\ ConsumersSound'
    <3>1. CASE engine.pc = "unwinding" /\ engine' = EngineFails(engine) /\ UNCHANGED <<app, health>>
      <4>1. /\ engine' \in Engines /\ engine'.pc = "finally" /\ engine'.attempt = engine.attempt
            /\ engine'.cancelled = engine.cancelled /\ SameStack(engine', engine)
        BY <1>1, <3>1, EnginePc DEF EngineFails, EnginePcs
      <4>2. EngineSound' /\ GatewaySound' /\ AppSound' /\ Held(engine') = Held(engine)
        BY <1>1, <3>1, <4>1, EngineGoesOn DEF Moves, SameStack
      <4>3. LoaderTies(q, engine', app.skipped)
        BY <2>4, <4>1 DEF LoaderTies
      <4>4. HealthSound'
        BY <3>1, <4>1 DEF HostInv, HealthSound, HealthIn, SameStack
      <4>5. ConsumersSound'
        BY <1>1, <4>2 DEF HostInv, ConsumersSound, ConsumersIn
      <4>6. QED
        BY <1>1, <3>1, <4>1, <4>2, <4>3, <4>4, <4>5 DEF HostTypes
    <3>2. CASE engine.pc # "unwinding" /\ EngineCloseNext(engine, ~ok)
      <4>1. engine.stop = "closing" /\ engine.closing = "resources"
        BY <1>1, <3>2 DEF LoaderTies
      <4>2. SameStack(engine, engine) /\ (~ok) \in BOOLEAN
        BY DEF SameStack
      <4>3. /\ EngineSound' /\ GatewaySound' /\ AppSound' /\ HealthSound'
            /\ engine' \in Engines /\ app' \in Apps
            /\ health' \in [HealthComponents -> {"ready", "unavailable"}]
            /\ Held(engine') = Held(engine) \ {engine.closing} /\ engine'.pc = engine.pc
            /\ engine'.stop \in {"closing", "yes"} /\ (engine.stack = <<>> => engine'.stop = "yes")
            /\ app.skipped => app'.skipped
        BY <1>1, <3>2, <4>1, <4>2, CloseNextFacts
      <4>4. engine.pc \notin {"new", "scheduled"}
        BY <4>1 DEF HostInv, EngineSound, EngineCore
      <4>5. engine.pc = "loading" => engine.stack = <<>>
        BY <4>1, LoadingHolds
      <4>6. LoaderTies(q, engine', app'.skipped)
        BY <2>4, <3>2, <4>3, <4>4, <4>5, <1>1, <1>4, <2>2 DEF LoaderTies
      <4>7. ConsumersSound'
        BY <1>1, <4>1, <4>3, NamesAreNames DEF HostInv, ConsumersSound, ConsumersIn
      <4>8. QED
        BY <4>1, <4>3, <4>6, <4>7
    <3>3. QED
      BY <2>1, <3>1, <3>2
  <2>6. LoaderSound'
    BY <1>1, <2>1, <2>3, <2>5, SameHost DEF LoaderSound
  <2>7. HostTypes'
    BY <1>1, <2>1, <2>2, <2>5, SameHost DEF HostTypes
  <2>8. OpenIsHeld'
    <3>1. OpenOf(gateway, engine', q) = OpenOf(gateway, engine, loader) \ {<<"loader", loader.closing>>}
      BY <1>4, <2>3, <2>5 DEF OpenOf
    <3>2. QED
      BY <1>1, <2>1, <3>1 DEF HostInv, OpenIsHeld
  <2>9. QED
    BY <2>5, <2>6, <2>7, <2>8 DEF HostInv
<1>7. QED
  BY <1>5, <1>6

\* A component of the engine that is closed keeps the invariant.
LEMMA ComponentClosedKeeps ==
  ASSUME HostInv, NEW ok \in BOOLEAN, EngineComponentClosed(ok)
  PROVE  HostInv'
<1> DEFINE c == engine.closing
           e == [engine EXCEPT !.running = @ \ {c}]
           v == [loader EXCEPT !.closed = TRUE]
<1>1. /\ engine.stop = "closing" /\ c # Nothing /\ HostTypes /\ loader \in Loaders(Names)
      /\ engine \in Engines /\ UNCHANGED <<shape, plan, gateway>>
      /\ open' = open \ {<<"engine", c>>}
      /\ consumers' = (IF c \in Endpoints THEN [consumers EXCEPT !["engine"][c] = "done"]
                       ELSE consumers)
      /\ EngineCloseNext(e, ~ok)
      /\ LoaderCore(loader, ResourceNeeds) /\ LoaderTies(loader, engine, app.skipped)
      /\ consumers \in [Owners -> [Endpoints -> ConsumerStates]]
  BY DEF EngineComponentClosed, HostInv, HostTypes, LoaderSound
<1>2. /\ e \in Engines /\ SameStack(e, engine) /\ e.pc = engine.pc /\ e.attempt = engine.attempt
      /\ e.cancelled = engine.cancelled /\ (~ok) \in BOOLEAN
  BY <1>1 DEF Engines, SameStack
<1> HIDE DEF e
<1>3. /\ EngineSound' /\ GatewaySound' /\ AppSound' /\ HealthSound'
      /\ engine' \in Engines /\ app' \in Apps
      /\ health' \in [HealthComponents -> {"ready", "unavailable"}]
      /\ Held(engine') = Held(engine) \ {engine.closing} /\ engine'.pc = engine.pc
      /\ engine'.stop \in {"closing", "yes"} /\ (engine.stack = <<>> => engine'.stop = "yes")
      /\ app.skipped => app'.skipped
  BY <1>1, <1>2, CloseNextFacts
<1>4. /\ engine.pc \notin {"new", "scheduled"} /\ c \in Held(engine)
      /\ engine.pc \in {"loading", "unwinding"} => engine.stack = <<>> /\ Held(engine) \subseteq {"resources"}
  BY <1>1, LoadingHolds DEF HostInv, EngineSound, EngineCore, Held, HeldIn
<1>5. /\ LoaderCore(loader', ResourceNeeds) /\ loader' \in Loaders(Names) /\ Held(loader') = Held(loader)
      /\ LoaderTies(loader', engine', app'.skipped)
  <2>1. CASE c = "resources" /\ loader.closed /\ loader.closing = Nothing /\ UNCHANGED loader
    <3>1. loader.stack = <<>> => Held(loader) = {}
      BY <2>1, EmptyKeeps DEF Held
    <3>2. QED
      BY <1>1, <1>3, <1>4, <2>1, <3>1 DEF LoaderTies
  <2>2. CASE c = "resources" /\ engine.pc = "unwinding" /\ UNCHANGED loader
    BY <1>1, <1>3, <1>4, <2>2 DEF LoaderTies
  <2>3. CASE c = "resources" /\ ~loader.closed /\ loader.stack = <<>> /\ loader' = v
    <3>1. /\ v \in Loaders(Names) /\ v.order = loader.order /\ v.next = loader.next
          /\ v.stack = loader.stack /\ v.closing = loader.closing /\ v.loaded = loader.loaded
          /\ v.closed /\ v.overlapped = loader.overlapped
      BY <1>1 DEF Loaders
    <3> HIDE DEF v
    <3>2. LoaderCore(v, ResourceNeeds) /\ Held(v) = Held(loader)
      BY <1>1, <3>1 DEF LoaderCore, Held, Once, Below, Taken
    <3>3. loader.closing = Nothing /\ Held(loader) = {}
      BY <1>1, <2>3, EmptyKeeps DEF LoaderCore, Held
    <3>4. LoaderTies(v, engine', app'.skipped)
      BY <1>1, <1>3, <1>4, <2>3, <3>1, <3>2, <3>3 DEF LoaderTies
    <3>5. QED
      BY <2>3, <3>1, <3>2, <3>4
  <2>4. CASE c # "resources" /\ UNCHANGED loader
    BY <1>1, <1>3, <1>4, <2>4 DEF LoaderTies
  <2>5. QED
    BY <2>1, <2>2, <2>3, <2>4 DEF EngineComponentClosed
<1>6. LoaderSound'
  BY <1>1, <1>5, SameHost DEF LoaderSound
<1>7. /\ consumers' \in [Owners -> [Endpoints -> ConsumerStates]]
      /\ consumers'["gateway"] = consumers["gateway"]
      /\ \A n \in Endpoints : consumers'["engine"][n] = IF n = c THEN "done" ELSE consumers["engine"][n]
  BY <1>1 DEF Owners, ConsumerStates
<1>8. ConsumersSound'
  BY <1>1, <1>3, <1>7 DEF HostInv, ConsumersSound, ConsumersIn
<1>9. HostTypes'
  BY <1>1, <1>3, <1>5, <1>7, SameHost DEF HostTypes
<1>10. OpenIsHeld'
  <2>1. OpenOf(gateway, engine', loader') = OpenOf(gateway, engine, loader) \ {<<"engine", c>>}
    BY <1>3, <1>5 DEF OpenOf
  <2>2. QED
    BY <1>1, <2>1 DEF HostInv, OpenIsHeld
<1>11. QED
  BY <1>3, <1>6, <1>8, <1>9, <1>10 DEF HostInv
(***************************************************************************)
(* The gateway's start.                                                    *)
(***************************************************************************)
\* What the rest of the process knows of the gateway while it starts.
LEMMA GatewayGoesOn ==
  ASSUME HostInv, UNCHANGED <<shape, plan, app, engine, loader>>,
         gateway' \in Gateways, GatewayCore(gateway'), gateway'.attempt < plan.attempts,
         gateway'.stop = gateway.stop, gateway'.holder = gateway.holder,
         gateway.pc # "new", gateway'.pc # "new", engine.pc # "scheduled"
  PROVE  EngineSound' /\ GatewaySound' /\ AppSound' /\ LoaderSound'
<1>1. EngineSound'
  BY SameHost DEF HostInv, EngineSound, EngineTies
<1>2. GatewaySound'
  BY SameHost DEF HostInv, GatewaySound, GatewayTies
<1>3. AppSound'
  <2>1. AppTies(app, gateway, engine) /\ EngineTies(engine, app, gateway.stop)
    BY DEF HostInv, AppSound, EngineSound
  <2>2. AppTies(app, gateway', engine)
    BY <2>1 DEF AppTies, EngineTies
  <2>3. QED
    BY <2>2, SameHost DEF AppSound, AppTies
<1>4. LoaderSound'
  BY SameHost DEF HostInv, LoaderSound
<1>5. QED
  BY <1>1, <1>2, <1>3, <1>4

\* RuntimeGateway.start moving on with nothing opened or closed.
LEMMA GatewayMovesQuietly ==
  ASSUME HostInv, UNCHANGED <<shape, plan, app, engine, loader, consumers, open>>,
         gateway' \in Gateways, GatewayCore(gateway'), gateway'.attempt < plan.attempts,
         gateway'.stop = gateway.stop, gateway'.holder = gateway.holder,
         gateway'.stack = gateway.stack, gateway'.closing = gateway.closing,
         gateway'.overtaken = gateway.overtaken,
         gateway.pc # "new", gateway'.pc # "new", engine.pc # "scheduled",
         health' \in [HealthComponents -> {"ready", "unavailable"}], HealthSound'
  PROVE  HostInv'
<1>1. EngineSound' /\ GatewaySound' /\ AppSound' /\ LoaderSound'
  BY GatewayGoesOn
<1>2. Held(gateway') = Held(gateway)
  BY DEF Held
<1>3. OpenIsHeld'
  BY <1>2, OpenSame DEF HostInv, OpenIsHeld
<1>4. HostTypes'
  BY SameHost DEF HostInv, HostTypes
<1>5. ConsumersSound'
  BY <1>2 DEF HostInv, ConsumersSound, ConsumersIn
<1>6. QED
  BY <1>1, <1>3, <1>4, <1>5 DEF HostInv

\* What a change of pc alone leaves of the gateway.
LEMMA GatewayPc ==
  ASSUME NEW g \in Gateways, GatewayCore(g), NEW p \in GatewayPcs \ {"new", "scheduled"},
         p \in {"connecting", "routing"} => g.pc \in {"connecting", "routing"}
  PROVE  LET d == [g EXCEPT !.pc = p] IN
         /\ d \in Gateways /\ GatewayCore(d) /\ d.pc = p /\ d.attempt = g.attempt
         /\ d.stack = g.stack /\ d.closing = g.closing /\ d.stop = g.stop /\ d.holder = g.holder
         /\ d.overtaken = g.overtaken
<1> DEFINE d == [g EXCEPT !.pc = p]
<1>1. /\ d \in Gateways /\ d.pc = p /\ d.attempt = g.attempt /\ d.stack = g.stack
      /\ d.closing = g.closing /\ d.stop = g.stop /\ d.holder = g.holder
      /\ d.overtaken = g.overtaken
  BY DEF Gateways
<1> HIDE DEF d
<1>2. Held(d) = Held(g)
  BY <1>1 DEF Held
<1>3. GatewayCore(d)
  BY <1>1, <1>2 DEF GatewayCore, Once, Below
<1>4. QED
  BY <1>1, <1>3 DEF d

\* The gateway is as the start finds it.
LEMMA GatewayFacts ==
  ASSUME HostInv
  PROVE  /\ HostTypes /\ gateway \in Gateways /\ GatewayCore(gateway) /\ gateway.attempt < plan.attempts
         /\ gateway.attempt \in Nat /\ plan.attempts \in Nat
         /\ gateway.pc # "new" => HasGateway
         /\ gateway.pc \notin {"new", "scheduled"} => engine.pc # "scheduled"
         /\ gateway.stop # "no" => HasGateway
<1>1. /\ HostTypes /\ gateway \in Gateways /\ GatewayCore(gateway) /\ gateway.attempt < plan.attempts
      /\ gateway.attempt \in Nat
  BY DEF HostInv, HostTypes, GatewaySound, Gateways
<1>2. plan.attempts \in Nat
  BY <1>1, PlanFacts
<1>3. /\ gateway.pc # "new" => HasGateway
      /\ gateway.stop # "no" => HasGateway
      /\ engine.pc = "scheduled" => HasEngine
  BY DEF HostInv, GatewaySound, GatewayTies, EngineSound, EngineTies
<1>4. HasEngine /\ engine.pc \in {"new", "scheduled"} => gateway.pc \in {"new", "scheduled"}
  BY DEF HostInv, AppSound, AppTies
<1>5. QED
  BY <1>1, <1>2, <1>3, <1>4

\* The gateway marks neither the worker nor, once the engine is down with the application,
\* the catalog.
LEMMA GatewayHealth ==
  ASSUME HostInv, NEW marked, NEW status \in {"ready", "unavailable"},
         health' = Mark(marked, status), UNCHANGED engine,
         status = "ready" => "worker" \notin marked,
         status = "ready" /\ "catalog" \in marked => gateway.stop = "no" /\ HasGateway
  PROVE  health' \in [HealthComponents -> {"ready", "unavailable"}] /\ HealthSound'
<1>1. /\ health' \in [HealthComponents -> {"ready", "unavailable"}]
      /\ \A c \in HealthComponents : health'[c] = IF c \in marked THEN status ELSE health[c]
  BY MarkFacts DEF HostInv
<1>2. engine.holder = "app" => (HasGateway => gateway.stop = "yes")
  BY DEF HostInv, EngineSound, EngineTies
<1>3. health'["catalog"] = "unavailable" \/ health'["catalog"] = health["catalog"] \/ engine.holder # "app"
  BY <1>1, <1>2, ConsumerHealthFacts
<1>4. health'["worker"] = "unavailable" \/ health'["worker"] = health["worker"]
  BY <1>1, ConsumerHealthFacts
<1>5. HealthSound
  BY DEF HostInv
<1>6. HealthSound'
  BY <1>3, <1>4, <1>5 DEF HealthSound, HealthIn
<1>7. QED
  BY <1>1, <1>6

\* What the gateway opens first.
LEMMA PreparedFacts ==
  ASSUME NEW outcome
  PROVE  LET s == PreparedStores \o ConfiguredBrokers(outcome) IN
         /\ s \in Seq(GatewayNames) /\ IsInjective(s) /\ Nothing \notin ToSet(s)
         /\ ToSet(s) \cap Endpoints = {} /\ (outcome # "configuration" => "broker" \in ToSet(s))
<1>1. /\ OwnedStores \in Seq(STRING) /\ IsInjective(OwnedStores)
      /\ ToSet(OwnedStores) \cap ({Nothing, "broker"} \cup Endpoints) = {}
  BY HostAssumption
<1>2. OwnedStores \in Seq(GatewayNames)
  <2>1. /\ Len(OwnedStores) \in Nat /\ DOMAIN OwnedStores = 1..Len(OwnedStores)
        /\ OwnedStores = [i \in 1..Len(OwnedStores) |-> OwnedStores[i]]
    BY <1>1
  <2>2. \A i \in 1..Len(OwnedStores) : OwnedStores[i] \in GatewayNames
    BY <2>1 DEF GatewayNames, ToSet
  <2>3. QED
    BY <2>1, <2>2
<1>3. "broker" \in GatewayNames /\ "broker" \notin ToSet(OwnedStores) /\ "broker" # Nothing
  BY <1>1, NamesAreNames
<1>4. CASE outcome = "configuration"
  <2>1. PreparedStores \o ConfiguredBrokers(outcome) = OwnedStores
    BY <1>1, <1>4 DEF PreparedStores, ConfiguredBrokers
  <2>2. QED
    BY <1>1, <1>2, <1>4, <2>1
<1>5. CASE outcome # "configuration"
  <2>1. PreparedStores \o ConfiguredBrokers(outcome) = Append(OwnedStores, "broker")
    <3>1. OwnedStores \o <<"broker">> = Append(OwnedStores, "broker")
      BY <1>1
    <3>2. QED
      BY <1>5, <3>1 DEF PreparedStores, ConfiguredBrokers
  <2>2. /\ Append(OwnedStores, "broker") \in Seq(GatewayNames) /\ IsInjective(Append(OwnedStores, "broker"))
        /\ ToSet(Append(OwnedStores, "broker")) = ToSet(OwnedStores) \cup {"broker"}
    BY <1>1, <1>2, <1>3, PushFacts
  <2>3. QED
    BY <1>1, <1>3, <1>5, <2>1, <2>2, NamesAreNames
<1>6. QED
  BY <1>4, <1>5

\* RuntimeGateway.start, up to the connection, keeps the invariant.
LEMMA GatewayBeginKeeps ==
  ASSUME HostInv, NEW outcome \in {"configuration", "broker", "ok"}, GatewayBegin(outcome)
  PROVE  HostInv'
<1> DEFINE st == PreparedStores \o ConfiguredBrokers(outcome)
           now == [gateway EXCEPT !.stack = st]
<1>1. /\ gateway.pc = "scheduled" /\ engine.pc # "scheduled" /\ HostTypes /\ gateway \in Gateways
      /\ UNCHANGED <<shape, plan, app, engine, loader, consumers>> /\ GatewayCore(gateway)
      /\ gateway.attempt < plan.attempts /\ HasGateway
      /\ gateway.stack = <<>> /\ gateway.closing = Nothing /\ gateway.overtaken = "no"
  BY GatewayFacts DEF GatewayBegin, GatewayCore
<1>2. CASE gateway.stop # "no" /\ gateway' = [gateway EXCEPT !.pc = "failed"] /\ UNCHANGED <<open, health>>
  <2>1. /\ gateway' \in Gateways /\ GatewayCore(gateway') /\ gateway'.pc = "failed"
        /\ gateway'.attempt = gateway.attempt /\ gateway'.stack = gateway.stack
        /\ gateway'.closing = gateway.closing /\ gateway'.stop = gateway.stop
        /\ gateway'.holder = gateway.holder /\ gateway'.overtaken = gateway.overtaken
    BY <1>1, <1>2, GatewayPc DEF GatewayPcs
  <2>2. health' \in [HealthComponents -> {"ready", "unavailable"}] /\ HealthSound'
    BY <1>1, <1>2 DEF HostInv, HostTypes, HealthSound, HealthIn
  <2>3. QED
    BY <1>1, <1>2, <2>1, <2>2, GatewayMovesQuietly
<1>3. CASE /\ gateway.stop = "no"
           /\ gateway' = (IF outcome = "ok" THEN [now EXCEPT !.pc = "connecting"] ELSE GatewayFails(now))
           /\ open' = open \cup {<<"gateway", n>> : n \in ToSet(now.stack)}
           /\ health' = CASE outcome = "ok" -> Mark({"catalog", "providers"}, "ready")
                          [] outcome = "broker" -> Mark({"catalog"}, "ready")
                          [] OTHER -> health
  <2>1. /\ st \in Seq(GatewayNames) /\ IsInjective(st) /\ Nothing \notin ToSet(st)
        /\ ToSet(st) \cap Endpoints = {} /\ (outcome # "configuration" => "broker" \in ToSet(st))
    BY PreparedFacts
  <2> HIDE DEF st
  <2>2. /\ gateway' \in Gateways /\ gateway'.stack = st /\ now.stack = st
        /\ gateway'.pc = (IF outcome = "ok" THEN "connecting" ELSE "stopping")
        /\ gateway'.attempt = gateway.attempt /\ gateway'.closing = gateway.closing
        /\ gateway'.stop = gateway.stop /\ gateway'.holder = gateway.holder
        /\ gateway'.overtaken = gateway.overtaken
    BY <1>1, <1>3, <2>1 DEF Gateways, GatewayPcs, GatewayFails
  <2>3. /\ Held(gateway') = ToSet(st) /\ Once(gateway') /\ Below(gateway', ConsumerNeeds)
        /\ Held(gateway) = {}
    <3>1. Held(gateway') = ToSet(st) /\ Once(gateway')
      BY <1>1, <2>1, <2>2 DEF Held, HeldIn, Once, OnceIn
    <3>2. Below(gateway', ConsumerNeeds)
      <4>1. \A a, b : <<a, b>> \in ConsumerNeeds => a \notin ToSet(st) /\ a # Nothing
        BY <2>1, NeedsOfConsumers
      <4>2. \A i \in DOMAIN st : st[i] \in ToSet(st)
        BY DEF ToSet
      <4>3. QED
        BY <1>1, <2>2, <4>1, <4>2 DEF Below, BelowIn
    <3>3. Held(gateway) = {}
      BY <1>1, EmptyKeeps DEF Held
    <3>4. QED
      BY <3>1, <3>2, <3>3
  <2>4. GatewayCore(gateway')
    BY <1>1, <1>3, <2>1, <2>2, <2>3 DEF GatewayCore
  <2>5. EngineSound' /\ GatewaySound' /\ AppSound' /\ LoaderSound'
    BY <1>1, <2>2, <2>4, GatewayGoesOn
  <2>6. health' \in [HealthComponents -> {"ready", "unavailable"}] /\ HealthSound'
    <3>1. CASE UNCHANGED health
      BY <1>1, <3>1 DEF HostInv, HostTypes, HealthSound, HealthIn
    <3>2. CASE health' = Mark({"catalog", "providers"}, "ready")
      BY <1>1, <1>3, <3>2, GatewayHealth
    <3>3. CASE health' = Mark({"catalog"}, "ready")
      BY <1>1, <1>3, <3>3, GatewayHealth
    <3>4. QED
      BY <1>3, <3>1, <3>2, <3>3
  <2>7. HostTypes'
    BY <1>1, <2>2, <2>6, SameHost DEF HostTypes
  <2>8. OpenIsHeld'
    <3>1. OpenOf(gateway', engine, loader) =
            OpenOf(gateway, engine, loader) \cup {<<"gateway", n>> : n \in ToSet(st)}
      BY <2>3 DEF OpenOf
    <3>2. QED
      BY <1>1, <1>3, <2>2, <3>1 DEF HostInv, OpenIsHeld
  <2>9. ConsumersSound'
    BY <1>1, <2>2, <2>3 DEF HostInv, ConsumersSound, ConsumersIn
  <2>10. QED
    BY <2>5, <2>6, <2>7, <2>8, <2>9 DEF HostInv
<1>4. QED
  BY <1>2, <1>3 DEF GatewayBegin

\* The gateway's connection, made or refused, keeps the invariant.
LEMMA GatewayConnectedKeeps ==
  ASSUME HostInv, NEW ok \in BOOLEAN, GatewayConnected(ok)
  PROVE  HostInv'
<1>1. /\ gateway.pc = "connecting" /\ engine.pc # "scheduled" /\ HostTypes /\ gateway \in Gateways
      /\ UNCHANGED <<shape, plan, app, engine, loader, consumers, open>> /\ GatewayCore(gateway)
      /\ gateway.attempt < plan.attempts
      /\ gateway' = (IF ok THEN [gateway EXCEPT !.pc = "routing"] ELSE [gateway EXCEPT !.pc = "stopping"])
      /\ health' = (IF ok THEN Mark({"temporal"}, "ready") ELSE health)
  BY GatewayFacts DEF GatewayConnected, GatewayFails
<1>2. "routing" \in GatewayPcs \ {"new", "scheduled"} /\ "stopping" \in GatewayPcs \ {"new", "scheduled"}
  BY DEF GatewayPcs
<1>3. /\ gateway' \in Gateways /\ GatewayCore(gateway') /\ gateway'.pc \in {"routing", "stopping"}
      /\ gateway'.attempt = gateway.attempt /\ gateway'.stack = gateway.stack
      /\ gateway'.closing = gateway.closing /\ gateway'.stop = gateway.stop
      /\ gateway'.holder = gateway.holder /\ gateway'.overtaken = gateway.overtaken
  <2>1. CASE ok
    <3>1. gateway' = [gateway EXCEPT !.pc = "routing"]
      BY <1>1, <2>1
    <3>2. QED
      BY <1>1, <1>2, <3>1, GatewayPc
  <2>2. CASE ~ok
    <3>1. gateway' = [gateway EXCEPT !.pc = "stopping"]
      BY <1>1, <2>2
    <3>2. QED
      BY <1>1, <1>2, <3>1, GatewayPc
  <2>3. QED
    BY <2>1, <2>2
<1>4. health' \in [HealthComponents -> {"ready", "unavailable"}] /\ HealthSound'
  <2>1. CASE ok
    BY <1>1, <2>1, GatewayHealth
  <2>2. CASE ~ok
    BY <1>1, <2>2 DEF HostInv, HostTypes, HealthSound, HealthIn
  <2>3. QED
    BY <2>1, <2>2
<1>5. QED
  BY <1>1, <1>3, <1>4, GatewayMovesQuietly

\* The wait for the gateway's consumers, however it ends, keeps the invariant.
LEMMA GatewayConsumersReadyKeeps ==
  ASSUME HostInv, NEW ok \in BOOLEAN, GatewayConsumersReady(ok)
  PROVE  HostInv'
<1>1. /\ gateway.pc = "consumers" /\ engine.pc # "scheduled" /\ HostTypes /\ gateway \in Gateways
      /\ UNCHANGED <<shape, plan, app, engine, loader, consumers, open, health>> /\ GatewayCore(gateway)
      /\ gateway.attempt < plan.attempts
      /\ gateway' = (IF ok THEN [gateway EXCEPT !.pc = "done", !.started = TRUE]
                     ELSE [gateway EXCEPT !.pc = "stopping"])
  BY GatewayFacts DEF GatewayConsumersReady, GatewayFails
<1>2. /\ gateway' \in Gateways /\ gateway'.pc \in {"done", "stopping"}
      /\ gateway'.attempt = gateway.attempt /\ gateway'.stack = gateway.stack
      /\ gateway'.closing = gateway.closing /\ gateway'.stop = gateway.stop
      /\ gateway'.holder = gateway.holder /\ gateway'.overtaken = gateway.overtaken
  BY <1>1 DEF Gateways, GatewayPcs
<1>3. Held(gateway') = Held(gateway)
  BY <1>2 DEF Held
<1>4. GatewayCore(gateway')
  BY <1>1, <1>2, <1>3 DEF GatewayCore, Once, Below
<1>5. health' \in [HealthComponents -> {"ready", "unavailable"}] /\ HealthSound'
  BY <1>1 DEF HostInv, HostTypes, HealthSound, HealthIn
<1>6. QED
  BY <1>1, <1>2, <1>4, <1>5, GatewayMovesQuietly

\* An answer to the gateway's wait for a deployment keeps the invariant.
LEMMA GatewayRoutedKeeps ==
  ASSUME HostInv, NEW answer \in Answers, GatewayRouted(answer)
  PROVE  HostInv'
<1>1. /\ gateway.pc = "routing" /\ engine.pc # "scheduled" /\ HostTypes /\ gateway \in Gateways
      /\ UNCHANGED <<shape, plan, app, engine, loader>> /\ GatewayCore(gateway)
      /\ gateway.attempt < plan.attempts /\ gateway.attempt \in Nat /\ plan.attempts \in Nat
  BY GatewayFacts DEF GatewayRouted
<1>2. CASE gateway' = GatewayFails(gateway) /\ UNCHANGED <<health, consumers, open>>
  <2>1. /\ gateway' \in Gateways /\ GatewayCore(gateway') /\ gateway'.pc = "stopping"
        /\ gateway'.attempt = gateway.attempt /\ gateway'.stack = gateway.stack
        /\ gateway'.closing = gateway.closing /\ gateway'.stop = gateway.stop
        /\ gateway'.holder = gateway.holder /\ gateway'.overtaken = gateway.overtaken
    BY <1>1, <1>2, GatewayPc DEF GatewayPcs, GatewayFails
  <2>2. health' \in [HealthComponents -> {"ready", "unavailable"}] /\ HealthSound'
    BY <1>1, <1>2 DEF HostInv, HostTypes, HealthSound, HealthIn
  <2>3. QED
    BY <1>1, <1>2, <2>1, <2>2, GatewayMovesQuietly
<1>3. CASE /\ ~RouteFound(answer) /\ ~RouteFails(gateway.attempt, answer)
           /\ gateway' = [gateway EXCEPT !.attempt = @ + 1] /\ UNCHANGED <<health, consumers, open>>
  <2>1. gateway.attempt + 1 # plan.attempts
    BY <1>3 DEF RouteFails, RouteFound, Answers
  <2>2. gateway.attempt + 1 \in Nat /\ gateway.attempt + 1 < plan.attempts
    BY <1>1, <2>1
  <2>3. /\ gateway' \in Gateways /\ gateway'.pc = gateway.pc
        /\ gateway'.attempt = gateway.attempt + 1 /\ gateway'.stack = gateway.stack
        /\ gateway'.closing = gateway.closing /\ gateway'.stop = gateway.stop
        /\ gateway'.holder = gateway.holder /\ gateway'.overtaken = gateway.overtaken
    BY <1>1, <1>3, <2>2 DEF Gateways
  <2>4. Held(gateway') = Held(gateway)
    BY <2>3 DEF Held
  <2>5. GatewayCore(gateway')
    BY <1>1, <2>3, <2>4 DEF GatewayCore, Once, Below
  <2>6. health' \in [HealthComponents -> {"ready", "unavailable"}] /\ HealthSound'
    BY <1>1, <1>3 DEF HostInv, HostTypes, HealthSound, HealthIn
  <2>7. QED
    BY <1>1, <1>3, <2>2, <2>3, <2>5, <2>6, GatewayMovesQuietly
<1>4. CASE /\ health' = Mark({"worker_registration"}, "ready")
           /\ consumers' = Started("gateway")
           /\ open' = open \cup {<<"gateway", e>> : e \in Endpoints}
           /\ gateway' = [gateway EXCEPT
                !.stack = @ \o ConsumerNames, !.overtaken = gateway.stop,
                !.pc = IF Endpoints = {} THEN "done" ELSE "consumers",
                !.started = Endpoints = {}]
  <2> DEFINE a == PushConsumer(gateway.stack, "response")
             b == PushConsumer(a, "trigger")
  <2>1. /\ gateway.stack \in Seq(GatewayNames) /\ gateway.closing \in GatewayNames \cup {Nothing}
        /\ OnceIn(gateway.stack, gateway.closing)
        /\ HeldIn(gateway.stack, gateway.closing) \cap Endpoints = {} /\ gateway.overtaken = "no"
        /\ BelowIn(gateway.stack, gateway.closing, ConsumerNeeds)
        /\ (gateway.stop = "no" => "broker" \in ToSet(gateway.stack))
    BY <1>1 DEF Gateways, GatewayCore, Once, Held, Below
  <2>2. /\ a \in Seq(GatewayNames) /\ OnceIn(a, gateway.closing)
        /\ HeldIn(a, gateway.closing) = HeldIn(gateway.stack, gateway.closing) \cup ({"response"} \cap Endpoints)
        /\ ToSet(gateway.stack) \subseteq ToSet(a)
        /\ "broker" \in ToSet(gateway.stack) => BelowIn(a, gateway.closing, ConsumerNeeds)
    <3>1. "response" \in Endpoints => "response" \notin HeldIn(gateway.stack, gateway.closing)
      BY <2>1
    <3>2. QED
      BY <2>1, <3>1, ConsumerPushed
  <2> HIDE DEF a
  <2>3. /\ b \in Seq(GatewayNames) /\ OnceIn(b, gateway.closing)
        /\ HeldIn(b, gateway.closing) = HeldIn(a, gateway.closing) \cup ({"trigger"} \cap Endpoints)
        /\ "broker" \in ToSet(gateway.stack) => BelowIn(b, gateway.closing, ConsumerNeeds)
    <3>1. "trigger" \in Endpoints => "trigger" \notin HeldIn(a, gateway.closing)
      BY <2>1, <2>2
    <3>2. QED
      BY <2>1, <2>2, <3>1, ConsumerPushed
  <2> HIDE DEF b
  <2>4. gateway.stack \o ConsumerNames = b
    BY <2>1, ConsumersOnTop DEF a, b
  <2>5. /\ gateway' \in Gateways /\ gateway'.stack = b /\ gateway'.overtaken = gateway.stop
        /\ gateway'.pc \in {"done", "consumers"} /\ gateway'.attempt = gateway.attempt
        /\ gateway'.closing = gateway.closing /\ gateway'.stop = gateway.stop
        /\ gateway'.holder = gateway.holder
    BY <1>1, <1>4, <2>3, <2>4 DEF Gateways, GatewayPcs
  <2>6. Held(gateway') = Held(gateway) \cup Endpoints
    BY <2>2, <2>3, <2>5, HostAssumption DEF Held
  <2>7. GatewayCore(gateway')
    BY <1>1, <2>1, <2>3, <2>5 DEF GatewayCore, Once, Below
  <2>8. EngineSound' /\ GatewaySound' /\ AppSound' /\ LoaderSound'
    BY <1>1, <2>5, <2>7, GatewayGoesOn
  <2>9. health' \in [HealthComponents -> {"ready", "unavailable"}] /\ HealthSound'
    BY <1>1, <1>4, GatewayHealth
  <2>10. /\ consumers' \in [Owners -> [Endpoints -> ConsumerStates]]
         /\ consumers'["engine"] = consumers["engine"]
    BY <1>1, <1>4 DEF HostTypes, Started, Owners, ConsumerStates
  <2>11. HostTypes'
    BY <1>1, <2>5, <2>9, <2>10, SameHost DEF HostTypes
  <2>12. OpenIsHeld'
    <3>1. OpenOf(gateway', engine, loader) =
            OpenOf(gateway, engine, loader) \cup {<<"gateway", e>> : e \in Endpoints}
      BY <2>6 DEF OpenOf
    <3>2. QED
      BY <1>1, <1>4, <3>1 DEF HostInv, OpenIsHeld
  <2>13. ConsumersSound'
    BY <1>1, <2>6, <2>10 DEF HostInv, ConsumersSound, ConsumersIn
  <2>14. QED
    BY <2>8, <2>9, <2>11, <2>12, <2>13 DEF HostInv
<1>5. QED
  BY <1>2, <1>3, <1>4 DEF GatewayRouted

(***************************************************************************)
(* The gateway's stop.                                                     *)
(***************************************************************************)

\* RuntimeGateway.stop, begun by start itself or by the application, keeps the invariant.
LEMMA GatewayStopBeginsKeeps ==
  ASSUME HostInv, NEW holder \in {"start", "app"}, GatewayStopBegins(holder),
         holder = "start" => gateway.pc = "stopping",
         holder = "app" => app.pc = "stop_gateway",
         UNCHANGED <<shape, plan, app, engine, loader, consumers, open, health>>
  PROVE  HostInv'
<1>1. /\ gateway.stop = "no" /\ gateway' = [gateway EXCEPT !.stop = "cancelling", !.holder = holder]
      /\ HostTypes /\ gateway \in Gateways /\ GatewayCore(gateway) /\ gateway.attempt < plan.attempts
  BY GatewayFacts DEF GatewayStopBegins
<1>2. /\ gateway' \in Gateways /\ gateway'.pc = gateway.pc /\ gateway'.attempt = gateway.attempt
      /\ gateway'.stack = gateway.stack /\ gateway'.closing = gateway.closing
      /\ gateway'.stop = "cancelling" /\ gateway'.holder = holder
      /\ gateway'.overtaken = gateway.overtaken
  BY <1>1 DEF Gateways
<1>3. Held(gateway') = Held(gateway)
  BY <1>2 DEF Held
<1>4. GatewayCore(gateway')
  BY <1>1, <1>2, <1>3 DEF GatewayCore, Once, Below, Nothing
<1>5. AppTies(app, gateway, engine)
  BY DEF HostInv, AppSound
<1>6. HasGateway /\ (app.pc = "stop_gateway" => ~app.skipped)
  BY <1>5, GatewayFacts DEF AppTies
<1>7. GatewaySound'
  BY <1>1, <1>2, <1>4, <1>6, SameHost DEF HostInv, GatewaySound, GatewayTies
<1>8. EngineSound' /\ LoaderSound'
  BY <1>1, <1>2, <1>6, SameHost DEF HostInv, EngineSound, EngineTies, LoaderSound
<1>9. AppTies(app, gateway', engine)
  BY <1>1, <1>2, <1>5, <1>6 DEF AppTies
<1>10. AppSound'
  BY <1>9, SameHost DEF AppSound, AppTies
<1>11. HostTypes' /\ HealthSound' /\ ConsumersSound'
  BY <1>2, <1>3, SameHost DEF HostInv, HostTypes, HealthSound, ConsumersSound, ConsumersIn
<1>12. OpenIsHeld'
  BY <1>3, OpenSame DEF HostInv, OpenIsHeld
<1>13. QED
  BY <1>7, <1>8, <1>10, <1>11, <1>12 DEF HostInv

\* A start of the gateway that fails, and stops the gateway, keeps the invariant.
LEMMA GatewayExceptKeeps ==
  ASSUME HostInv, GatewayExcept
  PROVE  HostInv'
<1>1. CASE GatewayStopBegins("start")
  BY <1>1, GatewayStopBeginsKeeps DEF GatewayExcept
<1>2. CASE gateway.stop = "yes" /\ gateway' = [gateway EXCEPT !.pc = "failed"]
  <2>1. /\ gateway.pc = "stopping" /\ engine.pc # "scheduled" /\ HostTypes /\ gateway \in Gateways
        /\ UNCHANGED <<shape, plan, app, engine, loader, consumers, open, health>> /\ GatewayCore(gateway)
        /\ gateway.attempt < plan.attempts
    BY GatewayFacts DEF GatewayExcept
  <2>2. /\ gateway' \in Gateways /\ GatewayCore(gateway') /\ gateway'.pc = "failed"
        /\ gateway'.attempt = gateway.attempt /\ gateway'.stack = gateway.stack
        /\ gateway'.closing = gateway.closing /\ gateway'.stop = gateway.stop
        /\ gateway'.holder = gateway.holder /\ gateway'.overtaken = gateway.overtaken
    BY <1>2, <2>1, GatewayPc DEF GatewayPcs
  <2>3. health' \in [HealthComponents -> {"ready", "unavailable"}] /\ HealthSound'
    BY <2>1 DEF HostInv, HostTypes, HealthSound, HealthIn
  <2>4. QED
    BY <1>2, <2>1, <2>2, <2>3, GatewayMovesQuietly
<1>3. QED
  BY <1>1, <1>2 DEF GatewayExcept
\* What the rest of the process knows of the gateway as it is closed.
LEMMA GatewayCloses ==
  ASSUME HostInv, NEW s \in Gateways, s.stack = gateway.stack, s.closing = gateway.closing,
         s.pc = gateway.pc, s.attempt = gateway.attempt, s.holder = gateway.holder,
         s.overtaken = gateway.overtaken, s.stop = "closing",
         gateway.stop \in {"cancelling", "closing"}, UNCHANGED <<shape, plan, engine, loader>>,
         \/ PopNext(s).closing # Nothing /\ gateway' = PopNext(s) /\ UNCHANGED app
         \/ PopNext(s).closing = Nothing /\ GatewayStopEnds(PopNext(s))
  PROVE  /\ EngineSound' /\ GatewaySound' /\ AppSound' /\ LoaderSound'
         /\ gateway' \in Gateways /\ app' \in Apps
         /\ Held(gateway') = Held(gateway) \ {gateway.closing}
         /\ gateway'.overtaken = gateway.overtaken
<1> DEFINE d == PopNext(s)
<1>1. /\ HostTypes /\ gateway \in Gateways /\ GatewayCore(gateway) /\ gateway.attempt < plan.attempts
      /\ GatewayTies(gateway, app) /\ AppTies(app, gateway, engine) /\ app \in Apps /\ HasGateway
      /\ EngineTies(engine, app, gateway.stop) /\ engine \in Engines
  BY GatewayFacts DEF HostInv, HostTypes, GatewaySound, AppSound, EngineSound
<1>2. GatewayStack(s) /\ Held(s) = Held(gateway)
  BY <1>1 DEF GatewayCore, GatewayStack, Held, Once, Below
<1>3. /\ d \in Gateways /\ GatewayStack(d) /\ Held(d) = Held(gateway) \ {gateway.closing}
      /\ d.pc = gateway.pc /\ d.attempt = gateway.attempt /\ d.stop = "closing"
      /\ d.holder = gateway.holder /\ d.overtaken = gateway.overtaken
      /\ (d.closing = Nothing <=> gateway.stack = <<>>)
      /\ (gateway.stack = <<>> => d.stack = <<>>)
  BY <1>2, GatewayPop
<1>4. /\ gateway.holder # Nothing
      /\ gateway.holder = "app" => app.pc = "stop_gateway" /\ ~app.skipped
      /\ engine.holder # "app"
  BY <1>1 DEF GatewayCore, GatewayTies, EngineTies
<1>5. CASE d.closing # Nothing /\ gateway' = d /\ UNCHANGED app
  <2> HIDE DEF d
  <2>1. GatewayCore(d)
    BY <1>1, <1>3, <1>4, <1>5 DEF GatewayCore, GatewayStack
  <2>2. GatewayTies(d, app)
    BY <1>1, <1>3 DEF GatewayTies
  <2>3. GatewaySound'
    BY <1>1, <1>3, <1>5, <2>1, <2>2, SameHost DEF GatewaySound, GatewayTies
  <2>4. EngineSound' /\ LoaderSound'
    BY <1>1, <1>3, <1>4, <1>5, SameHost DEF HostInv, EngineSound, EngineTies, LoaderSound
  <2>5. AppTies(app, d, engine)
    BY <1>1, <1>3 DEF AppTies
  <2>6. AppSound'
    BY <1>5, <2>5, SameHost DEF AppSound, AppTies
  <2>7. QED
    BY <1>1, <1>3, <1>5, <2>3, <2>4, <2>6
<1>6. CASE d.closing = Nothing /\ GatewayStopEnds(d)
  <2> HIDE DEF d
  <2>1. /\ gateway' = [[d EXCEPT !.stop = "yes", !.started = IF d.failed THEN @ ELSE FALSE] EXCEPT
                          !.pc = IF d.holder = "start" THEN "failed" ELSE @]
        /\ app' = IF d.holder # "app" THEN app
                  ELSE IF d.failed THEN [app EXCEPT !.pc = "down", !.skipped = TRUE]
                  ELSE [app EXCEPT !.pc = "stop_worker"]
    BY <1>3, <1>6 DEF GatewayStopEnds, GatewayRaised, Gateways
  <2>2. /\ gateway' \in Gateways /\ gateway'.stop = "yes" /\ gateway'.stack = d.stack
        /\ gateway'.closing = Nothing /\ gateway'.attempt = d.attempt /\ gateway'.holder = d.holder
        /\ gateway'.overtaken = d.overtaken /\ gateway'.pc \in {"failed", gateway.pc}
        /\ gateway'.pc # gateway.pc => gateway.holder = "start"
    <3> DEFINE k == [d EXCEPT !.stop = "yes", !.started = IF d.failed THEN @ ELSE FALSE]
    <3>1. /\ k \in Gateways /\ k.stop = "yes" /\ k.stack = d.stack /\ k.closing = d.closing
          /\ k.attempt = d.attempt /\ k.holder = d.holder /\ k.overtaken = d.overtaken /\ k.pc = d.pc
      BY <1>3 DEF Gateways
    <3> HIDE DEF k
    <3>2. gateway' = [k EXCEPT !.pc = IF d.holder = "start" THEN "failed" ELSE @]
      BY <2>1 DEF k
    <3>3. QED
      BY <1>3, <1>6, <3>1, <3>2 DEF Gateways, GatewayPcs
  <2>3. /\ app' \in Apps /\ app'.worker = app.worker
        /\ gateway.holder # "app" => app' = app
        /\ gateway.holder = "app" => \/ app'.pc = "down" /\ app'.skipped
                                     \/ app'.pc = "stop_worker" /\ app'.skipped = app.skipped
    BY <1>1, <1>3, <2>1 DEF Apps
  <2>4. Held(gateway') = Held(d) /\ GatewayStack(gateway') /\ gateway'.stack = <<>>
    BY <1>3, <1>6, <2>2 DEF Held, GatewayStack, Once, Below
  <2>5. GatewayCore(gateway')
    BY <1>1, <1>3, <1>4, <2>2, <2>4 DEF GatewayCore, GatewayStack, Nothing
  <2>6. GatewayTies(gateway', app')
    BY <1>1, <1>3, <1>4, <2>2, <2>3 DEF GatewayTies
  <2>7. GatewaySound'
    BY <1>1, <1>3, <2>2, <2>5, <2>6, SameHost DEF GatewaySound, GatewayTies
  <2>8. EngineTies(engine, app', gateway'.stop)
    BY <1>1, <1>4, <2>2, <2>3 DEF EngineTies
  <2>9. EngineSound'
    BY <2>8, SameHost DEF HostInv, EngineSound, EngineTies
  <2>10. LoaderTies(loader, engine, app'.skipped)
    <3>1. app.skipped => app'.skipped
      BY <1>4, <2>3
    <3>2. QED
      BY <3>1 DEF HostInv, LoaderSound, LoaderTies
  <2>11. LoaderSound'
    BY <2>10, SameHost DEF HostInv, LoaderSound
  <2>12. AppTies(app', gateway', engine)
    <3>1. gateway'.pc # gateway.pc => gateway.pc \notin {"new", "scheduled"}
      BY <1>1, <2>2 DEF GatewayCore
    <3>2. QED
      BY <1>1, <1>4, <2>2, <2>3, <3>1 DEF AppTies
  <2>13. AppSound'
    BY <2>12, SameHost DEF AppSound, AppTies
  <2>14. QED
    BY <1>3, <2>2, <2>3, <2>4, <2>7, <2>9, <2>11, <2>13
<1>7. QED
  BY <1>5, <1>6

\* The stop that has cancelled the gateway's tasks keeps the invariant.
LEMMA TasksCancelledKeeps ==
  ASSUME HostInv, GatewayTasksCancelled
  PROVE  HostInv'
<1> DEFINE s == [gateway EXCEPT !.stop = "closing"]
<1>1. /\ gateway.stop = "cancelling" /\ HostTypes /\ gateway \in Gateways
      /\ UNCHANGED <<shape, plan, engine, loader, open>> /\ consumers' = StoppedConsumers("gateway")
      /\ gateway.closing = Nothing
      /\ \/ PopNext(s).closing # Nothing /\ gateway' = PopNext(s) /\ UNCHANGED app
            /\ health' = ConsumersDown("gateway")
         \/ PopNext(s).closing = Nothing /\ GatewayStopEnds(PopNext(s))
            /\ health' = Mark(HealthComponents, "unavailable")
  BY GatewayFacts DEF GatewayTasksCancelled, GatewayCore
<1>2. /\ s \in Gateways /\ s.stack = gateway.stack /\ s.closing = gateway.closing
      /\ s.pc = gateway.pc /\ s.attempt = gateway.attempt /\ s.holder = gateway.holder
      /\ s.overtaken = gateway.overtaken /\ s.stop = "closing"
  BY <1>1 DEF Gateways
<1> HIDE DEF s
<1>3. /\ EngineSound' /\ GatewaySound' /\ AppSound' /\ LoaderSound'
      /\ gateway' \in Gateways /\ app' \in Apps
      /\ Held(gateway') = Held(gateway) \ {gateway.closing}
      /\ gateway'.overtaken = gateway.overtaken
  BY <1>1, <1>2, GatewayCloses
<1>4. Held(gateway') = Held(gateway)
  BY <1>1, <1>3, NothingIsNotHeld
<1>5. \E marked : health' = Mark(marked, "unavailable")
  BY <1>1 DEF ConsumersDown
<1>6. health' \in [HealthComponents -> {"ready", "unavailable"}] /\ HealthSound'
  BY <1>1, <1>5, GatewayHealth
<1>7. /\ consumers' \in [Owners -> [Endpoints -> ConsumerStates]]
      /\ \A e \in Endpoints : consumers'["gateway"][e] \in {"none", "done"}
      /\ consumers'["engine"] = consumers["engine"]
  <2>1. "gateway" \in Owners /\ "engine" \in Owners
    BY DEF Owners
  <2>2. QED
    BY <1>1, <2>1, StoppedConsumersFacts
<1>8. ConsumersSound'
  BY <1>1, <1>7 DEF HostInv, ConsumersSound, ConsumersIn
<1>9. HostTypes'
  BY <1>1, <1>3, <1>6, <1>7, SameHost DEF HostTypes
<1>10. OpenIsHeld'
  BY <1>1, <1>4, OpenSame DEF HostInv, OpenIsHeld
<1>11. QED
  BY <1>3, <1>6, <1>8, <1>9, <1>10 DEF HostInv

\* A component of the gateway that is closed keeps the invariant.
LEMMA GatewayComponentClosedKeeps ==
  ASSUME HostInv, NEW ok \in BOOLEAN, GatewayComponentClosed(ok)
  PROVE  HostInv'
<1> DEFINE c == gateway.closing
           s == [gateway EXCEPT !.failed = @ \/ ~ok]
<1>1. /\ gateway.stop = "closing" /\ HostTypes /\ gateway \in Gateways
      /\ UNCHANGED <<shape, plan, engine, loader>> /\ open' = open \ {<<"gateway", c>>}
      /\ consumers' = (IF c \in Endpoints THEN [consumers EXCEPT !["gateway"][c] = "done"]
                       ELSE consumers)
      /\ \/ PopNext(s).closing # Nothing /\ gateway' = PopNext(s) /\ UNCHANGED app
         \/ PopNext(s).closing = Nothing /\ GatewayStopEnds(PopNext(s))
      /\ \/ UNCHANGED health
         \/ \E marked : health' = Mark(marked, "unavailable")
      /\ consumers \in [Owners -> [Endpoints -> ConsumerStates]]
  BY GatewayFacts DEF GatewayComponentClosed, HostTypes
<1>2. /\ s \in Gateways /\ s.stack = gateway.stack /\ s.closing = gateway.closing
      /\ s.pc = gateway.pc /\ s.attempt = gateway.attempt /\ s.holder = gateway.holder
      /\ s.overtaken = gateway.overtaken /\ s.stop = "closing"
  BY <1>1 DEF Gateways
<1> HIDE DEF s
<1>3. /\ EngineSound' /\ GatewaySound' /\ AppSound' /\ LoaderSound'
      /\ gateway' \in Gateways /\ app' \in Apps
      /\ Held(gateway') = Held(gateway) \ {gateway.closing}
      /\ gateway'.overtaken = gateway.overtaken
  BY <1>1, <1>2, GatewayCloses
<1>4. health' \in [HealthComponents -> {"ready", "unavailable"}] /\ HealthSound'
  <2>1. CASE UNCHANGED health
    BY <1>1, <2>1 DEF HostInv, HostTypes, HealthSound, HealthIn
  <2>2. CASE \E marked : health' = Mark(marked, "unavailable")
    BY <1>1, <2>2, GatewayHealth
  <2>3. QED
    BY <1>1, <2>1, <2>2
<1>5. /\ consumers' \in [Owners -> [Endpoints -> ConsumerStates]]
      /\ consumers'["engine"] = consumers["engine"]
      /\ \A n \in Endpoints : consumers'["gateway"][n] = IF n = c THEN "done" ELSE consumers["gateway"][n]
  BY <1>1 DEF Owners, ConsumerStates
<1>6. ConsumersSound'
  BY <1>1, <1>3, <1>5 DEF HostInv, ConsumersSound, ConsumersIn
<1>7. HostTypes'
  BY <1>1, <1>3, <1>4, <1>5, SameHost DEF HostTypes
<1>8. OpenIsHeld'
  <2>1. OpenOf(gateway', engine, loader) = OpenOf(gateway, engine, loader) \ {<<"gateway", c>>}
    BY <1>3 DEF OpenOf
  <2>2. QED
    BY <1>1, <2>1 DEF HostInv, OpenIsHeld
<1>9. QED
  BY <1>3, <1>4, <1>6, <1>7, <1>8 DEF HostInv
(***************************************************************************)
(* The application and the consumers.                                      *)
(***************************************************************************)

\* The application moving on while the gateway and the engine stay as they are.
LEMMA AppMoves ==
  ASSUME HostInv, UNCHANGED <<shape, plan, gateway, engine, loader, consumers, open, health>>,
         app' \in Apps, app'.skipped = app.skipped, AppTies(app', gateway, engine),
         EngineTies(engine, app', gateway.stop), GatewayTies(gateway, app')
  PROVE  HostInv'
<1>1. EngineSound'
  BY SameHost DEF HostInv, EngineSound, EngineTies
<1>2. GatewaySound'
  BY SameHost DEF HostInv, GatewaySound, GatewayTies
<1>3. AppSound'
  BY SameHost DEF AppSound, AppTies
<1>4. LoaderSound'
  BY SameHost DEF HostInv, LoaderSound
<1>5. HostTypes' /\ OpenIsHeld' /\ ConsumersSound' /\ HealthSound'
  BY SameHost DEF HostInv, HostTypes, OpenIsHeld, ConsumersSound, HealthSound
<1>6. QED
  BY <1>1, <1>2, <1>3, <1>4, <1>5 DEF HostInv

\* Everything a step of the application may count on.
LEMMA AppFacts ==
  ASSUME HostInv
  PROVE  /\ HostTypes /\ app \in Apps /\ AppTies(app, gateway, engine)
         /\ EngineTies(engine, app, gateway.stop) /\ GatewayTies(gateway, app)
         /\ EngineCore(engine) /\ GatewayCore(gateway)
         /\ shape \in {"gateway", "worker", "combined", "engine"}
BY PlanFacts DEF HostInv, HostTypes, AppSound, EngineSound, GatewaySound

\* The start-up of the application keeps the invariant.
LEMMA StartupKeeps ==
  ASSUME HostInv, Startup
  PROVE  HostInv'
<1>1. /\ app.pc = "new" /\ app' = [app EXCEPT !.pc = "starting"] /\ app \in Apps
      /\ engine' = (IF HasEngine THEN [engine EXCEPT !.pc = "scheduled"] ELSE engine)
      /\ gateway' = (IF HasGateway THEN [gateway EXCEPT !.pc = "scheduled"] ELSE gateway)
      /\ UNCHANGED <<shape, plan, loader, consumers, open, health>>
      /\ engine \in Engines /\ gateway \in Gateways /\ HostTypes
  BY DEF Startup, HostInv, HostTypes
<1>2. /\ engine.pc = "new" /\ gateway.pc = "new" /\ engine.stop = "no" /\ ~app.skipped
      /\ engine.holder # "app" /\ (HasEngine => app.worker = "pending") /\ EngineStack(engine)
      /\ engine.owned = {"resources"}
  BY <1>1, AppFacts DEF AppTies, EngineCore, EngineTies, OwnedAt
<1>3. /\ app' \in Apps /\ app'.pc = "starting" /\ app'.worker = app.worker
      /\ app'.skipped = app.skipped
  BY <1>1 DEF Apps
<1>4. /\ engine' \in Engines /\ SameStack(engine', engine) /\ engine'.attempt = engine.attempt
      /\ engine'.cancelled = engine.cancelled
      /\ engine'.pc = IF HasEngine THEN "scheduled" ELSE "new"
  <2>1. CASE HasEngine
    <3>1. engine' = [engine EXCEPT !.pc = "scheduled"] /\ "scheduled" \in EnginePcs
      BY <1>1, <2>1 DEF EnginePcs
    <3>2. QED
      BY <1>1, <2>1, <3>1, EnginePc
  <2>2. CASE ~HasEngine
    BY <1>1, <1>2, <2>2 DEF SameStack
  <2>3. QED
    BY <2>1, <2>2
<1>5. /\ gateway' \in Gateways /\ gateway'.attempt = gateway.attempt
      /\ gateway'.stack = gateway.stack /\ gateway'.closing = gateway.closing
      /\ gateway'.stop = gateway.stop /\ gateway'.holder = gateway.holder
      /\ gateway'.overtaken = gateway.overtaken
      /\ gateway'.pc = IF HasGateway THEN "scheduled" ELSE "new"
  BY <1>1, <1>2 DEF Gateways, GatewayPcs
<1>6. Held(engine') = Held(engine) /\ Held(gateway') = Held(gateway)
  BY <1>4, <1>5 DEF Held, SameStack
<1>7. EngineCore(engine')
  <2>1. EngineStack(engine')
    BY <1>2, <1>4, <1>6 DEF EngineStack, Once, Below, SameStack
  <2>2. engine'.owned = OwnedAt(engine')
    BY <1>2, <1>4 DEF OwnedAt, SameStack
  <2>3. QED
    BY <1>2, <1>4, <2>1, <2>2, AppFacts DEF EngineCore, SameStack
<1>8. EngineTies(engine', app', gateway'.stop)
  BY <1>2, <1>3, <1>4, AppFacts DEF EngineTies, SameStack
<1>9. EngineSound'
  BY <1>1, <1>4, <1>7, <1>8, SameHost DEF HostInv, EngineSound, EngineTies
<1>10. GatewayCore(gateway')
  BY <1>2, <1>5, <1>6, AppFacts DEF GatewayCore, Once, Below
<1>11. GatewayTies(gateway', app')
  BY <1>1, <1>2, <1>3, <1>5, AppFacts DEF GatewayTies
<1>12. GatewaySound'
  BY <1>1, <1>5, <1>10, <1>11, SameHost DEF HostInv, GatewaySound, GatewayTies
<1>13. AppTies(app', gateway', engine')
  BY <1>2, <1>3, <1>4, <1>5, AppFacts DEF AppTies
<1>14. AppSound'
  BY <1>1, <1>13, SameHost DEF AppSound, AppTies
<1>15. LoaderTies(loader, engine', app'.skipped)
  BY <1>2, <1>3, <1>4, <1>6 DEF HostInv, LoaderSound, LoaderTies, SameStack
<1>16. LoaderSound'
  BY <1>1, <1>15, SameHost DEF HostInv, LoaderSound
<1>17. HostTypes'
  BY <1>1, <1>3, <1>4, <1>5, SameHost DEF HostTypes
<1>18. OpenIsHeld'
  BY <1>1, <1>6, OpenSame DEF HostInv, OpenIsHeld
<1>19. ConsumersSound' /\ HealthSound'
  BY <1>1, <1>4, <1>5, <1>6 DEF HostInv, ConsumersSound, ConsumersIn, HealthSound, HealthIn, SameStack
<1>20. QED
  BY <1>9, <1>12, <1>14, <1>16, <1>17, <1>18, <1>19 DEF HostInv

\* The end of the wait for the worker, well or badly, keeps the invariant.
LEMMA WorkerWaitKeeps ==
  ASSUME HostInv, WorkerWaitEnds
  PROVE  HostInv'
<1>1. PICK v \in {"ok", "failed"} : app' = [app EXCEPT !.worker = v]
  BY DEF WorkerWaitEnds, WorkerVerdict
<1>2. /\ app \in Apps /\ app.pc = "starting" /\ engine.pc # "scheduled" /\ shape \in {"worker", "combined"}
      /\ UNCHANGED <<shape, plan, gateway, engine, loader, consumers, open, health>>
  BY AppFacts DEF WorkerWaitEnds
<1>3. app' \in Apps /\ app'.pc = app.pc /\ app'.skipped = app.skipped
  BY <1>1, <1>2 DEF Apps
<1>4. AppTies(app', gateway, engine)
  BY <1>2, <1>3, AppFacts DEF AppTies, EngineTies
<1>5. EngineTies(engine, app', gateway.stop) /\ GatewayTies(gateway, app')
  BY <1>3, AppFacts DEF EngineTies, GatewayTies
<1>6. QED
  BY <1>2, <1>3, <1>4, <1>5, AppMoves

\* A step of the application that only goes from one place to the next.
LEMMA AppGoesOn ==
  ASSUME HostInv, UNCHANGED <<shape, plan, gateway, engine, loader, consumers, open, health>>,
         NEW p \in {"up", "stop_gateway", "stop_worker", "reaping", "down", "failed"},
         NEW b \in BOOLEAN, app' = [app EXCEPT !.pc = p, !.started = b], ~app.skipped,
         app.pc # "new",
         HasEngine => engine.pc \notin {"new", "scheduled"},
         HasGateway /\ p \in {"stop_worker", "reaping", "down"} => gateway.stop = "yes",
         p = "reaping" => HasEngine, HasEngine /\ p = "down" => engine.pc = "done",
         p = "stop_gateway" => HasGateway, shape = "engine" => p = "down",
         engine.holder = "app" => p \in {"stop_worker", "reaping", "down"},
         engine.stop = "closing" => engine.holder # "app",
         gateway.stop \in {"cancelling", "closing"} => gateway.holder # "app"
  PROVE  HostInv'
<1>1. /\ app' \in Apps /\ app'.pc = p /\ app'.worker = app.worker /\ app'.skipped = app.skipped
  BY AppFacts DEF Apps
<1>2. AppTies(app', gateway, engine)
  BY <1>1, AppFacts DEF AppTies
<1>3. EngineTies(engine, app', gateway.stop)
  BY <1>1, AppFacts DEF EngineTies
<1>4. GatewayTies(gateway, app')
  BY <1>1, AppFacts DEF GatewayTies
<1>5. QED
  BY <1>1, <1>2, <1>3, <1>4, AppMoves

\* Moving the application on changes where it is only.
LEMMA AppPlain ==
  ASSUME app \in Apps, NEW p, app' = [app EXCEPT !.pc = p]
  PROVE  app' = [app EXCEPT !.pc = p, !.started = app.started] /\ app.started \in BOOLEAN
BY DEF Apps

\* A start-up that ends, well or badly, keeps the invariant.
LEMMA StartupEndsKeeps ==
  ASSUME HostInv, StartupEndsWell \/ StartupFails
  PROVE  HostInv'
<1>1. /\ app.pc = "starting" /\ app \in Apps /\ ~app.skipped
      /\ UNCHANGED <<shape, plan, gateway, engine, loader, consumers, open, health>>
      /\ engine.holder # "app"
      /\ gateway.stop \in {"cancelling", "closing"} => gateway.holder # "app"
  BY AppFacts DEF StartupEndsWell, StartupFails, AppTies, EngineTies, GatewayTies
<1>2. HasEngine => engine.pc # "new"
  BY <1>1, AppFacts DEF EngineTies
<1>3. CASE StartupEndsWell
  <2>1. app' = [app EXCEPT !.pc = "up", !.started = TRUE] /\ shape # "engine"
    BY <1>3 DEF StartupEndsWell
  <2>2. HasEngine => engine.pc \notin {"new", "scheduled"}
    BY <1>2, <1>3, <2>1, AppFacts DEF StartupEndsWell, StartupSucceeded, AppTies, HasEngine
  <2>3. QED
    BY <1>1, <2>1, <2>2, AppGoesOn
<1>4. CASE StartupFails
  <2>1. /\ app' = [app EXCEPT !.pc = IF shape = "worker" THEN "failed" ELSE "stop_gateway"]
        /\ gateway.pc = "failed" \/ app.worker = "failed"
    BY <1>4 DEF StartupFails, StartupRaised
  <2>2. /\ HasEngine => engine.pc \notin {"new", "scheduled"}
        /\ shape # "engine" /\ (shape # "worker" => HasGateway)
    BY <1>1, <2>1, AppFacts DEF AppTies, EngineTies, GatewayTies, HasGateway, HasEngine
  <2> DEFINE p == IF shape = "worker" THEN "failed" ELSE "stop_gateway"
  <2>3. /\ app' = [app EXCEPT !.pc = p, !.started = app.started] /\ app.started \in BOOLEAN
    BY <1>1, <2>1, AppPlain
  <2>4. p = "failed" \/ (p = "stop_gateway" /\ HasGateway)
    BY <2>2
  <2> HIDE DEF p
  <2>5. QED
    BY <1>1, <2>2, <2>3, <2>4, AppGoesOn
<1>5. QED
  BY <1>3, <1>4

\* The beginning of the shutdown keeps the invariant.
LEMMA ShutdownKeeps ==
  ASSUME HostInv, Shutdown
  PROVE  HostInv'
<1>1. /\ app.pc = "up" /\ app \in Apps /\ ~app.skipped
      /\ UNCHANGED <<shape, plan, gateway, engine, loader, consumers, open, health>>
      /\ engine.holder # "app" /\ shape # "engine"
      /\ gateway.stop \in {"cancelling", "closing"} => gateway.holder # "app"
      /\ HasEngine => engine.pc \notin {"new", "scheduled"}
      /\ app' = [app EXCEPT !.pc = IF HasGateway THEN "stop_gateway" ELSE "stop_worker"]
  BY AppFacts DEF Shutdown, AppTies, EngineTies, GatewayTies
<1> DEFINE p == IF HasGateway THEN "stop_gateway" ELSE "stop_worker"
<1>2. /\ app' = [app EXCEPT !.pc = p, !.started = app.started] /\ app.started \in BOOLEAN
  BY <1>1, AppPlain
<1>3. (p = "stop_worker" /\ ~HasGateway) \/ (p = "stop_gateway" /\ HasGateway)
  OBVIOUS
<1> HIDE DEF p
<1>4. QED
  BY <1>1, <1>2, <1>3, AppGoesOn

\* The application's stop of the gateway keeps the invariant.
LEMMA AppStopsGatewayKeeps ==
  ASSUME HostInv, AppStopsGateway
  PROVE  HostInv'
<1>1. CASE GatewayStopBegins("app") /\ UNCHANGED app
  BY <1>1, GatewayStopBeginsKeeps DEF AppStopsGateway
<1>2. CASE /\ gateway.stop = "yes" /\ gateway.holder # "app"
           /\ app' = [app EXCEPT !.pc = "stop_worker"] /\ UNCHANGED gateway
  <2>1. /\ app.pc = "stop_gateway" /\ app \in Apps /\ ~app.skipped
        /\ UNCHANGED <<shape, plan, gateway, engine, loader, consumers, open, health>>
        /\ engine.holder # "app" /\ shape # "engine"
        /\ HasEngine => engine.pc \notin {"new", "scheduled"}
    BY <1>2, AppFacts DEF AppStopsGateway, AppTies, EngineTies
  <2>2. /\ app' = [app EXCEPT !.pc = "stop_worker", !.started = app.started] /\ app.started \in BOOLEAN
    BY <1>2, <2>1, AppPlain
  <2>3. QED
    BY <1>2, <2>1, <2>2, AppGoesOn
<1>3. QED
  BY <1>1, <1>2 DEF AppStopsGateway

\* The application's stop of the worker keeps the invariant.
LEMMA AppStopsWorkerKeeps ==
  ASSUME HostInv, AppStopsWorker
  PROVE  HostInv'
<1>1. /\ app.pc = "stop_worker" /\ app \in Apps /\ ~app.skipped /\ shape # "engine"
      /\ UNCHANGED <<shape, plan, gateway, loader, consumers, open, health>>
      /\ HasEngine => engine.pc \notin {"new", "scheduled"}
      /\ (HasGateway => gateway.stop = "yes")
  BY AppFacts DEF AppStopsWorker, AppTies
<1>2. CASE HasEngine /\ EngineStopBegins("app") /\ UNCHANGED app
  BY <1>1, <1>2, EngineStopBeginsKeeps
<1>3. CASE /\ HasEngine /\ engine.stop = "yes" /\ engine.holder # "app"
           /\ app' = [app EXCEPT !.pc = "reaping"] /\ UNCHANGED engine
  <2>1. /\ app' = [app EXCEPT !.pc = "reaping", !.started = app.started] /\ app.started \in BOOLEAN
    BY <1>1, <1>3, AppPlain
  <2>2. gateway.stop \in {"cancelling", "closing"} => gateway.holder # "app"
    BY <1>1, AppFacts DEF GatewayTies
  <2>3. QED
    BY <1>1, <1>3, <2>1, <2>2, AppGoesOn
<1>4. CASE ~HasEngine /\ app' = [app EXCEPT !.pc = "down", !.started = FALSE] /\ UNCHANGED engine
  <2>1. /\ engine.stop = "no"
        /\ gateway.stop \in {"cancelling", "closing"} => gateway.holder # "app"
    BY <1>1, <1>4, AppFacts DEF GatewayTies, EngineTies, EngineCore
  <2>2. QED
    BY <1>1, <1>4, <2>1, AppGoesOn
<1>5. QED
  BY <1>2, <1>3, <1>4 DEF AppStopsWorker

\* The application, or run_engine, that is down keeps the invariant.
LEMMA AppDownKeeps ==
  ASSUME HostInv, AppReaps \/ RunEngineEnds
  PROVE  HostInv'
<1>1. /\ app.pc \in {"reaping", "starting"} /\ app \in Apps /\ ~app.skipped /\ engine.pc = "done"
      /\ UNCHANGED <<shape, plan, gateway, engine, loader, consumers, open, health>>
      /\ engine.stop = "yes"
      /\ gateway.stop \in {"cancelling", "closing"} => gateway.holder # "app"
  BY AppFacts DEF AppReaps, RunEngineEnds, AppTies, EngineCore, GatewayTies
<1>2. CASE AppReaps
  <2>1. /\ app' = [app EXCEPT !.pc = "down", !.started = FALSE]
        /\ (HasGateway => gateway.stop = "yes")
    BY <1>2, AppFacts DEF AppReaps, AppTies
  <2>2. QED
    BY <1>1, <2>1, AppGoesOn
<1>3. CASE RunEngineEnds
  <2>1. app' = [app EXCEPT !.pc = "down"] /\ ~HasGateway
    BY <1>3 DEF RunEngineEnds, HasGateway
  <2>2. /\ app' = [app EXCEPT !.pc = "down", !.started = app.started] /\ app.started \in BOOLEAN
    BY <1>1, <2>1, AppPlain
  <2>3. QED
    BY <1>1, <2>1, <2>2, AppGoesOn
<1>4. QED
  BY <1>2, <1>3

\* What a consumer reports about itself.
LEMMA ConsumerMoves ==
  ASSUME HostInv, UNCHANGED <<shape, plan, app, gateway, engine, loader, open>>,
         NEW o \in Owners, NEW n \in Endpoints, Polling(o, n), NEW v \in ConsumerStates,
         consumers' = [consumers EXCEPT ![o][n] = v],
         \/ UNCHANGED health
         \/ \E status \in {"ready", "unavailable"} : health' = Mark({ConsumerHealth(n)}, status)
  PROVE  HostInv'
<1>1. EngineSound' /\ GatewaySound' /\ AppSound' /\ LoaderSound' /\ OpenIsHeld'
  BY SameHost DEF HostInv, EngineSound, EngineTies, GatewaySound, GatewayTies, AppSound, AppTies,
                  LoaderSound, OpenIsHeld
<1>2. health' \in [HealthComponents -> {"ready", "unavailable"}] /\ HealthSound'
  <2>1. CASE UNCHANGED health
    BY <2>1 DEF HostInv, HostTypes, HealthSound, HealthIn
  <2>2. CASE \E status \in {"ready", "unavailable"} : health' = Mark({ConsumerHealth(n)}, status)
    <3>1. {"catalog", "worker"} \cap {ConsumerHealth(n)} = {}
      BY ConsumerHealthFacts
    <3>2. QED
      BY <2>2, <3>1, GatewayHealth
  <2>3. QED
    BY <2>1, <2>2
<1>3. consumers \in [Owners -> [Endpoints -> ConsumerStates]]
  BY DEF HostInv, HostTypes
<1>4. /\ consumers' \in [Owners -> [Endpoints -> ConsumerStates]]
      /\ \A q \in Owners, m \in Endpoints :
           consumers'[q][m] = IF q = o /\ m = n THEN v ELSE consumers[q][m]
  BY <1>3
<1>5. ConsumersSound'
  BY <1>3, <1>4 DEF HostInv, ConsumersSound, ConsumersIn, Polling, Owners
<1>6. HostTypes'
  BY <1>2, <1>4, SameHost DEF HostInv, HostTypes
<1>7. QED
  BY <1>1, <1>2, <1>5, <1>6 DEF HostInv

\* A consumer that polls, loses its broker or ends keeps the invariant.
LEMMA ConsumersKeep ==
  ASSUME HostInv, NEW o \in Owners, NEW n \in Endpoints,
         ConsumerTaskEnds(o, n) \/ (\E ok \in BOOLEAN : ConsumerPolls(o, n, ok))
  PROVE  HostInv'
<1>1. {"done", "ready", "lost"} \subseteq ConsumerStates
  BY DEF ConsumerStates
<1>2. CASE ConsumerTaskEnds(o, n)
  BY <1>1, <1>2, ConsumerMoves DEF ConsumerTaskEnds
<1>3. CASE \E ok \in BOOLEAN : ConsumerPolls(o, n, ok)
  <2>1. PICK ok \in BOOLEAN : ConsumerPolls(o, n, ok)
    BY <1>3
  <2>2. \E v \in {"ready", "lost"} : consumers' = [consumers EXCEPT ![o][n] = v]
    BY <2>1 DEF ConsumerPolls
  <2>3. /\ Polling(o, n) /\ UNCHANGED <<shape, plan, app, gateway, engine, loader, open>>
        /\ \/ UNCHANGED health
           \/ \E status \in {"ready", "unavailable"} : health' = Mark({ConsumerHealth(n)}, status)
    BY <2>1 DEF ConsumerPolls
  <2>4. QED
    BY <1>1, <2>2, <2>3, ConsumerMoves
<1>4. QED
  BY <1>2, <1>3
(***************************************************************************)
(* The invariant.                                                          *)
(***************************************************************************)

\* A process that has not started has opened nothing.
LEMMA InitSound ==
  ASSUME Init
  PROVE  HostInv
<1>1. PICK h \in Hosts : shape = h.shape /\ plan = h.plan
  BY DEF Init
<1>2. /\ plan.attempts \in Nat \ {0} /\ shape \in {"gateway", "worker", "combined", "engine"}
  BY <1>1, HostAssumption
<1>3. /\ app = [pc |-> "new", worker |-> "pending", started |-> FALSE, skipped |-> FALSE]
      /\ gateway = [pc |-> "new", attempt |-> 0, stack |-> <<>>, closing |-> Nothing,
                    stop |-> "no", holder |-> Nothing, failed |-> FALSE, started |-> FALSE,
                    overtaken |-> "no"]
      /\ engine = [pc |-> "new", attempt |-> 0, stack |-> <<"resources">>, owned |-> {"resources"},
                   closing |-> Nothing, stop |-> "no", holder |-> Nothing, failed |-> FALSE,
                   ready |-> FALSE, running |-> {}, died |-> FALSE, cancelled |-> FALSE]
      /\ loader = [order |-> <<>>, next |-> 0, stack |-> <<>>, closing |-> Nothing,
                   loaded |-> {}, closed |-> FALSE, overlapped |-> FALSE]
      /\ consumers = [o \in Owners |-> [e \in Endpoints |-> "none"]]
      /\ open = {} /\ health = [c \in HealthComponents |-> "unavailable"]
  BY DEF Init
<1>4. "resources" \in Components /\ <<"resources">> \in Seq(Components)
  BY DEF Components
<1>5. HostTypes
  <2>1. app \in Apps
    BY <1>3 DEF Apps
  <2>2. gateway \in Gateways
    BY <1>3 DEF Gateways, GatewayPcs
  <2>3. engine \in Engines
    BY <1>3, <1>4 DEF Engines, EnginePcs, WorkerTasks
  <2>4. loader \in Loaders(Names)
    BY <1>3 DEF Loaders
  <2>5. consumers \in [Owners -> [Endpoints -> ConsumerStates]]
    BY <1>3 DEF ConsumerStates
  <2>6. health \in [HealthComponents -> {"ready", "unavailable"}]
    BY <1>3
  <2>7. QED
    BY <1>1, <2>1, <2>2, <2>3, <2>4, <2>5, <2>6 DEF HostTypes
<1>6. /\ HeldIn(<<>>, Nothing) = {} /\ OnceIn(<<>>, Nothing)
      /\ BelowIn(<<>>, Nothing, ConsumerNeeds) /\ BelowIn(<<>>, Nothing, ResourceNeeds)
  BY <1>5, EmptyKeeps, NeedsOfConsumers, PlanFacts
<1>7. /\ Held(gateway) = {} /\ Once(gateway) /\ Below(gateway, ConsumerNeeds)
      /\ Held(loader) = {} /\ Once(loader) /\ Below(loader, ResourceNeeds)
  BY <1>3, <1>6 DEF Held, Once, Below
<1>8. /\ ToSet(<<"resources">>) = {"resources"} /\ IsInjective(<<"resources">>)
  BY DEF ToSet, IsInjective
<1>9. Held(engine) = {"resources"} /\ EngineStack(engine)
  <2>1. Held(engine) = {"resources"} /\ Once(engine)
    BY <1>3, <1>4, <1>8, NamesAreNames DEF Held, HeldIn, Once, OnceIn
  <2>2. Below(engine, ConsumerNeeds)
    BY <1>3, <1>8, NamesAreNames, NeedsOfConsumers DEF Below, BelowIn
  <2>3. QED
    BY <1>3, <1>8, <2>1, <2>2 DEF EngineStack
<1>10. EngineSound
  <2>1. /\ engine.pc = "new" /\ engine.stop = "no" /\ engine.holder = Nothing /\ engine.attempt = 0
        /\ engine.closing = Nothing /\ engine.owned = {"resources"} /\ app.pc = "new"
    BY <1>3
  <2>2. EngineCore(engine)
    BY <1>9, <2>1 DEF EngineCore, OwnedAt, Nothing
  <2>3. EngineTies(engine, app, gateway.stop)
    BY <2>1 DEF EngineTies, Nothing
  <2>4. QED
    BY <1>2, <2>1, <2>2, <2>3 DEF EngineSound
<1>11. GatewaySound
  BY <1>2, <1>3, <1>7 DEF GatewaySound, GatewayCore, GatewayTies, Nothing
<1>12. LoaderSound
  <2>1. Taken(loader) = {} /\ ToSet(loader.stack) = {} /\ IsInjective(loader.order)
    BY <1>3 DEF Taken, ToSet, IsInjective
  <2>2. LoaderCore(loader, ResourceNeeds)
    <3>1. /\ loader.next = 0 /\ loader.order = <<>> /\ loader.closing = Nothing /\ loader.loaded = {}
          /\ ~loader.overlapped /\ 0 <= Len(<<>>)
      BY <1>3
    <3>2. QED
      BY <1>7, <2>1, <3>1 DEF LoaderCore
  <2>3. LoaderTies(loader, engine, app.skipped)
    BY <1>3, <1>7, <1>9 DEF LoaderTies
  <2>4. QED
    BY <2>2, <2>3 DEF LoaderSound
<1>13. AppSound
  BY <1>3 DEF AppSound, AppTies
<1>14. ConsumersSound /\ HealthSound
  BY <1>3 DEF ConsumersSound, ConsumersIn, HealthSound, HealthIn, Owners
<1>15. OpenIsHeld
  BY <1>3, <1>7, <1>9 DEF OpenIsHeld, OpenOf
<1>16. QED
  BY <1>5, <1>10, <1>11, <1>12, <1>13, <1>14, <1>15 DEF HostInv

\* A step that changes nothing keeps the invariant.
LEMMA StutterSound ==
  ASSUME HostInv, UNCHANGED vars
  PROVE  HostInv'
<1>1. UNCHANGED <<shape, plan, app, gateway, engine, loader, consumers, open, health>>
  BY DEF vars
<1>2. EngineSound' /\ GatewaySound' /\ AppSound' /\ LoaderSound'
  BY <1>1, SameHost DEF HostInv, EngineSound, EngineTies, GatewaySound, GatewayTies, AppSound, AppTies,
                        LoaderSound
<1>3. HostTypes' /\ OpenIsHeld' /\ ConsumersSound' /\ HealthSound'
  BY <1>1, SameHost DEF HostInv, HostTypes, OpenIsHeld, ConsumersSound, HealthSound
<1>4. QED
  BY <1>2, <1>3 DEF HostInv

\* Every step of the engine keeps the invariant.
LEMMA EngineStepSound ==
  ASSUME HostInv, EngineStep
  PROVE  HostInv'
<1>1. CASE \E o \in {"configuration", "definitions", "ok"}, checked \in BOOLEAN,
              order \in LoadOrders(plan) \cup {<<>>} : EngineBegin(o, order, checked)
  BY <1>1, BeginKeeps
<1>2. CASE \E ok, checked \in BOOLEAN : ResourceInitialized(ok, checked)
  BY <1>2, InitializedKeeps
<1>3. CASE \E ok \in BOOLEAN : EngineConnected(ok) \/ EngineEnsured(ok) \/ EngineConsumersReady(ok)
  BY <1>3, ConnectedKeeps, EnsuredKeeps, ConsumersReadyKeeps
<1>4. CASE \E a \in Answers : EngineRouted(a)
  BY <1>4, RoutedKeeps
<1>5. CASE EngineSupervise \/ EngineCancelled \/ EngineFinally \/ EngineClosesResources
  BY <1>5, SuperviseKeeps, CancelledKeeps, FinallyKeeps, ClosesResourcesKeeps
<1>6. CASE \E ok \in BOOLEAN : ResourceClosed(ok) \/ EngineComponentClosed(ok)
  BY <1>6, ResourceClosedKeeps, ComponentClosedKeeps
<1>7. QED
  BY <1>1, <1>2, <1>3, <1>4, <1>5, <1>6 DEF EngineStep

\* Every step of the gateway keeps the invariant.
LEMMA GatewayStepSound ==
  ASSUME HostInv, GatewayStep
  PROVE  HostInv'
<1>1. CASE \E o \in {"configuration", "broker", "ok"} : GatewayBegin(o)
  BY <1>1, GatewayBeginKeeps
<1>2. CASE \E ok \in BOOLEAN : GatewayConnected(ok) \/ GatewayConsumersReady(ok)
                              \/ GatewayComponentClosed(ok)
  BY <1>2, GatewayConnectedKeeps, GatewayConsumersReadyKeeps, GatewayComponentClosedKeeps
<1>3. CASE \E a \in Answers : GatewayRouted(a)
  BY <1>3, GatewayRoutedKeeps
<1>4. CASE GatewayTasksCancelled \/ GatewayExcept
  BY <1>4, TasksCancelledKeeps, GatewayExceptKeeps
<1>5. QED
  BY <1>1, <1>2, <1>3, <1>4 DEF GatewayStep

\* Every step of the application keeps the invariant.
LEMMA AppStepSound ==
  ASSUME HostInv, AppStep
  PROVE  HostInv'
BY StartupKeeps, WorkerWaitKeeps, StartupEndsKeeps, AppStopsGatewayKeeps, AppStopsWorkerKeeps,
   AppDownKeeps DEF AppStep

\* Every event from outside the process keeps the invariant.
LEMMA HostEventSound ==
  ASSUME HostInv, HostEvent
  PROVE  HostInv'
<1>1. CASE Shutdown \/ EngineInterrupted
  BY <1>1, ShutdownKeeps, InterruptedKeeps
<1>2. CASE \E t \in WorkerTasks : WorkerTaskEnds(t)
  BY <1>2, WorkerEnds
<1>3. CASE \E o \in Owners, e \in Endpoints :
             ConsumerTaskEnds(o, e) \/ \E ok \in BOOLEAN : ConsumerPolls(o, e, ok)
  BY <1>3, ConsumersKeep
<1>4. QED
  BY <1>1, <1>2, <1>3 DEF HostEvent

\* The invariant holds in every process, whatever is started and whatever fails.
THEOREM HostInvariant == HostSpec => []HostInv
<1>1. Init => HostInv
  BY InitSound
<1>2. HostInv /\ [HostNext]_vars => HostInv'
  <2>1. SUFFICES ASSUME HostInv, [HostNext]_vars
                 PROVE  HostInv'
    OBVIOUS
  <2>2. CASE HostNext
    BY <2>1, <2>2, EngineStepSound, GatewayStepSound, AppStepSound, HostEventSound DEF HostNext
  <2>3. CASE UNCHANGED vars
    BY <2>1, <2>3, StutterSound
  <2>4. QED
    BY <2>1, <2>2, <2>3
<1>3. QED
  BY <1>1, <1>2, PTL DEF HostSpec

(***************************************************************************)
(* What the invariant says of the process.                                 *)
(***************************************************************************)

\* The invariant has the types of TypeOK.
LEMMA SoundIsTyped ==
  ASSUME HostInv
  PROVE  TypeOK
<1>1. /\ app \in Apps /\ gateway \in Gateways /\ engine \in Engines /\ loader \in Loaders(Names)
      /\ consumers \in [Owners -> [Endpoints -> ConsumerStates]]
      /\ health \in [HealthComponents -> {"ready", "unavailable"}]
  BY DEF HostInv, HostTypes
<1>2. plan.attempts \in Nat /\ gateway.attempt < plan.attempts /\ engine.attempt < plan.attempts
  BY PlanFacts DEF HostInv, GatewaySound, EngineSound
<1>3. gateway.attempt \in 0..plan.attempts - 1 /\ engine.attempt \in 0..plan.attempts - 1
  BY <1>1, <1>2 DEF Gateways, Engines
<1>4. engine.owned \subseteq Components /\ ToSet(engine.stack) \subseteq engine.owned
      /\ engine.closing \in engine.owned \cup {Nothing}
  BY <1>1 DEF Engines, HostInv, EngineSound, EngineCore, EngineStack, Held, HeldIn
<1>5. loader.next \in 0..Len(loader.order)
  BY <1>1 DEF Loaders, HostInv, LoaderSound, LoaderCore
<1>6. QED
  BY <1>1, <1>3, <1>4, <1>5 DEF TypeOK, Apps, Gateways, GatewayPcs, Engines, EnginePcs, ConsumerStates

\* A process whose shutdown is through, no stop overtaken by the start of the gateway
\* and none skipped, has closed all it opened (ShutdownClosesEverything).
LEMMA SoundCloses ==
  ASSUME HostInv
  PROVE  ShutdownClosesEverything
<1>1. SUFFICES ASSUME app.pc = "down", ~app.skipped, gateway.overtaken # "yes"
               PROVE  open = {}
  BY DEF ShutdownClosesEverything
<1>2. /\ AppTies(app, gateway, engine) /\ EngineTies(engine, app, gateway.stop) /\ EngineCore(engine)
      /\ GatewayCore(gateway) /\ GatewayTies(gateway, app)
      /\ LoaderCore(loader, ResourceNeeds) /\ LoaderTies(loader, engine, app.skipped)
      /\ loader \in Loaders(Names) /\ open = OpenOf(gateway, engine, loader)
  BY AppFacts DEF HostInv, HostTypes, LoaderSound, OpenIsHeld
<1>3. Held(gateway) = {}
  <2>1. gateway.stack = <<>> /\ gateway.closing = Nothing
    BY <1>1, <1>2 DEF AppTies, GatewayCore, GatewayTies
  <2>2. QED
    BY <2>1, EmptyKeeps DEF Held
<1>4. Held(engine) \ {"resources"} = {} /\ Held(loader) = {}
  <2>1. CASE HasEngine
    <3>1. engine.pc = "done" /\ engine.stack = <<>> /\ engine.closing = Nothing
      BY <1>1, <1>2, <2>1 DEF AppTies, EngineCore, EngineTies
    <3>2. Held(engine) = {}
      BY <3>1, EmptyKeeps DEF Held
    <3>3. QED
      BY <1>1, <1>2, <3>1, <3>2 DEF LoaderTies
  <2>2. CASE ~HasEngine
    <3>1. engine.pc = "new"
      BY <1>2, <2>2 DEF EngineTies
    <3>2. Held(engine) \subseteq {"resources"}
      BY <3>1, LoadingHolds
    <3>3. loader.order = <<>> /\ loader.next = 0
      BY <1>2, <3>1 DEF LoaderTies, LoaderCore, Loaders
    <3>4. Taken(loader) = {}
      BY <3>3 DEF Taken
    <3>5. QED
      BY <1>2, <3>2, <3>4 DEF LoaderCore
  <2>3. QED
    BY <2>1, <2>2
<1>5. QED
  BY <1>2, <1>3, <1>4 DEF OpenOf

\* A resource that is open has the resources it depends on open, as long as the loader
\* and the stop do not unwind at the same time (DependenciesOutliveDependents).
LEMMA SoundOutlives ==
  ASSUME HostInv
  PROVE  DependenciesOutliveDependents
<1>1. SUFFICES ASSUME ~loader.overlapped, NEW r \in Names, <<"loader", r>> \in open,
                      NEW d \in ToSet(plan.needs[r])
               PROVE  <<"loader", d.name>> \in open
  BY DEF DependenciesOutliveDependents, Names
<1>2. open = OpenOf(gateway, engine, loader) /\ Below(loader, ResourceNeeds)
  BY <1>1 DEF HostInv, OpenIsHeld, LoaderSound, LoaderCore
<1>3. r \in Held(loader)
  BY <1>1, <1>2 DEF OpenOf
<1>4. <<r, d.name>> \in ResourceNeeds
  BY DEF ResourceNeeds
<1>5. d.name \in ToSet(loader.stack)
  <2>1. /\ \A i \in DOMAIN loader.stack : loader.stack[i] = r =>
                                            \E j \in 1..i - 1 : loader.stack[j] = d.name
        /\ loader.closing = r => d.name \in ToSet(loader.stack)
    BY <1>2, <1>4 DEF Below, BelowIn
  <2>2. loader.stack \in Seq(Names)
    BY DEF HostInv, HostTypes, Loaders
  <2>3. QED
    BY <1>3, <2>1, <2>2 DEF Held, HeldIn, ToSet
<1>6. QED
  BY <1>2, <1>5 DEF OpenOf, Held, HeldIn

\* A consumer that polls has its broker open (ConsumersHaveTheirBroker).
LEMMA SoundBrokers ==
  ASSUME HostInv
  PROVE  ConsumersHaveTheirBroker
<1>1. SUFFICES ASSUME NEW o \in Owners, NEW e \in Endpoints, Polling(o, e),
                      ~(o = "gateway" /\ gateway.overtaken # "no")
               PROVE  <<o, "broker">> \in open
  BY DEF ConsumersHaveTheirBroker
<1>2. open = OpenOf(gateway, engine, loader) /\ "broker" # "resources"
  BY DEF HostInv, OpenIsHeld
<1>3. <<e, "broker">> \in ConsumerNeeds
  BY NeedsOfConsumers
<1>4. ASSUME NEW S, NEW s \in Seq(S), NEW c, BelowIn(s, c, ConsumerNeeds), e \in HeldIn(s, c)
      PROVE  "broker" \in HeldIn(s, c)
  <2>1. /\ \A i \in DOMAIN s : s[i] = e => \E j \in 1..i - 1 : s[j] = "broker"
        /\ c = e => "broker" \in ToSet(s)
    BY <1>3, <1>4 DEF BelowIn
  <2>2. QED
    BY <1>4, <2>1 DEF HeldIn, ToSet
<1>5. CASE o = "engine"
  <2>1. e \in Held(engine) /\ Below(engine, ConsumerNeeds) /\ engine.stack \in Seq(Components)
    BY <1>1, <1>5 DEF HostInv, HostTypes, Engines, ConsumersSound, ConsumersIn, Polling,
                      EngineSound, EngineCore, EngineStack
  <2>2. "broker" \in Held(engine)
    BY <1>4, <2>1 DEF Held, Below
  <2>3. QED
    BY <1>2, <1>5, <2>2 DEF OpenOf
<1>6. CASE o = "gateway"
  <2>1. e \in Held(gateway) /\ Below(gateway, ConsumerNeeds) /\ gateway.stack \in Seq(GatewayNames)
    BY <1>1, <1>6 DEF HostInv, HostTypes, Gateways, ConsumersSound, ConsumersIn, Polling,
                      GatewaySound, GatewayCore
  <2>2. "broker" \in Held(gateway)
    BY <1>4, <2>1 DEF Held, Below
  <2>3. QED
    BY <1>2, <1>6, <2>2 DEF OpenOf
<1>7. QED
  BY <1>5, <1>6 DEF Owners

\* A process whose engine is stopped is not ready (StoppedEngineIsNotReady).
LEMMA SoundIsNotReady ==
  ASSUME HostInv
  PROVE  StoppedEngineIsNotReady
<1>1. SUFFICES ASSUME engine.stop = "yes"
               PROVE  ~Ready
  BY DEF StoppedEngineIsNotReady
<1>2. health["catalog"] = "unavailable" \/ health["worker"] = "unavailable"
  BY <1>1 DEF HostInv, HealthSound, HealthIn
<1>3. HasEngine
  BY <1>1, AppFacts DEF EngineCore, EngineTies
<1>4. "catalog" \in Required /\ "worker" \in Required
  BY <1>3 DEF Required
<1>5. QED
  BY <1>2, <1>4 DEF Ready

\* The invariant has all that ShutdownIsOrderly asks.
LEMMA SoundIsOrderly ==
  ASSUME HostInv
  PROVE  ShutdownIsOrderly
BY SoundIsTyped, SoundCloses, SoundOutlives, SoundBrokers, SoundIsNotReady DEF ShutdownIsOrderly

\* In every process - a gateway, a worker, both, or run_engine - start-up and shutdown
\* keep their order: whatever await fails, task dies or signal arrives, what was opened is
\* closed, dependencies and brokers outlive who uses them, and a stopped engine does not
\* report ready.
THEOREM HostIsOrderly == HostSpec => []ShutdownIsOrderly
<1>1. HostInv => ShutdownIsOrderly
  BY SoundIsOrderly
<1>2. QED
  BY <1>1, HostInvariant, PTL

====
