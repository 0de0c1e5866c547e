---------------------------- MODULE MCControlPlane ----------------------------
(***************************************************************************)
(* Small instances of the components of the control plane.                 *)
(***************************************************************************)
EXTENDS ControlPlane

-----------------------------------------------------------------------------
(* The API of a process of scope "own" in a namespace it shares with scope *)
(* "other": two requests, one change of policy or one fault.               *)
Asks(o, t, k) == [op |-> o, target |-> t, key |-> k, body |-> "ok", event |-> "ok"]

MCApiRequests ==
  {Asks("signal", "t1", ""), Asks("cancel", "t2", ""), Asks("terminate", "t3", ""), Asks("list", "", ""),
        Asks("describe", "t3", ""), Asks("pause", "a", ""), Asks("apply", "", ""),
        Asks("edit", "", ""), Asks("publish", "", ""), Asks("view_definitions", "", ""), Asks("health", "", ""),
        Asks("capabilities", "", ""), Asks("schedule_detail", "", "")}
  \cup {Asks(o, "a", "k1") : o \in {"start", "run", "schedule", "reschedule", "activate"}}
  \cup {Asks("event", "m1", "k1"), Asks("event", "m2", "k1"),
        Asks("webhook", "h1", "k1"), Asks("webhook", "h0", "k1"),
        [Asks("webhook", "h1", "k1") EXCEPT !.event = "unsigned"],
        [Asks("event", "m2", "k1") EXCEPT !.event = "adapter_down"],
        [Asks("signal", "t1", "") EXCEPT !.body = "bad"],
        [Asks("signal", "t1", "") EXCEPT !.body = "oversized"]}

MCOwnerOf == [t \in {"t1", "t2", "t3"} |->
                CASE t = "t1" -> "own" [] t = "t2" -> "other" [] OTHER -> "unscoped"]

AllServices == {"cloud_events", "webhooks", "configuration", "operations",
                "schedule_controls", "schedule_applier", "scheduled_starts"}

Host(provider, services) ==
  [provider |-> provider, services |-> services,
   mappings |-> [m \in {"m1", "m2"} |-> IF m = "m1" THEN "own" ELSE "other"],
   hooks |-> [h \in {"h1"} |-> "other"]]

MCApiHosts == {Host(TRUE, AllServices), Host(FALSE, {"cloud_events", "webhooks"})}

(* A principal of one scope, with the rights of the scope it is granted. *)
Policy(scope, grant) ==
  [scope |-> scope, grants |-> {grant},
   allows |-> {r.op : r \in ApiRequests} \X {grant}]

MCApiPolicies == {Policy("own", "own"), Policy("other", "other"), Policy("other", "own")}

TriggersOf ==
  [n \in 1..3 |-> [kind |-> <<"api", "event", "webhook">>[n], ref |-> <<"a", "m2", "h1">>[n],
                   paused |-> FALSE]]

MCRegistered ==
  [s \in {"own", "other"} |-> [w \in {"w"} |->
     [digest |-> "d1", logical |-> "w", scope |-> s, supported |-> TRUE, triggers |-> TriggersOf]]]

-----------------------------------------------------------------------------
(* Workflow 1 has a child 2, which has a child 3, which has a child 4:     *)
(* the descendants of 1 exceed the bound.  1 also has a definition without *)
(* children.                                                               *)
ChildKeys == {<<1, 1>>, <<2, 1>>, <<3, 1>>, <<4, 1>>, <<1, 2>>}

MCChildrenOf ==
  [k \in ChildKeys |-> CASE k = <<1, 1>> -> <<<<2, 1>>>>
                         [] k = <<2, 1>> -> <<<<3, 1>>>>
                         [] k = <<3, 1>> -> <<<<4, 1>>>>
                         [] OTHER -> <<>>]

-----------------------------------------------------------------------------
(* One authored schedule, two releases that reconcile it (one of them in   *)
(* the service), one operator; what is there before them is nothing, a     *)
(* schedule of theirs, of an older release without scopes, of somebody     *)
(* else, or one that cannot be read.                                       *)
StoredAs(scope, owner, action, digest, paused) ==
  [owner |-> owner, name |-> "a", scope |-> scope, action |-> action, digest |-> digest,
   paused |-> paused]

Ours(digest, paused) == StoredAs(Own, Justflow, "ok", digest, paused)
Legacy == StoredAs(None, Justflow, "ok", "d1", FALSE)
Nothing == [id \in Ids |-> Absent]
At(id, s) == [Nothing EXCEPT ![id] = s]
Scoped == ScopedId("a")
Old == UnscopedId("a")

Scenario(local, first, second, existing) ==
  [local |-> local, existing |-> existing,
   declared |-> [r \in Releases |-> [n \in Names |-> IF r = "r1" THEN first ELSE second]]]

D1 == [digest |-> "d1", paused |-> FALSE]
D2 == [digest |-> "d2", paused |-> FALSE]

MCScheduleScenarios ==
  {Scenario(TRUE, D2, D2, e) : e \in
     {Nothing, At(Scoped, Ours("d1", TRUE)), At(Old, Legacy),
      [At(Old, Legacy) EXCEPT ![Scoped] = Ours("d1", FALSE)],
      [At(Old, Legacy) EXCEPT ![Stray] = Legacy],
      At(Scoped, StoredAs(Own, "other", "ok", "d1", FALSE)),
      At(Scoped, StoredAs("foreign", Justflow, "ok", "d1", FALSE)),
      At(Scoped, StoredAs("corrupt", Justflow, "ok", "d1", FALSE)),
      At(Scoped, StoredAs(Own, Justflow, "other", "d1", FALSE))}}
  \cup {Scenario(FALSE, D2, NotDeclared, At(Old, Legacy)),
        Scenario(FALSE, D1, D2, At(Stray, Ours("d1", FALSE))),
        Scenario(FALSE, D1, NotDeclared, At(Scoped, Ours("d1", FALSE)))}

-----------------------------------------------------------------------------
(* Two callers that publish, import or load two workflows. *)
Document(first, second) == [w \in {"w1", "w2"} |-> IF w = "w1" THEN first ELSE second]

MCCatalogCalls ==
  {[kind |-> "publish", want |-> Document("d1", "none")],
   [kind |-> "publish", want |-> Document("d2", "d1")],
   [kind |-> "import", want |-> Document("none", "d1")],
   [kind |-> "load", want |-> Document("d1", "none")]}

-----------------------------------------------------------------------------
(* All keys of at most two letters, and all filters by one letter. *)
Words(n) == UNION {[1..m -> {"a", "b"}] : m \in 0..n}
MCObjectKeys == Words(2) \ {<<>>}
MCKeyFilters == [bucket : {"in"}, prefix : Words(1), suffix : Words(1)]

(* A host of the old and one of the new release. *)
MCRouterOf ==
  [h \in {"old", "new"} |->
     IF h = "old" THEN [active |-> "v1", supports |-> {"d1"}]
     ELSE [active |-> "v2", supports |-> {"d1", "d2"}]]

Question(kind, name, approved, fixture) ==
  [subject |-> <<kind, name>>, approved |-> approved, fixture |-> fixture]
MCQuestions ==
  {Question("worker", "v1", TRUE, TRUE), Question("definition", "d1", TRUE, TRUE),
   Question("worker", "v2", FALSE, FALSE)}
MCSchedulePins == {{<<"worker", "v2">>}}
MCWorkflowNames == 1..4
MCListIds == 1..4
===============================================================================
