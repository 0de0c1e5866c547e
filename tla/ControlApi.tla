------------------------------ MODULE ControlApi ------------------------------
(***************************************************************************)
(* The HTTP control plane: ControlApi (runtime/control_api.py) in front of *)
(* the workflow starter, WorkflowControlService (runtime/operations.py),   *)
(* the webhook and cloud-event ingress, the schedule controls, the         *)
(* scheduled starts, and the configuration and operations APIs.            *)
(*                                                                         *)
(* A request is routed, authenticated, authorized, read, performed and     *)
(* answered, with an await between two of these steps: requests interleave *)
(* and the host's policy changes between them.  What the services do with  *)
(* a call is modelled in their own modules; here a call has an effect in a *)
(* scope or it has none, and its answer may be lost.                       *)
(*                                                                         *)
(*   request [op, target, key, body, event]                                *)
(*   policy  [scope, grants, allows]  the principal the provider answers   *)
(*           with, and the pairs <<action, scope>> it authorizes           *)
(*   host    [provider, services, mappings, hooks]                         *)
(***************************************************************************)
EXTENDS StartAdmission

CONSTANTS
  Clients,
  LocalScope,
  Targets,          \* executions that a request may name
  OwnerOf,          \* [Targets -> scope in the id, or Unscoped]
  ApiRequests,
  ApiHosts,
  ApiPolicies,
  Registered,       \* [scope -> [workflow -> registration]]
  BlockingSlots,    \* MAX_CONTROL_PLANE_BLOCKING_OPERATIONS
  MaxApiFaults      \* policy changes, failed calls, oversized answers and cancelled requests

VARIABLES
  host, policy,
  req,         \* [Clients -> request in progress]
  effects,     \* what the services did: [by, op, scope, what]
  granted,     \* history: [by, action, scope] the provider allowed
  shown,       \* [Clients -> executions listed or described]
  slots,       \* the free slots of run_blocking's semaphore
  work,        \* clients whose blocking operation is on a thread
  apiFaults

apiVars == <<host, policy, req, effects, granted, shown, slots, work, apiFaults>>

Unscoped == "unscoped"
Free == [phase |-> "free"]

ApiScopes == {LocalScope} \cup {p.scope : p \in ApiPolicies}
WebhookEvents == {"ok", "unmapped", "unsigned", "payload", "identity", "adapter_down"}

ASSUME ApiAssumption ==
  /\ BlockingSlots \in Nat
  /\ Unscoped \notin ApiScopes
  /\ \A r \in ApiRequests : r.op = "webhook" => r.event \in WebhookEvents

ApiFault == apiFaults < MaxApiFaults /\ apiFaults' = apiFaults + 1
NoApiFault == UNCHANGED apiFaults

Starts == {"start", "event", "webhook"}
TriggerOps == {"pause", "resume", "run", "delete"}
Informs == {"health", "capabilities", "schedule_detail"}
Views == {"view_configuration", "view_definitions", "list", "describe"} \cup Informs

(* The service behind a route, and the ones looked up before the caller is *)
(* authenticated.                                                          *)
Service(op) ==
  CASE op = "event" -> "cloud_events"
    [] op = "webhook" -> "webhooks"
    [] op \in {"edit", "publish", "activate", "view_configuration"} -> "configuration"
    [] op \in {"view_definitions", "schedule_detail"} -> "operations"
    [] op \in TriggerOps -> "schedule_controls"
    [] op = "apply" -> "schedule_applier"
    [] op \in {"schedule", "reschedule"} -> "scheduled_starts"
    [] OTHER -> "core"

EarlyServices == {"cloud_events", "webhooks", "configuration", "operations"}

(* ConfigurationApi.resolve_route *)
ConfigurationAction(op) ==
  CASE op \in {"edit", "publish", "activate"} -> op
    [] OTHER -> "view_configuration"

(* OperationsApi.resolve_route: OPERATIONS_VIEW for most routes. *)
OperationsAction(op) ==
  IF op = "schedule_detail" THEN "view_scheduled" ELSE "view_definitions"

(* The AuthorizationAction of a route: _control_route and _capabilities. *)
Action(op) ==
  CASE op \in Starts -> "start"
    [] Service(op) = "configuration" -> ConfigurationAction(op)
    [] Service(op) = "operations" \/ op = "capabilities" -> OperationsAction(op)
    [] OTHER -> op

(* The statuses of the errors the services raise: _translate_start_error,  *)
(* _translate_control_error, _translate_scheduled_start_error and the      *)
(* tables of _trigger_control, _trigger_apply, ConfigurationApi and        *)
(* OperationsApi.  "refused" stands for 4xx and "error" for 5xx.           *)
StartStatus(code) ==
  IF code \in {"configuration_error", "temporal_unavailable"} THEN "error" ELSE "refused"

ControlStatus(code) == IF code = "temporal_unavailable" THEN "error" ELSE "refused"

ScheduledStartStatus(code) ==
  IF code \in {"quota_unavailable", "priority_unsupported", "temporal_unavailable"}
  THEN "error" ELSE "refused"

(* Mutant: an unavailable Temporal is answered as a conflict. *)
TriggerStatusConflict(code) == "refused"

TriggerStatus(code) == IF code = "temporal_unavailable" THEN "error" ELSE "refused"

ApplyStatus(code) ==
  IF code \in {"catalog_unavailable", "collection_limit", "temporal_unavailable"}
  THEN "error" ELSE "refused"

ConfigurationStatus(code) ==
  IF code \in {"busy", "retryable", "unavailable", "integrity"} THEN "error" ELSE "refused"

QueryStatus(code) ==
  IF code \in {"busy", "unavailable", "temporal_unavailable"} THEN "error" ELSE "refused"

ApiIs(h, p) ==
  /\ host = h /\ policy = p
  /\ req = [c \in Clients |-> Free]
  /\ effects = {} /\ granted = {}
  /\ shown = [c \in Clients |-> {}]
  /\ slots = BlockingSlots /\ work = {}
  /\ apiFaults = 0

ApiInit == \E h \in ApiHosts, p \in ApiPolicies : ApiIs(h, p)

SetReq(c, value) == req' = [req EXCEPT ![c] = value]
Go(c, phase) == SetReq(c, [req[c] EXCEPT !.phase = phase])

(* "ok" stands for 2xx. *)
Reply(c, status) == SetReq(c, [req[c] EXCEPT !.phase = "send", !.status = status])

(* The host edits its policy while requests are in progress. *)
ChangePolicy ==
  /\ ApiFault
  /\ \E p \in ApiPolicies \ {policy} : policy' = p
  /\ UNCHANGED <<host, req, effects, granted, shown, slots, work>>

-----------------------------------------------------------------------------
(* _dispatch and the routes up to the authentication. *)
Arrive(c, r) ==
  /\ req[c] = Free
  /\ SetReq(c, [phase |-> IF r.body = "oversized" THEN "send"
                          ELSE IF Service(r.op) \in EarlyServices \ host.services THEN "send"
                          ELSE IF r.op = "webhook" THEN "read" ELSE "authenticate",
                r |-> r, scope |-> LocalScope,
                status |-> "refused"])
  /\ UNCHANGED <<host, policy, effects, granted, shown, slots, work, apiFaults>>

(* Mutant: the principal of a cloud event may belong to any scope. *)
ScopeOfAnyPrincipal(c, scope) == TRUE

(* _cloud_event: the principal must belong to the scope of the mapping. *)
PrincipalFits(c, scope) ==
  req[c].r.op = "event" => /\ req[c].r.target \in DOMAIN host.mappings
                           /\ scope = host.mappings[req[c].r.target]

(* AuthenticatedPrincipal.scope_binding and require_scope_grant *)
ScopeIsGranted(scope) == host.provider => scope \in policy.grants

(* _authentication_context *)
Authenticate(c) ==
  LET scope == IF host.provider THEN policy.scope ELSE LocalScope
  IN  /\ req[c].phase = "authenticate"
      /\ \/ /\ ScopeIsGranted(scope)
            /\ PrincipalFits(c, scope)
            /\ SetReq(c, [req[c] EXCEPT !.phase = "authorize", !.scope = scope])
            /\ NoApiFault
         \/ /\ ~(ScopeIsGranted(scope) /\ PrincipalFits(c, scope))
            /\ Reply(c, "refused") /\ NoApiFault
         \/ /\ host.provider /\ ApiFault
            /\ \E s \in {"refused", "error"} : Reply(c, s)
      /\ UNCHANGED <<host, policy, effects, granted, shown, slots, work>>

Allowed(op, scope) == host.provider => <<Action(op), scope>> \in policy.allows

(* _trigger_apply acts on the scope of the process only. *)
AfterAuthorization(c) ==
  /\ Service(req[c].r.op) \in host.services \cup {"core"}
  /\ req[c].r.op = "apply" => req[c].scope = LocalScope

(* _require_authorized; the services that are looked up late. *)
Authorize(c) ==
  LET op == req[c].r.op
      scope == req[c].scope
  IN  /\ req[c].phase = "authorize"
      /\ \/ /\ Allowed(op, scope) /\ NoApiFault
            /\ granted' = granted \cup {[by |-> c, action |-> Action(op), scope |-> scope]}
            /\ IF AfterAuthorization(c) THEN Go(c, "read") ELSE Reply(c, "refused")
         \/ /\ ~Allowed(op, scope) /\ Reply(c, "refused")
            /\ UNCHANGED granted /\ NoApiFault
         \/ /\ host.provider /\ ApiFault /\ Reply(c, "error") /\ UNCHANGED granted
      /\ UNCHANGED <<host, policy, effects, shown, slots, work>>

(* _read_body, _read_json, the request models and the required headers: a  *)
(* client that goes away or a body that is not accepted ends the request.  *)
Read(c) ==
  /\ req[c].phase = "read"
  /\ IF req[c].r.body = "ok" THEN Go(c, "perform") ELSE Reply(c, "refused")
  /\ UNCHANGED <<host, policy, effects, granted, shown, slots, work, apiFaults>>

Performs(c, ops) == req[c].phase = "perform" /\ req[c].r.op \in ops

RefusedBy(c, status) == Reply(c, status) /\ UNCHANGED effects /\ NoApiFault

Delegated == UNCHANGED <<host, policy, granted, shown, slots, work>>

-----------------------------------------------------------------------------
(* Starts: _start, _cloud_event and _webhook after the body was read. *)

StartScope(c) ==
  CASE req[c].r.op = "event" -> host.mappings[req[c].r.target]
    [] req[c].r.op = "webhook" -> host.hooks[req[c].r.target]
    [] OTHER -> req[c].scope

StartRequest(c) ==
  [workflow |-> "w", digest |-> AnyDigest, input |-> "ok",
   source |-> [kind |-> CASE req[c].r.op = "start" -> "api" [] OTHER -> req[c].r.op,
               ref |-> req[c].r.target]]

StartBinding(c) ==
  [kind |-> StartRequest(c).source.kind, id |-> req[c].r.target, scope |-> StartScope(c)]

(* The verdict on a start before Temporal is called. *)
StartVerdict(c) ==
  LET r == req[c].r
      adapter == CASE r.op = "event" -> CloudEventRefusal(r.event)
                   [] r.op = "webhook" ->
                        IF r.target \in DOMAIN host.hooks THEN WebhookRefusal(r.event) ELSE "refused"
                   [] OTHER -> "none"
      refusal == StartRefusal(Registered, StartRequest(c), StartBinding(c))
  IN  IF adapter = "refused" THEN "refused"
      ELSE IF adapter = "retry" THEN "error"
      ELSE IF refusal # "none" THEN StartStatus(refusal)
      ELSE "none"

(* Mutant: the identity of a start does not name its scope. *)
StartIdentityUnscoped(c) ==
  <<"w", req[c].r.op, IF req[c].r.op = "start" THEN "" ELSE req[c].r.target, req[c].r.key>>

(* make_workflow_id of the business request, make_webhook_- and            *)
(* make_cloud_event_business_request_id included.                          *)
StartIdentity(c) ==
  <<StartScope(c), "w", req[c].r.op, IF req[c].r.op = "start" THEN "" ELSE req[c].r.target,
    req[c].r.key>>

(* A call to a service: it has its effect, it fails without, or it has its *)
(* effect and fails; failed is the status of the error it then raises.     *)
Called(c, scope, what, failed) ==
  LET effect == effects' = effects \cup
                  {[by |-> c, op |-> req[c].r.op, scope |-> scope, what |-> what]}
  IN  \/ effect /\ Reply(c, "ok") /\ NoApiFault
      \/ (effect \/ UNCHANGED effects) /\ Reply(c, failed) /\ ApiFault

(* The calls that may be refused after they took effect: what is read      *)
(* after a pause or a resume may be gone or not managed any more, the      *)
(* steps of an activation follow the creation of its record, and a call    *)
(* on an execution that the SDK repeats may find it ended.                 *)
RefusedLate == {"pause", "resume", "activate", "signal", "cancel", "terminate"}

LandsRefused(c, scope, what, status) ==
  /\ req[c].r.op \in RefusedLate /\ ApiFault
  /\ effects' = effects \cup {[by |-> c, op |-> req[c].r.op, scope |-> scope, what |-> what]}
  /\ Reply(c, status)

Exists(what) == \E e \in effects : e.what = what

(* A call that names what it creates: one that exists is answered with. *)
CalledOnce(c, scope, what, failed) ==
  IF Exists(what)
  THEN /\ UNCHANGED effects
       /\ \/ Reply(c, "ok") /\ NoApiFault
          \/ Reply(c, failed) /\ ApiFault
  ELSE Called(c, scope, what, failed)

StartCall(c) ==
  /\ IF StartVerdict(c) = "none"
     THEN CalledOnce(c, StartScope(c), StartIdentity(c), StartStatus("temporal_unavailable"))
     ELSE RefusedBy(c, StartVerdict(c))
  /\ Delegated

StartWorkflow(c) == Performs(c, {"start"}) /\ StartCall(c)
CloudEvent(c) == Performs(c, {"event"}) /\ StartCall(c)
Webhook(c) == Performs(c, {"webhook"}) /\ StartCall(c)

-----------------------------------------------------------------------------
(* WorkflowControlService: signal_event, cancel and terminate by id. *)

(* Mutant: an id without a scope is open to every scope. *)
IdentityAllowedUnscoped(t, scope) == OwnerOf[t] \in {scope, Unscoped}

(* _workflow_identity_allowed *)
IdentityAllowed(t, scope) ==
  OwnerOf[t] = scope \/ (scope = LocalScope /\ OwnerOf[t] = Unscoped)

(* The scope whose execution it is: ids without one are the local scope's. *)
ScopeOf(t) == IF OwnerOf[t] = Unscoped THEN LocalScope ELSE OwnerOf[t]

(* A call on an execution of the scope may be refused for its payload, and *)
(* by Temporal when the execution has ended (_control_error).              *)
ControlCall(c) ==
  LET t == req[c].r.target
  IN  /\ \/ /\ IdentityAllowed(t, req[c].scope)
            /\ \/ Called(c, ScopeOf(t), <<t>>, ControlStatus("temporal_unavailable"))
               \/ LandsRefused(c, ScopeOf(t), <<t>>, ControlStatus("not_found"))
         \/ RefusedBy(c, ControlStatus("not_found"))
         \/ req[c].r.op = "signal" /\ RefusedBy(c, ControlStatus("invalid_request"))
      /\ Delegated

Signal(c) == Performs(c, {"signal"}) /\ ControlCall(c)
StopExecution(c) == Performs(c, {"cancel", "terminate"}) /\ ControlCall(c)

(* Mutant: the executions on a page are not compared with the scope. *)
PageOfAnyScope(found, scope) == found

(* _summary: one foreign execution makes the page unavailable. *)
Page(found, scope) ==
  IF \A t \in found : IdentityAllowed(t, scope) THEN found ELSE {}

(* _visibility_query: every scope but the local one filters by id. *)
Visible(scope) == IF scope = LocalScope THEN Targets ELSE {t \in Targets : OwnerOf[t] = scope}

(* The answer to a read, unless Temporal is unavailable. *)
Show(c, page, status) ==
  /\ \/ /\ shown' = [shown EXCEPT ![c] = page] /\ NoApiFault
        /\ Reply(c, status)
     \/ ApiFault /\ Reply(c, ControlStatus("temporal_unavailable")) /\ UNCHANGED shown
  /\ UNCHANGED <<host, policy, effects, granted, slots, work>>

(* WorkflowControlService.list: a page with a foreign execution fails. *)
ListExecutions(c) ==
  LET found == Visible(req[c].scope)
      page == Page(found, req[c].scope)
  IN  /\ Performs(c, {"list"})
      /\ Show(c, page, IF page = found THEN "ok" ELSE ControlStatus("temporal_unavailable"))

(* WorkflowControlService.describe, with the scope in the memo. *)
DescribeExecution(c) ==
  LET t == req[c].r.target
  IN  /\ Performs(c, {"describe"})
      /\ IF IdentityAllowed(t, req[c].scope) THEN Show(c, {t}, "ok")
         ELSE Show(c, {}, ControlStatus("not_found"))

(* healthz, metrics, the administration panel and the reads of scheduled   *)
(* starts; _capabilities asks the provider about every other action, which *)
(* may fail half-way.                                                      *)
Inform(c) ==
  /\ req[c].phase = "perform" /\ req[c].r.op \in Informs
  /\ \/ Reply(c, "ok") /\ NoApiFault
     \/ req[c].r.op # "health" /\ Reply(c, QueryStatus("unavailable")) /\ ApiFault
  /\ UNCHANGED <<host, policy, effects, granted, shown, slots, work>>

-----------------------------------------------------------------------------
(* Calls of asynchronous services in the scope of the principal: they      *)
(* refuse without an effect, and the ones with a key answer a repeated key *)
(* with what the first request did.                                        *)
Keyed == {"run", "schedule", "reschedule", "activate"}

(* The idempotency identities of the services; claim_identity of run-now. *)
CallIdentity(c) ==
  <<req[c].scope, req[c].r.op, req[c].r.target, req[c].r.key>>

(* _trigger_control; pause and resume end with a description of the        *)
(* schedule, which may be gone by then.                                    *)
ControlTrigger(c) ==
  LET failed == TriggerStatus("temporal_unavailable")
      what == <<req[c].r.target>>
  IN  /\ Performs(c, TriggerOps)
      /\ \/ req[c].r.op = "run" /\ CalledOnce(c, req[c].scope, CallIdentity(c), failed)
         \/ req[c].r.op # "run" /\ Called(c, req[c].scope, what, failed)
         \/ LandsRefused(c, req[c].scope, what, TriggerStatus("unknown_schedule"))
         \/ RefusedBy(c, TriggerStatus("not_managed"))
      /\ Delegated

(* _trigger_apply *)
ApplyTriggers(c) ==
  /\ Performs(c, {"apply"})
  /\ \/ Called(c, req[c].scope, <<"apply">>, ApplyStatus("temporal_unavailable"))
     \/ RefusedBy(c, ApplyStatus("plan_conflict"))
  /\ Delegated

(* _create_scheduled_start *)
CreateScheduledStart(c) ==
  /\ Performs(c, {"schedule"})
  /\ \/ CalledOnce(c, req[c].scope, CallIdentity(c), ScheduledStartStatus("temporal_unavailable"))
     \/ RefusedBy(c, ScheduledStartStatus("quota_exceeded"))
  /\ Delegated

(* _mutate_scheduled_start *)
MutateScheduledStart(c) ==
  /\ Performs(c, {"reschedule"})
  /\ \/ CalledOnce(c, req[c].scope, CallIdentity(c), ScheduledStartStatus("temporal_unavailable"))
     \/ RefusedBy(c, ScheduledStartStatus("conflict"))
  /\ Delegated

(* The activation routes of ConfigurationApi.dispatch: the record exists   *)
(* before the lease is taken and the inputs are compared with the plan.    *)
Activate(c) ==
  /\ Performs(c, {"activate"})
  /\ \/ CalledOnce(c, req[c].scope, CallIdentity(c), ConfigurationStatus("retryable"))
     \/ /\ ~Exists(CallIdentity(c))
        /\ LandsRefused(c, req[c].scope, CallIdentity(c), ConfigurationStatus("stale_plan"))
     \/ RefusedBy(c, ConfigurationStatus("stale_plan"))
  /\ Delegated

-----------------------------------------------------------------------------
(* run_blocking: the storage operations of the configuration and           *)
(* operations APIs run on a thread, in a slot of a semaphore, and go on    *)
(* when their request is cancelled.                                        *)
Enter(c) ==
  /\ IF slots > 0
     THEN /\ slots' = slots - 1 /\ work' = work \cup {c}
          /\ Go(c, "waiting")
     ELSE /\ Reply(c, ConfigurationStatus("busy")) /\ UNCHANGED <<slots, work>>
  /\ UNCHANGED <<host, policy, effects, granted, shown, apiFaults>>

(* The routes of ConfigurationApi.dispatch on drafts, discards, revisions  *)
(* and publications, and the ones of OperationsApi.dispatch.               *)
EditConfiguration(c) == Performs(c, {"edit", "view_configuration"}) /\ Enter(c)
PublishConfiguration(c) == Performs(c, {"publish"}) /\ Enter(c)
QueryOperations(c) == Performs(c, {"view_definitions"}) /\ Enter(c)

(* The operation ends on its thread, with its effect or with an error.     *)
Complete(c) ==
  LET effect == effects' = effects \cup
        IF req[c].r.op \in Views THEN {}
        ELSE {[by |-> c, op |-> req[c].r.op, scope |-> req[c].scope, what |-> <<req[c].r.target>>]}
      answered(s) == IF req[c].phase = "waiting" THEN Reply(c, s) ELSE UNCHANGED req
      status(code) == IF Service(req[c].r.op) = "operations" THEN QueryStatus(code)
                      ELSE ConfigurationStatus(code)
  IN  /\ c \in work
      /\ work' = work \ {c} /\ slots' = slots + 1
      /\ \/ effect /\ answered("ok") /\ NoApiFault
         \/ UNCHANGED effects /\ answered(status("conflict")) /\ NoApiFault
         \/ (effect \/ UNCHANGED effects) /\ answered(status("unavailable")) /\ ApiFault
      /\ UNCHANGED <<host, policy, granted, shown>>

(* Mutant: a request that is cancelled gives its slot back. *)
CancelReleases(c) ==
  /\ req[c].phase = "waiting" /\ ApiFault
  /\ slots' = slots + 1
  /\ Go(c, "cancelled")
  /\ UNCHANGED <<host, policy, effects, granted, shown, work>>

(* The task of a request is cancelled while it waits for its thread. *)
Cancel(c) ==
  /\ req[c].phase = "waiting" /\ ApiFault
  /\ Go(c, "cancelled")
  /\ UNCHANGED <<host, policy, effects, granted, shown, slots, work>>

TooLarge == "error"

(* _send: the status, or 503 for an answer that is larger than its bound. *)
Send(c) ==
  /\ req[c].phase = "send"
  /\ \/ Go(c, "sent") /\ NoApiFault
     \/ /\ ApiFault
        /\ SetReq(c, [req[c] EXCEPT !.phase = "sent", !.status = TooLarge])
  /\ UNCHANGED <<host, policy, effects, granted, shown, slots, work>>

ApiNext ==
  \/ ChangePolicy
  \/ \E c \in Clients :
       \/ \E r \in ApiRequests : Arrive(c, r)
       \/ Authenticate(c) \/ Authorize(c) \/ Read(c)
       \/ StartWorkflow(c) \/ CloudEvent(c) \/ Webhook(c) \/ Signal(c) \/ StopExecution(c)
       \/ ListExecutions(c) \/ DescribeExecution(c) \/ Inform(c)
       \/ ControlTrigger(c) \/ ApplyTriggers(c) \/ CreateScheduledStart(c)
       \/ MutateScheduledStart(c) \/ Activate(c)
       \/ EditConfiguration(c) \/ PublishConfiguration(c) \/ QueryOperations(c) \/ Complete(c) \/ Cancel(c) \/ Send(c)

-----------------------------------------------------------------------------
Answered(c, status) == req[c].phase = "sent" /\ req[c].status = status
EffectsOf(c) == {e \in effects : e.by = c}

(* Whatever a service did for a caller with a principal, the provider had  *)
(* allowed that caller that action in the very scope that changed, however *)
(* the policy changed in between; a webhook acts only in the scope of its  *)
(* source (control_api.py _authorize, _cloud_event; operations.py          *)
(* _validate_execution_identity).                                          *)
EffectWasAuthorized ==
  \A e \in effects :
     IF e.op = "webhook"
     THEN e.scope = host.hooks[req[e.by].r.target] /\ req[e.by].r.event = "ok"
     ELSE [by |-> e.by, action |-> Action(e.op), scope |-> e.scope] \in granted

(* A start, run, scheduled start or activation that is answered 2xx exists *)
(* in the caller's scope, whoever created it, and only one does: a retry   *)
(* with the same key creates nothing, the same key in another scope is     *)
(* another request (make_workflow_id, _trigger_control claim_identity).    *)
AcceptedExistsOnce ==
  \A c \in Clients :
     /\ req[c] # Free /\ Answered(c, "ok") /\ req[c].r.op \in Starts \cup Keyed
     => LET scope == IF req[c].r.op \in Starts THEN StartScope(c) ELSE req[c].scope
            same == {e \in effects : /\ e.scope = scope /\ e.op = req[c].r.op
                                     /\ req[e.by].r.key = req[c].r.key
                                     /\ e.op # "start" => req[e.by].r.target = req[c].r.target}
        IN  Cardinality(same) = 1

(* A client whose start, event, webhook, run-now, scheduled start, trigger *)
(* deletion, apply, edit or publication was refused (4xx) may take it that *)
(* nothing happened: only 5xx leaves that open, an answer too large to     *)
(* send included (_send).  The calls in RefusedLate promise less.          *)
RefusalHasNoEffect ==
  \A c \in Clients :
     req[c] # Free /\ Answered(c, "refused") /\ EffectsOf(c) # {} => req[c].r.op \in RefusedLate

(* No page and no description shows an execution of a scope other than the *)
(* one the caller was authorized for (_summary, describe).                 *)
OnlyOwnExecutionsAreShown ==
  \A c \in Clients : \A t \in shown[c] :
     [by |-> c, action |-> req[c].r.op, scope |-> ScopeOf(t)] \in granted

(* No more storage operations run than there are slots, and every slot is  *)
(* free or used, also after requests were cancelled (blocking_io.py).      *)
BlockingIsBounded == Cardinality(work) <= BlockingSlots /\ slots + Cardinality(work) = BlockingSlots
===============================================================================
