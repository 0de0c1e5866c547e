--------------------------- MODULE StartAdmission ---------------------------
(***************************************************************************)
(* The checks of WorkflowStarter (runtime/starter.py) between a request    *)
(* that a trusted ingress hands over and the call that starts a workflow,  *)
(* and the admission of webhooks (runtime/webhooks.py) and cloud events    *)
(* (runtime/cloud_events.py) in front of it.  They are functions of the    *)
(* request, the binding and the registration that is active when they run. *)
(*                                                                         *)
(*   source   [kind, ref]       who asks: the ingress kind and its name    *)
(*   binding  [kind, id, scope] what the host trusts that ingress to be    *)
(*   request  [workflow, source, digest, input]                            *)
(*   registration [digest, logical, scope, supported, triggers]            *)
(*                                                                         *)
(* Trigger names are numbers: the code tries them in sorted order.         *)
(***************************************************************************)
EXTENDS Naturals, FiniteSetsExt

AnyDigest == "any"

NoRegistration == [digest |-> "none"]

(* ScopedWorkflowTargetResolver.resolve *)
ResolveRegistration(registrations, scope, workflow) ==
  IF scope \in DOMAIN registrations /\ workflow \in DOMAIN registrations[scope]
  THEN registrations[scope][workflow]
  ELSE NoRegistration

(* _source_binding_id and _validate_source_binding *)
SourceIsBound(source, binding) == source.kind = "api" \/ source.ref = binding.id

(* _trigger_matches_source *)
TriggerMatchesSource(name, declaration, source) ==
  /\ declaration.kind = source.kind
  /\ CASE source.kind = "api" -> TRUE
       [] source.kind = "schedule" -> source.ref = name
       [] OTHER -> source.ref = declaration.ref

(* _match_trigger: the first matching declaration decides. *)
MatchTrigger(triggers, source) ==
  LET matching == {n \in DOMAIN triggers : TriggerMatchesSource(n, triggers[n], source)}
  IN  IF matching = {} THEN "trigger_unavailable"
      ELSE IF triggers[Min(matching)].paused THEN "trigger_paused"
      ELSE "none"

(* _resolve_target *)
ResolveRefusal(registration, request) ==
  IF registration = NoRegistration THEN "unknown_workflow"
  ELSE IF request.digest \notin {AnyDigest, registration.digest} THEN "definition_unavailable"
  ELSE "none"

(* _validate_resolved_target *)
TargetRefusal(registration, request, scope) ==
  IF request.workflow # registration.logical THEN "definition_unavailable"
  ELSE IF ~registration.supported THEN "incompatible_worker"
  ELSE IF registration.scope # scope THEN "definition_unavailable"
  ELSE IF request.digest \notin {AnyDigest, registration.digest} THEN "definition_unavailable"
  ELSE "none"

(* validate_workflow_start_input; the input is what the contract makes of it. *)
InputRefusal(input) ==
  CASE input = "unbounded" -> "invalid_request"
    [] input = "rejected" -> "input_rejected"
    [] input = "no_contract" -> "configuration_error"
    [] OTHER -> "none"

(* The part of _start before Temporal is called, in the order of the code. *)
(* Every one of these refusals is final: retryable=False.                  *)
StartRefusal(registrations, request, binding) ==
  LET registration == ResolveRegistration(registrations, binding.scope, request.workflow)
      resolve == ResolveRefusal(registration, request)
      target == TargetRefusal(registration, request, binding.scope)
  IN  IF binding.kind # request.source.kind THEN "invalid_request"
      ELSE IF resolve # "none" THEN resolve
      ELSE IF ~SourceIsBound(request.source, binding) THEN "invalid_request"
      ELSE IF MatchTrigger(registration.triggers, request.source) # "none"
           THEN MatchTrigger(registration.triggers, request.source)
      ELSE IF target # "none" THEN target
      ELSE InputRefusal(request.input)

(* start_resolved and start_accepted_api: a pinned target skips the        *)
(* registry and the triggers, so a pause after acceptance does not stop it. *)
PinnedRefusal(registration, request, binding, name) ==
  LET target == TargetRefusal(registration, request, binding.scope)
  IN  IF request.digest = AnyDigest THEN "definition_unavailable"
      ELSE IF \/ request.source.kind \notin {"schedule", "api"}
              \/ request.source.kind = "schedule" /\ request.source.ref # name
              \/ binding.kind # request.source.kind
              \/ ~SourceIsBound(request.source, binding)
           THEN "invalid_request"
      ELSE IF target # "none" THEN target
      ELSE InputRefusal(request.input)

-----------------------------------------------------------------------------
(* What an adapter outside the program makes of an event: "ok", a payload  *)
(* it rejects, an event that is not its source's, an identity that the     *)
(* conversion did not keep, or a failure of the adapter itself.            *)

(* CloudEventIngress.receive before the start: "none", or refused for good, *)
(* or "retry".  A key the S3 mapper rejects raises a plain ValueError,      *)
(* which only the last handler catches.                                     *)
CloudEventRefusal(mapped) ==
  CASE mapped \in {"unmapped", "payload", "source", "identity"} -> "refused"
    [] mapped \in {"adapter_down", "bad_key"} -> "retry"
    [] OTHER -> "none"

(* WebhookIngress.receive before the start. *)
WebhookRefusal(mapped) ==
  CASE mapped \in {"unmapped", "unsigned", "payload", "identity"} -> "refused"
    [] mapped = "adapter_down" -> "retry"
    [] OTHER -> "none"

=============================================================================
