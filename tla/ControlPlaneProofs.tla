-------------------------- MODULE ControlPlaneProofs --------------------------
(***************************************************************************)
(* Proofs about ControlPlane, for any clients, policies and requests, any  *)
(* schedules, reconcilers and operators, any workflows, callers and        *)
(* deployments, and any number of faults.                                  *)
(*                                                                         *)
(* Every component has an inductive invariant of its own and a section     *)
(* that proves it kept by the steps of that component.  The last section   *)
(* puts the components side by side: a step of one leaves the variables of *)
(* the others alone, so that the conjunction of their invariants is one of *)
(* the composition.                                                        *)
(***************************************************************************)
EXTENDS ControlPlane, FiniteSetTheorems, WellFoundedInduction, TLAPS

-----------------------------------------------------------------------------
(* The API: a request may do what its phase says it was granted, and what  *)
(* it did carries the identity it asked for.                               *)

Blocking == {"edit", "publish", "view_configuration", "view_definitions"}
Once == Starts \cup Keyed
Phases == {"authenticate", "authorize", "read", "perform", "waiting", "cancelled", "send", "sent"}
Statuses == {"ok", "refused", "error"}
InProgress == [phase : Phases, r : ApiRequests, scope : ApiScopes, status : Statuses]

EffectScope(c) == IF req[c].r.op \in Starts THEN StartScope(c) ELSE req[c].scope
Identity(c) == IF req[c].r.op \in Starts THEN StartIdentity(c) ELSE CallIdentity(c)
Permission(c) == [by |-> c, action |-> Action(req[c].r.op), scope |-> req[c].scope]

ClientOK(c) ==
  LET q == req[c]
  IN  /\ q \in InProgress \cup {Free}
      /\ shown[c] # {} => q.phase \in {"send", "sent"}
      /\ \A t \in shown[c] : [by |-> c, action |-> q.r.op, scope |-> ScopeOf(t)] \in granted
      /\ q.phase = "waiting" => c \in work
      /\ c \in work => /\ q.phase \in {"waiting", "cancelled"}
                       /\ EffectsOf(c) = {}
                       /\ q.r.op \in Blocking
      /\ q.phase \in {"read", "perform"} \/ c \in work
           => q.r.op = "webhook" \/ Permission(c) \in granted
      /\ q.phase \in {"authorize", "read", "perform"} /\ q.r.op = "event"
           => /\ q.r.target \in DOMAIN host.mappings
              /\ q.scope = host.mappings[q.r.target]
      /\ q.phase \in {"send", "sent"} /\ q.status = "ok" /\ q.r.op \in Once
           => \E e \in effects : e.what = Identity(c)

EffectOK(e) ==
  LET q == req[e.by]
  IN  /\ e = [by |-> e.by, op |-> e.op, scope |-> e.scope, what |-> e.what]
      /\ e.by \in Clients
      /\ \/ q.phase = "cancelled"
         \/ /\ q.phase \in {"send", "sent"}
            /\ q.status # "refused" \/ e.op \in RefusedLate
      /\ e.op = q.r.op
      /\ IF e.op \in Once THEN e.scope = EffectScope(e.by) /\ e.what = Identity(e.by)
         ELSE \E x : e.what = <<x>>
      /\ IF e.op = "webhook"
         THEN e.scope = host.hooks[q.r.target] /\ q.r.event = "ok"
         ELSE [by |-> e.by, action |-> Action(e.op), scope |-> e.scope] \in granted

OneOfEach == \A e1, e2 \in effects : e1.op \in Once /\ e1.what = e2.what => e1 = e2

SlotsOK ==
  /\ work \subseteq Clients /\ IsFiniteSet(work)
  /\ slots \in Nat /\ slots + Cardinality(work) = BlockingSlots

ApiInv ==
  /\ policy \in ApiPolicies
  /\ req = [c \in Clients |-> req[c]]
  /\ shown = [c \in Clients |-> shown[c]]
  /\ \A c \in Clients : ClientOK(c)
  /\ \A e \in effects : EffectOK(e)
  /\ OneOfEach
  /\ SlotsOK

(* A request that is not free is in progress. *)
LEMMA Phase ==
  ASSUME NEW c \in Clients, ClientOK(c), req[c].phase # "free"
  PROVE  req[c] \in InProgress
  BY DEF ClientOK, Free

(* A request in the phase "free" is the free one. *)
LEMMA FreeIsFree ==
  ASSUME NEW c \in Clients, ClientOK(c), req[c].phase = "free"
  PROVE  req[c] = Free
  BY DEF ClientOK, InProgress, Phases

(* What the others see of a step of client c. *)
Others(c) ==
  /\ host' = host /\ policy' = policy
  /\ granted \subseteq granted'
  /\ effects \subseteq effects' /\ \A e \in effects' \ effects : e.by = c
  /\ req' = [d \in Clients |-> IF d = c THEN req'[c] ELSE req[d]]
  /\ shown' = [d \in Clients |-> IF d = c THEN shown'[c] ELSE shown[d]]
  /\ \A d \in Clients \ {c} : d \in work' <=> d \in work

(* A step of the client c keeps the invariant if it keeps what is said of  *)
(* c and of its effects.                                                   *)
LEMMA ApiFrame ==
  ASSUME ApiInv, NEW c \in Clients, Others(c),
         ClientOK(c)', \A e \in effects' : e.by = c => EffectOK(e)', OneOfEach', SlotsOK'
  PROVE  ApiInv'
<1>1. ASSUME NEW d \in Clients, d # c PROVE ClientOK(d)'
  <2>1. req'[d] = req[d] /\ shown'[d] = shown[d] /\ (d \in work' <=> d \in work)
    BY <1>1 DEF Others
  <2>2. {e \in effects' : e.by = d} = {e \in effects : e.by = d}
    BY <1>1 DEF Others
  <2>3. Identity(d)' = Identity(d) /\ Permission(d)' = Permission(d)
    BY <2>1 DEF Others, Identity, Permission, StartIdentity, StartScope, CallIdentity
  <2>4. ClientOK(d) BY DEF ApiInv
  <2> QED BY <2>1, <2>2, <2>3, <2>4 DEF ClientOK, Others, EffectsOf
<1>2. ASSUME NEW e \in effects', e.by # c PROVE EffectOK(e)'
  <2>1. e \in effects /\ EffectOK(e) /\ e.by \in Clients
    BY <1>2 DEF Others, ApiInv, EffectOK
  <2>2. req'[e.by] = req[e.by]
    BY <1>2, <2>1 DEF Others
  <2>3. Identity(e.by)' = Identity(e.by) /\ EffectScope(e.by)' = EffectScope(e.by)
    BY <2>2 DEF Others, Identity, EffectScope, StartIdentity, StartScope, CallIdentity
  <2> QED BY <2>1, <2>2, <2>3 DEF EffectOK, Others
<1>3. \A d \in Clients : ClientOK(d)'
  BY <1>1
<1>4. \A e \in effects' : EffectOK(e)'
  BY <1>2
<1> QED BY <1>3, <1>4 DEF ApiInv, Others

(* Before its answer a request that was not cancelled has done nothing. *)
LEMMA WithoutEffect ==
  ASSUME ApiInv, NEW c \in Clients, req[c].phase \notin {"cancelled", "send", "sent"}
  PROVE  EffectsOf(c) = {}
  BY DEF ApiInv, EffectOK, EffectsOf

(* What SetReq does to the requests. *)
LEMMA ReqStep ==
  ASSUME ApiInv, NEW c \in Clients, NEW v, SetReq(c, v)
  PROVE  req' = [d \in Clients |-> IF d = c THEN req'[c] ELSE req[d]] /\ req'[c] = v
  BY DEF ApiInv, SetReq

(* What Go does to the requests. *)
LEMMA GoStep ==
  ASSUME ApiInv, NEW c \in Clients, req[c].phase # "free", NEW p \in Phases, Go(c, p)
  PROVE  /\ req' = [d \in Clients |-> IF d = c THEN req'[c] ELSE req[d]]
         /\ req'[c] \in InProgress
         /\ req'[c].phase = p /\ req'[c].r = req[c].r /\ req'[c].scope = req[c].scope
         /\ req'[c].status = req[c].status
<1>1. req[c] \in InProgress BY Phase DEF ApiInv
<1>2. req'[c] = [req[c] EXCEPT !.phase = p] BY ReqStep DEF Go
<1> QED BY <1>1, <1>2, ReqStep DEF Go, InProgress

(* What Reply does to the requests. *)
LEMMA ReplyStep ==
  ASSUME ApiInv, NEW c \in Clients, req[c].phase # "free", NEW s \in Statuses, Reply(c, s)
  PROVE  /\ req' = [d \in Clients |-> IF d = c THEN req'[c] ELSE req[d]]
         /\ req'[c] \in InProgress
         /\ req'[c].phase = "send" /\ req'[c].r = req[c].r /\ req'[c].scope = req[c].scope
         /\ req'[c].status = s
<1>1. req[c] \in InProgress BY Phase DEF ApiInv
<1>2. req'[c] = [req[c] EXCEPT !.phase = "send", !.status = s] BY ReqStep DEF Reply
<1>3. "send" \in Phases BY DEF Phases
<1> QED BY <1>1, <1>2, <1>3, ReqStep DEF Reply, InProgress

(* The request of a client is what its scopes and identities depend on. *)
LEMMA SameRequest ==
  ASSUME NEW c, host' = host, req'[c].r = req[c].r, req'[c].scope = req[c].scope
  PROVE  /\ Identity(c)' = Identity(c) /\ Permission(c)' = Permission(c)
         /\ EffectScope(c)' = EffectScope(c)
<1>1. StartScope(c)' = StartScope(c)
  BY DEF StartScope
<1>2. StartIdentity(c)' = StartIdentity(c)
  BY <1>1 DEF StartIdentity
<1> QED
  BY <1>1, <1>2 DEF Identity, Permission, EffectScope, CallIdentity

(* A step of one client that no service is called in. *)
LEMMA QuietStep ==
  ASSUME ApiInv, NEW c \in Clients,
         req' = [d \in Clients |-> IF d = c THEN req'[c] ELSE req[d]],
         UNCHANGED <<host, policy, effects>>,
         shown' = [d \in Clients |-> IF d = c THEN shown'[c] ELSE shown[d]],
         granted \subseteq granted',
         \A d \in Clients \ {c} : d \in work' <=> d \in work,
         SlotsOK', EffectsOf(c) = {}, ClientOK(c)'
  PROVE  ApiInv'
<1>1. Others(c) BY DEF Others
<1>2. \A e \in effects' : e.by = c => EffectOK(e)' BY DEF EffectsOf
<1>3. OneOfEach' BY DEF ApiInv, OneOfEach
<1> QED BY <1>1, <1>2, <1>3, ApiFrame

(* A reply without an effect keeps the invariant, if what it shows was     *)
(* granted and an accepted start or call exists.                           *)
LEMMA ReplyQuietly ==
  ASSUME ApiInv, NEW c \in Clients, NEW s \in Statuses, Reply(c, s),
         req[c].phase \in {"authenticate", "authorize", "read", "perform"},
         s = "ok" => req[c].r.op \notin Once \/ \E e \in effects : e.what = Identity(c),
         UNCHANGED <<host, policy, effects, slots, work>>,
         granted \subseteq granted',
         shown' = [d \in Clients |-> IF d = c THEN shown'[c] ELSE shown[d]],
         \A t \in shown'[c] : [by |-> c, action |-> req[c].r.op, scope |-> ScopeOf(t)] \in granted'
  PROVE  ApiInv'
<1>1. EffectsOf(c) = {} BY WithoutEffect
<1>2. req[c].phase # "free" OBVIOUS
<1>3. SlotsOK' BY DEF ApiInv, SlotsOK
<1>4. c \notin work BY DEF ApiInv, ClientOK
<1>5. ClientOK(c)'
  <2>1. Identity(c)' = Identity(c) BY <1>2, ReplyStep, SameRequest
  <2>2. EffectsOf(c)' = EffectsOf(c) BY DEF EffectsOf
  <2> QED BY <1>1, <1>2, <1>4, <2>1, <2>2, ReplyStep DEF ClientOK
<1> QED BY <1>1, <1>2, <1>3, <1>5, ReplyStep, QuietStep

(* Every host and policy a behaviour begins with has the invariant. *)
THEOREM ApiStarts == ApiInit => ApiInv
<1> SUFFICES ASSUME ApiInit PROVE ApiInv OBVIOUS
<1> USE DEF ApiInit, ApiIs
<1>1. PICK h \in ApiHosts, p \in ApiPolicies : ApiIs(h, p) OBVIOUS
<1>2. SlotsOK BY <1>1, FS_EmptySet, ApiAssumption DEF SlotsOK
<1>3. ASSUME NEW c \in Clients PROVE ClientOK(c)
  <2>1. req[c] = Free /\ shown[c] = {} /\ work = {} BY <1>1
  <2>2. Free.phase = "free" BY DEF Free
  <2> QED BY <2>1, <2>2 DEF ClientOK
<1> QED BY <1>1, <1>2, <1>3 DEF ApiInv, OneOfEach

(* The tables of the errors answer with a status that is not "ok". *)
LEMMA StatusesAreStatuses ==
  /\ {"ok", "refused", "error"} \subseteq Statuses
  /\ \A code : /\ StartStatus(code) \in {"refused", "error"}
               /\ ControlStatus(code) \in {"refused", "error"}
               /\ ScheduledStartStatus(code) \in {"refused", "error"}
               /\ TriggerStatus(code) \in {"refused", "error"}
               /\ ApplyStatus(code) \in {"refused", "error"}
               /\ ConfigurationStatus(code) \in {"refused", "error"}
               /\ QueryStatus(code) \in {"refused", "error"}
  BY DEF Statuses, StartStatus, ControlStatus, ScheduledStartStatus, TriggerStatus, ApplyStatus,
         ConfigurationStatus, QueryStatus

(* What is shown stays a function of the clients when nothing is shown. *)
LEMMA ShownTyped ==
  ASSUME ApiInv, NEW c \in Clients, UNCHANGED shown
  PROVE  shown' = [d \in Clients |-> IF d = c THEN shown'[c] ELSE shown[d]]
  BY DEF ApiInv

(* A request shows nothing before it is answered. *)
LEMMA NothingShownYet ==
  ASSUME ApiInv, NEW c \in Clients, req[c].phase \notin {"send", "sent"}
  PROVE  shown[c] = {}
  BY DEF ApiInv, ClientOK

(* The policy changes: what was granted stays granted. *)
LEMMA ChangePolicySafe ==
  ASSUME ApiInv, ChangePolicy PROVE ApiInv'
<1> USE DEF ChangePolicy
<1>1. \A c \in Clients : ClientOK(c)'
  BY DEF ApiInv, ClientOK, EffectsOf, Identity, Permission, StartIdentity, StartScope, CallIdentity
<1>2. \A e \in effects : EffectOK(e)'
  BY DEF ApiInv, EffectOK, EffectScope, Identity, StartIdentity, StartScope, CallIdentity
<1> QED BY <1>1, <1>2 DEF ApiInv, OneOfEach, SlotsOK

(* A request arrives. *)
LEMMA ArriveSafe ==
  ASSUME ApiInv, NEW c \in Clients, NEW r \in ApiRequests, Arrive(c, r) PROVE ApiInv'
<1>1. req[c] = Free /\ req[c].phase = "free" BY DEF Arrive, Free
<1>2. EffectsOf(c) = {} /\ shown[c] = {} BY <1>1, WithoutEffect, NothingShownYet
<1>3. /\ req' = [d \in Clients |-> IF d = c THEN req'[c] ELSE req[d]]
      /\ req'[c] \in InProgress /\ req'[c].r = r /\ req'[c].scope = LocalScope
      /\ req'[c].phase \in {"send", "read", "authenticate"}
      /\ req'[c].phase = "read" => r.op = "webhook"
      /\ req'[c].status = "refused"
  BY ReqStep DEF Arrive, InProgress, Phases, Statuses, ApiScopes
<1>4. c \notin work BY <1>1 DEF ApiInv, ClientOK
<1>5. EffectsOf(c)' = {} BY <1>2 DEF EffectsOf, Arrive
<1>6. ClientOK(c)'
  BY <1>2, <1>3, <1>4, <1>5 DEF Arrive, ClientOK
<1>7. SlotsOK' BY DEF ApiInv, SlotsOK, Arrive
<1> QED BY <1>2, <1>3, <1>6, <1>7, ShownTyped, QuietStep DEF Arrive

(* A request is authenticated, or refused. *)
LEMMA AuthenticateSafe ==
  ASSUME ApiInv, NEW c \in Clients, Authenticate(c) PROVE ApiInv'
<1> DEFINE scope == IF host.provider THEN policy.scope ELSE LocalScope
<1>1. /\ req[c].phase = "authenticate"
      /\ UNCHANGED <<host, policy, effects, granted, shown, slots, work>>
  BY DEF Authenticate
<1>2. EffectsOf(c) = {} /\ shown[c] = {} BY <1>1, WithoutEffect, NothingShownYet
<1>3. ASSUME NEW s \in {"refused", "error"}, Reply(c, s) PROVE ApiInv'
  BY <1>1, <1>2, <1>3, ShownTyped, StatusesAreStatuses, ReplyQuietly
<1>4. ASSUME PrincipalFits(c, scope),
             SetReq(c, [req[c] EXCEPT !.phase = "authorize", !.scope = scope])
      PROVE  ApiInv'
  <2>1. req[c] \in InProgress BY <1>1, Phase DEF ApiInv
  <2>2. scope \in ApiScopes BY DEF ApiInv, ApiScopes
  <2>3. /\ req' = [d \in Clients |-> IF d = c THEN req'[c] ELSE req[d]]
        /\ req'[c] \in InProgress /\ req'[c].r = req[c].r /\ req'[c].scope = scope
        /\ req'[c].phase = "authorize"
    <3>1. req'[c] = [req[c] EXCEPT !.phase = "authorize", !.scope = scope]
      BY <1>4, ReqStep
    <3>2. "authorize" \in Phases BY DEF Phases
    <3> HIDE DEF scope
    <3> QED BY <1>4, <2>1, <2>2, <3>1, <3>2, ReqStep DEF InProgress
  <2>4. c \notin work BY <1>1 DEF ApiInv, ClientOK
  <2>5. EffectsOf(c)' = {} BY <1>1, <1>2 DEF EffectsOf
  <2>6. ClientOK(c)'
    BY <1>1, <1>2, <1>4, <2>3, <2>4, <2>5 DEF ClientOK, PrincipalFits
  <2>7. SlotsOK' BY <1>1 DEF ApiInv, SlotsOK
  <2> QED BY <1>1, <1>2, <2>3, <2>6, <2>7, ShownTyped, QuietStep
<1> QED BY <1>3, <1>4 DEF Authenticate

(* A request is authorized for its scope, or refused. *)
LEMMA AuthorizeSafe ==
  ASSUME ApiInv, NEW c \in Clients, Authorize(c) PROVE ApiInv'
<1>1. /\ req[c].phase = "authorize"
      /\ UNCHANGED <<host, policy, effects, shown, slots, work>>
      /\ granted \subseteq granted'
  BY DEF Authorize
<1>2. EffectsOf(c) = {} /\ shown[c] = {} BY <1>1, WithoutEffect, NothingShownYet
<1>3. ASSUME NEW s \in {"refused", "error"}, Reply(c, s) PROVE ApiInv'
  BY <1>1, <1>2, <1>3, ShownTyped, StatusesAreStatuses, ReplyQuietly
<1>4. ASSUME Permission(c) \in granted', Go(c, "read") PROVE ApiInv'
  <2>1. "read" \in Phases /\ req[c].phase # "free" BY <1>1 DEF Phases
  <2>2. c \notin work BY <1>1 DEF ApiInv, ClientOK
  <2>3. EffectsOf(c)' = {} BY <1>1, <1>2 DEF EffectsOf
  <2>4. Permission(c)' = Permission(c)
    BY <1>1, <1>4, <2>1, GoStep, SameRequest
  <2>5. ClientOK(c)
    BY DEF ApiInv
  <2>6. ClientOK(c)'
    BY <1>1, <1>2, <1>4, <2>1, <2>2, <2>3, <2>4, <2>5, GoStep DEF ClientOK
  <2>7. SlotsOK' BY <1>1 DEF ApiInv, SlotsOK
  <2> QED BY <1>1, <1>2, <1>4, <2>1, <2>6, <2>7, GoStep, ShownTyped, QuietStep
<1> QED BY <1>3, <1>4 DEF Authorize, Permission

(* The body of a request is read, or refused. *)
LEMMA ReadSafe ==
  ASSUME ApiInv, NEW c \in Clients, Read(c) PROVE ApiInv'
<1>1. /\ req[c].phase = "read"
      /\ UNCHANGED <<host, policy, effects, granted, shown, slots, work>>
  BY DEF Read
<1>2. EffectsOf(c) = {} /\ shown[c] = {} BY <1>1, WithoutEffect, NothingShownYet
<1>3. ASSUME Reply(c, "refused") PROVE ApiInv'
  BY <1>1, <1>2, <1>3, ShownTyped, StatusesAreStatuses, ReplyQuietly
<1>4. ASSUME Go(c, "perform") PROVE ApiInv'
  <2>1. "perform" \in Phases /\ req[c].phase # "free" BY <1>1 DEF Phases
  <2>2. c \notin work BY <1>1 DEF ApiInv, ClientOK
  <2>3. EffectsOf(c)' = {} BY <1>1, <1>2 DEF EffectsOf
  <2>4. Permission(c)' = Permission(c)
    BY <1>1, <1>4, <2>1, GoStep, SameRequest
  <2>5. ClientOK(c)
    BY DEF ApiInv
  <2>6. ClientOK(c)'
    BY <1>1, <1>2, <1>4, <2>1, <2>2, <2>3, <2>4, <2>5, GoStep DEF ClientOK
  <2>7. SlotsOK' BY <1>1 DEF ApiInv, SlotsOK
  <2> QED BY <1>1, <1>2, <1>4, <2>1, <2>6, <2>7, GoStep, ShownTyped, QuietStep
<1> QED BY <1>3, <1>4 DEF Read

(* The identity of a start or of a keyed call is never that of another     *)
(* call.                                                                   *)
LEMMA IdentityIsLong == \A c, x : Identity(c) # <<x>>
<1> TAKE c, x
<1>1. StartIdentity(c) # <<x>> BY DEF StartIdentity
<1>2. CallIdentity(c) # <<x>> BY DEF CallIdentity
<1> QED BY <1>1, <1>2 DEF Identity

(* A service has its effect, and the call ends. *)
LEMMA EffectStep ==
  ASSUME ApiInv, NEW c \in Clients, req[c].phase = "perform", Delegated,
         NEW s \in Statuses, Reply(c, s), NEW scope, NEW what,
         s # "refused" \/ req[c].r.op \in RefusedLate,
         effects' = effects \cup {[by |-> c, op |-> req[c].r.op, scope |-> scope, what |-> what]},
         req[c].r.op \in Once => /\ scope = EffectScope(c) /\ what = Identity(c)
                                 /\ ~\E e \in effects : e.what = what,
         req[c].r.op \notin Once => \E x : what = <<x>>,
         IF req[c].r.op = "webhook"
         THEN scope = host.hooks[req[c].r.target] /\ req[c].r.event = "ok"
         ELSE [by |-> c, action |-> Action(req[c].r.op), scope |-> scope] \in granted
  PROVE  ApiInv'
<1>0. PICK new : new = [by |-> c, op |-> req[c].r.op, scope |-> scope, what |-> what]
  OBVIOUS
<1>a. /\ new = [by |-> new.by, op |-> new.op, scope |-> new.scope, what |-> new.what]
      /\ new.by = c /\ new.op = req[c].r.op /\ new.scope = scope /\ new.what = what
  BY <1>0
<1>b. effects' = effects \cup {new}
  BY <1>0
<1>1. EffectsOf(c) = {} /\ shown[c] = {} /\ c \notin work
  BY WithoutEffect, NothingShownYet DEF ApiInv, ClientOK
<1>2. /\ req' = [d \in Clients |-> IF d = c THEN req'[c] ELSE req[d]]
      /\ req'[c] \in InProgress
      /\ req'[c].phase = "send" /\ req'[c].r = req[c].r /\ req'[c].scope = req[c].scope
      /\ req'[c].status = s
  BY ReplyStep
<1>3. Identity(c)' = Identity(c) /\ EffectScope(c)' = EffectScope(c)
  BY <1>2, SameRequest DEF Delegated
<1>4. Others(c)
  BY <1>a, <1>b, <1>2, ShownTyped DEF Others, Delegated
<1>5. ClientOK(c)'
  <2>1. s = "ok" /\ req[c].r.op \in Once => \E e \in effects' : e.what = Identity(c)
    BY <1>a, <1>b
  <2> QED BY <1>1, <1>2, <1>3, <2>1 DEF ClientOK, Delegated
<1>6. \A e \in effects' : e.by = c => EffectOK(e)'
  <2>1. EffectOK(new)' BY <1>a, <1>2, <1>3 DEF EffectOK, Delegated
  <2> QED BY <1>1, <1>b, <2>1 DEF EffectsOf
<1>7. OneOfEach'
  <2>1. ASSUME NEW e1 \in effects, e1.op \in Once, e1.what = new.what PROVE FALSE
    <3>1. e1.what = Identity(e1.by) BY <2>1 DEF ApiInv, EffectOK
    <3> QED BY <1>a, <2>1, <3>1, IdentityIsLong
  <2>2. ASSUME NEW e2 \in effects, new.op \in Once, e2.what = new.what PROVE FALSE
    BY <1>a, <2>2
  <2>3. \A e1, e2 \in effects : e1.op \in Once /\ e1.what = e2.what => e1 = e2
    BY DEF ApiInv, OneOfEach
  <2> QED BY <1>b, <2>1, <2>2, <2>3 DEF OneOfEach
<1>8. SlotsOK' BY DEF ApiInv, SlotsOK, Delegated
<1> QED BY <1>4, <1>5, <1>6, <1>7, <1>8, ApiFrame

(* A call that is answered without an effect of it. *)
LEMMA RefusedStep ==
  ASSUME ApiInv, NEW c \in Clients, req[c].phase = "perform", Delegated, UNCHANGED effects,
         NEW s \in Statuses, Reply(c, s),
         s = "ok" => req[c].r.op \notin Once \/ \E e \in effects : e.what = Identity(c)
  PROVE  ApiInv'
<1>1. shown[c] = {} BY NothingShownYet
<1> QED BY <1>1, ShownTyped, ReplyQuietly DEF Delegated

(* A call without a key has its effect in a scope it was granted for. *)
LEMMA CalledSafe ==
  ASSUME ApiInv, NEW c \in Clients, req[c].phase = "perform", Delegated,
         NEW scope, NEW what, Called(c, scope, what, "error"),
         req[c].r.op \notin Once, \E x : what = <<x>>,
         [by |-> c, action |-> Action(req[c].r.op), scope |-> scope] \in granted
  PROVE  ApiInv'
<1>1. req[c].r.op # "webhook" BY DEF Once, Starts
<1>2. CASE UNCHANGED effects /\ Reply(c, "error")
  BY <1>2, StatusesAreStatuses, RefusedStep
<1>3. ASSUME NEW s \in {"ok", "error"}, Reply(c, s),
             effects' = effects \cup {[by |-> c, op |-> req[c].r.op, scope |-> scope, what |-> what]}
      PROVE  ApiInv'
  BY <1>1, <1>3, StatusesAreStatuses, EffectStep
<1> QED BY <1>2, <1>3 DEF Called

(* A call that may be refused after its effect has it in a scope it was    *)
(* granted for.                                                            *)
LEMMA LandsRefusedSafe ==
  ASSUME ApiInv, NEW c \in Clients, req[c].phase = "perform", Delegated,
         NEW scope, NEW what, NEW s \in Statuses, LandsRefused(c, scope, what, s),
         req[c].r.op \in Once => /\ scope = EffectScope(c) /\ what = Identity(c)
                                 /\ ~Exists(what),
         req[c].r.op \notin Once => \E x : what = <<x>>,
         [by |-> c, action |-> Action(req[c].r.op), scope |-> scope] \in granted
  PROVE  ApiInv'
<1>1. req[c].r.op \in RefusedLate /\ req[c].r.op # "webhook"
  BY DEF LandsRefused, RefusedLate
<1>2. /\ Reply(c, s)
      /\ effects' = effects \cup {[by |-> c, op |-> req[c].r.op, scope |-> scope, what |-> what]}
  BY DEF LandsRefused
<1> QED BY <1>1, <1>2, EffectStep DEF Exists

(* A start or a keyed call has its effect once, whoever asked first. *)
LEMMA CalledOnceSafe ==
  ASSUME ApiInv, NEW c \in Clients, req[c].phase = "perform", Delegated,
         CalledOnce(c, EffectScope(c), Identity(c), "error"), req[c].r.op \in Once,
         IF req[c].r.op = "webhook"
         THEN EffectScope(c) = host.hooks[req[c].r.target] /\ req[c].r.event = "ok"
         ELSE [by |-> c, action |-> Action(req[c].r.op), scope |-> EffectScope(c)] \in granted
  PROVE  ApiInv'
<1>1. CASE \E e \in effects : e.what = Identity(c)
  BY <1>1, StatusesAreStatuses, RefusedStep DEF CalledOnce, Exists
<1>2. CASE ~\E e \in effects : e.what = Identity(c)
  <2>1. Called(c, EffectScope(c), Identity(c), "error") BY <1>2 DEF CalledOnce, Exists
  <2>2. CASE UNCHANGED effects /\ Reply(c, "error")
    BY <2>2, StatusesAreStatuses, RefusedStep
  <2>3. ASSUME NEW s \in {"ok", "error"}, Reply(c, s),
               effects' = effects \cup {[by |-> c, op |-> req[c].r.op, scope |-> EffectScope(c),
                                         what |-> Identity(c)]}
        PROVE  ApiInv'
    BY <1>2, <2>3, StatusesAreStatuses, EffectStep
  <2> QED BY <2>1, <2>2, <2>3 DEF Called
<1> QED BY <1>1, <1>2

(* The caller was allowed what it now performs. *)
LEMMA Permitted ==
  ASSUME ApiInv, NEW c \in Clients, req[c].phase = "perform", req[c].r.op # "webhook"
  PROVE  [by |-> c, action |-> Action(req[c].r.op), scope |-> req[c].scope] \in granted
  BY DEF ApiInv, ClientOK, Permission

(* A start, by a request, an event or a webhook. *)
LEMMA StartCallSafe ==
  ASSUME ApiInv, NEW c \in Clients, Performs(c, Starts), StartCall(c)
  PROVE  ApiInv'
<1>1. req[c].phase = "perform" /\ req[c].r.op \in Starts /\ req[c].r.op \in Once /\ Delegated
  BY DEF Performs, StartCall, Once
<1>2. EffectScope(c) = StartScope(c) /\ Identity(c) = StartIdentity(c)
  BY <1>1 DEF EffectScope, Identity
<1>3. CASE StartVerdict(c) # "none"
  <2>1. StartVerdict(c) \in {"refused", "error"}
    <3> DEFINE adapter == CASE req[c].r.op = "event" -> CloudEventRefusal(req[c].r.event)
                   [] req[c].r.op = "webhook" ->
                        IF req[c].r.target \in DOMAIN host.hooks THEN WebhookRefusal(req[c].r.event) ELSE "refused"
                   [] OTHER -> "none"
               refusal == StartRefusal(Registered, StartRequest(c), StartBinding(c))
    <3>1. StartVerdict(c) = IF adapter = "refused" THEN "refused"
            ELSE IF adapter = "retry" THEN "error"
            ELSE IF refusal # "none" THEN StartStatus(refusal) ELSE "none"
      BY DEF StartVerdict
    <3> HIDE DEF adapter, refusal
    <3> QED BY <1>3, <3>1, StatusesAreStatuses
  <2> QED BY <1>1, <1>3, <2>1, StatusesAreStatuses, RefusedStep DEF StartCall, RefusedBy
<1>4. CASE StartVerdict(c) = "none"
  <2>1. CalledOnce(c, EffectScope(c), Identity(c), "error")
    BY <1>2, <1>4 DEF StartCall, StartStatus
  <2>2. CASE req[c].r.op = "webhook"
    <3>1. EffectScope(c) = host.hooks[req[c].r.target]
      BY <1>2, <2>2 DEF StartScope
    <3>2. req[c].r.event = "ok"
      <4>1. req[c].r.event \in WebhookEvents
        BY <1>1, <2>2, Phase, ApiAssumption DEF ApiInv, InProgress
      <4>2. req[c].r.event # "ok" => WebhookRefusal(req[c].r.event) \in {"refused", "retry"}
        BY <4>1 DEF WebhookEvents, WebhookRefusal
      <4> DEFINE refusal == StartRefusal(Registered, StartRequest(c), StartBinding(c))
                 adapter == IF req[c].r.target \in DOMAIN host.hooks
                            THEN WebhookRefusal(req[c].r.event) ELSE "refused"
      <4>3. StartVerdict(c) = IF adapter = "refused" THEN "refused"
            ELSE IF adapter = "retry" THEN "error"
            ELSE IF refusal # "none" THEN StartStatus(refusal) ELSE "none"
        BY <2>2 DEF StartVerdict
      <4>4. adapter \notin {"refused", "retry"}
        <5> HIDE DEF adapter, refusal
        <5> QED BY <1>4, <4>3
      <4> QED BY <4>2, <4>4
    <3> QED BY <1>1, <2>1, <2>2, <3>1, <3>2, CalledOnceSafe
  <2>3. CASE req[c].r.op # "webhook"
    <3>1. StartScope(c) = req[c].scope
      <4>1. CASE req[c].r.op = "event"
        BY <1>1, <4>1 DEF StartScope, ApiInv, ClientOK
      <4>2. CASE req[c].r.op # "event"
        BY <2>3, <4>2 DEF StartScope
      <4> QED BY <4>1, <4>2
    <3> QED BY <1>1, <1>2, <2>1, <2>3, <3>1, Permitted, CalledOnceSafe
  <2> QED BY <2>2, <2>3
<1> QED BY <1>3, <1>4

(* An execution whose identity is allowed in a scope is of that scope. *)
LEMMA AllowedScope ==
  ASSUME NEW t, NEW scope \in ApiScopes, IdentityAllowed(t, scope)
  PROVE  ScopeOf(t) = scope
  BY ApiAssumption DEF IdentityAllowed, ScopeOf

(* A signal, a cancellation or a termination of an execution. *)
LEMMA ControlCallSafe ==
  ASSUME ApiInv, NEW c \in Clients, Performs(c, {"signal", "cancel", "terminate"}),
         ControlCall(c)
  PROVE  ApiInv'
<1>1. /\ req[c].phase = "perform" /\ Delegated
      /\ req[c].r.op \in {"signal", "cancel", "terminate"}
      /\ req[c].r.op \notin Once
  BY DEF Performs, ControlCall, Once, Starts, Keyed
<1>2. req[c].scope \in ApiScopes BY <1>1, Phase DEF ApiInv, InProgress
<1>3. ASSUME NEW status \in {"not_found", "invalid_request"}, RefusedBy(c, ControlStatus(status))
      PROVE  ApiInv'
  BY <1>1, <1>3, StatusesAreStatuses, RefusedStep DEF RefusedBy
<1>4. CASE IdentityAllowed(req[c].r.target, req[c].scope)
  <2>1. ScopeOf(req[c].r.target) = req[c].scope BY <1>2, <1>4, AllowedScope
  <2>2. CASE Called(c, req[c].scope, <<req[c].r.target>>, "error")
    BY <1>1, <2>2, Permitted, CalledSafe
  <2>3. CASE LandsRefused(c, req[c].scope, <<req[c].r.target>>, ControlStatus("not_found"))
    BY <1>1, <2>3, StatusesAreStatuses, Permitted, LandsRefusedSafe
  <2> QED BY <1>3, <2>1, <2>2, <2>3 DEF ControlCall, ControlStatus
<1>5. CASE ~IdentityAllowed(req[c].r.target, req[c].scope)
  BY <1>3, <1>5 DEF ControlCall
<1> QED BY <1>4, <1>5

(* An answer that shows executions of the scope it was granted for. *)
LEMMA ShowSafe ==
  ASSUME ApiInv, NEW c \in Clients, req[c].phase = "perform",
         req[c].r.op \in {"list", "describe"}, NEW page, NEW s \in Statuses, Show(c, page, s),
         \A t \in page : IdentityAllowed(t, req[c].scope)
  PROVE  ApiInv'
<1>1. req[c].scope \in ApiScopes BY Phase DEF ApiInv, InProgress
<1>2. [by |-> c, action |-> req[c].r.op, scope |-> req[c].scope] \in granted
  BY Permitted DEF Action, Starts, Service, TriggerOps
<1>3. \A t \in page : [by |-> c, action |-> req[c].r.op, scope |-> ScopeOf(t)] \in granted
  BY <1>1, <1>2, AllowedScope
<1>4. shown[c] = {} BY NothingShownYet
<1>5. req[c].r.op \notin Once BY DEF Once, Starts, Keyed
<1>6. UNCHANGED <<host, policy, effects, granted, slots, work>> BY DEF Show
<1>7. CASE shown' = [shown EXCEPT ![c] = page] /\ Reply(c, s)
  <2>1. shown' = [d \in Clients |-> IF d = c THEN shown'[c] ELSE shown[d]] /\ shown'[c] = page
    BY <1>7 DEF ApiInv
  <2> QED BY <1>3, <1>5, <1>6, <1>7, <2>1, ReplyQuietly
<1>8. CASE UNCHANGED shown /\ Reply(c, "error")
  BY <1>4, <1>5, <1>6, <1>8, ShownTyped, StatusesAreStatuses, ReplyQuietly
<1> QED BY <1>7, <1>8 DEF Show, ControlStatus

(* Executions are listed. *)
LEMMA ListSafe ==
  ASSUME ApiInv, NEW c \in Clients, ListExecutions(c) PROVE ApiInv'
<1> DEFINE found == Visible(req[c].scope)
           page == Page(found, req[c].scope)
           s == IF page = found THEN "ok" ELSE ControlStatus("temporal_unavailable")
<1>1. req[c].phase = "perform" /\ req[c].r.op = "list" /\ Show(c, page, s)
  BY DEF ListExecutions, Performs
<1>2. s \in Statuses BY StatusesAreStatuses
<1>3. \A t \in page : IdentityAllowed(t, req[c].scope) BY DEF Page
<1> HIDE DEF page, s
<1> QED BY <1>1, <1>2, <1>3, ShowSafe

(* An execution is described. *)
LEMMA DescribeSafe ==
  ASSUME ApiInv, NEW c \in Clients, DescribeExecution(c) PROVE ApiInv'
<1>1. req[c].phase = "perform" /\ req[c].r.op = "describe" BY DEF DescribeExecution, Performs
<1>2. CASE IdentityAllowed(req[c].r.target, req[c].scope)
  <2>1. Show(c, {req[c].r.target}, "ok") BY <1>2 DEF DescribeExecution
  <2> QED BY <1>1, <1>2, <2>1, StatusesAreStatuses, ShowSafe
<1>3. CASE ~IdentityAllowed(req[c].r.target, req[c].scope)
  <2>1. Show(c, {}, "refused") BY <1>3 DEF DescribeExecution, ControlStatus
  <2> QED BY <1>1, <2>1, StatusesAreStatuses, ShowSafe
<1> QED BY <1>2, <1>3

(* An answer about the host itself. *)
LEMMA InformSafe ==
  ASSUME ApiInv, NEW c \in Clients, Inform(c) PROVE ApiInv'
<1>1. /\ req[c].phase = "perform" /\ req[c].r.op \notin Once
      /\ UNCHANGED <<host, policy, effects, granted, shown, slots, work>>
  BY DEF Inform, Informs, Once, Starts, Keyed
<1>2. shown[c] = {} BY <1>1, NothingShownYet
<1>3. PICK s \in Statuses : Reply(c, s) BY StatusesAreStatuses DEF Inform, QueryStatus
<1> QED BY <1>1, <1>2, <1>3, ShownTyped, ReplyQuietly

(* The asynchronous services in the scope of the principal. *)
LEMMA ServiceCallSafe ==
  ASSUME ApiInv, NEW c \in Clients, req[c].phase = "perform", Delegated,
         req[c].r.op \notin Starts,
         \/ req[c].r.op \in Keyed /\ CalledOnce(c, req[c].scope, CallIdentity(c), "error")
         \/ /\ req[c].r.op \notin Keyed
            /\ \E x : Called(c, req[c].scope, <<x>>, "error")
         \/ LandsRefused(c, req[c].scope, <<req[c].r.target>>, "refused") /\ req[c].r.op \notin Keyed
         \/ LandsRefused(c, req[c].scope, CallIdentity(c), "refused") /\ ~Exists(CallIdentity(c))
               /\ req[c].r.op \in Keyed
         \/ RefusedBy(c, "refused") \/ RefusedBy(c, "error")
  PROVE  ApiInv'
<1>0. req[c].r.op # "webhook" BY DEF Starts
<1>1. CASE req[c].r.op \in Keyed /\ CalledOnce(c, req[c].scope, CallIdentity(c), "error")
  <2>1. req[c].r.op \in Once /\ EffectScope(c) = req[c].scope /\ Identity(c) = CallIdentity(c)
    BY <1>1 DEF Once, EffectScope, Identity
  <2> QED BY <1>0, <1>1, <2>1, Permitted, CalledOnceSafe
<1>2. CASE req[c].r.op \notin Keyed /\ \E x : Called(c, req[c].scope, <<x>>, "error")
  <2>1. req[c].r.op \notin Once BY <1>2 DEF Once
  <2>2. PICK x : Called(c, req[c].scope, <<x>>, "error") BY <1>2
  <2> QED BY <1>0, <2>1, <2>2, Permitted, CalledSafe
<1>3. CASE RefusedBy(c, "refused") \/ RefusedBy(c, "error")
  BY <1>3, StatusesAreStatuses, RefusedStep DEF RefusedBy
<1>4. CASE /\ LandsRefused(c, req[c].scope, <<req[c].r.target>>, "refused")
           /\ req[c].r.op \notin Keyed
  <2>1. req[c].r.op \notin Once BY <1>4 DEF Once
  <2> QED BY <1>0, <1>4, <2>1, StatusesAreStatuses, Permitted, LandsRefusedSafe
<1>5. CASE /\ LandsRefused(c, req[c].scope, CallIdentity(c), "refused")
           /\ ~Exists(CallIdentity(c)) /\ req[c].r.op \in Keyed
  <2>1. req[c].r.op \in Once /\ EffectScope(c) = req[c].scope /\ Identity(c) = CallIdentity(c)
    BY <1>5 DEF Once, EffectScope, Identity
  <2> QED BY <1>0, <1>5, <2>1, StatusesAreStatuses, Permitted, LandsRefusedSafe
<1> QED BY <1>1, <1>2, <1>3, <1>4, <1>5

(* A call of the schedule controls, the scheduled starts or the            *)
(* configuration.                                                          *)
LEMMA ServicesSafe ==
  ASSUME ApiInv, NEW c \in Clients,
         \/ ControlTrigger(c) \/ ApplyTriggers(c) \/ CreateScheduledStart(c)
         \/ MutateScheduledStart(c) \/ Activate(c)
  PROVE  ApiInv'
<1>1. CASE ControlTrigger(c)
  BY <1>1, ServiceCallSafe
     DEF ControlTrigger, Performs, TriggerOps, Starts, Keyed, TriggerStatus, LandsRefused, RefusedLate
<1>2. CASE ApplyTriggers(c)
  BY <1>2, ServiceCallSafe DEF ApplyTriggers, Performs, Starts, Keyed, ApplyStatus
<1>3. CASE CreateScheduledStart(c)
  BY <1>3, ServiceCallSafe
     DEF CreateScheduledStart, Performs, Starts, Keyed, ScheduledStartStatus
<1>4. CASE MutateScheduledStart(c)
  BY <1>4, ServiceCallSafe
     DEF MutateScheduledStart, Performs, Starts, Keyed, ScheduledStartStatus
<1>5. CASE Activate(c)
  BY <1>5, ServiceCallSafe DEF Activate, Performs, Starts, Keyed, ConfigurationStatus
<1> QED BY <1>1, <1>2, <1>3, <1>4, <1>5

(* A blocking operation takes a slot and a thread. *)
LEMMA EnterSafe ==
  ASSUME ApiInv, NEW c \in Clients, Performs(c, Blocking), Enter(c)
  PROVE  ApiInv'
<1>1. /\ req[c].phase = "perform" /\ req[c].r.op \in Blocking
      /\ req[c].r.op \notin Once /\ req[c].r.op # "webhook"
      /\ UNCHANGED <<host, policy, effects, granted, shown>>
  BY DEF Performs, Enter, Blocking, Once, Starts, Keyed
<1>2. EffectsOf(c) = {} /\ shown[c] = {} /\ c \notin work
  BY <1>1, WithoutEffect, NothingShownYet DEF ApiInv, ClientOK
<1>3. CASE slots > 0
  <2>1. slots' = slots - 1 /\ work' = work \cup {c} /\ Go(c, "waiting")
    BY <1>3 DEF Enter
  <2>2. "waiting" \in Phases /\ req[c].phase # "free" BY <1>1 DEF Phases
  <2>3. Permission(c) \in granted BY <1>1, Permitted DEF Permission
  <2>4. Permission(c)' = Permission(c) BY <1>1, <2>1, <2>2, GoStep, SameRequest
  <2>5. EffectsOf(c)' = {} BY <1>1, <1>2 DEF EffectsOf
  <2>6. ClientOK(c)'
    BY <1>1, <1>2, <2>1, <2>2, <2>3, <2>4, <2>5, GoStep DEF ClientOK
  <2>7. SlotsOK'
    <3>1. Cardinality(work \cup {c}) = Cardinality(work) + 1 /\ IsFiniteSet(work \cup {c})
      BY <1>2, FS_AddElement DEF ApiInv, SlotsOK
    <3>2. Cardinality(work) \in Nat BY FS_CardinalityType DEF ApiInv, SlotsOK
    <3> QED BY <1>3, <2>1, <3>1, <3>2 DEF ApiInv, SlotsOK
  <2> QED BY <1>1, <1>2, <2>1, <2>2, <2>6, <2>7, GoStep, ShownTyped, QuietStep
<1>4. CASE ~(slots > 0)
  BY <1>1, <1>2, <1>4, ShownTyped, StatusesAreStatuses, ReplyQuietly DEF Enter, ConfigurationStatus
<1> QED BY <1>3, <1>4

(* A request is cancelled: a blocking operation keeps its slot and its     *)
(* thread.                                                                 *)
LEMMA CancelSafe ==
  ASSUME ApiInv, NEW c \in Clients, Cancel(c) PROVE ApiInv'
<1>1. /\ req[c].phase = "waiting" /\ Go(c, "cancelled")
      /\ UNCHANGED <<host, policy, effects, granted, shown, slots, work>>
  BY DEF Cancel
<1>2. EffectsOf(c) = {} /\ shown[c] = {} BY <1>1, WithoutEffect, NothingShownYet
<1>3. "cancelled" \in Phases /\ req[c].phase # "free" BY <1>1 DEF Phases
<1>4. Permission(c)' = Permission(c) BY <1>1, <1>3, GoStep, SameRequest
<1>5. EffectsOf(c)' = {} BY <1>1, <1>2 DEF EffectsOf
<1>6. ClientOK(c) BY DEF ApiInv
<1>7. ClientOK(c)'
  BY <1>1, <1>2, <1>3, <1>4, <1>5, <1>6, GoStep DEF ClientOK
<1>8. SlotsOK' BY <1>1 DEF ApiInv, SlotsOK
<1> QED BY <1>1, <1>2, <1>3, <1>7, <1>8, GoStep, ShownTyped, QuietStep

(* An answer is sent, or replaced by an error. *)
LEMMA SendSafe ==
  ASSUME ApiInv, NEW c \in Clients, Send(c) PROVE ApiInv'
<1>1. /\ req[c].phase = "send" /\ req[c].phase # "free"
      /\ UNCHANGED <<host, policy, effects, granted, shown, slots, work>>
  BY DEF Send
<1>2. PICK s \in {req[c].status, "error"} : SetReq(c, [req[c] EXCEPT !.phase = "sent", !.status = s])
  <2>1. req[c] \in InProgress BY <1>1, Phase DEF ApiInv
  <2>2. CASE Go(c, "sent")
    <3>1. [req[c] EXCEPT !.phase = "sent"] = [req[c] EXCEPT !.phase = "sent", !.status = req[c].status]
      BY <2>1 DEF InProgress
    <3> QED BY <2>2, <3>1 DEF Go
  <2>3. CASE SetReq(c, [req[c] EXCEPT !.phase = "sent", !.status = TooLarge])
    BY <2>3 DEF TooLarge
  <2> QED BY <2>2, <2>3 DEF Send
<1>3. /\ req' = [d \in Clients |-> IF d = c THEN req'[c] ELSE req[d]]
      /\ req'[c] \in InProgress /\ req'[c].r = req[c].r /\ req'[c].scope = req[c].scope
      /\ req'[c].phase = "sent" /\ req'[c].status = s
  <2>1. req[c] \in InProgress BY <1>1, Phase DEF ApiInv
  <2>2. req'[c] = [req[c] EXCEPT !.phase = "sent", !.status = s] BY <1>2, ReqStep
  <2>3. "sent" \in Phases /\ s \in Statuses BY <2>1 DEF Phases, Statuses, InProgress
  <2> QED BY <1>2, <2>1, <2>2, <2>3, ReqStep DEF InProgress
<1>4. c \notin work BY <1>1 DEF ApiInv, ClientOK
<1>5. /\ Identity(c)' = Identity(c) /\ EffectScope(c)' = EffectScope(c)
      /\ EffectsOf(c)' = EffectsOf(c)
  BY <1>1, <1>3, SameRequest DEF EffectsOf
<1>6. ClientOK(c) BY DEF ApiInv
<1>7. ClientOK(c)' BY <1>1, <1>3, <1>4, <1>5, <1>6 DEF ClientOK
<1>8. ASSUME NEW e \in effects', e.by = c PROVE EffectOK(e)'
  <2>1. EffectOK(e) BY <1>1, <1>8 DEF ApiInv
  <2> QED BY <1>1, <1>3, <1>5, <1>8, <2>1 DEF EffectOK
<1>9. Others(c) BY <1>1, <1>3, ShownTyped DEF Others
<1>10. OneOfEach' /\ SlotsOK' BY <1>1 DEF ApiInv, OneOfEach, SlotsOK
<1> QED BY <1>7, <1>8, <1>9, <1>10, ApiFrame

(* A blocking operation ends on its thread and frees its slot. *)
LEMMA CompleteSafe ==
  ASSUME ApiInv, NEW c \in Clients, Complete(c) PROVE ApiInv'
<1> DEFINE what == <<req[c].r.target>>
<1>1. /\ c \in work /\ work' = work \ {c} /\ slots' = slots + 1
      /\ UNCHANGED <<host, policy, granted, shown>>
  BY DEF Complete
<1>2. /\ req[c].phase \in {"waiting", "cancelled"} /\ req[c].phase # "free"
      /\ req[c].r.op \in Blocking /\ req[c].r.op \notin Once /\ req[c].r.op # "webhook"
      /\ EffectsOf(c) = {} /\ shown[c] = {}
      /\ Permission(c) \in granted
  BY <1>1 DEF ApiInv, ClientOK, Blocking, Once, Starts, Keyed
<1>3. PICK s \in Statuses :
        /\ IF req[c].phase = "waiting" THEN Reply(c, s) ELSE UNCHANGED req
        /\ \/ UNCHANGED effects
           \/ /\ s # "refused"
              /\ effects' = effects \cup {[by |-> c, op |-> req[c].r.op, scope |-> req[c].scope,
                                           what |-> what]}
  <2> DEFINE status(code) == IF Service(req[c].r.op) = "operations" THEN QueryStatus(code)
                             ELSE ConfigurationStatus(code)
             effect == effects' = effects \cup
               IF req[c].r.op \in Views THEN {}
               ELSE {[by |-> c, op |-> req[c].r.op, scope |-> req[c].scope, what |-> what]}
             answered(s) == IF req[c].phase = "waiting" THEN Reply(c, s) ELSE UNCHANGED req
  <2>1. \/ effect /\ answered("ok")
        \/ UNCHANGED effects /\ answered(status("conflict"))
        \/ (effect \/ UNCHANGED effects) /\ answered(status("unavailable"))
    BY DEF Complete
  <2>2. status("conflict") \in Statuses BY StatusesAreStatuses
  <2>3. status("unavailable") = "error" BY DEF QueryStatus, ConfigurationStatus
  <2>4. effect => \/ UNCHANGED effects
                  \/ effects' = effects \cup {[by |-> c, op |-> req[c].r.op, scope |-> req[c].scope,
                                               what |-> what]}
    OBVIOUS
  <2>5. "ok" \in Statuses /\ "error" \in Statuses BY DEF Statuses
  <2> HIDE DEF status, effect, what
  <2> QED BY <2>1, <2>2, <2>3, <2>4, <2>5
<1>4. /\ req' = [d \in Clients |-> IF d = c THEN req'[c] ELSE req[d]]
      /\ req'[c] \in InProgress /\ req'[c].r = req[c].r /\ req'[c].scope = req[c].scope
      /\ \/ req'[c].phase = "send" /\ req'[c].status = s
         \/ req'[c].phase = "cancelled"
  <2>1. CASE req[c].phase = "waiting" BY <1>2, <1>3, <2>1, ReplyStep
  <2>2. CASE req[c].phase # "waiting" BY <1>2, <1>3, <2>2, Phase DEF ApiInv
  <2> QED BY <2>1, <2>2
<1>5. /\ Identity(c)' = Identity(c) /\ EffectScope(c)' = EffectScope(c)
      /\ Permission(c)' = Permission(c)
  BY <1>1, <1>4, SameRequest
<1>6. Others(c) BY <1>1, <1>3, <1>4, ShownTyped DEF Others
<1>7. ClientOK(c)'
  BY <1>1, <1>2, <1>4, <1>5 DEF ClientOK
<1>8. SlotsOK'
  <2>1. Cardinality(work \ {c}) = Cardinality(work) - 1 /\ IsFiniteSet(work \ {c})
    BY <1>1, FS_RemoveElement DEF ApiInv, SlotsOK
  <2>2. Cardinality(work) \in Nat BY FS_CardinalityType DEF ApiInv, SlotsOK
  <2> QED BY <1>1, <2>1, <2>2 DEF ApiInv, SlotsOK
<1>9. CASE UNCHANGED effects
  <2>1. \A e \in effects' : e.by = c => EffectOK(e)' BY <1>2, <1>9 DEF EffectsOf
  <2>2. OneOfEach' BY <1>9 DEF ApiInv, OneOfEach
  <2> QED BY <1>6, <1>7, <1>8, <2>1, <2>2, ApiFrame
<1>10. CASE /\ s # "refused"
            /\ effects' = effects \cup {[by |-> c, op |-> req[c].r.op, scope |-> req[c].scope,
                                         what |-> what]}
  <2>1. PICK new : new = [by |-> c, op |-> req[c].r.op, scope |-> req[c].scope, what |-> what]
    OBVIOUS
  <2>2. /\ new = [by |-> new.by, op |-> new.op, scope |-> new.scope, what |-> new.what]
        /\ new.by = c /\ new.op = req[c].r.op /\ new.scope = req[c].scope
        /\ \E x : new.what = <<x>>
        /\ effects' = effects \cup {new}
    BY <1>10, <2>1
  <2>3. [by |-> new.by, action |-> Action(new.op), scope |-> new.scope] \in granted
    BY <1>2, <2>2 DEF Permission
  <2>4. EffectOK(new)' BY <1>1, <1>2, <1>4, <1>10, <2>2, <2>3 DEF EffectOK
  <2>5. \A e \in effects' : e.by = c => EffectOK(e)' BY <1>2, <2>2, <2>4 DEF EffectsOf
  <2>6. OneOfEach'
    <3>1. ASSUME NEW e1 \in effects, e1.op \in Once, e1.what = new.what PROVE FALSE
      <4>1. e1.what = Identity(e1.by) BY <3>1 DEF ApiInv, EffectOK
      <4> QED BY <2>2, <3>1, <4>1, IdentityIsLong
    <3>2. new.op \notin Once BY <1>2, <2>2
    <3> QED BY <2>2, <3>1, <3>2 DEF ApiInv, OneOfEach
  <2> QED BY <1>6, <1>7, <1>8, <2>5, <2>6, ApiFrame
<1> QED BY <1>3, <1>9, <1>10

(* Every step of the API keeps its invariant. *)
LEMMA ApiKeepsInv == ApiInv /\ ApiNext => ApiInv'
<1> SUFFICES ASSUME ApiInv, ApiNext PROVE ApiInv' OBVIOUS
<1>1. CASE ChangePolicy BY <1>1, ChangePolicySafe
<1>2. ASSUME NEW c \in Clients, NEW r \in ApiRequests, Arrive(c, r) PROVE ApiInv'
  BY <1>2, ArriveSafe
<1>3. ASSUME NEW c \in Clients, Authenticate(c) \/ Authorize(c) \/ Read(c) PROVE ApiInv'
  BY <1>3, AuthenticateSafe, AuthorizeSafe, ReadSafe
<1>4. ASSUME NEW c \in Clients, StartWorkflow(c) \/ CloudEvent(c) \/ Webhook(c) PROVE ApiInv'
  <2>1. Performs(c, Starts) /\ StartCall(c)
    BY <1>4 DEF StartWorkflow, CloudEvent, Webhook, Performs, Starts
  <2> QED BY <2>1, StartCallSafe
<1>5. ASSUME NEW c \in Clients, Signal(c) \/ StopExecution(c) PROVE ApiInv'
  <2>1. Performs(c, {"signal", "cancel", "terminate"}) /\ ControlCall(c)
    BY <1>5 DEF Signal, StopExecution, Performs
  <2> QED BY <2>1, ControlCallSafe
<1>6. ASSUME NEW c \in Clients, ListExecutions(c) \/ DescribeExecution(c) \/ Inform(c) PROVE ApiInv'
  BY <1>6, ListSafe, DescribeSafe, InformSafe
<1>7. ASSUME NEW c \in Clients,
             \/ ControlTrigger(c) \/ ApplyTriggers(c) \/ CreateScheduledStart(c)
             \/ MutateScheduledStart(c) \/ Activate(c)
      PROVE  ApiInv'
  BY <1>7, ServicesSafe
<1>8. ASSUME NEW c \in Clients,
             EditConfiguration(c) \/ PublishConfiguration(c) \/ QueryOperations(c)
      PROVE  ApiInv'
  <2>1. Performs(c, Blocking) /\ Enter(c)
    BY <1>8 DEF EditConfiguration, PublishConfiguration, QueryOperations, Performs, Blocking
  <2> QED BY <2>1, EnterSafe
<1>9. ASSUME NEW c \in Clients, Complete(c) \/ Cancel(c) \/ Send(c) PROVE ApiInv'
  BY <1>9, CompleteSafe, CancelSafe, SendSafe
<1> QED BY <1>1, <1>2, <1>3, <1>4, <1>5, <1>6, <1>7, <1>8, <1>9 DEF ApiNext

(* The invariant is about the variables of the API alone. *)
LEMMA ApiRests == ApiInv /\ UNCHANGED apiVars => ApiInv'
<1> SUFFICES ASSUME ApiInv, UNCHANGED apiVars PROVE ApiInv' OBVIOUS
<1> USE DEF apiVars
<1>1. \A c \in Clients : ClientOK(c)'
  BY DEF ApiInv, ClientOK, EffectsOf, Identity, Permission, StartIdentity, StartScope, CallIdentity
<1>2. \A e \in effects : EffectOK(e)'
  BY DEF ApiInv, EffectOK, EffectScope, Identity, StartIdentity, StartScope, CallIdentity
<1> QED BY <1>1, <1>2 DEF ApiInv, OneOfEach, SlotsOK

(* The invariant says that every effect and everything shown was           *)
(* authorized.                                                             *)
LEMMA ApiIsAuthorized == ApiInv => EffectWasAuthorized /\ OnlyOwnExecutionsAreShown
  BY DEF ApiInv, EffectOK, ClientOK, EffectWasAuthorized, OnlyOwnExecutionsAreShown

(* Two starts are the same start only of one scope and key, and of one     *)
(* mapping or hook.                                                        *)
LEMMA StartIdentities ==
  ASSUME NEW c, NEW d
  PROVE  StartIdentity(c) = StartIdentity(d)
         <=> /\ StartScope(c) = StartScope(d) /\ req[c].r.op = req[d].r.op
             /\ req[c].r.key = req[d].r.key
             /\ req[c].r.op # "start" => req[c].r.target = req[d].r.target
<1> DEFINE t(x) == IF req[x].r.op = "start" THEN "" ELSE req[x].r.target
<1>1. \A a1, a2, a3, a4, a5, b1, b2, b3, b4, b5 :
        <<a1, a2, a3, a4, a5>> = <<b1, b2, b3, b4, b5>>
        <=> a1 = b1 /\ a2 = b2 /\ a3 = b3 /\ a4 = b4 /\ a5 = b5
  OBVIOUS
<1>2. StartIdentity(c) = StartIdentity(d)
      <=> /\ StartScope(c) = StartScope(d) /\ req[c].r.op = req[d].r.op
          /\ t(c) = t(d) /\ req[c].r.key = req[d].r.key
  <2> HIDE DEF t
  <2>1. \A x : StartIdentity(x) = <<StartScope(x), "w", req[x].r.op, t(x), req[x].r.key>>
    BY DEF StartIdentity, t
  <2> QED BY <1>1, <2>1, Zenon
<1> QED BY <1>2

(* Two keyed calls are the same call only of one scope, target and key,    *)
(* and none is a start.                                                    *)
LEMMA CallIdentities ==
  ASSUME NEW c, NEW d
  PROVE  /\ CallIdentity(c) = CallIdentity(d)
            <=> /\ req[c].scope = req[d].scope /\ req[c].r.op = req[d].r.op
                /\ req[c].r.target = req[d].r.target /\ req[c].r.key = req[d].r.key
         /\ CallIdentity(c) # StartIdentity(d)
<1>1. \A a1, a2, a3, a4, b1, b2, b3, b4 :
        <<a1, a2, a3, a4>> = <<b1, b2, b3, b4>>
        <=> a1 = b1 /\ a2 = b2 /\ a3 = b3 /\ a4 = b4
  OBVIOUS
<1>2. \A a1, a2, a3, a4, b1, b2, b3, b4, b5 : <<a1, a2, a3, a4>> # <<b1, b2, b3, b4, b5>>
  OBVIOUS
<1>3. CallIdentity(c) # StartIdentity(d)
  BY <1>2, Zenon DEF CallIdentity, StartIdentity
<1> QED BY <1>1, <1>3, Zenon DEF CallIdentity

(* The effects with the scope, the operation and the key of an accepted    *)
(* request are those with its identity.                                    *)
LEMMA SameIsIdentity ==
  ASSUME ApiInv, NEW c, req[c].r.op \in Once, NEW e \in effects
  PROVE  (/\ e.scope = EffectScope(c) /\ e.op = req[c].r.op
          /\ req[e.by].r.key = req[c].r.key
          /\ e.op # "start" => req[e.by].r.target = req[c].r.target)
         <=> e.what = Identity(c)
<1>1. /\ e.op = req[e.by].r.op
      /\ e.op \in Once => e.scope = EffectScope(e.by) /\ e.what = Identity(e.by)
      /\ e.op \notin Once => \E x : e.what = <<x>>
  BY DEF ApiInv, EffectOK
<1>2. CASE e.op \notin Once
  BY <1>1, <1>2, IdentityIsLong
<1>3. CASE e.op \in Once
  <2>1. PICK d : d = e.by OBVIOUS
  <2>2. e.op = req[d].r.op /\ e.scope = EffectScope(d) /\ e.what = Identity(d)
    BY <1>1, <1>3, <2>1
  <2>3. CASE req[c].r.op \in Starts /\ req[d].r.op \in Starts
    BY <2>1, <2>2, <2>3, StartIdentities DEF EffectScope, Identity
  <2>4. CASE req[c].r.op \notin Starts /\ req[d].r.op \notin Starts
    <3>1. req[c].r.op # "start" /\ req[d].r.op # "start" BY <2>4 DEF Starts
    <3> QED BY <2>1, <2>2, <2>4, <3>1, CallIdentities DEF EffectScope, Identity
  <2>5. CASE ~(req[c].r.op \in Starts <=> req[d].r.op \in Starts)
    <3>1. req[c].r.op # req[d].r.op BY <2>5
    <3>2. Identity(c) # Identity(d) BY <2>5, CallIdentities DEF Identity
    <3> QED BY <2>2, <3>1, <3>2
  <2> QED BY <2>3, <2>4, <2>5
<1> QED BY <1>2, <1>3

(* What exists of an accepted request. *)
SameAs(c) == {e \in effects : /\ e.scope = EffectScope(c) /\ e.op = req[c].r.op
                              /\ req[e.by].r.key = req[c].r.key
                              /\ e.op # "start" => req[e.by].r.target = req[c].r.target}

(* The invariant says that what was accepted exists once. *)
LEMMA ApiAcceptsOnce == ApiInv => AcceptedExistsOnce
<1>1. ASSUME ApiInv, NEW c \in Clients, req[c] # Free, Answered(c, "ok"), req[c].r.op \in Once
      PROVE  Cardinality(SameAs(c)) = 1
  <2>1. \A e \in effects : e \in SameAs(c) <=> e.what = Identity(c)
    <3>1. \A e \in effects : (/\ e.scope = EffectScope(c) /\ e.op = req[c].r.op
                              /\ req[e.by].r.key = req[c].r.key
                              /\ e.op # "start" => req[e.by].r.target = req[c].r.target)
                             <=> e.what = Identity(c)
      BY <1>1, SameIsIdentity
    <3> QED BY <3>1 DEF SameAs
  <2>2. PICK e \in effects : e.what = Identity(c)
    BY <1>1 DEF ApiInv, ClientOK, Answered
  <2>3. ASSUME NEW d \in effects, d.what = Identity(c) PROVE d = e
    <3>1. e.op \notin Once => \E x : e.what = <<x>> BY <1>1 DEF ApiInv, EffectOK
    <3>2. e.op \in Once BY <2>2, <3>1, IdentityIsLong
    <3> QED BY <1>1, <2>2, <2>3, <3>2 DEF ApiInv, OneOfEach
  <2>4. SameAs(c) \subseteq effects BY DEF SameAs
  <2>5. SameAs(c) = {e} BY <2>1, <2>2, <2>3, <2>4
  <2> QED BY <2>5, FS_Singleton
<1>2. SUFFICES ASSUME ApiInv, NEW c \in Clients,
                      req[c] # Free /\ Answered(c, "ok") /\ req[c].r.op \in Starts \cup Keyed
               PROVE  Cardinality({e \in effects :
                        /\ e.scope = (IF req[c].r.op \in Starts THEN StartScope(c) ELSE req[c].scope)
                        /\ e.op = req[c].r.op
                        /\ req[e.by].r.key = req[c].r.key
                        /\ e.op # "start" => req[e.by].r.target = req[c].r.target}) = 1
  BY Zenon DEF AcceptedExistsOnce
<1>3. Cardinality(SameAs(c)) = 1
  BY <1>1, <1>2 DEF Once
<1> QED BY <1>3 DEF SameAs, EffectScope

(* The invariant says that a refused request did nothing, unless it is one *)
(* of those that may be refused late.                                      *)
LEMMA ApiRefusesCleanly == ApiInv => RefusalHasNoEffect
<1> SUFFICES ASSUME ApiInv, NEW c \in Clients, Answered(c, "refused"), EffectsOf(c) # {}
             PROVE  req[c].r.op \in RefusedLate
  BY DEF RefusalHasNoEffect
<1>1. PICK e \in effects : e.by = c BY DEF EffectsOf
<1>2. EffectOK(e) BY DEF ApiInv
<1> QED BY <1>1, <1>2 DEF EffectOK, Answered

(* The invariant says that no slot leaks and none is used twice. *)
LEMMA ApiIsBounded == ApiInv => BlockingIsBounded
<1> SUFFICES ASSUME ApiInv PROVE BlockingIsBounded OBVIOUS
<1>1. Cardinality(work) \in Nat BY FS_CardinalityType DEF ApiInv, SlotsOK
<1> QED BY <1>1 DEF ApiInv, SlotsOK, BlockingIsBounded

-----------------------------------------------------------------------------
(* Routing: whatever an assessment will answer about, it has described or  *)
(* has yet to list.                                                        *)

ExecutionOK(e, n) ==
  /\ e = [id |-> e.id, run |-> e.run, definition |-> e.definition, deployment |-> e.deployment,
          memo |-> e.memo, open |-> e.open]
  /\ e.id \in 1..n
  /\ e.memo = "none" => e.definition = "none" /\ e.deployment = "none"

ExecutionsOK ==
  /\ IsFiniteSet(executions)
  /\ \A e \in executions : ExecutionOK(e, Cardinality(executions))
  /\ \A e1, e2 \in executions : e1.id = e2.id => e1 = e2

(* Every open execution that is known is due as it is, on the page that is *)
(* being described, or among what was found.                               *)
Seen(e, a) ==
  \/ RunOf(e) \in a.due
  \/ \E l \in a.page : l[1] = e.id
  \/ \E f \in a.found : f.definition = e.definition /\ f.deployment = e.deployment

Shape(a) ==
  a = [pc |-> "listing", subject |-> a.subject, approved |-> a.approved, fixture |-> a.fixture,
       due |-> a.due, page |-> a.page, found |-> a.found, known |-> a.known]

Describing(a) ==
  /\ Shape(a)
  /\ a.subject \in Subjects
  /\ a.known \subseteq 1..Cardinality(executions)
  /\ \A e \in executions :
       e.open = TRUE /\ e.id \in a.known /\ Needs(e, a.subject) => Seen(e, a)

RetiredOK ==
  /\ knownThen = [s \in Subjects |-> knownThen[s]]
  /\ \A s \in Subjects : knownThen[s] \subseteq 1..Cardinality(executions)
  /\ retired \subseteq Subjects
  /\ RetirementStrandsOnlyLateStarts

RoutingInv ==
  /\ ExecutionsOK
  /\ assessment = NoAssessment \/ assessment = Assessed \/ Describing(assessment)
  /\ RetiredOK

(* Routing begins without executions. *)
LEMMA RoutingStarts ==
  ASSUME NEW registered, NEW pinned, RoutingIs(registered, pinned)
  PROVE  RoutingInv
<1> USE DEF RoutingIs
<1>1. Cardinality(executions) = 0 /\ IsFiniteSet(executions) BY FS_EmptySet
<1> QED BY <1>1 DEF RoutingInv, ExecutionsOK, RetiredOK, RetirementStrandsOnlyLateStarts

(* A new execution has an id of its own. *)
LEMMA StartsOne ==
  ASSUME RoutingInv, NEW definition, NEW deployment, NEW memo,
         memo = "none" => definition = "none" /\ deployment = "none",
         executions' = Started(definition, deployment, memo),
         UNCHANGED <<assessment, retired, knownThen>>
  PROVE  RoutingInv'
<1>1. PICK new : new = [id |-> Cardinality(executions) + 1, run |-> 1, definition |-> definition,
                        deployment |-> deployment, memo |-> memo, open |-> TRUE]
  OBVIOUS
<1>2. /\ new = [id |-> new.id, run |-> new.run, definition |-> new.definition,
                deployment |-> new.deployment, memo |-> new.memo, open |-> new.open]
      /\ new.id = Cardinality(executions) + 1
      /\ new.definition = definition /\ new.deployment = deployment /\ new.memo = memo
      /\ executions' = executions \cup {new}
  BY <1>1 DEF Started
<1>3. Cardinality(executions) \in Nat /\ IsFiniteSet(executions)
  BY FS_CardinalityType DEF RoutingInv, ExecutionsOK
<1>4. \A e \in executions : e.id \in 1..Cardinality(executions) /\ e.id # new.id
  BY <1>2, <1>3 DEF RoutingInv, ExecutionsOK, ExecutionOK
<1>5. Cardinality(executions') = Cardinality(executions) + 1 /\ IsFiniteSet(executions')
  BY <1>2, <1>3, <1>4, FS_AddElement
<1>6. ExecutionsOK'
  <2>1. ExecutionOK(new, Cardinality(executions) + 1) BY <1>2, <1>3 DEF ExecutionOK
  <2>2. \A e \in executions : ExecutionOK(e, Cardinality(executions) + 1)
    BY <1>3 DEF RoutingInv, ExecutionsOK, ExecutionOK
  <2>3. \A e1, e2 \in executions' : e1.id = e2.id => e1 = e2
    BY <1>2, <1>4 DEF RoutingInv, ExecutionsOK
  <2> QED BY <1>2, <1>5, <2>1, <2>2, <2>3 DEF ExecutionsOK
<1>7. ASSUME Describing(assessment) PROVE Describing(assessment)'
  <2>1. new.id \notin assessment.known BY <1>2, <1>3, <1>7 DEF Describing
  <2>2. assessment.known \subseteq 1..Cardinality(executions') BY <1>3, <1>5, <1>7 DEF Describing
  <2>3. \A e \in executions' :
          e.open = TRUE /\ e.id \in assessment.known /\ Needs(e, assessment.subject)
          => Seen(e, assessment)
    BY <1>2, <1>7, <2>1 DEF Describing
  <2> QED BY <1>7, <2>2, <2>3 DEF Describing, Shape, Seen, Needs, RunOf
<1>8. RetiredOK'
  <2>1. \A s \in Subjects : new.id \notin knownThen[s] /\ knownThen[s] \subseteq 1..Cardinality(executions')
    BY <1>2, <1>3, <1>5 DEF RoutingInv, RetiredOK
  <2>2. retired \subseteq Subjects BY DEF RoutingInv, RetiredOK
  <2>3. RetirementStrandsOnlyLateStarts'
    BY <1>2, <2>1, <2>2 DEF RoutingInv, RetiredOK, RetirementStrandsOnlyLateStarts, Needs
  <2> QED BY <2>1, <2>3 DEF RoutingInv, RetiredOK
<1> QED BY <1>6, <1>7, <1>8 DEF RoutingInv, NoAssessment, Assessed

(* What becomes of an assessment when a run ends. *)
LEMMA OvertakenFields ==
  ASSUME NEW e, Shape(assessment)
  PROVE  /\ Shape(Overtaken(e))
         /\ Overtaken(e).subject = assessment.subject
         /\ Overtaken(e).page = assessment.page /\ Overtaken(e).found = assessment.found
         /\ Overtaken(e).due = assessment.due \ {RunOf(e)}
         /\ Overtaken(e).known \subseteq assessment.known
         /\ RunOf(e) \in assessment.due => e.id \notin Overtaken(e).known
<1> DEFINE a == assessment
           due == a.due \ {RunOf(e)}
           known == IF RunOf(e) \in a.due THEN a.known \ {e.id} ELSE a.known
<1>1. PICK b : b = [pc |-> "listing", subject |-> a.subject, approved |-> a.approved,
                    fixture |-> a.fixture, due |-> due, page |-> a.page, found |-> a.found,
                    known |-> a.known]
  OBVIOUS
<1>2. PICK d : d = [pc |-> "listing", subject |-> a.subject, approved |-> a.approved,
                    fixture |-> a.fixture, due |-> due, page |-> a.page, found |-> a.found,
                    known |-> known]
  OBVIOUS
<1>3. [a EXCEPT !.due = due] = b
  <2> HIDE DEF due
  <2> QED BY <1>1 DEF Shape
<1>4. [b EXCEPT !.known = known] = d
  <2> HIDE DEF due, known
  <2> QED BY <1>1, <1>2
<1>5. /\ b.due = due /\ b.known = a.known /\ Shape(d)
      /\ d.subject = a.subject /\ d.page = a.page /\ d.found = a.found /\ d.due = due
      /\ d.known = known
  <2> HIDE DEF due, known
  <2> QED BY <1>1, <1>2 DEF Shape
<1>6. Overtaken(e) = d
  <2> HIDE DEF known
  <2>1. Overtaken(e) = [b EXCEPT !.known = IF RunOf(e) \in a.due THEN @ \ {e.id} ELSE @]
    BY <1>3 DEF Overtaken
  <2>2. (IF RunOf(e) \in a.due THEN b.known \ {e.id} ELSE b.known) = known
    BY <1>5 DEF known
  <2> QED BY <1>4, <2>1, <2>2
<1> QED BY <1>5, <1>6

(* An execution that goes on, or ends, stays where it is, and the listing  *)
(* loses its run if no page has had it.                                    *)
LEMMA ChangesOne ==
  ASSUME RoutingInv, NEW e \in executions, NEW f, e.open = TRUE,
         f = [id |-> e.id, run |-> f.run, definition |-> e.definition, deployment |-> e.deployment,
              memo |-> e.memo, open |-> f.open],
         executions' = (executions \ {e}) \cup {f},
         assessment' = IF Listing THEN Overtaken(e) ELSE assessment,
         UNCHANGED <<retired, knownThen>>
  PROVE  RoutingInv'
<1>1. /\ f = [id |-> f.id, run |-> f.run, definition |-> f.definition, deployment |-> f.deployment,
              memo |-> f.memo, open |-> f.open]
      /\ f.id = e.id /\ f.definition = e.definition /\ f.deployment = e.deployment /\ f.memo = e.memo
  OBVIOUS
<1>2. f \notin executions \ {e}
  BY <1>1 DEF RoutingInv, ExecutionsOK
<1>3. Cardinality(executions') = Cardinality(executions) /\ IsFiniteSet(executions')
  <2>1. IsFiniteSet(executions) /\ Cardinality(executions) \in Nat
    BY FS_CardinalityType DEF RoutingInv, ExecutionsOK
  <2>2. IsFiniteSet(executions \ {e}) /\ Cardinality(executions \ {e}) = Cardinality(executions) - 1
    BY <2>1, FS_RemoveElement
  <2>3. /\ IsFiniteSet((executions \ {e}) \cup {f})
        /\ Cardinality((executions \ {e}) \cup {f}) = Cardinality(executions \ {e}) + 1
    BY <1>2, <2>2, FS_AddElement
  <2> QED BY <2>1, <2>2, <2>3
<1>4. ExecutionsOK'
  <2>1. ExecutionOK(f, Cardinality(executions))
    BY <1>1 DEF RoutingInv, ExecutionsOK, ExecutionOK
  <2>2. \A e1, e2 \in executions' : e1.id = e2.id => e1 = e2
    BY <1>1 DEF RoutingInv, ExecutionsOK
  <2> QED BY <1>3, <2>1, <2>2 DEF RoutingInv, ExecutionsOK
<1>5. ASSUME NEW s PROVE Needs(f, s) = Needs(e, s)
  BY <1>1 DEF Needs
<1>6. ASSUME Listing PROVE Describing(assessment)'
  <2>1. Describing(assessment) BY <1>6 DEF RoutingInv, NoAssessment, Assessed, Listing
  <2>2. PICK b : b = Overtaken(e) OBVIOUS
  <2>3. /\ Shape(b) /\ b.subject = assessment.subject
        /\ b.page = assessment.page /\ b.found = assessment.found
        /\ b.due = assessment.due \ {RunOf(e)}
        /\ b.known \subseteq assessment.known
        /\ RunOf(e) \in assessment.due => e.id \notin b.known
    BY <2>1, <2>2, OvertakenFields DEF Describing
  <2>4. ASSUME NEW x \in executions', x.open = TRUE, x.id \in b.known, Needs(x, b.subject)
        PROVE  Seen(x, b)
    <3>1. CASE x = f
      <4>1. Seen(e, assessment) BY <1>1, <1>5, <2>1, <2>3, <2>4, <3>1 DEF Describing
      <4>2. RunOf(e) \notin assessment.due BY <1>1, <2>3, <2>4, <3>1
      <4> QED BY <1>1, <2>3, <3>1, <4>1, <4>2 DEF Seen
    <3>2. CASE x # f
      <4>1. x \in executions /\ x # e BY <3>2
      <4>2. x.id # e.id BY <4>1 DEF RoutingInv, ExecutionsOK
      <4>3. Seen(x, assessment) BY <2>1, <2>3, <2>4, <4>1 DEF Describing
      <4>4. RunOf(x) # RunOf(e) BY <4>2 DEF RunOf
      <4> QED BY <2>3, <4>3, <4>4 DEF Seen
    <3> QED BY <3>1, <3>2
  <2>5. assessment' = b BY <1>6, <2>2
  <2>6. b.subject \in Subjects /\ b.known \subseteq 1..Cardinality(executions')
    BY <1>3, <2>1, <2>3 DEF Describing
  <2> QED BY <2>3, <2>4, <2>5, <2>6 DEF Describing, Shape, Seen, Needs, RunOf
<1>7. RetiredOK'
  <2>1. \A s \in retired : f.open /\ Needs(f, s) => f.id \notin knownThen[s]
    BY <1>1, <1>5 DEF RoutingInv, RetiredOK, RetirementStrandsOnlyLateStarts
  <2>2. RetirementStrandsOnlyLateStarts'
    BY <2>1 DEF RoutingInv, RetiredOK, RetirementStrandsOnlyLateStarts, Needs
  <2> QED BY <1>3, <2>2 DEF RoutingInv, RetiredOK
<1>8. ASSUME ~Listing PROVE assessment' = NoAssessment \/ assessment' = Assessed
  BY <1>8 DEF RoutingInv, NoAssessment, Assessed, Describing, Shape, Listing
<1> QED BY <1>4, <1>6, <1>7, <1>8 DEF RoutingInv, NoAssessment, Assessed

(* A step that changes no execution and no retirement. *)
LEMMA AssessmentSteps ==
  ASSUME RoutingInv, UNCHANGED <<executions, retired, knownThen>>,
         assessment' = Assessed \/ assessment' = NoAssessment \/ Describing(assessment')
  PROVE  RoutingInv'
<1>1. RetiredOK' BY DEF RoutingInv, RetiredOK, RetirementStrandsOnlyLateStarts, Needs
<1>2. ExecutionsOK' BY DEF RoutingInv, ExecutionsOK
<1>3. Describing(assessment') => Describing(assessment)'
  BY DEF Describing, Shape, Seen, Needs, RunOf
<1> QED BY <1>1, <1>2, <1>3 DEF RoutingInv, Assessed, NoAssessment

(* An assessment begins with executions that are open. *)
LEMMA AssessmentBegins ==
  ASSUME RoutingInv, NEW q \in Questions, BeginAssessment(q)
  PROVE  RoutingInv'
<1>1. PICK listed \in SUBSET Open :
        assessment' = [pc |-> "listing", subject |-> q.subject, approved |-> q.approved,
                       fixture |-> q.fixture, due |-> {RunOf(e) : e \in listed}, page |-> {},
                       found |-> {}, known |-> {e.id : e \in listed}]
  BY DEF BeginAssessment
<1>2. PICK a : a = [pc |-> "listing", subject |-> q.subject, approved |-> q.approved,
                    fixture |-> q.fixture, due |-> {RunOf(e) : e \in listed}, page |-> {},
                    found |-> {}, known |-> {e.id : e \in listed}]
  OBVIOUS
<1>3. Describing(a)
  <2>1. listed \subseteq executions BY DEF Open
  <2>2. /\ Shape(a) /\ a.subject = q.subject
        /\ a.due = {RunOf(e) : e \in listed} /\ a.known = {e.id : e \in listed}
    BY <1>2 DEF Shape
  <2>3. a.known \subseteq 1..Cardinality(executions)
    BY <2>1, <2>2 DEF RoutingInv, ExecutionsOK, ExecutionOK
  <2>4. ASSUME NEW e \in executions, e.id \in a.known PROVE RunOf(e) \in a.due
    <3>1. PICK x \in listed : x.id = e.id BY <2>2, <2>4
    <3>2. x = e BY <2>1, <3>1 DEF RoutingInv, ExecutionsOK
    <3> QED BY <2>2, <3>2
  <2>5. a.subject \in Subjects BY <2>2, RoutingAssumption
  <2> QED BY <2>2, <2>3, <2>4, <2>5 DEF Describing, Seen
<1> QED BY <1>1, <1>2, <1>3, AssessmentSteps DEF BeginAssessment

(* A page of the list. *)
LEMMA ListingReads ==
  ASSUME RoutingInv, NEW page, ListOpen(page)
  PROVE  RoutingInv'
<1> DEFINE a == assessment
<1>1. /\ a.pc = "listing" /\ a.page = {}
      /\ assessment' = [[a EXCEPT !.due = @ \ page] EXCEPT !.page = page]
      /\ UNCHANGED <<executions, retired, knownThen>>
  BY DEF ListOpen, Listing
<1>2. Describing(a)
  BY <1>1 DEF RoutingInv, NoAssessment, Assessed
<1>3. PICK b : b = [pc |-> "listing", subject |-> a.subject, approved |-> a.approved,
                    fixture |-> a.fixture, due |-> a.due \ page, page |-> page,
                    found |-> a.found, known |-> a.known]
  OBVIOUS
<1>4. assessment' = b
  <2>1. PICK d : d = [pc |-> "listing", subject |-> a.subject, approved |-> a.approved,
                      fixture |-> a.fixture, due |-> a.due \ page, page |-> a.page,
                      found |-> a.found, known |-> a.known]
    OBVIOUS
  <2>2. [a EXCEPT !.due = a.due \ page] = d BY <1>2, <2>1 DEF Describing, Shape
  <2>3. [d EXCEPT !.page = page] = b BY <1>3, <2>1
  <2> QED BY <1>1, <2>2, <2>3
<1>5. /\ Shape(b) /\ b.subject = a.subject /\ b.known = a.known /\ b.page = page
      /\ b.found = a.found /\ b.due = a.due \ page
  BY <1>3 DEF Shape
<1>6. ASSUME NEW e \in executions, e.open = TRUE, e.id \in b.known, Needs(e, b.subject)
      PROVE  Seen(e, b)
  <2>1. Seen(e, a) BY <1>2, <1>5, <1>6 DEF Describing
  <2>2. RunOf(e)[1] = e.id BY DEF RunOf
  <2> QED BY <1>1, <1>5, <2>1, <2>2 DEF Seen
<1>7. Describing(b) BY <1>2, <1>5, <1>6 DEF Describing
<1> QED BY <1>1, <1>4, <1>7, AssessmentSteps

(* An assessment describes one of the runs on its page. *)
LEMMA DescriptionReads ==
  ASSUME RoutingInv, NEW listed, DescribeOpen(listed)
  PROVE  RoutingInv'
<1> DEFINE a == assessment
           more == {[definition |-> e.definition, deployment |-> e.deployment]
                    : e \in Dependency(listed)}
           page == a.page \ {listed}
           found == a.found \cup more
<1>1. /\ a.pc = "listing" /\ listed \in a.page
      /\ UNCHANGED <<executions, retired, knownThen>>
  BY DEF DescribeOpen, Listing
<1>2. Describing(a)
  BY <1>1 DEF RoutingInv, NoAssessment, Assessed
<1>3. CASE assessment' = Assessed
  BY <1>1, <1>3, AssessmentSteps
<1>4. CASE assessment' = [[a EXCEPT !.page = page] EXCEPT !.found = @ \cup more]
  <2>1. PICK b : b = [pc |-> "listing", subject |-> a.subject, approved |-> a.approved,
                      fixture |-> a.fixture, due |-> a.due, page |-> page, found |-> found,
                      known |-> a.known]
    OBVIOUS
  <2>2. assessment' = b
    <3>1. PICK d : d = [pc |-> "listing", subject |-> a.subject, approved |-> a.approved,
                        fixture |-> a.fixture, due |-> a.due, page |-> page,
                        found |-> a.found, known |-> a.known]
      OBVIOUS
    <3>2. [a EXCEPT !.page = page] = d
      <4> HIDE DEF page
      <4> QED BY <1>2, <3>1 DEF Describing, Shape
    <3>3. [d EXCEPT !.found = found] = b
      <4> HIDE DEF page, found
      <4> QED BY <2>1, <3>1
    <3>4. d.found = a.found
      <4> HIDE DEF page
      <4> QED BY <3>1
    <3>5. assessment' = [d EXCEPT !.found = @ \cup more]
      <4> HIDE DEF page, more
      <4> QED BY <1>4, <3>2
    <3>6. [d EXCEPT !.found = @ \cup more] = [d EXCEPT !.found = found]
      <4> HIDE DEF more
      <4> QED BY <3>4
    <3> HIDE DEF page, found, more
    <3> QED BY <3>3, <3>5, <3>6
  <2>3. /\ Shape(b) /\ b.subject = a.subject /\ b.known = a.known /\ b.due = a.due
        /\ b.page = page /\ b.found = found
    <3> HIDE DEF page, found
    <3> QED BY <2>1 DEF Shape
  <2>4. ASSUME NEW e \in executions, e.open = TRUE, e.id \in b.known, Needs(e, b.subject)
        PROVE  Seen(e, b)
    <3>1. Seen(e, a) BY <1>2, <2>3, <2>4 DEF Describing
    <3>2. CASE listed[1] # e.id
      BY <2>3, <3>1, <3>2 DEF Seen
    <3>3. CASE listed[1] = e.id
      <4>1. e.memo # "none"
        <5>1. a.subject \in Subjects BY <1>2 DEF Describing
        <5>2. \/ a.subject[1] = "worker" /\ a.subject[2] \in Deployments
              \/ a.subject[1] = "definition" /\ a.subject[2] \in Definitions
          BY <5>1 DEF Subjects
        <5>3. e.memo = "none" => e.definition = "none" /\ e.deployment = "none"
          BY DEF RoutingInv, ExecutionsOK, ExecutionOK
        <5> QED BY <2>3, <2>4, <5>2, <5>3, RoutingAssumption DEF Needs
      <4>2. [definition |-> e.definition, deployment |-> e.deployment] \in more
        BY <3>3, <4>1 DEF Dependency
      <4> HIDE DEF more
      <4> QED BY <2>3, <4>2 DEF Seen
    <3> QED BY <3>2, <3>3
  <2>5. Describing(b) BY <1>2, <2>3, <2>4 DEF Describing
  <2> QED BY <1>1, <2>2, <2>5, AssessmentSteps
<1> QED BY <1>3, <1>4 DEF DescribeOpen

(* An assessment answers: what it allows to retire is needed by nothing it *)
(* could see.                                                              *)
LEMMA AssessmentEnds ==
  ASSUME RoutingInv, Assess
  PROVE  RoutingInv'
<1>1. /\ assessment.pc = "listing" /\ assessment.page = {} /\ assessment.due = {}
      /\ assessment' = Assessed /\ UNCHANGED executions
  BY DEF Assess, Listing
<1>2. Describing(assessment)
  BY <1>1 DEF RoutingInv, NoAssessment, Assessed
<1>3. CASE Blockers(assessment) = {}
  <2> DEFINE s == assessment.subject
  <2>1. /\ retired' = retired \cup {s}
        /\ knownThen' = [knownThen EXCEPT ![s] = assessment.known]
    BY <1>3 DEF Assess
  <2>2. ~\E f \in assessment.found : Needs(f, s)
    BY <1>3 DEF Blockers
  <2>3. \A e \in executions : e.open /\ Needs(e, s) => e.id \notin assessment.known
    <3> SUFFICES ASSUME NEW e \in executions, e.open, Needs(e, s), e.id \in assessment.known
                 PROVE  FALSE
      OBVIOUS
    <3>1. Seen(e, assessment) BY <1>2 DEF Describing
    <3>2. PICK f \in assessment.found : f.definition = e.definition /\ f.deployment = e.deployment
      BY <1>1, <3>1 DEF Seen
    <3>3. Needs(f, s) BY <3>2 DEF Needs
    <3> QED BY <2>2, <3>3
  <2>4. s \in Subjects /\ assessment.known \subseteq 1..Cardinality(executions)
    BY <1>2 DEF Describing
  <2>5. /\ knownThen'[s] = assessment.known
        /\ \A t \in Subjects : t # s => knownThen'[t] = knownThen[t]
        /\ knownThen' = [t \in Subjects |-> knownThen'[t]]
    BY <2>1, <2>4 DEF RoutingInv, RetiredOK
  <2>6. RetirementStrandsOnlyLateStarts'
    <3> SUFFICES ASSUME NEW t \in retired', NEW e \in executions, e.open, Needs(e, t)
                 PROVE  e.id \notin knownThen'[t]
      BY <1>1 DEF RetirementStrandsOnlyLateStarts, Needs
    <3>1. CASE t = s BY <2>3, <2>5, <3>1
    <3>2. CASE t # s
      BY <2>1, <2>5, <3>2 DEF RoutingInv, RetiredOK, RetirementStrandsOnlyLateStarts
    <3> QED BY <3>1, <3>2
  <2>7. RetiredOK'
    BY <1>1, <2>1, <2>4, <2>5, <2>6 DEF RoutingInv, RetiredOK
  <2>8. ExecutionsOK' BY <1>1 DEF RoutingInv, ExecutionsOK
  <2> QED BY <1>1, <2>7, <2>8 DEF RoutingInv, Assessed
<1>4. CASE Blockers(assessment) # {}
  <2>1. UNCHANGED <<retired, knownThen>> BY <1>4 DEF Assess
  <2> QED BY <1>1, <2>1, AssessmentSteps
<1> QED BY <1>3, <1>4

(* The invariant is about the executions, the assessment and what was      *)
(* retired.                                                                *)
LEMMA RoutingRests ==
  ASSUME RoutingInv, UNCHANGED <<executions, assessment, retired, knownThen>>
  PROVE  RoutingInv'
  BY AssessmentSteps DEF RoutingInv

(* Every step of routing keeps its invariant. *)
LEMMA RoutingKeepsInv ==
  ASSUME RoutingInv, RoutingNext PROVE RoutingInv'
<1>1. ASSUME NEW d \in Deployments, RegisterRoute(d) PROVE RoutingInv'
  BY <1>1, RoutingRests DEF RegisterRoute
<1>2. ASSUME NEW h \in Hosts, NEW d \in Definitions, BeginStart(h, d) PROVE RoutingInv'
  BY <1>2, RoutingRests DEF BeginStart
<1>3. ASSUME NEW h \in Hosts, StartPinned(h) PROVE RoutingInv'
  <2>1. UNCHANGED <<assessment, retired, knownThen>> BY <1>3 DEF StartPinned
  <2>2. \/ UNCHANGED executions
        \/ executions' = Started(pin[h].definition, pin[h].deployment, "ours")
    BY <1>3 DEF StartPinned
  <2> QED BY <2>1, <2>2, StartsOne, RoutingRests
<1>4. CASE OthersStart
  BY <1>4, StartsOne DEF OthersStart
<1>5. ASSUME NEW e \in executions, Continue(e) \/ Close(e) PROVE RoutingInv'
  <2>1. /\ e = [id |-> e.id, run |-> e.run, definition |-> e.definition,
                deployment |-> e.deployment, memo |-> e.memo, open |-> e.open]
        /\ e.open = TRUE
    BY <1>5 DEF RoutingInv, ExecutionsOK, ExecutionOK, Continue, Close, Open
  <2>2. CASE Continue(e)
    <3>1. PICK f : f = [e EXCEPT !.run = e.run + 1] OBVIOUS
    <3>2. f = [id |-> e.id, run |-> f.run, definition |-> e.definition,
               deployment |-> e.deployment, memo |-> e.memo, open |-> f.open]
      BY <2>1, <3>1
    <3>3. executions' = (executions \ {e}) \cup {f} BY <2>2, <3>1 DEF Continue
    <3> QED BY <2>1, <2>2, <3>2, <3>3, ChangesOne DEF Continue
  <2>3. CASE Close(e)
    <3>1. PICK f : f = [e EXCEPT !.open = FALSE] OBVIOUS
    <3>2. f = [id |-> e.id, run |-> f.run, definition |-> e.definition,
               deployment |-> e.deployment, memo |-> e.memo, open |-> f.open]
      BY <2>1, <3>1
    <3>3. executions' = (executions \ {e}) \cup {f} BY <2>3, <3>1 DEF Close
    <3> QED BY <2>1, <2>3, <3>2, <3>3, ChangesOne DEF Close
  <2> QED BY <1>5, <2>2, <2>3
<1>6. CASE Assess BY <1>6, AssessmentEnds
<1>7. ASSUME NEW q \in Questions, BeginAssessment(q) PROVE RoutingInv'
  BY <1>7, AssessmentBegins
<1>8. ASSUME NEW listed, DescribeOpen(listed) PROVE RoutingInv'
  BY <1>8, DescriptionReads
<1>9. ASSUME NEW page, ListOpen(page) PROVE RoutingInv'
  BY <1>9, ListingReads
<1> QED BY <1>1, <1>2, <1>3, <1>4, <1>5, <1>6, <1>7, <1>8, <1>9 DEF RoutingNext

-----------------------------------------------------------------------------
(* Objects: the mapping was accepted. *)

(* Of two prefixes of one key the shorter is a prefix of the longer. *)
LEMMA PrefixesOverlap ==
  ASSUME NEW S, NEW key \in Seq(S), NEW p \in Seq(S), NEW q \in Seq(S),
         StartsWith(key, p), StartsWith(key, q)
  PROVE  StartsWith(p, q) \/ StartsWith(q, p)
<1>1. ASSUME NEW a \in Seq(S), NEW b \in Seq(S), StartsWith(key, a), StartsWith(key, b),
             Len(a) <= Len(b)
      PROVE  StartsWith(b, a)
  <2>1. Len(a) \in Nat /\ Len(b) \in Nat /\ Len(key) \in Nat OBVIOUS
  <2>2. \A i \in 1..Len(a) : a[i] = key[i]
    BY <1>1, <2>1 DEF StartsWith
  <2>3. \A i \in 1..Len(b) : b[i] = key[i]
    BY <1>1, <2>1 DEF StartsWith
  <2>4. \A i \in 1..Len(a) : SubSeq(b, 1, Len(a))[i] = b[i]
    BY <1>1, <2>1
  <2>5. SubSeq(b, 1, Len(a)) \in Seq(S) /\ Len(SubSeq(b, 1, Len(a))) = Len(a)
    BY <1>1, <2>1
  <2>6. SubSeq(b, 1, Len(a)) = a
    BY <1>1, <2>1, <2>2, <2>3, <2>4, <2>5
  <2> QED BY <1>1, <2>6 DEF StartsWith
<1>2. Len(p) \in Nat /\ Len(q) \in Nat OBVIOUS
<1> QED BY <1>1, <1>2

(* Of two suffixes of one key the shorter is a suffix of the longer. *)
LEMMA SuffixesOverlap ==
  ASSUME NEW S, NEW key \in Seq(S), NEW p \in Seq(S), NEW q \in Seq(S),
         EndsWith(key, p), EndsWith(key, q)
  PROVE  EndsWith(p, q) \/ EndsWith(q, p)
<1>1. ASSUME NEW a \in Seq(S), NEW b \in Seq(S), EndsWith(key, a), EndsWith(key, b),
             Len(a) <= Len(b)
      PROVE  EndsWith(b, a)
  <2>1. Len(a) \in Nat /\ Len(b) \in Nat /\ Len(key) \in Nat /\ Len(b) <= Len(key)
    BY <1>1 DEF EndsWith
  <2>0. ASSUME NEW c \in Seq(S), EndsWith(key, c), NEW i \in 1..Len(c)
        PROVE  c[i] = key[i + Len(key) - Len(c)]
    <3>1. Len(c) \in Nat /\ Len(c) <= Len(key) BY <2>0 DEF EndsWith
    <3>2. PICK m \in Nat : m = Len(key) - Len(c)
      <4>1. Len(key) - Len(c) \in Nat BY <2>1, <3>1
      <4> QED BY <4>1
    <3>3. c = SubSeq(key, m + 1, Len(key)) BY <2>0, <3>2 DEF EndsWith
    <3>4. SubSeq(key, m + 1, Len(key))[i] = key[i + m] BY <2>0, <2>1, <3>1, <3>2
    <3>5. i + Len(key) - Len(c) = i + m BY <2>1, <3>1, <3>2
    <3> QED BY <3>3, <3>4, <3>5
  <2>2. \A i \in 1..Len(a) : a[i] = key[i + Len(key) - Len(a)]
    BY <1>1, <2>0
  <2>3. \A i \in 1..Len(b) : b[i] = key[i + Len(key) - Len(b)]
    BY <1>1, <2>0
  <2> DEFINE s == SubSeq(b, Len(b) - Len(a) + 1, Len(b))
  <2>4. \A i \in 1..Len(a) : s[i] = b[i + Len(b) - Len(a)]
    BY <1>1, <2>1
  <2>5. s \in Seq(S) /\ Len(s) = Len(a)
    BY <1>1, <2>1
  <2>6. \A i \in 1..Len(a) : s[i] = a[i]
    <3> SUFFICES ASSUME NEW i \in 1..Len(a) PROVE s[i] = a[i] OBVIOUS
    <3>1. i + Len(b) - Len(a) \in 1..Len(b) BY <1>1, <2>1
    <3>2. b[i + Len(b) - Len(a)] = key[(i + Len(b) - Len(a)) + Len(key) - Len(b)]
      BY <2>3, <3>1
    <3>3. (i + Len(b) - Len(a)) + Len(key) - Len(b) = i + Len(key) - Len(a) BY <2>1
    <3> HIDE DEF s
    <3> QED BY <2>2, <2>4, <3>2, <3>3
  <2>7. s = a
    <3> HIDE DEF s
    <3>1. a = [i \in 1..Len(a) |-> a[i]] /\ s = [i \in 1..Len(s) |-> s[i]] BY <1>1, <2>5
    <3> QED BY <2>5, <2>6, <3>1
  <2> QED BY <1>1, <2>7 DEF EndsWith
<1>2. Len(p) \in Nat /\ Len(q) \in Nat OBVIOUS
<1> QED BY <1>1, <1>2

(* Two filters that match one object overlap. *)
LEMMA BothMatch ==
  ASSUME NEW S, NEW key \in Seq(S), NEW bucket, NEW f, NEW g,
         f.prefix \in Seq(S), f.suffix \in Seq(S), g.prefix \in Seq(S), g.suffix \in Seq(S),
         Matches(f, bucket, key), Matches(g, bucket, key)
  PROVE  FiltersOverlap(f, g)
  BY PrefixesOverlap, SuffixesOverlap DEF Matches, FiltersOverlap

ObjectsInv ==
  /\ mapping \in Mappings /\ MappingAccepted(mapping)
  /\ \A o \in objects : /\ o.bucket \in Buckets /\ o.key \in ObjectKeys
                        /\ o.by = "workflow"
                             => \E d \in mapping.destinations : Matches(d, o.bucket, o.key)
  /\ \A i \in startedBy : Matches(mapping.source, i[1], i[2])

(* The mapper accepted the mapping a behaviour begins with. *)
LEMMA ObjectsStart ==
  ASSUME NEW m \in Mappings, MappingAccepted(m), ObjectsAre(m) PROVE ObjectsInv
  BY DEF ObjectsAre, ObjectsInv

(* The mapping stays the accepted one. *)
LEMMA ObjectsKeepInv == ObjectsInv /\ (ObjectsNext \/ UNCHANGED objectVars) => ObjectsInv'
<1> SUFFICES ASSUME ObjectsInv, ObjectsNext \/ UNCHANGED objectVars PROVE ObjectsInv' OBVIOUS
<1>1. ASSUME NEW b \in Buckets, NEW k \in ObjectKeys, NEW by, WriteObject(b, k, by),
             by = "workflow" => \E d \in mapping.destinations : Matches(d, b, k)
      PROVE  ObjectsInv'
  BY <1>1 DEF WriteObject, ObjectsInv, MappingAccepted
<1>2. ASSUME NEW o \in objects, DeliverEvent(o) PROVE ObjectsInv'
  <2>1. EventIdentity(o)[1] = o.bucket /\ EventIdentity(o)[2] = o.key BY DEF EventIdentity
  <2> QED BY <1>2, <2>1 DEF DeliverEvent, ObjectsInv, MappingAccepted
<1>3. CASE UNCHANGED objectVars
  BY <1>3 DEF objectVars, ObjectsInv, MappingAccepted
<1> QED BY <1>1, <1>2, <1>3 DEF ObjectsNext, OthersWrite, WorkflowWrites

(* A workflow is not started by an object it writes: the filters would     *)
(* overlap.                                                                *)
LEMMA ObjectsSafe ==
  ASSUME ObjectsInv PROVE OwnWritesStartNothing
<1> SUFFICES ASSUME NEW o \in objects, o.by = "workflow", EventIdentity(o) \in startedBy
             PROVE  FALSE
  BY DEF OwnWritesStartNothing
<1>1. Matches(mapping.source, o.bucket, o.key)
  <2>1. EventIdentity(o)[1] = o.bucket /\ EventIdentity(o)[2] = o.key BY DEF EventIdentity
  <2> QED BY <2>1 DEF ObjectsInv
<1>2. PICK d \in mapping.destinations : Matches(d, o.bucket, o.key)
  BY DEF ObjectsInv
<1>3. mapping.source \in KeyFilters /\ d \in KeyFilters
  BY <1>2 DEF ObjectsInv, Mappings
<1>4. o.key \in Seq(Letters) /\ o.bucket \in Buckets
  BY ObjectsAssumption DEF ObjectsInv
<1>5. /\ mapping.source.prefix \in Seq(Letters) /\ mapping.source.suffix \in Seq(Letters)
      /\ d.prefix \in Seq(Letters) /\ d.suffix \in Seq(Letters)
  BY <1>3, ObjectsAssumption
<1>6. FiltersOverlap(mapping.source, d)
  BY <1>1, <1>2, <1>4, <1>5, BothMatch
<1> QED BY <1>2, <1>6 DEF ObjectsInv, MappingAccepted

-----------------------------------------------------------------------------
(* Schedules: as long as a reconciler is alone and nothing failed, every   *)
(* schedule is as it was planned or still has an item of the plan.         *)

(* A schedule that the program may change, and keeps so. *)
Mine(s) == ValidManaged(Observed(s)) /\ Owns(s.scope)

SchedulesStored ==
  /\ schedules = [id \in Ids |-> schedules[id]]
  /\ \A id \in Ids : Present(id) => IsSchedule(schedules[id]) /\ schedules[id].digest \in snapshots

DeclaredOK == \A r \in Releases, n \in Names : IsDeclaration(declared[r][n])

(* What a reconciler knows is of this scope, or corrupt. *)
ObservedOK(o) ==
  /\ DOMAIN o \subseteq Ids /\ o = [id \in DOMAIN o |-> o[id]]
  /\ \A id \in DOMAIN o : Owns(o[id].scope) \/ o[id].corrupt = TRUE

(* Nobody wrote since it listed the schedules: they are as they were. *)
AsListed(q) ==
  /\ \A id \in DOMAIN q.observed : Present(id) /\ q.observed[id] = Observed(schedules[id])
  /\ \A id \in q.todo : Present(id)
  /\ \A id \in Ids \ (DOMAIN q.observed \cup q.todo) :
       Present(id) => ~Owns(schedules[id].scope)

ObservingOK(q) ==
  /\ q = [phase |-> "observing", decision |-> q.decision, todo |-> q.todo,
          observed |-> q.observed, alone |-> q.alone]
  /\ q.todo \subseteq Ids /\ ObservedOK(q.observed) /\ q.alone \in BOOLEAN
  /\ \A id \in q.todo : Present(id) => Owns(schedules[id].scope)
  /\ q.alone = TRUE => AsListed(q)

Kinds == {"create", "update", "delete"}
KindOf(r, q, id) == Change(DesiredOf(r), q.observed, q.decision, id)
AsWanted(r, id) ==
  /\ id \in DOMAIN DesiredOf(r) /\ Present(id)
  /\ WantedChange(DesiredOf(r)[id], Observed(schedules[id])) = None

(* What no item of the plan is left for is as it was planned. *)
Settled(r, q, id) ==
  /\ KindOf(r, q, id) = None =>
       IF id \in DOMAIN q.observed THEN Present(id) /\ q.observed[id] = Observed(schedules[id])
       ELSE Present(id) => ~Owns(schedules[id].scope)
  /\ KindOf(r, q, id) \in {"create", "update"} => AsWanted(r, id)
  /\ KindOf(r, q, id) = "delete" => ~Present(id)

StillPlanned(q, id) == \E i \in 1..Len(q.todo) : q.todo[i].id = id

PlanShape(q) ==
  /\ q = [phase |-> q.phase, observed |-> q.observed, failed |-> q.failed, seen |-> q.seen,
          decision |-> q.decision, alone |-> q.alone, todo |-> q.todo]
  /\ q.phase \in {"storing", "applying", "described"}
  /\ q.alone \in BOOLEAN /\ q.failed \in BOOLEAN
  /\ q.todo \in Seq([kind : Kinds, id : Ids])
  /\ ObservedOK(q.observed)

(* What was described is ours, and an update found another digest. *)
MayWrite(r, q) ==
  q.phase = "described" =>
    /\ q.todo # <<>> /\ q.todo[1].kind \in {"update", "delete"}
    /\ Present(q.todo[1].id) => Mine(schedules[q.todo[1].id])
    /\ q.todo[1].kind = "update" => q.seen # DesiredOf(r)[q.todo[1].id].digest

PlanOK(r, q) ==
  /\ PlanShape(q)
  /\ \A i \in 1..Len(q.todo) : q.todo[i].kind = KindOf(r, q, q.todo[i].id)
  /\ \A id \in Ids : KindOf(r, q, id) # "conflict"
  /\ q.phase # "storing" => \A id \in DOMAIN DesiredOf(r) : DesiredOf(r)[id].digest \in snapshots
  /\ MayWrite(r, q)
  /\ q.alone = TRUE /\ q.failed = FALSE
       => \A id \in Ids : StillPlanned(q, id) \/ Settled(r, q, id)

Ending == [phase |-> "failed"]
RecOK(r, q) == q = Idle \/ q = Ending \/ ObservingOK(q) \/ PlanOK(r, q)

RecsOK ==
  /\ rec = [r \in Releases |-> rec[r]]
  /\ \A r \in Releases : \A q : q = rec[r] => RecOK(r, q)

OpOK(q) ==
  \/ q = Idle \/ q = [phase |-> "done", answer |-> q.answer]
  \/ /\ q = [phase |-> q.phase, kind |-> q.kind, id |-> q.id, arg |-> q.arg, digest |-> q.digest]
     /\ q.phase \in {"mutate", "reread"}
     /\ q.id \in Ids /\ (Present(q.id) => Mine(schedules[q.id]))
     /\ q.kind = "run" => q.digest \in snapshots /\ q.digest # AnyDigest
     /\ q.kind = "backfill" => q.arg \in Nat /\ ~BackfillRefused(q.arg)

OpsOK ==
  /\ op = [o \in Operators |-> op[o]]
  /\ \A o \in Operators : \A q : q = op[o] => OpOK(q)

OccurrencesOK ==
  /\ occurrence = [t \in Ticks \cup RunNowKeys |-> occurrence[t]]
  /\ \A t \in Ticks \cup RunNowKeys :
       \/ occurrence[t] = Idle
       \/ /\ occurrence[t] = [phase |-> occurrence[t].phase, attempt |-> occurrence[t].attempt,
                              digest |-> occurrence[t].digest]
          /\ occurrence[t].phase # "unavailable"
          /\ occurrence[t].digest \in snapshots /\ occurrence[t].digest # AnyDigest

RunsOK ==
  \A t \in Ticks \cup RunNowKeys, a \in 0..DispatchAttempts : a # 0 => runs[<<t, a>>] = 0

FilledOK == filled \in Nat /\ filled <= MaxActions

SchedulesInv == SchedulesStored /\ DeclaredOK /\ RecsOK /\ OpsOK /\ OccurrencesOK /\ RunsOK /\ FilledOK

(* A schedule is not the absent one. *)
LEMMA Kinded == /\ \A s : IsSchedule(s) => s # Absent
                /\ \A id \in Ids : ~Present(id) <=> schedules[id] = Absent
<1>1. ASSUME NEW s, IsSchedule(s) PROVE s # Absent
  <2>1. "name" \in DOMAIN s BY <1>1 DEF IsSchedule
  <2>2. "name" \notin DOMAIN Absent BY DEF Absent
  <2> QED BY <2>1, <2>2
<1> QED BY <1>1 DEF Present

(* Every scenario a behaviour begins with has the invariant. *)
LEMMA SchedulesBegin ==
  ASSUME NEW c \in ScheduleScenarios, SchedulesAre(c) PROVE SchedulesInv
<1> USE DEF SchedulesAre
<1>1. SchedulesStored
  BY ScheduleAssumption DEF SchedulesStored, Present
<1>2. DeclaredOK BY ScheduleAssumption DEF DeclaredOK
<1>3. RecsOK BY DEF RecsOK, RecOK
<1>4. OpsOK BY DEF OpsOK, OpOK
<1>5. OccurrencesOK BY DEF OccurrencesOK
<1>6. RunsOK
  BY DEF RunsOK
<1>7. FilledOK BY ScheduleAssumption DEF FilledOK
<1> QED BY <1>1, <1>2, <1>3, <1>4, <1>5, <1>6, <1>7 DEF SchedulesInv

(* What a step does to the schedules: it writes ones of ours, or none. *)
Evolves ==
  /\ UNCHANGED <<isLocal, declared>> /\ snapshots \subseteq snapshots'
  /\ \A id \in Ids : Present(id)' => \/ Mine(schedules'[id])
                                     \/ Present(id) /\ schedules'[id] = schedules[id]

(* What is desired follows from the declarations. *)
LEMMA SameDesired ==
  ASSUME UNCHANGED declared, NEW r PROVE DesiredOf(r)' = DesiredOf(r)
  BY DEF DesiredOf

(* What a plan does with a schedule follows from the declarations and from *)
(* the plan.                                                               *)
LEMMA SameKind ==
  ASSUME UNCHANGED declared, NEW r, NEW q, NEW id PROVE KindOf(r, q, id)' = KindOf(r, q, id)
  BY SameDesired DEF KindOf

(* Whose a schedule is does not change. *)
LEMMA SameMine == ASSUME UNCHANGED isLocal, NEW s PROVE Mine(s)' = Mine(s)
  BY DEF Mine, Owns

(* A schedule the program may change stays one, or goes. *)
LEMMA MineStays ==
  ASSUME Evolves, NEW id \in Ids, Present(id) => Mine(schedules[id])
  PROVE  Present(id)' => Mine(schedules[id])'
<1> SUFFICES ASSUME Present(id)' PROVE Mine(schedules[id])' OBVIOUS
<1>1. Mine(schedules'[id]) BY DEF Evolves
<1>2. UNCHANGED isLocal BY DEF Evolves
<1> QED BY <1>1, <1>2 DEF Mine, Owns

(* A schedule of the scope stays of it, or goes. *)
LEMMA OwnedStays ==
  ASSUME Evolves, NEW id \in Ids, Present(id) => Owns(schedules[id].scope)
  PROVE  Present(id)' => Owns(schedules[id].scope)'
<1> SUFFICES ASSUME Present(id)' PROVE Owns(schedules[id].scope)' OBVIOUS
<1>1. Mine(schedules'[id]) \/ (Present(id) /\ schedules'[id] = schedules[id]) BY DEF Evolves
<1>2. Owns(schedules'[id].scope) BY <1>1 DEF Mine
<1>3. UNCHANGED isLocal BY DEF Evolves
<1> QED BY <1>2, <1>3 DEF Owns

(* What was observed stays of the scope. *)
LEMMA ObservedStays ==
  ASSUME Evolves, NEW o, ObservedOK(o) PROVE ObservedOK(o)'
  BY DEF Evolves, ObservedOK, Owns

(* What is settled stays settled while its schedule does not change. *)
LEMMA SettledStays ==
  ASSUME Evolves, NEW r, NEW q, NEW id \in Ids, schedules'[id] = schedules[id], Settled(r, q, id)
  PROVE  Settled(r, q, id)'
<1>1. KindOf(r, q, id)' = KindOf(r, q, id) BY SameKind DEF Evolves
<1>2. DesiredOf(r)' = DesiredOf(r) BY SameDesired DEF Evolves
<1> QED BY <1>1, <1>2 DEF Settled, AsWanted, Evolves, Present, Owns

(* The first item of a plan is one of its items. *)
LEMMA FirstItem ==
  ASSUME NEW S, NEW items \in Seq(S), items # <<>>
  PROVE  items[1] \in S /\ 1 \in 1..Len(items)
  OBVIOUS

(* The first item of a plan names a schedule. *)
LEMMA FirstItemId ==
  ASSUME NEW items \in Seq([kind : Kinds, id : Ids]), items # <<>>
  PROVE  items[1].id \in Ids
<1>1. items[1] \in [kind : Kinds, id : Ids] BY FirstItem
<1> QED BY <1>1

(* A reconciler that does not step, while the schedules stay or it is no   *)
(* longer alone.                                                           *)
LEMMA RecStays ==
  ASSUME Evolves, NEW r, NEW q, RecOK(r, q),
         \/ UNCHANGED schedules
         \/ q.phase \notin {"observing", "storing", "applying", "described"}
         \/ q.alone = FALSE
  PROVE  RecOK(r, q)'
<1>1. CASE q = Idle \/ q = Ending BY <1>1 DEF RecOK
<1>2. CASE ObservingOK(q)
  <2>1. q.phase = "observing" BY <1>2 DEF ObservingOK
  <2>2. ObservedOK(q.observed)' BY <1>2, ObservedStays DEF ObservingOK
  <2>3. \A id \in q.todo : Present(id)' => Owns(schedules[id].scope)'
    BY <1>2, OwnedStays DEF ObservingOK
  <2>4. q.alone = TRUE => AsListed(q)'
    BY <1>2, <2>1 DEF ObservingOK, AsListed, Present, Owns, Evolves
  <2> QED BY <1>2, <2>2, <2>3, <2>4 DEF ObservingOK, RecOK
<1>3. CASE PlanOK(r, q)
  <2>1. PlanShape(q)' BY <1>3, ObservedStays DEF PlanOK, MayWrite, PlanShape
  <2>2. \A id : KindOf(r, q, id)' = KindOf(r, q, id) BY SameKind DEF Evolves
  <2>3. DesiredOf(r)' = DesiredOf(r) BY SameDesired DEF Evolves
  <2>4. q.phase = "described" => (Present(q.todo[1].id) => Mine(schedules[q.todo[1].id]))'
    <3> SUFFICES ASSUME q.phase = "described"
                 PROVE  (Present(q.todo[1].id) => Mine(schedules[q.todo[1].id]))'
      OBVIOUS
    <3>1. q.todo \in Seq([kind : Kinds, id : Ids]) /\ q.todo # <<>>
      BY <1>3 DEF PlanOK, MayWrite, PlanShape
    <3>2. q.todo[1].id \in Ids BY <3>1, FirstItemId
    <3> QED BY <1>3, <3>2, MineStays DEF PlanOK, MayWrite
  <2>5. q.alone = TRUE /\ q.failed = FALSE => \A id \in Ids : StillPlanned(q, id)' \/ Settled(r, q, id)'
    <3>1. q.phase \in {"storing", "applying", "described"} BY <1>3 DEF PlanOK, MayWrite, PlanShape
    <3> QED BY <1>3, <3>1, SettledStays DEF PlanOK, MayWrite, StillPlanned
  <2>6. q.phase # "storing" => \A id \in DOMAIN DesiredOf(r) : DesiredOf(r)[id].digest \in snapshots'
    BY <1>3 DEF PlanOK, MayWrite, Evolves
  <2> QED BY <1>3, <2>1, <2>2, <2>3, <2>4, <2>5, <2>6 DEF PlanOK, MayWrite, RecOK
<1> QED BY <1>1, <1>2, <1>3 DEF RecOK

(* The fields of a reconciler that is no longer alone. *)
LEMMA AloneFields ==
  /\ \A q, b : /\ q = [phase |-> "observing", decision |-> q.decision, todo |-> q.todo,
                       observed |-> q.observed, alone |-> q.alone]
               /\ b = [q EXCEPT !.alone = FALSE]
       => b = [phase |-> "observing", decision |-> q.decision, todo |-> q.todo,
               observed |-> q.observed, alone |-> FALSE]
  /\ \A q, b : /\ q = [phase |-> q.phase, observed |-> q.observed, failed |-> q.failed,
                       seen |-> q.seen, decision |-> q.decision, alone |-> q.alone, todo |-> q.todo]
               /\ b = [q EXCEPT !.alone = FALSE]
       => b = [phase |-> q.phase, observed |-> q.observed, failed |-> q.failed, seen |-> q.seen,
               decision |-> q.decision, alone |-> FALSE, todo |-> q.todo]
  OBVIOUS

(* A reconciler that is no longer alone has less to rely on. *)
LEMMA NoLongerAlone ==
  ASSUME NEW r, NEW q, RecOK(r, q), q.phase \in {"observing", "storing", "applying", "described"},
         NEW b, b = [q EXCEPT !.alone = FALSE]
  PROVE  RecOK(r, b) /\ b.alone = FALSE /\ b.phase = q.phase
<1>1. CASE ObservingOK(q)
  <2>1. b = [phase |-> "observing", decision |-> q.decision, todo |-> q.todo,
             observed |-> q.observed, alone |-> FALSE]
    BY <1>1, AloneFields DEF ObservingOK
  <2> QED BY <1>1, <2>1 DEF ObservingOK, RecOK
<1>2. CASE PlanOK(r, q)
  <2>1. b = [phase |-> q.phase, observed |-> q.observed, failed |-> q.failed, seen |-> q.seen,
             decision |-> q.decision, alone |-> FALSE, todo |-> q.todo]
    BY <1>2, AloneFields DEF PlanOK, MayWrite, PlanShape
  <2>2. /\ b.phase = q.phase /\ b.observed = q.observed /\ b.seen = q.seen /\ b.todo = q.todo
        /\ b.decision = q.decision /\ b.alone = FALSE /\ b.failed = q.failed
        /\ b = [phase |-> b.phase, observed |-> b.observed, failed |-> b.failed, seen |-> b.seen,
             decision |-> b.decision, alone |-> b.alone, todo |-> b.todo]
    BY <2>1
  <2>3. PlanShape(b) BY <1>2, <2>2 DEF PlanOK, MayWrite, PlanShape
  <2>4. \A id : KindOf(r, b, id) = KindOf(r, q, id) BY <2>2 DEF KindOf
  <2>5. \A i \in 1..Len(b.todo) : b.todo[i].kind = KindOf(r, b, b.todo[i].id)
    <3> SUFFICES ASSUME NEW i \in 1..Len(q.todo)
                 PROVE  q.todo[i].kind = KindOf(r, b, q.todo[i].id)
      BY <2>2
    <3>1. q.todo[i].kind = KindOf(r, q, q.todo[i].id) BY <1>2 DEF PlanOK, MayWrite
    <3> QED BY <2>4, <3>1
  <2>6. \A id \in Ids : KindOf(r, b, id) # "conflict"
    BY <1>2, <2>4 DEF PlanOK, MayWrite
  <2>7. b.phase # "storing" => \A id \in DOMAIN DesiredOf(r) : DesiredOf(r)[id].digest \in snapshots
    BY <1>2, <2>2 DEF PlanOK, MayWrite
  <2>8. b.phase = "described" =>
         /\ b.todo # <<>> /\ b.todo[1].kind \in {"update", "delete"}
         /\ Present(b.todo[1].id) => Mine(schedules[b.todo[1].id])
         /\ b.todo[1].kind = "update" => b.seen # DesiredOf(r)[b.todo[1].id].digest
    BY <1>2, <2>2 DEF PlanOK, MayWrite
  <2>9. PlanOK(r, b) BY <2>2, <2>3, <2>5, <2>6, <2>7, <2>8 DEF PlanOK, MayWrite
  <2> QED BY <2>2, <2>9 DEF RecOK
<1> QED BY <1>1, <1>2 DEF RecOK, Idle, Ending

(* The reconcilers other than x after a write, or without one. *)
LEMMA Disturbed ==
  ASSUME RecsOK, Evolves, NEW x, NEW r \in Releases, r # x
  PROVE  \A v : v = Disturb(x)[r] => RecOK(r, v)'
<1> SUFFICES ASSUME NEW v, v = Disturb(x)[r] PROVE RecOK(r, v)' OBVIOUS
<1>1. RecOK(r, rec[r]) BY DEF RecsOK
<1>2. CASE rec[r].phase \in {"observing", "storing", "applying", "described"}
  <2>1. v = [rec[r] EXCEPT !.alone = FALSE] BY <1>2 DEF Disturb
  <2> QED BY <1>1, <1>2, <2>1, NoLongerAlone, RecStays
<1>3. CASE rec[r].phase \notin {"observing", "storing", "applying", "described"}
  <2>1. v = rec[r] BY <1>3 DEF Disturb
  <2> QED BY <1>1, <1>3, <2>1, RecStays
<1> QED BY <1>2, <1>3

(* A step of the reconciler r, by itself, that leaves the others alone. *)
LEMMA OneReconciles ==
  ASSUME RecsOK, Evolves, UNCHANGED schedules, NEW r \in Releases, NEW v, SetRec(r, v), RecOK(r, v)'
  PROVE  RecsOK'
<1>1. rec' = [p \in Releases |-> IF p = r THEN v ELSE rec[p]] BY DEF RecsOK, SetRec
<1>2. ASSUME NEW p \in Releases, p # r, NEW w, w = rec[p] PROVE RecOK(p, w)'
  BY <1>2, RecStays DEF RecsOK
<1>3. \A p \in Releases : \A w : w = rec'[p] => RecOK(p, w)'
  BY <1>1, <1>2
<1> QED BY <1>1, <1>3 DEF RecsOK

(* A set that maps into a finite set one to one is finite. *)
LEMMA FiniteBy ==
  ASSUME NEW S, NEW T, IsFiniteSet(T), NEW f, f \in [S -> T], \A x, y \in S : f[x] = f[y] => x = y
  PROVE  IsFiniteSet(S)
<1>1. f \in Injection(S, T) BY DEF Injection, IsInjective
<1> QED BY <1>1, FS_Injection

(* There are finitely many schedule ids. *)
LEMMA IdsAreFinite == IsFiniteSet(Ids)
<1> DEFINE A == {ScopedId(n) : n \in Names}
           B == {UnscopedId(n) : n \in Names}
<1>0. IsFiniteSet(Names) BY ScheduleAssumption
<1>1. IsFiniteSet(A)
  <2>1. [x \in A |-> x[2]] \in [A -> Names] BY DEF ScopedId
  <2>2. \A x, y \in A : [z \in A |-> z[2]][x] = [z \in A |-> z[2]][y] => x = y BY DEF ScopedId
  <2> HIDE DEF A
  <2> QED BY <1>0, <2>1, <2>2, FiniteBy
<1>2. IsFiniteSet(B)
  <2>1. [x \in B |-> x[2]] \in [B -> Names] BY DEF UnscopedId
  <2>2. \A x, y \in B : [z \in B |-> z[2]][x] = [z \in B |-> z[2]][y] => x = y BY DEF UnscopedId
  <2> HIDE DEF B
  <2> QED BY <1>0, <2>1, <2>2, FiniteBy
<1>3. IsFiniteSet({Stray}) BY FS_Singleton
<1>4. IsFiniteSet({Stray} \cup A) BY <1>1, <1>3, FS_Union
<1>5. IsFiniteSet(({Stray} \cup A) \cup B) BY <1>2, <1>4, FS_Union
<1> QED BY <1>5 DEF Ids

(* The sequence of a finite set has its elements. *)
LEMMA SeqOfSet ==
  ASSUME NEW S, IsFiniteSet(S)
  PROVE  /\ SetToSeq(S) \in Seq(S)
         /\ \A x \in S : \E i \in 1..Len(SetToSeq(S)) : SetToSeq(S)[i] = x
<1> DEFINE n == Cardinality(S)
<1>1. n \in Nat BY FS_CardinalityType
<1>2. \E f \in [1..n -> S] : IsInjective(f)
  <2>1. PICK m \in Nat : ExistsBijection(1..m, S) BY FS_NatBijection
  <2>2. n = m BY <2>1, FS_CountingElements
  <2>3. PICK f : f \in Bijection(1..n, S) BY <2>1, <2>2 DEF ExistsBijection
  <2> QED BY <2>3 DEF Bijection, Injection
<1>3. SetToSeq(S) \in [1..n -> S] /\ IsInjective(SetToSeq(S))
  BY <1>2 DEF SetToSeq
<1>4. SetToSeq(S) \in Injection(1..n, S) BY <1>3 DEF Injection
<1>5. IsFiniteSet(1..n) /\ Cardinality(1..n) = n BY <1>1, FS_Interval
<1>6. SetToSeq(S) \in Surjection(1..n, S) BY <1>4, <1>5, FS_Injection
<1>7. SetToSeq(S) \in Seq(S) /\ Len(SetToSeq(S)) = n BY <1>1, <1>3
<1> QED BY <1>6, <1>7 DEF Surjection

Joined(S, t, x, y) ==
  /\ t \in Seq(S)
  /\ \A i \in 1..Len(t) : \/ \E j \in 1..Len(x) : t[i] = x[j]
                         \/ \E j \in 1..Len(y) : t[i] = y[j]
  /\ \A j \in 1..Len(x) : \E i \in 1..Len(t) : t[i] = x[j]
  /\ \A j \in 1..Len(y) : \E i \in 1..Len(t) : t[i] = y[j]

(* A concatenation has the items of both sequences. *)
LEMMA Concatenated ==
  ASSUME NEW S, NEW a \in Seq(S), NEW b \in Seq(S) PROVE Joined(S, a \o b, a, b)
<1>1. Len(a) \in Nat /\ Len(b) \in Nat /\ a \o b \in Seq(S) /\ Len(a \o b) = Len(a) + Len(b)
  OBVIOUS
<1>2. \A j \in 1..Len(a) : j \in 1..Len(a \o b) /\ (a \o b)[j] = a[j]
  BY <1>1
<1>3. \A j \in 1..Len(b) : j + Len(a) \in 1..Len(a \o b) /\ (a \o b)[j + Len(a)] = b[j]
  BY <1>1
<1>4. ASSUME NEW i \in 1..Len(a \o b)
      PROVE  \/ \E j \in 1..Len(a) : (a \o b)[i] = a[j]
             \/ \E j \in 1..Len(b) : (a \o b)[i] = b[j]
  <2>1. CASE i <= Len(a)
    <3>1. i \in 1..Len(a) BY <1>1, <2>1
    <3> QED BY <1>2, <3>1
  <2>2. CASE i > Len(a)
    <3>1. i - Len(a) \in 1..Len(b) BY <1>1, <2>2
    <3>2. (i - Len(a)) + Len(a) = i BY <1>1
    <3> QED BY <1>3, <3>1, <3>2
  <2> QED BY <1>1, <2>1, <2>2
<1> QED BY <1>1, <1>2, <1>3, <1>4 DEF Joined

(* One item for every change, of its kind. *)
IsPlan(desired, observed, decision, todo) ==
  /\ todo \in Seq([kind : Kinds, id : Ids])
  /\ \A i \in 1..Len(todo) : todo[i].kind = Change(desired, observed, decision, todo[i].id)
  /\ \A id \in Ids : Change(desired, observed, decision, id) \in Kinds
       => \E i \in 1..Len(todo) : todo[i].id = id

(* A plan has an item for every schedule it changes, of the kind of that   *)
(* change.                                                                 *)
LEMMA ChangesPlanned ==
  ASSUME NEW desired, NEW observed, NEW decision,
         NEW todo, todo = PlannedChanges(desired, observed, decision)
  PROVE  IsPlan(desired, observed, decision, todo)
<1> DEFINE of(kind) == {id \in Ids : Change(desired, observed, decision, id) = kind}
           I(kind) == {[kind |-> kind, id |-> id] : id \in of(kind)}
           Good(x) == x.kind = Change(desired, observed, decision, x.id)
           items(kind) == SetToSeq(I(kind))
           S == [kind : Kinds, id : Ids]
<1>1. ASSUME NEW kind \in Kinds
      PROVE  /\ items(kind) \in Seq(S)
             /\ \A i \in 1..Len(items(kind)) : Good(items(kind)[i])
             /\ \A id \in of(kind) : \E i \in 1..Len(items(kind)) : items(kind)[i].id = id
  <2>1. IsFiniteSet(I(kind))
    <3>1. [x \in I(kind) |-> x.id] \in [I(kind) -> Ids] OBVIOUS
    <3>2. \A x, y \in I(kind) : [z \in I(kind) |-> z.id][x] = [z \in I(kind) |-> z.id][y] => x = y
      OBVIOUS
    <3> HIDE DEF I
    <3> QED BY <3>1, <3>2, IdsAreFinite, FiniteBy
  <2>2. I(kind) \subseteq S /\ \A x \in I(kind) : Good(x) BY <1>1
  <2>3. \A id \in of(kind) : \E x \in I(kind) : x.id = id
    <3> SUFFICES ASSUME NEW id \in of(kind) PROVE \E x \in I(kind) : x.id = id OBVIOUS
    <3>1. [kind |-> kind, id |-> id] \in I(kind) OBVIOUS
    <3> QED BY <3>1
  <2> HIDE DEF I, of, Good, S
  <2>4. items(kind) \in Seq(I(kind)) BY <2>1, SeqOfSet
  <2>5. \A x \in I(kind) : \E i \in 1..Len(items(kind)) : items(kind)[i] = x
    BY <2>1, SeqOfSet
  <2>6. \A i \in 1..Len(items(kind)) : items(kind)[i] \in I(kind) BY <2>4
  <2>7. items(kind) \in Seq(S) BY <2>2, <2>4
  <2> QED BY <2>2, <2>3, <2>5, <2>6, <2>7
<1> DEFINE a == items("create")
           b == items("update")
           c == items("delete")
<1>2. PlannedChanges(desired, observed, decision) = (a \o b) \o c
  BY DEF PlannedChanges
<1>3. "create" \in Kinds /\ "update" \in Kinds /\ "delete" \in Kinds BY DEF Kinds
<1>4. /\ a \in Seq(S) /\ b \in Seq(S) /\ c \in Seq(S)
      /\ \A i \in 1..Len(a) : Good(a[i])
      /\ \A i \in 1..Len(b) : Good(b[i])
      /\ \A i \in 1..Len(c) : Good(c[i])
      /\ \A id \in of("create") : \E i \in 1..Len(a) : a[i].id = id
      /\ \A id \in of("update") : \E i \in 1..Len(b) : b[i].id = id
      /\ \A id \in of("delete") : \E i \in 1..Len(c) : c[i].id = id
  <2> HIDE DEF of, items, Good, S
  <2> QED BY <1>1, <1>3
<1>5. \A id \in Ids : Change(desired, observed, decision, id) \in Kinds
        => id \in of("create") \cup of("update") \cup of("delete")
  BY DEF Kinds
<1> DEFINE T == (a \o b) \o c
<1> HIDE DEF of, items, Good, S, a, b, c
<1>6a. Joined(S, a \o b, a, b) BY <1>4, Concatenated
<1>6b. Joined(S, T, a \o b, c)
  <2>1. a \o b \in Seq(S) BY <1>6a DEF Joined
  <2>2. c \in Seq(S) BY <1>4
  <2> QED BY <2>1, <2>2, Concatenated
<1>7. \A i \in 1..Len(a \o b) : Good((a \o b)[i]) BY <1>4, <1>6a DEF Joined
<1>8. \A i \in 1..Len(T) : Good(T[i]) BY <1>4, <1>6b, <1>7 DEF Joined
<1>9. ASSUME NEW id \in of("create") \cup of("update")
      PROVE  \E i \in 1..Len(a \o b) : (a \o b)[i].id = id
  <2>1. CASE id \in of("create")
    <3>1. PICK j \in 1..Len(a) : a[j].id = id BY <1>4, <2>1
    <3>2. PICK i \in 1..Len(a \o b) : (a \o b)[i] = a[j] BY <1>6a DEF Joined
    <3> QED BY <3>1, <3>2
  <2>2. CASE id \in of("update")
    <3>1. PICK j \in 1..Len(b) : b[j].id = id BY <1>4, <2>2
    <3>2. PICK i \in 1..Len(a \o b) : (a \o b)[i] = b[j] BY <1>6a DEF Joined
    <3> QED BY <3>1, <3>2
  <2> QED BY <1>9, <2>1, <2>2
<1>10. ASSUME NEW id \in of("create") \cup of("update") \cup of("delete")
       PROVE  \E i \in 1..Len(T) : T[i].id = id
  <2>1. CASE id \in of("create") \cup of("update")
    <3>1. PICK j \in 1..Len(a \o b) : (a \o b)[j].id = id BY <1>9, <2>1
    <3>2. PICK i \in 1..Len(T) : T[i] = (a \o b)[j] BY <1>6b DEF Joined
    <3> QED BY <3>1, <3>2
  <2>2. CASE id \in of("delete")
    <3>1. PICK j \in 1..Len(c) : c[j].id = id BY <1>4, <2>2
    <3>2. PICK i \in 1..Len(T) : T[i] = c[j] BY <1>6b DEF Joined
    <3> QED BY <3>1, <3>2
  <2> QED BY <1>10, <2>1, <2>2
<1>11. T = todo BY <1>2
<1>12. T \in Seq(S) BY <1>6b DEF Joined
<1> HIDE DEF T
<1> QED BY <1>5, <1>8, <1>10, <1>11, <1>12 DEF Good, S, IsPlan

(* A plan creates, updates or deletes, and creates or updates what is      *)
(* desired.                                                                *)
LEMMA KindValues ==
  ASSUME NEW r, NEW q, NEW id
  PROVE  /\ KindOf(r, q, id) \in Kinds \cup {None, "conflict"}
         /\ KindOf(r, q, id) \in {"create", "update"} => id \in DOMAIN DesiredOf(r)
  BY DEF KindOf, Change, WantedChange, UnwantedChange, EffectiveDesired, Kinds, None

(* The fields of a reconciler after it described a schedule. *)
LEMMA DescribedFields ==
  ASSUME NEW q, q = [phase |-> "observing", decision |-> q.decision, todo |-> q.todo,
                     observed |-> q.observed, alone |-> q.alone],
         NEW t, NEW f, NEW b, b = [q EXCEPT !.todo = t, !.observed = f]
  PROVE  b = [phase |-> "observing", decision |-> q.decision, todo |-> t,
              observed |-> f, alone |-> q.alone]
<1>1. q \in [phase : {"observing"}, decision : {q.decision}, todo : {q.todo},
             observed : {q.observed}, alone : {q.alone}]
  OBVIOUS
<1>2. b \in [phase : {"observing"}, decision : {q.decision}, todo : {t},
             observed : {f}, alone : {q.alone}]
  BY <1>1
<1> QED BY <1>2

(* What a step that touches nothing of a schedule leaves. *)
LEMMA NothingEvolves ==
  ASSUME UNCHANGED <<isLocal, declared, schedules, snapshots>> PROVE Evolves
  BY DEF Evolves, Present

(* A reconciler lists the schedules. *)
LEMMA ListKeeps ==
  ASSUME SchedulesInv, NEW r \in Releases, NEW decision, ListSchedules(r, decision)
  PROVE  RecsOK'
<1>1. Evolves /\ UNCHANGED schedules BY NothingEvolves DEF ListSchedules
<1>2. CASE Failed(r)
  BY <1>1, <1>2, OneReconciles DEF Failed, RecOK, Ending, SchedulesInv
<1>3. CASE ~Failed(r)
  <2> DEFINE here == {id \in Ids : Present(id) /\ BelongsHere(id)}
             described == {id \in here : schedules[id].owner = Justflow
                                         /\ schedules[id].scope # "corrupt"}
             known == [id \in here \ described |-> Observed(schedules[id])]
             v == [phase |-> "observing", decision |-> decision, todo |-> described,
                   observed |-> known, alone |-> TRUE]
  <2>1. SetRec(r, v) BY <1>3 DEF ListSchedules
  <2>2. \A id \in described : Present(id) /\ Owns(schedules[id].scope) BY DEF BelongsHere
  <2>3. \A id \in Ids \ here : Present(id) => ~Owns(schedules[id].scope) BY DEF BelongsHere
  <2>4. ObservedOK(known)
    <3>1. ASSUME NEW id \in here PROVE Owns(Observed(schedules[id]).scope)
                                       \/ Observed(schedules[id]).corrupt = TRUE
      BY <3>1 DEF BelongsHere, Observed
    <3> QED BY <3>1 DEF ObservedOK
  <2>5. AsListed(v)
    <3>1. \A id \in DOMAIN known : Present(id) /\ known[id] = Observed(schedules[id]) OBVIOUS
    <3>2. (DOMAIN known) \cup described = here OBVIOUS
    <3> HIDE DEF known, described, here
    <3> QED BY <2>2, <2>3, <3>1, <3>2 DEF AsListed
  <2>6. described \subseteq Ids OBVIOUS
  <2> HIDE DEF known, described, here
  <2>7. ObservingOK(v) BY <2>2, <2>4, <2>5, <2>6 DEF ObservingOK
  <2> HIDE DEF v
  <2>8. RecOK(r, v) BY <2>7 DEF RecOK
  <2>9. PICK w : w = v OBVIOUS
  <2>10. SetRec(r, w) /\ RecOK(r, w) /\ w.phase = "observing"
    BY <2>1, <2>7, <2>8, <2>9 DEF ObservingOK
  <2>11. RecOK(r, w)' BY <1>1, <2>10, RecStays
  <2> QED BY <1>1, <2>10, <2>11, OneReconciles DEF SchedulesInv
<1> QED BY <1>2, <1>3

(* A reconciler describes a schedule it listed. *)
LEMMA DescribeKeeps ==
  ASSUME SchedulesInv, NEW r \in Releases, DescribeSchedule(r)
  PROVE  RecsOK'
<1>1. Evolves /\ UNCHANGED schedules BY NothingEvolves DEF DescribeSchedule
<1>2. CASE Failed(r)
  BY <1>1, <1>2, OneReconciles DEF Failed, RecOK, Ending, SchedulesInv
<1>3. CASE ~Failed(r)
  <2>1. PICK q : q = rec[r] OBVIOUS
  <2>2. q.phase = "observing" /\ RecOK(r, q) BY <2>1 DEF SchedulesInv, RecsOK, DescribeSchedule
  <2>3. ObservingOK(q) BY <2>2 DEF RecOK, Idle, Ending, PlanOK, MayWrite, PlanShape
  <2>4. PICK id \in q.todo :
          /\ Present(id)
          /\ SetRec(r, [q EXCEPT !.todo = @ \ {id},
                          !.observed = [i \in DOMAIN @ \cup {id} |->
                                          IF i = id THEN Observed(schedules[id]) ELSE @[i]]])
    BY <1>3, <2>1 DEF DescribeSchedule
  <2>5. PICK t : t = q.todo \ {id} OBVIOUS
  <2>6. PICK f : f = [i \in DOMAIN q.observed \cup {id} |->
                        IF i = id THEN Observed(schedules[id]) ELSE q.observed[i]]
    OBVIOUS
  <2>7. PICK w : w = [q EXCEPT !.todo = t, !.observed = f] OBVIOUS
  <2>8. SetRec(r, w) BY <2>4, <2>5, <2>6, <2>7
  <2>9. w = [phase |-> "observing", decision |-> q.decision, todo |-> t,
             observed |-> f, alone |-> q.alone]
    BY <2>3, <2>7, DescribedFields DEF ObservingOK
  <2>10. id \in Ids /\ Owns(schedules[id].scope) BY <2>3, <2>4 DEF ObservingOK
  <2>11. ObservedOK(f)
    BY <2>3, <2>6, <2>10 DEF ObservingOK, ObservedOK, Observed
  <2>12. q.alone = TRUE => AsListed(w)
    BY <2>3, <2>4, <2>5, <2>6, <2>9 DEF ObservingOK, AsListed
  <2>13. ObservingOK(w) BY <2>3, <2>5, <2>9, <2>11, <2>12 DEF ObservingOK
  <2>14. RecOK(r, w)' BY <1>1, <2>13, RecStays DEF RecOK
  <2> QED BY <1>1, <2>8, <2>14, OneReconciles DEF SchedulesInv
<1> QED BY <1>2, <1>3

(* A reconciler plans, or ends because of a conflict. *)
LEMMA PlanKeeps ==
  ASSUME SchedulesInv, NEW r \in Releases, NEW confirmed, Plan(r, confirmed)
  PROVE  RecsOK'
<1>1. Evolves /\ UNCHANGED schedules BY NothingEvolves DEF Plan
<1>2. CASE Failed(r)
  BY <1>1, <1>2, OneReconciles DEF Failed, RecOK, Ending, SchedulesInv
<1>3. CASE ~Failed(r)
  <2>1. PICK q : q = rec[r] OBVIOUS
  <2>2. q.phase = "observing" /\ RecOK(r, q) BY <2>1 DEF SchedulesInv, RecsOK, Plan
  <2>3. ObservingOK(q) BY <2>2 DEF RecOK, Idle, Ending, PlanOK, MayWrite, PlanShape
  <2>4. PICK todo : todo = PlannedChanges(DesiredOf(r), q.observed, q.decision) OBVIOUS
  <2>5. PICK w : w = [phase |-> "storing", observed |-> q.observed, failed |-> FALSE,
                      seen |-> None, decision |-> q.decision, alone |-> q.alone, todo |-> todo]
    OBVIOUS
  <2>6. /\ SetRec(r, w) /\ q.todo = {}
        /\ ~HasConflicts(DesiredOf(r), q.observed, q.decision)
    BY <1>3, <2>1, <2>4, <2>5 DEF Plan
  <2>7. /\ todo \in Seq([kind : Kinds, id : Ids])
        /\ \A i \in 1..Len(todo) :
             todo[i].kind = Change(DesiredOf(r), q.observed, q.decision, todo[i].id)
        /\ \A id \in Ids : Change(DesiredOf(r), q.observed, q.decision, id) \in Kinds
             => \E i \in 1..Len(todo) : todo[i].id = id
    <3>1. IsPlan(DesiredOf(r), q.observed, q.decision, todo) BY <2>4, ChangesPlanned
    <3> QED BY <3>1 DEF IsPlan
  <2>8. /\ w.phase = "storing" /\ w.observed = q.observed /\ w.decision = q.decision
        /\ w.alone = q.alone /\ w.todo = todo /\ w.failed = FALSE
    BY <2>5
  <2>9. \A id : KindOf(r, w, id) = Change(DesiredOf(r), q.observed, q.decision, id)
    BY <2>8 DEF KindOf
  <2>10. PlanShape(w) BY <2>3, <2>5, <2>7, <2>8 DEF PlanShape, ObservingOK
  <2>11. \A i \in 1..Len(w.todo) : w.todo[i].kind = KindOf(r, w, w.todo[i].id)
    <3> SUFFICES ASSUME NEW i \in 1..Len(todo) PROVE todo[i].kind = KindOf(r, w, todo[i].id)
      BY <2>8
    <3> QED BY <2>7, <2>9
  <2>12. \A id \in Ids : KindOf(r, w, id) # "conflict" BY <2>6, <2>9 DEF HasConflicts
  <2>13. w.alone = TRUE => \A id \in Ids : StillPlanned(w, id) \/ Settled(r, w, id)
    <3> SUFFICES ASSUME q.alone = TRUE, NEW id \in Ids, ~StillPlanned(w, id)
                 PROVE  Settled(r, w, id)
      BY <2>8
    <3>1. KindOf(r, w, id) = None BY <2>7, <2>8, <2>9, <2>12, KindValues DEF StillPlanned
    <3>2. IF id \in DOMAIN q.observed
          THEN Present(id) /\ q.observed[id] = Observed(schedules[id])
          ELSE Present(id) => ~Owns(schedules[id].scope)
      BY <2>3, <2>6 DEF ObservingOK, AsListed
    <3> QED BY <2>8, <3>1, <3>2 DEF Settled, None
  <2>14. PlanOK(r, w) BY <2>8, <2>10, <2>11, <2>12, <2>13 DEF PlanOK, MayWrite
  <2>15. RecOK(r, w)' BY <1>1, <2>14, RecStays DEF RecOK
  <2> QED BY <1>1, <2>6, <2>15, OneReconciles DEF SchedulesInv
<1> QED BY <1>2, <1>3

(* A plan that only loses items stays a plan, if what it lost is settled. *)
LEMMA PlanMoves ==
  ASSUME Evolves, NEW r, NEW q, PlanOK(r, q),
         NEW b, b.observed = q.observed, b.decision = q.decision, PlanShape(b),
         b.phase # "storing"
           => \A id \in DOMAIN DesiredOf(r) : DesiredOf(r)[id].digest \in snapshots',
         MayWrite(r, b)',
         \A i \in 1..Len(b.todo) : \E j \in 1..Len(q.todo) : b.todo[i] = q.todo[j],
         b.alone = TRUE /\ b.failed = FALSE
           => \A id \in Ids : StillPlanned(b, id) \/ Settled(r, q, id)'
  PROVE  PlanOK(r, b)'
<1>1. \A id : KindOf(r, b, id) = KindOf(r, q, id) BY DEF KindOf
<1>2. \A id : KindOf(r, b, id)' = KindOf(r, b, id) BY SameKind DEF Evolves
<1>3. \A id : KindOf(r, q, id)' = KindOf(r, q, id) BY SameKind DEF Evolves
<1>4. DesiredOf(r)' = DesiredOf(r) BY SameDesired DEF Evolves
<1>5. PlanShape(b)' BY ObservedStays DEF PlanShape
<1>6. \A i \in 1..Len(b.todo) : b.todo[i].kind = KindOf(r, b, b.todo[i].id)'
  <2> SUFFICES ASSUME NEW i \in 1..Len(b.todo)
               PROVE  b.todo[i].kind = KindOf(r, b, b.todo[i].id)'
    OBVIOUS
  <2>1. PICK j \in 1..Len(q.todo) : b.todo[i] = q.todo[j] OBVIOUS
  <2>2. q.todo[j].kind = KindOf(r, q, q.todo[j].id) BY DEF PlanOK, MayWrite
  <2> QED BY <1>1, <1>2, <2>1, <2>2
<1>7. \A id \in Ids : KindOf(r, b, id)' # "conflict" BY <1>1, <1>2 DEF PlanOK, MayWrite
<1>8. \A id \in Ids : Settled(r, q, id)' => Settled(r, b, id)'
  <2> SUFFICES ASSUME NEW id \in Ids, Settled(r, q, id)' PROVE Settled(r, b, id)' OBVIOUS
  <2>1. KindOf(r, b, id)' = KindOf(r, q, id)' BY <1>1, <1>2, <1>3
  <2> QED BY <2>1 DEF Settled
<1>9. UNCHANGED isLocal BY DEF Evolves
<1>11. (b.phase # "storing"
         => \A id \in DOMAIN DesiredOf(r) : DesiredOf(r)[id].digest \in snapshots)'
  BY <1>4
<1>12. (b.alone = TRUE /\ b.failed = FALSE
         => \A id \in Ids : StillPlanned(b, id) \/ Settled(r, b, id))'
  BY <1>8 DEF StillPlanned
<1> QED BY <1>5, <1>6, <1>7, <1>11, <1>12 DEF PlanOK

(* A reconciler in one of the phases of a plan has a plan. *)
LEMMA PlannedPhase ==
  ASSUME NEW r, NEW q, RecOK(r, q), q.phase \in {"storing", "applying", "described"}
  PROVE  PlanOK(r, q)
  BY DEF RecOK, Idle, Ending, ObservingOK

PlanRecord(q) ==
  q = [phase |-> q.phase, observed |-> q.observed, failed |-> q.failed, seen |-> q.seen,
       decision |-> q.decision, alone |-> q.alone, todo |-> q.todo]

(* The fields of a plan that goes to another phase. *)
LEMMA PhaseFields ==
  ASSUME NEW q, PlanRecord(q), NEW p, NEW b, b = [q EXCEPT !.phase = p]
  PROVE  /\ PlanRecord(b) /\ b.phase = p /\ b.seen = q.seen /\ b.observed = q.observed
         /\ b.failed = q.failed /\ b.decision = q.decision /\ b.alone = q.alone /\ b.todo = q.todo
<1>1. q \in [phase : {q.phase}, observed : {q.observed}, failed : {q.failed}, seen : {q.seen},
               decision : {q.decision}, alone : {q.alone}, todo : {q.todo}]
  BY DEF PlanRecord
<1>2. b \in [phase : {p}, observed : {q.observed}, failed : {q.failed}, seen : {q.seen},
               decision : {q.decision}, alone : {q.alone}, todo : {q.todo}]
  BY <1>1
<1> QED BY <1>2 DEF PlanRecord

IsSeen(q, p, s, b) == b = [q EXCEPT !.phase = p, !.seen = s]

(* The fields of a plan after an item was described. *)
LEMMA SeenFields ==
  ASSUME NEW q, PlanRecord(q), NEW p, NEW s, NEW b, IsSeen(q, p, s, b)
  PROVE  /\ PlanRecord(b) /\ b.phase = p /\ b.seen = s /\ b.observed = q.observed
         /\ b.failed = q.failed /\ b.decision = q.decision /\ b.alone = q.alone /\ b.todo = q.todo
<1>1. q \in [phase : {q.phase}, observed : {q.observed}, failed : {q.failed}, seen : {q.seen},
               decision : {q.decision}, alone : {q.alone}, todo : {q.todo}]
  BY DEF PlanRecord
<1>2. b \in [phase : {p}, observed : {q.observed}, failed : {q.failed}, seen : {s},
               decision : {q.decision}, alone : {q.alone}, todo : {q.todo}]
  BY <1>1 DEF IsSeen
<1> QED BY <1>2 DEF PlanRecord

IsDone(q, p, s, t, f, b) ==
  b = [q EXCEPT !.todo = t, !.phase = p, !.seen = s, !.failed = f]

(* The fields of a plan after an item was done. *)
LEMMA DoneFields ==
  ASSUME NEW q, PlanRecord(q), NEW p, NEW s, NEW t, NEW f, NEW b, IsDone(q, p, s, t, f, b)
  PROVE  /\ PlanRecord(b) /\ b.phase = p /\ b.seen = s /\ b.observed = q.observed
         /\ b.failed = f /\ b.decision = q.decision /\ b.alone = q.alone /\ b.todo = t
<1>1. q \in [phase : {q.phase}, observed : {q.observed}, failed : {q.failed}, seen : {q.seen},
               decision : {q.decision}, alone : {q.alone}, todo : {q.todo}]
  BY DEF PlanRecord
<1>2. b \in [phase : {p}, observed : {q.observed}, failed : {f}, seen : {s},
               decision : {q.decision}, alone : {q.alone}, todo : {t}]
  BY <1>1 DEF IsDone
<1> QED BY <1>2 DEF PlanRecord

(* A reconciler stores the snapshots of what it will apply. *)
LEMMA StoreKeeps ==
  ASSUME SchedulesInv, NEW r \in Releases, StoreSnapshots(r)
  PROVE  RecsOK'
<1>1. UNCHANGED <<isLocal, declared, schedules>> /\ snapshots \subseteq snapshots'
  BY DEF StoreSnapshots
<1>2. Evolves /\ UNCHANGED schedules BY <1>1 DEF Evolves, Present
<1>3. CASE Failed(r)
  <2>1. \A w : w = Ending => RecOK(r, w)' BY DEF RecOK
  <2> QED BY <1>2, <1>3, <2>1, OneReconciles DEF Failed, Ending, SchedulesInv
<1>4. CASE ~Failed(r)
  <2>1. PICK q : q = rec[r] OBVIOUS
  <2>2. q.phase = "storing" /\ RecOK(r, q) BY <2>1 DEF SchedulesInv, RecsOK, StoreSnapshots
  <2>3. PlanOK(r, q) BY <2>2, PlannedPhase
  <2>4. PICK w : w = [q EXCEPT !.phase = "applying"] OBVIOUS
  <2>5. SetRec(r, w) BY <1>4, <2>1, <2>4 DEF StoreSnapshots
  <2>6. PlanRecord(q) BY <2>3 DEF PlanOK, MayWrite, PlanShape, PlanRecord
  <2>7. /\ PlanRecord(w) /\ w.phase = "applying" /\ w.observed = q.observed
        /\ w.failed = q.failed /\ w.decision = q.decision /\ w.alone = q.alone /\ w.todo = q.todo
    BY <2>4, <2>6, PhaseFields
  <2>8. PlanShape(w) BY <2>3, <2>7 DEF PlanOK, MayWrite, PlanShape, PlanRecord
  <2>9. \A id \in DOMAIN DesiredOf(r) : DesiredOf(r)[id].digest \in snapshots'
    BY <1>4 DEF StoreSnapshots
  <2>10. w.alone = TRUE /\ w.failed = FALSE
           => \A id \in Ids : StillPlanned(w, id) \/ Settled(r, q, id)'
    <3> SUFFICES ASSUME q.alone = TRUE, q.failed = FALSE, NEW id \in Ids
                 PROVE  StillPlanned(w, id) \/ Settled(r, q, id)'
      BY <2>7
    <3>1. StillPlanned(q, id) \/ Settled(r, q, id) BY <2>3 DEF PlanOK, MayWrite
    <3>2. CASE StillPlanned(q, id) BY <2>7, <3>2 DEF StillPlanned
    <3>3. CASE Settled(r, q, id) BY <1>2, <3>3, SettledStays
    <3> QED BY <3>1, <3>2, <3>3
  <2>13. \A i \in 1..Len(w.todo) : \E j \in 1..Len(q.todo) : w.todo[i] = q.todo[j] BY <2>7
  <2>14. w.phase # "described" /\ w.observed = q.observed /\ w.decision = q.decision BY <2>7
  <2>15. MayWrite(r, w)' BY <2>14 DEF MayWrite
  <2>11. PlanOK(r, w)' BY <1>2, <2>3, <2>8, <2>9, <2>10, <2>13, <2>14, <2>15, PlanMoves, Zenon
  <2>12. RecOK(r, w)' BY <2>11 DEF RecOK
  <2> QED BY <1>2, <2>5, <2>12, OneReconciles DEF SchedulesInv
<1> QED BY <1>3, <1>4

IsRest(S, items, t) ==
  /\ t \in Seq(S)
  /\ \A i \in 1..Len(t) : \E j \in 1..Len(items) : t[i] = items[j]
  /\ \A j \in 1..Len(items) : j # 1 => \E i \in 1..Len(t) : t[i] = items[j]

(* What is left of a plan without its first item. *)
LEMMA TailItems ==
  ASSUME NEW S, NEW items \in Seq(S), items # <<>>
  PROVE  IsRest(S, items, Tail(items)) /\ Head(items) = items[1]
<1>1. /\ Len(items) \in Nat \ {0} /\ Tail(items) \in Seq(S) /\ Len(Tail(items)) = Len(items) - 1
      /\ \A i \in 1..Len(Tail(items)) : Tail(items)[i] = items[i + 1]
      /\ Head(items) = items[1]
  OBVIOUS
<1>2. \A i \in 1..Len(Tail(items)) : i + 1 \in 1..Len(items) BY <1>1
<1>3. \A j \in 1..Len(items) : j # 1 => j - 1 \in 1..Len(Tail(items)) /\ (j - 1) + 1 = j BY <1>1
<1> QED BY <1>1, <1>2, <1>3 DEF IsRest

(* An item of a plan is done: its schedule is settled, or the item failed. *)
LEMMA ItemFinished ==
  ASSUME SchedulesInv, Evolves, NEW r \in Releases, NEW ok \in BOOLEAN, ItemDone(r, ok),
         NEW q, q = rec[r], PlanOK(r, q), q.phase # "storing", q.todo # <<>>, UNCHANGED snapshots,
         \A id \in Ids : id # q.todo[1].id => schedules'[id] = schedules[id],
         ok = TRUE => Settled(r, q, q.todo[1].id)'
  PROVE  RecsOK'
<1>0. PICK w : w = [q EXCEPT !.todo = Tail(q.todo), !.phase = "applying",
                             !.seen = None, !.failed = q.failed \/ ~ok]
  OBVIOUS
<1>1. rec' = [p \in Releases |-> IF p = r THEN w ELSE Disturb(r)[p]]
  <2>1. Disturb(r)[r] = rec[r] /\ DOMAIN Disturb(r) = Releases BY DEF Disturb
  <2> QED BY <1>0, <2>1 DEF ItemDone
<1>2. PlanRecord(q) BY DEF PlanOK, MayWrite, PlanShape, PlanRecord
<1>3. PICK t, f, p0, s0 : /\ t = Tail(q.todo) /\ f = (q.failed \/ ~ok)
                          /\ p0 = "applying" /\ s0 = None
  OBVIOUS
<1>4. w = [q EXCEPT !.todo = t, !.phase = p0, !.seen = s0, !.failed = f] BY <1>0, <1>3
<1>4a. /\ PlanRecord(w) /\ w.phase = p0 /\ w.observed = q.observed /\ w.failed = f
       /\ w.decision = q.decision /\ w.alone = q.alone /\ w.todo = t
  <2>1. IsDone(q, p0, s0, t, f, w) BY <1>4 DEF IsDone
  <2> QED BY <1>2, <2>1, DoneFields
<1>5. /\ PlanRecord(w) /\ w.phase = "applying" /\ w.observed = q.observed /\ w.failed = f
      /\ w.decision = q.decision /\ w.alone = q.alone /\ w.todo = t
  BY <1>3, <1>4a
<1>6. q.todo \in Seq([kind : Kinds, id : Ids]) /\ q.failed \in BOOLEAN /\ q.alone \in BOOLEAN
  BY DEF PlanOK, MayWrite, PlanShape
<1>7. /\ t \in Seq([kind : Kinds, id : Ids])
      /\ \A i \in 1..Len(t) : \E j \in 1..Len(q.todo) : t[i] = q.todo[j]
      /\ \A j \in 1..Len(q.todo) : j # 1 => \E i \in 1..Len(t) : t[i] = q.todo[j]
  <2>1. IsRest([kind : Kinds, id : Ids], q.todo, t) BY <1>3, <1>6, TailItems
  <2> QED BY <2>1 DEF IsRest
<1>8. f \in BOOLEAN /\ (f = FALSE => q.failed = FALSE /\ ok = TRUE) BY <1>3, <1>6
<1>9. PlanShape(w)
  <2>1. ObservedOK(q.observed) BY DEF PlanOK, MayWrite, PlanShape
  <2> QED BY <1>5, <1>6, <1>7, <1>8, <2>1 DEF PlanShape, PlanRecord
<1>10. \A id \in DOMAIN DesiredOf(r) : DesiredOf(r)[id].digest \in snapshots' BY DEF PlanOK, MayWrite
<1>11. w.alone = TRUE /\ w.failed = FALSE
         => \A id \in Ids : StillPlanned(w, id) \/ Settled(r, q, id)'
  <2> SUFFICES ASSUME q.alone = TRUE, f = FALSE, NEW id \in Ids, ~Settled(r, q, id)'
               PROVE  StillPlanned(w, id)
    BY <1>5
  <2>1. q.failed = FALSE /\ ok = TRUE BY <1>8
  <2>2. id # q.todo[1].id BY <2>1
  <2>3. schedules'[id] = schedules[id] BY <2>2
  <2>4. ~Settled(r, q, id) BY <2>3, SettledStays
  <2>5. StillPlanned(q, id) BY <2>1, <2>4 DEF PlanOK, MayWrite
  <2>6. PICK j \in 1..Len(q.todo) : q.todo[j].id = id BY <2>5 DEF StillPlanned
  <2>7. j # 1 BY <2>2, <2>6
  <2>8. PICK i \in 1..Len(t) : t[i] = q.todo[j] BY <1>7, <2>7
  <2> QED BY <1>5, <2>6, <2>8 DEF StillPlanned
<1>12. \A i \in 1..Len(w.todo) : \E j \in 1..Len(q.todo) : w.todo[i] = q.todo[j] BY <1>5, <1>7
<1>13. w.phase # "described" /\ w.observed = q.observed /\ w.decision = q.decision BY <1>5
<1>17. MayWrite(r, w)' BY <1>13 DEF MayWrite
<1>14. PlanOK(r, w)' BY <1>9, <1>10, <1>11, <1>12, <1>13, <1>17, PlanMoves, Zenon
<1>15. ASSUME NEW p \in Releases, p # r, NEW v, v = rec'[p] PROVE RecOK(p, v)'
  <2>1. v = Disturb(r)[p] BY <1>1, <1>15
  <2> QED BY <1>15, <2>1, Disturbed DEF SchedulesInv
<1>16. \A p \in Releases : \A v : v = rec'[p] => RecOK(p, v)'
  BY <1>1, <1>14, <1>15 DEF RecOK
<1> QED BY <1>1, <1>16 DEF RecsOK

(* What is desired is a schedule of the program, and of the digest it is   *)
(* declared with.                                                          *)
LEMMA DesiredIsMine ==
  ASSUME DeclaredOK, NEW r \in Releases, NEW id \in DOMAIN DesiredOf(r),
         NEW w, w = DesiredOf(r)[id]
  PROVE  /\ id \in Ids /\ IsSchedule(w) /\ w # Absent /\ Mine(w)
         /\ WantedChange(w, Observed(w)) = None /\ w.scope = Own /\ ValidManaged(Observed(w))
<1>1. PICK n \in Names : declared[r][n] # NotDeclared /\ id = ScopedId(n) BY DEF DesiredOf
<1>2. id[2] = n /\ id \in Ids BY <1>1 DEF ScopedId, Ids
<1>3. w = Desired(n, declared[r][n]) BY <1>1, <1>2 DEF DesiredOf
<1>4. declared[r][n].digest \notin {None, AnyDigest} BY <1>1 DEF DeclaredOK, IsDeclaration
<1>5. w = [owner |-> Justflow, name |-> n, scope |-> Own, action |-> "ok",
           digest |-> w.digest, paused |-> w.paused] /\ w.digest \notin {None, AnyDigest}
  BY <1>3, <1>4 DEF Desired
<1>6. n # None BY ScheduleAssumption
<1>7. IsSchedule(w) BY <1>5 DEF IsSchedule
<1>8. Observed(w) = [owner |-> Justflow, name |-> n, scope |-> Own, corrupt |-> FALSE,
                     digest |-> w.digest, valid |-> TRUE]
  <2>1. /\ w.owner = Justflow /\ w.name = n /\ w.scope = Own /\ w.action = "ok" BY <1>5
  <2>2. ((w.scope = "corrupt") \/ (w.owner = Justflow /\ w.action = "corrupt")) = FALSE
    BY <2>1 DEF Own
  <2>3. (w.action # "other") = TRUE BY <2>1
  <2>4. (w.scope = "corrupt" \/ w.owner # Justflow \/ w.name = None \/ w.action = "other") = FALSE
    BY <2>1, <1>6 DEF Own
  <2> QED BY <2>1, <2>2, <2>3, <2>4 DEF Observed
<1>9. ValidManaged(Observed(w)) BY <1>5, <1>6, <1>8 DEF ValidManaged, Managed, Justflow
<1>10. WantedChange(w, Observed(w)) = None BY <1>5, <1>8, <1>9 DEF WantedChange
<1>11. Mine(w) BY <1>5, <1>9 DEF Mine, Owns
<1> QED BY <1>2, <1>5, <1>7, <1>9, <1>10, <1>11, Kinded

(* What the reconciler may write. *)
Lands(v) == v = Absent \/ (IsSchedule(v) /\ v.digest \in snapshots /\ Mine(v))

(* A write of a schedule of the program, or a deletion. *)
LEMMA Writes ==
  ASSUME SchedulesStored, NEW id \in Ids, NEW v, WriteSchedule(id, v),
         Lands(v), UNCHANGED <<isLocal, declared, snapshots>>
  PROVE  /\ SchedulesStored' /\ Evolves /\ schedules'[id] = v
         /\ \A i \in Ids : i # id => schedules'[i] = schedules[i]
<1>1. schedules' = [i \in Ids |-> IF i = id THEN v ELSE schedules[i]]
  BY DEF SchedulesStored, WriteSchedule
<1>2. schedules'[id] = v /\ \A i \in Ids : i # id => schedules'[i] = schedules[i] BY <1>1
<1>3. Evolves BY <1>2 DEF Evolves, Present, Lands
<1>4. SchedulesStored'
  <2>1. schedules' = [i \in Ids |-> schedules'[i]] BY <1>1
  <2>2. \A i \in Ids : Present(i)' => IsSchedule(schedules'[i]) /\ schedules'[i].digest \in snapshots
    BY <1>2 DEF SchedulesStored, Present, Lands
  <2> QED BY <2>1, <2>2 DEF SchedulesStored
<1> QED BY <1>2, <1>3, <1>4

(* The calls of operators that do not step. *)
LEMMA OpsStay ==
  ASSUME OpsOK, Evolves, UNCHANGED op PROVE OpsOK'
<1>1. ASSUME NEW o \in Operators, NEW q, q = op[o] PROVE OpOK(q)'
  <2>1. OpOK(q) BY <1>1 DEF OpsOK
  <2>2. CASE q = Idle \/ q = [phase |-> "done", answer |-> q.answer]
    BY <2>2 DEF OpOK
  <2>3. CASE q # Idle /\ q # [phase |-> "done", answer |-> q.answer]
    <3>1. q.id \in Ids /\ (Present(q.id) => Mine(schedules[q.id])) BY <2>1, <2>3 DEF OpOK
    <3>2. (Present(q.id) => Mine(schedules[q.id]))' BY <3>1, MineStays
    <3>3. snapshots \subseteq snapshots' BY DEF Evolves
    <3> QED BY <2>1, <2>3, <3>2, <3>3 DEF OpOK
  <2> QED BY <2>2, <2>3
<1> QED BY <1>1 DEF OpsOK

(* The occurrences that do not step. *)
LEMMA OccurrencesStay ==
  ASSUME OccurrencesOK, UNCHANGED occurrence, snapshots \subseteq snapshots' PROVE OccurrencesOK'
  BY DEF OccurrencesOK

(* The schedules when none is written. *)
LEMMA StoreStays ==
  ASSUME SchedulesStored, UNCHANGED schedules, snapshots \subseteq snapshots' PROVE SchedulesStored'
  BY DEF SchedulesStored, Present

(* The declarations never change. *)
LEMMA DeclaredStay == ASSUME DeclaredOK, UNCHANGED declared PROVE DeclaredOK'
  BY DEF DeclaredOK

(* A step of a reconciler keeps what it does not touch. *)
LEMMA Reconciled ==
  ASSUME SchedulesInv, Evolves, SchedulesStored', RecsOK', UNCHANGED <<op, occurrence, runs, filled>>
  PROVE  SchedulesInv'
<1>1. UNCHANGED declared /\ snapshots \subseteq snapshots' BY DEF Evolves
<1>2. DeclaredOK' /\ OpsOK' /\ OccurrencesOK'
  BY <1>1, OpsStay, OccurrencesStay, DeclaredStay DEF SchedulesInv
<1> QED BY <1>2 DEF SchedulesInv, RunsOK, FilledOK

(* The item a plan is at. *)
LEMMA ItemAt ==
  ASSUME SchedulesInv, NEW r \in Releases, NEW q, q = rec[r], q.todo # <<>>,
         q.phase \in {"applying", "described"}
  PROVE  /\ PlanOK(r, q) /\ Item(r) = q.todo[1] /\ Item(r).id \in Ids
         /\ Item(r).kind = KindOf(r, q, Item(r).id) /\ Item(r).kind \in Kinds
         /\ Item(r).kind \in {"create", "update"} => Item(r).id \in DOMAIN DesiredOf(r)
<1>1. PlanOK(r, q) BY PlannedPhase DEF SchedulesInv, RecsOK
<1>2. q.todo \in Seq([kind : Kinds, id : Ids]) BY <1>1 DEF PlanOK, MayWrite, PlanShape
<1>3. Item(r) = q.todo[1] BY <1>2, TailItems DEF Item
<1>4. q.todo[1] \in [kind : Kinds, id : Ids] /\ 1 \in 1..Len(q.todo) BY <1>2, FirstItem
<1>5. q.todo[1].kind = KindOf(r, q, q.todo[1].id) BY <1>1, <1>4 DEF PlanOK, MayWrite
<1>6. q.todo[1].kind \in {"create", "update"} => q.todo[1].id \in DOMAIN DesiredOf(r)
  BY <1>5, KindValues
<1> QED BY <1>1, <1>3, <1>4, <1>5, <1>6

(* A schedule that was created or updated as wanted is settled. *)
LEMMA WantedIsSettled ==
  ASSUME SchedulesInv, UNCHANGED declared, NEW r, NEW q, NEW id, KindOf(r, q, id) \in {"create", "update"},
         id \in DOMAIN DesiredOf(r), Present(id)',
         WantedChange(DesiredOf(r)[id], Observed(schedules'[id])) = None
  PROVE  Settled(r, q, id)'
<1>1. DesiredOf(r)' = DesiredOf(r) /\ KindOf(r, q, id)' = KindOf(r, q, id) BY SameDesired, SameKind
<1>2. AsWanted(r, id)' BY <1>1 DEF AsWanted
<1> QED BY <1>1, <1>2 DEF Settled, None

(* A schedule that was deleted is settled. *)
LEMMA GoneIsSettled ==
  ASSUME UNCHANGED declared, NEW r, NEW q, NEW id, KindOf(r, q, id) = "delete", ~Present(id)'
  PROVE  Settled(r, q, id)'
<1>1. KindOf(r, q, id)' = KindOf(r, q, id) BY SameKind
<1> QED BY <1>1 DEF Settled, None

(* The steps that end an item: without a write, and with one. *)
LEMMA EndsUnwritten ==
  ASSUME SchedulesInv, NEW r \in Releases, NEW ok \in BOOLEAN, ItemDone(r, ok),
         NEW q, q = rec[r], q.todo # <<>>, NEW id, id = Item(r).id,
         q.phase \in {"applying", "described"},
         UNCHANGED <<isLocal, declared, schedules, snapshots, op, occurrence, runs, filled>>,
         ok = TRUE => Settled(r, q, id)'
  PROVE  SchedulesInv'
<1>1. Evolves BY NothingEvolves
<1>2. PlanOK(r, q) /\ id = q.todo[1].id BY ItemAt
<1>3. RecsOK' BY <1>1, <1>2, ItemFinished
<1>4. SchedulesStored' BY StoreStays DEF SchedulesInv
<1> QED BY <1>1, <1>3, <1>4, Reconciled

(* The end of an item that wrote its schedule, or failed before it did. *)
LEMMA EndsWritten ==
  ASSUME SchedulesInv, NEW r \in Releases, NEW ok \in BOOLEAN, ItemDone(r, ok),
         NEW q, q = rec[r], q.todo # <<>>, NEW id, id = Item(r).id,
         q.phase \in {"applying", "described"},
         UNCHANGED <<isLocal, declared, snapshots, op, occurrence, runs, filled>>,
         NEW v, WriteSchedule(id, v),
         Lands(v),
         ok = TRUE /\ schedules'[id] = v => Settled(r, q, id)'
  PROVE  SchedulesInv'
<1>1. PlanOK(r, q) /\ id = q.todo[1].id /\ id \in Ids BY ItemAt
<1>2. /\ SchedulesStored' /\ Evolves /\ schedules'[id] = v
      /\ \A i \in Ids : i # id => schedules'[i] = schedules[i]
  BY <1>1, Writes DEF SchedulesInv
<1>3. RecsOK' BY <1>1, <1>2, ItemFinished
<1> QED BY <1>2, <1>3, Reconciled

(* A reconciler creates a schedule. *)
LEMMA CreateKeeps ==
  ASSUME SchedulesInv, NEW r \in Releases, Create(r) PROVE SchedulesInv'
<1>1. PICK q : q = rec[r] OBVIOUS
<1>2. q.todo # <<>> /\ q.phase = "applying" /\ Item(r).kind = "create"
  BY <1>1 DEF Create, Applying
<1>3. PICK id : id = Item(r).id OBVIOUS
<1>4. /\ PlanOK(r, q) /\ id \in Ids /\ KindOf(r, q, id) = "create" /\ id \in DOMAIN DesiredOf(r)
  BY <1>1, <1>2, <1>3, ItemAt
<1>5. PICK v : v = DesiredOf(r)[id] OBVIOUS
<1>6. /\ IsSchedule(v) /\ v # Absent /\ Mine(v) /\ WantedChange(v, Observed(v)) = None
  BY <1>4, <1>5, DesiredIsMine DEF SchedulesInv
<1>7. v.digest \in snapshots BY <1>2, <1>4, <1>5 DEF PlanOK, MayWrite
<1>8. UNCHANGED <<isLocal, declared, snapshots, op, occurrence, runs, filled>> BY DEF Create
<1>9. PICK same \in BOOLEAN :
        same <=> Present(id) /\ WantedChange(v, Observed(schedules[id])) = None
  OBVIOUS
<1>10. \/ WriteSchedule(id, v) /\ (ItemDone(r, TRUE) \/ ItemDone(r, FALSE))
       \/ UNCHANGED schedules /\ (ItemDone(r, same) \/ ItemDone(r, FALSE))
  BY <1>3, <1>5, <1>9 DEF Create
<1>11. CASE WriteSchedule(id, v)
  <2>1. schedules'[id] = v => Settled(r, q, id)'
    <3> SUFFICES ASSUME schedules'[id] = v PROVE Settled(r, q, id)' OBVIOUS
    <3>1. Present(id)' BY <1>6 DEF Present
    <3> QED BY <1>4, <1>5, <1>6, <1>8, <3>1, WantedIsSettled
  <2>2. ItemDone(r, TRUE) \/ ItemDone(r, FALSE) \/ ItemDone(r, same) BY <1>10, <1>11
  <2>3. PICK ok \in {TRUE, FALSE, same} : ItemDone(r, ok) BY <2>2
  <2>7. ok \in BOOLEAN OBVIOUS
  <2>4. q.todo # <<>> /\ q.phase \in {"applying", "described"} BY <1>2
  <2>5. ok = TRUE /\ schedules'[id] = v => Settled(r, q, id)' BY <2>1
  <2>6. Lands(v) BY <1>6, <1>7 DEF Lands
  <2> QED BY <1>1, <1>3, <1>8, <1>11, <2>3, <2>4, <2>5, <2>6, <2>7, EndsWritten
<1>12. CASE UNCHANGED schedules /\ (ItemDone(r, same) \/ ItemDone(r, FALSE))
  <2>1. same = TRUE => Settled(r, q, id)'
    <3> SUFFICES ASSUME same = TRUE PROVE Settled(r, q, id)' OBVIOUS
    <3>1. Present(id)' /\ WantedChange(v, Observed(schedules'[id])) = None
      BY <1>9, <1>12 DEF Present
    <3> QED BY <1>4, <1>5, <1>8, <3>1, WantedIsSettled
  <2>2. PICK ok \in {same, FALSE} : ItemDone(r, ok) BY <1>12
  <2>3. ok \in BOOLEAN /\ (ok = TRUE => Settled(r, q, id)') BY <2>1, <2>2
  <2> QED BY <1>1, <1>2, <1>3, <1>8, <1>12, <2>2, <2>3, EndsUnwritten
<1> QED BY <1>10, <1>11, <1>12

(* A described item may be written: it is of this scope, and an update     *)
(* found another digest than the desired one.                              *)
LEMMA DescribedMoves ==
  ASSUME SchedulesInv, NEW r \in Releases, NEW q, q = rec[r], PlanOK(r, q), q.phase = "applying",
         q.todo # <<>>, q.todo[1].kind \in {"update", "delete"},
         NEW s, q.todo[1].kind = "update" => s # DesiredOf(r)[q.todo[1].id].digest,
         Mine(schedules[q.todo[1].id]),
         NEW w, w = [q EXCEPT !.phase = "described", !.seen = s], SetRec(r, w),
         UNCHANGED <<isLocal, declared, schedules, snapshots, op, occurrence, runs, filled>>
  PROVE  SchedulesInv'
<1>1. Evolves BY NothingEvolves
<1>2. PlanRecord(q) BY DEF PlanOK, MayWrite, PlanShape, PlanRecord
<1>3. /\ PlanRecord(w) /\ w.phase = "described" /\ w.seen = s /\ w.observed = q.observed
      /\ w.failed = q.failed /\ w.decision = q.decision /\ w.alone = q.alone /\ w.todo = q.todo
  <2>1. PICK p : p = "described" OBVIOUS
  <2>2. IsSeen(q, p, s, w) BY <2>1 DEF IsSeen
  <2> QED BY <1>2, <2>1, <2>2, SeenFields
<1>4. PlanShape(w) BY <1>3 DEF PlanOK, MayWrite, PlanShape, PlanRecord
<1>5. w.phase # "storing"
        => \A id \in DOMAIN DesiredOf(r) : DesiredOf(r)[id].digest \in snapshots'
  BY DEF PlanOK, MayWrite
<1>6. w.alone = TRUE /\ w.failed = FALSE
        => \A id \in Ids : StillPlanned(w, id) \/ Settled(r, q, id)'
  <2> SUFFICES ASSUME q.alone = TRUE, q.failed = FALSE, NEW id \in Ids
               PROVE  StillPlanned(w, id) \/ Settled(r, q, id)'
    BY <1>3
  <2>1. StillPlanned(q, id) \/ Settled(r, q, id) BY DEF PlanOK, MayWrite
  <2>2. CASE StillPlanned(q, id) BY <1>3, <2>2 DEF StillPlanned
  <2>3. CASE Settled(r, q, id) BY <1>1, <2>3, SettledStays
  <2> QED BY <2>1, <2>2, <2>3
<1>7. \A i \in 1..Len(w.todo) : \E j \in 1..Len(q.todo) : w.todo[i] = q.todo[j] BY <1>3
<1>8. MayWrite(r, w)'
  <2>1. DesiredOf(r)' = DesiredOf(r) BY SameDesired
  <2>2. Mine(schedules[q.todo[1].id])' BY DEF Mine, Owns
  <2> QED BY <1>3, <2>1, <2>2 DEF MayWrite
<1>9. w.observed = q.observed /\ w.decision = q.decision BY <1>3
<1>10. PlanOK(r, w)'
  <2>1. ASSUME NEW b, b.observed = q.observed, b.decision = q.decision, PlanShape(b),
         b.phase # "storing"
           => \A id \in DOMAIN DesiredOf(r) : DesiredOf(r)[id].digest \in snapshots',
         MayWrite(r, b)',
         \A i \in 1..Len(b.todo) : \E j \in 1..Len(q.todo) : b.todo[i] = q.todo[j],
         b.alone = TRUE /\ b.failed = FALSE
           => \A id \in Ids : StillPlanned(b, id) \/ Settled(r, q, id)'
         PROVE PlanOK(r, b)'
      BY <1>1, <2>1, PlanMoves, Zenon
  <2>2. PICK b : b = w OBVIOUS
  <2>3. PlanShape(b) BY <1>4, <2>2
  <2>4. b.phase # "storing"
           => \A id \in DOMAIN DesiredOf(r) : DesiredOf(r)[id].digest \in snapshots' BY <1>5, <2>2
  <2>5. MayWrite(r, b)' BY <1>8, <2>2
  <2>6. \A i \in 1..Len(b.todo) : \E j \in 1..Len(q.todo) : b.todo[i] = q.todo[j] BY <1>7, <2>2
  <2>7. b.alone = TRUE /\ b.failed = FALSE
           => \A id \in Ids : StillPlanned(b, id) \/ Settled(r, q, id)' BY <1>6, <2>2
  <2>8. b.observed = q.observed /\ b.decision = q.decision BY <1>9, <2>2
  <2>9. PlanOK(r, b)' BY <2>1, <2>3, <2>4, <2>5, <2>6, <2>7, <2>8
  <2> QED BY <2>2, <2>9 
<1>11. RecOK(r, w)' BY <1>10 DEF RecOK
<1>12. RecsOK' BY <1>1, <1>11, OneReconciles DEF SchedulesInv
<1>13. SchedulesStored' BY StoreStays DEF SchedulesInv
<1> QED BY <1>1, <1>12, <1>13, Reconciled

(* A reconciler describes the schedule it is to update or delete. *)
LEMMA DescribeItemKeeps ==
  ASSUME SchedulesInv, NEW r \in Releases, DescribeItem(r) PROVE SchedulesInv'
<1>1. PICK q : q = rec[r] OBVIOUS
<1>2. /\ q.todo # <<>> /\ q.phase = "applying" /\ Item(r).kind \in {"update", "delete"}
  BY <1>1 DEF DescribeItem, Applying
<1>3. PICK id, kind : id = Item(r).id /\ kind = Item(r).kind OBVIOUS
<1>4. /\ PlanOK(r, q) /\ id \in Ids /\ KindOf(r, q, id) = kind
      /\ kind = "update" => id \in DOMAIN DesiredOf(r)
      /\ id = q.todo[1].id /\ kind = q.todo[1].kind
  BY <1>1, <1>2, <1>3, ItemAt
<1>5. PICK v, a : v = DesiredOf(r)[id] /\ a = Observed(schedules[id]) OBVIOUS
<1>6. UNCHANGED <<isLocal, declared, schedules, snapshots, op, occurrence, runs, filled>>
  BY DEF DescribeItem
<1>7. PICK verdict : verdict = IF kind = "update" THEN UpdateVerdict(a, v, q.observed[id])
                               ELSE IF a # q.observed[id] \/ ~ValidManaged(a) THEN "changed"
                               ELSE "write"
  OBVIOUS
<1>8. PICK gone, applied : /\ gone \in BOOLEAN /\ applied \in BOOLEAN
                           /\ (gone <=> kind = "delete")
                           /\ (applied <=> verdict = "applied")
  OBVIOUS
<1>9. \/ ~Present(id) /\ ItemDone(r, gone)
      \/ /\ Present(id)
         /\ IF verdict = "write" THEN SetRec(r, [q EXCEPT !.phase = "described", !.seen = a.digest])
            ELSE ItemDone(r, applied)
      \/ ItemDone(r, FALSE)
  BY <1>1, <1>3, <1>5, <1>7, <1>8 DEF DescribeItem
<1>10. UNCHANGED declared BY <1>6
<1>11. ASSUME NEW ok \in {gone, applied, FALSE}, ItemDone(r, ok), ok = TRUE => Settled(r, q, id)'
       PROVE  SchedulesInv'
  <2>1. ok \in BOOLEAN BY <1>8
  <2> QED BY <1>1, <1>2, <1>3, <1>6, <1>11, <2>1, EndsUnwritten
<1>12. CASE ~Present(id) /\ ItemDone(r, gone)
  <2>1. ~Present(id)' BY <1>6, <1>12 DEF Present
  <2>2. gone = TRUE => Settled(r, q, id)' BY <1>4, <1>8, <1>10, <2>1, GoneIsSettled
  <2> QED BY <1>11, <1>12, <2>2
<1>13. CASE Present(id) /\ verdict # "write" /\ ItemDone(r, applied)
  <2>1. applied = TRUE => Settled(r, q, id)'
    <3> SUFFICES ASSUME verdict = "applied" PROVE Settled(r, q, id)' BY <1>8
    <3>1. kind = "update" BY <1>7
    <3>2. WantedChange(v, a) = None
      BY <1>7, <3>1 DEF UpdateVerdict, WantedChange, ValidManaged
    <3>3. Present(id)' /\ WantedChange(DesiredOf(r)[id], Observed(schedules'[id])) = None
      BY <1>5, <1>6, <1>13, <3>2 DEF Present
    <3> QED BY <1>4, <1>10, <3>1, <3>3, WantedIsSettled
  <2> QED BY <1>11, <1>13, <2>1
<1>14. CASE Present(id) /\ verdict = "write"
            /\ SetRec(r, [q EXCEPT !.phase = "described", !.seen = a.digest])
  <2>1. ValidManaged(a) /\ (kind = "update" => a.scope = v.scope /\ a.digest # v.digest)
        /\ (kind = "delete" => a = q.observed[id])
    BY <1>2, <1>3, <1>7, <1>14 DEF UpdateVerdict
  <2>2. a.scope = schedules[id].scope BY <1>5 DEF Observed
  <2>3. Owns(schedules[id].scope)
    <3>1. CASE kind = "update"
      <4>1. v.scope = Own BY <1>4, <1>5, <3>1, DesiredIsMine DEF SchedulesInv
      <4> QED BY <2>1, <2>2, <3>1, <4>1 DEF Owns
    <3>2. CASE kind = "delete"
      <4>1. id \in DOMAIN q.observed
        BY <1>4, <3>2 DEF KindOf, Change, None
      <4>2. Owns(q.observed[id].scope) \/ q.observed[id].corrupt = TRUE
        BY <1>4, <4>1 DEF PlanOK, MayWrite, PlanShape, ObservedOK
      <4>3. ~a.corrupt BY <2>1 DEF ValidManaged
      <4> QED BY <2>1, <2>2, <3>2, <4>2, <4>3
    <3> QED BY <1>2, <1>3, <3>1, <3>2
  <2>4. Mine(schedules[id]) BY <1>5, <2>1, <2>3 DEF Mine
  <2>5. PICK s, w : s = a.digest /\ w = [q EXCEPT !.phase = "described", !.seen = s] OBVIOUS
  <2>6. SetRec(r, w) BY <1>14, <2>5
  <2>7. kind = "update" => s # DesiredOf(r)[id].digest BY <1>5, <2>1, <2>5
  <2>8. kind \in {"update", "delete"} BY <1>2, <1>3
  <2> QED BY <1>1, <1>2, <1>4, <1>6, <2>4, <2>5, <2>6, <2>7, <2>8, DescribedMoves
<1>15. CASE ItemDone(r, FALSE) BY <1>11, <1>15
<1> QED BY <1>9, <1>12, <1>13, <1>14, <1>15

(* A reconciler updates or deletes the schedule it described. *)
LEMMA WriteItemKeeps ==
  ASSUME SchedulesInv, NEW r \in Releases, WriteItem(r) PROVE SchedulesInv'
<1>1. PICK q : q = rec[r] OBVIOUS
<1>2. q.phase = "described" /\ RecOK(r, q) BY <1>1 DEF WriteItem, SchedulesInv, RecsOK
<1>3. q.todo # <<>> BY <1>2, PlannedPhase DEF PlanOK, MayWrite
<1>4. PICK id, kind : id = Item(r).id /\ kind = Item(r).kind OBVIOUS
<1>5. /\ PlanOK(r, q) /\ id \in Ids /\ KindOf(r, q, id) = kind
      /\ kind = "update" => id \in DOMAIN DesiredOf(r)
      /\ id = q.todo[1].id /\ kind = q.todo[1].kind
  BY <1>1, <1>2, <1>3, <1>4, ItemAt
<1>6. kind \in {"update", "delete"} BY <1>2, <1>5 DEF PlanOK, MayWrite
<1>7. PICK v : v = IF kind = "update" THEN DesiredOf(r)[id] ELSE Absent OBVIOUS
<1>8. UNCHANGED <<isLocal, declared, snapshots, op, occurrence, runs, filled>> BY DEF WriteItem
<1>9. PICK gone \in BOOLEAN : gone <=> kind = "delete" OBVIOUS
<1>10. \/ WriteSchedule(id, v) /\ (ItemDone(r, TRUE) \/ ItemDone(r, FALSE))
       \/ UNCHANGED schedules /\ (ItemDone(r, FALSE) \/ (ItemDone(r, gone) /\ ~Present(id)))
  BY <1>4, <1>7, <1>9 DEF WriteItem
<1>11. CASE WriteSchedule(id, v)
  <2>1. kind = "update" =>
          /\ IsSchedule(v) /\ v # Absent /\ Mine(v) /\ WantedChange(v, Observed(v)) = None
          /\ v.digest \in snapshots
    <3> SUFFICES ASSUME kind = "update"
                 PROVE  /\ IsSchedule(v) /\ v # Absent /\ Mine(v)
                        /\ WantedChange(v, Observed(v)) = None /\ v.digest \in snapshots
      OBVIOUS
    <3>1. v = DesiredOf(r)[id] /\ id \in DOMAIN DesiredOf(r) BY <1>5, <1>7
    <3>2. /\ IsSchedule(v) /\ v # Absent /\ Mine(v) /\ WantedChange(v, Observed(v)) = None
      BY <3>1, DesiredIsMine DEF SchedulesInv
    <3>3. v.digest \in snapshots BY <1>2, <1>5, <3>1 DEF PlanOK, MayWrite
    <3> QED BY <3>2, <3>3
  <2>2. Lands(v) BY <1>6, <1>7, <2>1 DEF Lands
  <2>3. schedules'[id] = v => Settled(r, q, id)'
    <3> SUFFICES ASSUME schedules'[id] = v PROVE Settled(r, q, id)' OBVIOUS
    <3>1. CASE kind = "update"
      <4>1. Present(id)' BY <2>1, <3>1 DEF Present
      <4>2. WantedChange(DesiredOf(r)[id], Observed(schedules'[id])) = None BY <1>7, <2>1, <3>1
      <4> QED BY <1>5, <1>8, <3>1, <4>1, <4>2, WantedIsSettled
    <3>2. CASE kind = "delete"
      <4>1. ~Present(id)' BY <1>7, <3>2 DEF Present
      <4> QED BY <1>5, <1>8, <3>2, <4>1, GoneIsSettled
    <3> QED BY <1>6, <3>1, <3>2
  <2>4. ItemDone(r, TRUE) \/ ItemDone(r, FALSE) \/ ItemDone(r, gone) BY <1>10
  <2>5. PICK ok \in {TRUE, FALSE, gone} : ItemDone(r, ok) BY <2>4
  <2>6. ok \in BOOLEAN OBVIOUS
  <2>7. ok = TRUE /\ schedules'[id] = v => Settled(r, q, id)' BY <2>3
  <2> QED BY <1>1, <1>2, <1>3, <1>4, <1>8, <1>11, <2>2, <2>5, <2>6, <2>7, EndsWritten
<1>12. CASE UNCHANGED schedules /\ (ItemDone(r, FALSE) \/ (ItemDone(r, gone) /\ ~Present(id)))
  <2>1. gone = TRUE /\ ~Present(id) => Settled(r, q, id)'
    <3> SUFFICES ASSUME gone = TRUE, ~Present(id) PROVE Settled(r, q, id)' OBVIOUS
    <3>1. ~Present(id)' /\ kind = "delete" BY <1>9, <1>12 DEF Present
    <3> QED BY <1>5, <1>8, <3>1, GoneIsSettled
  <2>2. PICK ok \in {gone, FALSE} : ItemDone(r, ok) /\ (ok = TRUE => ~Present(id)) BY <1>12
  <2>3. ok \in BOOLEAN /\ (ok = TRUE => Settled(r, q, id)') BY <2>1, <2>2
  <2> QED BY <1>1, <1>2, <1>3, <1>4, <1>8, <1>12, <2>2, <2>3, EndsUnwritten
<1> QED BY <1>10, <1>11, <1>12

(* Every step of a reconciler keeps the invariant. *)
LEMMA ReconcileKeeps ==
  ASSUME SchedulesInv, NEW r \in Releases, Reconcile(r) PROVE SchedulesInv'
<1>1. ASSUME NEW decision, ListSchedules(r, decision) PROVE SchedulesInv'
  <2>1. RecsOK' BY <1>1, ListKeeps
  <2>2. UNCHANGED <<isLocal, declared, schedules, snapshots, op, occurrence, runs, filled>>
    BY <1>1 DEF ListSchedules
  <2> QED BY <2>1, <2>2, NothingEvolves, StoreStays, Reconciled DEF SchedulesInv
<1>2. CASE DescribeSchedule(r)
  <2>1. RecsOK' BY <1>2, DescribeKeeps
  <2>2. UNCHANGED <<isLocal, declared, schedules, snapshots, op, occurrence, runs, filled>>
    BY <1>2 DEF DescribeSchedule
  <2> QED BY <2>1, <2>2, NothingEvolves, StoreStays, Reconciled DEF SchedulesInv
<1>3. ASSUME NEW confirmed, Plan(r, confirmed) PROVE SchedulesInv'
  <2>1. RecsOK' BY <1>3, PlanKeeps
  <2>2. UNCHANGED <<isLocal, declared, schedules, snapshots, op, occurrence, runs, filled>>
    BY <1>3 DEF Plan
  <2> QED BY <2>1, <2>2, NothingEvolves, StoreStays, Reconciled DEF SchedulesInv
<1>4. CASE StoreSnapshots(r)
  <2>1. RecsOK' BY <1>4, StoreKeeps
  <2>2. UNCHANGED <<isLocal, declared, schedules, op, occurrence, runs, filled>>
        /\ snapshots \subseteq snapshots'
    BY <1>4 DEF StoreSnapshots
  <2>3. Evolves BY <2>2 DEF Evolves, Present
  <2>4. SchedulesStored' BY <2>2, StoreStays DEF SchedulesInv
  <2> QED BY <2>1, <2>2, <2>3, <2>4, Reconciled
<1> QED BY <1>1, <1>2, <1>3, <1>4, CreateKeeps, DescribeItemKeeps, WriteItemKeeps DEF Reconcile

(* A step of one operator leaves the others alone. *)
LEMMA OneOperates ==
  ASSUME OpsOK, Evolves, NEW o \in Operators, NEW v, SetOp(o, v), OpOK(v)' PROVE OpsOK'
<1>1. op' = [p \in Operators |-> IF p = o THEN v ELSE op[p]] BY DEF OpsOK, SetOp
<1>2. ASSUME NEW p \in Operators, p # o, NEW q, q = op[p] PROVE OpOK(q)'
  <2>1. OpOK(q) BY <1>2 DEF OpsOK
  <2>2. CASE q = Idle \/ q = [phase |-> "done", answer |-> q.answer] BY <2>2 DEF OpOK
  <2>3. CASE q # Idle /\ q # [phase |-> "done", answer |-> q.answer]
    <3>1. q.id \in Ids /\ (Present(q.id) => Mine(schedules[q.id])) BY <2>1, <2>3 DEF OpOK
    <3>2. (Present(q.id) => Mine(schedules[q.id]))' BY <3>1, MineStays
    <3>3. snapshots \subseteq snapshots' BY DEF Evolves
    <3> QED BY <2>1, <2>3, <3>2, <3>3 DEF OpOK
  <2> QED BY <2>2, <2>3
<1>3. \A p \in Operators : \A q : q = op'[p] => OpOK(q)' BY <1>1, <1>2
<1> QED BY <1>1, <1>3 DEF OpsOK

(* The answer to an operator relies on nothing. *)
LEMMA OpAnswered ==
  ASSUME OpsOK, Evolves, NEW o \in Operators, NEW answer, Answer(o, answer) PROVE OpsOK'
<1>1. PICK v : v = [phase |-> "done", answer |-> answer] OBVIOUS
<1>2. SetOp(o, v) BY <1>1 DEF Answer
<1>3. OpOK(v)' BY <1>1 DEF OpOK
<1> QED BY <1>2, <1>3, OneOperates

(* A call that goes on to the description after its effect relies on what  *)
(* it relied on.                                                           *)
LEMMA OpRereads ==
  ASSUME OpsOK, Evolves, NEW o \in Operators, op[o].phase = "mutate",
         SetOp(o, [op[o] EXCEPT !.phase = "reread"])
  PROVE  OpsOK'
<1>1. PICK q : q = op[o] OBVIOUS
<1>2. OpOK(q) /\ q.phase = "mutate" BY <1>1 DEF OpsOK
<1>3. /\ q = [phase |-> "mutate", kind |-> q.kind, id |-> q.id, arg |-> q.arg, digest |-> q.digest]
      /\ q.id \in Ids /\ (Present(q.id) => Mine(schedules[q.id]))
      /\ q.kind = "run" => q.digest \in snapshots /\ q.digest # AnyDigest
      /\ q.kind = "backfill" => q.arg \in Nat /\ ~BackfillRefused(q.arg)
  BY <1>2 DEF OpOK, Idle
<1>4. PICK v : v = [phase |-> "reread", kind |-> q.kind, id |-> q.id, arg |-> q.arg,
                    digest |-> q.digest]
  OBVIOUS
<1>5. [q EXCEPT !.phase = "reread"] = v BY <1>3, <1>4
<1>6. /\ v = [phase |-> v.phase, kind |-> v.kind, id |-> v.id, arg |-> v.arg, digest |-> v.digest]
      /\ v.phase = "reread" /\ v.kind = q.kind /\ v.id = q.id /\ v.arg = q.arg
      /\ v.digest = q.digest
  BY <1>4
<1>7. (Present(q.id) => Mine(schedules[q.id]))' BY <1>3, MineStays
<1>8. snapshots \subseteq snapshots' BY DEF Evolves
<1>9. OpOK(v)' BY <1>3, <1>6, <1>7, <1>8 DEF OpOK
<1>10. SetOp(o, v) BY <1>1, <1>5
<1> QED BY <1>9, <1>10, OneOperates

(* The reconcilers when no schedule is written. *)
LEMMA RecsStay ==
  ASSUME RecsOK, Evolves, UNCHANGED <<rec, schedules>> PROVE RecsOK'
<1>1. ASSUME NEW p \in Releases, NEW w, w = rec[p] PROVE RecOK(p, w)'
  BY <1>1, RecStays DEF RecsOK
<1> QED BY <1>1 DEF RecsOK

(* A call that is checked, and not refused, is about a schedule of ours. *)
LEMMA CheckKeeps ==
  ASSUME SchedulesInv, NEW o \in Operators, NEW r, NEW n \in Names, NEW kind, NEW arg,
         kind = "backfill" => arg \in Nat, Check(o, r, n, kind, arg)
  PROVE  SchedulesInv'
<1>1. UNCHANGED <<isLocal, declared, schedules, snapshots, rec, occurrence, runs, filled>>
  BY DEF Check
<1>2. Evolves BY <1>1, NothingEvolves
<1>3. OpsOK'
  <2>1. CASE Answer(o, "refused") BY <1>2, <2>1, OpAnswered DEF SchedulesInv
  <2>2. CASE ~Answer(o, "refused")
    <3>1. PICK id, s : id = ScopedId(n) /\ s = schedules[id] OBVIOUS
    <3>2. PICK v : v = [phase |-> "mutate", kind |-> kind, id |-> id, arg |-> arg,
                        digest |-> s.digest]
      OBVIOUS
    <3>3. /\ SetOp(o, v) /\ LoadManaged(id) = "ok"
          /\ kind = "backfill" => ~BackfillRefused(arg)
      BY <2>2, <3>1, <3>2 DEF Check
    <3>4. id \in Ids BY <3>1 DEF Ids
    <3>5. Present(id) /\ Mine(schedules[id]) BY <3>3 DEF LoadManaged, Mine
    <3>6. IsSchedule(s) /\ s.digest \in snapshots BY <3>1, <3>4, <3>5 DEF SchedulesInv, SchedulesStored
    <3>7. s.digest # AnyDigest BY <3>6 DEF IsSchedule
    <3>8. OpOK(v)
      BY <3>2, <3>3, <3>4, <3>5, <3>6, <3>7 DEF OpOK
    <3>9. OpOK(v)'
      <4>1. (Present(v.id) => Mine(schedules[v.id]))'
        BY <1>2, <3>2, <3>4, <3>5, MineStays
      <4> QED BY <1>1, <3>2, <3>8, <4>1, Zenon DEF OpOK
    <3> QED BY <1>2, <3>3, <3>9, OneOperates DEF SchedulesInv
  <2> QED BY <2>1, <2>2
<1>4. RecsOK' BY <1>1, <1>2, RecsStay DEF SchedulesInv
<1>5. SchedulesStored' /\ DeclaredOK' /\ OccurrencesOK'
  BY <1>1, StoreStays, DeclaredStay, OccurrencesStay DEF SchedulesInv
<1> QED BY <1>1, <1>3, <1>4, <1>5 DEF SchedulesInv, RunsOK, FilledOK

(* What the window of a backfill begins on, the number of its occurrences. *)
LEMMA WindowCounted ==
  ASSUME NEW w \in Nat, ~BackfillRefused(w), NEW first
  PROVE  /\ Cardinality({t \in 0..w : t % Every = first}) \in Nat
         /\ Cardinality({t \in 0..w : t % Every = first}) <= MaxActions
<1> DEFINE S == {t \in 0..w : t % Every = first}
           T == 0..(w \div Every)
           f == [t \in S |-> t \div Every]
<1>1. Every \in Nat \ {0} /\ MaxActions \in Nat BY ScheduleAssumption
<1>2. IsFiniteSet(S)
  <2>1. IsFiniteSet(0..w) BY FS_Interval
  <2>2. S \subseteq 0..w OBVIOUS
  <2> QED BY <2>1, <2>2, FS_Subset
<1>3. w \div Every \in Nat /\ (w + Every - 1) \div Every \in Nat
      /\ w \div Every <= (w + Every - 1) \div Every
  BY <1>1
<1>4. IsFiniteSet(T) /\ Cardinality(T) = (w \div Every) + 1
  <2>1. PICK k \in Nat : k = w \div Every BY <1>3
  <2>2. IsFiniteSet(0..k) /\ Cardinality(0..k) = k + 1 BY FS_Interval
  <2> QED BY <2>1, <2>2
<1>5. f \in [S -> T]
  <2>1. ASSUME NEW t \in S PROVE t \div Every \in T
    BY <1>1, <1>3
  <2> QED BY <2>1
<1>6. \A x, y \in S : f[x] = f[y] => x = y
  <2>1. ASSUME NEW x \in S, NEW y \in S, x \div Every = y \div Every PROVE x = y
    <3>1. x = Every * (x \div Every) + (x % Every) BY <1>1
    <3>2. y = Every * (y \div Every) + (y % Every) BY <1>1
    <3>3. x % Every = y % Every OBVIOUS
    <3> QED BY <2>1, <3>1, <3>2, <3>3
  <2> QED BY <2>1
<1>7. Cardinality(S) <= Cardinality(T) /\ Cardinality(S) \in Nat
  <2> HIDE DEF S, T, f
  <2>1. f \in Injection(S, T) BY <1>5, <1>6 DEF Injection, IsInjective
  <2> QED BY <1>2, <1>4, <2>1, FS_Injection, FS_CardinalityType
<1>8. (w + Every - 1) \div Every + 1 <= MaxActions
  BY <1>1, <1>3 DEF BackfillRefused, MaximumActions
<1> QED BY <1>1, <1>3, <1>4, <1>7, <1>8

PausedAs(s, p, v) == v = [s EXCEPT !.paused = p]

(* Pausing or resuming a schedule of the program keeps it one, of the same *)
(* digest.                                                                 *)
LEMMA PausedIsOurs ==
  ASSUME NEW s, IsSchedule(s), Mine(s), NEW p, NEW v, PausedAs(s, p, v)
  PROVE  IsSchedule(v) /\ Mine(v) /\ v.digest = s.digest
<1>1. s \in [owner : {s.owner}, name : {s.name}, scope : {s.scope}, action : {s.action},
             digest : {s.digest}, paused : {s.paused}]
  BY DEF IsSchedule
<1>2. v \in [owner : {s.owner}, name : {s.name}, scope : {s.scope}, action : {s.action},
             digest : {s.digest}, paused : {p}]
  BY <1>1 DEF PausedAs
<1>3. IsSchedule(v) BY <1>2 DEF IsSchedule
<1>4. Observed(v) = Observed(s) BY <1>2 DEF Observed
<1> QED BY <1>2, <1>3, <1>4 DEF Mine

(* What an operator's call does to the schedules. *)
LEMMA EffectKeeps ==
  ASSUME SchedulesInv, NEW o \in Operators, op[o].phase = "mutate", Effect(o),
         UNCHANGED <<isLocal, declared, snapshots>>
  PROVE  SchedulesStored' /\ Evolves /\ RecsOK'
<1>1. PICK q : q = op[o] OBVIOUS
<1>2. OpOK(q) /\ q.phase = "mutate" BY <1>1 DEF SchedulesInv, OpsOK
<1>3. PICK id, s : id = q.id /\ s = schedules[id] OBVIOUS
<1>4. id \in Ids /\ Present(id) /\ Mine(s) BY <1>1, <1>2, <1>3 DEF OpOK, Idle, Effect
<1>5. IsSchedule(s) /\ s.digest \in snapshots BY <1>3, <1>4 DEF SchedulesInv, SchedulesStored
<1>6. PICK v : /\ WriteSchedule(id, v)
               /\ \/ PausedAs(s, TRUE, v) \/ PausedAs(s, FALSE, v) \/ v = Absent
  BY <1>1, <1>3 DEF Effect, PausedAs
<1>7. Lands(v) BY <1>4, <1>5, <1>6, PausedIsOurs DEF Lands
<1>8. SchedulesStored' /\ Evolves BY <1>4, <1>6, <1>7, Writes DEF SchedulesInv
<1>9. o \notin Releases BY ScheduleAssumption
<1>10. rec' = Disturb(o) BY DEF Effect
<1>11. rec' = [r \in Releases |-> rec'[r]] BY <1>10 DEF Disturb
<1>12. ASSUME NEW r \in Releases, NEW w, w = rec'[r] PROVE RecOK(r, w)'
  BY <1>8, <1>9, <1>10, <1>12, Disturbed DEF SchedulesInv
<1> QED BY <1>8, <1>11, <1>12 DEF RecsOK

(* An operator pauses, resumes, deletes, runs or backfills the schedule it *)
(* checked.                                                                *)
LEMMA MutateKeeps ==
  ASSUME SchedulesInv, NEW o \in Operators, Mutate(o) PROVE SchedulesInv'
<1>1. UNCHANGED <<isLocal, declared, snapshots, runs>> /\ op[o].phase = "mutate" BY DEF Mutate
<1>2. SchedulesStored' /\ Evolves /\ RecsOK' /\ OccurrencesOK' /\ FilledOK'
  <2>1. CASE Effect(o)
    <3>1. UNCHANGED <<occurrence, filled>> BY <2>1 DEF Effect
    <3>2. OccurrencesOK' BY <1>1, <3>1, OccurrencesStay DEF SchedulesInv
    <3> QED BY <1>1, <2>1, <3>1, <3>2, EffectKeeps DEF SchedulesInv, FilledOK
  <2>2. CASE FillWindow(o)
    <3>1. UNCHANGED <<schedules, rec, occurrence>> BY <2>2 DEF FillWindow
    <3>2. PICK first : filled' = Cardinality({t \in 0..op[o].arg : t % Every = first})
      BY <2>2 DEF FillWindow
    <3>3. op[o].arg \in Nat /\ ~BackfillRefused(op[o].arg)
      BY <1>1, <2>2 DEF FillWindow, SchedulesInv, OpsOK, OpOK, Idle
    <3>4. FilledOK'
      <4>1. PICK w \in Nat : w = op[o].arg BY <3>3
      <4> QED BY <3>2, <3>3, <4>1, WindowCounted DEF FilledOK
    <3>5. Evolves BY <1>1, <3>1, NothingEvolves
    <3> QED BY <1>1, <3>1, <3>4, <3>5, RecsStay, StoreStays, OccurrencesStay DEF SchedulesInv
  <2>3. CASE Unchanged
    <3>1. UNCHANGED <<schedules, rec, occurrence, filled>> BY <2>3 DEF Unchanged
    <3>2. Evolves BY <1>1, <3>1, NothingEvolves
    <3> QED BY <1>1, <3>1, <3>2, RecsStay, StoreStays, OccurrencesStay DEF SchedulesInv, FilledOK
  <2> QED BY <2>1, <2>2, <2>3 DEF Mutate
<1>3. SetOp(o, [op[o] EXCEPT !.phase = "reread"]) \/ \E answer : Answer(o, answer)
  BY DEF Mutate
<1>4. OpsOK' BY <1>1, <1>2, <1>3, OpAnswered, OpRereads DEF SchedulesInv
<1>5. DeclaredOK' BY <1>1, DeclaredStay DEF SchedulesInv
<1> QED BY <1>1, <1>2, <1>4, <1>5 DEF SchedulesInv, RunsOK

(* The trailing description writes nothing. *)
LEMMA RereadKeeps ==
  ASSUME SchedulesInv, NEW o \in Operators, Reread(o) PROVE SchedulesInv'
<1>1. UNCHANGED <<isLocal, declared, schedules, snapshots, rec, occurrence, runs, filled>>
  BY DEF Reread, Unchanged
<1>2. Evolves BY <1>1, NothingEvolves
<1>3. PICK answer : Answer(o, answer) BY DEF Reread
<1>4. OpsOK' BY <1>2, <1>3, OpAnswered DEF SchedulesInv
<1>5. SchedulesStored' /\ RecsOK' /\ DeclaredOK' /\ OccurrencesOK'
  BY <1>1, <1>2, StoreStays, RecsStay, DeclaredStay, OccurrencesStay DEF SchedulesInv
<1> QED BY <1>1, <1>4, <1>5 DEF SchedulesInv, RunsOK, FilledOK

(* A dispatch is due for a target whose snapshot is there. *)
LEMMA AcceptKeeps ==
  ASSUME OccurrencesOK, NEW t, NEW digest, digest \in snapshots, digest # AnyDigest,
         Accept(t, digest), UNCHANGED snapshots
  PROVE  OccurrencesOK'
<1>1. PICK d : d = [phase |-> "due", attempt |-> 0, digest |-> digest] OBVIOUS
<1>2. occurrence' = [occurrence EXCEPT ![t] = d] BY <1>1 DEF Accept
<1>3. /\ d = [phase |-> d.phase, attempt |-> d.attempt, digest |-> d.digest]
      /\ d.phase # "unavailable" /\ d.digest \in snapshots /\ d.digest # AnyDigest
  BY <1>1
<1> QED BY <1>2, <1>3 DEF OccurrencesOK

(* An operator runs a schedule at once, under an idempotency key. *)
LEMMA RunNowKeeps ==
  ASSUME SchedulesInv, NEW o \in Operators, RunNow(o) PROVE SchedulesInv'
<1>1. UNCHANGED <<isLocal, declared, schedules, snapshots, rec, runs, filled>> BY DEF RunNow
<1>2. Evolves BY <1>1, NothingEvolves
<1>3. PICK answer : Answer(o, answer) BY DEF RunNow
<1>4. OpsOK' BY <1>2, <1>3, OpAnswered DEF SchedulesInv
<1>5. op[o].digest \in snapshots /\ op[o].digest # AnyDigest
  BY DEF RunNow, SchedulesInv, OpsOK, OpOK, Idle
<1>6. OccurrencesOK'
  <2>1. CASE Accept(op[o].arg, op[o].digest)
    <3>1. PICK t, d : t = op[o].arg /\ d = op[o].digest OBVIOUS
    <3> QED BY <1>1, <1>5, <2>1, <3>1, AcceptKeeps DEF SchedulesInv
  <2>2. CASE UNCHANGED occurrence BY <1>1, <2>2, OccurrencesStay DEF SchedulesInv
  <2> QED BY <2>1, <2>2 DEF RunNow
<1>7. SchedulesStored' /\ RecsOK' /\ DeclaredOK'
  BY <1>1, <1>2, StoreStays, RecsStay, DeclaredStay DEF SchedulesInv
<1> QED BY <1>1, <1>4, <1>6, <1>7 DEF SchedulesInv, RunsOK, FilledOK

(* Every step of an operator keeps the invariant. *)
LEMMA OperateKeeps ==
  ASSUME SchedulesInv, NEW o \in Operators, Operate(o) PROVE SchedulesInv'
<1>1. ASSUME NEW r \in Releases, NEW n \in Names, NEW kind \in {"pause", "resume", "run", "delete"},
             NEW arg, Check(o, r, n, kind, arg)
      PROVE  SchedulesInv'
  BY <1>1, CheckKeeps
<1>2. ASSUME NEW r \in Releases, NEW n \in Names, NEW window \in 0..(MaxWindow + 1),
             Check(o, r, n, "backfill", window)
      PROVE  SchedulesInv'
  BY <1>2, CheckKeeps, ScheduleAssumption
<1> QED BY <1>1, <1>2, MutateKeeps, RereadKeeps, RunNowKeeps DEF Operate

(* Temporal fires an occurrence of a schedule that is there. *)
LEMMA FireKeeps ==
  ASSUME SchedulesInv, NEW t, Fire(t) PROVE SchedulesInv'
<1>1. UNCHANGED <<isLocal, declared, schedules, snapshots, rec, op, runs, filled>> BY DEF Fire
<1>2. Evolves BY <1>1, NothingEvolves
<1>3. PICK id \in Ids : Present(id) /\ Accept(t, schedules[id].digest) BY DEF Fire
<1>4. PICK d : d = schedules[id].digest OBVIOUS
<1>5. d \in snapshots /\ d # AnyDigest
  BY <1>3, <1>4 DEF SchedulesInv, SchedulesStored, IsSchedule
<1>6. OccurrencesOK' BY <1>1, <1>3, <1>4, <1>5, AcceptKeeps DEF SchedulesInv
<1>7. SchedulesStored' /\ RecsOK' /\ DeclaredOK' /\ OpsOK'
  BY <1>1, <1>2, StoreStays, RecsStay, DeclaredStay, OpsStay DEF SchedulesInv
<1> QED BY <1>1, <1>6, <1>7 DEF SchedulesInv, RunsOK, FilledOK

(* An occurrence is dispatched: its target is loaded and its workflow      *)
(* started.                                                                *)
LEMMA DispatchKeeps ==
  ASSUME SchedulesInv, NEW t \in Ticks \cup RunNowKeys, Dispatch(t)
  PROVE  SchedulesInv'
<1>1. UNCHANGED <<isLocal, declared, schedules, snapshots, rec, op, filled>> BY DEF Dispatch
<1>2. Evolves BY <1>1, NothingEvolves
<1>3. PICK q : q = occurrence[t] OBVIOUS
<1>4. /\ q = [phase |-> q.phase, attempt |-> q.attempt, digest |-> q.digest] /\ q.phase = "due"
      /\ q.digest \in snapshots /\ q.digest # AnyDigest
  <2>1. occurrence[t].phase = "due" BY DEF Dispatch
  <2>2. occurrence[t] # Idle BY <2>1 DEF Idle
  <2>3. /\ occurrence[t] = [phase |-> occurrence[t].phase, attempt |-> occurrence[t].attempt,
                            digest |-> occurrence[t].digest]
        /\ occurrence[t].digest \in snapshots /\ occurrence[t].digest # AnyDigest
    BY <2>2 DEF SchedulesInv, OccurrencesOK
  <2> QED BY <1>3, <2>1, <2>3
<1>5. ~TargetUnavailable(t) BY <1>3, <1>4 DEF TargetUnavailable
<1>6. DispatchRefusal(t) = "none"
  BY <1>3, <1>4 DEF DispatchRefusal, PinnedRefusal, TargetRefusal, InputRefusal, SourceIsBound, Own
<1>7. PICK p \in {"started", "due", "failed"} :
        occurrence' = [occurrence EXCEPT ![t].phase = p, ![t].attempt = @ + 1]
  BY <1>5, <1>6 DEF Dispatch
<1>8. OccurrencesOK'
  <2>1. PICK w : w = [q EXCEPT !.phase = p, !.attempt = q.attempt + 1] OBVIOUS
  <2>2. w = [phase |-> p, attempt |-> q.attempt + 1, digest |-> q.digest] BY <1>4, <2>1
  <2>3. occurrence' = [x \in Ticks \cup RunNowKeys |-> IF x = t THEN w ELSE occurrence[x]]
    BY <1>3, <1>7, <2>1 DEF SchedulesInv, OccurrencesOK
  <2>4. /\ w = [phase |-> w.phase, attempt |-> w.attempt, digest |-> w.digest]
        /\ w.phase # "unavailable" /\ w.digest \in snapshots /\ w.digest # AnyDigest
    BY <1>4, <2>2
  <2> QED BY <1>1, <2>3, <2>4 DEF SchedulesInv, OccurrencesOK
<1>9. RunsOK'
  <2>1. CASE UNCHANGED runs BY <2>1 DEF SchedulesInv, RunsOK
  <2>2. CASE runs' = [runs EXCEPT ![<<t, 0>>] = IF @ = 0 THEN 1 ELSE @]
    <3>1. \A x, a : a # 0 => <<x, a>> # <<t, 0>> OBVIOUS
    <3>2. \A b : b # <<t, 0>> => runs'[b] = runs[b] BY <2>2
    <3> QED BY <3>1, <3>2 DEF SchedulesInv, RunsOK
  <2> QED BY <2>1, <2>2 DEF Dispatch, OccurrenceId
<1>10. SchedulesStored' /\ RecsOK' /\ DeclaredOK' /\ OpsOK'
  BY <1>1, <1>2, StoreStays, RecsStay, DeclaredStay, OpsStay DEF SchedulesInv
<1> QED BY <1>1, <1>8, <1>9, <1>10 DEF SchedulesInv, FilledOK

(* Every step of the schedules keeps their invariant. *)
LEMMA SchedulesKeepInv ==
  ASSUME SchedulesInv, SchedulesNext PROVE SchedulesInv'
  BY ReconcileKeeps, OperateKeeps, FireKeeps, DispatchKeeps DEF SchedulesNext

(* The invariant is about the variables of the schedules alone. *)
LEMMA SchedulesRest ==
  ASSUME SchedulesInv, UNCHANGED scheduleVars PROVE SchedulesInv'
<1>1. UNCHANGED <<isLocal, declared, schedules, snapshots, rec, op, occurrence, runs, filled>>
  BY DEF scheduleVars
<1>2. Evolves BY <1>1, NothingEvolves
<1>3. SchedulesStored' /\ RecsOK' /\ DeclaredOK' /\ OpsOK' /\ OccurrencesOK'
  BY <1>1, <1>2, StoreStays, RecsStay, DeclaredStay, OpsStay, OccurrencesStay DEF SchedulesInv
<1> QED BY <1>1, <1>3 DEF SchedulesInv, RunsOK, FilledOK

(* The invariant says that the target of every schedule and occurrence is  *)
(* stored.                                                                 *)
LEMMA TargetsAreRetained == ASSUME SchedulesInv PROVE TargetIsRetained
<1>1. \A id \in Ids : Present(id) => schedules[id].digest \in snapshots BY DEF SchedulesInv, SchedulesStored
<1>2. ASSUME NEW t \in Ticks \cup RunNowKeys PROVE occurrence[t].phase # "unavailable"
  <2>1. CASE occurrence[t] = Idle BY <2>1 DEF Idle
  <2>2. CASE occurrence[t] # Idle BY <2>2 DEF SchedulesInv, OccurrencesOK
  <2> QED BY <2>1, <2>2
<1> QED BY <1>1, <1>2 DEF TargetIsRetained

(* The invariant says that an occurrence runs once. *)
LEMMA OccurrencesRunOnce == ASSUME SchedulesInv PROVE OneRunPerOccurrence
<1> SUFFICES ASSUME NEW t \in Ticks \cup RunNowKeys
             PROVE  Cardinality({a \in 0..DispatchAttempts : runs[<<t, a>>] > 0}) <= 1
  BY DEF OneRunPerOccurrence
<1> DEFINE S == {a \in 0..DispatchAttempts : runs[<<t, a>>] > 0}
<1>1. S \subseteq {0} BY DEF SchedulesInv, RunsOK
<1>2. IsFiniteSet({0}) /\ Cardinality({0}) = 1 BY FS_Singleton
<1> HIDE DEF S
<1>3. Cardinality(S) <= 1 BY <1>1, <1>2, FS_Subset
<1> QED BY <1>3 DEF S

(* The invariant says that an apply without failures has converged. *)
LEMMA AppliedConverges == ASSUME SchedulesInv PROVE AppliedMeansConverged
<1> SUFFICES ASSUME NEW r \in Releases, rec[r].phase = "applying", rec[r].todo = <<>>,
                    ~rec[r].failed, rec[r].alone
             PROVE  LET desired == DesiredOf(r)
                        effective == EffectiveDesired(desired, rec[r].observed, rec[r].decision)
                    IN  /\ \A id \in effective :
                              Present(id) /\ WantedChange(desired[id], Observed(schedules[id])) = None
                        /\ \A id \in Ids \ effective :
                              Present(id) /\ OursToChange(id) =>
                                 schedules[id].scope = None /\ rec[r].decision = "retain"
                        /\ \A id \in DOMAIN desired \ effective :
                              \E i \in Ids : Present(i) /\ schedules[i].name = desired[id].name
  BY DEF AppliedMeansConverged
<1>1. PICK q, desired : q = rec[r] /\ desired = DesiredOf(r) OBVIOUS
<1>2. PICK effective : effective = EffectiveDesired(desired, q.observed, q.decision) OBVIOUS
<1>3. PlanOK(r, q) BY <1>1, PlannedPhase DEF SchedulesInv, RecsOK
<1>4. q.alone = TRUE /\ q.failed = FALSE /\ q.todo = <<>> BY <1>1, <1>3 DEF PlanOK, PlanShape
<1>5. \A id \in Ids : ~StillPlanned(q, id) BY <1>4 DEF StillPlanned
<1>6. \A id \in Ids : Settled(r, q, id) /\ KindOf(r, q, id) # "conflict"
  BY <1>3, <1>4, <1>5 DEF PlanOK
<1>7. \A id : KindOf(r, q, id) = Change(desired, q.observed, q.decision, id) BY <1>1 DEF KindOf
<1>8. DOMAIN desired \subseteq Ids BY <1>1 DEF DesiredOf, Ids
<1>9. effective \subseteq DOMAIN desired BY <1>2 DEF EffectiveDesired
<1>10. ASSUME NEW id \in effective
       PROVE  Present(id) /\ WantedChange(desired[id], Observed(schedules[id])) = None
  <2>1. id \in Ids BY <1>8, <1>9
  <2>2. KindOf(r, q, id) = IF id \in DOMAIN q.observed THEN WantedChange(desired[id], q.observed[id])
                           ELSE "create"
    BY <1>2, <1>7 DEF Change
  <2>3. KindOf(r, q, id) \in {None, "create", "update"}
    BY <1>6, <2>1, <2>2 DEF WantedChange, None
  <2>4. CASE KindOf(r, q, id) = None
    <3>1. id \in DOMAIN q.observed BY <2>2, <2>4 DEF None
    <3>2. Present(id) /\ q.observed[id] = Observed(schedules[id]) BY <1>6, <2>1, <2>4, <3>1 DEF Settled
    <3> QED BY <2>2, <2>4, <3>1, <3>2
  <2>5. CASE KindOf(r, q, id) \in {"create", "update"}
    BY <1>1, <1>6, <2>1, <2>5 DEF Settled, AsWanted
  <2> QED BY <2>3, <2>4, <2>5
<1>11. ASSUME NEW id \in Ids \ effective, Present(id), OursToChange(id)
       PROVE  schedules[id].scope = None /\ q.decision = "retain"
  <2>1. KindOf(r, q, id) = IF id \in DOMAIN q.observed
                           THEN UnwantedChange(q.observed[id], desired, AmbiguousNames(q.observed),
                                               q.decision)
                           ELSE None
    BY <1>2, <1>7, <1>11 DEF Change
  <2>2. id \in DOMAIN q.observed BY <1>6, <1>11, <2>1 DEF Settled, OursToChange
  <2>3. KindOf(r, q, id) \in {None, "delete"} BY <1>6, <1>11, <2>1, <2>2 DEF UnwantedChange, None
  <2>4. KindOf(r, q, id) = None BY <1>6, <1>11, <2>3 DEF Settled
  <2>5. q.observed[id] = Observed(schedules[id]) BY <1>6, <1>11, <2>2, <2>4 DEF Settled
  <2>6. ~q.observed[id].corrupt /\ Managed(q.observed[id]) BY <1>11, <2>5 DEF OursToChange, ValidManaged
  <2>7. q.observed[id].scope = None /\ q.decision = "retain"
    BY <2>1, <2>2, <2>4, <2>6 DEF UnwantedChange, None
  <2> QED BY <2>5, <2>7 DEF Observed
<1>12. ASSUME NEW id \in DOMAIN desired \ effective
       PROVE  \E i \in Ids : Present(i) /\ schedules[i].name = desired[id].name
  <2>1. q.decision = "retain"
        /\ desired[id].name \in UnscopedNames(q.observed) \ AmbiguousNames(q.observed)
    BY <1>2, <1>12 DEF EffectiveDesired
  <2>2. PICK i \in DOMAIN q.observed : /\ Managed(q.observed[i]) /\ q.observed[i].scope = None
                                       /\ q.observed[i].name = desired[id].name
    BY <2>1 DEF UnscopedNames
  <2>3. i \in Ids BY <1>3 DEF PlanOK, PlanShape, ObservedOK
  <2>4. KindOf(r, q, i) = None
    <3>1. CASE i \in effective
      <4>1. i \in DOMAIN desired /\ desired[i].scope = Own BY <1>1, <1>9, <3>1 DEF DesiredOf, Desired
      <4>2. KindOf(r, q, i) = "conflict"
        BY <1>2, <1>7, <2>2, <3>1, <4>1 DEF Change, WantedChange, Own, None
      <4> QED BY <1>6, <2>3, <4>2
    <3>2. CASE i \notin effective
      <4>1. KindOf(r, q, i) = UnwantedChange(q.observed[i], desired, AmbiguousNames(q.observed),
                                             q.decision)
        BY <1>2, <1>7, <2>2, <3>2 DEF Change
      <4> QED BY <1>6, <2>1, <2>2, <2>3, <4>1 DEF UnwantedChange, None
    <3> QED BY <3>1, <3>2
  <2>5. Present(i) /\ q.observed[i] = Observed(schedules[i]) BY <1>6, <2>2, <2>3, <2>4 DEF Settled
  <2>6. schedules[i].name = desired[id].name BY <2>2, <2>5 DEF Observed
  <2> QED BY <2>3, <2>5, <2>6
<1> QED BY <1>1, <1>2, <1>10, <1>11, <1>12

(* The invariant says that a backfill keeps its bound. *)
LEMMA BackfillsAreBounded == ASSUME SchedulesInv PROVE BackfillIsBounded
  BY DEF SchedulesInv, FilledOK, BackfillIsBounded

(* Which steps change a schedule, and what they find of it. *)
LEMMA WhatIsWritten ==
  ASSUME SchedulesInv, SchedulesNext, NEW id \in Ids, Present(id),
         schedules'[id] # schedules[id]
  PROVE  /\ Mine(schedules[id])
         /\ \/ schedules'[id] = Absent
            \/ \E r \in Releases : \E v :
                /\ v = DesiredOf(r)[id] /\ schedules'[id] = v
                /\ rec[r].phase = "described" /\ rec[r].seen # v.digest
            \/ \E o \in Operators : /\ op[o].phase = "mutate" /\ op[o].kind \in {"pause", "resume"}
                                     /\ PausedAs(schedules[id], op[o].kind = "pause", schedules'[id])
<1>1. ASSUME NEW r \in Releases, Create(r) PROVE FALSE
  <2>1. PICK i, v : i = Item(r).id /\ v = DesiredOf(r)[i] OBVIOUS
  <2>2. UNCHANGED schedules \/ (~Present(i) /\ WriteSchedule(i, v)) BY <1>1, <2>1 DEF Create
  <2>3. WriteSchedule(i, v) /\ i # id BY <2>2
  <2>4. schedules'[id] = schedules[id] BY <2>3 DEF WriteSchedule
  <2> QED BY <2>4
<1>2. ASSUME NEW r \in Releases, WriteItem(r)
      PROVE  /\ Mine(schedules[id])
             /\ \/ schedules'[id] = Absent
                \/ \E v : /\ v = DesiredOf(r)[id] /\ schedules'[id] = v
                          /\ rec[r].phase = "described" /\ rec[r].seen # v.digest
  <2>1. PICK q : q = rec[r] OBVIOUS
  <2>2. q.phase = "described" /\ RecOK(r, q) BY <1>2, <2>1 DEF WriteItem, SchedulesInv, RecsOK
  <2>11. PlanOK(r, q) BY <2>2, PlannedPhase
  <2>3. PlanOK(r, q) /\ q.todo # <<>> BY <2>2, <2>11 DEF PlanOK, MayWrite
  <2>4. PICK i, kind : i = Item(r).id /\ kind = Item(r).kind OBVIOUS
  <2>5. i = q.todo[1].id /\ kind = q.todo[1].kind /\ i \in Ids BY <2>1, <2>2, <2>3, <2>4, ItemAt
  <2>6. PICK v : v = IF kind = "update" THEN DesiredOf(r)[i] ELSE Absent OBVIOUS
  <2>7. WriteSchedule(i, v) BY <1>2, <2>4, <2>6 DEF WriteItem
  <2>8. schedules' = [x \in Ids |-> IF x = i THEN v ELSE schedules[x]]
    BY <2>7 DEF WriteSchedule, SchedulesInv, SchedulesStored
  <2>9. i = id /\ schedules'[id] = v BY <2>8
  <2>10. Mine(schedules[id]) /\ (kind = "update" => q.seen # DesiredOf(r)[id].digest)
    BY <2>2, <2>3, <2>5, <2>9 DEF PlanOK, MayWrite
  <2> QED BY <2>1, <2>2, <2>6, <2>9, <2>10
<1>3. ASSUME NEW o \in Operators, Mutate(o)
      PROVE  /\ Mine(schedules[id])
             /\ \/ schedules'[id] = Absent
                \/ /\ op[o].phase = "mutate" /\ op[o].kind \in {"pause", "resume"}
                   /\ PausedAs(schedules[id], op[o].kind = "pause", schedules'[id])
  <2>1. Effect(o) /\ op[o].phase = "mutate" BY <1>3 DEF Mutate, FillWindow, Unchanged
  <2>2. PICK q : q = op[o] OBVIOUS
  <2>3. OpOK(q) /\ q.phase = "mutate" BY <2>1, <2>2 DEF SchedulesInv, OpsOK
  <2>4. PICK i, s : i = q.id /\ s = schedules[i] OBVIOUS
  <2>5. i \in Ids /\ (Present(i) => Mine(s)) BY <2>3, <2>4 DEF OpOK, Idle
  <2>6. PICK v : /\ WriteSchedule(i, v)
                 /\ \/ q.kind = "pause" /\ PausedAs(s, TRUE, v)
                    \/ q.kind = "resume" /\ PausedAs(s, FALSE, v)
                    \/ v = Absent
    BY <2>1, <2>2, <2>4 DEF Effect, PausedAs
  <2>7. schedules' = [x \in Ids |-> IF x = i THEN v ELSE schedules[x]]
    BY <2>6 DEF WriteSchedule, SchedulesInv, SchedulesStored
  <2>8. i = id /\ schedules'[id] = v BY <2>7
  <2>9. Mine(schedules[id]) BY <2>4, <2>5, <2>8
  <2>10. \/ v = Absent
         \/ q.kind \in {"pause", "resume"} /\ PausedAs(s, q.kind = "pause", v)
    BY <2>6 DEF PausedAs
  <2> QED BY <2>1, <2>2, <2>4, <2>8, <2>9, <2>10
<1>4. \/ \E r \in Releases : Create(r) \/ WriteItem(r)
      \/ \E o \in Operators : Mutate(o)
  <2>1. schedules' # schedules OBVIOUS
  <2>2. ASSUME NEW r \in Releases, Reconcile(r) PROVE Create(r) \/ WriteItem(r)
    BY <2>1, <2>2 DEF Reconcile, ListSchedules, DescribeSchedule, StoreSnapshots, Plan, DescribeItem
  <2>3. ASSUME NEW o \in Operators, Operate(o) PROVE Mutate(o)
    BY <2>1, <2>3 DEF Operate, Check, Reread, Unchanged, RunNow
  <2>4. ASSUME NEW t, Fire(t) \/ Dispatch(t) PROVE FALSE BY <2>1, <2>4 DEF Fire, Dispatch
  <2> QED BY <2>2, <2>3, <2>4 DEF SchedulesNext
<1> QED BY <1>1, <1>2, <1>3, <1>4

OnlyManagedChange ==
  \A id \in Ids : Present(id) /\ schedules'[id] # schedules[id] => OursToChange(id)

PauseIsNotLifted ==
  \A id \in Ids :
     Present(id) /\ schedules'[id] # Absent /\ schedules[id].paused /\ ~schedules'[id].paused
     => \/ schedules'[id].digest # schedules[id].digest
        \/ \E r \in Releases : rec[r].phase = "described" /\ rec[r].seen # schedules[id].digest
        \/ \E o \in Operators : op[o].phase = "mutate" /\ op[o].kind = "resume"

(* A step changes no schedule of others, and a repeated reconciliation     *)
(* lifts no pause.                                                         *)
LEMMA SchedulesAct ==
  ASSUME SchedulesInv, SchedulesNext
  PROVE  OnlyManagedChange /\ PauseIsNotLifted
<1>1. OnlyManagedChange BY WhatIsWritten DEF OnlyManagedChange, Mine, OursToChange
<1>2. ASSUME NEW id \in Ids, Present(id), schedules'[id] # Absent, schedules[id].paused,
             ~schedules'[id].paused
      PROVE  \/ schedules'[id].digest # schedules[id].digest
             \/ \E r \in Releases : rec[r].phase = "described" /\ rec[r].seen # schedules[id].digest
             \/ \E o \in Operators : op[o].phase = "mutate" /\ op[o].kind = "resume"
  <2>1. schedules'[id] # schedules[id] BY <1>2
  <2>2. CASE \E r \in Releases : \E v : /\ v = DesiredOf(r)[id] /\ schedules'[id] = v
                                         /\ rec[r].phase = "described" /\ rec[r].seen # v.digest
    BY <2>2
  <2>3. ASSUME NEW o \in Operators, op[o].phase = "mutate", op[o].kind \in {"pause", "resume"},
               PausedAs(schedules[id], op[o].kind = "pause", schedules'[id])
        PROVE  op[o].kind = "resume"
    <3>1. IsSchedule(schedules[id]) BY <1>2 DEF SchedulesInv, SchedulesStored
    <3>2. "paused" \in DOMAIN schedules[id] BY <3>1 DEF IsSchedule
    <3>3. schedules'[id].paused = (op[o].kind = "pause") BY <2>3, <3>2 DEF PausedAs
    <3> QED BY <1>2, <2>3, <3>3
  <2> QED BY <1>2, <2>1, <2>2, <2>3, WhatIsWritten
<1> QED BY <1>1, <1>2 DEF PauseIsNotLifted

-----------------------------------------------------------------------------
(* The catalog: what every call may rely on at the point it has reached.   *)
(* Manifests only become complete, so what a call found stored stays       *)
(* stored while the others go on.                                          *)

Swapping == {"swap", "replace", "put", "verify", "reread"}

Working ==
  [pc : {"first", "second", "create", "write"} \cup Swapping,
   kind : {"publish", "import", "load"}, want : Documents, base : Documents,
   known : SUBSET Keys, todo : SUBSET Keys, file : Keys \cup {NoFile}]

(* What a call x may rely on when `stored' are the complete manifests of   *)
(* a store of kind b.                                                      *)
Ended(x) == x = [pc |-> "done", result |-> x.result] /\ x.result # "missing"
Relies(x, stored, b) ==
  /\ x.pc = "second" => KeysOf(x.base) \subseteq stored
  /\ x.pc = "write" => x.file \in x.todo
  /\ x.pc \in {"create", "write"} => KeysOf(x.want) \subseteq stored \cup x.todo
  /\ x.pc \in Swapping => KeysOf(x.want) \subseteq stored
  /\ x.pc = "replace" => b = "local"
  /\ x.kind = "import" /\ x.pc \in {"create", "write"} \cup Swapping
       => ~ImportConflicts(x.base, x.want)
CallOK(x, stored, b) == x = NoCall \/ Ended(x) \/ (x \in Working /\ Relies(x, stored, b))

ManifestsOK ==
  /\ manifests \in [Keys -> {"absent", "torn", "ok"}]
  /\ aliases \in Documents
  /\ AliasesResolve
  /\ NoLostAliases
CallsOK ==
  /\ call = [c \in Callers |-> call[c]]
  /\ \A c \in Callers : CallOK(call[c], Stored, backend)
CatalogInv == ManifestsOK /\ CallsOK

(* A document names keys. *)
LEMMA KeysOfDocument == \A doc \in Documents : KeysOf(doc) \subseteq Keys
  BY DEF KeysOf, Documents, Keys, Named

(* A call loses nothing when manifests are completed. *)
LEMMA MoreStored ==
  ASSUME NEW x, NEW S, NEW T, NEW b, S \subseteq T, CallOK(x, S, b)
  PROVE  CallOK(x, T, b)
  BY DEF CallOK, Relies

(* A step of one caller that completes manifests, or none, keeps the       *)
(* calls, if what it leaves of its own call may rely on what is stored.    *)
LEMMA OneCallerSteps ==
  ASSUME CallsOK, NEW c \in Callers, NEW v, SetCall(c, v), backend' = backend,
         Stored \subseteq Stored', CallOK(v, Stored', backend)
  PROVE  CallsOK'
<1>1. call' = [d \in Callers |-> IF d = c THEN v ELSE call[d]]
  BY DEF CallsOK, SetCall
<1>2. \A d \in Callers : CallOK(call[d], Stored', backend)
  BY MoreStored DEF CallsOK
<1>3. \A d \in Callers : CallOK(call'[d], Stored', backend')
  BY <1>1, <1>2
<1> QED BY <1>1, <1>3 DEF CallsOK

(* The end of a call relies on nothing. *)
LEMMA EndedIsOK ==
  ASSUME NEW r, r # "missing", NEW S, NEW b
  PROVE  CallOK([pc |-> "done", result |-> r], S, b)
  BY DEF CallOK, Ended

(* A step that leaves the store alone keeps the invariant, if what it      *)
(* leaves of its own call may rely on what is stored.                      *)
LEMMA StoreUntouched ==
  ASSUME CatalogInv, UNCHANGED <<backend, manifests, aliases, lost>>, NEW c \in Callers,
         NEW v, SetCall(c, v), CallOK(v, Stored, backend)
  PROVE  CatalogInv'
<1>1. Stored' = Stored
  BY DEF Stored
<1>2. CallsOK'
  BY <1>1, OneCallerSteps DEF CatalogInv
<1>3. ManifestsOK'
  BY <1>1 DEF CatalogInv, ManifestsOK, AliasesResolve, NoLostAliases
<1> QED BY <1>2, <1>3 DEF CatalogInv

(* So does the end of a call. *)
LEMMA CallEnds ==
  ASSUME CatalogInv, UNCHANGED <<backend, manifests, aliases, lost>>, NEW c \in Callers,
         NEW r, r # "missing", Finish(c, r)
  PROVE  CatalogInv'
  BY EndedIsOK, StoreUntouched DEF Finish

(* A manifest that is completed stays complete. *)
LEMMA Completes ==
  ASSUME ManifestsOK, NEW k \in Keys, Manifest(k, "ok")
  PROVE  /\ manifests' \in [Keys -> {"absent", "torn", "ok"}]
         /\ Stored' = Stored \cup {k}
  BY DEF ManifestsOK, Manifest, Stored

(* A call that works has a place where it stands. *)
LEMMA WorkingCall ==
  ASSUME CallsOK, NEW c \in Callers, call[c].pc # "done", call[c].pc # "idle"
  PROVE  call[c] \in Working /\ Relies(call[c], Stored, backend)
  BY DEF CallsOK, CallOK, NoCall, Ended

(* The catalog begins without definitions. *)
LEMMA CatalogStarts == CatalogInit => CatalogInv
<1> SUFFICES ASSUME NEW s \in {"local", "s3"}, CatalogIs(s) PROVE CatalogInv
  BY DEF CatalogInit
<1>1. aliases \in Documents /\ KeysOf(aliases) = {}
  BY DEF CatalogIs, Documents, Unpublished, KeysOf, Named
<1>2. ManifestsOK
  BY <1>1 DEF CatalogIs, ManifestsOK, AliasesResolve, NoLostAliases
<1>3. CallsOK
  BY DEF CatalogIs, CallsOK, CallOK
<1> QED BY <1>2, <1>3 DEF CatalogInv

-----------------------------------------------------------------------------
(* The steps that only read. *)

(* A call begins. *)
LEMMA BeginOK ==
  ASSUME CatalogInv, NEW c \in Callers, NEW q \in CatalogCalls, Begin(c, q)
  PROVE  CatalogInv'
<1> DEFINE v == [pc |-> "first", kind |-> q.kind, want |-> q.want,
                 base |-> Unpublished, known |-> {}, todo |-> {}, file |-> NoFile]
<1>1. Unpublished \in Documents
  BY DEF Unpublished, Documents
<1>2. v \in Working
  BY <1>1, CallsAssumption DEF Working
<1>3. Relies(v, Stored, backend)
  BY DEF Relies, Swapping
<1>4. SetCall(c, v) /\ UNCHANGED <<backend, manifests, aliases, lost>>
  BY DEF Begin
<1> HIDE DEF v
<1>5. CallOK(v, Stored, backend)
  BY <1>2, <1>3 DEF CallOK
<1> QED BY <1>4, <1>5, StoreUntouched

(* The alias document is read before the manifests: the manifests it names *)
(* were complete then, and still are.                                      *)
LEMMA LoadOK ==
  ASSUME CatalogInv, NEW c \in Callers, Load(c)
  PROVE  CatalogInv'
<1> DEFINE x == call[c]
<1>1. x \in Working /\ Relies(x, Stored, backend)
  BY WorkingCall DEF Load, CatalogInv
<1>2. UNCHANGED <<backend, manifests, aliases, lost>>
  BY DEF Load
<1>3. CASE x.pc = "first"
  <2> DEFINE v == [x EXCEPT !.pc = "second", !.base = aliases, !.known = x.known]
  <2>1. Finish(c, "unpublished") \/ SetCall(c, v)
    BY <1>3 DEF Load, Reads
  <2>2. v \in Working /\ v.pc = "second" /\ v.base = aliases
    BY <1>1 DEF Working, CatalogInv, ManifestsOK
  <2>3. KeysOf(v.base) \subseteq Stored
    BY <2>2 DEF CatalogInv, ManifestsOK, AliasesResolve
  <2> HIDE DEF v
  <2>4. CallOK(v, Stored, backend)
    BY <2>2, <2>3 DEF CallOK, Relies, Swapping
  <2> QED BY <1>2, <2>1, <2>4, CallEnds, StoreUntouched
<1>4. CASE x.pc = "second"
  <2> DEFINE v == [x EXCEPT !.base = x.base, !.known = Stored, !.pc = "create",
                     !.todo = IF x.kind = "import" THEN KeysOf(x.want) \ Stored
                              ELSE KeysOf(x.want)]
  <2>1. KeysOf(x.base) \subseteq Stored
    BY <1>1, <1>4 DEF Relies
  <2>2. \/ \E r \in {"corrupt", "ok", "drift", "conflict"} : Finish(c, r)
        \/ SetCall(c, v) /\ (x.kind = "import" => ~ImportConflicts(x.base, x.want))
    BY <1>4, <2>1 DEF Load, Reads, AfterLoad
  <2>3. KeysOf(x.want) \subseteq Keys /\ Stored \subseteq Keys
    BY <1>1, KeysOfDocument DEF Working, Stored
  <2>4. /\ v \in Working /\ v.pc = "create" /\ v.kind = x.kind /\ v.base = x.base
        /\ v.want = x.want /\ KeysOf(x.want) \subseteq Stored \cup v.todo
    BY <1>1, <2>3 DEF Working
  <2> HIDE DEF v
  <2>5. ASSUME x.kind = "import" => ~ImportConflicts(x.base, x.want)
        PROVE  CallOK(v, Stored, backend)
    BY <2>4, <2>5 DEF CallOK, Relies, Swapping
  <2> QED BY <1>2, <2>2, <2>5, CallEnds, StoreUntouched
<1> QED BY <1>3, <1>4 DEF Load

(* A call created the manifests that were missing. *)
LEMMA CreatedOK ==
  ASSUME CatalogInv, NEW c \in Callers, Created(c)
  PROVE  CatalogInv'
<1> DEFINE x == call[c]
           v == [x EXCEPT !.pc = "swap"]
<1>1. x \in Working /\ Relies(x, Stored, backend)
  BY WorkingCall DEF Created, CatalogInv
<1>2. UNCHANGED <<backend, manifests, aliases, lost>>
  BY DEF Created
<1>3. KeysOf(x.want) \subseteq Stored /\ KeysOf(aliases) \subseteq Stored
  BY <1>1 DEF Created, Relies, CatalogInv, ManifestsOK, AliasesResolve
<1>4. Finish(c, "ok") \/ Finish(c, "corrupt") \/ SetCall(c, v)
  BY <1>3 DEF Created, GoTo
<1>5. /\ v \in Working /\ v.pc = "swap" /\ v.want = x.want /\ v.base = x.base
      /\ v.kind = x.kind
  BY <1>1 DEF Working, Swapping
<1>6. x.kind = "import" => ~ImportConflicts(x.base, x.want)
  BY <1>1 DEF Relies, Created
<1> HIDE DEF v
<1>7. CallOK(v, Stored, backend)
  BY <1>3, <1>5, <1>6 DEF CallOK, Relies, Swapping
<1> QED BY <1>2, <1>4, <1>7, CallEnds, StoreUntouched

(* Once its manifests are complete a call may move from step to step of    *)
(* the swap.                                                               *)
LEMMA SwapGoesOn ==
  ASSUME CatalogInv, NEW c \in Callers, call[c].pc \in Swapping, NEW p \in Swapping,
         p = "replace" => backend = "local"
  PROVE  CallOK([call[c] EXCEPT !.pc = p], Stored, backend)
<1> DEFINE x == call[c]
           v == [x EXCEPT !.pc = p]
<1>1. x \in Working /\ Relies(x, Stored, backend)
  BY WorkingCall DEF CatalogInv, Swapping
<1>2. v \in Working /\ v.pc = p /\ v.want = x.want /\ v.base = x.base /\ v.kind = x.kind
  BY <1>1 DEF Working
<1>3. KeysOf(x.want) \subseteq Stored /\ (x.kind = "import" => ~ImportConflicts(x.base, x.want))
  BY <1>1 DEF Relies
<1> HIDE DEF v
<1>4. Relies(v, Stored, backend)
  BY <1>2, <1>3 DEF Relies, Swapping
<1>5. CallOK(v, Stored, backend)
  BY <1>2, <1>4 DEF CallOK
<1> QED BY <1>5 DEF v

(* A call reads the alias document before it replaces it. *)
LEMMA ReadBeforeSwapOK ==
  ASSUME CatalogInv, NEW c \in Callers, ReadBeforeSwap(c)
  PROVE  CatalogInv'
<1>1. UNCHANGED <<backend, manifests, aliases, lost>> /\ call[c].pc \in Swapping
  BY DEF ReadBeforeSwap, Swapping
<1>2. \/ Finish(c, "ok") \/ Finish(c, "conflict")
      \/ \E p \in {"replace", "put"} : GoTo(c, p) /\ (p = "replace" => backend = "local")
  BY DEF ReadBeforeSwap
<1>3. CASE Finish(c, "ok") \/ Finish(c, "conflict")
  BY <1>1, <1>3, CallEnds
<1>4. ASSUME NEW p \in {"replace", "put"}, GoTo(c, p), p = "replace" => backend = "local"
      PROVE  CatalogInv'
  <2>1. CallOK([call[c] EXCEPT !.pc = p], Stored, backend)
    BY <1>1, <1>4, SwapGoesOn DEF Swapping
  <2> QED BY <1>1, <1>4, <2>1, StoreUntouched DEF GoTo
<1> QED BY <1>2, <1>3, <1>4

(* A call reads back the alias document it wrote. *)
LEMMA ReadBackOK ==
  ASSUME CatalogInv, NEW c \in Callers, ReadBack(c)
  PROVE  CatalogInv'
<1>1. \E r \in {"ok", "storage", "conflict"} : Finish(c, r)
  BY DEF ReadBack
<1> QED BY <1>1, CallEnds DEF ReadBack

(* A caller crashes: a file it was writing is torn. *)
LEMMA CrashOK ==
  ASSUME CatalogInv, NEW c \in Callers, Crash(c)
  PROVE  CatalogInv'
<1>1. CallOK(NoCall, Stored, backend)
  BY DEF CallOK
<1> QED BY <1>1, StoreUntouched DEF Crash

-----------------------------------------------------------------------------
(* The steps that write manifests. *)

(* A step of one caller that completes manifest k, or begins a file that   *)
(* was absent, keeps what the store and the other calls rely on.           *)
LEMMA ManifestsGrow ==
  ASSUME CatalogInv, UNCHANGED <<backend, aliases, lost>>, NEW c \in Callers, NEW v, SetCall(c, v),
         manifests' \in [Keys -> {"absent", "torn", "ok"}], Stored \subseteq Stored',
         CallOK(v, Stored', backend)
  PROVE  CatalogInv'
<1>1. CallsOK'
  BY OneCallerSteps DEF CatalogInv
<1>2. ManifestsOK'
  BY DEF CatalogInv, ManifestsOK, AliasesResolve, NoLostAliases
<1> QED BY <1>1, <1>2 DEF CatalogInv

(* What is left to do of a call that has one manifest less to create. *)
LEMMA OneLess ==
  ASSUME CatalogInv, NEW c \in Callers, call[c].pc \in {"create", "write"}, NEW k, NEW S,
         Stored \subseteq S, k \in S
  PROVE  CallOK([call[c] EXCEPT !.pc = "create", !.todo = @ \ {k}], S, backend)
<1> DEFINE x == call[c]
           v == [x EXCEPT !.pc = "create", !.todo = @ \ {k}]
<1>1. x \in Working /\ Relies(x, Stored, backend)
  BY WorkingCall DEF CatalogInv
<1>2. /\ v \in Working /\ v.pc = "create" /\ v.want = x.want /\ v.base = x.base
      /\ v.kind = x.kind /\ v.todo = x.todo \ {k}
  BY <1>1 DEF Working
<1>3. KeysOf(x.want) \subseteq S \cup (x.todo \ {k})
  BY <1>1 DEF Relies
<1>4. x.kind = "import" => ~ImportConflicts(x.base, x.want)
  BY <1>1 DEF Relies
<1> HIDE DEF v
<1>5. CallOK(v, S, backend)
  BY <1>2, <1>3, <1>4 DEF CallOK, Relies, Swapping
<1> QED BY <1>5 DEF v

(* A call creates the file of a manifest. *)
LEMMA CreateFileOK ==
  ASSUME CatalogInv, NEW c \in Callers, NEW k \in Keys, CreateFile(c, k)
  PROVE  CatalogInv'
<1> DEFINE x == call[c]
           v == [x EXCEPT !.pc = "write", !.file = k]
           w == [x EXCEPT !.todo = @ \ {k}]
<1>1. x \in Working /\ Relies(x, Stored, backend) /\ x.pc = "create" /\ k \in x.todo
  BY WorkingCall DEF CreateFile, CatalogInv
<1>2. manifests \in [Keys -> {"absent", "torn", "ok"}]
  BY DEF CatalogInv, ManifestsOK
<1>3. CASE manifests[k] = "absent"
  <2>1. Manifest(k, "torn") /\ SetCall(c, v) /\ UNCHANGED <<backend, aliases, lost>>
    BY <1>3 DEF CreateFile
  <2>2. manifests' \in [Keys -> {"absent", "torn", "ok"}] /\ Stored \subseteq Stored'
    BY <1>2, <1>3, <2>1 DEF Manifest, Stored
  <2>3. /\ v \in Working /\ v.pc = "write" /\ v.want = x.want /\ v.base = x.base
        /\ v.kind = x.kind /\ v.todo = x.todo /\ v.file = k
    BY <1>1 DEF Working
  <2> HIDE DEF v
  <2>4. CallOK(v, Stored, backend)
    BY <1>1, <2>3 DEF CallOK, Relies, Swapping
  <2>5. CallOK(v, Stored', backend)
    BY <2>2, <2>4, MoreStored
  <2> QED BY <2>1, <2>2, <2>5, ManifestsGrow
<1>4. CASE manifests[k] = "torn"
  BY <1>4, CallEnds DEF CreateFile
<1>5. CASE manifests[k] = "ok"
  <2>1. SetCall(c, w) /\ UNCHANGED <<backend, manifests, aliases, lost>>
    BY <1>5 DEF CreateFile
  <2>2. w = [x EXCEPT !.pc = "create", !.todo = @ \ {k}]
    BY <1>1 DEF Working
  <2>3. k \in Stored
    BY <1>5 DEF Stored
  <2>4. CallOK(w, Stored, backend)
    BY <1>1, <2>2, <2>3, OneLess
  <2> QED BY <2>1, <2>4, StoreUntouched
<1> QED BY <1>2, <1>3, <1>4, <1>5

(* A call writes the file of a manifest. *)
LEMMA WriteFileOK ==
  ASSUME CatalogInv, NEW c \in Callers, WriteFile(c)
  PROVE  CatalogInv'
<1> DEFINE x == call[c]
           k == x.file
<1>1. x \in Working /\ Relies(x, Stored, backend) /\ x.pc = "write"
  BY WorkingCall DEF WriteFile, CatalogInv
<1>2. k \in Keys
  BY <1>1 DEF Working, Relies
<1>3. CASE Finish(c, "storage") /\ UNCHANGED manifests
  BY <1>3, CallEnds DEF WriteFile
<1>4. CASE /\ Manifest(k, "ok")
           /\ SetCall(c, [x EXCEPT !.pc = "create", !.todo = @ \ {k}])
  <2>1. manifests' \in [Keys -> {"absent", "torn", "ok"}] /\ Stored' = Stored \cup {k}
    BY <1>2, <1>4, Completes DEF CatalogInv
  <2>2. CallOK([x EXCEPT !.pc = "create", !.todo = @ \ {k}], Stored', backend)
    BY <1>1, <2>1, OneLess
  <2> QED BY <1>4, <2>1, <2>2, ManifestsGrow DEF WriteFile
<1> QED BY <1>3, <1>4 DEF WriteFile

(* A call puts a manifest into S3. *)
LEMMA PutManifestOK ==
  ASSUME CatalogInv, NEW c \in Callers, NEW k \in Keys, PutManifest(c, k)
  PROVE  CatalogInv'
<1> DEFINE x == call[c]
           w == [x EXCEPT !.todo = @ \ {k}]
<1>1. x \in Working /\ x.pc = "create"
  BY WorkingCall DEF PutManifest, CatalogInv
<1>2. CASE Finish(c, "storage") /\ UNCHANGED manifests
  BY <1>2, CallEnds DEF PutManifest
<1>3. CASE Manifest(k, "ok")
  <2>1. manifests' \in [Keys -> {"absent", "torn", "ok"}] /\ Stored' = Stored \cup {k}
    BY <1>3, Completes DEF CatalogInv
  <2>2. w = [x EXCEPT !.pc = "create", !.todo = @ \ {k}]
    BY <1>1 DEF Working
  <2>3. CallOK(w, Stored', backend)
    BY <1>1, <2>1, <2>2, OneLess
  <2>4. CallOK([pc |-> "done", result |-> "storage"], Stored', backend)
    BY EndedIsOK
  <2>5. SetCall(c, w) \/ SetCall(c, [pc |-> "done", result |-> "storage"])
    BY DEF PutManifest, Finish
  <2> QED BY <2>1, <2>3, <2>4, <2>5, ManifestsGrow DEF PutManifest
<1> QED BY <1>2, <1>3 DEF PutManifest

-----------------------------------------------------------------------------
(* The steps that write the alias document. *)

(* A call that swaps may leave its document: its manifests are complete.   *)
LEMMA AliasesSwapped ==
  ASSUME CatalogInv, UNCHANGED <<backend, manifests>>, NEW c \in Callers, call[c].pc \in Swapping,
         aliases' = call[c].want, lost' => (lost \/ backend = "local"),
         NEW v, SetCall(c, v), CallOK(v, Stored, backend)
  PROVE  CatalogInv'
<1>1. call[c] \in Working /\ KeysOf(call[c].want) \subseteq Stored
  BY WorkingCall DEF CatalogInv, Relies, Swapping
<1>2. Stored' = Stored
  BY DEF Stored
<1>3. CallsOK'
  BY <1>2, OneCallerSteps DEF CatalogInv
<1>4. aliases' \in Documents
  BY <1>1 DEF Working
<1>5. AliasesResolve'
  BY <1>1, <1>2 DEF AliasesResolve, KeysOf, Named
<1>6. ManifestsOK'
  BY <1>4, <1>5 DEF CatalogInv, ManifestsOK, NoLostAliases
<1> QED BY <1>3, <1>6 DEF CatalogInv

(* A call replaces the alias document, if it is as it was read. *)
LEMMA ReplaceFileOK ==
  ASSUME CatalogInv, NEW c \in Callers, ReplaceFile(c)
  PROVE  CatalogInv'
<1>1. call[c].pc \in Swapping /\ backend = "local"
  BY WorkingCall DEF ReplaceFile, CatalogInv, Relies, Swapping
<1>2. CASE Finish(c, "storage") /\ UNCHANGED <<aliases, lost>>
  BY <1>2, CallEnds DEF ReplaceFile
<1>3. CASE aliases' = call[c].want /\ Finish(c, "ok")
  <2>1. CallOK([pc |-> "done", result |-> "ok"], Stored, backend)
    BY EndedIsOK
  <2> QED BY <1>1, <1>3, <2>1, AliasesSwapped DEF ReplaceFile, Finish
<1> QED BY <1>2, <1>3 DEF ReplaceFile

(* A call puts the alias document into S3, if it is as it was read. *)
LEMMA PutAliasesOK ==
  ASSUME CatalogInv, NEW c \in Callers, PutAliases(c)
  PROVE  CatalogInv'
<1>1. call[c].pc \in Swapping /\ UNCHANGED <<backend, manifests>>
  BY DEF PutAliases, Swapping
<1>2. \A p \in {"verify", "reread"} : CallOK([call[c] EXCEPT !.pc = p], Stored, backend)
  BY <1>1, SwapGoesOn DEF Swapping
<1>3. CallOK([pc |-> "done", result |-> "storage"], Stored, backend)
  BY EndedIsOK
<1>4. CASE UNCHANGED <<aliases, lost>> /\ (Finish(c, "storage") \/ GoTo(c, "reread"))
  BY <1>1, <1>2, <1>3, <1>4, StoreUntouched DEF Finish, GoTo
<1>5. CASE /\ aliases' = call[c].want /\ aliases = call[c].base
           /\ lost' = (lost \/ aliases # call[c].base)
           /\ Finish(c, "storage") \/ GoTo(c, "verify")
  BY <1>1, <1>2, <1>3, <1>5, AliasesSwapped DEF Finish, GoTo
<1> QED BY <1>4, <1>5 DEF PutAliases, PutMatches

-----------------------------------------------------------------------------

(* Every step of the catalog keeps its invariant. *)
LEMMA CatalogKeepsInv ==
  ASSUME CatalogInv, [CatalogNext]_catalogVars
  PROVE  CatalogInv'
<1>1. CASE UNCHANGED catalogVars
  BY <1>1 DEF catalogVars, CatalogInv, ManifestsOK, CallsOK, AliasesResolve, NoLostAliases, KeysOf, Named,
              Stored
<1>2. ASSUME NEW c \in Callers, NEW q \in CatalogCalls, Begin(c, q) PROVE CatalogInv'
  BY <1>2, BeginOK
<1>3. ASSUME NEW c \in Callers, Load(c) \/ WriteFile(c) \/ Created(c) \/ ReadBeforeSwap(c)
      PROVE  CatalogInv'
  BY <1>3, LoadOK, WriteFileOK, CreatedOK, ReadBeforeSwapOK
<1>4. ASSUME NEW c \in Callers, NEW k \in Keys, CreateFile(c, k) \/ PutManifest(c, k)
      PROVE  CatalogInv'
  BY <1>4, CreateFileOK, PutManifestOK
<1>5. ASSUME NEW c \in Callers, ReplaceFile(c) \/ PutAliases(c) \/ ReadBack(c) \/ Crash(c)
      PROVE  CatalogInv'
  BY <1>5, ReplaceFileOK, PutAliasesOK, ReadBackOK, CrashOK
<1> QED BY <1>1, <1>2, <1>3, <1>4, <1>5 DEF CatalogNext

-----------------------------------------------------------------------------
(* The components side by side. *)

(* A load that ended found every definition it was asked for. *)
LEMMA CatalogIsAvailable ==
  ASSUME CatalogInv PROVE AliasesResolve /\ LoadFindsEveryDefinition /\ NoLostAliases
<1> SUFFICES ASSUME NEW c \in Callers, call[c].pc = "done" PROVE call[c].result # "missing"
  BY DEF CatalogInv, ManifestsOK, LoadFindsEveryDefinition
<1> QED BY DEF CatalogInv, CallsOK, CallOK, NoCall, Ended, Working, Swapping

(* An import adds aliases to the document it planned for. *)
ImportAdds ==
  \A c \in Callers :
     /\ call[c].pc \in {"replace", "put"} /\ call[c].kind = "import"
     /\ aliases' # aliases /\ call'[c] # call[c] /\ aliases = call[c].base
     => \A w \in Named(aliases) : aliases'[w] = aliases[w]

(* It changes none that is there: it would conflict. *)
LEMMA ImportsOnlyAdd == ASSUME CatalogInv, CatalogNext PROVE ImportAdds
<1> SUFFICES ASSUME NEW c \in Callers, call[c].pc \in {"replace", "put"},
                    call[c].kind = "import", aliases' # aliases, call'[c] # call[c],
                    aliases = call[c].base
             PROVE  \A w \in Named(aliases) : aliases'[w] = aliases[w]
  BY DEF ImportAdds
<1>1. ~ImportConflicts(call[c].base, call[c].want)
  BY WorkingCall DEF CatalogInv, Relies, Swapping
<1>2. PICK d \in Callers : ReplaceFile(d) \/ PutAliases(d)
  BY DEF CatalogNext, Begin, Load, WriteFile, Created, ReadBeforeSwap, CreateFile, PutManifest,
         ReadBack, Crash
<1>3. \E v : SetCall(d, v)
  BY <1>2 DEF ReplaceFile, PutAliases, Finish, GoTo
<1>4. d = c
  BY <1>3 DEF SetCall, CatalogInv, CallsOK
<1>5. aliases' = call[c].want
  BY <1>2, <1>4 DEF ReplaceFile, PutAliases
<1> QED BY <1>1, <1>5 DEF ImportConflicts

-----------------------------------------------------------------------------
(* Sorted lists.                                                           *)

(* Induction: what has 0 and n + 1 for every n it has, has all numbers. *)
LEMMA ByInduction ==
    ASSUME NEW S, 0 \in S, \A n \in Nat : n \in S => n + 1 \in S
    PROVE  \A n \in Nat : n \in S
<1> DEFINE T == Nat \ S
           R == OpToRel(<, Nat)
<1> SUFFICES ASSUME T # {} PROVE FALSE
  OBVIOUS
<1>1. PICK x \in T : \A y \in T : <<y, x>> \notin R
  <2>1. IsWellFoundedOn(R, Nat) BY NatLessThanWellFounded
  <2>2. T \subseteq Nat /\ T # {} OBVIOUS
  <2> HIDE DEF T, R
  <2>3. \E z \in T : \A y \in T : ~(<<y, z>> \in R) BY <2>1, <2>2, WFMin
  <2> QED BY <2>3
<1>2. \A y \in Nat \ S : ~(y < x)
  BY <1>1 DEF OpToRel
<1> HIDE DEF R
<1>3. x \in Nat /\ x \notin S
  OBVIOUS
<1>4. x # 0
  BY <1>3
<1>5. x - 1 \in Nat /\ (x - 1) + 1 = x /\ x - 1 < x
  BY <1>3, <1>4
<1>6. x - 1 \in S
  BY <1>2, <1>5
<1>7. (x - 1) + 1 \in S
  BY <1>5, <1>6
<1> QED BY <1>3, <1>5, <1>7

(* An order of a set is total and strict. *)
Orders(R, T) ==
  /\ \A x \in T : <<x, x>> \notin R
  /\ \A x, y, z \in T : <<x, y>> \in R /\ <<y, z>> \in R => <<x, z>> \in R
  /\ \A x, y \in T : x # y => <<x, y>> \in R \/ <<y, x>> \in R

(* f lists T, each member once, in the order R. *)
Lists(f, T, R) ==
  /\ f \in [1..Cardinality(T) -> T]
  /\ \A i, j \in 1..Cardinality(T) : i < j => <<f[i], f[j]>> \in R

Greatest(x, T, R) == x \in T /\ \A y \in T \ {x} : <<y, x>> \in R

(* A finite set with an order has a greatest member, *)
LEMMA GreatestExists ==
    ASSUME NEW R, NEW T, IsFiniteSet(T), Orders(R, T)
    PROVE  \A U \in SUBSET T : U # {} => \E x : Greatest(x, U, R)
<1> DEFINE S == {n \in Nat : \A U \in SUBSET T : Cardinality(U) = n + 1 => \E x : Greatest(x, U, R)}
<1>1. \A U \in SUBSET T : IsFiniteSet(U) /\ Cardinality(U) \in Nat
  BY FS_Subset, FS_CardinalityType
<1>2. 0 \in S
  <2> SUFFICES ASSUME NEW U \in SUBSET T, Cardinality(U) = 1 PROVE \E x : Greatest(x, U, R)
    OBVIOUS
  <2>1. PICK x : U = {x}
    BY <1>1, FS_Singleton
  <2> QED BY <2>1 DEF Greatest
<1>3. ASSUME NEW n \in Nat, n \in S PROVE n + 1 \in S
  <2> SUFFICES ASSUME NEW U \in SUBSET T, Cardinality(U) = n + 2 PROVE \E x : Greatest(x, U, R)
    OBVIOUS
  <2>1. PICK x : x \in U
    BY <1>1, FS_EmptySet
  <2>2. U \ {x} \in SUBSET T /\ Cardinality(U \ {x}) = n + 1
    BY <1>1, <2>1, FS_RemoveElement
  <2>3. PICK y : Greatest(y, U \ {x}, R)
    BY <1>3, <2>2
  <2>4. y \in T /\ x \in T /\ y # x /\ y \in U
    BY <2>1, <2>3 DEF Greatest
  <2>5. CASE <<x, y>> \in R
    BY <2>3, <2>4, <2>5 DEF Greatest
  <2>6. CASE <<y, x>> \in R
    <3>1. ASSUME NEW z \in U \ {x} PROVE <<z, x>> \in R
      <4>1. CASE z = y
        BY <2>6, <4>1
      <4>2. CASE z # y
        <5>1. <<z, y>> \in R /\ z \in T
          BY <2>3, <4>2 DEF Greatest
        <5> QED BY <2>4, <2>6, <5>1 DEF Orders
      <4> QED BY <4>1, <4>2
    <3> QED BY <2>1, <3>1 DEF Greatest
  <2> QED BY <2>4, <2>5, <2>6 DEF Orders
<1> HIDE DEF S
<1>4. \A n \in Nat : n \in S
  BY <1>2, <1>3, ByInduction
<1> SUFFICES ASSUME NEW U \in SUBSET T, U # {} PROVE \E x : Greatest(x, U, R)
  OBVIOUS
<1>5. Cardinality(U) # 0 /\ Cardinality(U) \in Nat
  BY <1>1, FS_EmptySet
<1>6. Cardinality(U) - 1 \in Nat /\ Cardinality(U) = (Cardinality(U) - 1) + 1
  BY <1>5
<1>7. Cardinality(U) - 1 \in S
  BY <1>4, <1>6
<1> QED BY <1>6, <1>7 DEF S

(* so it can be listed in order. *)
LEMMA ListExists ==
    ASSUME NEW R, NEW T, IsFiniteSet(T), Orders(R, T)
    PROVE  \E f : Lists(f, T, R)
<1> DEFINE S == {n \in Nat : \A U \in SUBSET T : Cardinality(U) = n => \E f : Lists(f, U, R)}
<1>1. \A U \in SUBSET T : IsFiniteSet(U) /\ Cardinality(U) \in Nat
  BY FS_Subset, FS_CardinalityType
<1>2. 0 \in S
  <2> SUFFICES ASSUME NEW U \in SUBSET T, Cardinality(U) = 0 PROVE \E f : Lists(f, U, R)
    OBVIOUS
  <2> DEFINE f == [i \in 1..0 |-> 0]
  <2>1. f \in [1..0 -> U] /\ \A i, j \in 1..0 : i < j => <<f[i], f[j]>> \in R
    OBVIOUS
  <2> QED BY <2>1 DEF Lists
<1>3. ASSUME NEW n \in Nat, n \in S PROVE n + 1 \in S
  <2> SUFFICES ASSUME NEW U \in SUBSET T, Cardinality(U) = n + 1 PROVE \E f : Lists(f, U, R)
    OBVIOUS
  <2>1. U # {}
    BY <1>1, FS_EmptySet
  <2>2. PICK x : Greatest(x, U, R)
    BY <2>1, GreatestExists
  <2>3. x \in U /\ U \ {x} \in SUBSET T /\ Cardinality(U \ {x}) = n
    <3>1. x \in U
      BY <2>2 DEF Greatest
    <3>2. /\ IsFiniteSet(U) /\ Cardinality(U) \in Nat
          /\ Cardinality(U \ {x}) = Cardinality(U) - 1
      BY <1>1, <3>1, FS_RemoveElement
    <3> QED BY <3>1, <3>2
  <2>4. PICK f : Lists(f, U \ {x}, R)
    BY <1>3, <2>3
  <2>5. /\ f \in [1..n -> U \ {x}]
        /\ \A i, j \in 1..n : i < j => <<f[i], f[j]>> \in R
    BY <2>3, <2>4 DEF Lists
  <2> DEFINE g == [i \in 1..(n + 1) |-> IF i <= n THEN f[i] ELSE x]
  <2>6. g \in [1..(n + 1) -> U]
    BY <2>3, <2>5
  <2>7. ASSUME NEW i \in 1..(n + 1), NEW j \in 1..(n + 1), i < j PROVE <<g[i], g[j]>> \in R
    <3>1. i \in 1..n /\ g[i] = f[i] /\ f[i] \in U \ {x}
      BY <2>5, <2>7
    <3>2. CASE j <= n
      BY <2>5, <2>7, <3>1, <3>2
    <3>3. CASE j = n + 1
      BY <2>2, <3>1, <3>3 DEF Greatest
    <3> QED BY <3>2, <3>3
  <2> HIDE DEF g
  <2> QED BY <2>6, <2>7 DEF Lists
<1> HIDE DEF S
<1>4. \A n \in Nat : n \in S
  BY <1>2, <1>3, ByInduction
<1>5. Cardinality(T) \in S
  BY <1>1, <1>4
<1> QED BY <1>5 DEF S

(* A list of a set has all its members, each at one place. *)
LEMMA ListHasAll ==
    ASSUME NEW R, NEW T, IsFiniteSet(T), Orders(R, T), NEW f, Lists(f, T, R)
    PROVE  /\ Cardinality(T) \in Nat
           /\ f \in Seq(T) /\ Len(f) = Cardinality(T) /\ Range(f) = T
           /\ \A x \in T : \E i \in 1..Cardinality(T) : f[i] = x
           /\ \A i, j \in 1..Cardinality(T) : f[i] = f[j] => i = j
           /\ \A i, j \in 1..Cardinality(T) : <<f[i], f[j]>> \in R => i < j
<1> DEFINE n == Cardinality(T)
<1>1. n \in Nat
  BY FS_CardinalityType
<1> HIDE DEF n
<1>2. f \in [1..n -> T] /\ \A i, j \in 1..n : i < j => <<f[i], f[j]>> \in R
  BY DEF Lists, n
<1>3. \A i, j \in 1..n : f[i] = f[j] => i = j
  <2> SUFFICES ASSUME NEW i \in 1..n, NEW j \in 1..n, f[i] = f[j], i # j PROVE FALSE
    OBVIOUS
  <2>1. i < j \/ j < i
    BY <1>1
  <2> QED BY <1>2, <2>1 DEF Orders
<1>4. f \in Injection(1..n, T)
  BY <1>2, <1>3 DEF Injection, IsInjective
<1>5. IsFiniteSet(1..n) /\ Cardinality(1..n) = n
  BY <1>1, FS_Interval
<1>6. f \in Surjection(1..n, T)
  BY <1>4, <1>5, FS_Injection DEF n
<1>7. \A x \in T : \E i \in 1..n : f[i] = x
  BY <1>6 DEF Surjection
<1>8. f \in Seq(T) /\ Len(f) = n
  BY <1>1, <1>2
<1>9. Range(f) = T
  BY <1>2, <1>7 DEF Range
<1>10. ASSUME NEW i \in 1..n, NEW j \in 1..n, <<f[i], f[j]>> \in R PROVE i < j
  <2>1. i # j
    BY <1>2, <1>10 DEF Orders
  <2>2. CASE j < i
    <3>1. <<f[j], f[i]>> \in R /\ f[i] \in T /\ f[j] \in T
      BY <1>2, <2>2
    <3> QED BY <1>10, <3>1 DEF Orders
  <2> QED BY <1>1, <2>1, <2>2
<1> QED BY <1>1, <1>3, <1>7, <1>8, <1>9, <1>10 DEF n

(* What a member is at in the list of a set, it is not before in the list  *)
(* of a larger one.                                                        *)
LEMMA PlacesGrow ==
    ASSUME NEW R, NEW K, NEW L, IsFiniteSet(L), Orders(R, L), K \subseteq L,
           NEW f, NEW g, Lists(f, K, R), Lists(g, L, R)
    PROVE  \A i \in 1..Cardinality(K), j \in 1..Cardinality(L) : g[j] = f[i] => i <= j
<1> DEFINE n == Cardinality(K)
           m == Cardinality(L)
           S == {i \in Nat : i \in 1..n => \A j \in 1..m : g[j] = f[i] => i <= j}
<1>1. IsFiniteSet(K) /\ Orders(R, K)
  BY FS_Subset DEF Orders
<1>2. n \in Nat /\ m \in Nat
  BY <1>1, FS_CardinalityType
<1>3. 0 \in S
  BY <1>2
<1>4. ASSUME NEW i \in Nat, i \in S PROVE i + 1 \in S
  <2> SUFFICES ASSUME i + 1 \in 1..n, NEW j \in 1..m, g[j] = f[i + 1] PROVE i + 1 <= j
    OBVIOUS
  <2>1. CASE i = 0
    BY <1>2, <2>1
  <2>2. CASE i # 0
    <3>1. i \in 1..n /\ i < i + 1
      BY <1>2, <2>2
    <3>2. <<f[i], f[i + 1]>> \in R /\ f[i] \in L
      BY <3>1 DEF Lists
    <3>3. PICK k \in 1..m : g[k] = f[i]
      BY <3>2, ListHasAll
    <3>4. i <= k
      BY <1>4, <3>1, <3>3
    <3>5. <<g[k], g[j]>> \in R
      BY <3>2, <3>3
    <3>6. k < j
      BY <3>5, ListHasAll
    <3> QED BY <1>2, <3>4, <3>6
  <2> QED BY <2>1, <2>2
<1> HIDE DEF S
<1>5. \A i \in Nat : i \in S
  BY <1>3, <1>4, ByInduction
<1> QED BY <1>2, <1>5 DEF S

-----------------------------------------------------------------------------
(* The operations queries: pages of a list, and the children of a workflow. *)

(* A definition is named by its workflow and its version. *)
LEMMA KeysArePairs ==
    \A k \in DefinitionKeys : k[1] \in WorkflowNames /\ k[1] \in Nat /\ k[2] \in Nat \ {0} /\ k = <<k[1], k[2]>>
<1>1. WorkflowNames \subseteq Nat /\ DefinitionKeys \subseteq WorkflowNames \X (Nat \ {0})
  BY QueryAssumption
<1>2. \A k \in WorkflowNames \X (Nat \ {0}) : k[1] \in WorkflowNames /\ k[2] \in Nat \ {0} /\ k = <<k[1], k[2]>>
  OBVIOUS
<1> QED BY <1>1, <1>2

KeyOrder == {p \in DefinitionKeys \X DefinitionKeys : KeyLess(p[1], p[2])}

(* The order of the lists is one of the definitions. *)
LEMMA KeysAreOrdered == ASSUME NEW K, K \subseteq DefinitionKeys PROVE Orders(KeyOrder, K)
<1>1. \A k \in DefinitionKeys : k[1] \in Nat /\ k[2] \in Nat /\ k = <<k[1], k[2]>>
  BY KeysArePairs
<1>2. \A k, l \in K : <<k, l>> \in KeyOrder <=> KeyLess(k, l)
  BY DEF KeyOrder
<1>3. \A k \in K : ~KeyLess(k, k)
  BY <1>1 DEF KeyLess
<1>4. \A k, l, m \in K : KeyLess(k, l) /\ KeyLess(l, m) => KeyLess(k, m)
  BY <1>1 DEF KeyLess
<1>5. \A k, l \in K : k # l => KeyLess(k, l) \/ KeyLess(l, k)
  BY <1>1 DEF KeyLess
<1> QED BY <1>2, <1>3, <1>4, <1>5 DEF Orders

(* The sorted list of a catalog lists its keys. *)
LEMMA KeysInOrder ==
    ASSUME NEW K, K \subseteq DefinitionKeys
    PROVE  IsFiniteSet(K) /\ Lists(InOrder(K), K, KeyOrder)
<1>1. IsFiniteSet(K) /\ Orders(KeyOrder, K)
  BY QueryAssumption, KeysAreOrdered, FS_Subset
<1>2. PICK f : Lists(f, K, KeyOrder)
  BY <1>1, ListExists
<1>3. f \in [1..Cardinality(K) -> K] /\ \A i, j \in DOMAIN f : i < j => KeyLess(f[i], f[j])
  BY <1>2 DEF Lists, KeyOrder
<1> DEFINE P(g) == \A i, j \in DOMAIN g : i < j => KeyLess(g[i], g[j])
<1>4. InOrder(K) \in [1..Cardinality(K) -> K] /\ P(InOrder(K))
  <2>1. f \in [1..Cardinality(K) -> K] /\ P(f)
    BY <1>3
  <2>2. InOrder(K) = CHOOSE g \in [1..Cardinality(K) -> K] : P(g)
    BY DEF InOrder
  <2> HIDE DEF P
  <2> QED BY <2>1, <2>2
<1>5. \A i, j \in 1..Cardinality(K) : i < j => <<InOrder(K)[i], InOrder(K)[j]>> \in KeyOrder
  <2> SUFFICES ASSUME NEW i \in 1..Cardinality(K), NEW j \in 1..Cardinality(K), i < j
               PROVE  <<InOrder(K)[i], InOrder(K)[j]>> \in KeyOrder
    OBVIOUS
  <2>1. InOrder(K)[i] \in DefinitionKeys /\ InOrder(K)[j] \in DefinitionKeys
    BY <1>4
  <2>2. KeyLess(InOrder(K)[i], InOrder(K)[j])
    BY <1>4
  <2> QED BY <2>1, <2>2 DEF KeyOrder
<1> QED BY <1>1, <1>4, <1>5 DEF Lists

(* The sorted list of some definitions has them all, once and in order. *)
LEMMA ItemsAreKeys ==
    ASSUME NEW K, K \subseteq DefinitionKeys
    PROVE  /\ InOrder(K) \in Seq(DefinitionKeys) /\ Range(InOrder(K)) = K
           /\ Len(InOrder(K)) \in Nat
<1>1. Lists(InOrder(K), K, KeyOrder) /\ IsFiniteSet(K) /\ Orders(KeyOrder, K)
  BY KeysInOrder, KeysAreOrdered
<1>2. InOrder(K) \in Seq(K) /\ Range(InOrder(K)) = K
  BY <1>1, ListHasAll
<1>3. InOrder(K) \in Seq(DefinitionKeys)
  BY <1>2
<1> QED BY <1>2, <1>3

(* The list of more definitions is not shorter. *)
LEMMA ListsGrow ==
    ASSUME NEW K, NEW L, K \subseteq L, L \subseteq DefinitionKeys
    PROVE  Len(InOrder(K)) <= Len(InOrder(L))
<1>1. /\ Lists(InOrder(K), K, KeyOrder) /\ IsFiniteSet(K) /\ Orders(KeyOrder, K)
      /\ Lists(InOrder(L), L, KeyOrder) /\ IsFiniteSet(L) /\ Orders(KeyOrder, L)
  BY KeysInOrder, KeysAreOrdered
<1>2. Len(InOrder(K)) = Cardinality(K) /\ Len(InOrder(L)) = Cardinality(L)
  BY <1>1, ListHasAll
<1> QED BY <1>1, <1>2, FS_Subset

(* A definition is not before its old place when more are stored. *)
LEMMA DefinitionsMoveDown ==
    ASSUME NEW K, NEW L, K \subseteq L, L \subseteq DefinitionKeys,
           NEW j \in 1..Len(InOrder(L)), InOrder(L)[j] \in K
    PROVE  \E i \in 1..Len(InOrder(K)) : i <= j /\ InOrder(K)[i] = InOrder(L)[j]
<1>1. /\ Lists(InOrder(K), K, KeyOrder) /\ IsFiniteSet(K) /\ Orders(KeyOrder, K)
      /\ Lists(InOrder(L), L, KeyOrder) /\ IsFiniteSet(L) /\ Orders(KeyOrder, L)
  BY KeysInOrder, KeysAreOrdered
<1>2. Len(InOrder(K)) = Cardinality(K) /\ Len(InOrder(L)) = Cardinality(L)
  BY <1>1, ListHasAll
<1>3. PICK i \in 1..Cardinality(K) : InOrder(K)[i] = InOrder(L)[j]
  BY <1>1, ListHasAll
<1>4. i <= j
  BY <1>1, <1>2, <1>3, PlacesGrow
<1> QED BY <1>2, <1>3, <1>4

(* The end of a page is the lesser of two numbers. *)
LEMMA LeastOfTwo ==
    ASSUME NEW a \in Nat, NEW b \in Nat
    PROVE  Min({a, b}) = IF a <= b THEN a ELSE b
<1> DEFINE m == IF a <= b THEN a ELSE b
<1>1. m \in {a, b} /\ \A y \in {a, b} : m <= y
  OBVIOUS
<1>2. \A x \in {a, b} : (\A y \in {a, b} : x <= y) => x = m
  OBVIOUS
<1> HIDE DEF m
<1>3. Min({a, b}) = m
  BY <1>1, <1>2 DEF Min
<1> QED BY <1>3 DEF m

(* A page is the part of the list after the offset. *)
LEMMA PageIsPart ==
    ASSUME NEW T, NEW items \in Seq(T), NEW offset \in 0..Len(items)
    PROVE  /\ PageFrom(items, offset) \in Seq(T)
           /\ Len(PageFrom(items, offset)) \in Nat
           /\ offset + Len(PageFrom(items, offset)) \in 0..Len(items)
           /\ \A i \in 1..Len(PageFrom(items, offset)) : PageFrom(items, offset)[i] = items[offset + i]
<1> DEFINE last == IF offset + PageLimit <= Len(items) THEN offset + PageLimit ELSE Len(items)
<1>1. PageFrom(items, offset) = SubSeq(items, offset + 1, last)
  <2>1. offset + PageLimit \in Nat /\ Len(items) \in Nat
    BY QueryAssumption
  <2>2. Min({offset + PageLimit, Len(items)}) = last
    BY <2>1, LeastOfTwo
  <2> HIDE DEF last
  <2> QED BY <2>2 DEF PageFrom
<1>2. last \in Nat /\ offset <= last /\ last <= Len(items)
  BY QueryAssumption
<1> HIDE DEF last
<1>3. /\ SubSeq(items, offset + 1, last) \in Seq(T)
      /\ Len(SubSeq(items, offset + 1, last)) = last - offset
      /\ \A i \in 1..(last - offset) : SubSeq(items, offset + 1, last)[i] = items[offset + i]
  BY <1>2
<1> QED BY <1>1, <1>2, <1>3

CatalogHolds ==
  /\ catalog \in [QueryScopes -> [aliases : [WorkflowNames -> Nat], manifests : SUBSET DefinitionKeys]]
  /\ \A s \in QueryScopes, n \in WorkflowNames :
       catalog[s].aliases[n] # 0 => <<n, catalog[s].aliases[n]>> \in DefinitionKeys

(* A cursor of a list of workflows stands in the list of the first page, *)
WorkflowsSoFar(d) ==
  /\ d.base = InOrder(AliasKeys(d.cursor.snapshot)) /\ d.base \in Seq(DefinitionKeys)
  /\ d.cursor.offset \in 0..Len(d.base)
  /\ d.got = SubSeq(d.base, 1, d.cursor.offset)

(* one of definitions in the list as it is now: what was there at the      *)
(* first page and is before the offset was shown.                          *)
DefinitionsSoFar(d, items) ==
  /\ Range(d.base) \subseteq Range(items)
  /\ d.cursor.offset \in 0..Len(items)
  /\ \A j \in 1..d.cursor.offset : items[j] \in Range(d.base) => items[j] \in Range(d.got)

OnPage(d) ==
  /\ d.kind \in {"workflows", "definitions"}
  /\ \E s \in QueryScopes, offset \in Nat, snapshot \in [WorkflowNames -> Nat] :
       d.cursor = [scope |-> s, kind |-> d.kind, offset |-> offset, snapshot |-> snapshot]
  /\ d.got \in Seq(DefinitionKeys)
  /\ d.kind = "workflows" => WorkflowsSoFar(d)
  /\ d.kind = "definitions"
       => DefinitionsSoFar(d, InOrder(catalog[d.cursor.scope].manifests))

(* A child of what is shown is shown, or is still looked at. *)
Shows(d) ==
  /\ d = [pc |-> d.pc, cursor |-> d.cursor, root |-> d.root, known |-> d.known,
          pending |-> d.pending, children |-> d.children]
  /\ d.pending \in Seq(DefinitionKeys)
  /\ d.root \in DefinitionKeys /\ d.children \subseteq DefinitionKeys
  /\ \A k \in d.children \cup {d.root} : \A i \in DOMAIN ChildrenOf[k] :
       \/ \E c \in d.children : c[1] = ChildrenOf[k][i][1]
       \/ \E j \in DOMAIN d.pending : d.pending[j] = ChildrenOf[k][i]

QueryEnded == {"invalid_query", "stale_cursor", "not_found", "unavailable"}

ReaderHolds(d) ==
  \/ d.pc \in {"idle"} \cup QueryEnded /\ d.cursor = NoCursor
  \/ d.pc = "paging" /\ OnPage(d)
  \/ /\ d.pc = "listed" /\ d.cursor = NoCursor
     /\ d.kind = "workflows" => d.got = d.base
     /\ d.kind = "definitions" => Range(d.base) \subseteq Range(d.got)
  \/ d.pc = "children" /\ Shows(d)
  \/ d.pc = "described" /\ Shows(d) /\ d.pending = <<>>

QueriesInv ==
  /\ CatalogHolds
  /\ reader \in [Readers -> {reader[r] : r \in Readers}]
  /\ \A r \in Readers : ReaderHolds(reader[r])

(* Readers rest at first, over an empty catalog. *)
LEMMA QueriesStart == QueriesInit => QueriesInv
<1> SUFFICES ASSUME QueriesInit PROVE QueriesInv
  OBVIOUS
<1>1. CatalogHolds
  BY DEF QueriesInit, CatalogHolds
<1>2. \A r \in Readers : reader[r] = Resting
  BY DEF QueriesInit
<1>3. ReaderHolds(Resting)
  BY DEF ReaderHolds, Resting
<1>4. reader \in [Readers -> {reader[r] : r \in Readers}]
  BY DEF QueriesInit
<1> QED BY <1>1, <1>2, <1>3, <1>4 DEF QueriesInv

(* What a reader was shown is complete. *)
LEMMA QueriesAreComplete ==
    QueriesInv => WorkflowPagesAreOneList /\ NoDefinitionIsMissed /\ EveryChildIsShown
<1> SUFFICES ASSUME QueriesInv
             PROVE  WorkflowPagesAreOneList /\ NoDefinitionIsMissed /\ EveryChildIsShown
  OBVIOUS
<1>1. \A r \in Readers : ReaderHolds(reader[r])
  BY DEF QueriesInv
<1>2. \A r \in Readers : reader[r].pc = "listed"
        => /\ reader[r].kind = "workflows" => reader[r].got = reader[r].base
           /\ reader[r].kind = "definitions" => Range(reader[r].base) \subseteq Range(reader[r].got)
  BY <1>1 DEF ReaderHolds, QueryEnded
<1>3. ASSUME NEW r \in Readers, reader[r].pc = "described",
             NEW k \in reader[r].children \cup {reader[r].root}, NEW i \in DOMAIN ChildrenOf[k]
      PROVE  \E c \in reader[r].children : c[1] = ChildrenOf[k][i][1]
  <2>1. Shows(reader[r]) /\ reader[r].pending = <<>>
    BY <1>1, <1>3 DEF ReaderHolds, QueryEnded
  <2> QED BY <1>3, <2>1 DEF Shows
<1> QED BY <1>2, <1>3 DEF WorkflowPagesAreOneList, NoDefinitionIsMissed, EveryChildIsShown

(* The publications: a reader rests, its list of definitions may grow. *)
LEMMA PublishedKeeps ==
    ASSUME QueriesInv, CatalogHolds', reader' = reader,
           \A s \in QueryScopes : catalog[s].manifests \subseteq catalog'[s].manifests
    PROVE  QueriesInv'
<1>1. ASSUME NEW d, OnPage(d) PROVE OnPage(d)'
  <2>1. CASE d.kind = "workflows"
    BY <1>1, <2>1 DEF OnPage, WorkflowsSoFar
  <2>2. CASE d.kind = "definitions"
    <3> DEFINE s == d.cursor.scope
               K == catalog[s].manifests
               L == catalog'[s].manifests
    <3>1. s \in QueryScopes /\ d.cursor.offset \in Nat
      BY <1>1 DEF OnPage
    <3>2. K \subseteq L /\ L \subseteq DefinitionKeys /\ K \subseteq DefinitionKeys
      BY <3>1 DEF QueriesInv, CatalogHolds
    <3>3. /\ Range(d.base) \subseteq Range(InOrder(K))
          /\ d.cursor.offset \in 0..Len(InOrder(K))
          /\ \A j \in 1..d.cursor.offset :
               InOrder(K)[j] \in Range(d.base) => InOrder(K)[j] \in Range(d.got)
      BY <1>1, <2>2 DEF OnPage, DefinitionsSoFar
    <3> HIDE DEF K, L
    <3>4. Range(d.base) \subseteq Range(InOrder(L)) /\ Range(d.base) \subseteq K
      BY <3>2, <3>3, ItemsAreKeys
    <3>5. d.cursor.offset \in 0..Len(InOrder(L))
      <4>1. Len(InOrder(K)) <= Len(InOrder(L)) /\ Len(InOrder(K)) \in Nat /\ Len(InOrder(L)) \in Nat
        BY <3>2, ListsGrow, ItemsAreKeys
      <4> QED BY <3>3, <4>1
    <3>6. ASSUME NEW j \in 1..d.cursor.offset, InOrder(L)[j] \in Range(d.base)
          PROVE  InOrder(L)[j] \in Range(d.got)
      <4>1. j \in 1..Len(InOrder(L)) /\ InOrder(L)[j] \in K
        BY <3>2, <3>4, <3>5, <3>6, ItemsAreKeys
      <4>2. PICK i \in 1..Len(InOrder(K)) : i <= j /\ InOrder(K)[i] = InOrder(L)[j]
        BY <3>2, <4>1, DefinitionsMoveDown
      <4>3. i \in 1..d.cursor.offset
        BY <3>1, <4>2
      <4> QED BY <3>3, <3>6, <4>2, <4>3
    <3>7. DefinitionsSoFar(d, InOrder(L))
      BY <3>4, <3>5, <3>6 DEF DefinitionsSoFar
    <3>8. DefinitionsSoFar(d, InOrder(catalog[d.cursor.scope].manifests))'
      BY <3>7 DEF L, DefinitionsSoFar
    <3> QED BY <1>1, <2>2, <3>8 DEF OnPage
  <2> QED BY <1>1, <2>1, <2>2 DEF OnPage
<1>2. ASSUME NEW r \in Readers PROVE ReaderHolds(reader[r])'
  <2>1. ReaderHolds(reader[r])
    BY DEF QueriesInv
  <2> DEFINE d == reader[r]
  <2>2. d' = d
    OBVIOUS
  <2> HIDE DEF d
  <2> QED BY <1>1, <2>1, <2>2 DEF ReaderHolds, d, Shows
<1> QED BY <1>2 DEF QueriesInv

(* A manifest that is stored moves those behind it, whether a cursor has   *)
(* passed them or not: what was there before the offset is still before or *)
(* was shown.                                                              *)
LEMMA StoreManifestKeeps ==
    ASSUME QueriesInv, NEW s \in QueryScopes, NEW k \in DefinitionKeys, StoreManifest(s, k)
    PROVE  QueriesInv'
<1>1. /\ catalog' = [catalog EXCEPT ![s].manifests = @ \cup {k}] /\ reader' = reader
      /\ CatalogHolds
  BY DEF StoreManifest, QueriesInv
<1>2. \A t \in QueryScopes :
        /\ catalog[t] \in [aliases : [WorkflowNames -> Nat], manifests : SUBSET DefinitionKeys]
        /\ catalog'[t].aliases = catalog[t].aliases
        /\ catalog'[t].manifests = IF t = s THEN catalog[t].manifests \cup {k} ELSE catalog[t].manifests
        /\ catalog'[t] \in [aliases : [WorkflowNames -> Nat], manifests : SUBSET DefinitionKeys]
  BY <1>1 DEF CatalogHolds
<1>3. CatalogHolds'
  BY <1>1, <1>2 DEF CatalogHolds
<1> QED BY <1>1, <1>2, <1>3, PublishedKeeps

(* An alias that is replaced changes no list that a cursor stands in: the  *)
(* cursor of workflows keeps the aliases of its first page.                *)
LEMMA ReplaceAliasKeeps ==
    ASSUME QueriesInv, NEW s \in QueryScopes, NEW k \in DefinitionKeys, ReplaceAlias(s, k)
    PROVE  QueriesInv'
<1>1. /\ catalog' = [catalog EXCEPT ![s].aliases[k[1]] = k[2]] /\ reader' = reader
      /\ CatalogHolds
  BY DEF ReplaceAlias, QueriesInv
<1>2. k[1] \in WorkflowNames /\ k[2] \in Nat /\ <<k[1], k[2]>> \in DefinitionKeys
  BY KeysArePairs
<1>3. \A t \in QueryScopes :
        /\ catalog[t] \in [aliases : [WorkflowNames -> Nat], manifests : SUBSET DefinitionKeys]
        /\ catalog'[t].manifests = catalog[t].manifests
        /\ catalog'[t].aliases =
             IF t = s THEN [catalog[t].aliases EXCEPT ![k[1]] = k[2]] ELSE catalog[t].aliases
        /\ catalog'[t] \in [aliases : [WorkflowNames -> Nat], manifests : SUBSET DefinitionKeys]
  BY <1>1, <1>2 DEF CatalogHolds
<1>4. ASSUME NEW t \in QueryScopes, NEW n \in WorkflowNames, catalog'[t].aliases[n] # 0
      PROVE  <<n, catalog'[t].aliases[n]>> \in DefinitionKeys
  <2>1. catalog[t].aliases \in [WorkflowNames -> Nat]
    BY <1>3
  <2>2. CASE t = s /\ n = k[1]
    <3>1. catalog'[t].aliases[n] = k[2]
      BY <1>3, <2>1, <2>2
    <3> QED BY <1>2, <2>2, <3>1
  <2>3. CASE ~(t = s /\ n = k[1])
    <3>1. catalog'[t].aliases[n] = catalog[t].aliases[n]
      BY <1>3, <2>1, <2>3
    <3> QED BY <1>1, <1>4, <3>1 DEF CatalogHolds
  <2> QED BY <2>2, <2>3
<1>5. CatalogHolds'
  <2>1. catalog' \in [QueryScopes -> [aliases : [WorkflowNames -> Nat], manifests : SUBSET DefinitionKeys]]
    BY <1>1, <1>3 DEF CatalogHolds
  <2> QED BY <1>4, <2>1 DEF CatalogHolds
<1> QED BY <1>1, <1>3, <1>5, PublishedKeeps

(* A reader that takes a step. *)
LEMMA ReaderMoves ==
    ASSUME QueriesInv, NEW r \in Readers, NEW v, ReaderHolds(v),
           reader' = [reader EXCEPT ![r] = v], catalog' = catalog
    PROVE  QueriesInv'
<1>1. ASSUME NEW d, ReaderHolds(d) PROVE ReaderHolds(d)'
  BY <1>1 DEF ReaderHolds, OnPage, WorkflowsSoFar, DefinitionsSoFar, Shows
<1>2. \A q \in Readers : reader'[q] = IF q = r THEN v ELSE reader[q]
  BY DEF QueriesInv
<1>3. ASSUME NEW q \in Readers PROVE ReaderHolds(reader[q])'
  <2> DEFINE d == IF q = r THEN v ELSE reader[q]
  <2>1. ReaderHolds(d)
    BY DEF QueriesInv
  <2>2. reader'[q] = d
    BY <1>2
  <2> HIDE DEF d
  <2>3. ASSUME NEW e, e = d PROVE ReaderHolds(e)'
    BY <1>1, <2>1, <2>3
  <2> QED BY <2>2, <2>3, <1>1, <2>1
<1>4. CatalogHolds' /\ reader' \in [Readers -> {reader'[q] : q \in Readers}]
  BY DEF QueriesInv, CatalogHolds
<1> QED BY <1>3, <1>4 DEF QueriesInv

(* What a sequence has it has somewhere. *)
LEMMA RangeIsAt ==
    ASSUME NEW T, NEW s \in Seq(T)
    PROVE  \A x : x \in Range(s) <=> \E i \in 1..Len(s) : s[i] = x
<1>1. DOMAIN s = 1..Len(s)
  OBVIOUS
<1> QED BY <1>1 DEF Range

(* The record of a reader that has got a page. *)
GotPage(s, kind, items, next, got, base, snapshot) ==
  [pc |-> IF next < Len(items) THEN "paging" ELSE "listed",
   kind |-> kind, got |-> got, base |-> base,
   cursor |-> IF next < Len(items)
              THEN [scope |-> s, kind |-> kind, offset |-> next, snapshot |-> snapshot]
              ELSE NoCursor]

(* A page of workflows continues the list of the first page. *)
LEMMA WorkflowsShown ==
    ASSUME CatalogHolds, NEW s \in QueryScopes, NEW got, NEW next \in Nat,
           NEW snapshot \in [WorkflowNames -> Nat],
           NEW items, items = InOrder(AliasKeys(snapshot)), items \in Seq(DefinitionKeys),
           next \in 0..Len(items), got = SubSeq(items, 1, next)
    PROVE  ReaderHolds(GotPage(s, "workflows", items, next, got, items, snapshot))
<1> DEFINE v == GotPage(s, "workflows", items, next, got, items, snapshot)
<1>1. CASE next < Len(items)
  <2>1. /\ v.pc = "paging" /\ v.kind = "workflows" /\ v.got = got /\ v.base = items
        /\ v.cursor = [scope |-> s, kind |-> "workflows", offset |-> next, snapshot |-> snapshot]
    BY <1>1 DEF GotPage
  <2>2. v.cursor.snapshot = snapshot /\ v.cursor.offset = next
    BY <2>1
  <2>3. got \in Seq(DefinitionKeys)
    OBVIOUS
  <2> HIDE DEF v
  <2>4. WorkflowsSoFar(v)
    BY <2>1, <2>2 DEF WorkflowsSoFar
  <2>5. OnPage(v)
    BY <2>1, <2>3, <2>4 DEF OnPage
  <2> QED BY <2>1, <2>5 DEF ReaderHolds, v
<1>2. CASE ~(next < Len(items))
  <2>1. v.pc = "listed" /\ v.kind = "workflows" /\ v.got = got /\ v.base = items /\ v.cursor = NoCursor
    BY <1>2 DEF GotPage
  <2>2. next = Len(items)
    BY <1>2
  <2>3. got = items
    BY <2>2
  <2> HIDE DEF v
  <2> QED BY <2>1, <2>3 DEF ReaderHolds, v
<1> QED BY <1>1, <1>2

(* A page of definitions shows what comes next in the list as it is now. *)
LEMMA DefinitionsShown ==
    ASSUME CatalogHolds, NEW s \in QueryScopes, NEW got \in Seq(DefinitionKeys), NEW base,
           NEW next \in Nat, NEW snapshot \in [WorkflowNames -> Nat],
           NEW items, items = InOrder(catalog[s].manifests), items \in Seq(DefinitionKeys),
           next \in 0..Len(items), Range(base) \subseteq Range(items),
           \A j \in 1..next : items[j] \in Range(base) => items[j] \in Range(got)
    PROVE  ReaderHolds(GotPage(s, "definitions", items, next, got, base, snapshot))
<1> DEFINE v == GotPage(s, "definitions", items, next, got, base, snapshot)
<1>1. CASE next < Len(items)
  <2>1. /\ v.pc = "paging" /\ v.kind = "definitions" /\ v.got = got /\ v.base = base
        /\ v.cursor = [scope |-> s, kind |-> "definitions", offset |-> next, snapshot |-> snapshot]
    BY <1>1 DEF GotPage
  <2>2. v.cursor.scope = s /\ v.cursor.offset = next
    BY <2>1
  <2> HIDE DEF v
  <2>3. DefinitionsSoFar(v, items)
    BY <2>1, <2>2 DEF DefinitionsSoFar
  <2>4. OnPage(v)
    BY <2>1, <2>2, <2>3 DEF OnPage
  <2> QED BY <2>1, <2>4 DEF ReaderHolds, v
<1>2. CASE ~(next < Len(items))
  <2>1. v.pc = "listed" /\ v.kind = "definitions" /\ v.got = got /\ v.base = base /\ v.cursor = NoCursor
    BY <1>2 DEF GotPage
  <2>2. next = Len(items)
    BY <1>2
  <2>3. Range(base) \subseteq Range(got)
    <3> SUFFICES ASSUME NEW k \in Range(base) PROVE k \in Range(got)
      OBVIOUS
    <3>1. PICK j \in 1..Len(items) : items[j] = k
      BY RangeIsAt
    <3> QED BY <2>2, <3>1
  <2> HIDE DEF v
  <2> QED BY <2>1, <2>3 DEF ReaderHolds, v
<1> QED BY <1>1, <1>2

(* A page and what was shown before it. *)
LEMMA PagesShown ==
    ASSUME NEW got \in Seq(DefinitionKeys), NEW page \in Seq(DefinitionKeys), NEW base, NEW items, NEW offset \in Nat,
           items \in Seq(DefinitionKeys),
           \A i \in 1..Len(page) : page[i] = items[offset + i],
           \A j \in 1..offset : items[j] \in Range(base) => items[j] \in Range(got)
    PROVE  /\ got \o page \in Seq(DefinitionKeys)
           /\ \A j \in 1..(offset + Len(page)) :
                items[j] \in Range(base) => items[j] \in Range(got \o page)
<1>1. got \o page \in Seq(DefinitionKeys) /\ Len(got \o page) = Len(got) + Len(page)
  OBVIOUS
<1>2. ASSUME NEW j \in 1..(offset + Len(page)), items[j] \in Range(base)
      PROVE  items[j] \in Range(got \o page)
  <2>1. CASE j <= offset
    <3>1. items[j] \in Range(got)
      BY <1>2, <2>1
    <3>2. PICK i \in 1..Len(got) : got[i] = items[j]
      BY <3>1, RangeIsAt
    <3>3. i \in 1..Len(got \o page) /\ (got \o page)[i] = items[j]
      BY <1>1, <3>2
    <3> QED BY <3>3, <1>1, RangeIsAt
  <2>2. CASE ~(j <= offset)
    <3>1. j - offset \in 1..Len(page) /\ offset + (j - offset) = j
      BY <2>2
    <3>2. page[j - offset] = items[j]
      BY <3>1
    <3>3. /\ Len(got) + (j - offset) \in 1..Len(got \o page)
          /\ (got \o page)[Len(got) + (j - offset)] = items[j]
      BY <1>1, <3>1, <3>2
    <3> QED BY <3>3, <1>1, RangeIsAt
  <2> QED BY <2>1, <2>2
<1> QED BY <1>1, <1>2

(* What a list has to show is a list of keys. *)
LEMMA TargetsAreKeys ==
    ASSUME CatalogHolds, NEW s \in QueryScopes
    PROVE  /\ catalog[s].aliases \in [WorkflowNames -> Nat]
           /\ AliasKeys(catalog[s].aliases) \subseteq DefinitionKeys
           /\ catalog[s].manifests \subseteq DefinitionKeys
<1>1. /\ catalog[s].aliases \in [WorkflowNames -> Nat]
      /\ catalog[s].manifests \subseteq DefinitionKeys
  BY DEF CatalogHolds
<1>2. AliasKeys(catalog[s].aliases) \subseteq DefinitionKeys
  BY DEF CatalogHolds, AliasKeys
<1> QED BY <1>1, <1>2

(* The first page shows the beginning of the list it reads. *)
LEMMA FirstPage ==
    ASSUME CatalogHolds, NEW s \in QueryScopes, NEW kind \in {"workflows", "definitions"}
    PROVE  LET items == Items(s, kind)
               page == PageFrom(items, 0)
           IN  ReaderHolds(GotPage(s, kind, items, 0 + Len(page), page, items, catalog[s].aliases))
<1> DEFINE items == Items(s, kind)
           page == PageFrom(items, 0)
           next == 0 + Len(page)
           snapshot == catalog[s].aliases
<1>1. items = InOrder(IF kind = "definitions" THEN catalog[s].manifests ELSE AliasKeys(snapshot))
  BY DEF Items
<1>2. items \in Seq(DefinitionKeys) /\ snapshot \in [WorkflowNames -> Nat]
  BY <1>1, TargetsAreKeys, ItemsAreKeys
<1> HIDE DEF items
<1>3. 0 \in 0..Len(items)
  BY <1>2
<1>4. /\ page \in Seq(DefinitionKeys) /\ Len(page) \in Nat /\ 0 + Len(page) \in 0..Len(items)
      /\ \A i \in 1..Len(page) : page[i] = items[0 + i]
  BY <1>2, <1>3, PageIsPart
<1> HIDE DEF page
<1>5. next = Len(page) /\ next \in Nat /\ next \in 0..Len(items)
  BY <1>4
<1>6. CASE kind = "workflows"
  <2>1. page = SubSeq(items, 1, next)
    BY <1>2, <1>4, <1>5
  <2>2. items = InOrder(AliasKeys(snapshot))
    BY <1>1, <1>6
  <2> HIDE DEF next, snapshot
  <2>3. ReaderHolds(GotPage(s, "workflows", items, next, page, items, snapshot))
    BY <1>2, <1>5, <2>1, <2>2, WorkflowsShown
  <2> QED BY <1>6, <2>3 DEF next, snapshot, items, page
<1>7. CASE kind = "definitions"
  <2>1. /\ \A j \in 1..0 : items[j] \in Range(items) => items[j] \in Range(<<>>)
        /\ <<>> \in Seq(DefinitionKeys)
    OBVIOUS
  <2>2. \A j \in 1..next : items[j] \in Range(items) => items[j] \in Range(page)
    <3> SUFFICES ASSUME NEW j \in 1..next PROVE items[j] \in Range(page)
      OBVIOUS
    <3>1. j \in 1..Len(page) /\ page[j] = items[j]
      BY <1>4, <1>5
    <3> QED BY <1>4, <3>1, RangeIsAt
  <2>3. items = InOrder(catalog[s].manifests)
    BY <1>1, <1>7
  <2> HIDE DEF next, snapshot
  <2>4. ReaderHolds(GotPage(s, "definitions", items, next, page, items, snapshot))
    BY <1>2, <1>4, <1>5, <2>2, <2>3, DefinitionsShown
  <2> QED BY <1>7, <2>4 DEF next, snapshot, items, page
<1> QED BY <1>6, <1>7

(* A page that a cursor asks for continues where the cursor stands, if the *)
(* aliases are still those of the first page.                              *)
LEMMA NextPage ==
    ASSUME CatalogHolds, NEW s \in QueryScopes, NEW kind \in {"workflows", "definitions"},
           NEW d, OnPage(d), d.cursor.scope = s, d.cursor.kind = kind,
           d.cursor.snapshot = catalog[s].aliases
    PROVE  LET items == Items(s, kind)
               offset == d.cursor.offset
               page == PageFrom(items, offset)
           IN  ReaderHolds(GotPage(s, kind, items, offset + Len(page), d.got \o page, d.base,
                                   catalog[s].aliases))
<1> DEFINE items == Items(s, kind)
           offset == d.cursor.offset
           page == PageFrom(items, offset)
           next == offset + Len(page)
           snapshot == catalog[s].aliases
           got == d.got
           base == d.base
<1>1. items = InOrder(IF kind = "definitions" THEN catalog[s].manifests ELSE AliasKeys(snapshot))
  BY DEF Items
<1>2. items \in Seq(DefinitionKeys) /\ snapshot \in [WorkflowNames -> Nat]
  BY <1>1, TargetsAreKeys, ItemsAreKeys
<1>3. offset \in Nat /\ d.kind = kind /\ got \in Seq(DefinitionKeys)
  BY DEF OnPage
<1>4. /\ kind = "workflows" => WorkflowsSoFar(d)
      /\ kind = "definitions" => DefinitionsSoFar(d, items)
  <2>1. kind = "definitions" => items = InOrder(catalog[d.cursor.scope].manifests)
    BY <1>1
  <2> HIDE DEF items
  <2> QED BY <1>3, <2>1 DEF OnPage
<1>5. kind = "workflows" => items = base
  BY <1>1, <1>4 DEF WorkflowsSoFar
<1> HIDE DEF items
<1>6. offset \in 0..Len(items)
  BY <1>4, <1>5 DEF WorkflowsSoFar, DefinitionsSoFar
<1>7. /\ page \in Seq(DefinitionKeys) /\ Len(page) \in Nat /\ offset + Len(page) \in 0..Len(items)
      /\ \A i \in 1..Len(page) : page[i] = items[offset + i]
  BY <1>2, <1>6, PageIsPart
<1> HIDE DEF page
<1>8. next \in Nat /\ next \in 0..Len(items)
  BY <1>3, <1>7
<1>9. CASE kind = "workflows"
  <2>1. got = SubSeq(items, 1, offset)
    BY <1>4, <1>5, <1>9 DEF WorkflowsSoFar
  <2> HIDE DEF got, offset
  <2>2. got \o page = SubSeq(items, 1, next)
    BY <1>2, <1>3, <1>6, <1>7, <1>8, <2>1
  <2>3. items = InOrder(AliasKeys(snapshot))
    BY <1>1, <1>9
  <2> HIDE DEF next, snapshot
  <2>4. ReaderHolds(GotPage(s, "workflows", items, next, got \o page, items, snapshot))
    BY <1>2, <1>8, <2>2, <2>3, WorkflowsShown
  <2>5. base = items
    BY <1>5, <1>9
  <2> QED BY <1>9, <2>4, <2>5 DEF next, snapshot, items, page, got, offset
<1>10. CASE kind = "definitions"
  <2>1. /\ Range(base) \subseteq Range(items)
        /\ \A j \in 1..offset : items[j] \in Range(base) => items[j] \in Range(got)
    BY <1>4, <1>10 DEF DefinitionsSoFar
  <2> HIDE DEF got, offset, base
  <2>2. /\ got \o page \in Seq(DefinitionKeys)
        /\ \A j \in 1..next : items[j] \in Range(base) => items[j] \in Range(got \o page)
    BY <1>2, <1>3, <1>7, <2>1, PagesShown
  <2>3. items = InOrder(catalog[s].manifests)
    BY <1>1, <1>10
  <2> HIDE DEF next, snapshot
  <2>4. ReaderHolds(GotPage(s, "definitions", items, next, got \o page, base, snapshot))
    BY <1>2, <1>8, <2>1, <2>2, <2>3, DefinitionsShown
  <2> QED BY <1>10, <2>4 DEF next, snapshot, items, page, got, offset, base
<1> QED BY <1>9, <1>10

(* A page, the first or a later one, or the refusal of a cursor that is    *)
(* stale.                                                                  *)
LEMMA ListPageKeeps ==
    ASSUME QueriesInv, NEW r \in Readers, NEW s \in QueryScopes,
           NEW kind \in {"workflows", "definitions"}, ListPage(r, s, kind)
    PROVE  QueriesInv'
<1> DEFINE d == reader[r]
           items == Items(s, kind)
           snapshot == catalog[s].aliases
           verdict == PageOffset(s, kind, snapshot, d.cursor)
           offset == IF verdict = "offset" THEN d.cursor.offset ELSE 0
           page == PageFrom(items, offset)
           got == IF verdict = "first" THEN page ELSE d.got \o page
           base == IF verdict = "first" THEN items ELSE d.base
           v == IF verdict \in {"invalid_query", "stale_cursor"}
                THEN [pc |-> verdict, cursor |-> NoCursor]
                ELSE GotPage(s, kind, items, offset + Len(page), got, base, snapshot)
<1>1. d.pc \in {"idle", "paging"} /\ reader' = [reader EXCEPT ![r] = v] /\ catalog' = catalog
  BY DEF ListPage, GotPage
<1>2. CatalogHolds /\ ReaderHolds(d)
  BY DEF QueriesInv
<1>3. verdict \in {"first", "invalid_query", "stale_cursor", "offset"}
  BY DEF PageOffset
<1>4. ReaderHolds(v)
  <2>1. CASE verdict = "first"
    <3>1. ReaderHolds(GotPage(s, kind, items, 0 + Len(PageFrom(items, 0)), PageFrom(items, 0), items, snapshot))
      BY <1>2, FirstPage
    <3>2. v = GotPage(s, kind, items, 0 + Len(PageFrom(items, 0)), PageFrom(items, 0), items, snapshot)
      BY <2>1
    <3> HIDE DEF v
    <3> QED BY <3>1, <3>2
  <2>2. CASE verdict = "offset"
    <3>1. d.cursor # NoCursor /\ d.cursor.scope = s /\ d.cursor.kind = kind /\ d.cursor.snapshot = snapshot
      BY <2>2 DEF PageOffset
    <3>2. OnPage(d)
      BY <1>1, <1>2, <3>1 DEF ReaderHolds, QueryEnded
    <3>3. ReaderHolds(GotPage(s, kind, items, d.cursor.offset + Len(PageFrom(items, d.cursor.offset)),
                              d.got \o PageFrom(items, d.cursor.offset), d.base, snapshot))
      BY <1>2, <3>1, <3>2, NextPage
    <3>4. v = GotPage(s, kind, items, d.cursor.offset + Len(PageFrom(items, d.cursor.offset)),
                      d.got \o PageFrom(items, d.cursor.offset), d.base, snapshot)
      BY <2>2
    <3> HIDE DEF v
    <3> QED BY <3>3, <3>4
  <2>3. CASE verdict \in {"invalid_query", "stale_cursor"}
    <3>1. v.pc \in QueryEnded /\ v.cursor = NoCursor
      BY <2>3 DEF QueryEnded
    <3> HIDE DEF v
    <3> QED BY <3>1 DEF ReaderHolds
  <2> QED BY <1>3, <2>1, <2>2, <2>3
<1> HIDE DEF v
<1> QED BY <1>1, <1>4, ReaderMoves

(* A workflow that is described begins with the children of its definition. *)
LEMMA DescribeReads ==
    ASSUME QueriesInv, NEW r \in Readers, NEW s \in QueryScopes, NEW n \in WorkflowNames,
           DescribeWorkflow(r, s, n)
    PROVE  QueriesInv'
<1> DEFINE digest == catalog[s].aliases[n]
           key == <<n, digest>>
           v == IF digest = 0 THEN [pc |-> "not_found", cursor |-> NoCursor]
                ELSE [pc |-> "children", cursor |-> NoCursor, root |-> key,
                      known |-> catalog[s].manifests, pending |-> ChildrenOf[key],
                      children |-> {}]
<1>1. reader' = [reader EXCEPT ![r] = v] /\ catalog' = catalog
  BY DEF DescribeWorkflow
<1>2. CASE digest = 0
  <2>1. v.pc \in QueryEnded /\ v.cursor = NoCursor
    BY <1>2 DEF QueryEnded
  <2> HIDE DEF v
  <2> QED BY <1>1, <2>1, ReaderMoves DEF ReaderHolds
<1>3. CASE digest # 0
  <2>1. key \in DefinitionKeys
    BY <1>3 DEF QueriesInv, CatalogHolds
  <2> HIDE DEF key
  <2>2. ChildrenOf[key] \in Seq(DefinitionKeys)
    BY <2>1, QueryAssumption
  <2>3. /\ v.pc = "children" /\ v.root = key /\ v.pending = ChildrenOf[key] /\ v.children = {}
        /\ v = [pc |-> v.pc, cursor |-> v.cursor, root |-> v.root, known |-> v.known,
                pending |-> v.pending, children |-> v.children]
    BY <1>3 DEF key
  <2> HIDE DEF v
  <2>4. Shows(v)
    BY <2>1, <2>2, <2>3 DEF Shows
  <2> QED BY <1>1, <2>3, <2>4, ReaderMoves DEF ReaderHolds
<1> QED BY <1>2, <1>3

(* A child that is looked at is shown and hands on its own children, or was*)
(* shown already, or ends the description.                                 *)
LEMMA PopChildKeeps ==
    ASSUME QueriesInv, NEW r \in Readers, PopChild(r)
    PROVE  QueriesInv'
<1> DEFINE d == reader[r]
           P == d.pending
           child == Last(P)
           rest == Front(P)
<1>1. /\ d.pc = "children" /\ P # <<>> /\ catalog' = catalog
      /\ \/ \E v : v.pc \in QueryEnded /\ v.cursor = NoCursor /\ reader' = [reader EXCEPT ![r] = v]
         \/ /\ \E k \in d.children : k[1] = child[1]
            /\ reader' = [reader EXCEPT ![r] = [d EXCEPT !.pending = rest]]
         \/ reader' = [reader EXCEPT ![r] = [d EXCEPT !.children = @ \cup {child},
                                                      !.pending = Pending(rest, child)]]
  <2> DEFINE v == [pc |-> "unavailable", cursor |-> NoCursor]
  <2>1. v.pc \in QueryEnded /\ v.cursor = NoCursor
    BY DEF QueryEnded
  <2> QED BY <2>1 DEF PopChild
<1>2. Shows(d)
  BY <1>1 DEF QueriesInv, ReaderHolds, QueryEnded
<1>3. P \in Seq(DefinitionKeys) /\ Len(P) \in Nat \ {0} /\ DOMAIN P = 1..Len(P)
  BY <1>1, <1>2 DEF Shows
<1>4. /\ child = P[Len(P)] /\ child \in DefinitionKeys
      /\ rest \in Seq(DefinitionKeys) /\ Len(rest) = Len(P) - 1
      /\ \A j \in 1..(Len(P) - 1) : rest[j] = P[j]
  BY <1>3 DEF Last, Front
<1>5. ChildrenOf[child] \in Seq(DefinitionKeys)
  BY <1>4, QueryAssumption
<1>6. \A j \in DOMAIN P : P[j] = child \/ \E i \in DOMAIN rest : rest[i] = P[j]
  BY <1>3, <1>4
<1> HIDE DEF child, rest
<1>7. CASE \E v : v.pc \in QueryEnded /\ v.cursor = NoCursor /\ reader' = [reader EXCEPT ![r] = v]
  <2>1. PICK v : v.pc \in QueryEnded /\ v.cursor = NoCursor /\ reader' = [reader EXCEPT ![r] = v]
    BY <1>7
  <2> QED BY <1>1, <2>1, ReaderMoves DEF ReaderHolds
<1>8. CASE /\ \E k \in d.children : k[1] = child[1]
           /\ reader' = [reader EXCEPT ![r] = [d EXCEPT !.pending = rest]]
  <2> DEFINE v == [d EXCEPT !.pending = rest]
  <2>1. v = [pc |-> "children", cursor |-> d.cursor, root |-> d.root, known |-> d.known,
             pending |-> rest, children |-> d.children]
    BY <1>1, <1>2 DEF Shows
  <2>2. /\ v.pc = "children" /\ v.children = d.children /\ v.root = d.root /\ v.pending = rest
        /\ v = [pc |-> v.pc, cursor |-> v.cursor, root |-> v.root, known |-> v.known,
                pending |-> v.pending, children |-> v.children]
    BY <2>1
  <2> HIDE DEF v
  <2>3. ASSUME NEW k \in d.children \cup {d.root}, NEW i \in DOMAIN ChildrenOf[k]
        PROVE  \/ \E c \in d.children : c[1] = ChildrenOf[k][i][1]
               \/ \E j \in DOMAIN rest : rest[j] = ChildrenOf[k][i]
    BY <1>2, <1>6, <1>8 DEF Shows
  <2>4. Shows(v)
    BY <1>2, <1>4, <2>2, <2>3 DEF Shows
  <2> QED BY <1>1, <1>8, <2>2, <2>4, ReaderMoves DEF ReaderHolds, v
<1>9. CASE reader' = [reader EXCEPT ![r] = [d EXCEPT !.children = @ \cup {child},
                                                     !.pending = Pending(rest, child)]]
  <2> DEFINE v == [d EXCEPT !.children = @ \cup {child}, !.pending = Pending(rest, child)]
             more == rest \o ChildrenOf[child]
  <2>1. /\ v.pc = "children" /\ v.children = d.children \cup {child} /\ v.root = d.root
        /\ v.pending = more
        /\ v = [pc |-> v.pc, cursor |-> v.cursor, root |-> v.root, known |-> v.known,
                pending |-> v.pending, children |-> v.children]
    <3>1. v = [pc |-> "children", cursor |-> d.cursor, root |-> d.root, known |-> d.known,
               pending |-> more, children |-> d.children \cup {child}]
      <4>1. d = [pc |-> "children", cursor |-> d.cursor, root |-> d.root, known |-> d.known,
                 pending |-> d.pending, children |-> d.children]
        BY <1>1, <1>2 DEF Shows
      <4>2. v = [d EXCEPT !.children = d.children \cup {child}, !.pending = more]
        BY DEF Pending
      <4> HIDE DEF d, v, more
      <4>3. [d EXCEPT !.children = d.children \cup {child}]
              = [pc |-> "children", cursor |-> d.cursor, root |-> d.root, known |-> d.known,
                 pending |-> d.pending, children |-> d.children \cup {child}]
        BY <4>1
      <4>4. v = [[d EXCEPT !.children = d.children \cup {child}] EXCEPT !.pending = more]
        BY <4>2
      <4> QED BY <4>3, <4>4
    <3> HIDE DEF v, more
    <3> QED BY <3>1
  <2>2. /\ more \in Seq(DefinitionKeys)
        /\ \A j \in DOMAIN rest : \E i \in DOMAIN more : more[i] = rest[j]
        /\ \A j \in DOMAIN ChildrenOf[child] : \E i \in DOMAIN more : more[i] = ChildrenOf[child][j]
    <3> DEFINE Q == ChildrenOf[child]
    <3> HIDE DEF Q
    <3>1. /\ rest \in Seq(DefinitionKeys) /\ Q \in Seq(DefinitionKeys)
          /\ more \in Seq(DefinitionKeys) /\ more = rest \o Q
      BY <1>4, <1>5 DEF Q
    <3> HIDE DEF more
    <3>2. /\ Len(more) = Len(rest) + Len(Q) /\ DOMAIN rest = 1..Len(rest)
          /\ DOMAIN more = 1..Len(more) /\ DOMAIN Q = 1..Len(Q)
          /\ \A j \in 1..Len(rest) : more[j] = rest[j]
          /\ \A j \in 1..Len(Q) : more[Len(rest) + j] = Q[j]
      BY <3>1
    <3>3. ASSUME NEW j \in DOMAIN Q PROVE \E i \in DOMAIN more : more[i] = Q[j]
      <4>1. Len(rest) + j \in 1..Len(more) /\ more[Len(rest) + j] = Q[j]
        BY <3>1, <3>2
      <4> QED BY <3>2, <4>1
    <3>4. ASSUME NEW j \in DOMAIN rest PROVE \E i \in DOMAIN more : more[i] = rest[j]
      BY <3>1, <3>2
    <3> QED BY <3>1, <3>3, <3>4 DEF Q
  <2> HIDE DEF v, more
  <2>3. ASSUME NEW k \in d.children \cup {child, d.root}, NEW i \in DOMAIN ChildrenOf[k]
        PROVE  \/ \E c \in d.children \cup {child} : c[1] = ChildrenOf[k][i][1]
               \/ \E j \in DOMAIN more : more[j] = ChildrenOf[k][i]
    <3>1. CASE k = child
      BY <2>2, <3>1
    <3>2. CASE k # child
      BY <1>2, <1>6, <2>2, <3>2 DEF Shows
    <3> QED BY <3>1, <3>2
  <2>4. Shows(v)
    BY <1>2, <1>4, <2>1, <2>2, <2>3 DEF Shows
  <2> QED BY <1>1, <1>9, <2>1, <2>4, ReaderMoves DEF ReaderHolds, v
<1> QED BY <1>1, <1>7, <1>8, <1>9

(* A description without pending children is complete. *)
LEMMA DescribedKeeps ==
    ASSUME QueriesInv, NEW r \in Readers, Described(r)
    PROVE  QueriesInv'
<1> DEFINE d == reader[r]
           v == [d EXCEPT !.pc = "described"]
<1>1. /\ d.pc = "children" /\ d.pending = <<>> /\ catalog' = catalog
      /\ reader' = [reader EXCEPT ![r] = v]
  BY DEF Described
<1>2. Shows(d)
  BY <1>1 DEF QueriesInv, ReaderHolds, QueryEnded
<1>3. /\ v.pc = "described" /\ v.children = d.children /\ v.root = d.root /\ v.pending = d.pending
      /\ v = [pc |-> v.pc, cursor |-> v.cursor, root |-> v.root, known |-> v.known,
              pending |-> v.pending, children |-> v.children]
  <2>1. v = [pc |-> "described", cursor |-> d.cursor, root |-> d.root, known |-> d.known,
             pending |-> d.pending, children |-> d.children]
    BY <1>1, <1>2 DEF Shows
  <2> HIDE DEF v
  <2> QED BY <2>1
<1> HIDE DEF v
<1>4. Shows(v)
  BY <1>2, <1>3 DEF Shows
<1> QED BY <1>1, <1>3, <1>4, ReaderMoves DEF ReaderHolds

(* Every step of the queries keeps the invariant. *)
LEMMA QueriesKeepInv == QueriesInv /\ QueriesNext => QueriesInv'
  BY StoreManifestKeeps, ReplaceAliasKeeps, ListPageKeeps, DescribeReads, PopChildKeeps,
     DescribedKeeps DEF QueriesNext

(* The invariant is about the variables of the queries alone. *)
LEMMA QueriesRest == QueriesInv /\ UNCHANGED queryVars => QueriesInv'
<1> SUFFICES ASSUME QueriesInv, UNCHANGED queryVars PROVE QueriesInv'
  OBVIOUS
<1>1. catalog' = catalog /\ reader' = reader
  BY DEF queryVars
<1>2. CASE Readers = {}
  BY <1>1, <1>2 DEF QueriesInv, CatalogHolds
<1>3. CASE Readers # {}
  <2>1. PICK r \in Readers : TRUE
    BY <1>3
  <2>2. ASSUME NEW v, v = reader[r] PROVE QueriesInv'
    <3>1. ReaderHolds(v) /\ reader' = [reader EXCEPT ![r] = v]
      BY <1>1, <2>2 DEF QueriesInv
    <3> QED BY <1>1, <3>1, ReaderMoves
  <2> QED BY <2>2
<1> QED BY <1>2, <1>3

-----------------------------------------------------------------------------
(* The list of scheduled starts: what a walk misses was removed.           *)

NumberOrder == {p \in Nat \X Nat : p[1] < p[2]}

(* Numbers are ordered by their size. *)
LEMMA NumbersAreOrdered == ASSUME NEW T, T \subseteq Nat PROVE Orders(NumberOrder, T)
<1>1. \A x, y \in T : <<x, y>> \in NumberOrder <=> x < y
  BY DEF NumberOrder
<1>2. /\ \A x \in T : ~(x < x)
      /\ \A x, y, z \in T : x < y /\ y < z => x < z
      /\ \A x, y \in T : x # y => x < y \/ y < x
  OBVIOUS
<1> QED BY <1>1, <1>2 DEF Orders

(* A set of numbers can be counted off in order. *)
LEMMA CountedOff ==
    ASSUME NEW T, T \subseteq Nat, IsFiniteSet(T)
    PROVE  /\ Cardinality(T) \in Nat
           /\ \E f \in [1..Cardinality(T) -> T] :
                /\ \A i, j \in 1..Cardinality(T) : i < j => f[i] < f[j]
                /\ \A x \in T : \E i \in 1..Cardinality(T) : f[i] = x
<1>1. Orders(NumberOrder, T)
  BY NumbersAreOrdered
<1>2. PICK f : Lists(f, T, NumberOrder)
  BY <1>1, ListExists
<1>3. /\ f \in [1..Cardinality(T) -> T]
      /\ \A i, j \in 1..Cardinality(T) : i < j => f[i] < f[j]
  BY <1>2 DEF Lists, NumberOrder
<1>4. Cardinality(T) \in Nat /\ \A x \in T : \E i \in 1..Cardinality(T) : f[i] = x
  BY <1>1, <1>2, ListHasAll
<1> QED BY <1>3, <1>4

(* Some numbers, sorted, are there once each and in order. *)
LEMMA AscendingLists ==
    ASSUME NEW T, T \subseteq Nat, IsFiniteSet(T)
    PROVE  /\ Ascending(T) \in Seq(T) /\ Len(Ascending(T)) = Cardinality(T) /\ Cardinality(T) \in Nat
           /\ \A i, j \in 1..Len(Ascending(T)) : i < j => Ascending(T)[i] < Ascending(T)[j]
           /\ \A x \in T : \E i \in 1..Len(Ascending(T)) : Ascending(T)[i] = x
<1> DEFINE P(g) == \A i, j \in DOMAIN g : i < j => g[i] < g[j]
           n == Cardinality(T)
<1>1. n \in Nat /\ \E f \in [1..n -> T] : P(f)
  BY CountedOff
<1>2. Ascending(T) \in [1..n -> T] /\ P(Ascending(T))
  <2>1. Ascending(T) = CHOOSE g \in [1..n -> T] : P(g)
    BY DEF Ascending
  <2> HIDE DEF P, n
  <2> QED BY <1>1, <2>1
<1> DEFINE f == Ascending(T)
<1> HIDE DEF f
<1>3. f \in [1..n -> T] /\ \A i, j \in 1..n : i < j => f[i] < f[j]
  BY <1>2 DEF f
<1>4. \A i, j \in 1..n : i < j => <<f[i], f[j]>> \in NumberOrder
  <2>1. \A i \in 1..n : f[i] \in Nat
    BY <1>3
  <2> QED BY <1>3, <2>1 DEF NumberOrder
<1>5. Lists(f, T, NumberOrder) /\ Orders(NumberOrder, T)
  BY <1>3, <1>4, NumbersAreOrdered DEF Lists
<1>6. f \in Seq(T) /\ Len(f) = n /\ \A x \in T : \E i \in 1..n : f[i] = x
  BY <1>5, ListHasAll
<1> QED BY <1>1, <1>3, <1>6 DEF f

(* Of k or more numbers one is the k-th. *)
LEMMA TheKth ==
    ASSUME NEW T, T \subseteq Nat, IsFiniteSet(T), NEW k \in Nat \ {0}, k <= Cardinality(T)
    PROVE  \E x \in T : Cardinality({y \in T : y <= x}) = k
<1>1. PICK f \in [1..Cardinality(T) -> T] :
         /\ \A i, j \in 1..Cardinality(T) : i < j => f[i] < f[j]
         /\ \A x \in T : \E i \in 1..Cardinality(T) : f[i] = x
  BY CountedOff
<1>2. Cardinality(T) \in Nat
  BY CountedOff
<1> DEFINE n == Cardinality(T)
           g == [i \in 1..k |-> f[i]]
           U == {y \in T : y <= f[k]}
<1> HIDE DEF n
<1>3. k \in 1..n /\ \A i \in 1..k : i \in 1..n
  BY <1>2 DEF n
<1>4. \A i \in 1..n : f[i] \in Nat
  BY <1>1 DEF n
<1>5. \A i, j \in 1..n : i < j => f[i] < f[j]
  BY <1>1 DEF n
<1>6. g \in [1..k -> U]
  <2> SUFFICES ASSUME NEW i \in 1..k PROVE f[i] \in U
    OBVIOUS
  <2>1. f[i] \in T
    BY <1>1, <1>3 DEF n
  <2>2. f[i] <= f[k]
    BY <1>3, <1>4, <1>5
  <2> QED BY <2>1, <2>2
<1>7. \A i, j \in 1..k : g[i] = g[j] => i = j
  BY <1>2, <1>3, <1>4, <1>5
<1>8. \A x \in U : \E i \in 1..k : g[i] = x
  <2> SUFFICES ASSUME NEW x \in U PROVE \E i \in 1..k : f[i] = x
    OBVIOUS
  <2>1. PICK i \in 1..n : f[i] = x
    BY <1>1 DEF n
  <2>2. i <= k
    BY <1>2, <1>3, <1>4, <1>5, <2>1 DEF n
  <2> QED BY <2>1, <2>2
<1> HIDE DEF g, U
<1>9. g \in Bijection(1..k, U)
  BY <1>6, <1>7, <1>8 DEF Bijection, Injection, Surjection, IsInjective
<1>10. IsFiniteSet(1..k) /\ Cardinality(1..k) = k
  BY FS_Interval
<1>11. Cardinality(U) = k
  BY <1>9, <1>10, FS_Bijection DEF ExistsBijection
<1>12. f[k] \in T
  BY <1>1, <1>3 DEF n
<1> QED BY <1>11, <1>12 DEF U

-----------------------------------------------------------------------------
(* Where a walk stands: after a token and n schedules P of the page after  *)
(* it, as it was when it was fetched.                                      *)

StillPending(base) == {i \in base \cap Existing : starts[i] = "pending"}

(* What is behind it and was not visible, *)
Missed(base, token, P, visible) == {i \in StillPending(base) : i <= token \/ i \in P} \ visible

(* as many at most as were removed, but for those of P: they are skipped   *)
(* only when the page is fetched again.                                    *)
StandsAt(base, token, P, n, visible) ==
  /\ token \in Nat /\ n \in Nat
  /\ P \subseteq Existing \cup removed /\ Cardinality(P) = n
  /\ \A p \in P : p > token
  /\ \A i \in base \cap Existing : i > token /\ i \notin P => \A p \in P : p < i
  /\ Cardinality(Missed(base, token, P, visible)) <= Cardinality(removed \ P)

First(entries, k) == {entries[i] : i \in 1..k}

Rises(e) == \A i, j \in 1..Len(e) : i < j => e[i] < e[j]

(* e is a page after the token, with what is left of the base in it, or    *)
(* after the next token.                                                   *)
PageOf(base, token, e, next) ==
  /\ e \in Seq(ListIds) /\ Rises(e) /\ next \in Nat
  /\ \A i \in 1..Len(e) : /\ e[i] \in Existing \cup removed /\ e[i] > token
                          /\ next # NoToken => e[i] <= next
  /\ \A i \in base \cap Existing : i > token =>
       (\E j \in 1..Len(e) : e[j] = i) \/ (next # NoToken /\ i > next)

IsPage(w) ==
  /\ w = [pc |-> w.pc, limit |-> w.limit, filter |-> w.filter, records |-> w.records,
          scanned |-> w.scanned, got |-> w.got, base |-> w.base, token |-> w.token,
          index |-> w.index, size |-> w.size, entries |-> w.entries, next |-> w.next]
  /\ w.index \in 0..Len(w.entries) /\ PageOf(w.base, w.token, w.entries, w.next)

InRequest(w) ==
  /\ w.limit \in Nat \ {0} /\ w.size \in Nat \ {0} /\ "pending" \in w.filter
  /\ w.scanned \in Nat /\ IsFiniteSet(w.records) /\ Cardinality(w.records) < w.limit
  /\ w.token \in Nat

WalkHolds(w) ==
  /\ w.base \subseteq Existing \cup removed
  /\ w.pc = "idle" => w.got = {}
  /\ w.pc = "paging"
       => /\ w.cursor.size \in Nat \ {0} /\ w.cursor.token \in Nat
          /\ \E P \in SUBSET ListIds : StandsAt(w.base, w.cursor.token, P, w.cursor.offset, w.got)
  /\ w.pc = "fetch"
       => /\ InRequest(w)
          /\ \E P \in SUBSET ListIds : StandsAt(w.base, w.token, P, w.index, w.got \cup w.records)
  /\ w.pc = "scan"
       => /\ InRequest(w) /\ IsPage(w)
          /\ StandsAt(w.base, w.token, First(w.entries, w.index), w.index, w.got \cup w.records)
  /\ w.pc = "listed" => Cardinality(StillPending(w.base) \ w.got) <= Cardinality(removed)

ListInv ==
  /\ starts \in [ListIds -> {"none", "pending", "ended"}]
  /\ removed \subseteq ListIds /\ removed \cap Existing = {}
  /\ WalkHolds(walk)

Placed == /\ starts \in [ListIds -> {"none", "pending", "ended"}]
          /\ removed \subseteq ListIds /\ removed \cap Existing = {}

(* What there is of scheduled starts can be counted. *)
LEMMA ListIdsAreFinite ==
    /\ \A T : T \subseteq ListIds => IsFiniteSet(T) /\ Cardinality(T) \in Nat /\ T \subseteq Nat
    /\ \A T, U : T \subseteq U /\ U \subseteq ListIds => Cardinality(T) <= Cardinality(U)
<1>1. ASSUME NEW T, T \subseteq ListIds PROVE IsFiniteSet(T) /\ Cardinality(T) \in Nat /\ T \subseteq Nat
  BY <1>1, ListAssumption, FS_Subset, FS_CardinalityType
<1>2. ASSUME NEW T, NEW U, T \subseteq U, U \subseteq ListIds
      PROVE  Cardinality(T) <= Cardinality(U)
  BY <1>1, <1>2, FS_Subset
<1> QED BY <1>1, <1>2

(* What a walk missed are scheduled starts. *)
LEMMA MissedAreIds ==
    ASSUME NEW base, NEW token, NEW P, NEW visible
    PROVE  Missed(base, token, P, visible) \subseteq ListIds
  BY DEF Missed, StillPending, Existing

(* What changes meanwhile: nothing that was there appears again, what is   *)
(* removed is counted.                                                     *)
LEMMA ChangeKeepsStand ==
    ASSUME Placed, Placed', NEW base, base \subseteq Existing \cup removed,
           removed \subseteq removed', Existing \cup removed \subseteq (Existing \cup removed)',
           \A i \in ListIds : i \in base /\ i \in Existing' => i \in Existing,
           \A i \in ListIds : i \in base /\ starts'[i] = "pending" => starts[i] = "pending",
           NEW token, NEW P \in SUBSET ListIds, NEW n, NEW visible, StandsAt(base, token, P, n, visible)
    PROVE  StandsAt(base, token, P, n, visible)'
<1>1. (base \cap Existing)' \subseteq base \cap Existing
  BY DEF Existing
<1>2. Missed(base, token, P, visible)' \subseteq Missed(base, token, P, visible)
  BY <1>1 DEF Missed, StillPending, Existing
<1>3. /\ Cardinality(Missed(base, token, P, visible)') <= Cardinality(Missed(base, token, P, visible))
      /\ Cardinality(removed \ P) <= Cardinality(removed' \ P)
      /\ Cardinality(Missed(base, token, P, visible)') \in Nat
      /\ Cardinality(Missed(base, token, P, visible)) \in Nat
      /\ Cardinality(removed \ P) \in Nat /\ Cardinality(removed' \ P) \in Nat
  <2>1. /\ Missed(base, token, P, visible) \subseteq ListIds
        /\ Missed(base, token, P, visible)' \subseteq ListIds
        /\ removed \ P \subseteq ListIds /\ removed' \ P \subseteq ListIds
        /\ removed \ P \subseteq removed' \ P
    BY <1>2, MissedAreIds DEF Placed
  <2> QED BY <1>2, <2>1, ListIdsAreFinite
<1>4. /\ token \in Nat /\ n \in Nat
      /\ P \subseteq Existing \cup removed /\ Cardinality(P) = n
      /\ \A p \in P : p > token
      /\ \A i \in base \cap Existing : i > token /\ i \notin P => \A p \in P : p < i
      /\ Cardinality(Missed(base, token, P, visible)) <= Cardinality(removed \ P)
  BY DEF StandsAt
<1>5. \A i \in (base \cap Existing)' : i > token /\ i \notin P => \A p \in P : p < i
  BY <1>1, <1>4
<1>6. Cardinality(Missed(base, token, P, visible)') <= Cardinality(removed' \ P)
  BY <1>3, <1>4
<1>7. P \subseteq (Existing \cup removed)'
  BY <1>4
<1> QED BY <1>4, <1>5, <1>6, <1>7 DEF StandsAt

(* Where a walk stands it still stands after a start appeared, ended or was*)
(* removed, for it misses no more than was removed.                        *)
LEMMA ChangeKeepsWalk ==
    ASSUME Placed, Placed', NEW w, WalkHolds(w),
           removed \subseteq removed', Existing \cup removed \subseteq (Existing \cup removed)',
           \A i \in ListIds : i \in w.base /\ i \in Existing' => i \in Existing,
           \A i \in ListIds : i \in w.base /\ starts'[i] = "pending" => starts[i] = "pending"
    PROVE  WalkHolds(w)'
<1>1. w.base \subseteq Existing \cup removed /\ w.base \subseteq (Existing \cup removed)'
  BY DEF WalkHolds
<1>2. ASSUME NEW token, NEW P \in SUBSET ListIds, NEW n, NEW visible,
             StandsAt(w.base, token, P, n, visible)
      PROVE  StandsAt(w.base, token, P, n, visible)'
  BY <1>1, <1>2, ChangeKeepsStand
<1>3. w.base \cap Existing' \subseteq w.base \cap Existing
  BY DEF Existing
<1>4. CASE w.pc = "paging"
  <2>1. /\ w.cursor.size \in Nat \ {0} /\ w.cursor.token \in Nat
        /\ \E P \in SUBSET ListIds : StandsAt(w.base, w.cursor.token, P, w.cursor.offset, w.got)
    BY <1>4 DEF WalkHolds
  <2>2. \E P \in SUBSET ListIds : StandsAt(w.base, w.cursor.token, P, w.cursor.offset, w.got)'
    BY <1>2, <2>1
  <2> QED BY <1>1, <1>4, <2>1, <2>2 DEF WalkHolds
<1>5. CASE w.pc = "fetch"
  <2>1. /\ InRequest(w)
        /\ \E P \in SUBSET ListIds : StandsAt(w.base, w.token, P, w.index, w.got \cup w.records)
    BY <1>5 DEF WalkHolds
  <2>2. \E P \in SUBSET ListIds : StandsAt(w.base, w.token, P, w.index, w.got \cup w.records)'
    BY <1>2, <2>1
  <2> QED BY <1>1, <1>5, <2>1, <2>2 DEF WalkHolds, InRequest
<1>6. CASE w.pc = "scan"
  <2>1. /\ InRequest(w) /\ IsPage(w)
        /\ StandsAt(w.base, w.token, First(w.entries, w.index), w.index, w.got \cup w.records)
    BY <1>6 DEF WalkHolds
  <2>2. First(w.entries, w.index) \in SUBSET ListIds
    BY <2>1 DEF IsPage, PageOf, First
  <2>3. ASSUME NEW P, P = First(w.entries, w.index)
        PROVE  StandsAt(w.base, w.token, P, w.index, w.got \cup w.records)'
    BY <1>2, <2>1, <2>2, <2>3
  <2>4. StandsAt(w.base, w.token, First(w.entries, w.index), w.index, w.got \cup w.records)'
    BY <2>3
  <2>5. IsPage(w)'
    BY <1>3, <2>1 DEF IsPage, PageOf
  <2> QED BY <1>1, <1>6, <2>1, <2>4, <2>5 DEF WalkHolds, InRequest
<1>7. CASE w.pc = "listed"
  <2> DEFINE M == StillPending(w.base) \ w.got
  <2>1. Cardinality(M) <= Cardinality(removed)
    BY <1>7 DEF WalkHolds
  <2>2. M' \subseteq M /\ M \subseteq ListIds /\ M' \subseteq ListIds
    BY <1>3 DEF StillPending, Existing
  <2>3. removed \subseteq removed' /\ removed' \subseteq ListIds /\ removed \subseteq ListIds
    BY DEF Placed
  <2> HIDE DEF M
  <2>4. Cardinality(M') <= Cardinality(removed')
    <3>1. /\ Cardinality(M') <= Cardinality(M) /\ Cardinality(removed) <= Cardinality(removed')
          /\ Cardinality(M) \in Nat /\ Cardinality(M') \in Nat
          /\ Cardinality(removed) \in Nat /\ Cardinality(removed') \in Nat
      BY <2>2, <2>3, ListIdsAreFinite
    <3> QED BY <2>1, <3>1
  <2> QED BY <1>1, <1>7, <2>4 DEF WalkHolds, M
<1>8. CASE w.pc \notin {"paging", "fetch", "scan", "listed"}
  BY <1>1, <1>8 DEF WalkHolds
<1> QED BY <1>4, <1>5, <1>6, <1>7, <1>8

(* So such a change keeps the invariant, *)
LEMMA ChangeKeeps ==
    ASSUME ListInv, Placed', walk' = walk,
           removed \subseteq removed', Existing \cup removed \subseteq (Existing \cup removed)',
           \A i \in ListIds : i \in walk.base /\ i \in Existing' => i \in Existing,
           \A i \in ListIds : i \in walk.base /\ starts'[i] = "pending" => starts[i] = "pending"
    PROVE  ListInv'
<1>1. Placed /\ WalkHolds(walk)
  BY DEF ListInv, Placed
<1>2. ASSUME NEW w, w = walk PROVE WalkHolds(w)'
  BY <1>1, <1>2, ChangeKeepsWalk
<1>3. WalkHolds(walk)'
  BY <1>2
<1> QED BY <1>3 DEF ListInv, Placed

(* and every change of a start is such a change. *)
LEMMA StartChangesKeep ==
    ASSUME ListInv, NEW i \in ListIds, StartAppears(i) \/ StartEnds(i) \/ StartIsRemoved(i)
    PROVE  ListInv'
<1>1. /\ starts \in [ListIds -> {"none", "pending", "ended"}] /\ walk' = walk
      /\ removed \subseteq ListIds /\ removed \cap Existing = {}
      /\ walk.base \subseteq Existing \cup removed
  BY DEF ListInv, WalkHolds, Changes, StartAppears, StartEnds, StartIsRemoved
<1>2. \E x \in {"none", "pending", "ended"} : starts' = [starts EXCEPT ![i] = x]
  BY DEF StartAppears, StartEnds, StartIsRemoved
<1>3. starts' \in [ListIds -> {"none", "pending", "ended"}]
  BY <1>1, <1>2
<1>4. CASE StartAppears(i)
  <2>1. /\ starts[i] = "none" /\ i \notin removed /\ removed' = removed
        /\ starts' = [starts EXCEPT ![i] = "pending"]
    BY <1>4 DEF StartAppears
  <2>2. Existing' = Existing \cup {i} /\ i \notin walk.base
    BY <1>1, <2>1 DEF Existing
  <2>3. Placed'
    BY <1>1, <1>3, <2>1, <2>2 DEF Placed
  <2> QED BY <1>1, <2>1, <2>2, <2>3, ChangeKeeps
<1>5. CASE StartEnds(i)
  <2>1. /\ starts[i] = "pending" /\ removed' = removed
        /\ starts' = [starts EXCEPT ![i] = "ended"]
    BY <1>5 DEF StartEnds
  <2>2. Existing' = Existing
    BY <1>1, <2>1 DEF Existing
  <2>3. Placed'
    BY <1>1, <1>3, <2>1, <2>2 DEF Placed
  <2> QED BY <1>1, <2>1, <2>2, <2>3, ChangeKeeps
<1>6. CASE StartIsRemoved(i)
  <2>1. /\ starts[i] # "none" /\ removed' = removed \cup {i}
        /\ starts' = [starts EXCEPT ![i] = "none"]
    BY <1>6 DEF StartIsRemoved
  <2>2. Existing' = Existing \ {i}
    BY <1>1, <2>1 DEF Existing
  <2>3. Placed'
    BY <1>1, <1>3, <2>1, <2>2 DEF Placed
  <2> QED BY <1>1, <2>1, <2>2, <2>3, ChangeKeeps
<1> QED BY <1>4, <1>5, <1>6

(* The walk takes a step and the starts stand still. *)
LEMMA WalkMoves ==
    ASSUME ListInv, NEW v, WalkHolds(v), walk' = v, UNCHANGED <<starts, removed>>
    PROVE  ListInv'
<1>1. Existing' = Existing /\ Placed /\ Placed'
  BY DEF ListInv, Placed, Existing
<1>2. WalkHolds(v)'
  BY <1>1, ChangeKeepsWalk
<1>3. WalkHolds(walk)'
  BY <1>2
<1> QED BY <1>1, <1>3 DEF ListInv, Placed

(* A walk that is refused or fails is over. *)
LEMMA EndsKeeps ==
    ASSUME ListInv, UNCHANGED <<starts, removed>>,
           NEW reason \in {"invalid_request", "quota_unavailable", "temporal_unavailable"},
           Ends(reason)
    PROVE  ListInv'
<1> DEFINE v == [pc |-> reason, cursor |-> NoListCursor, got |-> walk.got, base |-> walk.base]
<1>1. v.pc = reason /\ v.base = walk.base /\ walk' = v
  BY DEF Ends
<1>2. walk.base \subseteq Existing \cup removed
  BY DEF ListInv, WalkHolds
<1> HIDE DEF v
<1>3. WalkHolds(v)
  BY <1>1, <1>2 DEF WalkHolds
<1> QED BY <1>1, <1>3, WalkMoves

(* Nothing is behind the beginning. *)
LEMMA StandsAtFirst ==
    ASSUME Placed
    PROVE  StandsAt(Existing, NoToken, {}, 0, {})
<1>1. Missed(Existing, NoToken, {}, {}) = {}
  <2>1. \A i \in ListIds : i \in Nat /\ ~(i <= 0)
    BY ListAssumption
  <2>2. Missed(Existing, NoToken, {}, {}) \subseteq ListIds
    BY MissedAreIds
  <2> QED BY <2>1, <2>2 DEF Missed, NoToken
<1>2. Cardinality({}) = 0 /\ Cardinality(removed \ {}) \in Nat
  BY FS_EmptySet, ListIdsAreFinite DEF Placed
<1> QED BY <1>1, <1>2 DEF StandsAt, NoToken

(* A page that is asked for, first or from a cursor, or refused. *)
LEMMA AskPageKeeps ==
    ASSUME ListInv, NEW limit \in ListLimits, NEW filter \in Filters, AskPage(limit, filter)
    PROVE  ListInv'
<1>1. UNCHANGED <<starts, removed>> /\ walk.pc \in {"idle", "paging"} /\ Placed
  BY DEF AskPage, ListInv, Placed
<1> DEFINE v == [pc |-> "fetch", limit |-> limit, filter |-> filter, records |-> {}, scanned |-> 0,
                 got |-> walk.got,
                 base |-> IF walk.pc = "idle" THEN Existing ELSE walk.base,
                 token |-> IF walk.pc = "idle" THEN NoToken ELSE walk.cursor.token,
                 index |-> IF walk.pc = "idle" THEN 0 ELSE walk.cursor.offset,
                 size |-> IF walk.pc = "idle" THEN limit ELSE walk.cursor.size]
<1>2. Ends("invalid_request") \/ walk' = v
  BY DEF AskPage
<1>3. CASE Ends("invalid_request")
  BY <1>1, <1>3, EndsKeeps
<1>4. CASE walk' = v
  <2>1. limit \in Nat \ {0} /\ "pending" \in filter
    BY ListAssumption DEF Filters
  <2>2. WalkHolds(walk)
    BY DEF ListInv
  <2>3. CASE walk.pc = "idle"
    <3>1. /\ v.pc = "fetch" /\ v.limit = limit /\ v.filter = filter /\ v.records = {}
          /\ v.scanned = 0 /\ v.got = {} /\ v.base = Existing /\ v.token = NoToken
          /\ v.index = 0 /\ v.size = limit
      BY <2>2, <2>3 DEF WalkHolds
    <3> HIDE DEF v
    <3>2. InRequest(v)
      BY <2>1, <3>1, FS_EmptySet DEF InRequest, NoToken
    <3>3. StandsAt(v.base, v.token, {}, v.index, v.got \cup v.records)
      BY <1>1, <3>1, StandsAtFirst
    <3>4. WalkHolds(v)
      BY <3>1, <3>2, <3>3 DEF WalkHolds
    <3> QED BY <1>1, <1>4, <3>4, WalkMoves
  <2>4. CASE walk.pc = "paging"
    <3>1. /\ v.pc = "fetch" /\ v.limit = limit /\ v.filter = filter /\ v.records = {}
          /\ v.scanned = 0 /\ v.got = walk.got /\ v.base = walk.base
          /\ v.token = walk.cursor.token
          /\ v.index = walk.cursor.offset /\ v.size = walk.cursor.size
      BY <2>4
    <3> HIDE DEF v
    <3>2. /\ walk.base \subseteq Existing \cup removed
          /\ walk.cursor.size \in Nat \ {0} /\ walk.cursor.token \in Nat
          /\ \E P \in SUBSET ListIds :
               StandsAt(walk.base, walk.cursor.token, P, walk.cursor.offset, walk.got)
      BY <2>2, <2>4 DEF WalkHolds
    <3>3. InRequest(v)
      BY <2>1, <3>1, <3>2, FS_EmptySet DEF InRequest
    <3>4. v.got \cup v.records = walk.got
      BY <3>1
    <3>5. \E P \in SUBSET ListIds : StandsAt(v.base, v.token, P, v.index, v.got \cup v.records)
      BY <3>1, <3>2, <3>4
    <3>6. WalkHolds(v)
      BY <3>1, <3>2, <3>3, <3>5 DEF WalkHolds
    <3> QED BY <1>1, <1>4, <3>6, WalkMoves
  <2> QED BY <1>1, <2>3, <2>4
<1> QED BY <1>2, <1>3, <1>4

-----------------------------------------------------------------------------
(* A page is fetched again: as many are skipped as were removed of those   *)
(* that were passed.                                                       *)
LEMMA FetchedAgain ==
    ASSUME Placed, NEW base, base \subseteq Existing \cup removed,
           NEW token, NEW P \in SUBSET ListIds, NEW n, NEW visible, StandsAt(base, token, P, n, visible),
           NEW Q \in SUBSET ListIds, Q \subseteq Existing, Cardinality(Q) = n,
           \A q \in Q : q > token,
           \A i \in Existing : i > token /\ i \notin Q => \A q \in Q : q < i
    PROVE  StandsAt(base, token, Q, n, visible)
<1> DEFINE M == Missed(base, token, P, visible)
           N == Missed(base, token, Q, visible)
<1>1. /\ token \in Nat /\ n \in Nat /\ P \subseteq Existing \cup removed /\ Cardinality(P) = n
      /\ \A p \in P : p > token
      /\ \A i \in base \cap Existing : i > token /\ i \notin P => \A p \in P : p < i
      /\ Cardinality(M) <= Cardinality(removed \ P)
  BY DEF StandsAt
<1>2. /\ M \subseteq ListIds /\ N \subseteq ListIds /\ removed \subseteq ListIds
      /\ removed \cap Existing = {} /\ Existing \subseteq ListIds
  BY MissedAreIds DEF Placed, Existing
<1>3. ListIds \subseteq Nat
  BY ListIdsAreFinite
<1>4. N \ M \subseteq (Q \ P) \cap base \cap Existing
  BY DEF Missed, StillPending
<1> HIDE DEF M, N
<1>5. removed \ Q = removed
  BY <1>2
<1>6. CASE \E p \in P \ Q : p \in Existing
  <2>1. PICK p \in P \ Q : p \in Existing
    BY <1>6
  <2>2. \A q \in Q : q < p
    BY <1>1, <2>1
  <2>3. (Q \ P) \cap base \cap Existing = {}
    <3> SUFFICES ASSUME NEW q \in (Q \ P) \cap base \cap Existing PROVE FALSE
      OBVIOUS
    <3>1. p < q /\ q < p /\ p \in Nat /\ q \in Nat
      BY <1>1, <1>3, <2>1, <2>2
    <3> QED BY <3>1
  <2>4. N \subseteq M
    BY <1>4, <2>3
  <2>5. Cardinality(N) <= Cardinality(M) /\ Cardinality(removed \ P) <= Cardinality(removed)
    BY <1>2, <2>4, ListIdsAreFinite
  <2>6. /\ Cardinality(N) \in Nat /\ Cardinality(M) \in Nat
        /\ Cardinality(removed \ P) \in Nat /\ Cardinality(removed) \in Nat
    <3>1. removed \ P \subseteq ListIds
      BY <1>2
    <3> QED BY <1>2, <3>1, ListIdsAreFinite
  <2>7. Cardinality(N) <= Cardinality(removed \ Q)
    BY <1>1, <1>5, <2>5, <2>6
  <2> QED BY <1>1, <2>7 DEF StandsAt, N
<1>7. CASE \A p \in P \ Q : p \notin Existing
  <2>1. P \ Q \subseteq removed \cap P
    BY <1>1, <1>7
  <2>2. /\ IsFiniteSet(P) /\ IsFiniteSet(Q) /\ IsFiniteSet(M) /\ IsFiniteSet(N)
        /\ IsFiniteSet(removed) /\ IsFiniteSet(Q \ P)
    <3>1. Q \ P \subseteq ListIds
      OBVIOUS
    <3> QED BY <1>2, <3>1, ListIdsAreFinite
  <2>3. Cardinality(Q \ P) = Cardinality(P \ Q)
    <3>1. /\ Cardinality(Q \ P) = Cardinality(Q) - Cardinality(Q \cap P)
          /\ Cardinality(P \ Q) = Cardinality(P) - Cardinality(P \cap Q)
      BY <2>2, FS_Difference
    <3>2. P \cap Q = Q \cap P
      OBVIOUS
    <3> QED BY <1>1, <3>1, <3>2
  <2>4. Cardinality(removed \ P) = Cardinality(removed) - Cardinality(removed \cap P)
    BY <2>2, FS_Difference
  <2>5. Cardinality(P \ Q) <= Cardinality(removed \cap P)
    <3>1. removed \cap P \subseteq ListIds
      OBVIOUS
    <3> QED BY <2>1, <3>1, ListIdsAreFinite
  <2>6. Cardinality(N) <= Cardinality(M) + Cardinality(Q \ P)
    <3>1. N \subseteq M \cup (Q \ P) /\ M \cup (Q \ P) \subseteq ListIds
      BY <1>2, <1>4
    <3>2. Cardinality(M \cup (Q \ P)) = Cardinality(M) + Cardinality(Q \ P) - Cardinality(M \cap (Q \ P))
      BY <2>2, FS_Union
    <3>3. Cardinality(N) <= Cardinality(M \cup (Q \ P))
      BY <3>1, ListIdsAreFinite
    <3>4. /\ Cardinality(M \cap (Q \ P)) \in Nat /\ Cardinality(M) \in Nat
          /\ Cardinality(Q \ P) \in Nat /\ Cardinality(N) \in Nat
      <4>1. M \cap (Q \ P) \subseteq ListIds /\ Q \ P \subseteq ListIds
        BY <1>2
      <4> QED BY <1>2, <4>1, ListIdsAreFinite
    <3> QED BY <3>2, <3>3, <3>4
  <2>7. /\ Cardinality(M) \in Nat /\ Cardinality(N) \in Nat /\ Cardinality(removed) \in Nat
        /\ Cardinality(removed \cap P) \in Nat /\ Cardinality(Q \ P) \in Nat
        /\ Cardinality(P \ Q) \in Nat
    <3>1. removed \cap P \subseteq ListIds /\ Q \ P \subseteq ListIds /\ P \ Q \subseteq ListIds
      OBVIOUS
    <3> QED BY <1>2, <3>1, ListIdsAreFinite
  <2>8. Cardinality(N) <= Cardinality(removed \ Q)
    <3>1. Cardinality(N) <= Cardinality(M) + Cardinality(removed \cap P)
      BY <2>3, <2>5, <2>6, <2>7
    <3>2. Cardinality(M) <= Cardinality(removed) - Cardinality(removed \cap P)
      BY <1>1, <2>4
    <3>3. Cardinality(N) <= Cardinality(removed)
      BY <2>7, <3>1, <3>2
    <3> QED BY <1>5, <3>3
  <2> QED BY <1>1, <2>8 DEF StandsAt, N
<1> QED BY <1>6, <1>7

(* The first k of a page are k. *)
LEMMA FirstAreCounted ==
    ASSUME NEW e \in Seq(ListIds), Rises(e), NEW k \in 0..Len(e)
    PROVE  First(e, k) \subseteq ListIds /\ Cardinality(First(e, k)) = k
<1> DEFINE f == [i \in 1..k |-> e[i]]
<1>1. \A i \in 1..Len(e) : e[i] \in ListIds /\ e[i] \in Nat
  BY ListIdsAreFinite
<1>2. f \in [1..k -> First(e, k)] /\ \A x \in First(e, k) : \E i \in 1..k : f[i] = x
  BY DEF First
<1>3. \A i, j \in 1..k : f[i] = f[j] => i = j
  <2> SUFFICES ASSUME NEW i \in 1..k, NEW j \in 1..k, e[i] = e[j], i # j PROVE FALSE
    OBVIOUS
  <2>1. i < j \/ j < i
    OBVIOUS
  <2>2. i \in 1..Len(e) /\ j \in 1..Len(e)
    OBVIOUS
  <2> QED BY <1>1, <2>1, <2>2 DEF Rises
<1> HIDE DEF f
<1>4. f \in Bijection(1..k, First(e, k))
  BY <1>2, <1>3 DEF Bijection, Injection, Surjection, IsInjective
<1>5. IsFiniteSet(1..k) /\ Cardinality(1..k) = k
  BY FS_Interval
<1>6. Cardinality(First(e, k)) = k
  BY <1>4, <1>5, FS_Bijection DEF ExistsBijection
<1> QED BY <1>1, <1>6 DEF First

(* A sequence over a set is one over a larger set. *)
LEMMA LargerSeq ==
    ASSUME NEW S, NEW T, S \subseteq T, NEW s \in Seq(S)
    PROVE  s \in Seq(T)
<1>1. Len(s) \in Nat /\ s \in [1..Len(s) -> S]
  OBVIOUS
<1>2. s \in [1..Len(s) -> T]
  BY <1>1
<1> QED BY <1>1, <1>2

PageIsFrom(token, e, next) ==
  /\ e \in Seq(ListIds) /\ Rises(e) /\ next \in Nat
  /\ \A i \in 1..Len(e) : /\ e[i] \in Existing /\ e[i] > token
                          /\ next # NoToken => e[i] <= next
  /\ \A i \in Existing : i > token =>
       (\E j \in 1..Len(e) : e[j] = i) \/ (next # NoToken /\ i > next)

(* A page of Temporal, and what is on none of the pages up to it. *)
LEMMA PageAfterToken ==
    ASSUME Placed, NEW token \in Nat, NEW size \in Nat \ {0},
           NEW e, e = PageAfter(token, size), NEW next, next = TokenAfter(token, size)
    PROVE  PageIsFrom(token, e, next)
<1> SUFFICES /\ e \in Seq(ListIds) /\ Rises(e) /\ next \in Nat
             /\ \A i \in 1..Len(e) : /\ e[i] \in Existing /\ e[i] > token
                                     /\ next # NoToken => e[i] <= next
             /\ \A i \in Existing : i > token =>
                  (\E j \in 1..Len(e) : e[j] = i) \/ (next # NoToken /\ i > next)
  BY DEF PageIsFrom
<1> DEFINE T == {i \in Existing : i > token}
           A == After(token)
           n == Len(A)
           m == IF size <= n THEN size ELSE n
<1>1. T \subseteq ListIds /\ T \subseteq Nat /\ IsFiniteSet(T) /\ T \subseteq Existing
      /\ \A x \in T : x > token /\ x # 0
  <2>1. T \subseteq ListIds
    BY DEF Existing
  <2> QED BY <2>1, ListIdsAreFinite, ListAssumption
<1>2. A = Ascending(T)
  BY DEF After
<1>3. \A x \in Existing : x > token => x \in T
  OBVIOUS
<1> HIDE DEF T, A
<1>4. /\ A \in Seq(T) /\ n \in Nat
      /\ \A i, j \in 1..n : i < j => A[i] < A[j]
      /\ \A x \in T : \E i \in 1..n : A[i] = x
  BY <1>1, <1>2, AscendingLists
<1>5. e = SubSeq(A, 1, m)
  BY <1>4, LeastOfTwo DEF PageAfter, A
<1>6. next = IF n > size THEN A[size] ELSE 0
  BY DEF TokenAfter, NoToken, A
<1>7. /\ m \in 0..n /\ e \in Seq(T) /\ Len(e) = m /\ \A i \in 1..m : e[i] = A[i]
  BY <1>4, <1>5
<1>12. m = IF size <= n THEN size ELSE n
  OBVIOUS
<1> HIDE DEF m, n
<1>8. \A i \in 1..n : A[i] \in T /\ A[i] \in Nat
  <2>1. \A i \in 1..n : A[i] \in T
    BY <1>4 DEF n
  <2> QED BY <1>1, <2>1
<1>9. /\ e \in Seq(ListIds) /\ Rises(e)
      /\ \A i \in 1..Len(e) : e[i] \in Existing /\ e[i] > token
  <2>1. e \in Seq(ListIds)
    BY <1>1, <1>7, LargerSeq
  <2>2. \A i \in 1..Len(e) : i \in 1..n /\ e[i] = A[i] /\ e[i] \in T
    BY <1>4, <1>7, <1>8
  <2>3. Rises(e)
    BY <1>4, <2>2 DEF Rises
  <2> QED BY <1>1, <2>1, <2>2, <2>3
<1>10. CASE n > size
  <2>1. m = size /\ size \in 1..n /\ next = A[size] /\ next # 0 /\ next \in Nat
    <3>1. m = size /\ size \in 1..n /\ next = A[size]
      BY <1>4, <1>6, <1>10, <1>12
    <3>2. A[size] \in T /\ A[size] \in Nat
      BY <1>8, <3>1
    <3> QED BY <1>1, <3>1, <3>2
  <2>2. \A i \in 1..Len(e) : e[i] <= next
    <3> SUFFICES ASSUME NEW i \in 1..m PROVE A[i] <= A[size]
      BY <1>7, <2>1
    <3>1. i \in 1..n /\ A[i] \in Nat /\ A[size] \in Nat /\ i <= size
      <4>1. i \in 1..size /\ i \in 1..n
        BY <1>4, <2>1
      <4> QED BY <1>8, <2>1, <4>1
    <3> QED BY <1>4, <2>1, <3>1
  <2>3. ASSUME NEW x \in T PROVE (\E j \in 1..Len(e) : e[j] = x) \/ x > next
    <3>1. PICK i \in 1..n : A[i] = x
      BY <1>4
    <3>2. CASE i <= m
      BY <1>7, <3>1, <3>2
    <3>3. CASE ~(i <= m)
      <4>1. size < i
        BY <2>1, <3>3
      <4>2. A[size] < A[i]
        BY <1>4, <2>1, <4>1
      <4> QED BY <1>8, <2>1, <3>1, <4>2
    <3> QED BY <3>2, <3>3
  <2> QED BY <1>3, <1>9, <2>1, <2>2, <2>3 DEF NoToken
<1>11. CASE ~(n > size)
  <2>1. m = n /\ next = 0
    BY <1>4, <1>6, <1>11, <1>12
  <2>2. \A x \in T : \E j \in 1..Len(e) : e[j] = x
    BY <1>4, <1>7, <2>1
  <2> QED BY <1>3, <1>9, <2>1, <2>2 DEF NoToken
<1> QED BY <1>10, <1>11

(* What is not among the first of a page comes after them. *)
LEMMA FirstComeFirst ==
    ASSUME NEW e \in Seq(ListIds), Rises(e), NEW token, NEW next \in Nat, NEW k \in 0..Len(e),
           NEW i \in Nat, i \notin First(e, k),
           (\E j \in 1..Len(e) : e[j] = i)
             \/ (next # NoToken /\ i > next /\ \A j \in 1..Len(e) : e[j] <= next)
    PROVE  \A q \in First(e, k) : q < i
<1> SUFFICES ASSUME NEW q \in First(e, k) PROVE q < i
  OBVIOUS
<1>1. PICK h \in 1..k : e[h] = q
  BY DEF First
<1>2. h \in 1..Len(e) /\ \A x \in 1..Len(e) : e[x] \in Nat
  BY ListIdsAreFinite
<1>3. CASE \E j \in 1..Len(e) : e[j] = i
  <2>1. PICK j \in 1..Len(e) : e[j] = i
    BY <1>3
  <2>2. ~(j <= k)
    BY <2>1 DEF First
  <2>3. h < j
    BY <2>2
  <2> QED BY <1>1, <1>2, <2>1, <2>3 DEF Rises
<1>4. CASE next # NoToken /\ i > next /\ \A j \in 1..Len(e) : e[j] <= next
  BY <1>1, <1>2, <1>4
<1> QED BY <1>3, <1>4

(* A page that is fetched: of the starts behind the position some were     *)
(* removed since, and the same number of others is skipped in their place. *)
LEMMA FetchPageKeeps ==
    ASSUME ListInv, FetchPage
    PROVE  ListInv'
<1> DEFINE w == walk
           e == PageAfter(w.token, w.size)
           next == TokenAfter(w.token, w.size)
           v == [pc |-> "scan", limit |-> w.limit, filter |-> w.filter, records |-> w.records,
                 scanned |-> w.scanned, got |-> w.got, base |-> w.base, token |-> w.token,
                 index |-> w.index, size |-> w.size, entries |-> e, next |-> next]
<1>1. /\ UNCHANGED <<starts, removed>> /\ w.pc = "fetch" /\ Placed /\ WalkHolds(w)
      /\ \/ Ends("invalid_request")
         \/ ~(w.index > Len(e)) /\ walk' = v
  BY DEF FetchPage, ListInv, Placed
<1>2. CASE Ends("invalid_request")
  BY <1>1, <1>2, EndsKeeps
<1>3. CASE ~(w.index > Len(e)) /\ walk' = v
  <2>1. w.base \subseteq Existing \cup removed /\ InRequest(w)
    BY <1>1 DEF WalkHolds
  <2>2. PICK P \in SUBSET ListIds : StandsAt(w.base, w.token, P, w.index, w.got \cup w.records)
    BY <1>1 DEF WalkHolds
  <2>3. w.token \in Nat /\ w.size \in Nat \ {0} /\ w.index \in Nat
    BY <2>1, <2>2 DEF InRequest, StandsAt
  <2>15. e = PageAfter(w.token, w.size) /\ next = TokenAfter(w.token, w.size)
    OBVIOUS
  <2>5. /\ v.pc = "scan" /\ v.limit = w.limit /\ v.filter = w.filter /\ v.records = w.records
        /\ v.scanned = w.scanned /\ v.got = w.got /\ v.base = w.base /\ v.token = w.token
        /\ v.index = w.index /\ v.size = w.size /\ v.entries = e /\ v.next = next
        /\ v = [pc |-> v.pc, limit |-> v.limit, filter |-> v.filter, records |-> v.records,
                scanned |-> v.scanned, got |-> v.got, base |-> v.base, token |-> v.token,
                index |-> v.index, size |-> v.size, entries |-> v.entries, next |-> v.next]
    OBVIOUS
  <2> HIDE DEF v, e, next
  <2>4. /\ e \in Seq(ListIds) /\ Rises(e) /\ next \in Nat
        /\ \A i \in 1..Len(e) : /\ e[i] \in Existing /\ e[i] > w.token
                                /\ next # NoToken => e[i] <= next
        /\ \A i \in Existing : i > w.token =>
             (\E j \in 1..Len(e) : e[j] = i) \/ (next # NoToken /\ i > next)
    <3>1. PageIsFrom(w.token, e, next)
      BY <1>1, <2>3, <2>15, PageAfterToken
    <3> HIDE DEF w
    <3> QED BY <3>1 DEF PageIsFrom
  <2>6. w.index \in 0..Len(e)
    BY <1>3, <2>3, <2>4
  <2> DEFINE Q == First(e, w.index)
  <2>7. Q \in SUBSET ListIds /\ Cardinality(Q) = w.index
    BY <2>4, <2>6, FirstAreCounted
  <2>8. Q \subseteq Existing /\ \A q \in Q : q > w.token
    BY <2>4, <2>6 DEF First
  <2>9. \A i \in Existing : i > w.token /\ i \notin Q => \A q \in Q : q < i
    <3> SUFFICES ASSUME NEW i \in Existing, i > w.token, i \notin Q PROVE \A q \in Q : q < i
      OBVIOUS
    <3>1. i \in Nat
      BY ListIdsAreFinite DEF Existing
    <3> QED BY <2>4, <2>6, <3>1, FirstComeFirst
  <2> HIDE DEF Q
  <2>10. StandsAt(w.base, w.token, Q, w.index, w.got \cup w.records)
    BY <1>1, <2>1, <2>2, <2>7, <2>8, <2>9, FetchedAgain
  <2>11. InRequest(v)
    BY <2>1, <2>5 DEF InRequest
  <2>12. IsPage(v)
    BY <2>1, <2>4, <2>5, <2>6 DEF IsPage, PageOf
  <2>13. WalkHolds(v)
    BY <2>1, <2>5, <2>10, <2>11, <2>12 DEF WalkHolds, Q
  <2> QED BY <1>1, <1>3, <2>13, WalkMoves
<1> QED BY <1>1, <1>2, <1>3

-----------------------------------------------------------------------------
(* A page is scanned: what is passed is there, and visible if it is pending. *)
LEMMA ScannedOn ==
    ASSUME Placed, NEW base, NEW token, NEW e, NEW next, PageOf(base, token, e, next),
           NEW k \in 0..Len(e), NEW visible, StandsAt(base, token, First(e, k), k, visible),
           NEW l \in k..Len(e), NEW more, visible \subseteq more,
           \A i \in (k + 1)..l : e[i] \in Existing /\ (starts[e[i]] = "pending" => e[i] \in more)
    PROVE  StandsAt(base, token, First(e, l), l, more)
<1>1. /\ token \in Nat /\ e \in Seq(ListIds) /\ Rises(e) /\ l \in 0..Len(e) /\ next \in Nat
      /\ \A i \in 1..Len(e) : /\ e[i] \in Existing \cup removed /\ e[i] > token
                              /\ next # NoToken => e[i] <= next
      /\ \A i \in base \cap Existing : i > token =>
           (\E j \in 1..Len(e) : e[j] = i) \/ (next # NoToken /\ i > next)
      /\ Cardinality(Missed(base, token, First(e, k), visible)) <= Cardinality(removed \ First(e, k))
  BY DEF PageOf, StandsAt
<1>2. \A x \in First(e, l) : x \in First(e, k) \/ \E i \in (k + 1)..l : e[i] = x
  BY DEF First
<1>3. First(e, k) \subseteq First(e, l)
  BY DEF First
<1>4. removed \ First(e, l) = removed \ First(e, k)
  BY <1>2, <1>3 DEF Placed
<1>5. Missed(base, token, First(e, l), more) \subseteq Missed(base, token, First(e, k), visible)
  BY <1>2 DEF Missed, StillPending
<1>6. Cardinality(Missed(base, token, First(e, l), more)) <= Cardinality(removed \ First(e, l))
  <2>1. Missed(base, token, First(e, k), visible) \subseteq ListIds /\ removed \ First(e, k) \subseteq ListIds
    BY MissedAreIds DEF Placed
  <2>2. /\ Cardinality(Missed(base, token, First(e, l), more))
             <= Cardinality(Missed(base, token, First(e, k), visible))
        /\ Cardinality(Missed(base, token, First(e, l), more)) \in Nat
        /\ Cardinality(Missed(base, token, First(e, k), visible)) \in Nat
        /\ Cardinality(removed \ First(e, k)) \in Nat
    <3>1. Missed(base, token, First(e, l), more) \subseteq ListIds
      BY MissedAreIds
    <3> QED BY <1>5, <2>1, <3>1, ListIdsAreFinite
  <2>3. Cardinality(Missed(base, token, First(e, k), visible)) <= Cardinality(removed \ First(e, k))
    BY <1>1
  <2>4. Cardinality(Missed(base, token, First(e, l), more)) <= Cardinality(removed \ First(e, k))
    BY <2>2, <2>3
  <2> QED BY <1>4, <2>4
<1>7. First(e, l) \subseteq ListIds /\ Cardinality(First(e, l)) = l
  BY <1>1, FirstAreCounted
<1>8. First(e, l) \subseteq Existing \cup removed /\ \A p \in First(e, l) : p > token
  BY <1>1 DEF First
<1>9. ASSUME NEW i \in base \cap Existing, i > token, i \notin First(e, l)
      PROVE  \A p \in First(e, l) : p < i
  <2>1. i \in Nat
    BY ListIdsAreFinite DEF Existing
  <2> QED BY <1>1, <1>9, <2>1, FirstComeFirst
<1>10. l \in Nat
  BY <1>1
<1> QED BY <1>1, <1>6, <1>7, <1>8, <1>9, <1>10 DEF StandsAt

(* At the end of a page nothing of the base is between it and the next. *)
LEMMA PageUsedUp ==
    ASSUME Placed, NEW base, NEW token, NEW e, NEW next, PageOf(base, token, e, next),
           NEW visible, StandsAt(base, token, First(e, Len(e)), Len(e), visible)
    PROVE  /\ next # NoToken => StandsAt(base, next, {}, 0, visible)
           /\ next = NoToken => Cardinality(StillPending(base) \ visible) <= Cardinality(removed)
<1> DEFINE P == First(e, Len(e))
           M == Missed(base, token, P, visible)
<1>1. /\ token \in Nat /\ next \in Nat
      /\ \A i \in base \cap Existing : i > token =>
           (\E j \in 1..Len(e) : e[j] = i) \/ (next # NoToken /\ i > next)
      /\ Cardinality(M) <= Cardinality(removed \ P)
  BY DEF PageOf, StandsAt
<1>2. \A i \in StillPending(base) : i \in Nat /\ i \in base \cap Existing
  BY ListIdsAreFinite DEF StillPending, Existing
<1>3. \A i \in StillPending(base) : i <= token \/ i \in P \/ (next # NoToken /\ i > next)
  BY <1>1, <1>2 DEF First
<1>4. M \subseteq ListIds /\ removed \ P \subseteq ListIds /\ removed \subseteq ListIds
  BY MissedAreIds DEF Placed
<1>5. /\ Cardinality(M) \in Nat /\ Cardinality(removed \ P) \in Nat /\ Cardinality(removed) \in Nat
      /\ Cardinality(removed \ P) <= Cardinality(removed)
  BY <1>4, ListIdsAreFinite
<1>6. ASSUME NEW N, N \subseteq M PROVE Cardinality(N) <= Cardinality(removed)
  <2>1. Cardinality(N) <= Cardinality(M) /\ Cardinality(N) \in Nat
    BY <1>4, <1>6, ListIdsAreFinite
  <2> QED BY <1>1, <1>5, <2>1
<1>7. CASE next # NoToken
  <2>1. Missed(base, next, {}, visible) \subseteq M
    BY <1>1, <1>2, <1>3 DEF Missed
  <2>2. Cardinality(Missed(base, next, {}, visible)) <= Cardinality(removed \ {})
    <3>1. removed \ {} = removed
      OBVIOUS
    <3> QED BY <1>6, <2>1, <3>1
  <2> QED BY <1>1, <1>7, <2>2, FS_EmptySet DEF StandsAt
<1>8. CASE next = NoToken
  <2>1. StillPending(base) \ visible \subseteq M
    BY <1>3, <1>8 DEF Missed
  <2> QED BY <1>6, <1>8, <2>1
<1> QED BY <1>7, <1>8

(* A page of the caller is full, at an offset of the page of Temporal. *)
LEMMA FullKeeps ==
    ASSUME ListInv, walk.pc = "scan", UNCHANGED <<starts, removed>>,
           NEW offset \in 0..Len(walk.entries), NEW records,
           StandsAt(walk.base, walk.token, First(walk.entries, offset), offset, walk.got \cup records),
           PageIsFull(records, NextPosition(offset))
    PROVE  ListInv'
<1> DEFINE w == walk
           cursor == NextPosition(offset)
           visible == w.got \cup records
           v == [pc |-> IF cursor = NoListCursor THEN "listed" ELSE "paging", cursor |-> cursor,
                 got |-> visible, base |-> w.base, filter |-> w.filter]
<1>1. /\ walk' = v /\ Placed /\ w.base \subseteq Existing \cup removed
      /\ w.size \in Nat \ {0} /\ w.token \in Nat
      /\ PageOf(w.base, w.token, w.entries, w.next)
  BY DEF PageIsFull, ListInv, Placed, WalkHolds, InRequest, IsPage
<1>2. w.next \in Nat /\ w.entries \in Seq(ListIds)
  BY <1>1 DEF PageOf
<1>3. /\ v.pc = (IF cursor = NoListCursor THEN "listed" ELSE "paging")
      /\ v.cursor = cursor /\ v.got = visible /\ v.base = w.base
  OBVIOUS
<1> HIDE DEF v
<1>4. CASE offset < Len(w.entries)
  <2>1. cursor = [size |-> w.size, token |-> w.token, offset |-> offset, filter |-> w.filter]
    BY <1>4 DEF NextPosition
  <2>2. cursor.size = w.size /\ cursor.token = w.token /\ cursor.offset = offset
    BY <2>1
  <2>3. cursor # NoListCursor
    BY <1>1, <2>2 DEF NoListCursor
  <2>4. First(w.entries, offset) \in SUBSET ListIds
    BY <1>2 DEF First
  <2> HIDE DEF cursor
  <2>5. WalkHolds(v)
    BY <1>1, <1>3, <2>2, <2>3, <2>4 DEF WalkHolds
  <2> QED BY <1>1, <2>5, WalkMoves
<1>5. CASE ~(offset < Len(w.entries))
  <2>1. offset = Len(w.entries)
    BY <1>2, <1>5
  <2>2. /\ w.next # NoToken => StandsAt(w.base, w.next, {}, 0, visible)
        /\ w.next = NoToken => Cardinality(StillPending(w.base) \ visible) <= Cardinality(removed)
    BY <1>1, <2>1, PageUsedUp
  <2>3. CASE w.next = NoToken
    <3>1. cursor = NoListCursor
      BY <1>5, <2>3 DEF NextPosition
    <3> HIDE DEF cursor, visible
    <3>2. WalkHolds(v)
      BY <1>1, <1>3, <2>2, <2>3, <3>1 DEF WalkHolds
    <3> QED BY <1>1, <3>2, WalkMoves
  <2>4. CASE w.next # NoToken
    <3>1. cursor = [size |-> w.size, token |-> w.next, offset |-> 0, filter |-> w.filter]
      BY <1>5, <2>4 DEF NextPosition
    <3>2. cursor.size = w.size /\ cursor.token = w.next /\ cursor.offset = 0
      BY <3>1
    <3>3. cursor # NoListCursor
      BY <1>1, <3>2 DEF NoListCursor
    <3> HIDE DEF cursor, visible
    <3>4. \E P \in SUBSET ListIds : StandsAt(w.base, w.next, P, 0, visible)
      BY <2>2, <2>4
    <3>5. WalkHolds(v)
      BY <1>1, <1>2, <1>3, <3>2, <3>3, <3>4 DEF WalkHolds
    <3> QED BY <1>1, <3>5, WalkMoves
  <2> QED BY <2>3, <2>4
<1> QED BY <1>4, <1>5

(* A page that is scanned to its end leads to the next one, or ends the    *)
(* list.                                                                   *)
LEMMA NextFetchKeeps ==
    ASSUME ListInv, NextFetch
    PROVE  ListInv'
<1> DEFINE w == walk
           visible == w.got \cup w.records
<1>1. /\ UNCHANGED <<starts, removed>> /\ w.pc = "scan" /\ w.index >= Len(w.entries)
      /\ Placed /\ WalkHolds(w)
  BY DEF NextFetch, ListInv, Placed
<1>2. /\ w.base \subseteq Existing \cup removed /\ InRequest(w)
      /\ w.index \in 0..Len(w.entries) /\ PageOf(w.base, w.token, w.entries, w.next)
      /\ StandsAt(w.base, w.token, First(w.entries, w.index), w.index, visible)
  BY <1>1 DEF WalkHolds, IsPage
<1>3. w.index = Len(w.entries) /\ w.next \in Nat
  BY <1>1, <1>2 DEF PageOf
<1>4. /\ w.next # NoToken => StandsAt(w.base, w.next, {}, 0, visible)
      /\ w.next = NoToken => Cardinality(StillPending(w.base) \ visible) <= Cardinality(removed)
  <2>1. StandsAt(w.base, w.token, First(w.entries, Len(w.entries)), Len(w.entries), visible)
    BY <1>2, <1>3
  <2> HIDE DEF visible
  <2> QED BY <1>1, <1>2, <2>1, PageUsedUp
<1>5. CASE w.next = NoToken
  <2> DEFINE v == [pc |-> "listed", cursor |-> NoListCursor, got |-> visible, base |-> w.base,
                   filter |-> w.filter]
  <2>1. walk' = v
    BY <1>1, <1>5 DEF NextFetch, PageIsFull
  <2>2. v.pc = "listed" /\ v.got = visible /\ v.base = w.base
    OBVIOUS
  <2> HIDE DEF v, visible
  <2>3. WalkHolds(v)
    BY <1>2, <1>4, <1>5, <2>2 DEF WalkHolds
  <2> QED BY <1>1, <2>1, <2>3, WalkMoves
<1>6. CASE w.next # NoToken
  <2> DEFINE v == [pc |-> "fetch", limit |-> w.limit, filter |-> w.filter,
                   records |-> w.records, scanned |-> w.scanned, got |-> w.got,
                   base |-> w.base, token |-> w.next, index |-> 0, size |-> w.size]
  <2>1. walk' = v
    BY <1>1, <1>6 DEF NextFetch
  <2>2. /\ v.pc = "fetch" /\ v.limit = w.limit /\ v.filter = w.filter /\ v.records = w.records
        /\ v.scanned = w.scanned /\ v.got = w.got /\ v.base = w.base /\ v.token = w.next
        /\ v.index = 0 /\ v.size = w.size
    OBVIOUS
  <2> HIDE DEF v
  <2>3. InRequest(v)
    BY <1>2, <1>3, <2>2 DEF InRequest
  <2>4. \E P \in SUBSET ListIds : StandsAt(v.base, v.token, P, v.index, v.got \cup v.records)
    BY <1>4, <1>6, <2>2
  <2>5. WalkHolds(v)
    BY <1>2, <2>2, <2>3, <2>4 DEF WalkHolds
  <2> QED BY <1>1, <2>1, <2>5, WalkMoves
<1> QED BY <1>5, <1>6

(* The size of a batch is the least of three numbers. *)
LEMMA LeastOfThree ==
    ASSUME NEW a \in Nat, NEW b \in Nat, NEW c \in Nat
    PROVE  Min({a, b, c}) \in {a, b, c} /\ Min({a, b, c}) <= a /\ Min({a, b, c}) <= b /\ Min({a, b, c}) <= c
<1>1. \E x \in {a, b, c} : \A y \in {a, b, c} : x <= y
  <2>1. (a <= b /\ a <= c) \/ (b <= a /\ b <= c) \/ (c <= a /\ c <= b)
    OBVIOUS
  <2> QED BY <2>1
<1>2. Min({a, b, c}) \in {a, b, c} /\ \A y \in {a, b, c} : Min({a, b, c}) <= y
  BY <1>1 DEF Min
<1> QED BY <1>2

(* Records of so many positions are not more. *)
LEMMA RecordsAreCounted ==
    ASSUME NEW b, NEW H, IsFiniteSet(H)
    PROVE  IsFiniteSet({b[i] : i \in H}) /\ Cardinality({b[i] : i \in H}) <= Cardinality(H)
<1> DEFINE f == [i \in H |-> b[i]]
           T == {b[i] : i \in H}
<1>1. f \in [H -> T] /\ \A x \in T : \E i \in H : f[i] = x
  OBVIOUS
<1> HIDE DEF f, T
<1>2. f \in Surjection(H, T)
  BY <1>1 DEF Surjection
<1>3. IsFiniteSet(T) /\ Cardinality(T) <= Cardinality(H)
  BY <1>2, FS_Surjection
<1> QED BY <1>3 DEF T

IsSlice(s, e, k, c) == DOMAIN s = 1..c /\ \A i \in 1..c : s[i] = e[k + i]

(* A part of a sequence, element by element. *)
LEMMA SliceOf ==
    ASSUME NEW T, NEW e \in Seq(T), NEW k \in Nat, NEW c \in Nat, k + c \in 0..Len(e)
    PROVE  IsSlice(SubSeq(e, k + 1, k + c), e, k, c)
<1>1. k + c <= Len(e) /\ Len(e) \in Nat
  OBVIOUS
<1>2. /\ SubSeq(e, k + 1, k + c) \in Seq(T)
      /\ Len(SubSeq(e, k + 1, k + c)) = c
      /\ \A i \in 1..c : SubSeq(e, k + 1, k + c)[i] = e[k + i]
  BY <1>1
<1> QED BY <1>2 DEF IsSlice

(* A batch that is described: what is pending of it is in the records, up  *)
(* to the one that fills the page, where the cursor stands then.           *)
LEMMA ScanKeeps ==
    ASSUME ListInv, Scan
    PROVE  ListInv'
<1> DEFINE w == walk
           left == Len(w.entries) - w.index
           count == Min({ListConcurrency, left, MaxScan - w.scanned})
           batch == SubSeq(w.entries, w.index + 1, w.index + count)
           hits == {i \in DOMAIN batch : starts[batch[i]] \in w.filter}
           room == w.limit - Cardinality(w.records)
           last == CHOOSE i \in hits : Cardinality({j \in hits : j <= i}) = room
           Taken(positions) == w.records \cup {batch[i] : i \in positions}
           v == [w EXCEPT !.records = Taken(hits), !.index = @ + count, !.scanned = @ + count]
<1>1. /\ UNCHANGED <<starts, removed>> /\ w.pc = "scan" /\ w.index < Len(w.entries)
      /\ Placed /\ WalkHolds(w)
      /\ \/ Ends("quota_unavailable") \/ Ends("temporal_unavailable")
         \/ /\ ~(w.scanned >= MaxScan) /\ Range(batch) \subseteq Existing
            /\ \/ /\ Cardinality(hits) >= room
                  /\ PageIsFull(Taken({i \in hits : i <= last}), NextPosition(w.index + last))
               \/ ~(Cardinality(hits) >= room) /\ walk' = v
  BY DEF Scan, ListInv, Placed
<1>6. /\ count = Min({ListConcurrency, left, MaxScan - w.scanned})
      /\ batch = SubSeq(w.entries, w.index + 1, w.index + count)
      /\ hits = {i \in DOMAIN batch : starts[batch[i]] \in w.filter}
  OBVIOUS
<1>7. last = CHOOSE i \in hits : Cardinality({j \in hits : j <= i}) = room
  OBVIOUS
<1>8. v = [w EXCEPT !.records = w.records \cup {batch[i] : i \in hits}, !.index = w.index + count,
                    !.scanned = w.scanned + count]
  OBVIOUS
<1>9. \A positions : Taken(positions) = w.records \cup {batch[i] : i \in positions}
  OBVIOUS
<1> HIDE DEF count, batch, hits, last, Taken, v
<1>2. /\ w.base \subseteq Existing \cup removed /\ InRequest(w)
      /\ w.index \in 0..Len(w.entries) /\ PageOf(w.base, w.token, w.entries, w.next)
      /\ StandsAt(w.base, w.token, First(w.entries, w.index), w.index, w.got \cup w.records)
  BY <1>1 DEF WalkHolds, IsPage
<1>3. /\ w.entries \in Seq(ListIds) /\ w.limit \in Nat \ {0} /\ w.scanned \in Nat
      /\ IsFiniteSet(w.records) /\ Cardinality(w.records) \in Nat /\ Cardinality(w.records) < w.limit
      /\ "pending" \in w.filter /\ w.index \in Nat /\ Len(w.entries) \in Nat
  BY <1>2, FS_CardinalityType DEF InRequest, PageOf
<1>4. CASE Ends("quota_unavailable") \/ Ends("temporal_unavailable")
  BY <1>1, <1>4, EndsKeeps
<1>5. CASE /\ ~(w.scanned >= MaxScan) /\ Range(batch) \subseteq Existing
           /\ \/ /\ Cardinality(hits) >= room
                 /\ PageIsFull(Taken({i \in hits : i <= last}), NextPosition(w.index + last))
              \/ ~(Cardinality(hits) >= room) /\ walk' = v
  <2>1. count \in Nat /\ count <= left
    <3>1. ListConcurrency \in Nat /\ left \in Nat /\ MaxScan - w.scanned \in Nat
      BY <1>1, <1>3, <1>5, ListAssumption
    <3> HIDE DEF left
    <3>2. count \in {ListConcurrency, left, MaxScan - w.scanned} /\ count <= left
      BY <1>6, <3>1, LeastOfThree
    <3> QED BY <3>1, <3>2
  <2>2. /\ DOMAIN batch = 1..count
        /\ \A i \in 1..count : batch[i] = w.entries[w.index + i] /\ batch[i] \in Existing
    <3>1. w.index + count \in 0..Len(w.entries)
      BY <1>3, <2>1
    <3>2. DOMAIN batch = 1..count /\ \A i \in 1..count : batch[i] = w.entries[w.index + i]
      <4>1. batch = SubSeq(w.entries, w.index + 1, w.index + count)
        BY <1>6
      <4> HIDE DEF w
      <4>2. IsSlice(batch, w.entries, w.index, count)
        BY <1>3, <2>1, <3>1, <4>1, SliceOf
      <4> QED BY <4>2 DEF IsSlice
    <3> QED BY <1>5, <3>2 DEF Range
  <2>3. hits \subseteq 1..count /\ hits \subseteq Nat /\ IsFiniteSet(hits) /\ Cardinality(hits) \in Nat
    <3>1. hits \subseteq 1..count
      BY <1>6, <2>2
    <3>2. IsFiniteSet(1..count)
      BY <2>1, FS_Interval
    <3>3. IsFiniteSet(hits)
      BY <3>1, <3>2, FS_Subset
    <3> QED BY <3>1, <3>3, FS_CardinalityType
  <2>4. room \in Nat \ {0}
    BY <1>3
  <2>5. \A i \in 1..count : starts[batch[i]] = "pending" => i \in hits
    BY <1>3, <1>6, <2>2
  <2> DEFINE visible == w.got \cup w.records
  <2>6. ASSUME NEW c \in 0..count, NEW more, visible \subseteq more,
               \A i \in 1..c : i \in hits => batch[i] \in more
        PROVE  StandsAt(w.base, w.token, First(w.entries, w.index + c), w.index + c, more)
    <3>1. w.index + c \in w.index..Len(w.entries)
      BY <1>3, <2>1
    <3>2. ASSUME NEW i \in (w.index + 1)..(w.index + c)
          PROVE  /\ w.entries[i] \in Existing
                 /\ starts[w.entries[i]] = "pending" => w.entries[i] \in more
      <4>1. i - w.index \in 1..c /\ i - w.index \in 1..count /\ w.index + (i - w.index) = i
        BY <1>3, <2>1
      <4>2. batch[i - w.index] = w.entries[i] /\ batch[i - w.index] \in Existing
        BY <2>2, <4>1
      <4> HIDE DEF visible
      <4> QED BY <2>5, <2>6, <4>1, <4>2
    <3> QED BY <1>1, <1>2, <2>6, <3>1, <3>2, ScannedOn
  <2>7. CASE /\ Cardinality(hits) >= room
             /\ PageIsFull(Taken({i \in hits : i <= last}), NextPosition(w.index + last))
    <3>1. last \in hits
      <4>1. \E i \in hits : Cardinality({j \in hits : j <= i}) = room
        <5> HIDE DEF room
        <5> QED BY <2>3, <2>4, <2>7, TheKth
      <4> HIDE DEF room
      <4> QED BY <1>7, <4>1
    <3> DEFINE records == Taken({i \in hits : i <= last})
    <3>2. last \in 0..count /\ last \in Nat
      BY <2>1, <2>3, <3>1
    <3>3. \A i \in 1..last : i \in hits => batch[i] \in w.got \cup records
      BY <1>9
    <3>4. visible \subseteq w.got \cup records
      BY <1>9
    <3> HIDE DEF records, visible
    <3>5. StandsAt(w.base, w.token, First(w.entries, w.index + last), w.index + last, w.got \cup records)
      BY <2>6, <3>2, <3>3, <3>4
    <3>6. w.index + last \in 0..Len(w.entries)
      BY <1>3, <2>1, <3>2
    <3> QED BY <1>1, <2>7, <3>5, <3>6, FullKeeps DEF records
  <2>8. CASE ~(Cardinality(hits) >= room) /\ walk' = v
    <3> DEFINE records == Taken(hits)
    <3>1. /\ v.pc = "scan" /\ v.limit = w.limit /\ v.filter = w.filter /\ v.records = records
          /\ v.scanned = w.scanned + count /\ v.got = w.got /\ v.base = w.base /\ v.token = w.token
          /\ v.index = w.index + count /\ v.size = w.size /\ v.entries = w.entries /\ v.next = w.next
          /\ v = [pc |-> v.pc, limit |-> v.limit, filter |-> v.filter, records |-> v.records,
                  scanned |-> v.scanned, got |-> v.got, base |-> v.base, token |-> v.token,
                  index |-> v.index, size |-> v.size, entries |-> v.entries, next |-> v.next]
      <4>1. w = [pc |-> "scan", limit |-> w.limit, filter |-> w.filter, records |-> w.records,
                 scanned |-> w.scanned, got |-> w.got, base |-> w.base, token |-> w.token,
                 index |-> w.index, size |-> w.size, entries |-> w.entries, next |-> w.next]
        BY <1>1 DEF WalkHolds, IsPage
      <4>2. v = [pc |-> "scan", limit |-> w.limit, filter |-> w.filter, records |-> records,
                 scanned |-> w.scanned + count, got |-> w.got, base |-> w.base, token |-> w.token,
                 index |-> w.index + count, size |-> w.size, entries |-> w.entries, next |-> w.next]
        <5> HIDE DEF records
        <5>1. v = [[[w EXCEPT !.records = records] EXCEPT !.index = w.index + count]
                                                   EXCEPT !.scanned = w.scanned + count]
          BY <1>8, <1>9 DEF records
        <5>2. [w EXCEPT !.records = records]
                = [pc |-> "scan", limit |-> w.limit, filter |-> w.filter, records |-> records,
                   scanned |-> w.scanned, got |-> w.got, base |-> w.base, token |-> w.token,
                   index |-> w.index, size |-> w.size, entries |-> w.entries, next |-> w.next]
          BY <4>1
        <5> DEFINE r == [w EXCEPT !.records = records]
        <5>4. r = [pc |-> "scan", limit |-> w.limit, filter |-> w.filter, records |-> records,
                   scanned |-> w.scanned, got |-> w.got, base |-> w.base, token |-> w.token,
                   index |-> w.index, size |-> w.size, entries |-> w.entries, next |-> w.next]
          BY <5>2
        <5> HIDE DEF w, r
        <5>3. [r EXCEPT !.index = w.index + count]
                = [pc |-> "scan", limit |-> w.limit, filter |-> w.filter, records |-> records,
                   scanned |-> w.scanned, got |-> w.got, base |-> w.base, token |-> w.token,
                   index |-> w.index + count, size |-> w.size, entries |-> w.entries, next |-> w.next]
          BY <5>4
        <5> QED BY <5>1, <5>3 DEF r
      <4> HIDE DEF records, w
      <4> QED BY <4>2
    <3>2. IsFiniteSet(records) /\ Cardinality(records) < w.limit
      <4> DEFINE T == {batch[i] : i \in hits}
      <4>1. IsFiniteSet(T) /\ Cardinality(T) <= Cardinality(hits) /\ Cardinality(T) \in Nat
        BY <2>3, RecordsAreCounted, FS_CardinalityType
      <4> HIDE DEF T
      <4>2. /\ IsFiniteSet(w.records \cup T)
            /\ Cardinality(w.records \cup T)
                 = Cardinality(w.records) + Cardinality(T) - Cardinality(w.records \cap T)
            /\ Cardinality(w.records \cap T) \in Nat
        BY <1>3, <4>1, FS_Union, FS_Intersection, FS_CardinalityType
      <4>3. Cardinality(hits) < w.limit - Cardinality(w.records)
        BY <1>3, <2>3, <2>8
      <4>4. Cardinality(w.records \cup T) < w.limit
        BY <1>3, <2>3, <4>1, <4>2, <4>3
      <4> QED BY <1>9, <4>2, <4>4 DEF T
    <3>3. \A i \in 1..count : i \in hits => batch[i] \in w.got \cup records
      BY <1>9
    <3>4. visible \subseteq w.got \cup records
      BY <1>9
    <3> HIDE DEF records, visible
    <3>5. StandsAt(w.base, w.token, First(w.entries, w.index + count), w.index + count, w.got \cup records)
      BY <2>1, <2>6, <3>3, <3>4
    <3>6. InRequest(v)
      BY <1>2, <1>3, <2>1, <3>1, <3>2 DEF InRequest
    <3>7. IsPage(v)
      BY <1>2, <1>3, <2>1, <3>1 DEF IsPage
    <3>8. WalkHolds(v)
      BY <1>2, <3>1, <3>5, <3>6, <3>7 DEF WalkHolds
    <3> QED BY <1>1, <2>8, <3>8, WalkMoves
  <2> QED BY <1>5, <2>7, <2>8
<1> QED BY <1>1, <1>4, <1>5

(* Every step of the list keeps the invariant. *)
LEMMA ListKeepsInv == ListInv /\ ListNext => ListInv'
  BY StartChangesKeep, AskPageKeeps, FetchPageKeeps, ScanKeeps, NextFetchKeeps DEF ListNext

(* No walk has begun at first. *)
LEMMA ListStarts ==
    ASSUME NEW first \in [ListIds -> {"none", "pending"}], ListIs(first)
    PROVE  ListInv
<1>1. walk.pc = "idle" /\ walk.base = {} /\ walk.got = {} /\ removed = {} /\ starts = first
  BY DEF ListIs
<1> QED BY <1>1 DEF ListInv, WalkHolds

(* What a walk that ended has not visible was removed, as many as it missed. *)
LEMMA WalksAreComplete == ListInv => WalkMissesOnlyForRemoved
  BY DEF ListInv, WalkHolds, StillPending, WalkMissesOnlyForRemoved

(* The invariant is about the variables of the list alone. *)
LEMMA ListRests == ListInv /\ UNCHANGED listVars => ListInv'
<1> SUFFICES ASSUME ListInv, UNCHANGED listVars PROVE ListInv'
  OBVIOUS
<1>1. UNCHANGED <<starts, walk, removed>>
  BY DEF listVars
<1>2. ASSUME NEW v, v = walk PROVE ListInv'
  <2>1. WalkHolds(v) /\ walk' = v
    BY <1>1, <1>2 DEF ListInv
  <2> QED BY <1>1, <2>1, WalkMoves
<1> QED BY <1>2

-----------------------------------------------------------------------------
ControlPlaneInv ==
  ApiInv /\ QueriesInv /\ SchedulesInv /\ CatalogInv /\ ListInv /\ ObjectsInv /\ RoutingInv

(* A component that is not explored rests in one of its first states. *)
LEMMA RestsInFirst == ASSUME NEW choice, choice # {} PROVE Rests(choice) \in choice
  BY DEF Rests

(* So every component begins with its invariant. *)
LEMMA ControlPlaneStarts == Init => ControlPlaneInv
<1> SUFFICES ASSUME Init PROVE ControlPlaneInv OBVIOUS
<1>1. ApiInv
  <2>1. Rests(ApiHosts) \in ApiHosts /\ Rests(ApiPolicies) \in ApiPolicies
    BY RestsInFirst, FirstStatesAssumption
  <2>2. ApiInit BY <2>1 DEF Init, ApiInit
  <2> QED BY <2>2, ApiStarts
<1>2. SchedulesInv
  <2>1. Rests(ScheduleScenarios) \in ScheduleScenarios BY RestsInFirst, FirstStatesAssumption
  <2>2. PICK c \in ScheduleScenarios : SchedulesAre(c) BY <2>1 DEF Init, SchedulesInit
  <2> QED BY <2>2, SchedulesBegin
<1>3. CatalogInv
  <2>1. CatalogInit BY DEF Init, CatalogInit
  <2> QED BY <2>1, CatalogStarts
<1>4. ObjectsInv
  <2> DEFINE accepted == {m \in Mappings : MappingAccepted(m)}
  <2>1. Rests(accepted) \in accepted BY RestsInFirst, FirstStatesAssumption
  <2>2. PICK m \in Mappings : MappingAccepted(m) /\ ObjectsAre(m) BY <2>1 DEF Init, ObjectsInit
  <2> QED BY <2>2, ObjectsStart
<1>5. RoutingInv
  <2>1. PICK registered, pinned : RoutingIs(registered, pinned) BY DEF Init, RoutingInit
  <2> QED BY <2>1, RoutingStarts
<1>6. QueriesInv BY QueriesStart DEF Init
<1>7. ListInv
  <2>1. \E first \in [ListIds -> {"none", "pending"}] : ListIs(first)
    <3>1. [i \in ListIds |-> "none"] \in [ListIds -> {"none", "pending"}] OBVIOUS
    <3> QED BY <3>1 DEF Init, ListInit
  <2> QED BY <2>1, ListStarts
<1> QED BY <1>1, <1>2, <1>3, <1>4, <1>5, <1>6, <1>7 DEF ControlPlaneInv

(* And every step keeps the invariants: that of the component that steps,  *)
(* and those of the others, whose variables it leaves alone.               *)
LEMMA ControlPlaneKeepsInv ==
  ASSUME ControlPlaneInv, [Next]_controlPlaneVars PROVE ControlPlaneInv'
<1>1. ApiInv'
  <2>1. ApiNext \/ UNCHANGED apiVars BY DEF Next, controlPlaneVars
  <2> QED BY <2>1, ApiKeepsInv, ApiRests DEF ControlPlaneInv
<1>2. SchedulesInv'
  <2>1. SchedulesNext \/ UNCHANGED scheduleVars BY DEF Next, controlPlaneVars
  <2> QED BY <2>1, SchedulesKeepInv, SchedulesRest DEF ControlPlaneInv
<1>3. CatalogInv'
  <2>1. CatalogNext \/ UNCHANGED catalogVars BY DEF Next, controlPlaneVars
  <2> QED BY <2>1, CatalogKeepsInv DEF ControlPlaneInv
<1>4. ObjectsInv'
  <2>1. ObjectsNext \/ UNCHANGED objectVars BY DEF Next, controlPlaneVars
  <2> QED BY <2>1, ObjectsKeepInv DEF ControlPlaneInv
<1>5. RoutingInv'
  <2>1. RoutingNext \/ UNCHANGED routingVars BY DEF Next, controlPlaneVars
  <2> QED BY <2>1, RoutingKeepsInv, RoutingRests DEF ControlPlaneInv, routingVars
<1>6. QueriesInv'
  <2>1. QueriesNext \/ UNCHANGED queryVars BY DEF Next, controlPlaneVars
  <2> QED BY <2>1, QueriesKeepInv, QueriesRest DEF ControlPlaneInv
<1>7. ListInv'
  <2>1. ListNext \/ UNCHANGED listVars BY DEF Next, controlPlaneVars
  <2> QED BY <2>1, ListKeepsInv, ListRests DEF ControlPlaneInv
<1> QED BY <1>1, <1>2, <1>3, <1>4, <1>5, <1>6, <1>7 DEF ControlPlaneInv

(* The invariant holds in every behaviour, however policies, faults and    *)
(* the steps of one component interleave.                                  *)
THEOREM ControlPlaneIsSound == Spec => []ControlPlaneInv
  BY ControlPlaneStarts, ControlPlaneKeepsInv, PTL DEF Spec

(* However the policy changes while requests wait, fail or are cancelled:  *)
(* what was done had been authorized in the scope it was done in, and only *)
(* executions of a scope that was authorized are shown (ControlApi).       *)
THEOREM EffectsAreAuthorized == Spec => []AccessIsAuthorized
<1>1. ControlPlaneInv => AccessIsAuthorized
  BY ApiIsAuthorized DEF ControlPlaneInv, AccessIsAuthorized
<1> QED BY <1>1, ControlPlaneIsSound, PTL

(* A start or a call with a key exists once however often it is asked for, *)
(* a request that was refused did nothing, unless it pauses, resumes,      *)
(* activates, or reaches an execution, which may be refused after their    *)
(* effect; and the slots of run_blocking are neither lost nor used twice   *)
(* when requests are cancelled (ControlApi).                               *)
THEOREM EffectsAreSingle == Spec => []RequestsHaveOneEffect
<1>1. ControlPlaneInv => RequestsHaveOneEffect
  BY ApiAcceptsOnce, ApiRefusesCleanly, ApiIsBounded DEF ControlPlaneInv, RequestsHaveOneEffect
<1> QED BY <1>1, ControlPlaneIsSound, PTL

(* However publishers, aliases, starts, removals and readers interleave: a  *)
(* walk through the pages of workflows, definitions, children or scheduled *)
(* starts is told to begin again, or has shown everything there is but     *)
(* what was removed meanwhile (OperationsQuery, ScheduledStartList).       *)
THEOREM ListsStayComplete == Spec => []ListsAreComplete
<1>1. ControlPlaneInv => ListsAreComplete
  BY QueriesAreComplete, WalksAreComplete DEF ControlPlaneInv, ListsAreComplete
<1> QED BY <1>1, ControlPlaneIsSound, PTL

(* However reconcilers, operators and occurrences interleave and their     *)
(* calls fail before or after they took effect: an occurrence finds its    *)
(* target and runs once, an apply that reports success has converged, a    *)
(* backfill keeps its bound (ManagedSchedules); and no workflow is started *)
(* by an object it wrote itself (ObjectEvents).                            *)
THEOREM TriggersStaySafe == Spec => []TriggersAreSafe
<1>1. ControlPlaneInv => TriggersAreSafe
  BY TargetsAreRetained, OccurrencesRunOnce, AppliedConverges, BackfillsAreBounded, ObjectsSafe
     DEF ControlPlaneInv, TriggersAreSafe
<1> QED BY <1>1, ControlPlaneIsSound, PTL

(* However publishers, importers, loaders and crashes interleave: every    *)
(* alias names a complete manifest, no load finds an alias without one, in *)
(* S3 no document is replaced that its writer had not read                 *)
(* (DefinitionCatalog); and no retirement strands an execution that        *)
(* visibility showed when the listing began and that did not continue as   *)
(* new before one of the pages had it (DeploymentRouting).                 *)
THEOREM DefinitionsStayAvailable == Spec => []DefinitionsAreAvailable
<1>1. ControlPlaneInv => DefinitionsAreAvailable
  BY CatalogIsAvailable DEF ControlPlaneInv, DefinitionsAreAvailable, RoutingInv, RetiredOK
<1> QED BY <1>1, ControlPlaneIsSound, PTL

(* No step changes a schedule of somebody else, lifts the pause of one     *)
(* without a reason, or changes an alias by an import (ManagedSchedules,   *)
(* DefinitionCatalog).                                                     *)
THEOREM StepsLeaveOthersAlone == Spec => OthersAreLeftAlone
<1>1. ControlPlaneInv /\ [Next]_controlPlaneVars
      => [OnlyManagedChange]_scheduleVars /\ [PauseIsNotLifted]_scheduleVars
  <2> SUFFICES ASSUME ControlPlaneInv, [Next]_controlPlaneVars
               PROVE  [OnlyManagedChange /\ PauseIsNotLifted]_scheduleVars
    OBVIOUS
  <2>1. SchedulesNext \/ UNCHANGED scheduleVars BY DEF Next, controlPlaneVars
  <2> QED BY <2>1, SchedulesAct DEF ControlPlaneInv
<1>2. ControlPlaneInv /\ [Next]_controlPlaneVars => [ImportAdds]_catalogVars
  <2> SUFFICES ASSUME ControlPlaneInv, [Next]_controlPlaneVars PROVE [ImportAdds]_catalogVars
    OBVIOUS
  <2>1. CatalogNext \/ UNCHANGED catalogVars BY DEF Next, controlPlaneVars
  <2> QED BY <2>1, ImportsOnlyAdd DEF ControlPlaneInv
<1>3. Spec => [][Next]_controlPlaneVars BY PTL DEF Spec
<1> QED
  BY <1>1, <1>2, <1>3, ControlPlaneIsSound, PTL
     DEF OthersAreLeftAlone, OnlyManagedAreChanged, PauseOutlivesRepeats, ImportKeepsAliases,
         OnlyManagedChange, PauseIsNotLifted, ImportAdds
=============================================================================
