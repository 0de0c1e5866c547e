--------------------------- MODULE MessageDelivery ---------------------------
(***************************************************************************)
(* At-least-once delivery from an SQS queue into workflows: the SQS        *)
(* consumer (brokers/sqs.py), the trigger ingress (engine/                 *)
(* trigger_ingress.py), which starts workflows, the response relay         *)
(* (engine/response_relay.py), which signals them, and the relay's bounded *)
(* duplicate memory (engine/deduplication.py).  One process consumes one   *)
(* queue; `lane' says which of the two consumers it runs.  The loop of     *)
(* both consumers is the same code: a poll receives a batch, the batch is  *)
(* handled concurrently behind a semaphore and the next poll waits for it. *)
(* What a handler read before an await may be stale after it: every await  *)
(* ends an action.                                                         *)
(*                                                                         *)
(* SQS and Temporal are modelled from how the code uses them: receives are *)
(* counted, an undeleted message comes back in some later poll (the end of *)
(* its visibility is not a step of its own: the polls of one process do    *)
(* not overlap, and a message sent late is one received late), and an RPC  *)
(* may fail before or after it took effect.                                *)
(***************************************************************************)
EXTENDS StartAdmission, Integers, FiniteSets, Sequences, SequencesExt

CONSTANTS
  Messages,          \* broker messages
  Ids,               \* message_id of a response, business id of a trigger
  Digests,           \* workflow definitions
  BodyChoices,       \* the assignments of bodies to messages a run considers
  MaxDeliveryAttempts, MaxMessages, MessageConcurrency, Capacity,
  InitialDelay, DelayMultiplier, MaxDelay,
  MaxFaults          \* faults, stops and changes of the environment in one behaviour

ASSUME DeliveryAssumption ==
  /\ MaxDeliveryAttempts \in Nat \ {0}
  /\ MessageConcurrency \in Nat \ {0}
  /\ Capacity \in Nat \ {0}
  /\ \A b \in BodyChoices : \A m \in Messages : b[m].id \in Ids
  /\ "free" \notin Messages /\ "none" \notin Digests
  /\ InitialDelay \in Nat /\ MaxDelay \in Nat /\ InitialDelay <= MaxDelay
  /\ DelayMultiplier \in Nat \ {0}

VARIABLES
  lane,      \* "trigger" | "response"
  body,      \* [Messages -> body]
  down,      \* every call to Temporal fails (an outage that does not end)
  queue,     \* [Messages -> [state, attempt]]
  dead,      \* [Messages -> Nat]: copies sent to the dead-letter queue
  task,      \* [Messages -> handler of the current batch]
  entries,   \* completed message ids, oldest first
  pending,   \* [Ids -> the message whose handler claimed the id, or "free"]
  landed,    \* [Ids -> Nat]: signals the workflow received, or runs started
  run,       \* [Ids -> definition of the run, or "none"] (trigger lane)
  registry,  \* scope -> workflow -> registration
  loop,      \* "polling" | "handling" | "sleeping" | "ended"
  running, ready, reported,
  baseDelay, failures,
  excuse,    \* history: times the relay could not know an id was delivered
  faults     \* how many of them have happened

queueVars == <<queue, dead>>
dedupVars == <<entries, pending>>
loopVars == <<loop, running, ready, reported, baseDelay, failures>>
effectVars == <<landed, run>>
fixedVars == <<lane, body, down>>
vars == <<fixedVars, queueVars, task, dedupVars, effectVars, registry, loopVars,
          excuse, faults>>

Free == "free"
Idle == [phase |-> "idle"]
Scope == "own"
Broker == "broker"
Workflow == "w"

Active == {m \in Messages : task[m] # Idle}
Id(m) == body[m].id
Claims == {i \in Ids : pending[i] # Free}

SetTask(m, t) == task' = [task EXCEPT ![m] = t]

Fault == faults < MaxFaults /\ faults' = faults + 1
NoFault == UNCHANGED faults

\* The handler of a message, from the poll that received it to its settlement.
Attempts == 0..MaxDeliveryAttempts
Outcomes == {"ack", "retry", "dead"}
Handlers ==
  {Idle} \cup [phase : {"received"}, attempt : Attempts]
         \cup [phase : {"starting"}, attempt : Attempts, digest : Digests]
         \cup [phase : {"claimed"}, attempt : Attempts, stale : BOOLEAN]
         \cup [phase : {"delivered", "settle", "deadlettered"}, attempt : Attempts,
               outcome : Outcomes]

\* The one registration of the scope: its definition is replaced, its trigger paused.
Registration(d, p) ==
  [digest |-> d, logical |-> Workflow, scope |-> Scope, supported |-> TRUE,
   triggers |-> [n \in {1} |-> [kind |-> "broker", ref |-> Broker, paused |-> p]]]
Registered(d, p) == [s \in {Scope} |-> [w \in {Workflow} |-> Registration(d, p)]]

Init ==
  /\ lane \in {"trigger", "response"}
  /\ body \in BodyChoices
  /\ down \in BOOLEAN
  /\ queue = [m \in Messages |-> [state |-> "queued", attempt |-> 0]]
  /\ dead = [m \in Messages |-> 0]
  /\ task = [m \in Messages |-> Idle]
  /\ entries = <<>>
  /\ pending = [i \in Ids |-> Free]
  /\ landed = [i \in Ids |-> 0]
  /\ run = [i \in Ids |-> "none"]
  /\ \E d \in Digests : registry = Registered(d, FALSE)
  /\ loop = "polling"
  /\ running = TRUE /\ ready = FALSE /\ reported = FALSE
  /\ baseDelay = InitialDelay /\ failures = 0
  /\ excuse = [i \in Ids |-> 0]
  /\ faults = 0

-----------------------------------------------------------------------------
(* The queue, and the environment.                                         *)

(* Another definition is activated, or the trigger is paused or resumed:   *)
(* the registration a later resolve sees.                                  *)
ChangeRegistration ==
  /\ lane = "trigger" /\ Fault
  /\ \E d \in Digests, p \in BOOLEAN :
        registry' = Registered(d, p)
  /\ UNCHANGED <<fixedVars, queueVars, task, dedupVars, effectVars, loopVars,
                 excuse>>

Received(S) ==
  [m \in Messages |->
     IF m \in S
     THEN [state |-> "queued",
           attempt |-> IF queue[m].attempt < MaxDeliveryAttempts
                       THEN queue[m].attempt + 1 ELSE MaxDeliveryAttempts]
     ELSE queue[m]]

SetReady(r) == ready' = r /\ reported' = r

-----------------------------------------------------------------------------
(* The loop of both consumers: start, _poll_once, stop.                    *)

(* SqsConsumer.receive returns a batch; an empty one ends the poll too. *)
Receive(S) ==
  /\ loop = "polling"
  /\ \A m \in S : queue[m].state = "queued"
  /\ Cardinality(S) <= MaxMessages
  /\ queue' = Received(S)
  /\ task' = [m \in Messages |->
                IF m \in S
                THEN [phase |-> "received", attempt |-> queue'[m].attempt]
                ELSE Idle]
  /\ loop' = "handling"
  /\ UNCHANGED <<fixedVars, dead, dedupVars, effectVars, registry, running, ready, reported,
                 baseDelay, failures, excuse, faults>>

(* ConsumerReconnectBackoff.next_delay; the jitter only moves the sleep. *)
NextDelay ==
  /\ baseDelay' = IF baseDelay * DelayMultiplier < MaxDelay
                  THEN baseDelay * DelayMultiplier ELSE MaxDelay
  /\ failures' = failures + 1

(* receive raises, either before SQS answered or because one message of    *)
(* the answer is malformed: then the whole batch S was received in vain.   *)
ReceiveFails(S) ==
  /\ loop = "polling"
  /\ \A m \in S : queue[m].state = "queued"
  /\ Cardinality(S) <= MaxMessages
  /\ Fault
  /\ queue' = Received(S)
  /\ SetReady(FALSE)
  /\ NextDelay
  /\ loop' = "sleeping"
  /\ UNCHANGED <<fixedVars, dead, task, dedupVars, effectVars, registry, running,
                 excuse>>

NextLoop == IF running THEN "polling" ELSE "ended"

(* Mutant: the poll that stop interrupts reports ready again. *)
FinishPollAlwaysReady ==
  /\ loop = "handling" /\ Active = {}
  /\ baseDelay' = InitialDelay /\ failures' = 0
  /\ SetReady(TRUE)
  /\ loop' = NextLoop
  /\ UNCHANGED <<fixedVars, queueVars, task, dedupVars, effectVars, registry, running,
                 excuse, faults>>

(* Mutant: a success resets the count but not the delay. *)
FinishPollKeepsDelay ==
  /\ loop = "handling" /\ Active = {}
  /\ failures' = 0
  /\ IF running THEN SetReady(TRUE) ELSE UNCHANGED <<ready, reported>>
  /\ loop' = NextLoop
  /\ UNCHANGED <<fixedVars, queueVars, task, dedupVars, effectVars, registry, running,
                 baseDelay, excuse, faults>>

(* Every handler of the batch has returned: reset, and ready if running. *)
FinishPoll ==
  /\ loop = "handling" /\ Active = {}
  /\ baseDelay' = InitialDelay /\ failures' = 0
  /\ IF running THEN SetReady(TRUE) ELSE UNCHANGED <<ready, reported>>
  /\ loop' = NextLoop
  /\ UNCHANGED <<fixedVars, queueVars, task, dedupVars, effectVars, registry, running,
                 excuse, faults>>

Wake ==
  /\ loop = "sleeping"
  /\ loop' = NextLoop
  /\ UNCHANGED <<fixedVars, queueVars, task, dedupVars, effectVars, registry, running, ready,
                 reported, baseDelay, failures, excuse, faults>>

Forgotten(S) == excuse' = [i \in Ids |-> IF i \in S THEN excuse[i] + 1 ELSE excuse[i]]

(* stop: the relay clears its memory while handlers may still run. *)
Stop ==
  /\ running /\ Fault
  /\ running' = FALSE
  /\ SetReady(FALSE)
  /\ IF lane = "response"
     THEN /\ entries' = <<>>
          /\ pending' = [i \in Ids |-> Free]
          /\ Forgotten(ToSet(entries) \cup Claims)
          /\ task' = [m \in Messages |->
                        IF task[m].phase = "claimed" THEN [task[m] EXCEPT !.stale = TRUE]
                        ELSE task[m]]
     ELSE UNCHANGED <<dedupVars, excuse, task>>
  /\ UNCHANGED <<fixedVars, queueVars, effectVars, registry, loop, baseDelay, failures>>

(* The process dies, or is started again after a stop: nothing it held in  *)
(* memory survives.                                                        *)
Restart ==
  /\ \/ loop = "ended" /\ NoFault
     \/ loop # "ended" /\ Fault
  /\ task' = [m \in Messages |-> Idle]
  /\ entries' = <<>>
  /\ pending' = [i \in Ids |-> Free]
  /\ Forgotten(ToSet(entries) \cup Claims)
  /\ loop' = "polling" /\ running' = TRUE
  /\ SetReady(FALSE)
  /\ baseDelay' = InitialDelay /\ failures' = 0
  /\ UNCHANGED <<fixedVars, queueVars, effectVars, registry>>

-----------------------------------------------------------------------------
(* Handling one delivery.  A task that left "received" holds the semaphore. *)

CanEnter == Cardinality({m \in Active : task[m].phase # "received"}) < MessageConcurrency

Settling(m, outcome) == [phase |-> "settle", attempt |-> task[m].attempt, outcome |-> outcome]

Request(m) ==
  [workflow |-> Workflow, source |-> [kind |-> "broker", ref |-> Broker],
   digest |-> body[m].digest, input |-> body[m].input]

Binding == [kind |-> "broker", id |-> Broker, scope |-> Scope]

(* An exception that no handler catches: pydantic refuses the request a    *)
(* trigger asks for (its digest and identifiers are checked more strictly  *)
(* than the envelope), or json.loads of a response raises RecursionError.  *)
(* The poll logs it, and the message is not settled.                       *)
Escapes(m) == body[m].kind = "escapes"

(* Mutant: the scope of the envelope is not compared. *)
AdmissionOfAnyScope(m) ==
  IF body[m].kind = "garbage" THEN "dead"
  ELSE IF Escapes(m) THEN "escaped"
  ELSE IF CloudEventRefusal(body[m].mapped) = "refused" THEN "dead"
  ELSE IF CloudEventRefusal(body[m].mapped) = "retry" THEN "retry"
  ELSE IF StartRefusal(registry, Request(m), Binding) # "none" THEN "dead"
  ELSE "start"

(* TriggerIngress._process_message and _process_cloud_event up to the call *)
(* to Temporal.                                                            *)
Admission(m) ==
  IF body[m].kind = "garbage" \/ body[m].scope # Scope THEN "dead"
  ELSE IF Escapes(m) THEN "escaped"
  ELSE IF CloudEventRefusal(body[m].mapped) = "refused" THEN "dead"
  ELSE IF CloudEventRefusal(body[m].mapped) = "retry" THEN "retry"
  ELSE IF StartRefusal(registry, Request(m), Binding) # "none" THEN "dead"
  ELSE "start"

AdmitTrigger(m) ==
  /\ lane = "trigger" /\ task[m].phase = "received" /\ CanEnter
  /\ SetTask(m, CASE Admission(m) = "start" ->
                      [phase |-> "starting", attempt |-> task[m].attempt,
                       digest |-> registry[Scope][Workflow].digest]
                  [] Admission(m) = "escaped" -> Idle
                  [] OTHER -> Settling(m, Admission(m)))
  /\ UNCHANGED <<fixedVars, queueVars, dedupVars, effectVars, registry, loopVars,
                 excuse, faults>>

(* start_workflow with REJECT_DUPLICATE: a new run of the pinned target,   *)
(* the existing run, a refusal for good when the identity is taken by an   *)
(* execution of another scope, or an error, which may hide a created run.  *)
StartWorkflow(m) ==
  LET i == Id(m)
      created == /\ run[i] = "none" /\ body[m].target # "foreign"
                 /\ run' = [run EXCEPT ![i] = task[m].digest]
                 /\ landed' = [landed EXCEPT ![i] = 1]
  IN  /\ task[m].phase = "starting"
      /\ \/ ~down /\ created /\ SetTask(m, Settling(m, "ack")) /\ NoFault
         \/ ~down /\ run[i] # "none" /\ UNCHANGED effectVars
            /\ SetTask(m, Settling(m, "ack")) /\ NoFault
         \/ ~down /\ body[m].target = "foreign" /\ UNCHANGED effectVars
            /\ SetTask(m, Settling(m, "dead")) /\ NoFault
         \/ ~down /\ Fault /\ created /\ SetTask(m, Settling(m, "retry"))
         \/ ((down /\ NoFault) \/ Fault) /\ UNCHANGED effectVars
            /\ SetTask(m, Settling(m, "retry"))
      /\ UNCHANGED <<fixedVars, queueVars, dedupVars, registry, loopVars, excuse>>

(* Mutant: room is made for the entries, not for the claim. *)
EvictedTooLittle(es) ==
  LET room == Capacity - Cardinality(Claims)
  IN  IF Len(es) > room THEN SubSeq(es, Len(es) - room + 1, Len(es)) ELSE es

(* BoundedDeduplicationStore.claim makes room for a new claim. *)
Evicted(es) ==
  LET room == Capacity - 1 - Cardinality(Claims)
  IN  IF Len(es) > room THEN SubSeq(es, Len(es) - room + 1, Len(es)) ELSE es

(* Mutant: a duplicate in flight is acknowledged like a completed one. *)
ClaimAcksInFlight(m) ==
  LET i == Id(m)
  IN  /\ lane = "response" /\ task[m].phase = "received" /\ CanEnter
      /\ IF Escapes(m)
         THEN SetTask(m, Idle) /\ UNCHANGED <<dedupVars, excuse>>
         ELSE IF body[m].kind = "garbage" \/ body[m].scope # Scope
         THEN SetTask(m, Settling(m, "dead")) /\ UNCHANGED <<dedupVars, excuse>>
         ELSE IF i \in ToSet(entries) \/ pending[i] # Free
         THEN SetTask(m, Settling(m, "ack")) /\ UNCHANGED <<dedupVars, excuse>>
         ELSE IF Cardinality(Claims) >= Capacity
         THEN SetTask(m, Settling(m, "retry")) /\ UNCHANGED <<dedupVars, excuse>>
         ELSE /\ entries' = Evicted(entries)
              /\ pending' = [pending EXCEPT ![i] = m]
              /\ Forgotten(ToSet(entries) \ ToSet(entries'))
              /\ SetTask(m, [phase |-> "claimed", attempt |-> task[m].attempt, stale |-> FALSE])
      /\ UNCHANGED <<fixedVars, queueVars, effectVars, registry, loopVars, faults>>

(* ResponseRelay._process_message up to the signal. *)
ClaimResponse(m) ==
  LET i == Id(m)
  IN  /\ lane = "response" /\ task[m].phase = "received" /\ CanEnter
      /\ IF Escapes(m)
         THEN SetTask(m, Idle) /\ UNCHANGED <<dedupVars, excuse>>
         ELSE IF body[m].kind = "garbage" \/ body[m].scope # Scope
         THEN SetTask(m, Settling(m, "dead")) /\ UNCHANGED <<dedupVars, excuse>>
         ELSE IF i \in ToSet(entries)
         THEN SetTask(m, Settling(m, "ack")) /\ UNCHANGED <<dedupVars, excuse>>
         ELSE IF pending[i] # Free \/ Cardinality(Claims) >= Capacity
         THEN SetTask(m, Settling(m, "retry")) /\ UNCHANGED <<dedupVars, excuse>>
         ELSE /\ entries' = Evicted(entries)
              /\ pending' = [pending EXCEPT ![i] = m]
              /\ Forgotten(ToSet(entries) \ ToSet(entries'))
              /\ SetTask(m, [phase |-> "claimed", attempt |-> task[m].attempt, stale |-> FALSE])
      /\ UNCHANGED <<fixedVars, queueVars, effectVars, registry, loopVars, faults>>

(* The retention of an entry ends, the oldest first: the next claim drops  *)
(* it (_expire).                                                           *)
Expire ==
  /\ entries # <<>>
  /\ Fault
  /\ entries' = Tail(entries)
  /\ Forgotten({Head(entries)})
  /\ UNCHANGED <<fixedVars, queueVars, task, pending, effectVars, registry, loopVars>>

(* _deliver: the signal lands, fails, lands with an error, or finds no     *)
(* execution.                                                              *)
Deliver(m) ==
  LET i == Id(m)
      signalled == landed' = [landed EXCEPT ![i] = @ + 1]
      outcome(o) == SetTask(m, [phase |-> "delivered", attempt |-> task[m].attempt, outcome |-> o])
  IN  /\ task[m].phase = "claimed"
      /\ \/ ~down /\ body[m].target = "open" /\ signalled /\ outcome("ack") /\ NoFault
            /\ UNCHANGED excuse
         \/ ~down /\ body[m].target = "gone" /\ UNCHANGED landed /\ outcome("dead") /\ NoFault
            /\ UNCHANGED excuse
         \/ ~down /\ Fault /\ body[m].target = "open" /\ signalled /\ outcome("retry")
            /\ Forgotten({i})
         \/ ((down /\ NoFault) \/ Fault) /\ UNCHANGED <<landed, excuse>> /\ outcome("retry")
      /\ UNCHANGED <<fixedVars, queueVars, dedupVars, run, registry, loopVars>>

(* Mutant: any claim of the id passes for this handler's. *)
HoldsAnyClaim(m) == pending[Id(m)] # Free

(* complete after an acknowledgeable delivery, then release: both look for *)
(* this very claim, so a claim that stop dropped is left alone.            *)
HoldsClaim(m) == pending[Id(m)] = m

(* Mutant: the broker's message is remembered instead of the envelope's id. *)
CompleteRemembersMessage(m) ==
  /\ task[m].phase = "delivered"
  /\ IF HoldsClaim(m)
     THEN /\ pending' = [pending EXCEPT ![Id(m)] = Free]
          /\ entries' = IF task[m].outcome = "ack" THEN Append(entries, m) ELSE entries
     ELSE UNCHANGED dedupVars
  /\ SetTask(m, Settling(m, task[m].outcome))
  /\ UNCHANGED <<fixedVars, queueVars, effectVars, registry, loopVars, excuse, faults>>

(* Mutant: the claim is released without completing it. *)
CompleteReleasesOnly(m) ==
  /\ task[m].phase = "delivered"
  /\ IF HoldsClaim(m)
     THEN pending' = [pending EXCEPT ![Id(m)] = Free] /\ UNCHANGED entries
     ELSE UNCHANGED dedupVars
  /\ SetTask(m, Settling(m, task[m].outcome))
  /\ UNCHANGED <<fixedVars, queueVars, effectVars, registry, loopVars, excuse, faults>>

CompleteClaim(m) ==
  /\ task[m].phase = "delivered"
  /\ IF HoldsClaim(m)
     THEN /\ pending' = [pending EXCEPT ![Id(m)] = Free]
          /\ entries' = IF task[m].outcome = "ack" THEN Append(entries, Id(m)) ELSE entries
     ELSE UNCHANGED dedupVars
  /\ SetTask(m, Settling(m, task[m].outcome))
  /\ UNCHANGED <<fixedVars, queueVars, effectVars, registry, loopVars, excuse, faults>>

-----------------------------------------------------------------------------
(* SqsConsumer.settle.  A settlement that raises is logged by _poll_once   *)
(* and the message comes back when its visibility ends.                    *)

Done(m) == SetTask(m, Idle)

Deleted(m) == queue' = [queue EXCEPT ![m].state = "gone"]

(* Mutant: attempts never run out. *)
DeadLettersPoisonOnly(m) == task[m].outcome = "dead"

DeadLetters(m) ==
  \/ task[m].outcome = "dead"
  \/ task[m].outcome = "retry" /\ task[m].attempt >= MaxDeliveryAttempts

(* _delete succeeds, fails, or deletes and fails. *)
Delete(m) ==
  /\ \/ Deleted(m) /\ NoFault
     \/ Deleted(m) /\ Fault
     \/ UNCHANGED queue /\ Fault
  /\ Done(m)

SettleAck(m) ==
  /\ task[m].phase = "settle" /\ task[m].outcome = "ack"
  /\ Delete(m)
  /\ UNCHANGED <<fixedVars, dead, dedupVars, effectVars, registry, loopVars, excuse>>

(* _dead_letter publishes the copy first and deletes after it. *)
SettleDeadLetter(m) ==
  /\ task[m].phase = "settle" /\ DeadLetters(m)
  /\ \/ /\ dead' = [dead EXCEPT ![m] = @ + 1] /\ NoFault
        /\ SetTask(m, [task[m] EXCEPT !.phase = "deadlettered"])
     \/ /\ Fault /\ Done(m)
        /\ \/ dead' = [dead EXCEPT ![m] = @ + 1]
           \/ UNCHANGED dead
  /\ UNCHANGED <<fixedVars, queue, dedupVars, effectVars, registry, loopVars, excuse>>

DeleteDeadLettered(m) ==
  /\ task[m].phase = "deadlettered"
  /\ Delete(m)
  /\ UNCHANGED <<fixedVars, dead, dedupVars, effectVars, registry, loopVars, excuse>>

(* change_message_visibility, which may fail: it comes back either way. *)
SettleRetry(m) ==
  /\ task[m].phase = "settle" /\ task[m].outcome = "retry" /\ ~DeadLetters(m)
  /\ Done(m)
  /\ UNCHANGED <<fixedVars, queueVars, dedupVars, effectVars, registry, loopVars, excuse, faults>>

Handle(m) ==
  \/ AdmitTrigger(m) \/ StartWorkflow(m)
  \/ ClaimResponse(m) \/ Deliver(m) \/ CompleteClaim(m)
  \/ SettleAck(m) \/ SettleDeadLetter(m) \/ DeleteDeadLettered(m) \/ SettleRetry(m)

Next ==
  \/ \E m \in Messages : Handle(m)
  \/ \E S \in SUBSET Messages : Receive(S) \/ ReceiveFails(S)
  \/ Expire \/ FinishPoll \/ Wake \/ Stop \/ Restart \/ ChangeRegistration

Fairness ==
  /\ \A m \in Messages :
       /\ WF_vars(Handle(m))
       /\ SF_vars(\E S \in SUBSET Messages : m \in S /\ Receive(S))
  /\ WF_vars(FinishPoll) /\ WF_vars(Wake)

Spec == Init /\ [][Next]_vars
FairSpec == Spec /\ Fairness
-----------------------------------------------------------------------------
(* Every variable has its type. *)
TypeOK ==
  /\ lane \in {"trigger", "response"} /\ down \in BOOLEAN
  /\ queue \in [Messages -> [state : {"queued", "gone"},
                             attempt : Attempts]]
  /\ dead \in [Messages -> Nat]
  /\ task \in [Messages -> Handlers]
  /\ entries \in Seq(Ids)
  /\ pending \in [Ids -> Messages \cup {Free}]
  /\ landed \in [Ids -> Nat] /\ excuse \in [Ids -> Nat]
  /\ run \in [Ids -> Digests \cup {"none"}]
  /\ loop \in {"polling", "handling", "sleeping", "ended"}
  /\ running \in BOOLEAN /\ ready \in BOOLEAN /\ reported \in BOOLEAN

(* No message is lost: one that left the queue took effect (its workflow   *)
(* runs, its signal landed, or a copy with its identity did) or sits in    *)
(* the dead-letter queue.  It is what settling after the effect, and       *)
(* acknowledging only completed duplicates, is for.                        *)
NoMessageIsLost ==
  \A m \in Messages : queue[m].state = "gone" => landed[Id(m)] > 0 \/ dead[m] > 0

(* A response reaches its workflow once, plus once for every time the      *)
(* relay could not know of a delivery: a signal that landed but reported   *)
(* an error, or a memory lost to retention, eviction, stop or restart.     *)
OneSignalPerRememberedId ==
  lane = "response" => \A i \in Ids : landed[i] <= 1 + excuse[i]

(* A handler that claimed an id keeps the claim until it releases it,      *)
(* unless stop dropped it: a late release of a dropped claim never frees   *)
(* the claim of a newer handler.                                           *)
ClaimIsKept ==
  \A m \in Messages :
     task[m].phase = "claimed" /\ ~task[m].stale => pending[Id(m)] = m

(* The duplicate memory stays within its capacity and never holds an id as *)
(* completed and in flight at once.                                        *)
MemoryIsBounded ==
  /\ Len(entries) + Cardinality(Claims) <= Capacity
  /\ ToSet(entries) \cap Claims = {}
  /\ Cardinality(ToSet(entries)) = Len(entries)

(* A stopped consumer is never reported ready again by the poll it was in, *)
(* and readiness is withdrawn when a poll fails.                           *)
ReadyMeansPolling == (ready \/ reported) => running /\ loop # "sleeping" /\ failures = 0

(* The reconnect delay is the initial one after a success and grows to its *)
(* ceiling with consecutive failures.                                      *)
Grown[n \in Nat] == IF n = 0 THEN InitialDelay ELSE DelayMultiplier * Grown[n - 1]

DelayFollowsFailures ==
  baseDelay = IF Grown[failures] < MaxDelay THEN Grown[failures] ELSE MaxDelay

(* A run was created for some message of its business id that was allowed  *)
(* to start it: well-formed, of this scope, accepted by the mapping and    *)
(* the input contract, and for the digest it asked for, if it asked for    *)
(* one.                                                                    *)
RunWasRequested ==
  \A i \in Ids : run[i] # "none" =>
     \E m \in Messages :
        /\ Id(m) = i
        /\ body[m].kind # "garbage" /\ body[m].scope = Scope
        /\ CloudEventRefusal(body[m].mapped) = "none"
        /\ InputRefusal(body[m].input) = "none"
        /\ body[m].digest \in {AnyDigest, run[i]}

(* A message whose handling ends in an outcome does not circulate for      *)
(* ever, also next to one whose exception escapes at every delivery:       *)
(* whatever fails, attempts run out and it leaves the queue, unless the    *)
(* consumer is stopped for good.                                           *)
EveryMessageLeaves ==
  \A m \in Messages :
     queue[m].state = "queued" /\ ~Escapes(m) ~> queue[m].state = "gone" \/ ~running

\* A message that left has taken effect or is a dead letter, and nothing runs unasked.
MessagesAreSafe ==
  /\ NoMessageIsLost
  /\ RunWasRequested

\* The duplicate memory, at its bound and under concurrent handlers, keeps what it was told.
DuplicateMemoryHolds ==
  /\ OneSignalPerRememberedId
  /\ ClaimIsKept
  /\ MemoryIsBounded

\* What a consumer reports, and how long it waits, follows from how its polls ended.
ConsumerTellsTheTruth ==
  /\ TypeOK
  /\ ReadyMeansPolling
  /\ DelayFollowsFailures
=============================================================================
