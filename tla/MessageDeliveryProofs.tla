------------------------ MODULE MessageDeliveryProofs ------------------------
(***************************************************************************)
(* Proofs about MessageDelivery, for any messages, ids, definitions, bodies *)
(* and bounds, and for any number of faults, stops and restarts.           *)
(*                                                                         *)
(* Three invariants.  Typed is the type invariant.  Settled says what the  *)
(* phase of a handler stands for: an acknowledgement only follows an       *)
(* effect.  Memory relates the duplicate memory, the claims of the         *)
(* handlers and the signals a workflow has received.  The reconnect delay  *)
(* is apart: it follows from the steps of the loop alone.                  *)
(***************************************************************************)
EXTENDS MessageDelivery, FiniteSetTheorems, SequenceTheorems, WellFoundedInduction, TLAPS

-----------------------------------------------------------------------------
(* The operators.                                                          *)

\* What a handler holds in each phase.
LEMMA HandlerFields ==
    ASSUME NEW x \in Handlers
    PROVE  /\ x.phase \in {"idle", "received", "starting", "claimed", "delivered", "settle",
                           "deadlettered"}
           /\ x.phase = "idle" <=> x = Idle
           /\ x # Idle => x.attempt \in Attempts
           /\ x.phase = "starting" => x.digest \in Digests
           /\ x.phase = "claimed" => x.stale \in BOOLEAN
           /\ x.phase \in {"delivered", "settle", "deadlettered"} => x.outcome \in Outcomes
  BY DEF Handlers, Idle

LEMMA HandlersMade ==
    ASSUME NEW k \in Attempts
    PROVE  /\ Idle \in Handlers /\ [phase |-> "received", attempt |-> k] \in Handlers
           /\ \A d \in Digests : [phase |-> "starting", attempt |-> k, digest |-> d] \in Handlers
           /\ \A b \in BOOLEAN : [phase |-> "claimed", attempt |-> k, stale |-> b] \in Handlers
           /\ \A o \in Outcomes :
                /\ [phase |-> "delivered", attempt |-> k, outcome |-> o] \in Handlers
                /\ [phase |-> "settle", attempt |-> k, outcome |-> o] \in Handlers
  BY DEF Handlers

\* The two changes of a handler in place.
LEMMA HandlersChanged ==
    ASSUME NEW x \in Handlers
    PROVE  /\ x.phase = "claimed" => /\ [x EXCEPT !.stale = TRUE] \in Handlers
                                     /\ [x EXCEPT !.stale = TRUE].phase = "claimed"
                                     /\ [x EXCEPT !.stale = TRUE].stale
           /\ x.phase = "settle" => /\ [x EXCEPT !.phase = "deadlettered"] \in Handlers
                                    /\ [x EXCEPT !.phase = "deadlettered"].phase = "deadlettered"
<1>1. ASSUME x.phase = "claimed"
      PROVE  /\ [x EXCEPT !.stale = TRUE] \in Handlers
             /\ [x EXCEPT !.stale = TRUE].phase = "claimed" /\ [x EXCEPT !.stale = TRUE].stale
  <2>1. x \in [phase : {"claimed"}, attempt : Attempts, stale : BOOLEAN]
    BY <1>1 DEF Handlers, Idle
  <2>2. [x EXCEPT !.stale = TRUE] \in [phase : {"claimed"}, attempt : Attempts, stale : BOOLEAN]
    BY <2>1
  <2> QED BY <2>1, <2>2 DEF Handlers
<1>2. ASSUME x.phase = "settle"
      PROVE  /\ [x EXCEPT !.phase = "deadlettered"] \in Handlers
             /\ [x EXCEPT !.phase = "deadlettered"].phase = "deadlettered"
  <2> DEFINE H == [phase : {"delivered", "settle", "deadlettered"}, attempt : Attempts,
                   outcome : Outcomes]
  <2>1. x \in H
    BY <1>2 DEF Handlers, Idle
  <2>2. [x EXCEPT !.phase = "deadlettered"] \in H
    BY <2>1
  <2> QED BY <2>1, <2>2 DEF Handlers
<1> QED BY <1>1, <1>2

LEMMA ToSetEmpty == ToSet(<<>>) = {}
  BY DEF ToSet

\* Appending, and taking away from the front.
LEMMA ToSetAppend ==
    ASSUME NEW S, NEW s \in Seq(S), NEW e \in S
    PROVE  ToSet(Append(s, e)) = ToSet(s) \cup {e}
<1>1. /\ Append(s, e) \in Seq(S) /\ Len(Append(s, e)) = Len(s) + 1
      /\ \A k \in 1..Len(s) : Append(s, e)[k] = s[k]
      /\ Append(s, e)[Len(s) + 1] = e /\ Len(s) \in Nat
  OBVIOUS
<1>2. ToSet(Append(s, e)) = {Append(s, e)[k] : k \in 1..(Len(s) + 1)}
  BY <1>1 DEF ToSet
<1>3. ToSet(s) = {s[k] : k \in 1..Len(s)}
  BY DEF ToSet
<1>4. 1..(Len(s) + 1) = 1..Len(s) \cup {Len(s) + 1}
  BY <1>1
<1> QED BY <1>1, <1>2, <1>3, <1>4

LEMMA ToSetTail ==
    ASSUME NEW S, NEW s \in Seq(S), s # <<>>
    PROVE  /\ Tail(s) \in Seq(S) /\ Head(s) \in S /\ Len(Tail(s)) = Len(s) - 1
           /\ ToSet(s) = ToSet(Tail(s)) \cup {Head(s)}
           /\ \A k \in 1..Len(Tail(s)) : Tail(s)[k] = s[k + 1]
<1>1. /\ Tail(s) \in Seq(S) /\ Head(s) = s[1] /\ Len(Tail(s)) = Len(s) - 1
      /\ \A k \in 1..Len(Tail(s)) : Tail(s)[k] = s[k + 1]
      /\ Len(s) \in Nat /\ Len(s) > 0
  OBVIOUS
<1>2. ToSet(Tail(s)) = {Tail(s)[k] : k \in 1..(Len(s) - 1)}
  <2> DEFINE u == Tail(s)
  <2>1. u \in Seq(S) /\ Len(u) = Len(s) - 1
    BY <1>1
  <2> HIDE DEF u
  <2>2. ToSet(u) = {u[k] : k \in 1..(Len(s) - 1)}
    BY <2>1 DEF ToSet
  <2> QED BY <2>2 DEF u
<1>3. ToSet(s) = {s[k] : k \in 1..Len(s)}
  BY DEF ToSet
<1>4. \A k \in 1..Len(s) : k = 1 \/ (k - 1 \in 1..(Len(s) - 1) /\ (k - 1) + 1 = k)
  BY <1>1
<1>5. ToSet(s) \subseteq ToSet(Tail(s)) \cup {Head(s)}
  BY <1>1, <1>2, <1>3, <1>4
<1>6. ToSet(Tail(s)) \cup {Head(s)} \subseteq ToSet(s)
  BY <1>1, <1>2, <1>3
<1> QED BY <1>1, <1>5, <1>6

\* The newest entries that fit beside the claims and a new one.
LEMMA EvictedKeeps ==
    ASSUME NEW S, NEW s \in Seq(S), Cardinality(Claims) \in Nat,
           Cardinality(Claims) < Capacity
    PROVE  /\ Evicted(s) \in Seq(S)
           /\ Len(Evicted(s)) <= Capacity - 1 - Cardinality(Claims)
           /\ \E d \in Nat : /\ Len(Evicted(s)) + d <= Len(s)
                             /\ \A k \in 1..Len(Evicted(s)) : Evicted(s)[k] = s[k + d]
           /\ ToSet(Evicted(s)) \subseteq ToSet(s)
<1> DEFINE room == Capacity - 1 - Cardinality(Claims)
<1>1. room \in Nat /\ Len(s) \in Nat
  BY DeliveryAssumption
<1> HIDE DEF room
<1>2. Evicted(s) = IF Len(s) > room THEN SubSeq(s, Len(s) - room + 1, Len(s)) ELSE s
  BY DEF Evicted, room
<1>3. /\ Evicted(s) \in Seq(S) /\ Len(Evicted(s)) <= room
      /\ \E d \in Nat : /\ Len(Evicted(s)) + d <= Len(s)
                        /\ \A k \in 1..Len(Evicted(s)) : Evicted(s)[k] = s[k + d]
  <2>1. CASE Len(s) > room
    <3> DEFINE e == SubSeq(s, Len(s) - room + 1, Len(s))
    <3>1. /\ e \in Seq(S) /\ Len(e) = room
          /\ \A k \in 1..Len(e) : e[k] = s[k + (Len(s) - room)]
      BY <1>1, <2>1, SubSeqProperties
    <3> HIDE DEF e
    <3>2. Len(s) - room \in Nat /\ Evicted(s) = e
      BY <1>1, <1>2, <2>1 DEF e
    <3>3. Len(e) + (Len(s) - room) <= Len(s)
      BY <1>1, <3>1
    <3>4. \E d \in Nat : Len(e) + d <= Len(s) /\ \A k \in 1..Len(e) : e[k] = s[k + d]
      BY <3>1, <3>2, <3>3
    <3>5. Len(e) <= room
      BY <1>1, <3>1
    <3> QED BY <3>1, <3>2, <3>4, <3>5
  <2>2. CASE ~(Len(s) > room)
    <3>1. Evicted(s) = s
      BY <1>2, <2>2
    <3>2. \A k \in 1..Len(s) : s[k] = s[k + 0]
      BY <1>1
    <3>3. \E d \in Nat : Len(s) + d <= Len(s) /\ \A k \in 1..Len(s) : s[k] = s[k + d]
      BY <1>1, <3>2
    <3> QED BY <1>1, <2>2, <3>1, <3>3
  <2> QED BY <2>1, <2>2
<1>4. ToSet(Evicted(s)) \subseteq ToSet(s)
  BY <1>1, <1>3 DEF ToSet
<1> QED BY <1>3, <1>4 DEF room

-----------------------------------------------------------------------------
(* Types, and a loop that waits for its batch.                             *)

BatchIsAwaited == loop # "handling" => \A m \in Messages : task[m] = Idle

RegistryOK == \E d \in Digests, p \in BOOLEAN : registry = Registered(d, p)

Typed == TypeOK /\ body \in BodyChoices /\ RegistryOK /\ BatchIsAwaited /\ ReadyMeansPolling

\* The variables a step leaves alone keep their types.
LEMMA IdsOfMessages ==
    ASSUME Typed
    PROVE  \A m \in Messages : Id(m) \in Ids
  BY DeliveryAssumption DEF Typed, Id

LEMMA ResolvedDigest ==
    ASSUME Typed
    PROVE  registry[Scope][Workflow].digest \in Digests
  BY DEF Typed, RegistryOK, Registered, Registration

LEMMA InitTyped == Init => Typed
<1> SUFFICES ASSUME Init PROVE Typed
  OBVIOUS
<1>1. 0 \in Attempts /\ Idle \in Handlers /\ <<>> \in Seq(Ids)
  BY DeliveryAssumption DEF Attempts, Handlers
<1>2. TypeOK
  BY <1>1 DEF Init, TypeOK
<1> QED
  BY <1>2 DEF Init, Typed, RegistryOK, BatchIsAwaited, ReadyMeansPolling

\* What every step of a handler leaves alone.
Kept == UNCHANGED <<lane, body, down, registry, loop, running, ready, reported, baseDelay,
                    failures>>

\* One handler takes a step and the others stand still.
HandlerMoves(m) ==
    /\ Kept
    /\ \E y \in Handlers : task' = [task EXCEPT ![m] = y]
    /\ task[m] # Idle /\ loop = "handling"

LEMMA MoveTyped ==
    ASSUME Typed, NEW m \in Messages, HandlerMoves(m),
           queue' \in [Messages -> [state : {"queued", "gone"}, attempt : Attempts]],
           dead' \in [Messages -> Nat], entries' \in Seq(Ids),
           pending' \in [Ids -> Messages \cup {Free}],
           landed' \in [Ids -> Nat], excuse' \in [Ids -> Nat],
           run' \in [Ids -> Digests \cup {"none"}]
    PROVE  Typed'
<1>1. TypeOK'
  <2>1. task' \in [Messages -> Handlers]
    BY DEF Typed, TypeOK, HandlerMoves
  <2>2. /\ lane' \in {"trigger", "response"} /\ down' \in BOOLEAN
        /\ loop' \in {"polling", "handling", "sleeping", "ended"}
        /\ running' \in BOOLEAN /\ ready' \in BOOLEAN /\ reported' \in BOOLEAN
    BY DEF Typed, TypeOK, HandlerMoves, Kept
  <2> QED BY <2>1, <2>2 DEF TypeOK
<1> QED
  BY <1>1 DEF Typed, HandlerMoves, Kept, RegistryOK, Registered, Registration, BatchIsAwaited,
     ReadyMeansPolling

\* A handler at work has received a message, and the loop waits for it.
LEMMA AtWork ==
    ASSUME Typed, NEW m \in Messages, task[m].phase # "idle"
    PROVE  /\ task[m] \in Handlers /\ task[m] # Idle /\ loop = "handling"
           /\ task[m].attempt \in Attempts
  BY HandlerFields DEF Typed, TypeOK, BatchIsAwaited, Idle

LEMMA ForgottenTyped ==
    ASSUME Typed, NEW S, Forgotten(S)
    PROVE  /\ excuse' \in [Ids -> Nat]
           /\ \A i \in Ids : excuse'[i] = IF i \in S THEN excuse[i] + 1 ELSE excuse[i]
  BY DEF Typed, TypeOK, Forgotten

LEMMA AdmitTriggerMoves ==
    ASSUME Typed, NEW m \in Messages, AdmitTrigger(m)
    PROVE  HandlerMoves(m) /\ Typed'
<1>1. task[m].phase = "received" /\ task[m].attempt \in Attempts /\ task[m] # Idle
      /\ loop = "handling"
  BY AtWork DEF AdmitTrigger
<1>2. Admission(m) \in {"dead", "retry", "start", "escaped"}
  BY DEF Admission
<1>3. Settling(m, "dead") \in Handlers /\ Settling(m, "retry") \in Handlers /\ Idle \in Handlers
  BY <1>1, HandlersMade DEF Settling, Outcomes, Handlers
<1>4. [phase |-> "starting", attempt |-> task[m].attempt,
       digest |-> registry[Scope][Workflow].digest] \in Handlers
  BY <1>1, HandlersMade, ResolvedDigest
<1>5. HandlerMoves(m)
  BY <1>1, <1>2, <1>3, <1>4 DEF AdmitTrigger, HandlerMoves, Kept, SetTask, fixedVars, loopVars
<1> QED
  BY <1>5, MoveTyped DEF AdmitTrigger, Typed, TypeOK, queueVars, dedupVars, effectVars

LEMMA StartWorkflowMoves ==
    ASSUME Typed, NEW m \in Messages, StartWorkflow(m)
    PROVE  HandlerMoves(m) /\ Typed'
<1>1. /\ task[m].phase = "starting" /\ task[m].attempt \in Attempts /\ task[m] # Idle
      /\ loop = "handling" /\ task[m].digest \in Digests
  BY AtWork, HandlerFields DEF StartWorkflow
<1>2. \A o \in Outcomes : Settling(m, o) \in Handlers
  BY <1>1, HandlersMade DEF Settling
<1>3. HandlerMoves(m)
  BY <1>1, <1>2 DEF Outcomes, StartWorkflow, HandlerMoves, Kept, SetTask, fixedVars, loopVars
<1>4. landed' \in [Ids -> Nat] /\ run' \in [Ids -> Digests \cup {"none"}]
  <2>1. landed \in [Ids -> Nat] /\ run \in [Ids -> Digests \cup {"none"}]
    BY DEF Typed, TypeOK
  <2>2. \/ run' = [run EXCEPT ![Id(m)] = task[m].digest] /\ landed' = [landed EXCEPT ![Id(m)] = 1]
        \/ run' = run /\ landed' = landed
    BY DEF StartWorkflow, effectVars
  <2> QED BY <1>1, <2>1, <2>2
<1> QED
  BY <1>3, <1>4, MoveTyped DEF StartWorkflow, Typed, TypeOK, queueVars, dedupVars

\* The memory takes a claim: room was made for it.
TakesClaim(m) ==
    /\ Id(m) \notin ToSet(entries) /\ pending[Id(m)] = Free
    /\ Cardinality(Claims) < Capacity
    /\ entries' = Evicted(entries)
    /\ pending' = [pending EXCEPT ![Id(m)] = m]
    /\ Forgotten(ToSet(entries) \ ToSet(entries'))
    /\ task' = [task EXCEPT ![m] = [phase |-> "claimed", attempt |-> task[m].attempt,
                                   stale |-> FALSE]]

\* Or it is left alone, and the message is acknowledged only if its id is completed.
LeavesMemory(m, o) ==
    /\ UNCHANGED <<dedupVars, excuse>>
    /\ o \in Outcomes /\ (o = "ack" => Id(m) \in ToSet(entries))
    /\ task' = [task EXCEPT ![m] = Settling(m, o)]

\* Or its exception escapes, and the message is left as it is.
LeavesMessage(m) ==
    UNCHANGED <<dedupVars, excuse>> /\ task' = [task EXCEPT ![m] = Idle]

LEMMA ClaimKinds ==
    ASSUME Typed, NEW m \in Messages, ClaimResponse(m), Cardinality(Claims) \in Nat
    PROVE  TakesClaim(m) \/ LeavesMessage(m) \/ \E o \in Outcomes : LeavesMemory(m, o)
  BY DeliveryAssumption
     DEF ClaimResponse, TakesClaim, LeavesMemory, LeavesMessage, SetTask, Outcomes

LEMMA ClaimResponseMoves ==
    ASSUME Typed, NEW m \in Messages, ClaimResponse(m), Cardinality(Claims) \in Nat
    PROVE  HandlerMoves(m) /\ Typed'
<1>1. task[m].attempt \in Attempts /\ task[m] # Idle /\ loop = "handling"
  BY AtWork DEF ClaimResponse
<1>2. CASE TakesClaim(m)
  <2>1. HandlerMoves(m)
    BY <1>1, <1>2, HandlersMade
       DEF ClaimResponse, TakesClaim, HandlerMoves, Kept, fixedVars, loopVars
  <2>2. entries' \in Seq(Ids)
    BY <1>2, EvictedKeeps DEF TakesClaim, Typed, TypeOK
  <2>3. pending' \in [Ids -> Messages \cup {Free}]
    BY <1>2 DEF TakesClaim, Typed, TypeOK
  <2>4. excuse' \in [Ids -> Nat]
    BY <1>2, ForgottenTyped DEF TakesClaim
  <2> QED
    BY <2>1, <2>2, <2>3, <2>4, MoveTyped
       DEF ClaimResponse, Typed, TypeOK, queueVars, effectVars
<1>3. CASE \E o \in Outcomes : LeavesMemory(m, o)
  <2>1. PICK o \in Outcomes : LeavesMemory(m, o)
    BY <1>3
  <2>2. Settling(m, o) \in Handlers
    BY <1>1, <2>1, HandlersMade DEF Settling
  <2>3. HandlerMoves(m)
    BY <1>1, <2>1, <2>2 DEF ClaimResponse, LeavesMemory, HandlerMoves, Kept, fixedVars, loopVars
  <2> QED
    BY <2>1, <2>3, MoveTyped
       DEF ClaimResponse, LeavesMemory, Typed, TypeOK, queueVars, effectVars, dedupVars
<1>4. CASE LeavesMessage(m)
  <2>1. HandlerMoves(m)
    BY <1>1, <1>4
       DEF ClaimResponse, LeavesMessage, HandlerMoves, Kept, fixedVars, loopVars, Handlers
  <2> QED
    BY <1>4, <2>1, MoveTyped
       DEF ClaimResponse, LeavesMessage, Typed, TypeOK, queueVars, effectVars, dedupVars
<1> QED BY <1>2, <1>3, <1>4, ClaimKinds

\* A delivery: the signal landed or not, and what the handler makes of the answer.
Delivers(m, o) ==
    /\ task' = [task EXCEPT ![m] = [phase |-> "delivered", attempt |-> task[m].attempt,
                                   outcome |-> o]]
    /\ \/ o \in {"dead", "retry"} /\ UNCHANGED <<landed, excuse>>
       \/ o = "ack" /\ UNCHANGED excuse /\ landed' = [landed EXCEPT ![Id(m)] = @ + 1]
       \/ o = "retry" /\ Forgotten({Id(m)}) /\ landed' = [landed EXCEPT ![Id(m)] = @ + 1]

LEMMA DeliverMoves ==
    ASSUME Typed, NEW m \in Messages, Deliver(m)
    PROVE  HandlerMoves(m) /\ Typed' /\ \E o \in Outcomes : Delivers(m, o)
<1>1. /\ task[m].phase = "claimed" /\ task[m].attempt \in Attempts /\ task[m] # Idle
      /\ loop = "handling"
  BY AtWork DEF Deliver
<1>2. \E o \in Outcomes : Delivers(m, o)
  BY DEF Deliver, Delivers, SetTask, Outcomes
<1>3. HandlerMoves(m)
  BY <1>1, <1>2, HandlersMade DEF Deliver, Delivers, HandlerMoves, Kept, fixedVars, loopVars
<1>4. landed' \in [Ids -> Nat] /\ excuse' \in [Ids -> Nat]
  <2>1. /\ landed \in [Ids -> Nat] /\ excuse \in [Ids -> Nat] /\ Id(m) \in Ids
        /\ [landed EXCEPT ![Id(m)] = @ + 1] \in [Ids -> Nat]
    BY IdsOfMessages DEF Typed, TypeOK
  <2>2. landed' \in [Ids -> Nat]
    BY <1>2, <2>1 DEF Delivers
  <2>3. excuse' \in [Ids -> Nat]
    BY <1>2, <2>1, ForgottenTyped DEF Delivers
  <2> QED BY <2>2, <2>3
<1> QED
  BY <1>2, <1>3, <1>4, MoveTyped DEF Deliver, Typed, TypeOK, queueVars, dedupVars

LEMMA CompleteClaimMoves ==
    ASSUME Typed, NEW m \in Messages, CompleteClaim(m)
    PROVE  HandlerMoves(m) /\ Typed'
<1>1. /\ task[m].phase = "delivered" /\ task[m].attempt \in Attempts /\ task[m] # Idle
      /\ loop = "handling" /\ task[m].outcome \in Outcomes
  BY AtWork, HandlerFields DEF CompleteClaim
<1>2. HandlerMoves(m)
  BY <1>1, HandlersMade
     DEF CompleteClaim, HandlerMoves, Kept, SetTask, Settling, fixedVars, loopVars
<1>3. entries' \in Seq(Ids) /\ pending' \in [Ids -> Messages \cup {Free}]
  <2>1. /\ entries \in Seq(Ids) /\ pending \in [Ids -> Messages \cup {Free}] /\ Id(m) \in Ids
        /\ [pending EXCEPT ![Id(m)] = Free] \in [Ids -> Messages \cup {Free}]
    BY IdsOfMessages DEF Typed, TypeOK
  <2>2. Append(entries, Id(m)) \in Seq(Ids)
    BY <2>1
  <2> QED BY <2>1, <2>2 DEF CompleteClaim, dedupVars
<1> QED
  BY <1>2, <1>3, MoveTyped DEF CompleteClaim, Typed, TypeOK, queueVars, effectVars

\* Deleting a message leaves its attempts.
LEMMA DeleteMoves ==
    ASSUME Typed, NEW m \in Messages, Delete(m)
    PROVE  /\ queue' \in [Messages -> [state : {"queued", "gone"}, attempt : Attempts]]
           /\ \A n \in Messages \ {m} : queue'[n] = queue[n]
           /\ task' = [task EXCEPT ![m] = Idle]
<1>1. \A n \in Messages : queue[n] \in [state : {"queued", "gone"}, attempt : Attempts]
  BY DEF Typed, TypeOK
<1>2. [queue[m] EXCEPT !.state = "gone"] \in [state : {"queued", "gone"}, attempt : Attempts]
  BY <1>1
<1> QED BY <1>2 DEF Delete, Deleted, Done, SetTask, Typed, TypeOK

LEMMA SettleMoves ==
    ASSUME Typed, NEW m \in Messages,
           SettleAck(m) \/ SettleDeadLetter(m) \/ DeleteDeadLettered(m) \/ SettleRetry(m)
    PROVE  HandlerMoves(m) /\ Typed'
<1>1. task[m] \in Handlers /\ task[m] # Idle /\ loop = "handling" /\ Idle \in Handlers
  BY AtWork DEF SettleAck, SettleDeadLetter, DeleteDeadLettered, SettleRetry, Handlers
<1>2. CASE SettleAck(m)
  BY <1>1, <1>2, DeleteMoves, MoveTyped
     DEF SettleAck, HandlerMoves, Kept, fixedVars, loopVars, dedupVars, effectVars, Typed, TypeOK
<1>3. CASE DeleteDeadLettered(m)
  BY <1>1, <1>3, DeleteMoves, MoveTyped
     DEF DeleteDeadLettered, HandlerMoves, Kept, fixedVars, loopVars, dedupVars, effectVars,
         Typed, TypeOK
<1>4. CASE SettleRetry(m)
  BY <1>1, <1>4, MoveTyped
     DEF SettleRetry, Done, SetTask, HandlerMoves, Kept, fixedVars, loopVars, dedupVars,
         effectVars, queueVars, Typed, TypeOK
<1>5. CASE SettleDeadLetter(m)
  <2>1. [task[m] EXCEPT !.phase = "deadlettered"] \in Handlers
    BY <1>1, <1>5, HandlersChanged DEF SettleDeadLetter
  <2>2. HandlerMoves(m)
    BY <1>1, <1>5, <2>1
       DEF SettleDeadLetter, Done, SetTask, HandlerMoves, Kept, fixedVars, loopVars
  <2>3. dead' \in [Messages -> Nat]
    BY <1>5 DEF SettleDeadLetter, Typed, TypeOK
  <2> QED
    BY <1>5, <2>2, <2>3, MoveTyped
       DEF SettleDeadLetter, dedupVars, effectVars, Typed, TypeOK
<1> QED BY <1>2, <1>3, <1>4, <1>5

-----------------------------------------------------------------------------
(* The loop.                                                               *)

\* A batch is received: attempts are counted, nothing leaves the queue.
LEMMA ReceivedTyped ==
    ASSUME Typed, NEW S \in SUBSET Messages, queue' = Received(S),
           \A m \in S : queue[m].state = "queued"
    PROVE  /\ queue' \in [Messages -> [state : {"queued", "gone"}, attempt : Attempts]]
           /\ \A m \in Messages : queue'[m].state = queue[m].state
<1>1. \A m \in Messages : queue[m] \in [state : {"queued", "gone"}, attempt : Attempts]
  BY DEF Typed, TypeOK
<1>2. \A m \in Messages :
        (IF queue[m].attempt < MaxDeliveryAttempts
         THEN queue[m].attempt + 1 ELSE MaxDeliveryAttempts) \in Attempts
  BY <1>1, DeliveryAssumption DEF Attempts
<1> QED BY <1>1, <1>2 DEF Received

LEMMA ReceiveMoves ==
    ASSUME Typed, NEW S \in SUBSET Messages, Receive(S)
    PROVE  Typed'
<1>1. /\ queue' \in [Messages -> [state : {"queued", "gone"}, attempt : Attempts]]
  BY ReceivedTyped DEF Receive
<1>2. task' \in [Messages -> Handlers]
  <2>1. \A m \in Messages : [phase |-> "received", attempt |-> queue'[m].attempt] \in Handlers
    BY <1>1, HandlersMade
  <2> QED BY <2>1 DEF Receive, Handlers
<1>3. TypeOK'
  BY <1>1, <1>2
     DEF Receive, Typed, TypeOK, fixedVars, dedupVars, effectVars
<1> QED
  BY <1>3 DEF Receive, Typed, RegistryOK, Registered, Registration, BatchIsAwaited,
              ReadyMeansPolling, fixedVars

LEMMA ReceiveFailsMoves ==
    ASSUME Typed, NEW S \in SUBSET Messages, ReceiveFails(S)
    PROVE  Typed'
<1>1. /\ queue' \in [Messages -> [state : {"queued", "gone"}, attempt : Attempts]]
  BY ReceivedTyped DEF ReceiveFails
<1>2. TypeOK'
  BY <1>1 DEF ReceiveFails, SetReady, Typed, TypeOK, fixedVars, dedupVars, effectVars
<1> QED
  BY <1>2 DEF ReceiveFails, SetReady, Typed, RegistryOK, Registered, Registration,
              BatchIsAwaited, ReadyMeansPolling, fixedVars

LEMMA FinishPollMoves ==
    ASSUME Typed, FinishPoll
    PROVE  Typed'
<1>1. TypeOK' /\ ReadyMeansPolling'
  BY DEF FinishPoll, SetReady, NextLoop, ReadyMeansPolling, Typed, TypeOK, fixedVars, queueVars,
         dedupVars, effectVars
<1> QED
  BY <1>1 DEF FinishPoll, Active, Typed, RegistryOK, Registered, Registration, BatchIsAwaited,
              fixedVars

LEMMA WakeMoves ==
    ASSUME Typed, Wake
    PROVE  Typed'
<1>1. TypeOK' /\ ReadyMeansPolling'
  BY DEF Wake, NextLoop, ReadyMeansPolling, Typed, TypeOK, fixedVars, queueVars, dedupVars,
         effectVars
<1> QED
  BY <1>1 DEF Wake, Typed, RegistryOK, Registered, Registration, BatchIsAwaited, fixedVars

\* stop marks the handlers whose claims it drops.
LEMMA StopTasks ==
    ASSUME Typed, Stop
    PROVE  /\ task' \in [Messages -> Handlers]
           /\ \A m \in Messages :
                /\ task'[m].phase = task[m].phase
                /\ task[m].phase # "claimed" => task'[m] = task[m]
                /\ task[m].phase = "claimed" => \/ task'[m] = task[m] /\ lane = "trigger"
                                                \/ task'[m].stale
<1>1. \A m \in Messages : task[m] \in Handlers
  BY DEF Typed, TypeOK
<1>2. CASE lane = "response"
  <2> DEFINE f(m) == IF task[m].phase = "claimed" THEN [task[m] EXCEPT !.stale = TRUE]
                     ELSE task[m]
  <2>1. task' = [m \in Messages |-> f(m)]
    BY <1>2 DEF Stop
  <2>2. ASSUME NEW m \in Messages
        PROVE  /\ f(m) \in Handlers /\ f(m).phase = task[m].phase
               /\ task[m].phase # "claimed" => f(m) = task[m]
               /\ task[m].phase = "claimed" => f(m).stale
    BY <1>1, HandlersChanged
  <2> HIDE DEF f
  <2> QED BY <2>1, <2>2
<1>3. CASE lane # "response"
  BY <1>1, <1>3 DEF Stop, Typed, TypeOK
<1> QED BY <1>2, <1>3

LEMMA StopMoves ==
    ASSUME Typed, Stop
    PROVE  Typed'
<1>1. /\ entries' \in Seq(Ids) /\ pending' \in [Ids -> Messages \cup {Free}]
      /\ excuse' \in [Ids -> Nat]
  <2>1. <<>> \in Seq(Ids) /\ [i \in Ids |-> Free] \in [Ids -> Messages \cup {Free}]
    OBVIOUS
  <2>2. CASE lane = "response"
    BY <2>1, <2>2, ForgottenTyped DEF Stop
  <2>3. CASE lane # "response"
    BY <2>3 DEF Stop, Typed, TypeOK, dedupVars
  <2> QED BY <2>2, <2>3
<1>2. TypeOK'
  BY <1>1, StopTasks DEF Stop, SetReady, Typed, TypeOK, fixedVars, queueVars, effectVars
<1>3. BatchIsAwaited'
  <2>1. \A m \in Messages : task[m] = Idle => task'[m] = Idle
    BY StopTasks DEF Idle
  <2> QED BY <2>1 DEF Stop, Typed, BatchIsAwaited
<1> QED
  BY <1>2, <1>3 DEF Stop, SetReady, Typed, RegistryOK, Registered, Registration,
                    ReadyMeansPolling, fixedVars

LEMMA RestartMoves ==
    ASSUME Typed, Restart
    PROVE  Typed'
<1>1. /\ entries' \in Seq(Ids) /\ pending' \in [Ids -> Messages \cup {Free}]
      /\ excuse' \in [Ids -> Nat] /\ task' \in [Messages -> Handlers]
  BY ForgottenTyped DEF Restart, Handlers
<1>2. TypeOK'
  BY <1>1 DEF Restart, SetReady, Typed, TypeOK, fixedVars, queueVars, effectVars
<1> QED
  BY <1>2 DEF Restart, SetReady, Typed, RegistryOK, Registered, Registration, BatchIsAwaited,
              ReadyMeansPolling, fixedVars

LEMMA ExpireMoves ==
    ASSUME Typed, Expire
    PROVE  Typed'
<1>1. entries' \in Seq(Ids) /\ excuse' \in [Ids -> Nat]
  BY ForgottenTyped, ToSetTail DEF Expire, Typed, TypeOK
<1>2. TypeOK' /\ ReadyMeansPolling'
  BY <1>1 DEF Expire, Typed, TypeOK, ReadyMeansPolling, fixedVars, queueVars, effectVars, loopVars
<1> QED
  BY <1>2 DEF Expire, Typed, RegistryOK, Registered, Registration, BatchIsAwaited, fixedVars,
              loopVars

LEMMA ChangeRegistrationMoves ==
    ASSUME Typed, ChangeRegistration
    PROVE  Typed'
<1>1. TypeOK' /\ ReadyMeansPolling'
  BY DEF ChangeRegistration, Typed, TypeOK, ReadyMeansPolling, fixedVars, queueVars, dedupVars,
         effectVars, loopVars
<1>2. RegistryOK'
  BY DEF ChangeRegistration, RegistryOK, Registered, Registration
<1> QED BY <1>1, <1>2 DEF ChangeRegistration, Typed, BatchIsAwaited, fixedVars, loopVars

LEMMA StutterTyped ==
    ASSUME Typed, UNCHANGED vars
    PROVE  Typed'
<1>1. TypeOK' /\ ReadyMeansPolling'
  BY DEF vars, Typed, TypeOK, ReadyMeansPolling, fixedVars, queueVars, dedupVars, effectVars,
         loopVars
<1> QED
  BY <1>1 DEF vars, Typed, RegistryOK, Registered, Registration, BatchIsAwaited, fixedVars,
     loopVars

-----------------------------------------------------------------------------
(* What a phase stands for.                                                *)

\* The message may start the definition d.
Accepted(m, d) ==
    /\ body[m].kind # "garbage" /\ body[m].scope = Scope
    /\ CloudEventRefusal(body[m].mapped) = "none"
    /\ InputRefusal(body[m].input) = "none"
    /\ body[m].digest \in {AnyDigest, d}

Earned(m) ==
    /\ task[m].phase \in {"delivered", "settle"} /\ task[m].outcome = "ack"
         => landed[Id(m)] > 0
    /\ task[m].phase = "deadlettered" => dead[m] > 0
    /\ task[m].phase = "starting" => Accepted(m, task[m].digest) /\ lane = "trigger"

Settled ==
    /\ \A m \in Messages : Earned(m)
    /\ \A i \in ToSet(entries) : landed[i] > 0
    /\ \A i \in Ids : run[i] # "none" => /\ landed[i] > 0
                                         /\ \E m \in Messages : Id(m) = i /\ Accepted(m, run[i])
    /\ NoMessageIsLost

LEMMA SettledIsSafe == Settled => MessagesAreSafe
  BY DEF Settled, Accepted, MessagesAreSafe, RunWasRequested

\* A step keeps Settled if effects stay and every new claim of one is true.
LEMMA SettledStays ==
    ASSUME Typed, Settled, body' = body, lane' = lane,
           \A i \in Ids : landed[i] > 0 => landed'[i] > 0,
           \A m \in Messages : dead[m] > 0 => dead'[m] > 0,
           \A i \in ToSet(entries') : i \in ToSet(entries) \/ landed'[i] > 0,
           \A i \in Ids : \/ run'[i] = run[i]
                          \/ /\ landed'[i] > 0
                             /\ \E m \in Messages : Id(m) = i /\ Accepted(m, run'[i]),
           \A m \in Messages :
              \/ task'[m] = task[m]
              \/ task'[m].phase \in {"idle", "received", "claimed"}
              \/ /\ task'[m].phase \in {"delivered", "settle"}
                 /\ task'[m].outcome = "ack" => landed'[Id(m)] > 0
              \/ task'[m].phase = "deadlettered" /\ dead'[m] > 0
              \/ /\ task'[m].phase = "starting" /\ Accepted(m, task'[m].digest)
                 /\ lane = "trigger",
           \A m \in Messages : queue'[m].state = "gone" =>
              queue[m].state = "gone" \/ landed'[Id(m)] > 0 \/ dead'[m] > 0
    PROVE  Settled'
<1>1. \A m \in Messages : Id(m)' = Id(m) /\ Id(m) \in Ids
  BY IdsOfMessages DEF Id
<1>2. ASSUME NEW m \in Messages, NEW d, Accepted(m, d) PROVE Accepted(m, d)'
  BY <1>2 DEF Accepted
<1>3. ASSUME NEW m \in Messages PROVE Earned(m)'
  BY <1>1, <1>2 DEF Settled, Earned, Accepted
<1>4. \A i \in ToSet(entries') : landed'[i] > 0
  <2>1. ToSet(entries) \subseteq Ids
    BY DEF Typed, TypeOK, ToSet
  <2> QED BY <2>1 DEF Settled
<1>5. ASSUME NEW i \in Ids, run'[i] # "none"
      PROVE  landed'[i] > 0 /\ \E m \in Messages : Id(m)' = i /\ Accepted(m, run[i])'
  <2>1. landed'[i] > 0 /\ \E m \in Messages : Id(m) = i /\ Accepted(m, run'[i])
    BY <1>5 DEF Settled
  <2> QED BY <1>1, <2>1 DEF Accepted
<1>6. NoMessageIsLost'
  BY <1>1 DEF Settled, NoMessageIsLost
<1> QED BY <1>3, <1>4, <1>5, <1>6 DEF Settled

\* A message is admitted only with everything the starter checks.
LEMMA AdmissionIsChecked ==
    ASSUME Typed, NEW m \in Messages, Admission(m) = "start"
    PROVE  Accepted(m, registry[Scope][Workflow].digest)
<1>1. PICK d \in Digests, p \in BOOLEAN : registry = Registered(d, p)
  BY DEF Typed, RegistryOK
<1>2. /\ Scope \in DOMAIN registry /\ Workflow \in DOMAIN registry[Scope]
      /\ registry[Scope][Workflow] = Registration(d, p)
  BY <1>1 DEF Registered
<1>3. /\ body[m].kind # "garbage" /\ body[m].scope = Scope
      /\ CloudEventRefusal(body[m].mapped) \notin {"refused", "retry"}
      /\ StartRefusal(registry, Request(m), Binding) = "none"
  BY DEF Admission
<1>4. CloudEventRefusal(body[m].mapped) = "none"
  BY <1>3 DEF CloudEventRefusal
<1>5. /\ Binding.kind = "broker" /\ Binding.scope = Scope /\ Request(m).workflow = Workflow
      /\ Request(m).digest = body[m].digest /\ Request(m).input = body[m].input
  BY DEF Binding, Request
<1>6. ResolveRegistration(registry, Scope, Workflow) = Registration(d, p)
  BY <1>2 DEF ResolveRegistration
<1>7. /\ ResolveRefusal(Registration(d, p), Request(m)) = "none"
      /\ InputRefusal(body[m].input) = "none"
  BY <1>3, <1>5, <1>6 DEF StartRefusal
<1>8. body[m].digest \in {AnyDigest, Registration(d, p).digest}
  BY <1>5, <1>7 DEF ResolveRefusal
<1> QED BY <1>2, <1>3, <1>4, <1>7, <1>8 DEF Accepted

LEMMA InitSettled == Init => Settled
<1> SUFFICES ASSUME Init PROVE Settled
  OBVIOUS
<1>1. ToSet(entries) = {}
  BY ToSetEmpty DEF Init
<1> QED BY <1>1 DEF Init, Settled, Earned, Idle, NoMessageIsLost

\* The loop and the environment have no effects of their own.
LEMMA QuietSettled ==
    ASSUME Typed, Settled, UNCHANGED <<lane, body, dead, effectVars>>,
           ToSet(entries') \subseteq ToSet(entries),
           \A m \in Messages :
              \/ task'[m] = task[m]
              \/ task'[m].phase \in {"idle", "received", "claimed"},
           \A m \in Messages : queue'[m].state = queue[m].state
    PROVE  Settled'
  BY SettledStays DEF effectVars

-----------------------------------------------------------------------------
(* The duplicate memory and its claims.                                    *)

\* Completed ids are distinct, no completed id is claimed, and there is room for both.
Room ==
    /\ IsFiniteSet(Claims)
    /\ Len(entries) + Cardinality(Claims) <= Capacity
    /\ ToSet(entries) \cap Claims = {}
    /\ \A j, k \in 1..Len(entries) : entries[j] = entries[k] => j = k

LEMMA RoomIsBounded == Typed /\ Room => MemoryIsBounded
<1> SUFFICES ASSUME Typed, Room PROVE MemoryIsBounded
  OBVIOUS
<1>1. entries \in Seq(Ids) /\ Len(entries) \in Nat
  BY DEF Typed, TypeOK
<1> DEFINE g == [k \in 1..Len(entries) |-> entries[k]]
<1>2. g \in Bijection(1..Len(entries), ToSet(entries))
  <2>1. ToSet(entries) = {entries[k] : k \in 1..Len(entries)}
    BY <1>1 DEF ToSet
  <2>2. g \in [1..Len(entries) -> ToSet(entries)]
    BY <2>1
  <2>3. \A j, k \in DOMAIN g : g[j] = g[k] => j = k
    BY DEF Room
  <2>4. \A e \in ToSet(entries) : \E k \in 1..Len(entries) : g[k] = e
    BY <2>1
  <2> HIDE DEF g
  <2> QED BY <2>2, <2>3, <2>4 DEF Bijection, Injection, Surjection, IsInjective
<1>3. IsFiniteSet(1..Len(entries)) /\ Cardinality(1..Len(entries)) = Len(entries)
  BY <1>1, FS_Interval
<1>4. Cardinality(ToSet(entries)) = Len(entries)
  BY <1>2, <1>3, FS_Bijection DEF ExistsBijection
<1> QED BY <1>4 DEF Room, MemoryIsBounded

LEMMA ClaimsAreCounted == Room => Cardinality(Claims) \in Nat
  BY FS_CardinalityType DEF Room

\* One claim more, one less, none.
LEMMA ClaimTaken ==
    ASSUME Typed, Room, NEW i \in Ids, NEW m \in Messages, pending[i] = Free,
           pending' = [pending EXCEPT ![i] = m]
    PROVE  /\ Claims' = Claims \cup {i} /\ i \notin Claims /\ IsFiniteSet(Claims')
           /\ Cardinality(Claims') = Cardinality(Claims) + 1
<1>1. m # Free
  BY DeliveryAssumption DEF Free
<1>2. Claims' = Claims \cup {i} /\ i \notin Claims
  BY <1>1 DEF Claims, Typed, TypeOK
<1> QED BY <1>2, FS_AddElement DEF Room

LEMMA ClaimFreed ==
    ASSUME Typed, Room, NEW i \in Ids, pending[i] # Free,
           pending' = [pending EXCEPT ![i] = Free]
    PROVE  /\ Claims' = Claims \ {i} /\ i \in Claims /\ IsFiniteSet(Claims')
           /\ Cardinality(Claims') = Cardinality(Claims) - 1
<1>1. Claims' = Claims \ {i} /\ i \in Claims
  BY DEF Claims, Typed, TypeOK
<1> QED BY <1>1, FS_RemoveElement DEF Room

LEMMA NoClaims ==
    ASSUME pending' = [i \in Ids |-> Free]
    PROVE  Claims' = {} /\ IsFiniteSet(Claims') /\ Cardinality(Claims') = 0
<1>1. Claims' = {}
  BY DEF Claims
<1> QED BY <1>1, FS_EmptySet

LEMMA RoomStays ==
    ASSUME Room, UNCHANGED dedupVars
    PROVE  Room'
  BY DEF Room, Claims, dedupVars

LEMMA RoomCleared ==
    ASSUME entries' = <<>>, pending' = [i \in Ids |-> Free]
    PROVE  Room'
  BY NoClaims, ToSetEmpty, DeliveryAssumption DEF Room

LEMMA TakesClaimRoom ==
    ASSUME Typed, Room, NEW m \in Messages, TakesClaim(m)
    PROVE  Room'
<1>1. /\ Claims' = Claims \cup {Id(m)} /\ Id(m) \notin Claims /\ IsFiniteSet(Claims')
      /\ Cardinality(Claims') = Cardinality(Claims) + 1
  BY ClaimTaken, IdsOfMessages DEF TakesClaim
<1>2. entries \in Seq(Ids) /\ Cardinality(Claims) \in Nat /\ Capacity \in Nat
  BY ClaimsAreCounted, DeliveryAssumption DEF Typed, TypeOK
<1>3. /\ entries' \in Seq(Ids)
      /\ Len(entries') <= Capacity - 1 - Cardinality(Claims)
      /\ \E d \in Nat : /\ Len(entries') + d <= Len(entries)
                        /\ \A k \in 1..Len(entries') : entries'[k] = entries[k + d]
      /\ ToSet(entries') \subseteq ToSet(entries)
  BY <1>2, EvictedKeeps DEF TakesClaim
<1>4. Len(entries') \in Nat /\ Len(entries) \in Nat
  BY <1>2, <1>3
<1>5. Len(entries') + Cardinality(Claims') <= Capacity
  BY <1>1, <1>2, <1>3, <1>4
<1>6. ToSet(entries') \cap Claims' = {}
  BY <1>1, <1>3 DEF Room, TakesClaim
<1>7. ASSUME NEW j \in 1..Len(entries'), NEW k \in 1..Len(entries'), entries'[j] = entries'[k]
      PROVE  j = k
  <2>1. PICK d \in Nat : /\ Len(entries') + d <= Len(entries)
                        /\ \A h \in 1..Len(entries') : entries'[h] = entries[h + d]
    BY <1>3
  <2>2. j + d \in 1..Len(entries) /\ k + d \in 1..Len(entries)
    BY <1>4, <2>1
  <2>3. entries[j + d] = entries[k + d]
    BY <1>7, <2>1
  <2>4. j + d = k + d
    BY <2>2, <2>3 DEF Room
  <2> QED BY <2>1, <2>4
<1> QED BY <1>1, <1>5, <1>6, <1>7 DEF Room

LEMMA CompleteClaimRoom ==
    ASSUME Typed, Room, NEW m \in Messages, CompleteClaim(m)
    PROVE  Room'
<1>1. CASE UNCHANGED dedupVars
  BY <1>1, RoomStays
<1>2. CASE ~UNCHANGED dedupVars
  <2>1. /\ pending[Id(m)] = m /\ m # Free /\ pending' = [pending EXCEPT ![Id(m)] = Free]
        /\ entries' = entries \/ entries' = Append(entries, Id(m))
    BY <1>2, DeliveryAssumption DEF CompleteClaim, HoldsClaim, Free
  <2>2. /\ Claims' = Claims \ {Id(m)} /\ Id(m) \in Claims /\ IsFiniteSet(Claims')
        /\ Cardinality(Claims') = Cardinality(Claims) - 1
    BY <2>1, ClaimFreed, IdsOfMessages
  <2>3. /\ entries \in Seq(Ids) /\ Cardinality(Claims) \in Nat /\ Capacity \in Nat
        /\ Len(entries) \in Nat /\ Id(m) \in Ids
    BY ClaimsAreCounted, DeliveryAssumption, IdsOfMessages DEF Typed, TypeOK
  <2>4. CASE entries' = entries
    BY <2>2, <2>3, <2>4 DEF Room
  <2>5. CASE entries' = Append(entries, Id(m))
    <3>1. /\ Len(entries') = Len(entries) + 1
          /\ \A k \in 1..Len(entries) : entries'[k] = entries[k]
          /\ entries'[Len(entries) + 1] = Id(m)
      BY <2>3, <2>5
    <3>2. ToSet(entries') = ToSet(entries) \cup {Id(m)}
      BY <2>3, <2>5, ToSetAppend
    <3>3. \A k \in 1..Len(entries) : entries[k] # Id(m)
      BY <2>2, <2>3 DEF Room, ToSet
    <3>4. \A j, k \in 1..Len(entries') : entries'[j] = entries'[k] => j = k
      <4>1. \A k \in 1..Len(entries') : k \in 1..Len(entries) \/ k = Len(entries) + 1
        BY <2>3, <3>1
      <4> QED BY <3>1, <3>3, <4>1 DEF Room
    <3>5. Len(entries') + Cardinality(Claims') <= Capacity
      BY <2>2, <2>3, <3>1 DEF Room
    <3> QED BY <2>2, <3>2, <3>4, <3>5 DEF Room
  <2> QED BY <2>1, <2>4, <2>5
<1> QED BY <1>1, <1>2

LEMMA ExpireRoom ==
    ASSUME Typed, Room, Expire
    PROVE  Room'
<1>1. entries \in Seq(Ids) /\ entries # <<>> /\ entries' = Tail(entries) /\ Claims' = Claims
  BY DEF Expire, Typed, TypeOK, Claims
<1>2. /\ Len(entries') = Len(entries) - 1 /\ ToSet(entries') \subseteq ToSet(entries)
      /\ \A k \in 1..Len(entries') : entries'[k] = entries[k + 1]
  BY <1>1, ToSetTail
<1>3. Len(entries) \in Nat /\ Cardinality(Claims) \in Nat /\ Capacity \in Nat
  BY <1>1, ClaimsAreCounted, DeliveryAssumption
<1>4. ASSUME NEW j \in 1..Len(entries'), NEW k \in 1..Len(entries'), entries'[j] = entries'[k]
      PROVE  j = k
  <2>1. j + 1 \in 1..Len(entries) /\ k + 1 \in 1..Len(entries)
    BY <1>2, <1>3
  <2>2. j + 1 = k + 1
    BY <1>2, <1>4, <2>1 DEF Room
  <2> QED BY <2>2
<1>5. Len(entries') + Cardinality(Claims') <= Capacity
  BY <1>1, <1>2, <1>3 DEF Room
<1> QED BY <1>1, <1>2, <1>4, <1>5 DEF Room

\* stop dropped the claim that this handler works under.
Stale(m) == task[m].phase = "claimed" /\ task[m].stale

\* A claim that was dropped stays dropped, and only one per id was.
StaleIsLost ==
    /\ \A m \in Messages : Stale(m) => ~running /\ pending[Id(m)] # m
    /\ \A m, n \in Messages : Stale(m) /\ Stale(n) /\ Id(m) = Id(n) => m = n

\* The memory knows of the last delivery for i, or will once its handler completes.
Remembered(i) ==
    \/ i \in ToSet(entries)
    \/ \E m \in Messages : /\ task[m].phase = "delivered" /\ task[m].outcome = "ack"
                           /\ Id(m) = i /\ pending[i] = m

\* A handler whose claim was dropped may still deliver for i.
Loose(i) == \E m \in Messages : Stale(m) /\ Id(m) = i

Late(i)  == IF Loose(i) THEN 1 ELSE 0
Known(i) == IF Remembered(i) THEN 1 ELSE 0

Counted ==
    lane = "response" =>
        \A i \in Ids : landed[i] + Late(i) <= excuse[i] + Known(i)

Memory == Room /\ ClaimIsKept /\ StaleIsLost /\ Counted

LEMMA MemoryHolds == Typed /\ Memory => DuplicateMemoryHolds
<1> SUFFICES ASSUME Typed, Memory PROVE DuplicateMemoryHolds
  OBVIOUS
<1>1. OneSignalPerRememberedId
  <2> SUFFICES ASSUME lane = "response", NEW i \in Ids PROVE landed[i] <= 1 + excuse[i]
    BY DEF OneSignalPerRememberedId
  <2>1. landed[i] \in Nat /\ excuse[i] \in Nat /\ Late(i) \in {0, 1} /\ Known(i) \in {0, 1}
    BY DEF Typed, TypeOK, Late, Known
  <2>2. landed[i] + Late(i) <= excuse[i] + Known(i)
    BY DEF Memory, Counted
  <2> QED BY <2>1, <2>2
<1> QED BY <1>1, RoomIsBounded DEF Memory, DuplicateMemoryHolds

\* A step that touches neither the memory nor a claimed or delivered message.
LEMMA MemoryStays ==
    ASSUME Typed, Memory, UNCHANGED <<lane, body, dedupVars, excuse>>,
           running' => running, lane = "response" => UNCHANGED landed,
           \A m \in Messages :
              \/ task'[m] = task[m]
              \/ /\ task[m].phase \notin {"claimed", "delivered"}
                 /\ task'[m].phase \notin {"claimed", "delivered"}
    PROVE  Memory'
<1>1. \A m \in Messages : Id(m)' = Id(m)
  BY DEF Id
<1>2. \A m \in Messages : Stale(m)' = Stale(m)
  BY DEF Stale
<1>3. ClaimIsKept'
  BY <1>1 DEF Memory, ClaimIsKept, dedupVars
<1>4. StaleIsLost'
  BY <1>1, <1>2 DEF Memory, StaleIsLost, dedupVars, Stale
<1>5. \A i \in Ids : (Loose(i)' <=> Loose(i)) /\ (Remembered(i)' <=> Remembered(i))
  BY <1>1, <1>2 DEF Loose, Remembered, dedupVars, Stale
<1>6. Counted'
  BY <1>5 DEF Memory, Counted, Late, Known
<1> QED BY <1>3, <1>4, <1>6, RoomStays DEF Memory

LEMMA TakesClaimMemory ==
    ASSUME Typed, Memory, NEW m \in Messages, ClaimResponse(m), TakesClaim(m)
    PROVE  Memory'
<1>1. \A n \in Messages : Id(n)' = Id(n) /\ Id(n) \in Ids
  BY IdsOfMessages DEF Id, ClaimResponse, fixedVars
<1>2. /\ task[m].phase = "received" /\ running' = running /\ lane' = lane /\ landed' = landed
      /\ pending[Id(m)] = Free /\ pending' = [pending EXCEPT ![Id(m)] = m]
      /\ task'[m].phase = "claimed" /\ ~task'[m].stale /\ m # Free
      /\ \A n \in Messages \ {m} : task'[n] = task[n]
      /\ \A i \in Ids \ {Id(m)} : pending'[i] = pending[i]
      /\ pending'[Id(m)] = m
  BY <1>1, DeliveryAssumption
     DEF ClaimResponse, TakesClaim, fixedVars, effectVars, loopVars, Typed, TypeOK, Free
<1>3. ClaimIsKept'
  BY <1>1, <1>2, DeliveryAssumption DEF Memory, ClaimIsKept, Free
<1>4. \A n \in Messages : Stale(n)' <=> Stale(n)
  BY <1>2 DEF Stale
<1>5. StaleIsLost'
  BY <1>1, <1>2, <1>4 DEF Memory, StaleIsLost, Stale
<1>6. ASSUME NEW i \in Ids
      PROVE  /\ Loose(i)' <=> Loose(i)
             /\ Remembered(i) /\ ~Remembered(i)' => excuse'[i] = excuse[i] + 1
             /\ excuse'[i] >= excuse[i]
  <2>1. Loose(i)' <=> Loose(i)
    BY <1>1, <1>4 DEF Loose
  <2>2. /\ excuse'[i] = IF i \in ToSet(entries) \ ToSet(entries')
                        THEN excuse[i] + 1 ELSE excuse[i]
        /\ excuse[i] \in Nat
    BY ForgottenTyped DEF TakesClaim, Typed, TypeOK
  <2>3. ASSUME NEW n \in Messages, task[n].phase = "delivered", task[n].outcome = "ack",
               Id(n) = i, pending[i] = n
        PROVE  Remembered(i)'
    BY <1>1, <1>2, <2>3, DeliveryAssumption DEF Remembered, Free
  <2>4. Remembered(i) /\ ~Remembered(i)' => i \in ToSet(entries) \ ToSet(entries')
    BY <2>3 DEF Remembered
  <2> QED BY <2>1, <2>2, <2>4
<1>7. Counted'
  <2> SUFFICES ASSUME lane = "response", NEW i \in Ids
               PROVE  landed'[i] + Late(i)' <= excuse'[i] + Known(i)'
    BY <1>2 DEF Counted
  <2>1. landed[i] + Late(i) <= excuse[i] + Known(i)
    BY DEF Memory, Counted
  <2>2. /\ landed[i] \in Nat /\ excuse[i] \in Nat /\ excuse'[i] \in Nat
        /\ Late(i)' = Late(i) /\ Late(i) \in {0, 1}
        /\ Known(i) \in {0, 1} /\ Known(i)' \in {0, 1}
        /\ Known(i) = 1 /\ Known(i)' = 0 => excuse'[i] = excuse[i] + 1
        /\ excuse'[i] >= excuse[i] /\ landed'[i] = landed[i]
    BY <1>2, <1>6, ForgottenTyped DEF Late, Known, Typed, TypeOK, TakesClaim
  <2> QED BY <2>1, <2>2
<1> QED BY <1>3, <1>5, <1>7, TakesClaimRoom DEF Memory

LEMMA DeliverMemory ==
    ASSUME Typed, Memory, NEW m \in Messages, Deliver(m)
    PROVE  Memory'
<1>1. \A n \in Messages : Id(n)' = Id(n) /\ Id(n) \in Ids
  BY IdsOfMessages DEF Id, Deliver, fixedVars
<1>2. PICK o \in Outcomes : Delivers(m, o)
  BY DeliverMoves
<1>3. /\ task[m].phase = "claimed" /\ running' = running /\ lane' = lane
      /\ UNCHANGED dedupVars /\ pending' = pending /\ entries' = entries
      /\ task'[m].phase = "delivered" /\ task'[m].outcome = o
      /\ \A n \in Messages \ {m} : task'[n] = task[n]
  BY <1>2 DEF Deliver, Delivers, fixedVars, dedupVars, loopVars, Typed, TypeOK
<1>4. ClaimIsKept'
  BY <1>1, <1>3 DEF Memory, ClaimIsKept
<1>5. \A n \in Messages : Stale(n)' <=> Stale(n) /\ n # m
  BY <1>3 DEF Stale
<1>6. StaleIsLost'
  BY <1>1, <1>3, <1>5 DEF Memory, StaleIsLost, Stale
<1>7. ASSUME NEW i \in Ids, i # Id(m)
      PROVE  /\ Loose(i)' <=> Loose(i)
             /\ Remembered(i)' <=> Remembered(i)
             /\ landed'[i] = landed[i] /\ excuse'[i] = excuse[i]
  <2>1. landed'[i] = landed[i] /\ excuse'[i] = excuse[i]
    BY <1>1, <1>2, <1>7, ForgottenTyped DEF Delivers, Typed, TypeOK
  <2> QED BY <1>1, <1>3, <1>5, <1>7, <2>1 DEF Loose, Remembered
<1>8. ASSUME NEW i \in Ids, i = Id(m)
      PROVE  /\ Stale(m) => Loose(i) /\ ~Loose(i)'
             /\ Loose(i)' => Loose(i)
             /\ Remembered(i) => Remembered(i)'
             /\ ~Stale(m) => ~Remembered(i) /\ (o = "ack" => Remembered(i)')
  <2>1. Stale(m) => Loose(i) /\ ~Loose(i)'
    BY <1>1, <1>5, <1>8 DEF Loose, Memory, StaleIsLost
  <2>2. Loose(i)' => Loose(i)
    BY <1>1, <1>5 DEF Loose
  <2>3. Remembered(i) => Remembered(i)'
    BY <1>1, <1>3 DEF Remembered
  <2>4. ~Stale(m) => pending[i] = m /\ m # Free
    BY <1>3, <1>8, DeliveryAssumption DEF Stale, Memory, ClaimIsKept, Free
  <2>5. ~Stale(m) => ~Remembered(i)
    BY <1>1, <1>3, <2>4 DEF Remembered, Memory, Room, Claims
  <2>6. ~Stale(m) /\ o = "ack" => Remembered(i)'
    BY <1>1, <1>3, <1>8, <2>4 DEF Remembered
  <2> QED BY <2>1, <2>2, <2>3, <2>5, <2>6
<1>9. LET i == Id(m)
      IN  /\ landed[i] \in Nat /\ excuse[i] \in Nat
          /\ \/ landed'[i] = landed[i] /\ excuse'[i] = excuse[i]
             \/ landed'[i] = landed[i] + 1 /\ o = "ack" /\ excuse'[i] = excuse[i]
             \/ landed'[i] = landed[i] + 1 /\ excuse'[i] = excuse[i] + 1
  BY <1>1, <1>2, ForgottenTyped DEF Delivers, Typed, TypeOK
<1>10. Counted'
  <2> SUFFICES ASSUME lane = "response", NEW i \in Ids
               PROVE  landed'[i] + Late(i)' <= excuse'[i] + Known(i)'
    BY <1>3 DEF Counted
  <2>1. landed[i] + Late(i) <= excuse[i] + Known(i)
    BY DEF Memory, Counted
  <2>2. CASE i # Id(m)
    BY <1>7, <2>1, <2>2 DEF Late, Known
  <2>3. CASE i = Id(m)
    <3>1. /\ Late(i) \in {0, 1} /\ Late(i)' \in {0, 1}
          /\ Known(i) \in {0, 1} /\ Known(i)' \in {0, 1}
      BY DEF Late, Known
    <3>2. Late(i)' <= Late(i) /\ Known(i) <= Known(i)'
      BY <1>8, <2>3 DEF Late, Known
    <3>3. CASE Stale(m)
      <4>1. Late(i) = 1 /\ Late(i)' = 0
        BY <1>8, <2>3, <3>3 DEF Late
      <4> QED BY <1>9, <2>1, <2>3, <3>1, <3>2, <4>1
    <3>4. CASE ~Stale(m)
      <4>1. Known(i) = 0 /\ (o = "ack" => Known(i)' = 1)
        BY <1>8, <2>3, <3>4 DEF Known
      <4> QED BY <1>9, <2>1, <2>3, <3>1, <3>2, <4>1
    <3> QED BY <3>3, <3>4
  <2> QED BY <2>2, <2>3
<1> QED BY <1>3, <1>4, <1>6, <1>10, RoomStays DEF Memory

LEMMA CompleteClaimMemory ==
    ASSUME Typed, Memory, NEW m \in Messages, CompleteClaim(m)
    PROVE  Memory'
<1>1. \A n \in Messages : Id(n)' = Id(n) /\ Id(n) \in Ids
  BY IdsOfMessages DEF Id, CompleteClaim, fixedVars
<1>2. /\ task[m].phase = "delivered" /\ running' = running /\ lane' = lane
      /\ landed' = landed /\ excuse' = excuse /\ task'[m].phase = "settle"
      /\ \A n \in Messages \ {m} : task'[n] = task[n]
  BY DEF CompleteClaim, Settling, SetTask, fixedVars, effectVars, loopVars, Typed, TypeOK
<1>3. /\ \A i \in Ids : pending'[i] = pending[i] \/ (pending[i] = m /\ pending'[i] = Free)
      /\ ToSet(entries) \subseteq ToSet(entries')
      /\ pending[Id(m)] = m /\ task[m].outcome = "ack" => Id(m) \in ToSet(entries')
  <2>1. entries \in Seq(Ids)
    BY DEF Typed, TypeOK
  <2> QED
    <3>1. pending \in [Ids -> Messages \cup {Free}] /\ Id(m) \in Ids
      BY <1>1 DEF Typed, TypeOK
    <3>2. ToSet(Append(entries, Id(m))) = ToSet(entries) \cup {Id(m)}
      BY <2>1, <3>1, ToSetAppend
    <3>3. CASE HoldsClaim(m)
      BY <3>1, <3>2, <3>3 DEF CompleteClaim, HoldsClaim
    <3>4. CASE ~HoldsClaim(m)
      BY <3>4 DEF CompleteClaim, HoldsClaim, dedupVars
    <3> QED BY <3>3, <3>4
<1>4. m # Free
  BY DeliveryAssumption DEF Free
<1>5. ClaimIsKept'
  BY <1>1, <1>2, <1>3 DEF Memory, ClaimIsKept
<1>6. \A n \in Messages : Stale(n)' <=> Stale(n)
  BY <1>2 DEF Stale
<1>7. StaleIsLost'
  BY <1>1, <1>2, <1>3, <1>6, DeliveryAssumption DEF Memory, StaleIsLost, Stale, Free
<1>8. ASSUME NEW i \in Ids PROVE (Loose(i)' <=> Loose(i)) /\ (Remembered(i) => Remembered(i)')
  <2>1. Loose(i)' <=> Loose(i)
    BY <1>1, <1>6 DEF Loose
  <2>2. ASSUME NEW n \in Messages, task[n].phase = "delivered", task[n].outcome = "ack",
               Id(n) = i, pending[i] = n
        PROVE  Remembered(i)'
    BY <1>1, <1>2, <1>3, <2>2 DEF Remembered
  <2> QED BY <1>3, <2>1, <2>2 DEF Remembered
<1>9. Counted'
  <2> SUFFICES ASSUME lane = "response", NEW i \in Ids
               PROVE  landed'[i] + Late(i)' <= excuse'[i] + Known(i)'
    BY <1>2 DEF Counted
  <2>1. landed[i] + Late(i) <= excuse[i] + Known(i)
    BY DEF Memory, Counted
  <2>2. /\ landed[i] \in Nat /\ excuse[i] \in Nat /\ Late(i)' = Late(i) /\ Late(i) \in {0, 1}
        /\ Known(i) \in {0, 1} /\ Known(i)' \in {0, 1} /\ Known(i) <= Known(i)'
    BY <1>8 DEF Late, Known, Typed, TypeOK
  <2> QED BY <1>2, <2>1, <2>2
<1> QED BY <1>5, <1>7, <1>9, CompleteClaimRoom DEF Memory

LEMMA ExpireMemory ==
    ASSUME Typed, Memory, Expire
    PROVE  Memory'
<1>1. \A n \in Messages : Id(n)' = Id(n)
  BY DEF Id, Expire, fixedVars
<1>2. /\ task' = task /\ pending' = pending /\ running' = running /\ lane' = lane
      /\ landed' = landed /\ Forgotten({Head(entries)})
      /\ ToSet(entries) = ToSet(entries') \cup {Head(entries)}
  BY ToSetTail DEF Expire, fixedVars, effectVars, loopVars, Typed, TypeOK
<1>3. ClaimIsKept' /\ StaleIsLost'
  BY <1>1, <1>2 DEF Memory, ClaimIsKept, StaleIsLost, Stale
<1>4. ASSUME NEW i \in Ids
      PROVE  (Loose(i)' <=> Loose(i)) /\ (Remembered(i) => i = Head(entries) \/ Remembered(i)')
  BY <1>1, <1>2 DEF Loose, Stale, Remembered
<1>5. Counted'
  <2> SUFFICES ASSUME lane = "response", NEW i \in Ids
               PROVE  landed'[i] + Late(i)' <= excuse'[i] + Known(i)'
    BY <1>2 DEF Counted
  <2>1. landed[i] + Late(i) <= excuse[i] + Known(i)
    BY DEF Memory, Counted
  <2>2. /\ landed[i] \in Nat /\ excuse[i] \in Nat /\ Late(i)' = Late(i) /\ Late(i) \in {0, 1}
        /\ Known(i) \in {0, 1} /\ Known(i)' \in {0, 1}
        /\ Known(i) <= Known(i)' \/ i = Head(entries)
        /\ excuse'[i] = IF i = Head(entries) THEN excuse[i] + 1 ELSE excuse[i]
    BY <1>2, <1>4, ForgottenTyped DEF Late, Known, Typed, TypeOK
  <2> QED BY <1>2, <2>1, <2>2
<1> QED BY <1>3, <1>5, ExpireRoom DEF Memory

\* stop and restart forget everything: every claim and every entry is accounted for.
LEMMA ClearedMemory ==
    ASSUME Typed, Memory, UNCHANGED <<lane, body, landed>>,
           entries' = <<>>, pending' = [i \in Ids |-> Free],
           Forgotten(ToSet(entries) \cup Claims),
           \/ \A m \in Messages : task'[m].phase = "idle"
           \/ /\ running /\ ~running'
              /\ \A m \in Messages :
                   /\ task'[m].phase = task[m].phase
                   /\ task[m].phase = "claimed" => task'[m].stale
    PROVE  Memory'
<1>1. \A n \in Messages : Id(n)' = Id(n) /\ Id(n) \in Ids /\ n # Free
  BY IdsOfMessages, DeliveryAssumption DEF Id, Free
<1>2. ClaimIsKept'
  BY DEF ClaimIsKept
<1>3. ASSUME NEW m \in Messages, Stale(m)'
      PROVE  /\ running /\ ~running' /\ task[m].phase = "claimed" /\ ~task[m].stale
             /\ pending[Id(m)] = m /\ Id(m) \in Claims
  <2>1. running /\ ~running' /\ task[m].phase = "claimed"
    BY <1>3 DEF Stale
  <2>2. ~task[m].stale
    BY <2>1 DEF Memory, StaleIsLost, Stale
  <2> QED BY <1>1, <2>1, <2>2 DEF Memory, ClaimIsKept, Claims
<1>4. StaleIsLost'
  BY <1>1, <1>3 DEF StaleIsLost
<1>5. ASSUME NEW i \in Ids
      PROVE  /\ Loose(i)' => i \in Claims /\ ~Remembered(i)
             /\ Remembered(i) => i \in ToSet(entries) \cup Claims
  <2>1. ASSUME NEW m \in Messages, Stale(m)', Id(m) = i PROVE i \in Claims /\ ~Remembered(i)
    BY <1>3, <2>1 DEF Remembered, Memory, Room
  <2>2. Loose(i)' => i \in Claims /\ ~Remembered(i)
    BY <1>1, <2>1 DEF Loose
  <2>3. Remembered(i) => i \in ToSet(entries) \cup Claims
    BY <1>1 DEF Remembered, Claims
  <2> QED BY <2>2, <2>3
<1>6. Counted'
  <2> SUFFICES ASSUME lane = "response", NEW i \in Ids
               PROVE  landed'[i] + Late(i)' <= excuse'[i] + Known(i)'
    BY DEF Counted
  <2>1. landed[i] + Late(i) <= excuse[i] + Known(i)
    BY DEF Memory, Counted
  <2>2. /\ landed[i] \in Nat /\ excuse[i] \in Nat /\ Late(i)' \in {0, 1} /\ Late(i) \in {0, 1}
        /\ Known(i) \in {0, 1} /\ Known(i)' \in {0, 1}
        /\ excuse'[i] = IF i \in ToSet(entries) \cup Claims THEN excuse[i] + 1 ELSE excuse[i]
        /\ Late(i)' = 1 => i \in ToSet(entries) \cup Claims /\ Known(i) = 0
        /\ Known(i) = 1 => i \in ToSet(entries) \cup Claims
    BY <1>5, ForgottenTyped DEF Late, Known, Typed, TypeOK
  <2>3. CASE i \in ToSet(entries) \cup Claims
    BY <2>1, <2>2, <2>3
  <2>4. CASE i \notin ToSet(entries) \cup Claims
    BY <2>1, <2>2, <2>4
  <2> QED BY <2>3, <2>4
<1> QED BY <1>2, <1>4, <1>6, RoomCleared DEF Memory

-----------------------------------------------------------------------------
(* The steps together.                                                     *)

Inv == Typed /\ Settled /\ Memory

LEMMA InitMemory == Init => Memory
<1> SUFFICES ASSUME Init PROVE Memory
  OBVIOUS
<1>1. entries = <<>> /\ pending = [i \in Ids |-> Free] /\ ToSet(entries) = {}
  BY ToSetEmpty DEF Init
<1>2. Claims = {}
  BY <1>1 DEF Claims
<1>3. Room
  BY <1>1, <1>2, FS_EmptySet, DeliveryAssumption DEF Room
<1>4. \A m \in Messages : task[m].phase = "idle"
  BY DEF Init, Idle
<1> QED
  BY <1>1, <1>3, <1>4
     DEF Init, Memory, ClaimIsKept, StaleIsLost, Stale, Counted, Late, Known, Loose, Remembered

LEMMA AdmitTriggerInv ==
    ASSUME Inv, NEW m \in Messages, AdmitTrigger(m)
    PROVE  Inv'
<1>1. /\ task[m].phase = "received" /\ \A n \in Messages \ {m} : task'[n] = task[n]
      /\ \/ /\ task'[m].phase = "settle" /\ task'[m].outcome # "ack"
         \/ /\ Admission(m) = "start" /\ task'[m].phase = "starting"
            /\ task'[m].digest = registry[Scope][Workflow].digest
         \/ task'[m].phase = "idle"
  BY DEF AdmitTrigger, SetTask, Settling, Admission, Idle, Inv, Typed, TypeOK
<1>2. lane = "trigger" /\ UNCHANGED <<lane, body, queue, dead, dedupVars, excuse, landed, run>>
      /\ running' = running /\ entries' = entries
  BY DEF AdmitTrigger, fixedVars, queueVars, effectVars, loopVars, dedupVars
<1>3. Settled'
  BY <1>1, <1>2, AdmissionIsChecked, SettledStays DEF Inv
<1>4. Memory'
  BY <1>1, <1>2, MemoryStays DEF Inv
<1> QED BY <1>3, <1>4, AdmitTriggerMoves DEF Inv

LEMMA StartWorkflowInv ==
    ASSUME Inv, NEW m \in Messages, StartWorkflow(m)
    PROVE  Inv'
<1>1. /\ task[m].phase = "starting" /\ \A n \in Messages \ {m} : task'[n] = task[n]
      /\ task'[m].phase = "settle" /\ task'[m].outcome \in Outcomes
      /\ task'[m].outcome = "ack" => landed'[Id(m)] > 0
      /\ \A i \in Ids : landed[i] > 0 => landed'[i] > 0
      /\ \A i \in Ids : \/ run'[i] = run[i]
                        \/ i = Id(m) /\ landed'[i] > 0 /\ run'[i] = task[m].digest
  <2>1. Id(m) \in Ids /\ (run[Id(m)] # "none" => landed[Id(m)] > 0)
    BY IdsOfMessages DEF Inv, Settled
  <2> QED
    <3>1. /\ task \in [Messages -> Handlers] /\ landed \in [Ids -> Nat]
          /\ run \in [Ids -> Digests \cup {"none"}]
      BY DEF Inv, Typed, TypeOK
    <3>2. /\ task[m].phase = "starting"
          /\ \E o \in Outcomes :
               /\ task' = [task EXCEPT ![m] = Settling(m, o)]
               /\ \/ /\ run' = [run EXCEPT ![Id(m)] = task[m].digest]
                     /\ landed' = [landed EXCEPT ![Id(m)] = 1]
                  \/ /\ run' = run /\ landed' = landed
                     /\ o = "ack" => run[Id(m)] # "none"
      BY DEF StartWorkflow, SetTask, effectVars, Outcomes
    <3>3. PICK o \in Outcomes :
               /\ task' = [task EXCEPT ![m] = Settling(m, o)]
               /\ \/ /\ run' = [run EXCEPT ![Id(m)] = task[m].digest]
                     /\ landed' = [landed EXCEPT ![Id(m)] = 1]
                  \/ /\ run' = run /\ landed' = landed
                     /\ o = "ack" => run[Id(m)] # "none"
      BY <3>2
    <3>4. /\ task'[m].phase = "settle" /\ task'[m].outcome = o
          /\ \A n \in Messages \ {m} : task'[n] = task[n]
      BY <3>1, <3>3 DEF Settling
    <3> QED BY <2>1, <3>1, <3>2, <3>3, <3>4
<1>2. Accepted(m, task[m].digest) /\ lane = "trigger"
  BY <1>1 DEF Inv, Settled, Earned
<1>3. /\ UNCHANGED <<lane, body, queue, dead, dedupVars, excuse>> /\ running' = running
      /\ entries' = entries
  BY DEF StartWorkflow, fixedVars, queueVars, loopVars, dedupVars
<1>4. Settled'
  BY <1>1, <1>2, <1>3, SettledStays DEF Inv
<1>5. Memory'
  BY <1>1, <1>2, <1>3, MemoryStays DEF Inv
<1> QED BY <1>4, <1>5, StartWorkflowMoves DEF Inv

LEMMA ClaimResponseInv ==
    ASSUME Inv, NEW m \in Messages, ClaimResponse(m)
    PROVE  Inv'
<1>1. Cardinality(Claims) \in Nat
  BY ClaimsAreCounted DEF Inv, Memory
<1>2. /\ UNCHANGED <<lane, body, queue, dead, landed, run>> /\ running' = running
      /\ task[m].phase = "received"
  BY DEF ClaimResponse, fixedVars, queueVars, effectVars, loopVars
<1>3. CASE TakesClaim(m)
  <2>1. ToSet(entries') \subseteq ToSet(entries)
    BY <1>1, <1>3, EvictedKeeps DEF TakesClaim, Inv, Typed, TypeOK
  <2>2. task'[m].phase = "claimed" /\ \A n \in Messages \ {m} : task'[n] = task[n]
    BY <1>3 DEF TakesClaim, Inv, Typed, TypeOK
  <2>3. Settled'
    BY <1>2, <2>1, <2>2, SettledStays DEF Inv
  <2> QED BY <1>1, <1>3, <2>3, TakesClaimMemory, ClaimResponseMoves DEF Inv
<1>4. CASE \E o \in Outcomes : LeavesMemory(m, o)
  <2>1. PICK o \in Outcomes : LeavesMemory(m, o)
    BY <1>4
  <2>2. /\ task'[m].phase = "settle" /\ task'[m].outcome = o
        /\ \A n \in Messages \ {m} : task'[n] = task[n]
        /\ entries' = entries /\ UNCHANGED <<dedupVars, excuse>>
        /\ o = "ack" => Id(m) \in ToSet(entries)
    BY <2>1 DEF LeavesMemory, Settling, dedupVars, Inv, Typed, TypeOK
  <2>3. Settled'
    BY <1>2, <2>2, SettledStays DEF Inv, Settled
  <2>4. Memory'
    BY <1>2, <2>2, MemoryStays DEF Inv
  <2> QED BY <1>1, <2>3, <2>4, ClaimResponseMoves DEF Inv
<1>5. CASE LeavesMessage(m)
  <2>1. /\ task'[m].phase = "idle" /\ \A n \in Messages \ {m} : task'[n] = task[n]
        /\ entries' = entries /\ UNCHANGED <<dedupVars, excuse>>
    BY <1>5 DEF LeavesMessage, Idle, dedupVars, Inv, Typed, TypeOK
  <2>2. Settled'
    BY <1>2, <2>1, SettledStays DEF Inv, Settled
  <2>3. Memory'
    BY <1>2, <2>1, MemoryStays DEF Inv
  <2> QED BY <1>1, <2>2, <2>3, ClaimResponseMoves DEF Inv
<1> QED BY <1>1, <1>3, <1>4, <1>5, ClaimKinds DEF Inv

LEMMA DeliverInv ==
    ASSUME Inv, NEW m \in Messages, Deliver(m)
    PROVE  Inv'
<1>1. PICK o \in Outcomes : Delivers(m, o)
  BY DeliverMoves DEF Inv
<1>2. /\ UNCHANGED <<lane, body, queue, dead, run>> /\ entries' = entries
      /\ task'[m].phase = "delivered" /\ task'[m].outcome = o
      /\ \A n \in Messages \ {m} : task'[n] = task[n]
  BY <1>1
     DEF Deliver, Delivers, fixedVars, queueVars, dedupVars, Inv, Typed, TypeOK
<1>3. /\ \A i \in Ids : landed[i] > 0 => landed'[i] > 0
      /\ o = "ack" => landed'[Id(m)] > 0
  <2>1. landed \in [Ids -> Nat] /\ Id(m) \in Ids
    BY IdsOfMessages DEF Inv, Typed, TypeOK
  <2>2. landed' = landed \/ landed' = [landed EXCEPT ![Id(m)] = @ + 1]
    BY <1>1 DEF Delivers
  <2>3. o = "ack" => landed' = [landed EXCEPT ![Id(m)] = @ + 1]
    BY <1>1 DEF Delivers
  <2> QED BY <2>1, <2>2, <2>3
<1>4. Settled'
  BY <1>2, <1>3, SettledStays DEF Inv
<1> QED BY <1>4, DeliverMemory, DeliverMoves DEF Inv

LEMMA CompleteClaimInv ==
    ASSUME Inv, NEW m \in Messages, CompleteClaim(m)
    PROVE  Inv'
<1>1. /\ UNCHANGED <<lane, body, queue, dead, landed, run>>
      /\ task[m].phase = "delivered" /\ task'[m].phase = "settle"
      /\ task'[m].outcome = task[m].outcome
      /\ \A n \in Messages \ {m} : task'[n] = task[n]
  BY DEF CompleteClaim, SetTask, Settling, fixedVars, queueVars, effectVars, Inv, Typed, TypeOK
<1>2. \/ entries' = entries
      \/ entries' = Append(entries, Id(m)) /\ task[m].outcome = "ack"
  BY DEF CompleteClaim, dedupVars
<1>3. task[m].outcome = "ack" => landed[Id(m)] > 0
  BY <1>1 DEF Inv, Settled, Earned
<1>4. \A i \in ToSet(entries') : i \in ToSet(entries) \/ landed'[i] > 0
  <2>1. ToSet(Append(entries, Id(m))) = ToSet(entries) \cup {Id(m)}
    BY ToSetAppend, IdsOfMessages DEF Inv, Typed, TypeOK
  <2> QED BY <1>1, <1>2, <1>3, <2>1
<1>5. Settled'
  BY <1>1, <1>3, <1>4, SettledStays DEF Inv
<1> QED BY <1>5, CompleteClaimMemory, CompleteClaimMoves DEF Inv

LEMMA SettleInv ==
    ASSUME Inv, NEW m \in Messages,
           SettleAck(m) \/ SettleDeadLetter(m) \/ DeleteDeadLettered(m) \/ SettleRetry(m)
    PROVE  Inv'
<1>1. /\ UNCHANGED <<lane, body, dedupVars, excuse, landed, run>> /\ running' = running
      /\ entries' = entries
  BY DEF SettleAck, SettleDeadLetter, DeleteDeadLettered, SettleRetry, fixedVars, effectVars,
         dedupVars, loopVars
<1>2. \A n \in Messages : dead[n] > 0 => dead'[n] > 0
  <2>1. dead \in [Messages -> Nat]
    BY DEF Inv, Typed, TypeOK
  <2>2. dead' = dead \/ dead' = [dead EXCEPT ![m] = @ + 1]
    BY DEF SettleAck, SettleDeadLetter, DeleteDeadLettered, SettleRetry, queueVars
  <2> QED BY <2>1, <2>2
<1>3. /\ task[m].phase \notin {"claimed", "delivered"}
      /\ \A n \in Messages \ {m} : task'[n] = task[n]
      /\ \/ task'[m].phase = "idle"
         \/ task'[m].phase = "deadlettered" /\ dead'[m] > 0
  <2>1. CASE SettleDeadLetter(m)
    <3>1. task[m].phase = "settle" /\ task[m] \in Handlers
      BY <2>1, AtWork DEF SettleDeadLetter, Inv
    <3>2. [task[m] EXCEPT !.phase = "deadlettered"].phase = "deadlettered"
      BY <3>1, HandlersChanged
    <3>3. task \in [Messages -> Handlers] /\ dead \in [Messages -> Nat]
      BY DEF Inv, Typed, TypeOK
    <3>4. CASE task' = [task EXCEPT ![m] = Idle]
      BY <3>1, <3>3, <3>4 DEF Idle
    <3>5. CASE /\ task' = [task EXCEPT ![m] = [task[m] EXCEPT !.phase = "deadlettered"]]
               /\ dead' = [dead EXCEPT ![m] = @ + 1]
      BY <3>1, <3>2, <3>3, <3>5
    <3> QED BY <2>1, <3>4, <3>5 DEF SettleDeadLetter, Done, SetTask
  <2>2. CASE ~SettleDeadLetter(m)
    BY <2>2 DEF SettleAck, DeleteDeadLettered, SettleRetry, Delete, Done, SetTask, Idle, Inv,
       Typed, TypeOK
  <2> QED BY <2>1, <2>2
<1>4. \A n \in Messages : queue'[n].state = "gone" =>
         queue[n].state = "gone" \/ landed'[Id(n)] > 0 \/ dead'[n] > 0
  <2>1. CASE SettleAck(m)
    <3>1. landed[Id(m)] > 0
      BY <2>1 DEF SettleAck, Inv, Settled, Earned
    <3>2. \A n \in Messages \ {m} : queue'[n] = queue[n]
      BY <2>1, DeleteMoves DEF SettleAck, Inv
    <3> QED BY <1>1, <3>1, <3>2
  <2>2. CASE DeleteDeadLettered(m)
    <3>1. dead[m] > 0
      BY <2>2 DEF DeleteDeadLettered, Inv, Settled, Earned
    <3>2. \A n \in Messages \ {m} : queue'[n] = queue[n]
      BY <2>2, DeleteMoves DEF DeleteDeadLettered, Inv
    <3> QED BY <1>2, <3>1, <3>2
  <2>3. CASE SettleDeadLetter(m) \/ SettleRetry(m)
    BY <2>3 DEF SettleDeadLetter, SettleRetry, queueVars
  <2> QED BY <2>1, <2>2, <2>3
<1>5. Settled'
  BY <1>1, <1>2, <1>3, <1>4, SettledStays DEF Inv
<1>6. Memory'
  BY <1>1, <1>3, MemoryStays DEF Inv
<1> QED BY <1>5, <1>6, SettleMoves DEF Inv

LEMMA HandleInv ==
    ASSUME Inv, NEW m \in Messages, Handle(m)
    PROVE  Inv'
  BY AdmitTriggerInv, StartWorkflowInv, ClaimResponseInv, DeliverInv, CompleteClaimInv, SettleInv
     DEF Handle

\* The steps of the loop that forget nothing.
LEMMA LoopInv ==
    ASSUME Inv,
           \/ \E S \in SUBSET Messages : Receive(S) \/ ReceiveFails(S)
           \/ FinishPoll \/ Wake \/ ChangeRegistration \/ UNCHANGED vars
    PROVE  Inv'
<1>1. /\ UNCHANGED <<lane, body, dead, dedupVars, effectVars, excuse, running>>
      /\ entries' = entries /\ landed' = landed
  BY DEF Receive, ReceiveFails, FinishPoll, Wake, ChangeRegistration, vars, fixedVars, queueVars,
         dedupVars, effectVars, loopVars
<1>2. \A m \in Messages : queue'[m].state = queue[m].state
  BY ReceivedTyped
     DEF Inv, Receive, ReceiveFails, FinishPoll, Wake, ChangeRegistration, vars, queueVars
<1>3. \A m \in Messages :
        \/ task'[m] = task[m]
        \/ task[m].phase = "idle" /\ task'[m].phase \in {"idle", "received"}
  <2>1. ASSUME NEW S \in SUBSET Messages, Receive(S), NEW m \in Messages
        PROVE  task[m].phase = "idle" /\ task'[m].phase \in {"idle", "received"}
    BY <2>1 DEF Receive, Inv, Typed, BatchIsAwaited, Idle
  <2> QED BY <2>1 DEF ReceiveFails, FinishPoll, Wake, ChangeRegistration, vars
<1>4. Settled'
  BY <1>1, <1>2, <1>3, QuietSettled DEF Inv
<1>5. Memory'
  BY <1>1, <1>3, MemoryStays DEF Inv
<1> QED
  BY <1>4, <1>5, ReceiveMoves, ReceiveFailsMoves, FinishPollMoves, WakeMoves,
     ChangeRegistrationMoves, StutterTyped DEF Inv

LEMMA ExpireInv ==
    ASSUME Inv, Expire
    PROVE  Inv'
<1>1. ToSet(entries') \subseteq ToSet(entries)
  BY ToSetTail DEF Expire, Inv, Typed, TypeOK
<1>2. /\ UNCHANGED <<lane, body, dead, effectVars, task, queue>>
  BY DEF Expire, fixedVars, queueVars
<1>3. Settled'
  BY <1>1, <1>2, QuietSettled DEF Inv
<1> QED BY <1>3, ExpireMoves, ExpireMemory DEF Inv

LEMMA StopInv ==
    ASSUME Inv, Stop
    PROVE  Inv'
<1>1. /\ UNCHANGED <<lane, body, dead, effectVars, queue>> /\ landed' = landed
      /\ running /\ ~running'
  BY DEF Stop, fixedVars, queueVars, effectVars
<1>2. \A m \in Messages : /\ task'[m].phase = task[m].phase
                          /\ task[m].phase # "claimed" => task'[m] = task[m]
  BY StopTasks DEF Inv
<1>3. ToSet(entries') \subseteq ToSet(entries)
  BY ToSetEmpty DEF Stop, dedupVars
<1>4. Settled'
  <2>1. ASSUME NEW m \in Messages
        PROVE  task'[m] = task[m] \/ task'[m].phase \in {"idle", "received", "claimed"}
    <3>1. CASE task[m].phase = "claimed"
      <4>1. task'[m].phase = "claimed"
        BY <1>2, <3>1
      <4> QED BY <4>1
    <3>2. CASE task[m].phase # "claimed"
      BY <1>2, <3>2, Zenon
    <3> QED BY <3>1, <3>2
  <2>2. \A m \in Messages : queue'[m].state = queue[m].state
    BY <1>1
  <2>3. UNCHANGED <<lane, body, dead, effectVars>>
    BY <1>1
  <2> QED BY <1>3, <2>1, <2>2, <2>3, QuietSettled DEF Inv
<1>5. CASE lane = "response"
  <2>1. /\ entries' = <<>> /\ pending' = [i \in Ids |-> Free]
        /\ Forgotten(ToSet(entries) \cup Claims)
    BY <1>5 DEF Stop
  <2>2. \A m \in Messages : task[m].phase = "claimed" => task'[m].stale
    BY <1>5, StopTasks DEF Inv
  <2>3. Memory'
    <3>1. UNCHANGED <<lane, body, landed>>
      BY <1>1
    <3>2. \A m \in Messages : /\ task'[m].phase = task[m].phase
                              /\ task[m].phase = "claimed" => task'[m].stale
      BY <1>2, <2>2, Zenon
    <3>3. running /\ ~running'
      BY <1>1
    <3>4. Typed /\ Memory
      BY DEF Inv
    <3> HIDE DEF Inv
    <3> QED BY <2>1, <3>1, <3>2, <3>3, <3>4, ClearedMemory, Zenon
  <2> QED BY <1>4, <2>3, StopMoves DEF Inv
<1>6. CASE lane # "response"
  <2>1. UNCHANGED <<dedupVars, excuse, task>>
    BY <1>6 DEF Stop
  <2>2. Memory'
    BY <1>1, <2>1, MemoryStays DEF Inv
  <2> QED BY <1>4, <2>2, StopMoves DEF Inv
<1> QED BY <1>5, <1>6

LEMMA RestartInv ==
    ASSUME Inv, Restart
    PROVE  Inv'
<1>1. /\ UNCHANGED <<lane, body, dead, effectVars, queue>> /\ landed' = landed
      /\ \A m \in Messages : task'[m].phase = "idle"
      /\ entries' = <<>> /\ pending' = [i \in Ids |-> Free]
      /\ Forgotten(ToSet(entries) \cup Claims)
  BY DEF Restart, fixedVars, queueVars, effectVars, Idle
<1>2. Settled'
  BY <1>1, ToSetEmpty, QuietSettled DEF Inv
<1>3. Memory'
  BY <1>1, ClearedMemory DEF Inv
<1> QED BY <1>2, <1>3, RestartMoves DEF Inv

LEMMA NextInv == Inv /\ [Next]_vars => Inv'
  BY HandleInv, LoopInv, ExpireInv, StopInv, RestartInv DEF Next

LEMMA AlwaysInv == Spec => []Inv
<1>1. Init => Inv
  BY InitTyped, InitSettled, InitMemory DEF Inv
<1> QED BY <1>1, NextInv, PTL DEF Spec

\* Nothing is lost, nothing runs unasked (SqsConsumer.settle, TriggerIngress,
\* ResponseRelay): a message leaves the queue only after its effect or its dead letter,
\* and a run was accepted for a message with all the starter checks.
THEOREM MessagesSafe == Spec => []MessagesAreSafe
<1>1. Inv => MessagesAreSafe
  BY SettledIsSafe DEF Inv
<1> QED BY <1>1, AlwaysInv, PTL

\* The duplicate memory (BoundedDeduplicationStore) stays within its capacity for any
\* number of concurrent handlers, a claim is freed only by the handler that holds it or by
\* stop, and a response is signalled again only when its delivery could not be known.
THEOREM DuplicatesRemembered == Spec => []DuplicateMemoryHolds
<1>1. Inv => DuplicateMemoryHolds
  BY MemoryHolds DEF Inv
<1> QED BY <1>1, AlwaysInv, PTL

-----------------------------------------------------------------------------
(* The reconnect delay.                                                    *)

\* Induction: what has 0 and n + 1 for every n it has, has all.
LEMMA ByInduction ==
    ASSUME NEW S, 0 \in S, \A n \in Nat : n \in S => n + 1 \in S
    PROVE  \A n \in Nat : n \in S
<1> DEFINE T == Nat \ S
           R == OpToRel(<, Nat)
<1> SUFFICES ASSUME T # {} PROVE FALSE
  OBVIOUS
<1>1. PICK x \in T : \A y \in T : <<y, x>> \notin R
  <2>1. IsWellFoundedOn(R, Nat) BY NatLessThanWellFounded
  <2>2. T \subseteq Nat /\ T # {} OBVIOUS
  <2> HIDE DEF T, R
  <2>3. \E z \in T : \A y \in T : ~(<<y, z>> \in R) BY <2>1, <2>2, WFMin
  <2> QED BY <2>3
<1>2. \A y \in Nat \ S : ~(y < x)
  BY <1>1 DEF OpToRel
<1> HIDE DEF R
<1>3. x \in Nat /\ x \notin S
  OBVIOUS
<1>4. x # 0
  BY <1>3
<1>5. x - 1 \in Nat /\ (x - 1) + 1 = x /\ x - 1 < x
  BY <1>3, <1>4
<1>6. x - 1 \in S
  BY <1>2, <1>5
<1>7. (x - 1) + 1 \in S
  BY <1>5, <1>6
<1> QED BY <1>3, <1>5, <1>7

\* A list of the delays after 0 to n failures.
GrowsTo(g, n) ==
    g = [i \in 0..n |-> IF i = 0 THEN InitialDelay ELSE DelayMultiplier * g[i - 1]]

\* There is one for every n,
LEMMA GrowthExists == \A n \in Nat : \E g : GrowsTo(g, n)
<1> DEFINE S == {n \in Nat : \E g : GrowsTo(g, n)}
<1>1. 0 \in S
  <2> DEFINE g == [i \in 0..0 |-> InitialDelay]
  <2>1. GrowsTo(g, 0)
    BY DEF GrowsTo
  <2> QED BY <2>1
<1>2. ASSUME NEW n \in Nat, n \in S PROVE n + 1 \in S
  <2>1. PICK g : GrowsTo(g, n)
    BY <1>2
  <2> DEFINE h == [i \in 0..(n + 1) |-> IF i <= n THEN g[i] ELSE DelayMultiplier * g[n]]
  <2>2. \A i \in 0..(n + 1) : h[i] = IF i = 0 THEN InitialDelay ELSE DelayMultiplier * h[i - 1]
    <3> SUFFICES ASSUME NEW i \in 0..(n + 1)
                 PROVE  h[i] = IF i = 0 THEN InitialDelay ELSE DelayMultiplier * h[i - 1]
      OBVIOUS
    <3>1. CASE i <= n
      <4>1. g[i] = IF i = 0 THEN InitialDelay ELSE DelayMultiplier * g[i - 1]
        BY <2>1, <3>1 DEF GrowsTo
      <4>2. i # 0 => i - 1 \in 0..(n + 1) /\ i - 1 <= n
        BY <3>1
      <4> QED BY <3>1, <4>1, <4>2
    <3>2. CASE i = n + 1
      BY <3>2
    <3> QED BY <3>1, <3>2
  <2>3. GrowsTo(h, n + 1)
    BY <2>2 DEF GrowsTo
  <2> QED BY <2>3
<1> HIDE DEF S
<1>3. \A n \in Nat : n \in S
  BY <1>1, <1>2, ByInduction
<1> QED BY <1>3 DEF S

\* and a longer list begins like a shorter one.
LEMMA GrowthUnique ==
    ASSUME NEW n \in Nat, NEW m \in Nat, NEW g, NEW h, GrowsTo(g, n), GrowsTo(h, m), n <= m
    PROVE  g[n] = h[n]
<1> DEFINE S == {i \in Nat : i <= n => g[i] = h[i]}
<1>1. 0 \in S
  BY DEF GrowsTo
<1>2. ASSUME NEW i \in Nat, i \in S PROVE i + 1 \in S
  BY <1>2 DEF GrowsTo
<1> HIDE DEF S
<1>3. n \in S
  BY <1>1, <1>2, ByInduction
<1> QED BY <1>3 DEF S

\* So the delays grow as they are defined.
LEMMA GrownStep ==
    Grown[0] = InitialDelay /\ \A n \in Nat : Grown[n + 1] = DelayMultiplier * Grown[n]
<1> DEFINE L(n) == CHOOSE g : GrowsTo(g, n)
           F == [n \in Nat |-> L(n)[n]]
           D(f) == [n \in Nat |-> IF n = 0 THEN InitialDelay ELSE DelayMultiplier * f[n - 1]]
<1>1. \A n \in Nat : GrowsTo(L(n), n)
  BY GrowthExists
<1>2. ASSUME NEW n \in Nat
      PROVE  F[n] = IF n = 0 THEN InitialDelay ELSE DelayMultiplier * F[n - 1]
  <2>1. GrowsTo(L(n), n)
    BY <1>1
  <2> HIDE DEF L
  <2>2. L(n)[n] = IF n = 0 THEN InitialDelay ELSE DelayMultiplier * L(n)[n - 1]
    BY <2>1 DEF GrowsTo
  <2>3. ASSUME n # 0 PROVE L(n)[n - 1] = L(n - 1)[n - 1]
    <3>1. n - 1 \in Nat /\ n - 1 <= n
      BY <2>3
    <3>2. GrowsTo(L(n - 1), n - 1)
      BY <1>1, <3>1
    <3> QED BY <2>1, <3>1, <3>2, GrowthUnique
  <2>4. n # 0 => n - 1 \in Nat
    OBVIOUS
  <2> QED BY <2>2, <2>3, <2>4
<1> HIDE DEF F
<1>3. F = D(F)
  <2>1. F = [n \in Nat |-> F[n]]
    BY DEF F
  <2> QED BY <1>2, <2>1
<1>4. Grown = D(Grown)
  <2>1. Grown = CHOOSE f : f = D(f)
    BY DEF Grown
  <2> HIDE DEF D
  <2> QED BY <1>3, <2>1
<1> QED BY <1>4

\* All of them are numbers.
LEMMA GrownIsNat == \A n \in Nat : Grown[n] \in Nat
<1> DEFINE S == {n \in Nat : Grown[n] \in Nat}
<1>1. 0 \in S
  BY GrownStep, DeliveryAssumption
<1>2. ASSUME NEW n \in Nat, n \in S PROVE n + 1 \in S
  BY <1>2, GrownStep, DeliveryAssumption
<1> HIDE DEF S
<1>3. \A n \in Nat : n \in S
  BY <1>1, <1>2, ByInduction
<1> QED BY <1>3 DEF S

\* A delay that reached its ceiling does not fall below it again: it is multiplied by one
\* or more.
LEMMA StaysGrown ==
    ASSUME NEW x \in Nat
    PROVE  x <= DelayMultiplier * x /\ DelayMultiplier * x = x * DelayMultiplier
  BY DeliveryAssumption

Delayed == failures \in Nat /\ DelayFollowsFailures

\* One more failure.
LEMMA NextDelayed ==
    ASSUME Delayed, NextDelay
    PROVE  Delayed'
<1>1. /\ Grown[failures] \in Nat /\ MaxDelay \in Nat /\ failures' = failures + 1
      /\ Grown[failures + 1] = DelayMultiplier * Grown[failures]
  BY GrownIsNat, GrownStep, DeliveryAssumption DEF Delayed, NextDelay
<1>2. DelayMultiplier * Grown[failures] \in Nat /\ DelayMultiplier * MaxDelay \in Nat
  BY <1>1, DeliveryAssumption
<1>3. baseDelay' = IF Grown[failures + 1] < MaxDelay THEN Grown[failures + 1] ELSE MaxDelay
  <2>1. CASE Grown[failures] < MaxDelay
    <3>1. baseDelay * DelayMultiplier = Grown[failures + 1]
      BY <1>1, <2>1, StaysGrown DEF Delayed, DelayFollowsFailures
    <3> QED BY <3>1 DEF NextDelay
  <2>2. CASE ~(Grown[failures] < MaxDelay)
    <3>1. baseDelay = MaxDelay
      BY <2>2 DEF Delayed, DelayFollowsFailures
    <3>2. ~(baseDelay * DelayMultiplier < MaxDelay)
      BY <1>1, <1>2, <3>1, StaysGrown
    <3>3. ~(Grown[failures + 1] < MaxDelay)
      BY <1>1, <1>2, <2>2, StaysGrown
    <3> QED BY <3>2, <3>3 DEF NextDelay
  <2> QED BY <2>1, <2>2
<1> QED BY <1>1, <1>3 DEF Delayed, DelayFollowsFailures

\* No failure, or none any more.
LEMMA FirstDelay ==
    ASSUME baseDelay' = InitialDelay, failures' = 0
    PROVE  Delayed'
  BY GrownStep, DeliveryAssumption DEF Delayed, DelayFollowsFailures

LEMMA SameDelay ==
    ASSUME Delayed, UNCHANGED <<baseDelay, failures>>
    PROVE  Delayed'
  BY DEF Delayed, DelayFollowsFailures

LEMMA AlwaysDelayed == Spec => []Delayed
<1>1. Init => Delayed
  BY GrownStep, DeliveryAssumption DEF Init, Delayed, DelayFollowsFailures
<1>2. Inv /\ Delayed /\ [Next]_vars => Delayed'
  <2> SUFFICES ASSUME Inv, Delayed, [Next]_vars PROVE Delayed'
    OBVIOUS
  <2>1. ASSUME NEW m \in Messages, Handle(m) PROVE UNCHANGED <<baseDelay, failures>>
    <3>1. Typed /\ Cardinality(Claims) \in Nat
      BY ClaimsAreCounted DEF Inv, Memory
    <3>2. HandlerMoves(m)
      BY <2>1, <3>1, AdmitTriggerMoves, StartWorkflowMoves, ClaimResponseMoves,
         DeliverMoves, CompleteClaimMoves, SettleMoves DEF Handle
    <3> QED BY <3>2 DEF HandlerMoves, Kept
  <2>2. ASSUME NEW S \in SUBSET Messages, Receive(S) PROVE Delayed'
    BY <2>2, SameDelay DEF Receive
  <2>3. ASSUME NEW S \in SUBSET Messages, ReceiveFails(S) PROVE Delayed'
    BY <2>3, NextDelayed DEF ReceiveFails
  <2>4. ASSUME FinishPoll \/ Restart PROVE Delayed'
    BY <2>4, FirstDelay DEF FinishPoll, Restart
  <2>5. ASSUME Expire \/ Wake \/ Stop \/ ChangeRegistration \/ UNCHANGED vars PROVE Delayed'
    BY <2>5, SameDelay DEF Expire, Wake, Stop, ChangeRegistration, loopVars, vars
  <2> QED BY <2>1, <2>2, <2>3, <2>4, <2>5, SameDelay DEF Next
<1> QED BY <1>1, <1>2, AlwaysInv, PTL DEF Spec

\* A consumer is reported ready only while it runs and its last poll succeeded
\* (ResponseRelay._set_ready, stop), whatever interrupts the poll; and the delay before its
\* next one is the initial delay multiplied once for every failure since, up to its ceiling
\* (ConsumerReconnectBackoff).
THEOREM ConsumersTellTheTruth == Spec => []ConsumerTellsTheTruth
<1>1. Inv /\ Delayed => ConsumerTellsTheTruth
  BY DEF Inv, Typed, Delayed, ConsumerTellsTheTruth
<1> QED BY <1>1, AlwaysInv, AlwaysDelayed, PTL
=============================================================================
