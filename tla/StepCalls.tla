------------------------------ MODULE StepCalls ------------------------------
(***************************************************************************)
(* How a call of the runner is executed: the executor in the workflow      *)
(* (TemporalStepExecutor and the compiled class, engine/compiler.py), the  *)
(* activities it schedules (engine/activities.py), the queue transport     *)
(* (transports/queue.py) and the queues of responses an execution carries  *)
(* from one Temporal run to the next.                                      *)
(*                                                                         *)
(* An attempt of an activity may be given up by its timeout and go on all  *)
(* the same, next to the attempt that replaces it: a straggler.  A service *)
(* answers a request late, more than once, under the key of the invocation *)
(* or under the correlation id.  A failure handler may call a step again.  *)
(*                                                                         *)
(* The name of a call's step is unique among the calls of a run that are   *)
(* open at once (an item or an attempt has its number in it).  A value is  *)
(* told apart by the contracts and the limits it meets.                    *)
(***************************************************************************)
EXTENDS FiniteSets, Naturals, Sequences, TLC

CONSTANTS
  Executions, Steps,
  Kind,          \* [Steps -> {"inline", "queue", "evaluator"}]
  Caches,        \* the steps whose operation declares a cache
  Legacy,        \* the queue steps whose service answers under the correlation id
  Digest,        \* [Executions -> definition]
  Contract,      \* [definition -> values its output contract accepts]
  Values, Large, \* values; those beyond activity_output_bytes
  UseChoices,    \* sets of <<execution, step>> that are called in a behaviour
  Retries,       \* retries of the service
  SignalLimit,   \* limits.queued_messages
  MaxCalls, MaxContinuations,   \* bounds
  MaxCallFaults  \* bound: faults of a behaviour that a step may have part in

ASSUME CallAssumption ==
  /\ Kind \in [Steps -> {"inline", "queue", "evaluator"}]
  /\ Retries \in Nat /\ SignalLimit \in Nat \ {0}
  /\ Large \subseteq Values
  /\ Legacy \cup Caches \subseteq Steps
  /\ IsFiniteSet(Steps) /\ MaxContinuations \in Nat

VARIABLES
  uses,
  status,     \* [Executions -> "off" | "running" | "continuing" | "done" | "failed"]
  runNo,      \* [Executions -> number of the Temporal run]
  call,       \* [Executions -> [Steps -> the open call, or NoCall]]
  calls,      \* [Executions -> calls made]
  last,       \* [Executions -> [Steps -> how the last call ended]]
  cache,      \* [CacheKeys -> the entry, or NoEntry]
  requests,   \* published requests: [of, run, step, n]
  answered,   \* the ones a service has answered
  signals, carried,   \* [Executions -> [ResponseKeys -> queue]]
  heard, took,        \* history: responses an execution accepted, and consumed
  stragglers, callFaults

callVars == <<uses, status, runNo, call, calls, last, cache, requests, answered,
              signals, carried, heard, took, stragglers, callFaults>>
messageVars == <<signals, carried, heard, took>>
serviceVars == <<requests, answered, stragglers>>

NoCall == [phase |-> "none"]
NoEntry == [kind |-> "none"]
NoResult == [how |-> "none"]
ByCorrelation == 0
ResponseKeys == (0..(MaxContinuations + 1)) \X Steps
EmptyQueues == [k \in ResponseKeys |-> <<>>]
Count(queues) == Cardinality(UNION {{<<k, i>> : i \in DOMAIN queues[k]} : k \in ResponseKeys})

CallFault(s) == callFaults < MaxCallFaults[s] /\ callFaults' = callFaults + 1
Open(x, s) == call[x][s] # NoCall
SetCall(x, s, c) == call' = [call EXCEPT ![x][s] = c]
EndCall(x, s, result) ==
  /\ SetCall(x, s, NoCall)
  /\ last' = [last EXCEPT ![x][s] = result]
Failed(c) == [how |-> "failed", n |-> c.n]
Returned(c, value) == [how |-> "called", n |-> c.n, value |-> value]

StartCall(x, s) ==
  /\ status[x] = "running" /\ <<x, s>> \in uses /\ ~Open(x, s) /\ calls[x] < MaxCalls
  /\ calls' = [calls EXCEPT ![x] = @ + 1]
  /\ SetCall(x, s, [phase |-> "queued", n |-> calls[x] + 1, attempt |-> 1])
  /\ UNCHANGED <<uses, status, runNo, last, cache, serviceVars, messageVars, callFaults>>

-----------------------------------------------------------------------------
(* The activity *)

\* Mutant: the entries of all definitions are in one namespace.
CacheKeyOfStep(x, s) == <<"any", s>>
\* _cache_storage_key: the definition and the identity of its contract.
CacheKey(x, s) == <<Digest[x], s>>

CacheKeys == ({Digest[x] : x \in Executions} \cup {"any"}) \X Caches

\* Mutant: the first attempt is not counted.
MayRetryOnceMore(c) == c.attempt <= Retries + 1
\* RetryPolicy(maximum_attempts=service.retries + 1)
MayRetry(c) == c.attempt < Retries + 1

\* The attempt failed: again, or for good.
AttemptFails(x, s) ==
  LET c == call[x][s] IN
  IF MayRetry(c)
  THEN SetCall(x, s, [phase |-> "queued", n |-> c.n, attempt |-> c.attempt + 1]) /\ UNCHANGED last
  ELSE EndCall(x, s, Failed(c))

\* _check_contract
Meets(x, value) == value \in Contract[Digest[x]]

\* _load_cached_result: an entry that does not meet the contract is an error, not a miss.
CachedResult(x, c, entry) ==
  IF Meets(x, entry.value)
  THEN [how |-> "hit", n |-> c.n, value |-> entry.value, maker |-> entry.maker]
  ELSE Failed(c)

\* The activity starts: its input, its service and its cache resource are checked
\* (a closed worker may be retried, a contract violation not), the cache is read.
BeginAttempt(x, s) ==
  LET c == call[x][s] IN
  /\ Open(x, s) /\ c.phase = "queued" /\ Kind[s] # "evaluator"
  /\ IF s \in Caches /\ cache[CacheKey(x, s)] # NoEntry
     THEN EndCall(x, s, CachedResult(x, c, cache[CacheKey(x, s)]))
     ELSE SetCall(x, s, [c EXCEPT !.phase = "missed"]) /\ UNCHANGED last
  /\ UNCHANGED <<uses, status, runNo, calls, cache, serviceVars, messageVars, callFaults>>

AttemptRefused(x, s) ==
  /\ Open(x, s) /\ call[x][s].phase = "queued" /\ CallFault(s)
  /\ AttemptFails(x, s) \/ EndCall(x, s, Failed(call[x][s]))
  /\ UNCHANGED <<uses, status, runNo, calls, cache, serviceVars, messageVars>>

\* evaluate_condition: its answer, whatever it is, is a boolean.
Evaluate(x, s) ==
  /\ Open(x, s) /\ call[x][s].phase = "queued" /\ Kind[s] = "evaluator"
  /\ EndCall(x, s, [how |-> "evaluated", n |-> call[x][s].n])
  /\ UNCHANGED <<uses, status, runNo, calls, cache, serviceVars, messageVars, callFaults>>

\* What the activity makes of the data a transport returned.
\* Mutant: the output contract is not checked.
VerdictSizeOnly(x, value) == IF value \in Large THEN "limit" ELSE "ok"
Verdict(x, value) ==
  IF ~Meets(x, value) THEN "violation"
  ELSE IF value \in Large THEN "limit" ELSE "ok"

\* transport.send of a service that completes inline.
SendInline(x, s, value) ==
  LET c == call[x][s] IN
  /\ Open(x, s) /\ c.phase = "missed" /\ Kind[s] = "inline"
  /\ CASE Verdict(x, value) = "violation" -> EndCall(x, s, Failed(c))
       [] Verdict(x, value) = "limit"     -> AttemptFails(x, s)
       [] Verdict(x, value) = "ok" /\ s \in Caches ->
            SetCall(x, s, [phase |-> "sent", n |-> c.n, attempt |-> c.attempt, value |-> value])
              /\ UNCHANGED last
       [] Verdict(x, value) = "ok" /\ s \notin Caches -> EndCall(x, s, Returned(c, value))
  /\ UNCHANGED <<uses, status, runNo, calls, cache, serviceVars, messageVars, callFaults>>

\* A transport error, retryable or not.
SendFails(x, s) ==
  /\ Open(x, s) /\ call[x][s].phase = "missed" /\ CallFault(s)
  /\ AttemptFails(x, s) \/ EndCall(x, s, Failed(call[x][s]))
  /\ UNCHANGED <<uses, status, runNo, calls, cache, serviceVars, messageVars>>

Request(x, s, n) == [of |-> x, run |-> runNo[x], step |-> s, n |-> n]

\* QueueTransport.send: the request is published, the workflow waits for a signal.
Publish(x, s) ==
  LET c == call[x][s] IN
  /\ Open(x, s) /\ c.phase = "missed" /\ Kind[s] = "queue"
  /\ requests' = requests \cup {Request(x, s, c.n)}
  /\ SetCall(x, s, [phase |-> "awaiting", n |-> c.n])
  /\ UNCHANGED <<uses, status, runNo, calls, last, cache, answered, stragglers, messageVars, callFaults>>

Entry(x, value) == [value |-> value, maker |-> Digest[x]]
StoreCache(x, s) ==
  LET c == call[x][s] IN
  /\ Open(x, s) /\ c.phase = "sent"
  /\ cache' = [cache EXCEPT ![CacheKey(x, s)] = Entry(x, c.value)]
  /\ EndCall(x, s, Returned(c, c.value))
  /\ UNCHANGED <<uses, status, runNo, calls, serviceVars, messageVars, callFaults>>

\* The attempt's worker dies or start_to_close_timeout runs out; in the second case
\* the coroutine may go on.
AttemptLost(x, s) ==
  LET c == call[x][s] IN
  /\ Open(x, s) /\ c.phase \in {"missed", "sent"} /\ CallFault(s)
  /\ stragglers' \in {stragglers, stragglers \cup {[of |-> x, run |-> runNo[x], step |-> s, c |-> c]}}
  /\ AttemptFails(x, s)
  /\ UNCHANGED <<uses, status, runNo, calls, cache, requests, answered, messageVars>>

StragglerSends(z, value) ==
  /\ z \in stragglers /\ z.c.phase = "missed"
  /\ IF Kind[z.step] = "queue"
     THEN /\ requests' = requests \cup {[of |-> z.of, run |-> z.run, step |-> z.step, n |-> z.c.n]}
          /\ stragglers' = stragglers \ {z}
     ELSE /\ stragglers' = (stragglers \ {z})
               \cup (IF Verdict(z.of, value) = "ok" /\ z.step \in Caches
                     THEN {[z EXCEPT !.c = [phase |-> "sent", n |-> z.c.n, attempt |-> z.c.attempt,
                                            value |-> value]]}
                     ELSE {})
          /\ UNCHANGED requests
  /\ UNCHANGED <<uses, status, runNo, call, calls, last, cache, answered, messageVars, callFaults>>

StragglerStores(z) ==
  /\ z \in stragglers /\ z.c.phase = "sent"
  /\ cache' = [cache EXCEPT ![CacheKey(z.of, z.step)] = Entry(z.of, z.c.value)]
  /\ stragglers' = stragglers \ {z}
  /\ UNCHANGED <<uses, status, runNo, call, calls, last, requests, answered, messageVars, callFaults>>

EntryExpires(k) ==
  /\ cache[k] # NoEntry /\ CallFault(k[2])
  /\ cache' = [cache EXCEPT ![k] = NoEntry]
  /\ UNCHANGED <<uses, status, runNo, call, calls, last, serviceVars, messageVars>>

-----------------------------------------------------------------------------
(* Responses *)

\* status: error
ErrorAnswer == "error"
AnswerKey(r) == IF r.step \in Legacy THEN <<ByCorrelation, r.step>> ELSE <<r.run, r.step>>
Response(r, value) ==
  [step |-> r.step, run |-> r.run, n |-> r.n, key |-> AnswerKey(r), value |-> value]

\* PendingMessages.append_signal
WithResponse(queues, response) == [queues EXCEPT ![response.key] = Append(@, response)]

\* The execution fails: its calls are abandoned.
ExecutionFails(x) ==
  /\ status' = [status EXCEPT ![x] = "failed"]
  /\ call' = [call EXCEPT ![x] = [s \in Steps |-> NoCall]]

\* _handle_signal: a response beyond the limits fails the execution.
Refuses(x, value) == value \in Large \/ Count(signals[x]) >= SignalLimit

\* A service answers; the relay signals the execution, which queues the response or
\* fails; one that has ended is not found (MessageDelivery).  A second answer is a
\* fault.
Respond(r, value) ==
  LET x == r.of IN
  /\ r \in requests /\ status[x] \in {"running", "continuing"}
  /\ IF r \in answered THEN CallFault(r.step) ELSE UNCHANGED callFaults
  /\ answered' = answered \cup {r}
  /\ \/ /\ ~Refuses(x, value)
        /\ signals' = [signals EXCEPT ![x] = WithResponse(@, Response(r, value))]
        /\ heard' = [heard EXCEPT ![x] = @ + 1]
        /\ UNCHANGED <<status, call>>
     \/ /\ Refuses(x, value)
        /\ ExecutionFails(x)
        /\ UNCHANGED <<signals, heard>>
  /\ UNCHANGED <<uses, runNo, calls, last, cache, requests, stragglers, carried, took>>

\* Mutant: a response to an earlier run is accepted.
AcceptedKeysOfAnyRun(x, s) == [i \in 1..(MaxContinuations + 2) |-> <<i - 1, s>>]
\* The key of the dispatch, then the one made of the correlation id.
AcceptedKeys(x, s) == << <<runNo[x], s>>, <<ByCorrelation, s>> >>

Waiting(x, s) == {i \in DOMAIN AcceptedKeys(x, s) : signals[x][AcceptedKeys(x, s)[i]] # <<>>}

\* Mutant: the response stays in its queue.
PoppedNothing(queues, key) == queues
\* pop_signal
Popped(queues, key) == [queues EXCEPT ![key] = Tail(@)]

\* _wait_for_signal: the first key with a response, its oldest response.
TakeResponse(x, s) ==
  LET c == call[x][s]
      key == AcceptedKeys(x, s)[CHOOSE i \in Waiting(x, s) : \A j \in Waiting(x, s) : i <= j]
      response == Head(signals[x][key]) IN
  /\ Open(x, s) /\ c.phase = "awaiting" /\ Waiting(x, s) # {}
  /\ signals' = [signals EXCEPT ![x] = Popped(@, key)]
  /\ took' = [took EXCEPT ![x] = @ + 1]
  /\ IF response.value # ErrorAnswer
     THEN SetCall(x, s, [phase |-> "validating", n |-> c.n, response |-> response]) /\ UNCHANGED last
     ELSE EndCall(x, s, Failed(c))
  /\ UNCHANGED <<uses, status, runNo, calls, cache, serviceVars, carried, heard, callFaults>>

\* Mutant: a call without an answer waits for ever.
MayTimeOutNever(x, s) == FALSE
MayTimeOut(x, s) == Waiting(x, s) = {}

ResponseTimesOut(x, s) ==
  /\ Open(x, s) /\ call[x][s].phase = "awaiting" /\ MayTimeOut(x, s)
  /\ EndCall(x, s, Failed(call[x][s]))
  /\ UNCHANGED <<uses, status, runNo, calls, cache, serviceVars, messageVars, callFaults>>

\* The activity validate_contract.
ValidatedResult(x, c) ==
  IF Meets(x, c.response.value)
  THEN [how |-> "signal", n |-> c.n, value |-> c.response.value, response |-> c.response,
        run |-> runNo[x]]
  ELSE Failed(c)

ValidateResponse(x, s) ==
  LET c == call[x][s] IN
  /\ Open(x, s) /\ c.phase = "validating"
  /\ EndCall(x, s, ValidatedResult(x, c))
  /\ UNCHANGED <<uses, status, runNo, calls, cache, serviceVars, messageVars, callFaults>>

-----------------------------------------------------------------------------
(* The Temporal runs of an execution *)

NoOpenCall(x) == \A s \in Steps : ~Open(x, s)

ContinueRun(x) ==
  /\ status[x] = "running" /\ NoOpenCall(x) /\ runNo[x] <= MaxContinuations
  /\ calls[x] \in 1..(MaxCalls - 1)
  /\ carried' = [carried EXCEPT ![x] = signals[x]]
  /\ signals' = [signals EXCEPT ![x] = EmptyQueues]
  /\ status' = [status EXCEPT ![x] = "continuing"]
  /\ UNCHANGED <<uses, runNo, call, calls, last, cache, serviceVars, heard, took, callFaults>>

\* Mutant: the new run keeps only what it heard itself.
MergedFresh(old, fresh) == fresh
\* What was carried over comes before what arrived since.
MergedQueues(old, fresh) == [k \in ResponseKeys |-> old[k] \o fresh[k]]

BeginRun(x) ==
  LET merged == MergedQueues(carried[x], signals[x]) IN
  /\ status[x] = "continuing"
  /\ carried' = [carried EXCEPT ![x] = EmptyQueues]
  /\ IF Count(merged) > SignalLimit
     THEN ExecutionFails(x) /\ UNCHANGED <<signals, runNo>>
     ELSE /\ signals' = [signals EXCEPT ![x] = merged]
          /\ runNo' = [runNo EXCEPT ![x] = @ + 1]
          /\ status' = [status EXCEPT ![x] = "running"]
          /\ UNCHANGED call
  /\ UNCHANGED <<uses, calls, last, cache, serviceVars, heard, took, callFaults>>

FinishExecution(x) ==
  /\ status[x] = "running" /\ NoOpenCall(x)
  /\ status' = [status EXCEPT ![x] = "done"]
  /\ UNCHANGED <<uses, runNo, call, calls, last, cache, serviceVars, messageVars, callFaults>>

CallsAre(choices, initial) ==
  /\ uses \in choices
  /\ status = [x \in Executions |-> initial]
  /\ runNo = [x \in Executions |-> 1]
  /\ call = [x \in Executions |-> [s \in Steps |-> NoCall]]
  /\ calls = [x \in Executions |-> 0]
  /\ last = [x \in Executions |-> [s \in Steps |-> NoResult]]
  /\ cache = [k \in CacheKeys |-> NoEntry]
  /\ requests = {} /\ answered = {} /\ stragglers = {}
  /\ signals = [x \in Executions |-> EmptyQueues]
  /\ carried = [x \in Executions |-> EmptyQueues]
  /\ heard = [x \in Executions |-> 0] /\ took = [x \in Executions |-> 0]
  /\ callFaults = 0
CallInit == CallsAre(UseChoices, "running")

Progress(x, s) ==
  \/ BeginAttempt(x, s) \/ Evaluate(x, s) \/ (\E v \in Values : SendInline(x, s, v))
  \/ Publish(x, s) \/ StoreCache(x, s)
  \/ TakeResponse(x, s) \/ ResponseTimesOut(x, s) \/ ValidateResponse(x, s)

CallNext ==
  \/ \E x \in Executions, s \in Steps :
       \/ StartCall(x, s) \/ Progress(x, s)
       \/ AttemptRefused(x, s) \/ SendFails(x, s) \/ AttemptLost(x, s)
  \/ \E z \in stragglers : StragglerStores(z) \/ \E v \in Values : StragglerSends(z, v)
  \/ \E k \in CacheKeys : EntryExpires(k)
  \/ \E r \in requests, v \in Values \cup {ErrorAnswer} : Respond(r, v)
  \/ \E x \in Executions : ContinueRun(x) \/ BeginRun(x) \/ FinishExecution(x)

\* Temporal runs every activity and every workflow task and fires every timer.
CallProgress == \E x \in Executions, s \in Steps : Progress(x, s)

CallSpec == CallInit /\ [][CallNext]_callVars /\ WF_callVars(CallProgress)

-----------------------------------------------------------------------------
(* Properties *)

\* Every call is in a phase of its own, within the attempts its service allows.
CallTypeOK ==
  \A x \in Executions, s \in Steps :
    LET c == call[x][s] IN
    /\ c.phase \in {"none", "queued", "missed", "sent", "awaiting", "validating"}
    /\ c.phase \in {"queued", "missed", "sent"} => c.attempt \in 1..(Retries + 1)
    /\ runNo[x] \in 1..(MaxContinuations + 1)
    /\ Count(signals[x]) <= SignalLimit + Count(carried[x])

\* A response answers the step it was sent for, of the Temporal run it was sent in,
\* unless the service answered under the correlation id: a late response to a call
\* of an earlier run, carried into this one, is never taken for an answer.  (A call
\* repeated in one run can take the late answer to the first: see README.)
AnswerIsToThisStep ==
  \A x \in Executions, s \in Steps :
    last[x][s].how = "signal" =>
      LET response == last[x][s].response IN
      /\ response.step = s
      /\ response.key[1] # ByCorrelation => response.run = last[x][s].run
      /\ response.n <= last[x][s].n

\* What a call returns meets the contract of its definition, whichever way it came:
\* from the service, from the cache or by a signal; and so does what is cached.
ResultsMeetTheContract ==
  /\ \A x \in Executions, s \in Steps :
       last[x][s].how \in {"called", "hit", "signal"} => last[x][s].value \in Contract[Digest[x]]
  /\ \A k \in CacheKeys : cache[k] # NoEntry =>
       cache[k].value \in Contract[cache[k].maker] \ Large

\* A cached value was made by the definition that reads it, and reading it never
\* fails the step: the entry of another definition, or of another contract, is not
\* seen.
CacheServesItsDefinition ==
  \A x \in Executions, s \in Caches :
    /\ last[x][s].how = "hit" => last[x][s].maker = Digest[x]
    /\ cache[CacheKey(x, s)] # NoEntry => cache[CacheKey(x, s)].value \in Contract[Digest[x]]

\* A response an execution accepted is taken once or still queued, however many
\* Temporal runs the execution takes.
ResponsesAreKept ==
  \A x \in Executions : status[x] \in {"running", "continuing"} =>
    heard[x] = took[x] + Count(signals[x]) + Count(carried[x])

\* Every call ends, by an answer, by an error, by its timeout or with its execution:
\* no execution waits for ever on the calls it has made.
EveryCallEnds ==
  \A x \in Executions : ~NoOpenCall(x) ~> NoOpenCall(x)

\* Every response is kept until a call takes it, and the call that takes it asked for it.
CallsAreAnswered ==
  /\ CallTypeOK
  /\ AnswerIsToThisStep
  /\ ResponsesAreKept

\* Whatever path a result came by, the definition that uses it can use it.
ResultsAreValid ==
  /\ ResultsMeetTheContract
  /\ CacheServesItsDefinition
=============================================================================
