---------------------------- MODULE RemoteWorker ----------------------------
(***************************************************************************)
(* One RemoteWorkerActor (inference-remote-core, worker.rs) with its retry *)
(* engine (retry.rs), the circuit-breaker gate it checks, and the bounded  *)
(* output channel of each request with the task that reads it.             *)
(*                                                                         *)
(* The actor awaits inside its handler, so its mailbox waits while a       *)
(* request is executed and the consumers, the operator and the provider    *)
(* interleave with every await point: the provider call, each item of the  *)
(* stream, the back-off sleep and each send on a full channel.             *)
(*                                                                         *)
(* A chunk is known by the attempt that produced it and its position in    *)
(* that attempt's stream.                                                  *)
(***************************************************************************)
EXTENDS Integers, Sequences, FiniteSets, InferenceErrors

CONSTANTS
    Requests,        \* the requests dispatched to this worker, each once
    NoRequest,       \* what an idle worker executes
    MaxRetries,      \* RetryPolicy::max_retries
    Idempotent,      \* Deployment::idempotent
    ChannelCapacity, \* capacity of a request's output channel
    StreamLength,    \* bound: chunks in one response stream
    ProviderErrors   \* the errors a provider may answer with

ASSUME WorkerAssumption ==
    /\ IsFiniteSet(Requests) /\ NoRequest \notin Requests
    /\ MaxRetries \in Nat /\ Idempotent \in BOOLEAN
    /\ ChannelCapacity \in Nat \ {0} /\ StreamLength \in Nat
    /\ ProviderErrors \subseteq Kinds

VARIABLES
    inbox,        \* Dispatch messages in the worker's mailbox
    current,      \* the request in RemoteWorkerActor::dispatch
    pc,           \* where execute_with_retries is
    attempt,      \* Attempt
    position,     \* chunks of the current stream already sent
    error,        \* the last error met while executing the current request
    channel,      \* items in each request's output channel
    received,     \* items each consumer has read
    dropped,      \* consumers that have dropped their receiver
    circuit_open, \* whether check() on the shared breaker would refuse
    failures,     \* CircuitBreakerHandle::failures of that breaker
    signals,      \* () values sent on idle_tx
    stage,        \* history: how far each request has come
    executions    \* history: runner calls made for each request

workerVars == <<current, pc, attempt, position, error>>
vars == <<inbox, current, pc, attempt, position, error, channel, received,
          dropped, circuit_open, failures, signals, stage, executions>>

NoError == "none"

Chunk(a, i) == [attempt |-> a, position |-> i, error |-> NoError]
Failure(k) == [attempt |-> 0, position |-> 0, error |-> k]
Items ==
    [attempt : Nat, position : Nat, error : Kinds \cup {NoError}]

Init ==
    /\ inbox = <<>>
    /\ current = NoRequest
    /\ pc = "idle"
    /\ attempt = 0
    /\ position = 0
    /\ error = NoError
    /\ channel = [r \in Requests |-> <<>>]
    /\ received = [r \in Requests |-> <<>>]
    /\ dropped = [r \in Requests |-> FALSE]
    /\ circuit_open = FALSE
    /\ failures = 0
    /\ signals = 0
    /\ stage = [r \in Requests |-> "new"]
    /\ executions = [r \in Requests |-> 0]

-----------------------------------------------------------------------------
(* RetryEngine::decide; how long it backs off is left out.                 *)

(* Fault: the attempt that just failed is not counted.                     *)
DecideOneMore(a, k) == Idempotent /\ a <= MaxRetries /\ IsRetryable(k)

(* Fault: the error's class is not consulted.                              *)
DecideAnyError(a, k) == Idempotent /\ a < MaxRetries

Decide(a, k) == Idempotent /\ a < MaxRetries /\ IsRetryable(k)

-----------------------------------------------------------------------------
(* RemoteWorkerActor::dispatch and execute_with_retries.                   *)

(* The engine tells the worker a Dispatch.                                 *)
Tell(r) ==
    /\ stage[r] = "new"
    /\ inbox' = Append(inbox, r)
    /\ stage' = [stage EXCEPT ![r] = "dispatched"]
    /\ UNCHANGED <<current, pc, attempt, position, error, channel, received,
                   dropped, circuit_open, failures, signals, executions>>

(* The handler takes the Dispatch; the loop starts at attempt 0.           *)
Start ==
    /\ pc = "idle" /\ inbox # <<>>
    /\ current' = Head(inbox)
    /\ inbox' = Tail(inbox)
    /\ pc' = "gate"
    /\ attempt' = 0
    /\ position' = 0
    /\ error' = NoError
    /\ stage' = [stage EXCEPT ![Head(inbox)] = "running"]
    /\ UNCHANGED <<channel, received, dropped, circuit_open, failures, signals, executions>>

(* Fault: an open breaker makes the worker wait instead of failing fast.   *)
PassGateWaits ==
    /\ pc = "gate"
    /\ ~circuit_open
    /\ pc' = "execute"
    /\ UNCHANGED <<inbox, current, attempt, position, error, channel, received,
                   dropped, circuit_open, failures, signals, stage, executions>>

(* acquire_permit, which always succeeds, then circuit_breaker.check().    *)
PassGate ==
    /\ pc = "gate"
    /\ \/ ~circuit_open /\ pc' = "execute" /\ error' = error
       \/ circuit_open /\ pc' = "fail" /\ error' = "CircuitOpen"
    /\ UNCHANGED <<inbox, current, attempt, position, channel, received,
                   dropped, circuit_open, failures, signals, stage, executions>>

(* runner.execute returns a stream.                                        *)
Execute ==
    /\ pc = "execute"
    /\ pc' = "stream"
    /\ position' = 0
    /\ executions' = [executions EXCEPT ![current] = @ + 1]
    /\ UNCHANGED <<inbox, current, attempt, error, channel, received, dropped,
                   circuit_open, failures, signals, stage>>

(* runner.execute fails before a stream exists.                            *)
ExecuteFails(k) ==
    /\ pc = "execute"
    /\ error' = k
    /\ pc' = IF Decide(attempt, k) THEN "backoff" ELSE "fail"
    /\ executions' = [executions EXCEPT ![current] = @ + 1]
    /\ UNCHANGED <<inbox, current, attempt, position, channel, received,
                   dropped, circuit_open, failures, signals, stage>>

Room(r) == Len(channel[r]) < ChannelCapacity

(* Fault: a chunk that finds the channel full is thrown away.              *)
StreamChunkTrySend ==
    /\ pc = "stream" /\ position < StreamLength
    /\ ~dropped[current]
    /\ channel' = IF Room(current)
                  THEN [channel EXCEPT ![current] = Append(@, Chunk(attempt, position + 1))]
                  ELSE channel
    /\ position' = position + 1
    /\ UNCHANGED <<inbox, current, pc, attempt, error, received, dropped,
                   circuit_open, failures, signals, stage, executions>>

(* The stream yields a chunk and it is sent; the send waits for room.      *)
StreamChunk ==
    /\ pc = "stream" /\ position < StreamLength
    /\ Room(current) /\ ~dropped[current]
    /\ channel' = [channel EXCEPT ![current] = Append(@, Chunk(attempt, position + 1))]
    /\ position' = position + 1
    /\ UNCHANGED <<inbox, current, pc, attempt, error, received, dropped,
                   circuit_open, failures, signals, stage, executions>>

(* The stream fails between two chunks.                                    *)
StreamFails(k) ==
    /\ pc = "stream"
    /\ error' = k
    /\ pc' = IF Decide(attempt, k) THEN "backoff" ELSE "fail"
    /\ UNCHANGED <<inbox, current, attempt, position, channel, received,
                   dropped, circuit_open, failures, signals, stage, executions>>

(* The sleep ends; permit and breaker are consulted again.                 *)
Backoff ==
    /\ pc = "backoff"
    /\ attempt' = attempt + 1
    /\ pc' = "gate"
    /\ UNCHANGED <<inbox, current, position, error, channel, received, dropped,
                   circuit_open, failures, signals, stage, executions>>

(* Every way out of dispatch ends here: the request, with its sender, is   *)
(* dropped and idle is signalled.                                          *)
Done(result) ==
    /\ pc' = "idle"
    /\ current' = NoRequest
    /\ stage' = [stage EXCEPT ![current] = result]
    /\ signals' = signals + 1
    /\ UNCHANGED <<inbox, attempt, position, received, dropped, circuit_open, failures,
                   executions>>

(* The stream ends.                                                        *)
StreamEnds ==
    /\ pc = "stream"
    /\ Done("done")
    /\ UNCHANGED <<error, channel>>

(* Fault: the early return for a cancelled request skips the idle signal.  *)
StreamCancelledNoSignal ==
    /\ pc = "stream" /\ position < StreamLength
    /\ dropped[current]
    /\ pc' = "idle"
    /\ current' = NoRequest
    /\ stage' = [stage EXCEPT ![current] = "done"]
    /\ UNCHANGED <<inbox, attempt, position, error, channel, received, dropped,
                   circuit_open, failures, signals, executions>>

(* A send fails because the consumer is gone: Ok(()), nothing propagated.  *)
StreamCancelled ==
    /\ pc = "stream" /\ position < StreamLength
    /\ dropped[current]
    /\ Done("done")
    /\ UNCHANGED <<error, channel>>

(* The final failure is sent, waiting for room, as one terminal chunk.     *)
Propagate ==
    /\ pc = "fail"
    /\ Room(current) \/ dropped[current]
    /\ channel' = IF dropped[current] THEN channel
                  ELSE [channel EXCEPT ![current] = Append(@, Failure(error))]
    /\ Done("failed")
    /\ UNCHANGED error

-----------------------------------------------------------------------------
(* The environment.                                                        *)

(* The consumer reads an item.                                             *)
Receive(r) ==
    /\ channel[r] # <<>> /\ ~dropped[r]
    /\ received' = [received EXCEPT ![r] = Append(@, Head(channel[r]))]
    /\ channel' = [channel EXCEPT ![r] = Tail(@)]
    /\ UNCHANGED <<inbox, workerVars, dropped, circuit_open, failures, signals, stage,
                   executions>>

(* The consumer goes away: the request is cancelled.                       *)
Cancel(r) ==
    /\ stage[r] # "new" /\ ~dropped[r]
    /\ dropped' = [dropped EXCEPT ![r] = TRUE]
    /\ channel' = [channel EXCEPT ![r] = <<>>]
    /\ UNCHANGED <<inbox, workerVars, received, circuit_open, failures, signals, stage,
                   executions>>

(* The breaker shared with the other workers opens or lets calls pass      *)
(* again: the operator's ForceOpen and its expiry.                         *)
CircuitTurns ==
    /\ circuit_open' = ~circuit_open
    /\ UNCHANGED <<inbox, workerVars, channel, received, dropped, failures, signals, stage,
                   executions>>

Work ==
    \/ Start \/ PassGate \/ Execute \/ \E k \in ProviderErrors : ExecuteFails(k)
    \/ StreamChunk \/ \E k \in ProviderErrors : StreamFails(k)
    \/ StreamEnds \/ StreamCancelled \/ Backoff \/ Propagate

Next ==
    \/ \E r \in Requests : Tell(r) \/ Receive(r) \/ Cancel(r)
    \/ Work
    \/ CircuitTurns

Spec == Init /\ [][Next]_vars

(* The runtime polls the worker, provider calls end by their timeouts and  *)
(* sleeps elapse; a consumer keeps reading until it goes away.  Nobody has *)
(* to dispatch, cancel or touch the breaker.                               *)
FairSpec == Spec /\ WF_vars(Work) /\ \A r \in Requests : WF_vars(Receive(r))

-----------------------------------------------------------------------------
(* Properties.                                                             *)

TypeOK ==
    /\ inbox \in Seq(Requests)
    /\ current \in Requests \cup {NoRequest}
    /\ pc \in {"idle", "gate", "execute", "stream", "backoff", "fail"}
    /\ attempt \in Nat /\ position \in Nat
    /\ error \in Kinds \cup {NoError}
    /\ channel \in [Requests -> Seq(Items)]
    /\ \A r \in Requests : Len(channel[r]) <= ChannelCapacity
    /\ received \in [Requests -> Seq(Items)]
    /\ dropped \in [Requests -> BOOLEAN]
    /\ circuit_open \in BOOLEAN
    /\ failures \in Nat
    /\ signals \in Nat
    /\ stage \in [Requests -> {"new", "dispatched", "running", "done", "failed"}]
    /\ executions \in [Requests -> Nat]

(* Everything that has been sent to the consumer of r and not thrown away. *)
Output(r) == received[r] \o channel[r]

Finished == {"done", "failed"}

(* A request costs at most max_retries + 1 provider calls, whatever mix of *)
(* early failures, mid-stream failures, cancellations and breaker turns it *)
(* meets, and a non-idempotent deployment is never called twice for one    *)
(* request (retry.rs:48-71).                                               *)
AttemptsBounded ==
    \A r \in Requests :
        executions[r] <= IF Idempotent THEN MaxRetries + 1 ELSE 1

(* "propagate as one terminal chunk on the output channel so the           *)
(* RequestActor sees a definitive end" (worker.rs:57-59): an error is sent *)
(* at most once per request, when the request is over, and nothing follows *)
(* it.                                                                     *)
OneTerminalError ==
    \A r \in Requests : \A i \in DOMAIN Output(r) :
        Output(r)[i].error # NoError
            => i = Len(Output(r)) /\ stage[r] = "failed"

(* A consumer that stays to the end of a failed request finds the error    *)
(* there: a truncated response is never mistaken for a complete one.       *)
FailureIsSeen ==
    \A r \in Requests :
        stage[r] = "failed" /\ ~dropped[r] =>
            Output(r) # <<>> /\ Output(r)[Len(Output(r))].error # NoError

(* The chunks of an attempt arrive in stream order and without a gap, and  *)
(* attempts arrive in the order they were made.  A retry may repeat places *)
(* in it, but never skips one and never lets a chunk of an abandoned       *)
(* attempt show up behind one of its successor.                            *)
AttemptsInOrder ==
    \A r \in Requests : \A i \in DOMAIN Output(r) :
        LET item == Output(r)[i]
        IN  item.error = NoError =>
               IF item.position = 1
               THEN \A j \in 1 .. i - 1 : Output(r)[j].attempt < item.attempt
               ELSE i > 1 /\ Output(r)[i - 1] = Chunk(item.attempt, item.position - 1)

(* What a consumer finds in its channel, at any time and on every way out  *)
(* of execute_with_retries: ordered attempts, at most one error, as the    *)
(* last item, and that error if the request failed.                        *)
OutputIsHonest == OneTerminalError /\ FailureIsSeen /\ AttemptsInOrder

(* Every attempt, retries included, starts on a breaker that lets calls    *)
(* pass, and follows no error but a retryable one: what happened during    *)
(* the back-off sleep is looked at again (worker.rs:74-77).                *)
GatedAttempts ==
    [][pc # "execute" /\ pc' = "execute" =>
          ~circuit_open /\ (error = NoError \/ IsRetryable(error))]_vars

Contract == INSTANCE WorkerContract WITH running <- current

(* The worker implements what the engine's dispatch loop relies on: one    *)
(* request at a time, in mailbox order, and exactly one idle signal each,  *)
(* on every way out of execute_with_retries.                               *)
ImplementsContract == Contract!Spec

(* Every dispatched request is let go and its idle signal sent, provided   *)
(* its consumer reads or goes away.                                        *)
EveryDispatchEnds ==
    \A r \in Requests : stage[r] = "dispatched" ~> stage[r] \in Finished

-----------------------------------------------------------------------------
(* What the documentation says and the worker does not do.                 *)

(* "5xx from provider. Counts toward circuit breaker." (error.rs:66): a    *)
(* counted error the worker meets raises the breaker's failure count.      *)
CountsTowardBreaker ==
    [][(/\ pc \in {"execute", "stream"}
        /\ pc' \in {"backoff", "fail"}
        /\ CountsAsCircuitFailure(error')) => failures' > failures]_vars
=============================================================================
