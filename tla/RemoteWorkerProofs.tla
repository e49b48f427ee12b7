-------------------------- MODULE RemoteWorkerProofs -------------------------
(***************************************************************************)
(* Proofs about RemoteWorker, for any set of requests, any retry policy    *)
(* and any channel capacity: its state is well formed, a request costs at  *)
(* most max_retries + 1 provider calls, each one let through by the        *)
(* breaker, what a caller is told is what the provider did, and the worker *)
(* implements the contract the engine relies on.                           *)
(*                                                                         *)
(* The bound on the calls is not inductive.  It needs that calls already   *)
(* made and the attempt counter agree at every place of the loop, that     *)
(* only a retryable failure below the limit reaches the back-off, and that *)
(* a request still in the mailbox has not been called for: the mailbox     *)
(* holds no request twice and none that has been started.                  *)
(***************************************************************************)
EXTENDS RemoteWorker, SequenceTheorems, TLAPS

(* The place in the loop and the current request go together.              *)
PlaceOn == pc = "idle" <=> current = NoRequest

(* The mailbox holds dispatched requests, each once.                       *)
MailOn ==
    /\ \A i \in 1..Len(inbox) : stage[inbox[i]] = "dispatched"
    /\ \A i, j \in 1..Len(inbox) : inbox[i] = inbox[j] => i = j

(* The calls made for the current request, by place in the loop.           *)
CallsOn ==
    /\ attempt <= MaxRetries
    /\ ~Idempotent => attempt = 0
    /\ pc = "backoff" => Idempotent /\ attempt < MaxRetries
    /\ pc \in {"gate", "execute"} => executions[current] = attempt
    /\ pc \in {"stream", "backoff"} => executions[current] = attempt + 1
    /\ pc # "idle" => stage[current] = "running" /\ executions[current] <= attempt + 1

(* Requests that have not been started have not been called for.           *)
FreshOn == \A r \in Requests : stage[r] \in {"new", "dispatched"} => executions[r] = 0

IInv == TypeOK /\ PlaceOn /\ MailOn /\ CallsOn /\ FreshOn /\ AttemptsBounded

(* Every worker starts in the invariant.                                   *)
LEMMA InitInv == Init => IInv
<1> SUFFICES ASSUME Init PROVE IInv
  OBVIOUS
<1>1. TypeOK
  <2>1. inbox \in Seq(Requests) /\ [r \in Requests |-> <<>>] \in [Requests -> Seq(Items)]
    BY DEF Init
  <2>2. \A r \in Requests : Len(channel[r]) <= ChannelCapacity
    BY WorkerAssumption DEF Init
  <2> QED BY <2>1, <2>2, WorkerAssumption DEF Init, TypeOK, NoError
<1>2. PlaceOn /\ MailOn /\ FreshOn
  BY DEF Init, PlaceOn, MailOn, FreshOn
<1>3. CallsOn
  BY WorkerAssumption DEF Init, CallsOn
<1>4. AttemptsBounded
  BY WorkerAssumption DEF Init, AttemptsBounded
<1> QED BY <1>1, <1>2, <1>3, <1>4 DEF IInv

(* The mailbox invariant survives a step that leaves mailbox and stages.   *)
LEMMA MailKept ==
  ASSUME MailOn, UNCHANGED <<inbox, stage>> PROVE MailOn'
  BY DEF MailOn

(* The gates: permit and breaker.                                          *)
LEMMA PassGateInv == ASSUME IInv, PassGate PROVE IInv'
<1>1. TypeOK'
  <2>1. "CircuitOpen" \in Kinds
    BY DEF Kinds
  <2> QED BY <2>1 DEF PassGate, IInv, TypeOK
<1>2. PlaceOn' /\ CallsOn' /\ FreshOn' /\ AttemptsBounded'
  BY DEF PassGate, IInv, TypeOK, PlaceOn, CallsOn, FreshOn, AttemptsBounded
<1>3. MailOn'
  BY MailKept DEF PassGate, IInv
<1> QED BY <1>1, <1>2, <1>3 DEF IInv

(* A call to the provider, by its effect on the history of calls: both     *)
(* ways execute can return.                                                *)
LEMMA CallInv ==
  ASSUME IInv, Execute \/ (\E k \in ProviderErrors : ExecuteFails(k))
  PROVE  IInv'
<1>0. current \in Requests /\ pc = "execute" /\ executions[current] = attempt /\ attempt \in Nat
  BY DEF IInv, TypeOK, PlaceOn, CallsOn, Execute, ExecuteFails
<1>1. executions' = [executions EXCEPT ![current] = @ + 1] /\ executions \in [Requests -> Nat]
  BY DEF IInv, TypeOK, Execute, ExecuteFails
<1>2. executions' \in [Requests -> Nat] /\ executions'[current] = attempt + 1
      /\ \A r \in Requests : r # current => executions'[r] = executions[r]
  BY <1>0, <1>1
<1>3. TypeOK'
  <2>1. CASE Execute
    BY <1>2, <2>1 DEF IInv, TypeOK, Execute
  <2>2. CASE \E k \in ProviderErrors : ExecuteFails(k)
    <3>1. PICK k \in ProviderErrors : ExecuteFails(k)
      BY <2>2
    <3>2. pc' \in {"idle", "gate", "execute", "stream", "backoff", "fail"} /\ error' \in Kinds
      BY <3>1, WorkerAssumption DEF ExecuteFails
    <3> QED BY <1>2, <3>1, <3>2 DEF IInv, TypeOK, ExecuteFails
  <2> QED BY <2>1, <2>2
<1>4. PlaceOn' /\ MailOn'
  BY <1>0, MailKept DEF IInv, PlaceOn, Execute, ExecuteFails
<1>5. CallsOn'
  BY <1>0, <1>2, WorkerAssumption DEF IInv, TypeOK, CallsOn, Execute, ExecuteFails, Decide
<1>6. FreshOn'
  <2>1. stage[current] = "running" /\ stage' = stage
    BY <1>0 DEF IInv, CallsOn, Execute, ExecuteFails
  <2> QED BY <1>2, <2>1 DEF IInv, FreshOn
<1>7. AttemptsBounded'
  <2>1. attempt + 1 <= IF Idempotent THEN MaxRetries + 1 ELSE 1
    BY <1>0, WorkerAssumption DEF IInv, CallsOn
  <2> QED BY <1>2, <2>1 DEF IInv, AttemptsBounded
<1> QED BY <1>3, <1>4, <1>5, <1>6, <1>7 DEF IInv

(* A failure in the middle of a stream.                                    *)
LEMMA StreamFailsInv ==
  ASSUME IInv, NEW k \in ProviderErrors, StreamFails(k) PROVE IInv'
<1>1. TypeOK'
  BY WorkerAssumption DEF StreamFails, IInv, TypeOK
<1>2. PlaceOn' /\ FreshOn' /\ AttemptsBounded'
  BY DEF StreamFails, IInv, PlaceOn, FreshOn, AttemptsBounded
<1>3. CallsOn'
  BY WorkerAssumption DEF StreamFails, IInv, TypeOK, CallsOn, Decide
<1>4. MailOn'
  BY MailKept DEF StreamFails, IInv
<1> QED BY <1>1, <1>2, <1>3, <1>4 DEF IInv

(* The end of a back-off.                                                  *)
LEMMA BackoffInv == ASSUME IInv, Backoff PROVE IInv'
<1>1. TypeOK'
  BY DEF Backoff, IInv, TypeOK
<1>2. PlaceOn' /\ FreshOn' /\ AttemptsBounded'
  BY DEF Backoff, IInv, PlaceOn, FreshOn, AttemptsBounded
<1>3. CallsOn'
  BY WorkerAssumption DEF Backoff, IInv, TypeOK, CallsOn
<1>4. MailOn'
  BY MailKept DEF Backoff, IInv
<1> QED BY <1>1, <1>2, <1>3, <1>4 DEF IInv

(* A Dispatch reaches the mailbox.                                         *)
LEMMA TellInv == ASSUME IInv, NEW r \in Requests, Tell(r) PROVE IInv'
<1>0. /\ inbox \in Seq(Requests) /\ inbox' = Append(inbox, r)
      /\ stage \in [Requests -> {"new", "dispatched", "running", "done", "failed"}]
      /\ stage[r] = "new" /\ stage' = [stage EXCEPT ![r] = "dispatched"]
  BY DEF IInv, TypeOK, Tell
<1>1. TypeOK'
  BY <1>0 DEF Tell, IInv, TypeOK
<1>2. PlaceOn' /\ AttemptsBounded'
  BY DEF Tell, IInv, PlaceOn, AttemptsBounded
<1>3. CallsOn'
  <2>1. pc # "idle" => current \in Requests /\ current # r
    BY <1>0 DEF IInv, TypeOK, PlaceOn, CallsOn
  <2> QED BY <1>0, <2>1 DEF Tell, IInv, CallsOn
<1>4. FreshOn'
  BY <1>0 DEF Tell, IInv, FreshOn
<1>5. MailOn'
  <2>1. Len(inbox') = Len(inbox) + 1 /\ Len(inbox) \in Nat /\ inbox'[Len(inbox) + 1] = r
        /\ \A i \in 1..Len(inbox) : inbox'[i] = inbox[i] /\ inbox[i] \in Requests
    BY <1>0
  <2>2. \A i \in 1..Len(inbox) : inbox[i] # r /\ stage[inbox[i]] = "dispatched"
    BY <1>0 DEF IInv, MailOn
  <2>3. \A i \in 1..Len(inbox') : stage'[inbox'[i]] = "dispatched"
    BY <1>0, <2>1, <2>2
  <2>4. ASSUME NEW i \in 1..Len(inbox'), NEW j \in 1..Len(inbox'), inbox'[i] = inbox'[j]
        PROVE  i = j
    BY <2>1, <2>2, <2>4 DEF IInv, MailOn
  <2> QED BY <2>3, <2>4 DEF MailOn
<1> QED BY <1>1, <1>2, <1>3, <1>4, <1>5 DEF IInv

(* The handler takes the next Dispatch.                                    *)
LEMMA StartInv == ASSUME IInv, Start PROVE IInv'
<1>0. /\ inbox \in Seq(Requests) /\ inbox # <<>> /\ inbox' = Tail(inbox)
      /\ stage \in [Requests -> {"new", "dispatched", "running", "done", "failed"}]
      /\ stage' = [stage EXCEPT ![Head(inbox)] = "running"]
      /\ current' = Head(inbox) /\ pc' = "gate" /\ attempt' = 0 /\ executions' = executions
  BY DEF IInv, TypeOK, Start
<1>1. Head(inbox) \in Requests /\ Head(inbox) = inbox[1] /\ 1 \in 1..Len(inbox)
      /\ Len(inbox) \in Nat /\ Len(inbox') = Len(inbox) - 1 /\ inbox' \in Seq(Requests)
      /\ \A i \in 1..Len(inbox') : inbox'[i] = inbox[i + 1] /\ i + 1 \in 1..Len(inbox)
                                    /\ inbox[i + 1] \in Requests
  BY <1>0
<1>2. TypeOK'
  BY <1>0, <1>1 DEF Start, IInv, TypeOK, NoError
<1>3. PlaceOn'
  BY <1>0, <1>1, WorkerAssumption DEF PlaceOn
<1>4. CallsOn'
  <2>1. executions[Head(inbox)] = 0
    BY <1>1 DEF IInv, MailOn, FreshOn
  <2> QED BY <1>0, <1>1, <2>1, WorkerAssumption DEF CallsOn
<1>5. FreshOn' /\ AttemptsBounded'
  BY <1>0, <1>1 DEF IInv, FreshOn, AttemptsBounded
<1>6. MailOn'
  <2>1. \A i \in 1..Len(inbox') : inbox'[i] # Head(inbox)
    <3>1. ASSUME NEW i \in 1..Len(inbox') PROVE inbox'[i] # Head(inbox)
      <4>1. i + 1 # 1 /\ i + 1 \in 1..Len(inbox) /\ inbox'[i] = inbox[i + 1]
        BY <1>1
      <4> QED BY <1>1, <4>1 DEF IInv, MailOn
    <3> QED BY <3>1
  <2>2. \A i \in 1..Len(inbox') : stage'[inbox'[i]] = "dispatched"
    BY <1>0, <1>1, <2>1 DEF IInv, MailOn
  <2>3. ASSUME NEW i \in 1..Len(inbox'), NEW j \in 1..Len(inbox'), inbox'[i] = inbox'[j]
        PROVE  i = j
    <3>1. inbox[i + 1] = inbox[j + 1] /\ i + 1 \in 1..Len(inbox) /\ j + 1 \in 1..Len(inbox)
      BY <1>1, <2>3
    <3>2. i + 1 = j + 1
      BY <3>1 DEF IInv, MailOn
    <3> QED BY <3>2, <1>1
  <2> QED BY <2>2, <2>3 DEF MailOn
<1> QED BY <1>2, <1>3, <1>4, <1>5, <1>6 DEF IInv

(* Every way out of dispatch.                                              *)
LEMMA DoneInv ==
  ASSUME IInv, NEW result \in {"done", "failed"}, pc # "idle", Done(result),
         UNCHANGED error, channel' \in [Requests -> Seq(Items)],
         \A r \in Requests : Len(channel'[r]) <= ChannelCapacity
  PROVE  IInv'
<1>0. current \in Requests /\ stage[current] = "running"
      /\ stage \in [Requests -> {"new", "dispatched", "running", "done", "failed"}]
      /\ stage' = [stage EXCEPT ![current] = result]
  BY DEF IInv, TypeOK, PlaceOn, CallsOn, Done
<1>1. TypeOK'
  BY <1>0 DEF Done, IInv, TypeOK
<1>2. PlaceOn' /\ AttemptsBounded'
  BY DEF Done, IInv, PlaceOn, AttemptsBounded
<1>3. CallsOn'
  BY DEF Done, IInv, CallsOn
<1>4. FreshOn'
  BY <1>0 DEF Done, IInv, FreshOn
<1>5. MailOn'
  <2>1. inbox' = inbox /\ inbox \in Seq(Requests)
    BY DEF Done, IInv, TypeOK
  <2>2. \A i \in 1..Len(inbox) : inbox[i] \in Requests /\ inbox[i] # current
    BY <1>0, <2>1 DEF IInv, MailOn
  <2>3. \A i \in 1..Len(inbox) : stage'[inbox[i]] = "dispatched"
    BY <1>0, <2>2 DEF IInv, MailOn
  <2> QED BY <2>1, <2>3 DEF IInv, MailOn
<1> QED BY <1>1, <1>2, <1>3, <1>4, <1>5 DEF IInv

(* Appending to a channel with room keeps the channels well formed.        *)
LEMMA ChannelGrows ==
  ASSUME channel \in [Requests -> Seq(Items)],
         \A r \in Requests : Len(channel[r]) <= ChannelCapacity,
         NEW r \in Requests, Room(r), NEW item \in Items,
         channel' = [channel EXCEPT ![r] = Append(@, item)]
  PROVE  /\ channel' \in [Requests -> Seq(Items)]
         /\ \A s \in Requests : Len(channel'[s]) <= ChannelCapacity
<1>1. channel[r] \in Seq(Items) /\ Append(channel[r], item) \in Seq(Items)
      /\ Len(Append(channel[r], item)) = Len(channel[r]) + 1 /\ Len(channel[r]) \in Nat
  OBVIOUS
<1>2. channel' \in [Requests -> Seq(Items)]
  BY <1>1
<1>3. ASSUME NEW s \in Requests PROVE Len(channel'[s]) <= ChannelCapacity
  <2>1. CASE s = r
    <3>1. channel'[s] = Append(channel[r], item)
      BY <2>1
    <3> QED BY <1>1, <3>1, WorkerAssumption DEF Room
  <2>2. CASE s # r
    <3>1. channel'[s] = channel[s]
      BY <2>2
    <3> QED BY <3>1
  <2> QED BY <2>1, <2>2
<1> QED BY <1>2, <1>3

(* A final failure is propagated.                                          *)
LEMMA PropagateInv == ASSUME IInv, Propagate PROVE IInv'
<1>1. current \in Requests /\ pc # "idle" /\ Failure(error) \in Items
  BY DEF Propagate, IInv, TypeOK, PlaceOn, Failure, Items
<1>2. channel' \in [Requests -> Seq(Items)] /\ \A r \in Requests : Len(channel'[r]) <= ChannelCapacity
  <2>1. CASE dropped[current]
    BY <2>1 DEF Propagate, IInv, TypeOK
  <2>2. CASE ~dropped[current]
    BY <1>1, <2>2, ChannelGrows DEF Propagate, IInv, TypeOK
  <2> QED BY <2>1, <2>2
<1> QED BY <1>1, <1>2, DoneInv DEF Propagate

(* The stream ends, or its consumer is found gone.                         *)
LEMMA StreamEndInv == ASSUME IInv, StreamEnds \/ StreamCancelled PROVE IInv'
<1>1. pc # "idle" /\ Done("done") /\ UNCHANGED <<error, channel>>
  BY DEF StreamEnds, StreamCancelled
<1>2. channel' \in [Requests -> Seq(Items)] /\ \A r \in Requests : Len(channel'[r]) <= ChannelCapacity
  BY <1>1 DEF IInv, TypeOK
<1> QED BY <1>1, <1>2, DoneInv

(* The steps that move items between worker and consumer, and the breaker, *)
(* leave everything but the channels alone.                                *)
LEMMA QuietInv ==
  ASSUME IInv,
         UNCHANGED <<inbox, current, pc, attempt, error, failures, signals, stage, executions>>,
         position' \in Nat, circuit_open' \in BOOLEAN,
         channel' \in [Requests -> Seq(Items)], received' \in [Requests -> Seq(Items)],
         dropped' \in [Requests -> BOOLEAN],
         \A r \in Requests : Len(channel'[r]) <= ChannelCapacity
  PROVE  IInv'
<1>1. TypeOK'
  BY DEF IInv, TypeOK
<1>2. PlaceOn' /\ CallsOn' /\ FreshOn' /\ AttemptsBounded'
  BY DEF IInv, PlaceOn, CallsOn, FreshOn, AttemptsBounded
<1>3. MailOn'
  BY MailKept DEF IInv
<1> QED BY <1>1, <1>2, <1>3 DEF IInv

(* A chunk is sent.                                                        *)
LEMMA StreamChunkInv == ASSUME IInv, StreamChunk PROVE IInv'
<1>1. current \in Requests /\ position + 1 \in Nat /\ Chunk(attempt, position + 1) \in Items
  BY DEF StreamChunk, IInv, TypeOK, PlaceOn, Chunk, Items
<1>2. channel' \in [Requests -> Seq(Items)] /\ \A r \in Requests : Len(channel'[r]) <= ChannelCapacity
  BY <1>1, ChannelGrows DEF StreamChunk, IInv, TypeOK
<1> QED BY <1>1, <1>2, QuietInv DEF StreamChunk, IInv, TypeOK

(* The consumers and the breaker.                                          *)
LEMMA EnvironmentInv ==
  ASSUME IInv, (\E r \in Requests : Receive(r) \/ Cancel(r)) \/ CircuitTurns
  PROVE  IInv'
<1>0. /\ channel \in [Requests -> Seq(Items)] /\ received \in [Requests -> Seq(Items)]
      /\ dropped \in [Requests -> BOOLEAN] /\ circuit_open \in BOOLEAN /\ position \in Nat
      /\ \A r \in Requests : Len(channel[r]) <= ChannelCapacity
  BY DEF IInv, TypeOK
<1>1. ASSUME NEW r \in Requests, Receive(r) PROVE IInv'
  <2>1. channel[r] \in Seq(Items) /\ channel[r] # <<>> /\ received[r] \in Seq(Items)
    BY <1>0, <1>1 DEF Receive
  <2>2. Tail(channel[r]) \in Seq(Items) /\ Len(Tail(channel[r])) = Len(channel[r]) - 1
        /\ Append(received[r], Head(channel[r])) \in Seq(Items) /\ Len(channel[r]) \in Nat
    BY <2>1
  <2>3. channel' \in [Requests -> Seq(Items)] /\ received' \in [Requests -> Seq(Items)]
    BY <1>0, <1>1, <2>2 DEF Receive
  <2>4. ASSUME NEW s \in Requests PROVE Len(channel'[s]) <= ChannelCapacity
    <3>1. channel'[s] = IF s = r THEN Tail(channel[r]) ELSE channel[s]
      BY <1>0, <1>1 DEF Receive
    <3>2. Len(channel[r]) <= ChannelCapacity /\ Len(channel[s]) <= ChannelCapacity
      BY <1>0
    <3> QED BY <2>2, <3>1, <3>2, WorkerAssumption
  <2> QED BY <1>0, <1>1, <2>3, <2>4, QuietInv DEF Receive, workerVars
<1>2. ASSUME NEW r \in Requests, Cancel(r) PROVE IInv'
  <2>1. channel' = [channel EXCEPT ![r] = <<>>] /\ <<>> \in Seq(Items) /\ Len(<<>>) = 0
    BY <1>2 DEF Cancel
  <2>2. channel' \in [Requests -> Seq(Items)] /\ dropped' \in [Requests -> BOOLEAN]
    BY <1>0, <1>2, <2>1 DEF Cancel
  <2>3. ASSUME NEW s \in Requests PROVE Len(channel'[s]) <= ChannelCapacity
    <3>1. channel'[s] = IF s = r THEN <<>> ELSE channel[s]
      BY <1>0, <2>1
    <3> QED BY <1>0, <2>1, <3>1, WorkerAssumption
  <2> QED BY <1>0, <1>2, <2>2, <2>3, QuietInv DEF Cancel, workerVars
<1>3. CASE CircuitTurns
  BY <1>0, <1>3, QuietInv DEF CircuitTurns, workerVars
<1> QED BY <1>1, <1>2, <1>3

(* The invariant holds in every reachable state.                           *)
THEOREM Invariance == Spec => []IInv
<1>1. ASSUME IInv, [Next]_vars PROVE IInv'
  <2>1. CASE \E r \in Requests : Tell(r)
    BY <1>1, <2>1, TellInv
  <2>2. CASE (\E r \in Requests : Receive(r) \/ Cancel(r)) \/ CircuitTurns
    BY <1>1, <2>2, EnvironmentInv
  <2>3. CASE Work
    <3>1. CASE Execute \/ (\E k \in ProviderErrors : ExecuteFails(k))
      BY <1>1, <3>1, CallInv
    <3>3. CASE \E k \in ProviderErrors : StreamFails(k)
      BY <1>1, <3>3, StreamFailsInv
    <3> QED BY <1>1, <2>3, <3>1, <3>3, StartInv, PassGateInv, StreamChunkInv,
               StreamEndInv, BackoffInv, PropagateInv DEF Work
  <2>4. CASE UNCHANGED vars
    BY <1>1, <2>4, QuietInv DEF vars, IInv, TypeOK
  <2> QED BY <1>1, <2>1, <2>2, <2>3, <2>4 DEF Next
<1> QED BY <1>1, InitInv, PTL DEF Spec

(* The worker's state is well formed for every retry policy, and no output *)
(* channel ever holds more than its capacity.                              *)
THEOREM TypeCorrect == Spec => []TypeOK
<1>1. IInv => TypeOK
  BY DEF IInv
<1> QED BY <1>1, Invariance, PTL

(* A request costs at most max_retries + 1 provider calls, and one if the  *)
(* deployment is not idempotent, however its attempts fail.                *)
THEOREM CallsBounded == Spec => []AttemptsBounded
<1>1. IInv => AttemptsBounded
  BY DEF IInv
<1> QED BY <1>1, Invariance, PTL

(* The worker implements the contract the engine's dispatch loop relies    *)
(* on: taking a request, giving it up with one idle signal, and stuttering *)
(* in between, are all its steps amount to.                                *)
THEOREM Refinement == Spec => ImplementsContract
<1> USE DEF Contract!Next, Contract!Tell, Contract!Start, Contract!Finish, Contract!vars
<1>1. Init => Contract!Init
  BY DEF Init, Contract!Init
<1>2. ASSUME IInv, [Next]_vars PROVE [Contract!Next]_(Contract!vars)
  <2>1. CASE \E r \in Requests : Tell(r)
    BY <2>1 DEF Tell
  <2>2. CASE \E r \in Requests : Receive(r) \/ Cancel(r)
    BY <2>2 DEF Receive, Cancel, workerVars
  <2>3. CASE CircuitTurns
    BY <2>3 DEF CircuitTurns, workerVars
  <2>4. CASE Start
    BY <1>2, <2>4 DEF Start, IInv, PlaceOn
  <2>5. CASE PassGate \/ Execute \/ StreamChunk \/ Backoff
    BY <2>5 DEF PassGate, Execute, StreamChunk, Backoff
  <2>6. CASE \E k \in ProviderErrors : ExecuteFails(k) \/ StreamFails(k)
    BY <2>6 DEF ExecuteFails, StreamFails
  <2>7. CASE StreamEnds \/ StreamCancelled \/ Propagate
    BY <1>2, <2>7 DEF StreamEnds, StreamCancelled, Propagate, Done, IInv, PlaceOn
  <2>8. CASE UNCHANGED vars
    BY <2>8 DEF vars
  <2> QED BY <1>2, <2>1, <2>2, <2>3, <2>4, <2>5, <2>6, <2>7, <2>8 DEF Next, Work
<1> QED BY <1>1, <1>2, Invariance, PTL DEF Spec, ImplementsContract, Contract!Spec
-----------------------------------------------------------------------------
(***************************************************************************)
(* What the consumer gets.  OutputIsHonest is about Output(r), what has    *)
(* been read and what waits in the channel together, and is not inductive: *)
(* where the next chunk may go depends on how far the current attempt has  *)
(* come (FrontOn), and that nothing follows an error depends on the        *)
(* request being over by then, so one not yet started has no output.       *)
(* The three parts of OutputIsHonest are restated over a sequence o.       *)
(***************************************************************************)
TerminalOn(o, st) ==
    \A i \in 1..Len(o) : o[i].error # NoError => i = Len(o) /\ st = "failed"

SeenOn(o, st, gone) ==
    st = "failed" /\ ~gone => o # <<>> /\ o[Len(o)].error # NoError

OrderOn(o) ==
    \A i \in 1..Len(o) : o[i].error = NoError =>
        IF o[i].position = 1
        THEN \A j \in 1 .. i - 1 : o[j].attempt < o[i].attempt
        ELSE i > 1 /\ o[i - 1] = Chunk(o[i].attempt, o[i].position - 1)

(* How the output of the request in hand relates to the current attempt.   *)
FrontOn(o, a, n, place) ==
    /\ \A i \in 1..Len(o) : o[i].attempt <= a
    /\ place \in {"gate", "execute"} \/ (place = "stream" /\ n = 0) =>
          \A i \in 1..Len(o) : o[i].attempt < a
    /\ place = "stream" /\ n # 0 => o # <<>> /\ o[Len(o)] = Chunk(a, n)

HonestOn(o, st, gone) == TerminalOn(o, st) /\ SeenOn(o, st, gone) /\ OrderOn(o)

(* The last error met agrees with the place in the loop.                   *)
ErrorOn ==
    /\ pc = "fail" => error # NoError
    /\ pc = "backoff" => IsRetryable(error)
    /\ pc = "gate" => error = NoError \/ IsRetryable(error)

HInv ==
    /\ \A r \in Requests :
          /\ stage[r] \in {"new", "dispatched"} => Output(r) = <<>>
          /\ HonestOn(Output(r), stage[r], dropped[r])
          /\ r = current /\ ~dropped[r] => FrontOn(Output(r), attempt, position, pc)
    /\ ErrorOn

(* An item read moves from the channel to what was received.               *)
LEMMA ReadKeepsOutput ==
  ASSUME NEW a \in Seq(Items), NEW b \in Seq(Items), b # <<>>
  PROVE  Append(a, Head(b)) \o Tail(b) = a \o b
<1>1. Head(b) \in Items /\ Tail(b) \in Seq(Items) /\ <<Head(b)>> \in Seq(Items)
  OBVIOUS
<1>2. Append(a, Head(b)) = a \o <<Head(b)>>
  BY <1>1, AppendIsConcat
<1>3. (a \o <<Head(b)>>) \o Tail(b) = a \o (<<Head(b)>> \o Tail(b))
  BY <1>1, ConcatAssociative
<1>4. <<Head(b)>> \o Tail(b) = b
  BY <1>1
<1> QED BY <1>2, <1>3, <1>4

(* An item sent is the last item of the output.                            *)
LEMMA SendExtendsOutput ==
  ASSUME NEW a \in Seq(Items), NEW b \in Seq(Items), NEW x \in Items
  PROVE  a \o Append(b, x) = Append(a \o b, x)
<1>1. <<x>> \in Seq(Items) /\ a \o b \in Seq(Items)
  OBVIOUS
<1>2. Append(b, x) = b \o <<x>> /\ Append(a \o b, x) = (a \o b) \o <<x>>
  BY <1>1, AppendIsConcat
<1>3. (a \o b) \o <<x>> = a \o (b \o <<x>>)
  BY <1>1, ConcatAssociative
<1> QED BY <1>2, <1>3

(* A chunk of the current attempt, sent where FrontOn says, keeps order.   *)
LEMMA ChunkKeepsHonest ==
  ASSUME NEW o \in Seq(Items), NEW a \in Nat, NEW n \in Nat, NEW gone,
         HonestOn(o, "running", gone), FrontOn(o, a, n, "stream")
  PROVE  LET new == Append(o, Chunk(a, n + 1))
         IN  HonestOn(new, "running", gone) /\ FrontOn(new, a, n + 1, "stream")
<1> DEFINE x == Chunk(a, n + 1)
           new == Append(o, x)
<1>1. x \in Items /\ x.error = NoError /\ x.attempt = a /\ x.position = n + 1
  BY DEF Chunk, Items
<1> HIDE DEF x
<1>2. /\ Len(o) \in Nat /\ Len(new) = Len(o) + 1 /\ new[Len(o) + 1] = x
      /\ \A i \in 1..Len(o) : new[i] = o[i] /\ o[i] \in Items
      /\ new # <<>>
  BY <1>1
<1> HIDE DEF new
<1>3. \A i \in 1..Len(new) : i \in 1..Len(o) \/ i = Len(o) + 1
  BY <1>2
<1>4. \A i \in 1..Len(o) : o[i].error = NoError
  BY DEF HonestOn, TerminalOn
<1>5. TerminalOn(new, "running")
  BY <1>1, <1>2, <1>3, <1>4 DEF TerminalOn
<1>6. SeenOn(new, "running", gone)
  BY DEF SeenOn
<1>7. OrderOn(new)
  <2> SUFFICES ASSUME NEW i \in 1..Len(new), new[i].error = NoError
               PROVE  IF new[i].position = 1
                      THEN \A j \in 1 .. i - 1 : new[j].attempt < new[i].attempt
                      ELSE i > 1 /\ new[i - 1] = Chunk(new[i].attempt, new[i].position - 1)
    BY DEF OrderOn
  <2>1. CASE i \in 1..Len(o)
    <3>1. IF o[i].position = 1
          THEN \A j \in 1 .. i - 1 : o[j].attempt < o[i].attempt
          ELSE i > 1 /\ o[i - 1] = Chunk(o[i].attempt, o[i].position - 1)
      BY <2>1, <1>2, <1>4 DEF HonestOn, OrderOn
    <3>2. new[i] = o[i] /\ \A j \in 1..i - 1 : new[j] = o[j]
      BY <2>1, <1>2
    <3>3. i > 1 => i - 1 \in 1..i - 1
      BY <2>1, <1>2
    <3> QED BY <3>1, <3>2, <3>3
  <2>2. CASE i = Len(o) + 1 /\ n = 0
    <3>1. \A j \in 1..Len(o) : o[j].attempt < a
      BY <2>2 DEF FrontOn
    <3>2. new[i] = x /\ i - 1 = Len(o) /\ \A j \in 1..Len(o) : new[j] = o[j]
      BY <2>2, <1>2
    <3> QED BY <3>1, <3>2, <1>1, <2>2
  <2>3. CASE i = Len(o) + 1 /\ n # 0
    <3>1. o # <<>> /\ o[Len(o)] = Chunk(a, n)
      BY <2>3 DEF FrontOn
    <3>2. Len(o) \in 1..Len(o) /\ i - 1 = Len(o) /\ i > 1
      BY <3>1, <2>3, <1>2
    <3>3. new[i] = x /\ new[i - 1] = Chunk(a, n) /\ n + 1 # 1 /\ n + 1 - 1 = n
      BY <3>1, <3>2, <2>3, <1>2
    <3> QED BY <3>2, <3>3, <1>1
  <2> QED BY <2>1, <2>2, <2>3, <1>3
<1>8. FrontOn(new, a, n + 1, "stream")
  <2>1. \A i \in 1..Len(new) : new[i].attempt <= a
    BY <1>1, <1>2, <1>3 DEF FrontOn
  <2>2. n + 1 # 0 /\ new[Len(new)] = Chunk(a, n + 1)
    BY <1>2 DEF x
  <2> QED BY <2>1, <2>2, <1>2 DEF FrontOn
<1> QED BY <1>5, <1>6, <1>7, <1>8 DEF HonestOn, new, x

(* The terminal error keeps the output honest and makes it a failure.      *)
LEMMA FailureKeepsHonest ==
  ASSUME NEW o \in Seq(Items), NEW k \in Kinds, k # NoError,
         HonestOn(o, "running", FALSE)
  PROVE  HonestOn(Append(o, Failure(k)), "failed", FALSE)
<1> DEFINE x == Failure(k)
           new == Append(o, x)
<1>1. x \in Items /\ x.error # NoError
  BY DEF Failure, Items
<1> HIDE DEF x
<1>2. /\ Len(o) \in Nat /\ Len(new) = Len(o) + 1 /\ new[Len(o) + 1] = x
      /\ \A i \in 1..Len(o) : new[i] = o[i] /\ o[i] \in Items
      /\ new # <<>>
  BY <1>1
<1> HIDE DEF new
<1>3. \A i \in 1..Len(new) : i \in 1..Len(o) \/ i = Len(o) + 1
  BY <1>2
<1>4. \A i \in 1..Len(o) : o[i].error = NoError
  BY DEF HonestOn, TerminalOn
<1>5. TerminalOn(new, "failed")
  BY <1>1, <1>2, <1>3, <1>4 DEF TerminalOn
<1>6. SeenOn(new, "failed", FALSE)
  BY <1>1, <1>2 DEF SeenOn
<1>7. OrderOn(new)
  <2> SUFFICES ASSUME NEW i \in 1..Len(new), new[i].error = NoError
               PROVE  IF new[i].position = 1
                      THEN \A j \in 1 .. i - 1 : new[j].attempt < new[i].attempt
                      ELSE i > 1 /\ new[i - 1] = Chunk(new[i].attempt, new[i].position - 1)
    BY DEF OrderOn
  <2>1. i \in 1..Len(o)
    BY <1>1, <1>2, <1>3
  <2>2. IF o[i].position = 1
        THEN \A j \in 1 .. i - 1 : o[j].attempt < o[i].attempt
        ELSE i > 1 /\ o[i - 1] = Chunk(o[i].attempt, o[i].position - 1)
    BY <2>1, <1>4 DEF HonestOn, OrderOn
  <2>3. new[i] = o[i] /\ \A j \in 1..i - 1 : new[j] = o[j]
    BY <2>1, <1>2
  <2>4. i > 1 => i - 1 \in 1..i - 1
    BY <2>1, <1>2
  <2> QED BY <2>2, <2>3, <2>4
<1> QED BY <1>5, <1>6, <1>7 DEF HonestOn, new, x

(* What was read before the consumer went away stays honest.               *)
LEMMA PrefixHonest ==
  ASSUME NEW a \in Seq(Items), NEW b \in Seq(Items), NEW st, NEW gone,
         HonestOn(a \o b, st, gone)
  PROVE  HonestOn(a, st, TRUE)
<1> DEFINE o == a \o b
<1>1. /\ Len(a) \in Nat /\ Len(b) \in Nat /\ Len(o) = Len(a) + Len(b)
      /\ \A i \in 1..Len(a) : o[i] = a[i] /\ i \in 1..Len(o)
  OBVIOUS
<1>2. TerminalOn(o, st) /\ OrderOn(o)
  BY DEF HonestOn
<1> HIDE DEF o
<1>3. TerminalOn(a, st)
  BY <1>1, <1>2 DEF TerminalOn
<1>4. OrderOn(a)
  <2> SUFFICES ASSUME NEW i \in 1..Len(a), a[i].error = NoError
               PROVE  IF a[i].position = 1
                      THEN \A j \in 1 .. i - 1 : a[j].attempt < a[i].attempt
                      ELSE i > 1 /\ a[i - 1] = Chunk(a[i].attempt, a[i].position - 1)
    BY DEF OrderOn
  <2>1. IF o[i].position = 1
        THEN \A j \in 1 .. i - 1 : o[j].attempt < o[i].attempt
        ELSE i > 1 /\ o[i - 1] = Chunk(o[i].attempt, o[i].position - 1)
    BY <1>1, <1>2 DEF OrderOn
  <2>2. o[i] = a[i] /\ \A j \in 1..i - 1 : o[j] = a[j]
    BY <1>1
  <2>3. i > 1 => i - 1 \in 1..i - 1
    BY <1>1
  <2> QED BY <2>1, <2>2, <2>3
<1> QED BY <1>3, <1>4 DEF HonestOn, SeenOn

(* No request has output before it is started.                             *)
LEMMA InitHonest == Init => HInv
<1> SUFFICES ASSUME Init PROVE HInv
  OBVIOUS
<1>1. \A r \in Requests : Output(r) = <<>> /\ stage[r] = "new" /\ r # current
  BY WorkerAssumption DEF Init, Output
<1>2. HonestOn(<<>>, "new", FALSE)
  BY DEF HonestOn, TerminalOn, SeenOn, OrderOn
<1>3. ErrorOn
  BY DEF Init, ErrorOn
<1> QED BY <1>1, <1>2, <1>3 DEF HInv, Init

(* The output of r, its stage and its consumer survive a step.             *)
Same(r) ==
    Output(r)' = Output(r) /\ stage'[r] = stage[r] /\ dropped'[r] = dropped[r]

(* A step of the loop that sends nothing and ends nothing keeps HInv when  *)
(* it keeps FrontOn and ErrorOn.                                           *)
LEMMA SilentHonest ==
  ASSUME HInv, \A r \in Requests : Same(r), current' = current,
         \A o : FrontOn(o, attempt, position, pc) /\ (\A i \in 1..Len(o) : o[i].attempt \in Nat)
                  => FrontOn(o, attempt', position', pc'),
         \A r \in Requests : \A i \in 1..Len(Output(r)) : Output(r)[i].attempt \in Nat,
         ErrorOn'
  PROVE  HInv'
BY DEF HInv, Same

(* The outputs are sequences of items.                                     *)
LEMMA OutputType ==
  ASSUME IInv, NEW r \in Requests
  PROVE  /\ received[r] \in Seq(Items) /\ channel[r] \in Seq(Items) /\ Output(r) \in Seq(Items)
         /\ DOMAIN Output(r) = 1..Len(Output(r))
         /\ \A i \in 1..Len(Output(r)) : Output(r)[i] \in Items /\ Output(r)[i].attempt \in Nat
<1>1. received[r] \in Seq(Items) /\ channel[r] \in Seq(Items)
  BY DEF IInv, TypeOK
<1>2. Output(r) \in Seq(Items)
  BY <1>1 DEF Output
<1>3. \A i \in 1..Len(Output(r)) : Output(r)[i] \in Items
  BY <1>2
<1> QED BY <1>1, <1>2, <1>3 DEF Items

(* A request ends: its stage becomes result and it is no longer in hand.   *)
LEMMA EndHonest ==
  ASSUME IInv, HInv, pc # "idle", NEW c \in Requests, c = current,
         NEW result \in {"done", "failed"}, Done(result),
         HonestOn(Output(c)', result, dropped[c]),
         \A r \in Requests : r # c => Output(r)' = Output(r)
  PROVE  HInv'
<1>1. /\ current' = NoRequest /\ pc' = "idle" /\ dropped' = dropped
      /\ stage \in [Requests -> {"new", "dispatched", "running", "done", "failed"}]
      /\ stage' = [stage EXCEPT ![c] = result]
  BY DEF IInv, TypeOK, PlaceOn, Done
<1>2. ErrorOn'
  BY <1>1 DEF ErrorOn
<1>3. \A r \in Requests : r # current'
  BY <1>1, WorkerAssumption
<1>4. ASSUME NEW r \in Requests
      PROVE  /\ stage'[r] \in {"new", "dispatched"} => Output(r)' = <<>>
             /\ HonestOn(Output(r)', stage'[r], dropped'[r])
  <2>1. CASE r = c
    BY <1>1, <2>1
  <2>2. CASE r # c
    BY <1>1, <2>2 DEF HInv
  <2> QED BY <2>1, <2>2
<1> QED BY <1>2, <1>3, <1>4 DEF HInv

(* Every step of the worker, its consumers and the breaker keeps every     *)
(* output honest.                                                          *)
LEMMA HonestStep == ASSUME IInv, HInv, [Next]_vars PROVE HInv'
<1>t. /\ pc # "idle" => current \in Requests /\ stage[current] = "running"
      /\ attempt \in Nat /\ position \in Nat
      /\ stage \in [Requests -> {"new", "dispatched", "running", "done", "failed"}]
      /\ channel \in [Requests -> Seq(Items)] /\ received \in [Requests -> Seq(Items)]
      /\ dropped \in [Requests -> BOOLEAN]
  BY DEF IInv, TypeOK, PlaceOn, CallsOn
<1>o. \A r \in Requests : \A i \in 1..Len(Output(r)) : Output(r)[i].attempt \in Nat
  BY OutputType
<1>e. ErrorOn
  BY DEF HInv
<1>s. ASSUME UNCHANGED <<channel, received, stage, dropped>>
      PROVE  \A r \in Requests : Same(r)
  BY <1>s DEF Same, Output
<1>1. ASSUME NEW r \in Requests, Tell(r) PROVE HInv'
  <2>1. /\ stage[r] = "new" /\ stage' = [stage EXCEPT ![r] = "dispatched"]
        /\ UNCHANGED <<current, pc, attempt, position, error, channel, received, dropped>>
    BY <1>1 DEF Tell
  <2>2. \A x \in Requests : Output(x)' = Output(x) /\ dropped'[x] = dropped[x]
    BY <2>1 DEF Output
  <2>3. Output(r) = <<>> /\ HonestOn(<<>>, "dispatched", dropped[r])
    BY <2>1 DEF HInv, HonestOn, TerminalOn, SeenOn, OrderOn
  <2>4. \A x \in Requests : x # r => stage'[x] = stage[x]
    BY <2>1, <1>t
  <2>5. stage'[r] = "dispatched"
    BY <2>1, <1>t
  <2>6. ErrorOn'
    BY <1>e, <2>1 DEF ErrorOn
  <2> QED BY <2>1, <2>2, <2>3, <2>4, <2>5, <2>6 DEF HInv
<1>2. CASE Start
  <2> DEFINE x == Head(inbox)
  <2>1. /\ current' = x /\ pc' = "gate" /\ attempt' = 0 /\ position' = 0 /\ error' = NoError
        /\ stage' = [stage EXCEPT ![x] = "running"]
        /\ UNCHANGED <<channel, received, dropped>>
        /\ x \in Requests /\ stage[x] = "dispatched"
    <3>1. inbox \in Seq(Requests) /\ inbox # <<>>
      BY <1>2 DEF Start, IInv, TypeOK
    <3>2. x = inbox[1] /\ x \in Requests /\ 1 \in 1..Len(inbox)
      BY <3>1
    <3>3. stage[x] = "dispatched"
      BY <3>2 DEF IInv, MailOn
    <3> QED BY <1>2, <3>2, <3>3 DEF Start
  <2> HIDE DEF x
  <2>2. \A r \in Requests : Output(r)' = Output(r) /\ dropped'[r] = dropped[r]
    BY <2>1 DEF Output
  <2>3. /\ Output(x) = <<>> /\ HonestOn(<<>>, "running", dropped[x])
        /\ FrontOn(<<>>, 0, 0, "gate")
    BY <2>1 DEF HInv, HonestOn, TerminalOn, SeenOn, OrderOn, FrontOn
  <2>4. stage'[x] = "running" /\ \A r \in Requests : r # x => stage'[r] = stage[r]
    BY <2>1, <1>t
  <2>5. ErrorOn'
    BY <2>1 DEF ErrorOn
  <2>6. \A r \in Requests : r # x => r # current'
    BY <2>1
  <2> QED BY <2>1, <2>2, <2>3, <2>4, <2>5, <2>6 DEF HInv
<1>3. CASE PassGate
  <2>1. \A r \in Requests : Same(r)
    BY <1>3, <1>s DEF PassGate
  <2>2. ErrorOn'
    BY <1>3 DEF PassGate, ErrorOn, NoError
  <2>3. \A o : FrontOn(o, attempt, position, pc) => FrontOn(o, attempt', position', pc')
    BY <1>3 DEF PassGate, FrontOn
  <2> QED BY <1>3, <1>o, <2>1, <2>2, <2>3, SilentHonest DEF PassGate
<1>4. CASE Execute
  <2>1. \A r \in Requests : Same(r)
    BY <1>4, <1>s DEF Execute
  <2>2. ErrorOn'
    BY <1>4 DEF Execute, ErrorOn
  <2>3. \A o : FrontOn(o, attempt, position, pc) => FrontOn(o, attempt', position', pc')
    BY <1>4 DEF Execute, FrontOn
  <2> QED BY <1>4, <1>o, <2>1, <2>2, <2>3, SilentHonest DEF Execute
<1>5. ASSUME NEW k \in ProviderErrors, ExecuteFails(k) \/ StreamFails(k) PROVE HInv'
  <2>0. /\ pc' \in {"backoff", "fail"} /\ error' = k /\ (pc' = "backoff" => Decide(attempt, k))
        /\ UNCHANGED <<current, attempt, position, channel, received, stage, dropped>>
    BY <1>5 DEF ExecuteFails, StreamFails
  <2>1. \A r \in Requests : Same(r)
    BY <2>0, <1>s
  <2>2. ErrorOn'
    <3>1. k \in Kinds /\ k # NoError
      BY WorkerAssumption DEF Kinds, NoError
    <3> QED BY <2>0, <3>1 DEF ErrorOn, Decide
  <2>3. \A o : FrontOn(o, attempt, position, pc) => FrontOn(o, attempt', position', pc')
    BY <2>0 DEF FrontOn
  <2> QED BY <2>0, <1>o, <2>1, <2>2, <2>3, SilentHonest
<1>6. CASE Backoff
  <2>1. \A r \in Requests : Same(r)
    BY <1>6, <1>s DEF Backoff
  <2>2. ErrorOn'
    BY <1>6, <1>e DEF Backoff, ErrorOn
  <2>3. ASSUME NEW o, FrontOn(o, attempt, position, pc), \A i \in 1..Len(o) : o[i].attempt \in Nat
        PROVE  FrontOn(o, attempt', position', pc')
    <3>1. attempt' = attempt + 1 /\ pc' = "gate"
      BY <1>6 DEF Backoff
    <3>2. \A i \in 1..Len(o) : o[i].attempt < attempt + 1
      BY <2>3, <1>t DEF FrontOn
    <3>3. \A i \in 1..Len(o) : o[i].attempt <= attempt + 1
      BY <2>3, <3>2, <1>t
    <3> QED BY <3>1, <3>2, <3>3 DEF FrontOn
  <2> QED BY <1>6, <1>o, <2>1, <2>2, <2>3, SilentHonest DEF Backoff
<1>7. CASE StreamChunk
  <2>1. /\ pc = "stream" /\ pc' = pc /\ current' = current /\ attempt' = attempt
        /\ position' = position + 1 /\ ~dropped[current] /\ current \in Requests
        /\ channel' = [channel EXCEPT ![current] = Append(@, Chunk(attempt, position + 1))]
        /\ UNCHANGED <<received, stage, dropped, error>>
    BY <1>7, <1>t DEF StreamChunk
  <2>2. Chunk(attempt, position + 1) \in Items
    BY <1>t DEF Chunk, Items
  <2>3. Output(current)' = Append(Output(current), Chunk(attempt, position + 1))
    <3>1. channel'[current] = Append(channel[current], Chunk(attempt, position + 1))
      BY <2>1, <1>t
    <3>2. received[current] \in Seq(Items) /\ channel[current] \in Seq(Items)
      BY <2>1, <1>t
    <3>3. received[current] \o Append(channel[current], Chunk(attempt, position + 1))
            = Append(received[current] \o channel[current], Chunk(attempt, position + 1))
      BY <2>2, <3>2, SendExtendsOutput
    <3> QED BY <2>1, <3>1, <3>3 DEF Output
  <2>4. \A r \in Requests : r # current => Output(r)' = Output(r)
    BY <2>1, <1>t DEF Output
  <2>5. /\ HonestOn(Output(current), "running", dropped[current])
        /\ FrontOn(Output(current), attempt, position, "stream")
        /\ stage[current] = "running"
    BY <2>1, <1>t DEF HInv
  <2>6. /\ HonestOn(Output(current)', "running", dropped[current])
        /\ FrontOn(Output(current)', attempt, position + 1, "stream")
    BY <2>1, <2>3, <2>5, <1>t, OutputType, ChunkKeepsHonest
  <2>7. ErrorOn'
    BY <1>e, <2>1 DEF ErrorOn
  <2>8. ASSUME NEW r \in Requests
        PROVE  /\ stage'[r] \in {"new", "dispatched"} => Output(r)' = <<>>
               /\ HonestOn(Output(r)', stage'[r], dropped'[r])
               /\ r = current' /\ ~dropped'[r] => FrontOn(Output(r)', attempt', position', pc')
    <3>1. CASE r = current
      BY <3>1, <2>1, <2>5, <2>6
    <3>2. CASE r # current
      BY <3>2, <2>1, <2>4 DEF HInv
    <3> QED BY <3>1, <3>2
  <2> QED BY <2>7, <2>8 DEF HInv
<1>8. CASE StreamEnds \/ StreamCancelled
  <2>c. PICK c \in Requests : c = current
    BY <1>8, <1>t DEF StreamEnds, StreamCancelled
  <2>1. pc # "idle" /\ Done("done") /\ channel' = channel /\ received' = received
    BY <2>c, <1>8 DEF StreamEnds, StreamCancelled, Done
  <2>2. \A r \in Requests : Output(r)' = Output(r)
    BY <2>c, <2>1 DEF Output
  <2>3. HonestOn(Output(c)', "done", dropped[c])
    BY <2>c, <2>1, <2>2, <1>t DEF HInv, HonestOn, TerminalOn, SeenOn
  <2> QED BY <2>c, <2>1, <2>2, <2>3, EndHonest
<1>9. CASE Propagate
  <2>c. PICK c \in Requests : c = current
    BY <1>9, <1>t DEF Propagate
  <2>1. /\ pc = "fail" /\ Done("failed") /\ received' = received
        /\ channel' = IF dropped[c] THEN channel
                      ELSE [channel EXCEPT ![c] = Append(@, Failure(error))]
    BY <2>c, <1>9, <1>t DEF Propagate, Done
  <2>2. \A r \in Requests : r # c => Output(r)' = Output(r)
    BY <2>c, <2>1, <1>t DEF Output
  <2>3. HonestOn(Output(c), "running", dropped[c])
    BY <2>c, <2>1, <1>t DEF HInv
  <2>4. HonestOn(Output(c)', "failed", dropped[c])
    <3>1. CASE dropped[c]
      <4>1. Output(c)' = Output(c)
        BY <2>c, <2>1, <3>1 DEF Output
      <4> QED BY <2>c, <4>1, <2>3, <3>1 DEF HonestOn, TerminalOn, SeenOn
    <3>2. CASE ~dropped[c]
      <4>1. error \in Kinds /\ error # NoError /\ Failure(error) \in Items
        BY <2>c, <2>1, <1>e DEF ErrorOn, IInv, TypeOK, Failure, Items
      <4>2. /\ channel'[c] = Append(channel[c], Failure(error))
            /\ received[c] \in Seq(Items) /\ channel[c] \in Seq(Items)
        BY <2>c, <2>1, <3>2, <1>t
      <4>3. Output(c)' = Append(Output(c), Failure(error))
        <5>1. received[c] \o Append(channel[c], Failure(error))
                = Append(received[c] \o channel[c], Failure(error))
          BY <4>1, <4>2, SendExtendsOutput
        <5> QED BY <2>1, <4>2, <5>1 DEF Output
      <4>4. dropped[c] = FALSE
        BY <2>c, <3>2, <2>1, <1>t
      <4>5. HonestOn(Append(Output(c), Failure(error)), "failed", FALSE)
        BY <2>c, <2>1, <2>3, <4>1, <4>4, OutputType, FailureKeepsHonest
      <4> QED BY <2>c, <4>3, <4>4, <4>5
    <3> QED BY <2>c, <3>1, <3>2
  <2> QED BY <2>c, <2>1, <2>2, <2>4, EndHonest
<1>10. ASSUME NEW r \in Requests, Receive(r) PROVE HInv'
  <2>1. /\ channel[r] # <<>> /\ channel[r] \in Seq(Items) /\ received[r] \in Seq(Items)
        /\ received' = [received EXCEPT ![r] = Append(@, Head(channel[r]))]
        /\ channel' = [channel EXCEPT ![r] = Tail(@)]
        /\ UNCHANGED <<current, pc, attempt, position, error, dropped, stage>>
    BY <1>10, <1>t DEF Receive, workerVars
  <2>2. Output(r)' = Output(r)
    <3>1. received'[r] = Append(received[r], Head(channel[r])) /\ channel'[r] = Tail(channel[r])
      BY <2>1, <1>t
    <3> QED BY <3>1, <2>1, ReadKeepsOutput DEF Output
  <2>3. \A x \in Requests : x # r => Output(x)' = Output(x)
    BY <2>1, <1>t DEF Output
  <2>4. \A x \in Requests : Same(x)
    BY <2>1, <2>2, <2>3 DEF Same
  <2>5. ErrorOn'
    BY <1>e, <2>1 DEF ErrorOn
  <2> QED BY <2>1, <2>4, <2>5, <1>o, SilentHonest
<1>11. ASSUME NEW r \in Requests, Cancel(r) PROVE HInv'
  <2>1. /\ stage[r] # "new" /\ channel[r] \in Seq(Items) /\ received[r] \in Seq(Items)
        /\ dropped' = [dropped EXCEPT ![r] = TRUE]
        /\ channel' = [channel EXCEPT ![r] = <<>>]
        /\ UNCHANGED <<current, pc, attempt, position, error, received, stage>>
    BY <1>11, <1>t DEF Cancel, workerVars
  <2>2. Output(r)' = received[r]
    <3>1. channel'[r] = <<>>
      BY <2>1, <1>t
    <3>2. received[r] \o <<>> = received[r]
      BY <2>1, ConcatEmptySeq
    <3> QED BY <2>1, <3>1, <3>2 DEF Output
  <2>3. \A x \in Requests : x # r => Output(x)' = Output(x) /\ dropped'[x] = dropped[x]
    BY <2>1, <1>t DEF Output
  <2>4. dropped'[r] = TRUE
    BY <2>1, <1>t
  <2>5. HonestOn(received[r], stage[r], TRUE)
    <3>1. HonestOn(received[r] \o channel[r], stage[r], dropped[r])
      BY DEF HInv, Output
    <3> QED BY <2>1, <3>1, PrefixHonest
  <2>6. stage[r] \in {"new", "dispatched"} => received[r] = <<>>
    <3>1. stage[r] \in {"new", "dispatched"} => received[r] \o channel[r] = <<>>
      BY DEF HInv, Output
    <3>2. received[r] \o channel[r] = <<>> => received[r] = <<>>
      BY <2>1, ConcatEqualIffEmpty
    <3> QED BY <3>1, <3>2
  <2>7. ErrorOn'
    BY <1>e, <2>1 DEF ErrorOn
  <2>8. ASSUME NEW x \in Requests
        PROVE  /\ stage'[x] \in {"new", "dispatched"} => Output(x)' = <<>>
               /\ HonestOn(Output(x)', stage'[x], dropped'[x])
               /\ x = current' /\ ~dropped'[x] => FrontOn(Output(x)', attempt', position', pc')
    <3>1. CASE x = r
      BY <3>1, <2>1, <2>2, <2>4, <2>5, <2>6
    <3>2. CASE x # r
      BY <3>2, <2>1, <2>3 DEF HInv
    <3> QED BY <3>1, <3>2
  <2> QED BY <2>7, <2>8 DEF HInv
<1>12. CASE CircuitTurns \/ UNCHANGED vars
  <2>1. UNCHANGED <<current, pc, attempt, position, error, channel, received, dropped, stage>>
    BY <1>12 DEF CircuitTurns, workerVars, vars
  <2>2. \A r \in Requests : Same(r)
    BY <2>1, <1>s
  <2>3. ErrorOn'
    BY <1>e, <2>1 DEF ErrorOn
  <2> QED BY <2>1, <2>2, <2>3, <1>o, SilentHonest
<1> QED BY <1>1, <1>2, <1>3, <1>4, <1>5, <1>6, <1>7, <1>8, <1>9, <1>10, <1>11, <1>12 DEF Next, Work

(* The two invariants together.                                            *)
THEOREM HonestInvariance == Spec => [](IInv /\ HInv)
<1>1. IInv /\ HInv /\ [Next]_vars => HInv'
  BY HonestStep
<1> QED BY <1>1, InitHonest, Invariance, PTL DEF Spec

(* On every way out of execute_with_retries, and at any time, the consumer *)
(* finds ordered attempts, at most one error, as the last item, and that   *)
(* error if the request failed: a truncated answer never looks complete.   *)
THEOREM OutputHonest == Spec => []OutputIsHonest
<1>1. IInv /\ HInv => OutputIsHonest
  <2> SUFFICES ASSUME IInv, HInv PROVE OutputIsHonest
    OBVIOUS
  <2>1. \A r \in Requests : DOMAIN Output(r) = 1..Len(Output(r))
    BY OutputType
  <2>2. \A r \in Requests : HonestOn(Output(r), stage[r], dropped[r])
    BY DEF HInv
  <2>3. OneTerminalError
    BY <2>1, <2>2 DEF OneTerminalError, HonestOn, TerminalOn
  <2>4. FailureIsSeen
    BY <2>2 DEF FailureIsSeen, HonestOn, SeenOn
  <2>5. AttemptsInOrder
    BY <2>1, <2>2 DEF AttemptsInOrder, HonestOn, OrderOn
  <2> QED BY <2>3, <2>4, <2>5 DEF OutputIsHonest
<1> QED BY <1>1, HonestInvariance, PTL

(* Every provider call, retries included, is made on a breaker that lets   *)
(* calls pass and after no error but a retryable one.                      *)
THEOREM AttemptsGated == Spec => GatedAttempts
<1>1. IInv /\ HInv /\ [Next]_vars =>
        [pc # "execute" /\ pc' = "execute" =>
            ~circuit_open /\ (error = NoError \/ IsRetryable(error))]_vars
  BY DEF Next, Work, Tell, Receive, Cancel, CircuitTurns, Start, PassGate, Execute, ExecuteFails,
         StreamChunk, StreamFails, StreamEnds, StreamCancelled, Backoff, Propagate, Done,
         workerVars, vars, HInv, ErrorOn
<1> QED BY <1>1, HonestInvariance, PTL DEF Spec, GatedAttempts
=============================================================================
