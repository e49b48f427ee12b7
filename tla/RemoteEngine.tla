---------------------------- MODULE RemoteEngine ----------------------------
(***************************************************************************)
(* The per-replica HTTP orchestrator of inference-remote-core:             *)
(* RemoteEngineCoreActor (engine.rs) with its bounded priority queue       *)
(* (queue.rs), its pool of RemoteWorkerActors seen from the engine         *)
(* (worker.rs, RemoteWorkerActor::dispatch), the unbounded idle channel    *)
(* and the forwarder task that lifts each signal into the engine's own     *)
(* mailbox.                                                                *)
(*                                                                         *)
(* The engine actor handles one message at a time, so each of its two      *)
(* handlers is one step.  Its mailbox is not a sequence here: an Add that  *)
(* has been sent but not handled has changed nothing, so the order in      *)
(* which Add steps are taken is the order of the mailbox, and WorkerIdle   *)
(* messages carry no data, so the ones in the mailbox are a number.        *)
(*                                                                         *)
(* What a worker does with a request between taking it and signalling idle *)
(* is the subject of RemoteWorker; here it runs and then either finishes   *)
(* or panics.  A panicked worker is gone: the Props factory of pre_start   *)
(* can produce its slot once only.                                         *)
(***************************************************************************)
EXTENDS Integers, FiniteSets, Sequences

CONSTANTS
    Requests,       \* the AddRequests clients may send, each once
    NoRequest,      \* what an idle worker executes
    Priorities,     \* the priority classes clients use; larger is served first
    WorkerCount,    \* RemoteEngineConfig::worker_count
    QueueCapacity,  \* RemoteEngineConfig::queue_capacity
    MaxPanics       \* bound: how many workers may panic

ASSUME RequestsAssumption == IsFiniteSet(Requests) /\ NoRequest \notin Requests
ASSUME PrioritiesAssumption == Priorities \subseteq Nat
ASSUME SizesAssumption ==
    WorkerCount \in Nat /\ QueueCapacity \in Nat /\ MaxPanics \in Nat

Workers == 1..WorkerCount

VARIABLES
    queue,      \* RequestQueue::inner, a set of PriorityRequests
    next_seq,   \* RequestQueue::next_seq
    idle,       \* WorkerEntry::idle, as the engine believes it
    metrics,    \* EngineMetrics
    inbox,      \* the mailbox of each worker
    running,    \* the request each worker is executing
    alive,      \* workers that have not panicked
    signals,    \* () values in the idle channel
    wakeups,    \* WorkerIdle messages in the engine's mailbox
    stage       \* history: how far each request has come

vars == <<queue, next_seq, idle, metrics, inbox, running, alive, signals,
          wakeups, stage>>

Stages == {"new", "rejected", "queued", "dispatched", "running", "done", "lost"}

PriorityRequest ==
    [req : Requests, priority : Priorities, arrival_seq : Nat]

EngineMetrics ==
    [queued : Nat, in_flight : Nat, completed : Nat, rejected_backpressure : Nat]

(* The initial state after pre_start: every worker spawned and idle.       *)
Init ==
    /\ queue = {}
    /\ next_seq = 0
    /\ idle = [w \in Workers |-> TRUE]
    /\ metrics = [queued |-> 0, in_flight |-> 0, completed |-> 0,
                  rejected_backpressure |-> 0]
    /\ inbox = [w \in Workers |-> <<>>]
    /\ running = [w \in Workers |-> NoRequest]
    /\ alive = [w \in Workers |-> TRUE]
    /\ signals = 0
    /\ wakeups = 0
    /\ stage = [r \in Requests |-> "new"]

-----------------------------------------------------------------------------
(* RequestQueue.                                                           *)

(* Fault: equals served newest first (arrival_seq not flipped in cmp).     *)
BeforeNewestFirst(e, f) ==
    \/ e.priority > f.priority
    \/ e.priority = f.priority /\ e.arrival_seq > f.arrival_seq

(* The heap's order: the higher priority first, the older of equals first. *)
Before(e, f) ==
    \/ e.priority > f.priority
    \/ e.priority = f.priority /\ e.arrival_seq < f.arrival_seq

IsFull == Cardinality(queue) >= QueueCapacity

Push(r, p) == queue \cup {[req |-> r, priority |-> p, arrival_seq |-> next_seq]}

-----------------------------------------------------------------------------
(* The dispatch loop.                                                      *)

IdleWorkers(idl) == {w \in Workers : idl[w]}

(* What the while loop of try_dispatch sends: the k-th request to be       *)
(* popped goes to the k-th idle entry of the workers vector, until the     *)
(* queue or the idle entries run out.                                      *)
Dispatches(q, idl) ==
    {d \in IdleWorkers(idl) \X q :
        Cardinality({v \in IdleWorkers(idl) : v < d[1]})
            = Cardinality({f \in q : Before(f, d[2])})}

Saturating(n) == IF n < 0 THEN 0 ELSE n

(* Fault: the first request is told to every idle worker.                  *)
TryDispatchAll(q, idl, m, st) ==
    LET sent == Dispatches(q, idl)
        first == CHOOSE d \in sent : \A f \in q : f = d[2] \/ Before(d[2], f)
    IN  /\ queue' = {e \in q : \A d \in sent : d[2] # e}
        /\ idle' = [w \in Workers |-> idl[w] /\ \A d \in sent : d[1] # w]
        /\ inbox' = [w \in Workers |->
                        IF idl[w] /\ sent # {} THEN Append(inbox[w], first[2].req)
                        ELSE inbox[w]]
        /\ stage' = [r \in Requests |->
                        IF \E d \in sent : d[2].req = r THEN "dispatched" ELSE st[r]]
        /\ metrics' = [m EXCEPT !.queued = Saturating(@ - Cardinality(sent)),
                                !.in_flight = @ + Cardinality(sent)]

(* try_dispatch on a queue q, idle flags idl, metrics m and stages st.  A  *)
(* Dispatch told to a dead worker is dropped together with its request.    *)
TryDispatch(q, idl, m, st) ==
    LET sent == Dispatches(q, idl)
    IN  /\ queue' = {e \in q : \A d \in sent : d[2] # e}
        /\ idle' = [w \in Workers |-> idl[w] /\ \A d \in sent : d[1] # w]
        /\ inbox' = [w \in Workers |->
                        IF alive[w] /\ \E d \in sent : d[1] = w
                        THEN Append(inbox[w], (CHOOSE d \in sent : d[1] = w)[2].req)
                        ELSE inbox[w]]
        /\ stage' = [r \in Requests |->
                        IF \E d \in sent : d[2].req = r
                        THEN IF alive[(CHOOSE d \in sent : d[2].req = r)[1]]
                             THEN "dispatched" ELSE "lost"
                        ELSE st[r]]
        /\ metrics' = [m EXCEPT !.queued = Saturating(@ - Cardinality(sent)),
                                !.in_flight = @ + Cardinality(sent)]

(* EngineMsg::Add: enqueue, then try_dispatch.                             *)
Add(r, p) ==
    /\ stage[r] = "new"
    /\ \/ /\ ~IsFull
          /\ next_seq' = next_seq + 1
          /\ TryDispatch(Push(r, p), idle, [metrics EXCEPT !.queued = @ + 1],
                         [stage EXCEPT ![r] = "queued"])
       \/ /\ IsFull
          /\ next_seq' = next_seq
          /\ TryDispatch(queue, idle, [metrics EXCEPT !.rejected_backpressure = @ + 1],
                         [stage EXCEPT ![r] = "rejected"])
    /\ UNCHANGED <<running, alive, signals, wakeups>>

(* EngineMsg::WorkerIdle: the first entry that is not idle is marked idle, *)
(* whichever worker the signal came from; then try_dispatch.               *)
FirstBusy == CHOOSE w \in Workers :
                /\ ~idle[w]
                /\ \A v \in Workers : ~idle[v] => w <= v

(* Fault: the handler forgets the trailing try_dispatch.                   *)
WorkerIdleNoDispatch ==
    /\ wakeups > 0
    /\ wakeups' = wakeups - 1
    /\ \E w \in Workers : ~idle[w]
    /\ idle' = [idle EXCEPT ![FirstBusy] = TRUE]
    /\ metrics' = [metrics EXCEPT !.in_flight = Saturating(@ - 1),
                                  !.completed = @ + 1]
    /\ UNCHANGED <<queue, next_seq, inbox, running, alive, signals, stage>>

(* Fault: a completion is counted but in_flight is not lowered.            *)
WorkerIdleKeepsInFlight ==
    /\ wakeups > 0
    /\ wakeups' = wakeups - 1
    /\ \E w \in Workers : ~idle[w]
    /\ TryDispatch(queue, [idle EXCEPT ![FirstBusy] = TRUE],
                   [metrics EXCEPT !.completed = @ + 1], stage)
    /\ UNCHANGED <<next_seq, running, alive, signals>>

WorkerIdle ==
    /\ wakeups > 0
    /\ wakeups' = wakeups - 1
    /\ IF \E w \in Workers : ~idle[w]
       THEN TryDispatch(queue, [idle EXCEPT ![FirstBusy] = TRUE],
                        [metrics EXCEPT !.in_flight = Saturating(@ - 1),
                                        !.completed = @ + 1],
                        stage)
       ELSE TryDispatch(queue, idle, metrics, stage)
    /\ UNCHANGED <<next_seq, running, alive, signals>>

(* Fault: the forwarder keeps telling after the channel is empty.          *)
ForwardAlways ==
    /\ signals' = signals - 1
    /\ wakeups' = wakeups + 1
    /\ UNCHANGED <<queue, next_seq, idle, metrics, inbox, running, alive, stage>>

(* The forwarder task of pre_start.                                        *)
Forward ==
    /\ signals > 0
    /\ signals' = signals - 1
    /\ wakeups' = wakeups + 1
    /\ UNCHANGED <<queue, next_seq, idle, metrics, inbox, running, alive, stage>>

-----------------------------------------------------------------------------
(* The workers.                                                            *)

(* A worker takes the next Dispatch from its mailbox.                      *)
Start(w) ==
    /\ alive[w]
    /\ running[w] = NoRequest
    /\ inbox[w] # <<>>
    /\ running' = [running EXCEPT ![w] = Head(inbox[w])]
    /\ inbox' = [inbox EXCEPT ![w] = Tail(@)]
    /\ stage' = [stage EXCEPT ![Head(inbox[w])] = "running"]
    /\ UNCHANGED <<queue, next_seq, idle, metrics, alive, signals, wakeups>>

(* Fault: idle is signalled on the error path and again at the end.        *)
FinishSignalsTwice(w) ==
    /\ running[w] # NoRequest
    /\ running' = [running EXCEPT ![w] = NoRequest]
    /\ stage' = [stage EXCEPT ![running[w]] = "done"]
    /\ signals' = signals + 2
    /\ UNCHANGED <<queue, next_seq, idle, metrics, inbox, alive, wakeups>>

(* The end of RemoteWorkerActor::dispatch, whatever the result was.        *)
Finish(w) ==
    /\ running[w] # NoRequest
    /\ running' = [running EXCEPT ![w] = NoRequest]
    /\ stage' = [stage EXCEPT ![running[w]] = "done"]
    /\ signals' = signals + 1
    /\ UNCHANGED <<queue, next_seq, idle, metrics, inbox, alive, wakeups>>

(* The runner panics inside the handler: the actor dies with its request   *)
(* and its mailbox, no idle signal is sent, and it cannot be restarted.    *)
Panic(w) ==
    /\ Cardinality({v \in Workers : ~alive[v]}) < MaxPanics
    /\ running[w] # NoRequest
    /\ alive' = [alive EXCEPT ![w] = FALSE]
    /\ running' = [running EXCEPT ![w] = NoRequest]
    /\ inbox' = [inbox EXCEPT ![w] = <<>>]
    /\ stage' = [r \in Requests |->
                    IF r = running[w] \/ \E i \in DOMAIN inbox[w] : inbox[w][i] = r
                    THEN "lost" ELSE stage[r]]
    /\ UNCHANGED <<queue, next_seq, idle, metrics, signals, wakeups>>

(* Every request has been answered and every signal consumed: the actors   *)
(* wait for messages nobody will send.                                     *)
Quiescent ==
    /\ \A r \in Requests : stage[r] \in {"rejected", "done"}
    /\ signals = 0 /\ wakeups = 0
    /\ UNCHANGED vars

Next ==
    \/ \E r \in Requests, p \in Priorities : Add(r, p)
    \/ WorkerIdle
    \/ Forward
    \/ \E w \in Workers : Start(w) \/ Finish(w) \/ Panic(w)
    \/ Quiescent

Spec == Init /\ [][Next]_vars

(* Actors with mail are scheduled, the forwarder polls its channel, and a  *)
(* runner call ends: providers have a request timeout.  Nothing makes a    *)
(* client send.                                                            *)
Fairness ==
    /\ WF_vars(WorkerIdle)
    /\ WF_vars(Forward)
    /\ \A w \in Workers : WF_vars(Start(w)) /\ WF_vars(Finish(w))

FairSpec == Spec /\ Fairness

-----------------------------------------------------------------------------
(* Properties.                                                             *)

TypeOK ==
    /\ queue \subseteq PriorityRequest
    /\ next_seq \in Nat
    /\ idle \in [Workers -> BOOLEAN]
    /\ metrics \in EngineMetrics
    /\ inbox \in [Workers -> Seq(Requests)]
    /\ running \in [Workers -> Requests \cup {NoRequest}]
    /\ alive \in [Workers -> BOOLEAN]
    /\ signals \in Nat
    /\ wakeups \in Nat
    /\ stage \in [Requests -> Stages]

Busy == {w \in Workers : ~idle[w]}

InStage(S) == {r \in Requests : stage[r] \in S}

(* "The count stays correct in aggregate" (engine.rs:200-205): although an *)
(* idle signal marks an arbitrary entry, the entries marked busy are       *)
(* always as many as the requests handed out and not yet signalled, the    *)
(* signals still on their way, and the requests a panic swallowed.  No     *)
(* slot is freed twice and none is leaked except by a panic.               *)
CapacityAccounting ==
    Cardinality(Busy) =
        Cardinality(InStage({"dispatched", "running", "lost"})) + signals + wakeups

(* After every handler the engine has either nothing queued or no entry    *)
(* marked idle: try_dispatch never leaves a request behind a free entry.   *)
WorkConserving == queue = {} \/ IdleWorkers(idle) = {}

(* The metrics the operator reads agree with the actor's state after every *)
(* handler, so saturating_sub never actually saturates: a completion is    *)
(* counted exactly once, when its signal is handled.                       *)
MetricsAgree ==
    /\ metrics.queued = Cardinality(queue)
    /\ metrics.in_flight = Cardinality(Busy)
    /\ metrics.rejected_backpressure = Cardinality(InStage({"rejected"}))
    /\ metrics.completed + signals + wakeups = Cardinality(InStage({"done"}))

(* A request is in one place only: a queue entry, one position of one      *)
(* worker's mailbox, or executing on one worker, as its stage says.  No    *)
(* request is executed twice or by two workers.                            *)
OnePlace ==
    \A r \in Requests :
        LET entries == {e \in queue : e.req = r}
            places == {p \in Workers \X (1..Cardinality(Requests)) :
                          p[2] \in DOMAIN inbox[p[1]] /\ inbox[p[1]][p[2]] = r}
            runners == {w \in Workers : running[w] = r}
        IN  /\ Cardinality(entries) = IF stage[r] = "queued" THEN 1 ELSE 0
            /\ Cardinality(places) = IF stage[r] = "dispatched" THEN 1 ELSE 0
            /\ Cardinality(runners) = IF stage[r] = "running" THEN 1 ELSE 0

(* The queue never holds more than its capacity (queue.rs:74-91).          *)
QueueBounded == Cardinality(queue) <= QueueCapacity

(* The entry of the queue that holds request r.                            *)
EntryOf(r) == CHOOSE e \in queue : e.req = r

(* A step in which r leaves the queue while s stays in it.                 *)
LeavesBehind(r, s) ==
    /\ stage[r] = "queued" /\ stage'[r] \in {"dispatched", "lost"}
    /\ stage[s] = "queued" /\ stage'[s] = "queued"

(* A request leaves the queue only ahead of requests of lower priority or  *)
(* of the same priority and a later admission: a handler never lets a      *)
(* younger equal or a lower class overtake what stays queued, the request  *)
(* it has just admitted included.                                          *)
NoOvertaking ==
    [][\A r, s \in Requests :
          LeavesBehind(r, s) =>
             \/ EntryOf(r).priority > EntryOf(s).priority
             \/ /\ EntryOf(r).priority = EntryOf(s).priority
                /\ EntryOf(r).arrival_seq < EntryOf(s).arrival_seq]_vars

(* As long as no worker has died every admitted request is eventually      *)
(* executed to its end and its slot returned: no admitted request is       *)
(* forgotten in the queue even though signals free the wrong entry.        *)
AdmittedFinishes ==
    \A r \in Requests :
        stage[r] = "queued" ~> stage[r] = "done" \/ \E w \in Workers : ~alive[w]
=============================================================================
