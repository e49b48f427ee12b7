------------------------------ MODULE Routing -------------------------------
(***************************************************************************)
(* DpCoordinatorActor (inference-runtime, dp_coordinator.rs) for one       *)
(* deployment, and the RequestActors (request.rs) that ask it for a route. *)
(*                                                                         *)
(* A RequestActor awaits the coordinator's answer inside its handler: its  *)
(* mailbox waits, and the answer races a two-second timeout.  Once it has  *)
(* a route the actor drops the route, the batch and the only sender of the *)
(* channel its bridge task reads, so no engine learns of the request.      *)
(* RequestMsg::Chunk is a public message that nothing in the repository    *)
(* sends; here whoever embeds the runtime sends it, with the others.       *)
(***************************************************************************)
EXTENDS Naturals, Sequences, FiniteSets, SequencesExt

CONSTANTS
    Engines,        \* engine cores that may register
    Loads,          \* load scores they may report
    Requests,       \* RequestActors, each for one client request
    NoRoute,        \* no answer from the coordinator yet
    MaxTargets,     \* bound: entries in the routing table
    MailboxBound,   \* bound: messages in a RequestActor's mailbox
    MaxChunks       \* bound: chunks an adapter sends before the last one

ASSUME RoutingAssumption ==
    /\ Loads \subseteq Nat /\ {"no engine", NoRoute} \cap Engines = {}
    /\ MaxTargets \in Nat /\ MailboxBound \in Nat /\ MaxChunks \in Nat

VARIABLES
    routes,      \* RouteTargets of the deployment, in registration order
    mailbox,     \* of each RequestActor
    pc,          \* where each RequestActor's handler is
    dispatched,  \* RequestActor::dispatched
    answer,      \* the coordinator's reply, until the actor reads it
    accumulator, \* chunks accumulated
    done,        \* times the accumulator was sent on the done channel
    output,      \* items sent to the gateway
    gone,        \* the gateway has dropped its end of the output channel
    asks,        \* history: RouteTo messages sent
    members,     \* history: engines that have registered and not deregistered
    present      \* history: members at some time during the ask

requestVars == <<mailbox, pc, dispatched, answer, accumulator, done, output, gone, asks>>
vars == <<routes, requestVars, members, present>>

Each(v) == [r \in Requests |-> v]

Init ==
    /\ routes = <<>>
    /\ mailbox = Each(<<>>)
    /\ pc = Each("ready")
    /\ dispatched = Each(FALSE)
    /\ answer = Each(NoRoute)
    /\ accumulator = Each(0)
    /\ done = Each(0)
    /\ output = Each(<<>>)
    /\ gone = Each(FALSE)
    /\ asks = Each(0)
    /\ members = {}
    /\ present = Each({})

(* The members change, and the pending asks witness it.                    *)
Members(new) ==
    /\ members' = new
    /\ present' = [r \in Requests |-> IF pc[r] = "asking" THEN present[r] \cup new
                                      ELSE present[r]]

-----------------------------------------------------------------------------
(* The coordinator.                                                        *)

(* register pushes, even an engine that is already there.                  *)
Register(e, load) ==
    /\ Len(routes) < MaxTargets
    /\ routes' = Append(routes, [engine |-> e, load |-> load])
    /\ Members(members \cup {e})
    /\ UNCHANGED requestVars

(* Fault: only the first entry of the engine is removed.                   *)
DeregisterFirst(e) ==
    /\ routes' = LET i == SelectInSeq(routes, LAMBDA t : t.engine = e)
                 IN  IF i = 0 THEN routes ELSE RemoveAt(routes, i)
    /\ Members(members \ {e})
    /\ UNCHANGED requestVars

(* deregister retains, in order, what is not the engine's.                 *)
Deregister(e) ==
    /\ LET stay == {i \in DOMAIN routes : routes[i].engine # e}
           n == Cardinality(stay)
       IN  \E at \in [1 .. n -> stay] :
              /\ \A i, j \in 1 .. n : i < j => at[i] < at[j]
              /\ routes' = [i \in 1 .. n |-> routes[at[i]]]
    /\ Members(members \ {e})
    /\ UNCHANGED requestVars

ReportLoad(e, load) ==
    /\ routes' = [i \in DOMAIN routes |->
                     IF routes[i].engine = e THEN [routes[i] EXCEPT !.load = load]
                     ELSE routes[i]]
    /\ UNCHANGED <<requestVars, members, present>>

(* pick: min_by keeps the first of the least loaded.                       *)
Pick ==
    CHOOSE i \in DOMAIN routes :
        /\ \A j \in DOMAIN routes : routes[i].load <= routes[j].load
        /\ \A j \in 1 .. i - 1 : routes[j].load # routes[i].load

(* RouteTo is answered.  The reply of an ask that timed out is dropped.    *)
Answer(r) ==
    /\ pc[r] = "asking" /\ answer[r] = NoRoute
    /\ answer' = [answer EXCEPT ![r] = IF routes = <<>> THEN "no engine"
                                       ELSE routes[Pick].engine]
    /\ UNCHANGED <<routes, mailbox, pc, dispatched, accumulator, done, output, gone, asks, present, members>>

-----------------------------------------------------------------------------
(* The RequestActor.                                                       *)

Messages == {"Dispatch", "Cancel", "Ok", "Final", "Err"}

(* The gateway, and the adapter if there is one, tell the actor.           *)
Tell(r, msg) ==
    /\ Len(mailbox[r]) < MailboxBound /\ pc[r] # "stopped"
    /\ msg = "Ok" => accumulator[r] + Len(SelectSeq(mailbox[r], LAMBDA m : m = "Ok")) < MaxChunks
    /\ mailbox' = [mailbox EXCEPT ![r] = Append(@, msg)]
    /\ UNCHANGED <<routes, pc, dispatched, answer, accumulator, done, output, gone, asks, present, members>>

Take(r, msg) ==
    /\ pc[r] = "ready"
    /\ mailbox[r] # <<>> /\ Head(mailbox[r]) = msg
    /\ mailbox' = [mailbox EXCEPT ![r] = Tail(@)]

(* Dispatch: the first one asks for a route, others are ignored.           *)
Dispatch(r) ==
    /\ Take(r, "Dispatch")
    /\ IF dispatched[r]
       THEN UNCHANGED <<pc, dispatched, asks, present>>
       ELSE /\ pc' = [pc EXCEPT ![r] = "asking"]
            /\ dispatched' = [dispatched EXCEPT ![r] = TRUE]
            /\ asks' = [asks EXCEPT ![r] = @ + 1]
            /\ present' = [present EXCEPT ![r] = members]
    /\ UNCHANGED <<routes, answer, accumulator, done, output, gone, members>>

(* A route: the rest of the handler leaves nothing behind.                 *)
Routed(r) ==
    /\ pc[r] = "asking" /\ answer[r] \in Engines
    /\ pc' = [pc EXCEPT ![r] = "ready"]
    /\ UNCHANGED <<routes, mailbox, dispatched, answer, accumulator, done, output, gone, asks, present, members>>

(* finish() and stop_self(): the mailbox is dropped.                       *)
Finish(r) ==
    /\ done' = [done EXCEPT ![r] = IF @ = 0 THEN 1 ELSE @]
    /\ pc' = [pc EXCEPT ![r] = "stopped"]

(* output.send: an item for a client that has gone is dropped.  A full     *)
(* channel holds the handler back until the client reads or goes: its step *)
(* is then taken later.                                                    *)
Send(r, item) == output' = IF gone[r] THEN output ELSE [output EXCEPT ![r] = Append(@, item)]

ClientLeaves(r) ==
    /\ ~gone[r]
    /\ gone' = [gone EXCEPT ![r] = TRUE]
    /\ UNCHANGED <<routes, mailbox, pc, dispatched, answer, accumulator, done, output, asks, present, members>>

(* No engine, or no answer within two seconds: one error, then the end.    *)
RouteFails(r) ==
    /\ pc[r] = "asking"
    /\ answer[r] \in {"no engine", NoRoute}
    /\ Send(r, "Err")
    /\ Finish(r)
    /\ UNCHANGED <<routes, mailbox, dispatched, answer, accumulator, gone, asks, present, members>>

(* Fault: an error does not end the request.                               *)
ChunkErrGoesOn(r, item) ==
    /\ Take(r, item)
    /\ accumulator' = [accumulator EXCEPT ![r] = IF item = "Err" THEN @ ELSE @ + 1]
    /\ Send(r, item)
    /\ IF item = "Final" THEN Finish(r) ELSE UNCHANGED <<done, pc>>
    /\ UNCHANGED <<routes, dispatched, answer, gone, asks, present, members>>

(* Chunk: accumulate, forward, and stop on a finish reason or an error.    *)
Chunk(r, item) ==
    /\ Take(r, item)
    /\ accumulator' = [accumulator EXCEPT ![r] = IF item = "Err" THEN @ ELSE @ + 1]
    /\ Send(r, item)
    /\ IF item \in {"Final", "Err"} THEN Finish(r) ELSE UNCHANGED <<done, pc>>
    /\ UNCHANGED <<routes, dispatched, answer, gone, asks, present, members>>

Cancel(r) ==
    /\ Take(r, "Cancel")
    /\ Finish(r)
    /\ UNCHANGED <<routes, dispatched, answer, accumulator, output, gone, asks, present, members>>

Handle(r) ==
    \/ Dispatch(r) \/ Routed(r) \/ RouteFails(r) \/ Cancel(r)
    \/ \E item \in {"Ok", "Final", "Err"} : Chunk(r, item)

CoordinatorNext ==
    \E e \in Engines : Deregister(e) \/ \E load \in Loads : Register(e, load) \/ ReportLoad(e, load)

RequestNext(r) == Answer(r) \/ Handle(r) \/ ClientLeaves(r) \/ \E msg \in Messages : Tell(r, msg)

Next == CoordinatorNext \/ \E r \in Requests : RequestNext(r)

Spec == Init /\ [][Next]_vars

(* An actor with mail is scheduled, the ask's timer runs, and a client     *)
(* reads what it is sent or drops its end.                                 *)
RequestFairness == \A r \in Requests : WF_vars(Handle(r))

-----------------------------------------------------------------------------
(* Properties.                                                             *)

(* A request is routed to an engine that was registered at some time while *)
(* it was asking: once deregistered, however often it had registered, an   *)
(* engine is never handed to a later request.                              *)
RouteWasPresent ==
    \A r \in Requests : answer[r] \in Engines => answer[r] \in present[r]

(* The gateway is told exactly once: a stopped RequestActor has delivered  *)
(* its accumulator, and one that has delivered it has stopped, after a     *)
(* chunk, an error, a timeout or a cancellation alike; and however often   *)
(* it is dispatched it asks for one route.                                 *)
DoneOnceAtTheEnd ==
    \A r \in Requests : (done[r] = 1 <=> pc[r] = "stopped") /\ asks[r] <= 1

(* What the gateway streams and what is reported at the end agree: as long *)
(* as the client is there the chunks accumulated are the chunks forwarded, *)
(* none is forwarded that was not accumulated, and nothing follows an item *)
(* that ends the response.                                                 *)
OutputWellFormed ==
    \A r \in Requests :
        /\ LET forwarded == Cardinality({i \in DOMAIN output[r] : output[r][i] # "Err"})
           IN  forwarded <= accumulator[r] /\ (~gone[r] => forwarded = accumulator[r])
        /\ \A i \in 1 .. Len(output[r]) - 1 : output[r][i] = "Ok"
=============================================================================
