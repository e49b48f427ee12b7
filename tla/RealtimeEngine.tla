--------------------------- MODULE RealtimeEngine ---------------------------
(***************************************************************************)
(* RealtimeEngineCoreActor (inference-runtime, realtime_engine.rs): each   *)
(* OpenSession takes a slot and spawns a task that opens the session under *)
(* the runner's async mutex and then relays the adapter's messages to the  *)
(* caller until either side is found closed, when the slot is returned.    *)
(*                                                                         *)
(* The session adapter is the runner's own task and external to this       *)
(* module: it sends on the relay channel, ends on its own or when told to, *)
(* and ends when it finds the relay closed.                                *)
(***************************************************************************)
EXTENDS Integers, Sequences, FiniteSets

CONSTANTS
    Sessions,        \* the OpenSession messages callers may send, each once
    MaxConcurrent,   \* RealtimeEngineConfig::max_concurrent
    MaxPanics,       \* bound: how many runner calls may panic
    RelayCapacity,   \* RealtimeEngineConfig::outbound_relay_capacity
    CallerCapacity   \* capacity of the caller's outbound channel

VARIABLES
    in_flight,  \* the shared slot counter
    lock,       \* the runner mutex: its holder, then the tasks waiting for it
    pc,         \* where each session's task is
    adapter,    \* sessions whose adapter task runs
    relay,      \* messages in each relay channel
    outbound,   \* messages in each caller's channel
    dropped     \* callers that have dropped their outbound receiver

vars == <<in_flight, lock, pc, adapter, relay, outbound, dropped>>

Init ==
    /\ in_flight = 0
    /\ lock = <<>>
    /\ pc = [s \in Sessions |-> "new"]
    /\ adapter = {}
    /\ relay = [s \in Sessions |-> 0]
    /\ outbound = [s \in Sessions |-> 0]
    /\ dropped = [s \in Sessions |-> FALSE]

Goto(s, label) == pc' = [pc EXCEPT ![s] = label]

AtCapacity == in_flight >= MaxConcurrent

(* The handler: try_admit, then the spawn.  Nothing is answered yet.       *)
OpenSession(s) ==
    /\ pc[s] = "new"
    /\ \/ AtCapacity /\ Goto(s, "rejected") /\ in_flight' = in_flight
       \/ ~AtCapacity /\ Goto(s, "spawned") /\ in_flight' = in_flight + 1
    /\ UNCHANGED <<lock, adapter, relay, outbound, dropped>>

Lock(s) ==
    /\ pc[s] = "spawned"
    /\ lock' = Append(lock, s)
    /\ Goto(s, "opening")
    /\ UNCHANGED <<in_flight, adapter, relay, outbound, dropped>>

(* open_session returns, the guard is dropped with the block, and the      *)
(* caller is answered.                                                     *)
Opened(s) ==
    /\ pc[s] = "opening" /\ Head(lock) = s
    /\ lock' = Tail(lock)
    /\ \/ Goto(s, "relaying") /\ adapter' = adapter \cup {s}
       \/ Goto(s, "leave") /\ adapter' = adapter
    /\ UNCHANGED <<in_flight, relay, outbound, dropped>>

(* open_session panics: unwinding drops the guard, and the slot is lost.   *)
Panic(s) ==
    /\ Cardinality({t \in Sessions : pc[t] = "panicked"}) < MaxPanics
    /\ pc[s] = "opening" /\ Head(lock) = s
    /\ lock' = Tail(lock)
    /\ Goto(s, "panicked")
    /\ UNCHANGED <<in_flight, adapter, relay, outbound, dropped>>

Relay(s) ==
    /\ pc[s] = "relaying" /\ relay[s] > 0
    /\ ~dropped[s] /\ outbound[s] < CallerCapacity
    /\ relay' = [relay EXCEPT ![s] = @ - 1]
    /\ outbound' = [outbound EXCEPT ![s] = @ + 1]
    /\ UNCHANGED <<in_flight, lock, pc, adapter, dropped>>

(* A send finds the caller gone; relay_rx goes with what is in it.         *)
RelayBroken(s) ==
    /\ pc[s] = "relaying" /\ relay[s] > 0
    /\ dropped[s]
    /\ relay' = [relay EXCEPT ![s] = 0]
    /\ Goto(s, "leave")
    /\ UNCHANGED <<in_flight, lock, adapter, outbound, dropped>>

(* Fault: the engine keeps a sender of its own, so recv never ends.        *)
RelayEndsSenderKept(s) == FALSE /\ UNCHANGED vars

(* recv returns None: the adapter is gone and the relay is drained.        *)
RelayEnds(s) ==
    /\ pc[s] = "relaying" /\ s \notin adapter /\ relay[s] = 0
    /\ Goto(s, "leave")
    /\ UNCHANGED <<in_flight, lock, adapter, relay, outbound, dropped>>

Lower(s) ==
    /\ pc[s] = "leave"
    /\ in_flight' = IF in_flight = 0 THEN 0 ELSE in_flight - 1
    /\ Goto(s, "done")
    /\ UNCHANGED <<lock, adapter, relay, outbound, dropped>>

-----------------------------------------------------------------------------
(* The adapter and the caller.                                             *)

AdapterSends(s) ==
    /\ s \in adapter /\ pc[s] = "relaying" /\ relay[s] < RelayCapacity
    /\ relay' = [relay EXCEPT ![s] = @ + 1]
    /\ UNCHANGED <<in_flight, lock, pc, adapter, outbound, dropped>>

(* The provider closes, the caller cancels through its session handle, or  *)
(* a send finds the relay closed.                                          *)
AdapterEnds(s) ==
    /\ s \in adapter
    /\ adapter' = adapter \ {s}
    /\ UNCHANGED <<in_flight, lock, pc, relay, outbound, dropped>>

CallerReads(s) ==
    /\ outbound[s] > 0
    /\ outbound' = [outbound EXCEPT ![s] = @ - 1]
    /\ UNCHANGED <<in_flight, lock, pc, adapter, relay, dropped>>

CallerDrops(s) ==
    /\ pc[s] # "new" /\ ~dropped[s]
    /\ dropped' = [dropped EXCEPT ![s] = TRUE]
    /\ outbound' = [outbound EXCEPT ![s] = 0]
    /\ UNCHANGED <<in_flight, lock, pc, adapter, relay>>

Task(s) ==
    Lock(s) \/ Opened(s) \/ Relay(s) \/ RelayBroken(s) \/ RelayEnds(s) \/ Lower(s)

(* Nothing is left to do and nobody has anything more to say.              *)
Quiescent ==
    /\ \A s \in Sessions : pc[s] \in {"done", "rejected", "panicked"} /\ dropped[s]
    /\ adapter = {}
    /\ UNCHANGED vars

Next ==
    \/ \E s \in Sessions :
          \/ OpenSession(s) \/ Task(s) \/ Panic(s)
          \/ AdapterSends(s) \/ AdapterEnds(s) \/ CallerReads(s) \/ CallerDrops(s)
    \/ Quiescent

Spec == Init /\ [][Next]_vars

(* Tasks that can make progress are polled and a caller that stays reads;  *)
(* a provider may stay silent for ever and a session may stay open.        *)
FairSpec ==
    Spec /\ \A s \in Sessions : WF_vars(Task(s)) /\ WF_vars(CallerReads(s))

-----------------------------------------------------------------------------
(* Properties.                                                             *)

TypeOK ==
    /\ in_flight \in 0..MaxConcurrent
    /\ lock \in Seq(Sessions)
    /\ pc \in [Sessions -> {"new", "rejected", "spawned", "opening", "relaying",
                            "leave", "done", "panicked"}]
    /\ adapter \subseteq Sessions
    /\ relay \in [Sessions -> 0..RelayCapacity]
    /\ outbound \in [Sessions -> 0..CallerCapacity]
    /\ dropped \in [Sessions -> BOOLEAN]

Occupying ==
    {s \in Sessions : pc[s] \in {"spawned", "opening", "relaying", "leave", "panicked"}}

Verdict(label) ==
    CASE label = "new" -> "none"
      [] label = "rejected" -> "Backpressure"
      [] OTHER -> "Ok"

(* A session whose adapter has ended gives its slot back, however slowly   *)
(* the caller reads what is left.                                          *)
AdapterEndFrees ==
    \A s \in Sessions : pc[s] = "relaying" /\ s \notin adapter ~> pc[s] = "done"
=============================================================================
