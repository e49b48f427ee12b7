---------------------------- MODULE BatchEngine -----------------------------
(***************************************************************************)
(* The batch-shaped engine actors of inference-runtime: EngineCoreActor    *)
(* (engine_core.rs), SpeechEngineCoreActor (speech_engine.rs) and          *)
(* AudioEngineCoreActor (audio_engine.rs) as STT or as Audio2Face engine.  *)
(* They share one shape: try_admit against max_concurrent, an answer on    *)
(* the admission channel, and a spawned task per request that takes the    *)
(* runner's async mutex, pumps the runner's stream into the request's      *)
(* bounded output channel and gives the slot back.  The variable engine    *)
(* says which of the actors this is; where they differ an action says so.  *)
(*                                                                         *)
(* The handlers do not await, so between spawning a task and the end of    *)
(* the handler only other threads run.  The async mutex is fair: waiting   *)
(* tasks get it in the order in which they asked.                          *)
(***************************************************************************)
EXTENDS Integers, Sequences, FiniteSets

CONSTANTS
    Kinds,           \* the engine actors considered
    Requests,        \* the Add messages clients may send, each once
    NoRequest,       \* no handler is between spawn and its end
    MaxConcurrent,   \* max_concurrent of the engine's config
    ChannelCapacity, \* capacity of a request's output channel
    StreamLength,    \* bound: items in one result stream
    MaxPanics        \* bound: how many runner calls may panic

ASSUME EngineAssumption ==
    /\ Kinds \subseteq {"text", "speech", "audio"}
    /\ IsFiniteSet(Requests) /\ NoRequest \notin Requests
    /\ MaxConcurrent \in Nat /\ ChannelCapacity \in Nat \ {0}
    /\ StreamLength \in Nat /\ MaxPanics \in Nat

VARIABLES
    engine,     \* the actor this is: EngineCore, SpeechEngineCore, AudioEngineCore
    in_flight,  \* the shared slot counter
    lock,       \* the runner mutex: its holder, then the tasks waiting for it
    releasing,  \* the request whose handler has yet to call release()
    pc,         \* where each request is
    position,   \* items of the request's stream sent so far
    channel,    \* items in the request's output channel
    dropped     \* consumers that have dropped their receiver

vars == <<engine, in_flight, lock, releasing, pc, position, channel, dropped>>

(* The actor has just started.                                             *)
Idle ==
    /\ in_flight = 0
    /\ lock = <<>>
    /\ releasing = NoRequest
    /\ pc = [r \in Requests |-> "new"]
    /\ position = [r \in Requests |-> 0]
    /\ channel = [r \in Requests |-> 0]
    /\ dropped = [r \in Requests |-> FALSE]

Init == engine \in Kinds /\ Idle

Goto(r, label) == pc' = [pc EXCEPT ![r] = label]

Saturating(n) == IF n < 0 THEN 0 ELSE n

-----------------------------------------------------------------------------
(* The actor.                                                              *)

AtCapacity == in_flight >= MaxConcurrent

(* Add, AddTranscribe, AddAudio2Face: a request the engine's runner serves.*)
(* Only EngineCoreActor has a release() behind the spawn.                  *)
Add(r) ==
    /\ releasing = NoRequest
    /\ pc[r] = "new"
    /\ \/ /\ AtCapacity
          /\ Goto(r, "rejected")
          /\ UNCHANGED <<in_flight, releasing>>
       \/ /\ ~AtCapacity
          /\ in_flight' = in_flight + 1
          /\ Goto(r, "spawned")
          /\ releasing' = IF engine = "text" THEN r ELSE NoRequest
    /\ UNCHANGED <<engine, lock, position, channel, dropped>>

(* self.release() at the end of EngineCoreActor's Add arm.                 *)
Release ==
    /\ releasing # NoRequest
    /\ in_flight' = Saturating(in_flight - 1)
    /\ releasing' = NoRequest
    /\ UNCHANGED <<engine, lock, pc, position, channel, dropped>>

(* reject_modality_mismatch: the audio engine is asked for the modality of *)
(* its sibling; admission is answered Ok and a task sends the error.       *)
AddMismatch(r) ==
    /\ engine = "audio"
    /\ pc[r] = "new"
    /\ Goto(r, "mismatch")
    /\ UNCHANGED <<engine, in_flight, lock, releasing, position, channel, dropped>>

-----------------------------------------------------------------------------
(* The spawned task.                                                       *)

Room(r) == channel[r] < ChannelCapacity
Put(r) == channel' = IF dropped[r] THEN channel ELSE [channel EXCEPT ![r] = @ + 1]

SendMismatch(r) ==
    /\ pc[r] = "mismatch"
    /\ Room(r) \/ dropped[r]
    /\ Put(r)
    /\ Goto(r, "refused")
    /\ UNCHANGED <<engine, in_flight, lock, releasing, position, dropped>>

(* runner.lock().await: the task asks for the mutex.                       *)
Lock(r) ==
    /\ pc[r] = "spawned"
    /\ lock' = Append(lock, r)
    /\ Goto(r, "execute")
    /\ UNCHANGED <<engine, in_flight, releasing, position, channel, dropped>>

(* With the mutex in hand, the runner's execute returns a stream or fails. *)
Execute(r) ==
    /\ pc[r] = "execute" /\ Head(lock) = r
    /\ Goto(r, "stream") \/ Goto(r, "fail")
    /\ UNCHANGED <<engine, in_flight, lock, releasing, position, channel, dropped>>

(* The stream yields an item, an error item included, and it is sent.      *)
Send(r) ==
    /\ pc[r] = "stream" /\ position[r] < StreamLength
    /\ Room(r) /\ ~dropped[r]
    /\ Put(r)
    /\ position' = [position EXCEPT ![r] = @ + 1]
    /\ UNCHANGED <<engine, in_flight, lock, releasing, pc, dropped>>

(* Fault: a cancelled request returns from the task instead of leaving     *)
(* the loop.                                                               *)
SendFailsReturns(r) ==
    /\ pc[r] = "stream" /\ position[r] < StreamLength
    /\ dropped[r]
    /\ Goto(r, "done")
    /\ lock' = Tail(lock)
    /\ UNCHANGED <<engine, in_flight, releasing, position, channel, dropped>>

(* The send fails because the consumer is gone: the loop is left.          *)
SendFails(r) ==
    /\ pc[r] = "stream" /\ position[r] < StreamLength
    /\ dropped[r]
    /\ Goto(r, "leave")
    /\ UNCHANGED <<engine, in_flight, lock, releasing, position, channel, dropped>>

StreamEnds(r) ==
    /\ pc[r] = "stream"
    /\ Goto(r, "leave")
    /\ UNCHANGED <<engine, in_flight, lock, releasing, position, channel, dropped>>

(* The error of execute is sent as the only item.                          *)
SendError(r) ==
    /\ pc[r] = "fail"
    /\ Room(r) \/ dropped[r]
    /\ Put(r)
    /\ Goto(r, "leave")
    /\ UNCHANGED <<engine, in_flight, lock, releasing, position, dropped>>

(* The two ends of a task.  The audio engines drop the runner guard before *)
(* they lower in_flight; EngineCoreActor's guard lives to the end of the   *)
(* task.                                                                   *)
UnlockFrom == IF engine = "text" THEN "lowered" ELSE "leave"
UnlockTo == IF engine = "text" THEN "done" ELSE "unlocked"

Unlock(r) ==
    /\ pc[r] = UnlockFrom
    /\ lock' = Tail(lock)
    /\ Goto(r, UnlockTo)
    /\ UNCHANGED <<engine, in_flight, releasing, position, channel, dropped>>

(* Fault: the slot is given back where the guard is dropped and again at   *)
(* the end.                                                                *)
LowerTwice(r) ==
    /\ pc[r] = IF engine = "text" THEN "leave" ELSE "unlocked"
    /\ in_flight' = Saturating(in_flight - 2)
    /\ Goto(r, IF engine = "text" THEN "lowered" ELSE "done")
    /\ UNCHANGED <<engine, lock, releasing, position, channel, dropped>>

(* in_flight is lowered, saturating.                                       *)
Lower(r) ==
    /\ pc[r] = IF engine = "text" THEN "leave" ELSE "unlocked"
    /\ in_flight' = Saturating(in_flight - 1)
    /\ Goto(r, IF engine = "text" THEN "lowered" ELSE "done")
    /\ UNCHANGED <<engine, lock, releasing, position, channel, dropped>>

(* The runner panics: unwinding drops the guard and nothing else.          *)
Panic(r) ==
    /\ Cardinality({s \in Requests : pc[s] = "panicked"}) < MaxPanics
    /\ pc[r] \in {"execute", "stream"} /\ Head(lock) = r
    /\ lock' = Tail(lock)
    /\ Goto(r, "panicked")
    /\ UNCHANGED <<engine, in_flight, releasing, position, channel, dropped>>

-----------------------------------------------------------------------------
(* The consumer of a request reads, or goes away with what is unread.      *)

Receive(r) ==
    /\ channel[r] > 0
    /\ channel' = [channel EXCEPT ![r] = @ - 1]
    /\ UNCHANGED <<engine, in_flight, lock, releasing, pc, position, dropped>>

Cancel(r) ==
    /\ pc[r] # "new" /\ ~dropped[r]
    /\ dropped' = [dropped EXCEPT ![r] = TRUE]
    /\ channel' = [channel EXCEPT ![r] = 0]
    /\ UNCHANGED <<engine, in_flight, lock, releasing, pc, position>>

Task(r) ==
    \/ Lock(r) \/ Execute(r) \/ Send(r) \/ SendFails(r) \/ StreamEnds(r)
    \/ SendError(r) \/ Unlock(r) \/ Lower(r) \/ SendMismatch(r)

Ended == {"rejected", "refused", "done", "panicked"}

(* Nothing is left to do and nobody has anything more to say.              *)
Quiescent ==
    /\ \A r \in Requests : pc[r] \in Ended /\ channel[r] = 0 /\ dropped[r]
    /\ releasing = NoRequest
    /\ UNCHANGED vars

Next ==
    \/ \E r \in Requests :
          Add(r) \/ AddMismatch(r) \/ Task(r) \/ Panic(r) \/ Receive(r) \/ Cancel(r)
    \/ Release
    \/ Quiescent

Spec == Init /\ [][Next]_vars

(* The runtime polls every task that can make progress, runner calls and   *)
(* streams end, and consumers read.  Nobody has to send or cancel.         *)
FairSpec ==
    /\ Spec
    /\ WF_vars(Release)
    /\ \A r \in Requests : WF_vars(Task(r)) /\ WF_vars(Receive(r))

-----------------------------------------------------------------------------
(* Properties.                                                             *)

TypeOK ==
    /\ engine \in Kinds
    /\ in_flight \in 0..MaxConcurrent
    /\ lock \in Seq(Requests)
    /\ releasing \in Requests \cup {NoRequest}
    /\ pc \in [Requests -> Ended \cup {"new", "mismatch", "spawned", "execute",
                                       "stream", "fail", "leave", "lowered", "unlocked"}]
    /\ position \in [Requests -> 0..StreamLength]
    /\ channel \in [Requests -> 0..ChannelCapacity]
    /\ dropped \in [Requests -> BOOLEAN]

(* Requests that have been admitted and whose slot has not been returned;  *)
(* a panicked one never returns it.                                        *)
Occupying ==
    {r \in Requests : pc[r] \in {"spawned", "execute", "stream", "fail", "leave",
                                 "unlocked", "panicked"}}

(* The verdict of try_admit; a modality mismatch never gets that far.      *)
Verdict(label) ==
    CASE label \in {"new", "mismatch", "refused"} -> "none"
      [] label = "rejected" -> "Backpressure"
      [] OTHER -> "Ok"

(* Every admitted request comes to its end although each stream keeps the  *)
(* runner mutex to its last item and slow consumers make the others wait.  *)
AdmittedEnds ==
    \A r \in Requests :
        engine \in Kinds /\ pc[r] = "spawned" ~> pc[r] \in {"done", "panicked"}

(* "for local: maximum in-flight requests on the engine" (deployment.rs:   *)
(* 79-80, of max_concurrent): at most max_concurrent requests are admitted *)
(* and unfinished.                                                         *)
CapacityHonoured == Cardinality(Occupying) <= MaxConcurrent
=============================================================================
