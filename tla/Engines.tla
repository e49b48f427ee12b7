------------------------------ MODULE Engines -------------------------------
(***************************************************************************)
(* An engine core: one of the batch engines, or the realtime engine, as    *)
(* whoever starts the actor decides (no code of the repository does).  All *)
(* of them count the requests (sessions) they have admitted in an          *)
(* in_flight shared with the tasks they spawn, and all but the text engine *)
(* are held against the promise of AdmissionEngine.                        *)
(***************************************************************************)
EXTENDS BatchEngine

CONSTANTS
    RelayCapacity,   \* RealtimeEngineConfig::outbound_relay_capacity
    CallerCapacity   \* capacity of a realtime caller's outbound channel

ASSUME RealtimeAssumption ==
    RelayCapacity \in Nat \ {0} /\ CallerCapacity \in Nat \ {0}

VARIABLES adapter, relay, outbound   \* of the realtime engine only

Realtime == INSTANCE RealtimeEngine WITH Sessions <- Requests

batchVars == <<engine, releasing, position, channel>>
realtimeVars == <<adapter, relay, outbound>>
engineVars == <<vars, realtimeVars>>

IsRealtime == engine = "realtime"
AsBatch(A) == ~IsRealtime /\ A /\ UNCHANGED realtimeVars
AsRealtime(A) == IsRealtime /\ A /\ UNCHANGED batchVars

(* The engine core that is started.                                        *)
EngineInit ==
    /\ engine \in Kinds \cup {"realtime"}
    /\ Idle
    /\ Realtime!Init

EngineNext == AsBatch(Next) \/ AsRealtime(Realtime!Next)

(* The fairness of the two modules.                                        *)
EngineSpec ==
    /\ EngineInit /\ [][EngineNext]_engineVars
    /\ WF_engineVars(AsBatch(Release))
    /\ \A r \in Requests :
          /\ WF_engineVars(AsBatch(Task(r)))
          /\ WF_engineVars(AsBatch(Receive(r)))
          /\ WF_engineVars(AsRealtime(Realtime!Task(r)))
          /\ WF_engineVars(AsRealtime(Realtime!CallerReads(r)))

-----------------------------------------------------------------------------
(* Properties.                                                             *)

EngineTypeOK == IF IsRealtime THEN Realtime!TypeOK ELSE TypeOK

(* Requests and sessions that occupy a slot.                               *)
Busy == IF IsRealtime THEN Realtime!Occupying ELSE Occupying

(* The shared counter counts the requests that occupy a slot, on every way *)
(* out of the task: an error, a cancelled consumer, a session that failed  *)
(* to open, a normal end.  A slot is lost only to a panic.                 *)
SlotsExact == engine # "text" => in_flight = Cardinality(Busy)

Admission == INSTANCE AdmissionEngine
    WITH busy <- IF engine = "text" THEN {} ELSE Busy,
         verdict <- [r \in Requests |->
                        IF engine = "text" THEN "none" ELSE
                        IF IsRealtime THEN Realtime!Verdict(pc[r]) ELSE Verdict(pc[r])]

(* The speech, audio and realtime engines implement the admission promise: *)
(* never more than max_concurrent requests or sessions at work, whatever   *)
(* their tasks and consumers do meanwhile, and Backpressure only then.     *)
ImplementsAdmission == Admission!Spec

(* Every admitted request comes to its end although the runner mutex is    *)
(* held over each stream, and every realtime session whose adapter has     *)
(* ended gives its slot back however slowly its caller reads what is left. *)
EverythingEnds == AdmittedEnds /\ Realtime!AdapterEndFrees
=============================================================================
