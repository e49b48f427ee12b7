----------------------------- MODULE FrontDoors -----------------------------
(***************************************************************************)
(* How a request enters: by the gateway of `atomr-infer serve`, by a       *)
(* RequestActor that a program embedding the runtime spawns over the same  *)
(* coordinator, or by the Cluster of the Python bindings, which calls the  *)
(* runners itself.  A process uses one of the three.                       *)
(***************************************************************************)
EXTENDS Serving, PyCluster

VARIABLE door  \* "gateway", "requests" or "python"

frontVars == <<door, allVars, pyVars>>

FrontInit ==
    /\ door \in {"gateway", "requests", "python"}
    /\ ServingInit /\ PyInit
    /\ door # "gateway" => host = CHOOSE h \in [env : Environments, model : {None}] : TRUE

FrontNext ==
    /\ \/ door = "gateway" /\ ServingNext /\ UNCHANGED pyVars
       \/ door = "requests" /\ Next /\ UNCHANGED <<servingVars, pyVars>>
       \/ door = "python" /\ PyNext /\ UNCHANGED allVars
    /\ UNCHANGED door

FrontSpec ==
    FrontInit /\ [][FrontNext]_frontVars /\ ServingFairness /\ RequestFairness /\ PyFairness

-----------------------------------------------------------------------------
(* Properties.                                                             *)

(* Nobody who asks is routed to an engine that had gone before it asked,   *)
(* however often the engine had registered: a RequestActor's route was     *)
(* present while it asked, and an engine was there for each chat,          *)
(* transcription and speech call the gateway answers with success          *)
(* (dp_coordinator.rs, deregister; gateway.rs, the asks).  The three       *)
(* socket routes never ask, although the header of gateway.rs (lines       *)
(* 23-25) says every audio handler validates its route.                    *)
RouteWasLive == RouteWasPresent /\ AnsweredHadEngine

(* What a client receives is well formed: a RequestActor forwards what it  *)
(* accumulates, nothing after an item that ends the response, and reports  *)
(* once (request.rs); a socket of the gateway is sent its echoes, the      *)
(* final transcript and the close, in that order (gateway.rs).             *)
ReplyWellFormed == DoneOnceAtTheEnd /\ OutputWellFormed /\ SocketWellFormed

(* The manager has on record what the last message that counts under each  *)
(* name left, the deployment of a valid Apply or nothing after a Remove; a *)
(* model was provisioned exactly when the machine has all it needs         *)
(* (deployment_manager.rs, probe.rs); and each record is placed evenly on  *)
(* the nodes its runtime can use (placement.rs).                           *)
RecordsAreRight == LastMessageWins /\ ProvisionedIsReady /\ PlacedEvenly

(* Every call ends, and so again and again none is open: the gateway and   *)
(* the RequestActor bound their ask of the coordinator by two seconds, and *)
(* no coroutine of the Python handle waits for ever for a lock, whoever is *)
(* cancelled.                                                              *)
EveryCallEnds ==
    []<>(/\ \A c \in Calls : call[c].stage = "asking" => boot = "exited"
         /\ \A r \in Requests : pc[r] # "asking"
         /\ \A c \in PyCalls : py[c].pc \in {"idle", "ended"})
=============================================================================
