------------------------------ MODULE Serving -------------------------------
(***************************************************************************)
(* `atomr-infer serve` (run_server of inference-cli): the actor system is  *)
(* booted, each declared deployment is applied to the                      *)
(* DeploymentManagerActor, a local model is provisioned when the           *)
(* environment allows, and the HTTP gateway (gateway.rs of                 *)
(* inference-runtime) is mounted over the coordinator of module Routing.   *)
(*                                                                         *)
(* The coordinator's table is that of one deployment, Served; a request    *)
(* for any other model finds no row.  Nothing in the repository registers  *)
(* an engine, takes a deployment off the manager's records or stops the    *)
(* gateway alone: Register, RemoveDeployment and StopGateway are messages  *)
(* of whoever embeds the runtime.                                          *)
(***************************************************************************)
EXTENDS Routing, Deployments

CONSTANTS
    Calls,        \* HTTP calls and WebSocket sessions at the gateway
    Apis,         \* the gateway's routes that are called
    MaxDeclared,  \* bound: deployments declared or removed while the server
                  \* boots, and again deployments removed while it serves
    MaxFrames     \* bound: frames a WebSocket client sends before it closes

ASSUME ServingAssumption == MaxDeclared \in Nat /\ MaxFrames \in Nat

Served == "a"
GemmaName == "gemma-local"

(* Deployments a project file may declare: one, its new version, a version *)
(* that is invalid, and one under the name of the provisioned model.       *)
Declarable ==
    {Deployment(Served, {"gpt"}, 1), Deployment(Served, {"claude"}, 2),
     Deployment(Served, {"claude"}, 0), Deployment(GemmaName, {"gpt"}, 1)}

VARIABLES
    boot,       \* where run_server is
    host,       \* the environment it boots in, and the model it is to provision
    told,       \* history: messages the manager has handled, in order
    records,    \* DeploymentManagerActor::records
    gateway,    \* the listener of the ApiGatewayActor
    call,       \* the handler of each call
    sent,       \* what a WebSocket handler has sent
    frames,     \* history: frames a WebSocket handler has received
    witnessed   \* history: engines registered at some time during the ask

bootVars == <<boot, host, told, records>>
callVars == <<call, sent, frames>>
servingVars == <<bootVars, gateway, callVars, witnessed>>
allVars == <<vars, servingVars>>

(* The environments: a good one, spoilt in up to two ways.                 *)
GoodEnv ==
    [HF_HOME |-> "hf", XDG_CACHE_HOME |-> None, HOME |-> None, HF_TOKEN |-> None,
     HUGGING_FACE_HUB_TOKEN |-> None, token_file |-> "token", vram |-> {9},
     python |-> "3.10+", vllm |-> TRUE, disk |-> {14}, GEMMA_AUTO |-> "1"]
Spoilt ==
    [HF_HOME |-> {None}, XDG_CACHE_HOME |-> {"xdg"}, HOME |-> {"home"}, HF_TOKEN |-> {"t"},
     HUGGING_FACE_HUB_TOKEN |-> {"t"}, token_file |-> {"absent", "empty", "unreadable"},
     vram |-> {{}, {4}, {5}, {8}}, python |-> {"3.9"}, vllm |-> {FALSE},
     disk |-> {{}, {8}, {13}}, GEMMA_AUTO |-> {"off"}]
Environments ==
    UNION {UNION {{[[GoodEnv EXCEPT ![f] = x] EXCEPT ![g] = y] : x \in Spoilt[f], y \in Spoilt[g]}
                  : g \in DOMAIN Spoilt} : f \in DOMAIN Spoilt}
(* None: built without the feature gemma-default.                          *)
Models == Variants \cup {"unsupported", None}

Idle == [api |-> None, model |-> "", stage |-> "idle", status |-> None]

ServingInit ==
    /\ Init
    /\ boot = "apply"
    /\ host \in [env : Environments, model : Models]
    /\ told = <<>>
    /\ records = {}
    /\ gateway = "off"
    /\ call = [c \in Calls |-> Idle]
    /\ sent = [c \in Calls |-> <<>>]
    /\ frames = [c \in Calls |-> <<>>]
    /\ witnessed = [c \in Calls |-> {}]

-----------------------------------------------------------------------------
(* The DeploymentManagerActor.  List and Get only read the records.        *)

(* Apply replaces the record of that name.                                 *)
Apply(d) == IF Validate(d) = "Ok" THEN {r \in records : r.name # d.name} \cup {d} ELSE records

(* Fault: Remove is acknowledged and the record stays.                     *)
RemoveNothing(name) == records

(* Remove: whether there was a record or not.                              *)
RemoveRecord(name) == {r \in records : r.name # name}

(* The messages as the history has them.                                   *)
Applied(d) == [msg |-> "Apply", name |-> d.name, deployment |-> d]
Removed(name) == [msg |-> "Remove", name |-> name]

RemoveDeployment(name) ==
    /\ boot \in {"apply", "mount", "serving"} /\ Len(told) < MaxDeclared
    /\ records' = RemoveRecord(name)
    /\ told' = Append(told, Removed(name))
    /\ UNCHANGED <<vars, boot, host, gateway, callVars, witnessed>>

-----------------------------------------------------------------------------
(* run_server.                                                             *)

(* One more deployment of the project file.                                *)
ApplyDeclared(d) ==
    /\ boot = "apply" /\ Len(told) < MaxDeclared
    /\ records' = Apply(d)
    /\ told' = Append(told, Applied(d))
    /\ UNCHANGED <<vars, boot, host, gateway, callVars, witnessed>>

(* The feature gemma-default: probe, and apply the model if it is ready.   *)
Provision ==
    /\ boot = "apply"
    /\ boot' = "mount"
    /\ IF host.model # None /\ AutoProvision(host.env)
          /\ ProvisionDecision(host.env, host.model) = "Ready"
       THEN LET d == GemmaDeployment(GemmaName)
            IN  records' = Apply(d) /\ told' = Append(told, Applied(d))
       ELSE UNCHANGED <<records, told>>
    /\ UNCHANGED <<vars, host, gateway, callVars, witnessed>>

(* spawn_gateway and pre_start: a failed bind leaves an actor and no       *)
(* listener; run_server goes on either way.                                *)
Mount(bound) ==
    /\ boot = "mount"
    /\ boot' = "serving"
    /\ gateway' = IF bound THEN "listening" ELSE "off"
    /\ told' = <<>> /\ host' = [env |-> GoodEnv, model |-> None]   \* no longer read
    /\ UNCHANGED <<vars, records, callVars, witnessed>>

(* ApiGatewayMsg::Stop: the listener ends and the actor stops itself; the  *)
(* tasks of open connections go on.                                        *)
StopGateway ==
    /\ boot = "serving" /\ gateway = "listening"
    /\ gateway' = "off"
    /\ UNCHANGED <<vars, bootVars, callVars, witnessed>>

(* ctrl-c: the system terminates.  post_stop ends the listener; the tasks  *)
(* of open connections go on until the process ends.                       *)
Terminate ==
    /\ boot = "serving"
    /\ boot' = "terminating"
    /\ gateway' = "off"
    /\ UNCHANGED <<vars, host, told, records, callVars, witnessed>>

Exit ==
    /\ boot = "terminating"
    /\ boot' = "exited"
    /\ UNCHANGED <<vars, host, told, records, gateway, callVars, witnessed>>

-----------------------------------------------------------------------------
(* The gateway's handlers.                                                 *)

Running == boot \in {"serving", "terminating"}
SocketApis == {"transcriptions_stream", "realtime", "audio2face"}

(* The models a call may name; a form may lack its model or its file, and  *)
(* an upgrade names none.                                                  *)
Asked(api) ==
    IF api \in SocketApis THEN {None}
    ELSE {Served, "other"} \cup IF api = "transcriptions" THEN {"no model", "no file"} ELSE {}

(* A call is accepted: a socket is upgraded without looking at its model   *)
(* (no route is asked for, now or later), an incomplete form is refused,   *)
(* and everything else, chat, transcription and both speech routes, asks   *)
(* the coordinator for a route.                                            *)
Accept(c, api, model) ==
    /\ gateway = "listening" /\ call[c].stage = "idle"
    /\ LET lacks == model \in {"no model", "no file"}
       IN  call' = [call EXCEPT ![c] =
               [api |-> api, model |-> model, status |-> IF lacks THEN "invalid_request" ELSE None,
                stage |-> IF lacks THEN "answered" ELSE IF api \in SocketApis THEN "socket" ELSE "asking"]]
    /\ witnessed' = [witnessed EXCEPT ![c] = members]
    /\ UNCHANGED <<vars, bootVars, gateway, sent, frames>>

Finished(c, status) ==
    /\ call' = [call EXCEPT ![c].stage = "answered", ![c].status = status]
    /\ UNCHANGED <<vars, bootVars, gateway, sent, frames, witnessed>>

(* RouteTo is answered in time.                                            *)
RouteFound(c) ==
    /\ boot = "serving" /\ call[c].stage = "asking"
    /\ Finished(c, IF call[c].model = Served /\ routes # <<>> THEN "ok" ELSE "no_route")

(* Fault: whoever was never answered goes on waiting.                      *)
RouteTimeoutNever(c) == Running /\ call[c].stage = "never" /\ Finished(c, "internal_error")

(* Two seconds pass, or the coordinator is gone.                           *)
RouteTimeout(c) == Running /\ call[c].stage = "asking" /\ Finished(c, "internal_error")

(* The stub sessions: text is echoed on the realtime route, everything     *)
(* else is read and forgotten.                                             *)
SocketFrame(c, kind) ==
    /\ Running /\ call[c].stage = "socket" /\ Len(frames[c]) < MaxFrames
    /\ frames' = [frames EXCEPT ![c] = Append(@, kind)]
    /\ sent' = [sent EXCEPT ![c] =
                   IF call[c].api = "realtime" /\ kind = "text" THEN Append(@, "echo") ELSE @]
    /\ UNCHANGED <<vars, bootVars, gateway, call, witnessed>>

(* The client closes, or its connection breaks: the end of the loop.       *)
SocketEnd(c) ==
    /\ Running /\ call[c].stage = "socket"
    /\ sent' = [sent EXCEPT ![c] =
           @ \o IF call[c].api = "transcriptions_stream" THEN <<"final", "close">> ELSE <<"close">>]
    /\ call' = [call EXCEPT ![c].stage = "answered", ![c].status = "closed"]
    /\ UNCHANGED <<vars, bootVars, gateway, frames, witnessed>>

Handler(c) == RouteFound(c) \/ RouteTimeout(c) \/ SocketEnd(c) \/ \E k \in {"text", "binary"} : SocketFrame(c, k)

(* A step of the coordinator, while there is one.                          *)
CoordinatorStep ==
    /\ boot = "serving" /\ CoordinatorNext
    /\ witnessed' = [c \in Calls |-> IF call[c].stage = "asking"
                                     THEN witnessed[c] \cup members' ELSE witnessed[c]]
    /\ UNCHANGED <<bootVars, gateway, callVars>>

ServingNext ==
    \/ \E d \in Declarable : ApplyDeclared(d)
    \/ \E name \in {Served, GemmaName} : RemoveDeployment(name)
    \/ Provision \/ StopGateway \/ Terminate \/ Exit
    \/ \E bound \in BOOLEAN : Mount(bound)
    \/ \E c \in Calls : \/ Handler(c)
                        \/ \E api \in Apis : \E m \in Asked(api) : Accept(c, api, m)
    \/ CoordinatorStep

(* The gateway's tasks are scheduled and its timer runs; the coordinator   *)
(* may be as slow as it likes, and so may a socket's client.               *)
ServingFairness == \A c \in Calls : WF_allVars(RouteTimeout(c))

-----------------------------------------------------------------------------
(* Properties.                                                             *)

(* The manager's record of a name is what the last message that counts     *)
(* under it left: the deployment of a valid Apply, nothing after a Remove. *)
(* A declaration that fails validation leaves its predecessor in place,    *)
(* and a provisioned model takes the place of a declared one.              *)
LastMessageWins ==
    LET counts(i) ==
            \/ told[i].msg = "Remove"
            \/ LET d == told[i].deployment IN d.name # "" /\ d.has_model /\ d.replicas > 0
        named(n) == {i \in DOMAIN told : counts(i) /\ told[i].name = n}
    IN  \A n \in {told[i].name : i \in DOMAIN told} :
           {r \in records : r.name = n} =
               {told[i].deployment : i \in {j \in named(n) : told[j].msg = "Apply"
                                                        /\ \A k \in named(n) : k <= j}}

(* The local model is provisioned exactly when everything it needs is      *)
(* there: a cache, enough memory, a Python with vLLM, a token, and room on *)
(* the disk if that is known.  The floor for the E4B models is 4.5 GB of   *)
(* free memory, more than the "4GB-VRAM workstations this feature targets" *)
(* of docs/local-gemma.md:33 have.                                         *)
ProvisionedIsReady ==
    LET env == host.env
        small == host.model \in {"E2B", "E2B-it"}
    IN  boot = "mount" =>
          (Applied(GemmaDeployment(GemmaName)) \in Range(told) <=>
            /\ env.GEMMA_AUTO # "off" /\ host.model \notin {"unsupported", None}
            /\ {env.HF_HOME, env.XDG_CACHE_HOME, env.HOME} # {None}
            /\ \E free \in env.vram : 2 * free > (IF small THEN 9 ELSE 17)
            /\ env.python = "3.10+" /\ env.vllm
            /\ {env.HF_TOKEN, env.HUGGING_FACE_HUB_TOKEN} # {None} \/ env.token_file = "token"
            /\ \A free \in env.disk : 2 * free > (IF small THEN 15 ELSE 27))

(* Wherever the deployments on record are placed, each replica has one     *)
(* assignment, on a node of the pool its runtime needs and with as many    *)
(* GPUs as it asks for, no node has two replicas more than another, and    *)
(* placing fails only for want of a node (DeploymentPlacementActor::place) *)
PlacedEvenly ==
    boot = "mount" => \A r \in records, k \in 1..4, gpu, egress \in {<<>>, <<"n">>, <<"n", "m">>} :
        LET d == [r EXCEPT !.replicas = k]
            placed == Place(d, [gpu_nodes |-> gpu, egress_nodes |-> egress])
            local == r.runtime = "Vllm"
            pool == IF local THEN gpu ELSE egress
            on(node) == {i \in DOMAIN placed.assignments : placed.assignments[i].node = node}
            nodes == {pool[i] : i \in DOMAIN pool}
        IN  IF pool = <<>> THEN placed.error # None
            ELSE /\ {placed.assignments[i].replica_index : i \in DOMAIN placed.assignments} = 0 .. k - 1
                 /\ \A i \in DOMAIN placed.assignments :
                       /\ placed.assignments[i].node \in nodes
                       /\ Cardinality(placed.assignments[i].gpus) = IF local THEN 1 ELSE 0
                 /\ \A m, n \in nodes : Cardinality(on(m)) <= Cardinality(on(n)) + 1

(* A call that asks for a route is answered "ok" only for a deployment     *)
(* that had an engine at some time while the gateway was asking for it.    *)
(* The sockets are upgraded without asking and are not among these calls.  *)
AnsweredHadEngine ==
    \A c \in Calls : call[c].status = "ok" => call[c].model = Served /\ witnessed[c] # {}

(* What a socket is sent is well formed: echoes of the text frames, in     *)
(* their number, then the final transcript of a transcription, and last    *)
(* the close.                                                              *)
SocketWellFormed ==
    \A c \in Calls :
        LET texts == Cardinality({i \in DOMAIN frames[c] : frames[c][i] = "text"})
            echoes == IF call[c].api = "realtime" THEN texts ELSE 0
            tail == IF call[c].stage # "answered" THEN <<>>
                    ELSE IF call[c].api = "transcriptions_stream" THEN <<"final", "close">>
                    ELSE <<"close">>
        IN  call[c].api \in SocketApis => sent[c] = [i \in 1 .. echoes |-> "echo"] \o tail
=============================================================================
