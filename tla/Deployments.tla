---------------------------- MODULE Deployments -----------------------------
(***************************************************************************)
(* What a deployment is and where it runs: the runtime taxonomy and the    *)
(* deployment record of inference-core (runtime.rs, registry.rs,           *)
(* deployment.rs), the placement of its replicas on nodes (placement.rs    *)
(* of inference-runtime), and the environment probe that decides whether   *)
(* the CLI provisions a local model (probe.rs, hf_cache.rs and defaults.rs *)
(* of inference-runtime-vllm).                                             *)
(*                                                                         *)
(* A model name is the family its prefix puts it in; "" is a name that was *)
(* left empty, None an optional name that was left out, and an optional    *)
(* number is the set of the number, or {}.                                 *)
(***************************************************************************)
EXTENDS Naturals, Sequences, FiniteSets

None == "none"

-----------------------------------------------------------------------------
(* Runtimes and transports.                                                *)

LocalKinds == {"Vllm", "TensorRt", "Ort", "Candle", "Cudarc", "MistralRs", "Python"}
RemoteKinds == {"OpenAi", "Anthropic", "Gemini", "LiteLlm"}
AudioKinds == {"SpeechToText", "TextToSpeech", "RealtimeSpeech", "Audio2Face"}
RuntimeKinds == LocalKinds \cup RemoteKinds \cup AudioKinds \cup {"Custom"}

(* RuntimeKind::is_remote and is_audio.                                    *)
IsRemote(kind) == kind \in RemoteKinds
IsAudio(kind) == kind \in AudioKinds

(* TransportKind::from: what the kind alone does not decide is unknown.    *)
TransportKind(kind) ==
    CASE kind \in RemoteKinds -> "RemoteNetwork"
      [] kind \in LocalKinds  -> "LocalGpu"
      [] OTHER                -> "UnknownTransport"

(* RuntimeConfig::runtime_kind: every variant names its kind (there is no  *)
(* Python variant).                                                        *)
ConfigKinds == RuntimeKinds \ {"Python"}

(* infer_runtime: the families of model names, in the order of the tests.  *)
Families == <<
    [family |-> "gpt",       kind |-> "OpenAi"],
    [family |-> "claude",    kind |-> "Anthropic"],
    [family |-> "gemini",    kind |-> "Gemini"],
    [family |-> "litellm",   kind |-> "LiteLlm"],
    [family |-> "mistral",   kind |-> "MistralRs"] >>

(* A name may be of several families ("litellm/mistral"): the first wins.  *)
InferRuntime(families) ==
    LET hits == {i \in DOMAIN Families : Families[i].family \in families}
    IN  IF hits = {} THEN "Vllm"
        ELSE Families[CHOOSE i \in hits : \A j \in hits : i <= j].kind

(* Deployment::effective_runtime.                                          *)
EffectiveRuntime(d) ==
    IF d.runtime # None THEN d.runtime
    ELSE IF d.runtime_config # None THEN d.runtime_config
    ELSE InferRuntime(d.model)

(* Deployment::validate; a model of no characters is of no family.         *)
Validate(d) ==
    IF d.name = "" THEN "EmptyName"
    ELSE IF ~d.has_model THEN "EmptyModel"
    ELSE IF d.replicas = 0 THEN "ZeroReplicas"
    ELSE "Ok"

(* The fields of a Deployment the control plane reads; the rest defaults.  *)
Deployment(name, families, replicas) ==
    [name |-> name, has_model |-> TRUE, model |-> families, replicas |-> replicas,
     runtime |-> None, runtime_config |-> None, gpus |-> {}]

-----------------------------------------------------------------------------
(* DeploymentPlacementActor::place.                                        *)

(* deployment.gpus.unwrap_or(1).                                           *)
GpusWanted(d) == IF d.gpus = {} THEN 1 ELSE CHOOSE n \in d.gpus : TRUE

(* One replica after the other, round the nodes of the pool.               *)
RoundRobin(d, nodes, gpus) ==
    [i \in 1 .. d.replicas |->
        [replica_index |-> i - 1,
         node |-> nodes[((i - 1) % Len(nodes)) + 1],
         gpus |-> gpus]]

(* The pool of a transport; every replica is given the same GPU ordinals.  *)
Place(d, constraints) ==
    LET pool(nodes, error, gpus) ==
            IF nodes = <<>> THEN [error |-> error, assignments |-> <<>>]
            ELSE [error |-> None, assignments |-> RoundRobin(d, nodes, gpus)]
        transport == TransportKind(EffectiveRuntime(d))
    IN  CASE transport = "LocalGpu" ->
                pool(constraints.gpu_nodes, "NoGpuNodes", 0 .. GpusWanted(d) - 1)
          [] transport = "RemoteNetwork" ->
                pool(constraints.egress_nodes, "NoEgressNodes", {})
          [] OTHER -> [error |-> "UnknownTransport", assignments |-> <<>>]

-----------------------------------------------------------------------------
(* The environment, and what the probe makes of it.  Memory and disk are   *)
(* counted in half gigabytes.                                              *)

Variants == {"E2B", "E2B-it", "E4B", "E4B-it"}

(* min_vram_gb and min_disk_gb.                                            *)
IsSmall(variant) == variant \in {"E2B", "E2B-it"}
MinVram(variant) == IF IsSmall(variant) THEN 5 ELSE 9
MinDisk(variant) == IF IsSmall(variant) THEN 8 ELSE 14

(* fallback_variant: what the hint of a lack of memory suggests.           *)
FallbackVariant(variant) ==
    CASE variant = "E4B-it" -> "E2B-it"
      [] variant = "E4B"    -> "E2B"
      [] OTHER              -> None

(* HfCache::resolve: HF_HOME, else XDG_CACHE_HOME, else the home directory *)
CacheHome(env) ==
    IF env.HF_HOME # None THEN env.HF_HOME
    ELSE IF env.XDG_CACHE_HOME # None THEN "xdg/huggingface"
    ELSE IF env.HOME # None THEN "home/.cache/huggingface"
    ELSE None

(* HfCache::discover_token: the variables, then the file under the home.   *)
DiscoverToken(env) ==
    IF env.HF_TOKEN # None THEN "found"
    ELSE IF env.HUGGING_FACE_HUB_TOKEN # None THEN "found"
    ELSE CASE env.token_file = "unreadable" -> "error"
           [] env.token_file = "token"      -> "found"
           [] OTHER                         -> "absent"

(* probe: the first failing gate decides.  Free disk space that cannot be  *)
(* told is no obstacle.                                                    *)
Probe(env, variant) ==
    IF CacheHome(env) = None THEN "Error"
    ELSE IF env.vram = {} THEN "Skipped: no GPU"
    ELSE IF \A free \in env.vram : free < MinVram(variant) THEN
             IF FallbackVariant(variant) # None THEN "Skipped: try smaller" ELSE "Skipped: VRAM"
    ELSE IF env.python # "3.10+" THEN "Skipped: python"
    ELSE IF ~env.vllm THEN "Skipped: vllm"
    ELSE CASE DiscoverToken(env) = "error"  -> "Error"
           [] DiscoverToken(env) = "absent" -> "Skipped: token"
           [] OTHER ->
                IF \E free \in env.disk : free < MinDisk(variant)
                THEN "Skipped: disk" ELSE "Ready"

(* GemmaDefaults::from_env: auto-provisioning unless it is switched off.   *)
AutoProvision(env) == env.GEMMA_AUTO \notin {"0", "false", "no", "off", "skip", "skip-quietly"}

(* provision_if_ready up to the Apply: an unsupported model is an error.   *)
ProvisionDecision(env, variant) ==
    IF variant \notin Variants THEN "Error" ELSE Probe(env, variant)

(* The deployment it applies: one replica on one GPU, under the given name *)
GemmaDeployment(name) ==
    [Deployment(name, {"gemma"}, 1) EXCEPT !.runtime = "Vllm", !.runtime_config = "Vllm", !.gpus = {1}]
=============================================================================
