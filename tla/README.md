# A TLA+ verification of atomr-infer (rakka-inference)

The repository is a Rust inference server built on the atomr actor library. A
request enters through the HTTP gateway, a `RequestActor` or the Python handle;
an engine core per deployment replica admits it; a worker executes it on a
runner, which is a provider reached over HTTP or a WebSocket or a model inside
the process; chunks stream back through bounded channels. This directory models
the parts that carry its concurrency, its failure handling and its conversions,
checks them with TLC and proves the central ones with TLAPS.

## 1. Inventory

Paths are relative to `src/crates/`.

| Component | State | Operations | What is hard | What makes it correct |
|---|---|---|---|---|
| Remote engine and queue (`inference-remote-core/src/engine.rs`, `queue.rs`) | priority heap, idle flag per worker entry, metrics, idle channel | `Add`, `WorkerIdle`, forwarder task | idle signals carry no worker identity; workers can die | slots exact, nothing lost or doubled, priority order, work conserving, metrics agree |
| Remote worker and retry engine (`worker.rs`, `retry.rs`) | request in hand, attempt, output channel | gate, call, stream, back off, retry, propagate, idle signal | an await at every step; a retry after chunks were delivered; cancellation | bounded calls, ordered attempts, one terminal error, one idle signal |
| Circuit breaker (`circuit_breaker.rs`) | failure count, opening stamp, forced deadline | `check`, `run`, `record_success`, `record_failure`, `ForceOpen` | lock-free, three accesses to record a failure | refusals justified, opens at the threshold, recovers |
| Rate limiter (`rate_limit.rs`) | window, spend, GCounters | `AcquirePermit`, rotation, delta merge | windows are lazy and local, deltas late | spend is what was granted, bounded over-spend, replenished |
| Remote session (`session.rs`), classification (`classify.rs` and the providers' `error.rs`), SSE (`sse.rs`) | client and credential behind an ArcSwap | rebuild, load; pure functions | a call loads the snapshot twice while it is swapped | no replaced credential is used, only what can succeed is retried |
| Batch engines (`inference-runtime/src/engine_core.rs`, `speech_engine.rs`, `audio_engine.rs`) | shared `in_flight`, runner mutex, output channels | `Add`, modality mismatch, the spawned task | many ways out of a task, panics, mutex held across slow sends | slots returned once, admission promise, requests end |
| Realtime engine (`realtime_engine.rs`) | shared `in_flight`, relay channel per session | `OpenSession`, relay task | either side may go first | slot returned once, in time |
| DP coordinator and request actor (`dp_coordinator.rs`, `request.rs`) | routing table; mailbox, accumulator, done channel | register, deregister, report load, route; dispatch, chunk, cancel | an ask with a timeout inside a handler | no route to a departed engine; one report, equal to the stream |
| Local worker (`inference-runtime/src/worker.rs`) | child actor, runner and its lock | execute, poisoned, rebuild | two-tier supervision, tasks the supervisor does not see | batches close and are explained, replaced runners and engines serve nobody |
| Gateway and CLI (`gateway.rs`, `inference-cli/src/main.rs`) | listener, calls, sockets | boot, seven routes, `Stop`, shutdown | an ask with a timeout, a client that leaves | calls that ask had an engine, sockets well formed, asks end |
| Deployment manager, placement, environment probe (`deployment_manager.rs`, `placement.rs`, `inference-runtime-vllm/src/probe.rs`) | records by name | apply, remove, list, get, place, probe | same names, invalid declarations, removals, a provisioned model | what the last message that counts left is on record, evenly placed |
| HTTP runners (`inference-runtime-{openai,litellm,anthropic,gemini,openai-stt,openai-tts,elevenlabs}`) | one call | build, send, classify, decode, cut into chunks | streams that break, events that do not decode | nothing lost, the last chunk and no other is final |
| Streaming speech runners (`inference-runtime-{deepgram,assemblyai,elevenlabs,gemini-live,openai-realtime}`) | uplink and downlink task, collected chunks, item channel, WebSocket halves | refuse, open, send, receive, flush, close, cancel | two tasks share one channel; connections end in many ways; the consumer may stall, leave or cancel | nothing lost or reordered, the end or the refusal is explained, the tasks end |
| WebSocket core and back-off (`inference-runtime-ws-core`, `backoff.rs`) | attempt count, last traffic, frame backlog | delay, reset, observe, tick, coalesce | pong against deadline, a peer that flaps | no live peer declared dead, giving up justified, backlog kept |
| In-process text runners (`inference-runtime-{vllm,ort,mistralrs,candle,tensorrt}`) | engine in a OnceCell, engine's requests, session lock | launch, submit, step, decode, finish, rebuild | pollers share an engine; text is a difference of decodings | text exact, finish delivered |
| In-process speech runners (`inference-runtime-{whisper-local,piper,xtts,kokoro,moss,audio2face}`) | model in a OnceCell | load, decode, cut, rebuild | files replaced under a loaded model, container boundaries | current model, samples whole, final last |
| Python bindings (`inference-py-bindings/src/cluster.rs`) | registry, stream state | deploy, execute, `__anext__` | overlapping and cancelled coroutines | results whole, the iterator ends honestly |
| Metrics, pipeline, facade, bridge, test kit, build tasks | | | | section 6 |

How they interact. `RequestActor` and the gateway ask `DpCoordinatorActor` for an
engine. An engine core admits a request against its capacity and either spawns a
task (local engines) or queues it and tells a worker (remote engine). A remote
worker checks the shared circuit-breaker handle, calls the provider through its
runner, and sends chunks on the request's channel; when it has finished it sends
`()` on the engine's idle channel, which a forwarder task turns into `WorkerIdle`
in the engine's mailbox. A local `WorkerActor` forwards to a `ContextActor` child
that runs each batch in a task under the runner's lock. Consumers may drop their
receiver at any time: that is how a request is cancelled. The Python handle calls
runners itself, without actors.

The hazards this leads to are listed in `PROJECT.json`, each at its line.

## 2. Modules

| Module | Models |
|---|---|
| `RemoteEngine` | engine core, queue, workers as the engine sees them |
| `WorkerContract` | what the engine relies on: mailbox order, one request at a time, one idle signal each |
| `RemoteWorker` | one worker at every await point; implements `WorkerContract` |
| `InferenceErrors` | error kinds, `is_retryable`, `counts_as_circuit_failure` |
| `CircuitBreaker` | the breaker at every atomic access |
| `RateLimiter` | the limiter actors of several nodes and the deltas between them |
| `AdmissionEngine` | what every local engine promises: a slot from admission to end, refused only when full |
| `BatchEngine` | the text, speech and audio engine cores (variable `engine` says which) |
| `RealtimeEngine` | the realtime engine core |
| `Engines` | an engine core, whichever of the two modules it is; implements `AdmissionEngine` (text engine excepted, see section 4) |
| `SpeechOpening`, `SpeechFrames` | what the streaming runners refuse and with which error; handshakes, messages and envelopes of their protocols |
| `SpeechStream` | one session of a streaming runner (variable `provider` says which) and its WebSocket |
| `ProviderErrors` | status, body and Retry-After to a typed error, per provider |
| `TextWire`, `SpeechWire` | a batch to a provider's request, its events and documents to chunks |
| `HttpRunner` | one HTTP call of any provider API against a rebuild of the session |
| `LocalAudio`, `LocalSpeech` | decoding and chunking of in-process speech; calls of a runner whose model file is replaced |
| `WsLink` | back-off, reconnect, keep-alive and coalescing, driven by a caller that dials (external: no runner has such a loop) |
| `Runners` | the three above, one of which is what a runner stands on |
| `Routing` | coordinator and request actors |
| `Deployments` | runtime taxonomy, validation, placement, environment probe |
| `Serving` | the server's boot, the deployment manager (`Apply`, `RemoveDeployment`) and the gateway (`Mount`, `StopGateway`, all seven routes) over the coordinator of `Routing` |
| `PyCluster` | the Python handle |
| `FrontDoors` | how a request enters: gateway, request actor or Python handle |
| `LocalModels` | ONNX topology, refusals and errors, streaming decoder, finish reasons |
| `LocalRunner` | the in-process text runners behind their lock (variable `kind` says which), with producers and channels |
| `LocalWorker` | `WorkerActor` and `ContextActor` over `LocalRunner` |
| `RemoteEngineProofs`, `RemoteWorkerProofs`, `EnginesProofs`, `LocalWorkerProofs`, `RunnersProofs`, `FrontDoorsProofs`, `GuardsProofs`, `SpeechStreamProofs` | the theorems about the module each is named after and the modules that one composes (section 5); `GuardsProofs` holds those of `CircuitBreaker` and `RateLimiter` |

State and actions. A variable is a field of the actor, a channel, a mailbox, or
the place (`pc`, `st`) of a handler or task that can be interrupted; variables
marked *history* exist for the properties only. An actor handler without an await
is one action; a handler or task with awaits is one action per await-free
stretch; the breaker, which has no lock, has one action per atomic access. The
trailing `try_dispatch` of the engine's handlers is part of their actions.
`PROJECT.json` maps each definition to the lines it stands for. A definition whose
comment begins with *Fault* is a plausible wrong version of the definition after
it; it is used by no specification and serves to show that a property notices it.

Where several components keep the same promise or one process holds only one of
them, a module composes them by a variable chosen in the initial state
(`Engines`, `SpeechStream`, `Runners`, `FrontDoors`, `LocalRunner`), and a run
explores them all.

Abstractions. Payloads are dropped; a chunk is its attempt and its position; text is
a sequence of marks, audio a range of byte positions, a token one of four kinds of
which the sampler may draw any, a JSON envelope the fields that decide; time is in
ticks or milliseconds and only differences are kept. How long the remote worker's
back-off sleeps is left out of `RemoteWorker`; what the back-off computes is in
`WsLink`. A Rust panic of a worker or of a task is an action of its own. External
parts (tokio channels, the clock, the replicator, consumers, providers, session
adapters, the Python engine, ONNX sessions, acoustic models, the machine the probe
looks at) are modelled by what the code in `src/` can observe of them.

## 3. Runs

| Run | Question | Bounds and why |
|---|---|---|
| `remote_engine` | Do anonymous idle signals, a bounded queue and panics keep slots, metrics and order right, and is every admitted request executed? | 2 workers, queue of 2, 5 requests of 2 classes, 1 panic: the queue overflows, equals and classes compete, a signal frees the wrong entry, a dead worker is told a request |
| `remote_worker` | What does a consumer see of retries, and does the worker keep the engine's contract? | 2 requests, 1 retry, streams of up to 2 chunks, channel of 1, one retryable and one permanent error: failures before, between and after chunks on a full channel; an idempotent deployment (that the other kind is never retried is proved, section 5) |
| `circuit_breaker` | Can races make the breaker refuse wrongly or stay open? | 2 callers, threshold 2, a forced opening: the smallest instance where two failures race to stamp and a success races a failure |
| `rate_limiter` | Do lazy windows and late deltas keep the spend right? | 2 nodes, 2 requests and 3 tokens a window, costs 1 and 3: each limit is hit alone; a delta survives a rotation |
| `engines` | Do all ways out of a task return the slot once? | 3 requests on 2 slots, channel and stream of 1, 1 panic, each engine kind: refusal, waiting for the mutex behind a slow consumer, cancellation and panic |
| `speech_stream` | What does a consumer of a streaming runner see, and do its tasks end? | every runner, every request it may refuse, an address the client rejects, 2 messages, 2 frames and then each way a connection ends, channels of 1: an empty chunk before audio, a send that fails, an error behind collected chunks, a task blocked on a full channel when the consumer leaves |
| `runners` | Is what a runner sends current and what it returns complete and rightly classified, and when is a link given up? | 9 provider APIs, every status and body of `ProviderErrors`, 2 pieces per answer, 1 rebuild, which can fall between the two loads; every in-process speech runner, a model file replaced once; ping 3, deadline 7, timer 2, round trip 2, so that pong, timer and deadline can meet in one instant, with unlimited and with 2 attempts |
| `front_doors` | Are routes, replies, records and Python results right while tables change, clients leave and coroutines overlap? | 2 engines, a table of 2 entries, so that one may be there twice, 1 request with a mailbox of 2 whose client may leave, or 1 gateway call to any of the 7 routes with 2 declarations or removals of equal or different names during the boot and 2 removals while serving, or 3 coroutines over 2 deploys of a name: double registration, removal of an engine during an ask, a record applied and taken off, the late answer, the second `__anext__` while the first starts the runner |
| `local_worker` | What does a batch's consumer see of a worker that is poisoned, rebuilt or panics? | 2 batches, 1 rebuild or 1 poisoning (`MaxControl`), one more of either on the mock, TensorRT and Candle runners (`BothKinds`), where a rebuild can be lost with its child; 1 consumer that leaves or producer that stops in silence, channel of 1, 2 tokens of 3 kinds (a word, half a character, a stop), every runner kind and graph layout: two pollers on one vLLM engine, a batch behind a replaced child, a decoder that has to hold text back |
| `worker_breaker`, `text_engine_capacity`, `vllm_demux` | section 4 | the smallest that show it |

What the larger properties say. `OutputIsHonest`: attempts appear in order and
without gaps, at most one error and it is last, and a failed request is told so.
`SpendIsBounded`: counters equal what was granted, refusals book nothing, and no
minute sees more than twice the budget. `OpensAndRefusesJustly`: no refusal of a
breaker that let calls pass all along, and serial records stamp it exactly at the
threshold. `DeliveredFaithfully`: nothing twice, out of order or behind the
terminal item, and all of it when the connection did not fail. `EndIsExplained`
(speech): a consumer that reads to the end learns how the session ended, and a
refused opening is retryable when the connection failed or the provider answered the
setup with an error, and never when the runner rejected the request itself, before
anything was sent, or the provider hung up during the setup; every
failure of a task is reported once, but for a failed flush and a failed send of
Gemini's uplink, which the code ignores. `EndIsExplained` (local worker): a finish or
an error before the stream closes, unless the producer stopped in silence (section 4).
`RouteWasLive`: of the callers that ask; the socket routes do not (section 4).
`NothingStale`: no call uses a credential, or a model, older than the last rebuild
finished before it. `RetryIsSound`: a retryable error is one that a repetition can
cure. `ContentKept`: conversation (but for a system message of `Parts`, section 4), text
and samples are whole. `GiveUpJustified`: as soon as `max_attempts` dials have failed
since the last connection, and not before. `RecordsAreRight`: what the last valid
`Apply` or `Remove` of a name left is on record, the provisioned model exactly
when the machine has all it needs, replicas spread evenly.

Fairness is weak and only for what the runtime guarantees: tokio polls a task that
can make progress, an actor with mail is scheduled, provider calls end (they have
timeouts), the clock runs, and a consumer that has not gone away reads. Nobody has
to send a request, cancel, force a breaker or register. In `circuit_breaker` and
`rate_limiter` clients keep calling, since without calls neither changes state; in
`engines` no session has to end by itself, so only sessions whose adapter has ended
are shown to free their slot. In `speech_stream` only the session's own tasks are
fair: `TasksEnd` carries its assumption on the consumer (it reads on or leaves), on
the server (it has ended) and on the caller (its input is closed) in the formula.
`runners` checks no liveness and assumes no fairness. In `front_doors` the gateway's
timer, the request actors and the coroutines are fair; the coordinator and a
socket's client may be as slow as they like. In `local_worker` the actors, tasks and
producers are fair, and a consumer that is there reads; nobody has to post anything.
That a drain goes on while `infer_kv_dims` blocks a thread for the session's lock
(`ort/src/generate.rs:356-358`) takes a runtime of two threads. `AdmittedFinishes`
assumes that no worker has died: a panic loses a slot for good.

Deadlock checking is off where the system may stop: `remote_engine` (a panic can
leave the engine without a usable entry), `runners` (the calls are over and the
link has given up), `front_doors` (the process ends) and `local_worker` (every
batch has closed).

Bounds that cut behaviour are constants of the modules: `MaxPanics`, `MaxRebuilds`, `MaxControl` (one more for the runners of `BothKinds`) for faults and
interventions, `MaxDrops` counting consumers that leave and producers that stop in
silence together; `StreamLength`, `MaxChunks`, `MaxEvents`, `MaxScript`, `MaxNew` for the length of answers;
`MaxTargets`, `MailboxBound`, `MaxInput`, `MaxFrames`, `MaxUnread` for tables and
queues; `MaxCount`, `MaxDeltas` for deltas on the network; `MaxDeclared`,
`MaxDeploys`, `MaxVersions`, `MaxCalls`, `MaxDials` for how often something is
repeated. The variables of `RateLimiter` and `CircuitBreaker` that grow in the code
(times, the failure count above the threshold) are cut at the largest value the
code compares them with; behaviours are not cut by that.

## 4. Where code and documentation disagree

Shown by a run each:

* `text_engine_capacity`: `EngineCoreActor` releases a request's slot right
  after spawning its task (`engine_core.rs:130`), so `max_concurrent` does not
  bound the requests in flight.
* `worker_breaker`: the worker calls `check` and never records a result, so no
  provider error opens the breaker.
* `vllm_demux`: every batch polls `step()` of the shared vLLM engine by itself and
  skips the outputs of the others (`vllm/src/engine.rs:330-332`), so a batch may
  lose text's last update and its finish to another's poller; the module comment
  speaks of demultiplexing them. `TextIsExact` shows that what does arrive is
  right (outputs are cumulative) and `EveryBatchCloses` that the loop still ends.

Seen while modelling and not turned into runs.

Remote tier. A failure in half-open leaves the old stamp, so the breaker stays
half-open (`circuit_breaker.rs:116`; `architecture.md:192` says it returns to
open) and admits every call, not one probe; a late success of a call admitted
before the opening closes it early; two failures that both loaded a zero stamp
restart the open duration; a success between the count and the stamp of a failure
leaves a stamp with a zero count (`OpensAndRefusesJustly` therefore excludes
overlapping records, `Recovers` does not). The idle signal marks the first busy
entry, so a request may be queued behind a worker that is still executing. A 401
neither rebuilds the session nor is retried; `acquire_permit` is a no-op. The
limiter never reads its CRDT view and its windows are not on a common clock. The
back-off's jitter is a function of the attempt alone, and `Full` jitter gives the
first retry no delay.

HTTP runners. Gemini's AI Studio key is never sent (`gemini/src/runner.rs:114-119`,
although `:44` and `:116` say it goes into the query); Anthropic's `message_stop`
overwrites the finish reason; Gemini's cumulative usage is emitted with each chunk;
both Anthropic's and Gemini's requests drop a system message made of `Parts` without
a word (`anthropic/src/wire.rs:35-45`, `gemini/src/wire.rs:77-82`; `ContentKept`
excepts it); an OpenAI endpoint without a trailing slash loses its last segment;
`openai-stt` gives a segment the words contained in it, so one that straddles two
segments is in neither; `openai-tts` labels chunks with the requested PCM format
whatever it asked the provider for.

Front doors. `serve` says it serves the declared deployments
(`inference-cli/src/main.rs:18-19`), but nothing registers an engine, so every
request that asks for a route is refused. After routing, `RequestActor` drops the route, the batch and the
only sender of its chunk channel (`request.rs:117` against `:5-7`); nothing in the
repository spawns a `RequestActor` or sends it a chunk, so the `front_doors` run
does. The three socket routes (`gateway.rs:342-346`, `397-401`, `420-424`) are
upgraded without asking the coordinator, although `gateway.rs:23-25` says every
audio handler validates the route and `architecture.md:532-536` that all are wired
into route resolution; `RouteWasLive` is about the routes that ask. Where the
default model is said to be for workstations with 4 GB (`docs/local-gemma.md:30-39`)
the probe asks for 4.5 GB of free memory. A provisioned model takes the place of an
operator's deployment of the same name. The probe's hint about
`ATOMR_INFER_GEMMA_MODEL` suggests a value that `validate_variant` rejects. Two
replicas on one node are given the same GPU ordinals. A Python `__anext__` cancelled
while it starts the runner leaves the iterator finished without an error
(`PyResultsWhole` states this exception).

Engines and local runners. A caller that drops its realtime receiver frees its slot
only when the provider next speaks (`realtime_engine.rs:128`;
`architecture.md:527-529`). A panic inside a batch's task never reaches the
supervisor, so a poisoned context does not restart the child
(`inference-runtime/src/worker.rs:6-10`). The ONNX runner emits the text of a stop
string, generates one token for `max_new = 0`, repeats text when a decoding
retracts, and holds the session's lock while its channel is full. A vLLM `step`
error leaves the request in the engine. Three producers stop without a finish or an
error, and the batch's stream just closes: mistral.rs's loop when the library's
stream ends (`mistralrs/src/lib.rs:174`), a `MockScript` without chunks
(`mock_runner.rs:54-67`, whose comment promises a `Stop` on the last item), and any
producer whose task panics; `EndIsExplained` excepts them by name (`cutoff`). A runner
that reported a poisoned context stays in use until a `ContextPoisoned` is posted,
which no code does. Piper's manifest defaults are read and not
used; Audio2Face's timestamps drift; the mock transcriber with only partials has
no final chunk.

Streaming speech and the link. A transcriber's stream may hold several final
chunks, and chunks behind the last of them, although `deepgram/src/runner.rs:252-256`
speaks of exactly one terminal chunk; it streams nothing until the connection has
ended, and does not end while the caller keeps its input open; a Deepgram result
that is `speech_final` and not `is_final` is dropped unless interim results are on.
`audio.rs:629` calls `RealtimeOut::Error` terminal, yet Gemini Live goes on after
an error of its uplink and OpenAI Realtime after an error event; OpenAI Realtime
sends `Done` after each response and ends a broken connection without a word (it
is therefore left out of the second half of `EndIsExplained`), does not notice that
its outbound channel was closed, and takes an empty environment variable for a key.
`RealtimeSession::cancel` leaves the uplink of Gemini Live running, and with it the
outbound channel open. `ReconnectEngine::reset` makes the next dial free, so a
peer that accepts and drops connections is redialled without a delay. An address or
header that `WsClient` rejects is terminal in ws-core (`client.rs:135-146`, test at
`:208`), but the runners map it, like every failure to connect, to a `NetworkError`,
which is retried. `coalesce_binary` is described as dropping the oldest frames
(ws-core `lib.rs:24`, `README.md:12`, `CHANGELOG.md:134-135`) and as shrinking the
byte count at the cap (`frame.rs:11-12`, `19-21`); it drops nothing, which is what
`BacklogKept` states. No runner uses `ReconnectEngine`, `Keepalive` or
`coalesce_binary`, and none redials a lost connection, although
`docs/migrating-audio-modalities.md:175-178` says that Deepgram and AssemblyAI
reconnect; `WsLink` drives the helpers as their comments say a caller does, and claims
nothing of a runner.

## 5. Proofs

Constants are arbitrary within the named ASSUMEs of the modules: finite sets of
requests, natural numbers for bounds and counts, positive channel capacities, any
number of panics, batches numbered from one (zero is a free lock), and names of
model values that do not collide. Two assumptions
say more. `LinkAssumption` asks that `IdleTimeout` exceeds a ping interval, a timer
period and a round trip: without it a peer that answers could be declared dead; the
defaults (15 and 60 seconds) leave 45 seconds for the two. `OpensJustly` is stated
for a threshold other than zero, at which the comparison of the failure count with
it holds before any failure.

| Theorem | States | Rests on |
|---|---|---|
| `RemoteEngineProofs`: `TypeCorrect`, `CapacityExact`, `NeverIdleWithWork`, `MetricsExact`, `QueueWithinCapacity` | `TypeOK`, `CapacityAccounting`, `WorkConserving`, `MetricsAgree`, `QueueBounded` | `IInv` |
| `RemoteEngineProofs`: `OnePlaceOnly`, `ServedInOrder` | `OnePlace`, `NoOvertaking` | `IInv` and `Placed` |
| `RemoteWorkerProofs`: `TypeCorrect`, `CallsBounded`, `Refinement` | `TypeOK`, `AttemptsBounded`, `ImplementsContract` | `IInv` |
| `RemoteWorkerProofs`: `OutputHonest`, `AttemptsGated` | `OutputIsHonest`, `GatedAttempts` | `IInv` and `HInv` |
| `GuardsProofs`: `BreakerTypeCorrect`, `RefusalsJustified`, `OpensJustly` | `TypeOK`, `RefusalJustified`, `OpensAndRefusesJustly` | `RefusalInv`, `CounterInv` |
| `GuardsProofs`: `LimiterTypeCorrect`, `SpendBounded` | `LimiterTypeOK`, `SpendIsBounded` | `LimiterInv` |
| `EnginesProofs`: `SlotsCounted`, `AdmissionRefined` | `SlotsExact`, `ImplementsAdmission` | `SlotInv` |
| `LocalWorkerProofs`: `NeverStale`, `EndsExplained` | `NoStaleEngine`, `EndIsExplained` | `WorkerInv`, `EndInv` |
| `LocalWorkerProofs`: `TextExact` | `TextIsExact` | `WorkerInv` and `TextInv` |
| `LocalWorkerProofs`: `LocksHeld`, `SessionsHeld` | `LocksExact`, `SessionsExact` (no run) | `WorkerInv`; `TextInv` |
| `RunnersProofs`: `KeepaliveTight`, `GivesUpJustly` | `KeepaliveIsTight`, `GiveUpJustified` | `ClockInv`, `DialInv` |
| `RunnersProofs`: `NeverReplaced`, `RetriesSound` | `NothingStale`, `RetryIsSound` | `FreshInv` and `SpeechInv`, `CallInv` |
| `RunnersProofs`: `CoalesceLosesNothing`, `BacklogComplete` | the operator; `BacklogKept` | what the folds compute |
| `RunnersProofs`: `FinalLast` | `FinalComesLast` | `CallInv`, `FramedInv`, `SpeechInv`, `LocalInv` |
| `RunnersProofs`: `Base64RoundTrip`, `ContentWhole` | the operators; `ContentKept` | `CallInv`, `TextInv`, `TalkInv`, `SpeechInv`, `LocalInv`, `SignalInv` |
| `FrontDoorsProofs`: `RoutesLive`, `RepliesWellFormed` | `RouteWasLive`, `ReplyWellFormed` | `RouteInv` and `GatewayInv`, `RepliesInv` and `SocketsInv` |
| `FrontDoorsProofs`: `RecordsRight`, `PythonWhole` | `RecordsAreRight`, `PyResultsWhole` | `BootInv`, `PyInv` |
| `SpeechStreamProofs`: `AudioPrecedesMarker` | `AudioThenMarker` | `StreamInv` |
| `SpeechStreamProofs`: `DeliveredFaithful` | `DeliveredFaithfully` | `StreamInv` and `LineInv` |
| `SpeechStreamProofs`: `SessionEndExplained` | `EndIsExplained` | `StreamInv`, `LineInv` and `EndInv` |

Why the invariants are what they are:

*Remote engine.* The count of busy entries needs that a request in a mailbox or
executing has the matching stage and is there once (`MailOn`), that queue entries
have distinct requests and sequence numbers (`QueueOn`), and that all counters are
related at once (`CountsOn`). The handlers end in a dispatch loop, so the invariant
is stated over the values a handler hands to that loop, and `DispatchPreserves` is
proved once for both handlers. It rests on work conservation: before a handler
either the queue or the set of idle entries is empty, so the loop sends nothing or
one request (`NothingToSend`, `OneToSend`). `OnePlace` needs the converse of
`MailOn` as well: every stage has its place (`Placed`). `NoOvertaking` is a property
of steps; with one request leaving at a time it says that this one is the maximum of
the heap's order.

*Remote worker.* `CallsBounded` needs the agreement of `attempt` and the calls made
at each place of the loop (`CallsOn`), that a request still in the mailbox has not
been called for (`FreshOn`), and that the mailbox repeats none (`MailOn`). It
includes the case of a non-idempotent deployment, which the run does not.
`OutputIsHonest` is about what was received and what is still in the channel
together (`Output`), so that a read changes nothing; `FrontOn` relates its last item
to the attempt and the position at each place of the loop, which is what makes the
next item continue it. `Refinement` shows that every step of the worker is a step of
`WorkerContract` or a stutter.

*Circuit breaker.* The verdict of `check` comes a step after the load of the stamp,
so `RefusalInv` says that a caller who holds a stamp that is still open has been in
`check` while the gate was closed. `CounterInv` says what count and stamp are at
each place inside a record, as long as no two records have overlapped.

*Rate limiter.* `Account` is one limit of one node: while a window runs its counter
is the history at the window's own age, and no span holds more than that and one
limit; when it has run out, no span holds more than one limit. The last part makes
twice the budget suffice at the next boundary.

*Engines.* `SlotInv` counts the places of a task that occupy a slot, the same way
for all kinds. Every step is classified once (`Admits`, `Refuses`, `Returns`,
`Moves`, `Stays`), and the counter and the refinement both follow from the class.

*Local worker.* Messages of the worker's mailbox replace runners, so which runner
a batch will get depends on what is queued before it. `Ledger` numbers the mailbox
with the runner in charge after each message, and every batch stands behind all
replacements its sender knew of; `Floors` carries that through the child's mailbox
into the engine the batch runs on. `EndInv`: a producer stops only when a finish or
an error was handed over or is in the channel (`Told`) or the batch is one of those cut
off, to which only a silent stop adds (`CutOn`); nothing in the channel is
lost while the task drains, and it closes only an empty one. `TextInv` is about what
was handed over and what the channel holds together: there is a text which the two
make up piece by piece (`Carried`) and which is a beginning of what the generated
tokens decode to. How far it may lag behind depends on the runner (`Lags`): the ONNX
decoder withholds a broken character until it is whole or the generation ends, a
vLLM poller sends what its engine's cumulative output has beyond what it sent, and
the others send every piece at once. That another batch's poller may take the output
is why an engine must work only on batches placed on it (`Owned`, `Placed`): such a
step changes the tokens and never what was sent. `LocksExact` and `SessionsExact` are
inductive beside these invariants: every action is classified as one that takes a
lock, gives it back, or moves nobody in or out; that a new runner or engine is free
and that a task has a runner and an engine that exist is what the others are for.

*Runners.* `Answering` bounds how long a responsive peer may have been quiet by what
is under way: a timer not yet due, or a pong. `DialInv` relates the reconnect
engine's counter to the failed dials at each state of the link. `FreshInv` orders a
call's beginning, its client and its credential by snapshot number; `SpeechInv` does
so for the model file and the lazily loaded cell. `ClassifySound` treats every
provider's classification function for all statuses, headers and bodies, and
`CallInv` carries its verdict to the end of the call. `FramedInv` and `LocalInv` say
what a call has passed on is either an unfinished list of chunks none of which is
final or a whole one; that the cutting functions make whole ones is proved of them
for every waveform, body and size (`PcmIsFramed` and its like). `TextInv` and
`TalkInv` relate what was passed on to the events read so far and the request to the
conversation; `SignalInv` does so for an in-process runner's waveform, file and
replayed bytes.

*Sequences.* The last five theorems of `RunnersProofs`, and `TextExact`, speak of
what folds compute on sequences of any length. The library's induction theorems have
an operator parameter, which the provers do not instantiate, so induction is stated
over a set (`NatSet`, from the well-foundedness of the naturals). A step function has
a run of every length (`Recursion`), hence the CHOOSE in the definition of a fold has
a value, and that value is the loop (`FoldRuns`). From there every fold of the models
is a loop with an invariant: the bytes gathered and sent so far (`CoalesceRuns`), the
items of the events so far (`TokensRuns`), six bits in and eight out
(`Base64RoundTrip`), glyphs of the tokens so far (`DecodedRuns`). These general lemmas
stand in both modules that use them.

*Front doors.* `RouteInv` and `GatewayInv`: the table holds members only, and a
pending ask has seen every member there is, so an answer it is given was present;
that there is a least loaded one is `Least`. `RepliesInv` and `SocketsInv` keep what
was sent in a form to which any next item may be added. `PyInv`: whoever starts or
pulls the runner of a token stream holds its lock, and the placeholder `Done` stands
only while that coroutine is there, or after the end, a failure or a cancellation.
`BootInv`: the records are what the messages told to the manager so far (`told`) leave,
the last that counts under each name; even
placement is shown by injections between the replicas of two nodes (`PlaceIsEven`).

*Speech streams.* `StreamInv` follows the uplink: the wire is ordered and below what
was taken, a sink that still works has been given all of it, and a marker is on the
wire only when the task that sent it has ended. `LineInv` takes what is delivered,
what the downlink holds and what it has collected as one line, of which each part
comes before the next; a step moves items along it, and what makes an item of every
frame worth one is that the frames of the line are exactly those (`LineWhole`). That
nothing follows a terminal item rests on where the downlink is while one is
delivered or held (`Closing`). `EndInv` counts along the same line: until the
downlink leaves its loop nothing that closes the stream is on its way, and
afterwards each such item is there exactly once, delivered or held (`Told`); the
uplink has reported just when it has ended for a failure (`UpTold`). For the
refusals, every check of every runner carries an error that is not worth a retry
(`RejectsLast`), whatever the request.

Only model-checked, and why:

* every liveness property (`AdmittedFinishes`, `EveryDispatchEnds`, `Recovers`,
  `Replenished`, `EverythingEnds`, `TasksEnd`, `EveryCallEnds`, `EveryBatchCloses`):
  fairness and ENABLED are outside the prover.

Every invariant and every safety property of steps that a passing run checks is
stated by a theorem.

## 6. Not modelled

* `List` and `Get` of the deployment manager: they answer with a copy of the records.
* Prompt rendering and engine arguments of the in-process runners, their execution
  providers beyond which error a missing one gives, and the arithmetic of the ONNX
  sampler: any token may be drawn, and no property depends on the rest.
* Metrics (`inference-runtime/src/metrics.rs`): independent counters that nothing
  reads back.
* The pipeline, the facade and the Python bridge: an adapter of one line,
  re-exports, and a mutex held across no await.
* The Python wrappers of core value types, audio and errors beyond what
  `PyCluster` uses: field-by-field conversions without state.
* Token prices (`cost.rs`), configuration structures and their serde attributes,
  text of messages, logging, tracing.
* Tensor arithmetic, acoustic models, CUDA, the Python engine, the byte splitter
  of the eventsource crate: libraries, modelled by what the code sees of them.
* The supervision decider of `worker.rs`: no panic reaches it, since all work runs
  in spawned tasks. `classify_ws_close` of OpenAI Realtime: no caller.
* The mock servers of the test kit, `xtask`, the examples and benchmarks.
* The NaN load of an engine whose `max_concurrent` is zero (`engine_core.rs:134`): load
  scores in `Routing` are naturals. A ping interval, timer period or idle timeout of
  zero: `LinkAssumption` excludes it.
* Ends the code does not give: a realtime caller lost in front of a silent provider, a
  socket whose client neither speaks nor closes, Gemini's wait for `setupComplete`, and
  the uplink of a cancelled Gemini session. The hazards in `PROJECT.json` say so at
  their lines; no liveness property claims them.
* The promise of `AdmissionEngine` is not claimed of the text engine, whose slot is
  released early; that its requests end is part of the `engines` run.

## 7. Plan

Every safety invariant and action property of the passing runs is proved. What is
left:

1. The runner mutex of the engines, as `LocksHeld` does for the local worker: that a
   task in its critical section holds it, for every engine kind.
2. The pure operators that are only checked through the runs that use them, each
   against a reference for every input, now that folds can be reasoned about:
   cutting audio, decoding WAV and Base64 are done, the back-off and retry-after
   computations are not.
