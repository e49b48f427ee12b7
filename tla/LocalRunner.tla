---------------------------- MODULE LocalRunner ----------------------------
(***************************************************************************)
(* A runner that generates inside this process, behind the lock its host   *)
(* keeps it under, and the tasks that use it:                              *)
(*                                                                         *)
(*   cells    the runners the host made, each with its lock and the engine *)
(*            its OnceCell holds (0: none yet)                             *)
(*   engines  the engines ever launched: the requests a vLLM engine is     *)
(*            working on, the holder of an ONNX session's lock             *)
(*   job      per batch: its task's stage, the producing task's stage, the *)
(*            tokens generated so far and what was already sent of them    *)
(*   chan     per batch: the channel from producer to task; one item more  *)
(*            than its capacity is a producer blocked on its send          *)
(*   out      per batch: what its consumer has been handed                 *)
(*   cutoff   the batches whose producer stopped in silence: a panic of    *)
(*            its task, a library's stream that ended before it finished   *)
(***************************************************************************)
EXTENDS LocalModels

CONSTANTS
    Batches,        \* the batches handed to the host, 1..n
    LocalKinds,     \* the runtimes the host may run
    Models,         \* the ONNX graphs: "kv", "stateless", "dynamic_heads", "f16"
    Vocabulary,     \* the tokens the model may produce, of "w", "h", "s", "e"
    MaxNew,         \* sampling.max_tokens
    Cap,            \* capacity of the producer's channel
    MaxDrops        \* bound: consumers and producers that go away

ASSUME BatchesAssumption == Batches \subseteq Nat \ {0}

VARIABLES kind, model, cells, engines, job, chan, out, cutoff

runnerVars == <<kind, model, cells, engines, job, chan, out, cutoff>>

Free == 0
NoJob == [st |-> "idle", prod |-> "none", cell |-> 0, eng |-> 0, ids |-> <<>>,
          sent |-> <<>>, fin |-> None, reader |-> TRUE, rx |-> TRUE]
NoOut == [text |-> <<>>, fin |-> 0, err |-> None]

RunnerInit ==
    /\ kind \in LocalKinds
    /\ model \in (IF kind = "ort" THEN Models ELSE {"kv"})
    /\ cells = <<>>
    /\ engines = <<>>
    /\ job = [b \in Batches |-> NoJob]
    /\ chan = [b \in Batches |-> <<>>]
    /\ out = [b \in Batches |-> NoOut]
    /\ cutoff = {}

(* The ONNX graph as run_generation sees it.                               *)
OrtModel == [topology |-> IF model = "stateless"
                          THEN TopologyKind({"input_ids"}, {"logits"}, {}, {})
                          ELSE TopologyKind({"input_ids"}, {"logits"},
                                            {"past"} \X {0} \X {"key", "value"},
                                            {"present"} \X {0} \X {"key", "value"}),
             tokenizer |-> "loaded", messages |-> <<"user">>,
             shape |-> IF model = "dynamic_heads" THEN <<1, -1, 0, 64>> ELSE <<1, 8, 0, 64>>]

Item(text, fin) == [text |-> text, fin |-> fin, err |-> None]
Error(k) == [text |-> <<>>, fin |-> None, err |-> k]

Unblocked(b) == Len(chan[b]) <= Cap

(* tx.send: lost when the task has dropped the receiver.                   *)
Send(b, items) == chan' = [chan EXCEPT ![b] = IF job[b].rx THEN @ \o items ELSE @]

----------------------------------------------------------------------------
(* The task that owns the batch: lock the runner, execute, unlock, drain.  *)

AcquireRunner(b) ==
    /\ job[b].st = "waiting"
    /\ cells[job[b].cell].lock = Free
    /\ cells' = [cells EXCEPT ![job[b].cell].lock = b]
    /\ job' = [job EXCEPT ![b].st = "locked"]
    /\ UNCHANGED <<kind, model, engines, chan, out, cutoff>>

Holds(b) == job[b].st = "locked"

(* ensure_engine, ensure_model, ensure_state: get_or_try_init.             *)
Launch(b) ==
    /\ Holds(b)
    /\ cells[job[b].cell].engine = 0
    /\ kind \notin {"candle", "cudarc"}
    /\ engines' = Append(engines, [reqs |-> {}, session |-> Free])
    /\ cells' = [cells EXCEPT ![job[b].cell].engine = Len(engines')]
    /\ UNCHANGED <<kind, model, job, chan, out, cutoff>>

(* Execute fails: the error is sent, a poisoned context then panics the    *)
(* task, and either way the lock is released and the output is closed.     *)
Fail(b, k) ==
    /\ cells' = [cells EXCEPT ![job[b].cell].lock = Free]
    /\ job' = [job EXCEPT ![b].st = "closed", ![b].eng = cells[job[b].cell].engine,
                          ![b].rx = FALSE]
    /\ out' = [out EXCEPT ![b].err = IF job[b].reader THEN k ELSE @]
    /\ UNCHANGED <<kind, model, engines, chan, cutoff>>

LaunchFails(b) ==
    /\ Holds(b)
    /\ cells[job[b].cell].engine = 0
    /\ kind # "mock"
    /\ \E k \in LaunchErrors(kind) : Fail(b, k)

(* infer_kv_dims locks the session, with the runner's lock held.           *)
SessionFree(b) == engines[cells[job[b].cell].engine].session = Free

(* The engine is there: what execute does before it returns a stream.      *)
SubmitFails(b) ==
    /\ Holds(b)
    /\ cells[job[b].cell].engine # 0
    /\ CASE kind = "mock" -> Fail(b, "CudaContextPoisoned")
         [] kind = "tensorrt" -> Fail(b, "Internal")
         [] kind = "ort" ->
                IF GenerationRejects(OrtModel) THEN Fail(b, "BadRequest")
                ELSE \/ \E k \in EncodeErrors : Fail(b, k)
                     \/ /\ KvDimsReject(OrtModel.shape)
                        /\ SessionFree(b)
                        /\ Fail(b, "BadRequest")
         [] kind = "vllm" -> Fail(b, "Internal")
         [] OTHER -> FALSE

Submit(b) ==
    LET e == cells[job[b].cell].engine
    IN  /\ Holds(b)
        /\ e # 0
        /\ kind \in {"vllm", "ort", "mistralrs", "mock"}
        /\ kind = "ort" => /\ ~GenerationRejects(OrtModel)
                           /\ ~KvDimsReject(OrtModel.shape)
                           /\ SessionFree(b)
        /\ engines' = IF kind = "vllm" THEN [engines EXCEPT ![e].reqs = @ \cup {b}]
                      ELSE engines
        /\ cells' = [cells EXCEPT ![job[b].cell].lock = Free]
        /\ job' = [job EXCEPT ![b].st = "stream", ![b].eng = e,
                              ![b].prod = IF kind = "ort" THEN "session" ELSE "run"]
        /\ UNCHANGED <<kind, model, chan, out, cutoff>>

(* Drain one item; the first failed send to the consumer ends the drain    *)
(* and drops the stream.                                                   *)
Drain(b) ==
    /\ job[b].st = "stream"
    /\ chan[b] # <<>>
    /\ chan' = [chan EXCEPT ![b] = IF job[b].reader THEN Tail(@) ELSE <<>>]
    /\ IF job[b].reader
       THEN /\ out' = [out EXCEPT ![b].text = @ \o Head(chan[b]).text,
                                  ![b].fin = @ + (IF Head(chan[b]).fin = None THEN 0 ELSE 1),
                                  ![b].err = IF Head(chan[b]).err = None THEN @
                                             ELSE Head(chan[b]).err]
            /\ UNCHANGED job
       ELSE /\ job' = [job EXCEPT ![b].st = "closed", ![b].rx = FALSE,
                                  ![b].prod = IF ~Unblocked(b) /\ @ \in {"run", "flush"}
                                              THEN "abort" ELSE @]
            /\ out' = [out EXCEPT ![b] = NoOut]
    /\ UNCHANGED <<kind, model, cells, engines, cutoff>>

(* The producer is done and everything is drained; of a batch no engine    *)
(* works on any more, only how it ended is kept.                           *)
DrainEnds(b) ==
    /\ job[b].st = "stream"
    /\ chan[b] = <<>>
    /\ job[b].prod = "done"
    /\ LET left == b \notin engines[job[b].eng].reqs
       IN  /\ job' = [job EXCEPT ![b].st = "closed", ![b].rx = FALSE,
                                 ![b].ids = IF left THEN <<>> ELSE @,
                                 ![b].sent = IF left THEN <<>> ELSE @,
                                 ![b].eng = IF left THEN 0 ELSE @,
                                 ![b].fin = IF left THEN None ELSE @]
           /\ out' = [out EXCEPT ![b].text = IF left THEN <<>> ELSE @]
    /\ UNCHANGED <<kind, model, cells, engines, chan, cutoff>>

(* Bound: how many went away so far.                                       *)
MayDrop == Cardinality({c \in Batches : ~job[c].reader} \cup cutoff) < MaxDrops

(* The consumer of the batch goes away; nobody could tell before the       *)
(* runner is locked, when the first send may follow.                       *)
ReaderDrops(b) ==
    /\ job[b].st \in {"locked", "stream"}
    /\ job[b].reader
    /\ MayDrop
    /\ job' = [job EXCEPT ![b].reader = FALSE]
    /\ UNCHANGED <<kind, model, cells, engines, chan, out, cutoff>>

(* The send a producer was blocked on fails: vLLM withdraws the request,   *)
(* the others just stop.                                                   *)
ProducerAborts(b) ==
    /\ job[b].prod = "abort"
    /\ job' = [job EXCEPT ![b].prod = IF kind = "ort" THEN "release" ELSE "done"]
    /\ engines' = [engines EXCEPT ![job[b].eng].reqs = @ \ {b}]
    /\ UNCHANGED <<kind, model, cells, chan, out, cutoff>>

----------------------------------------------------------------------------
(* vLLM: one poller per batch, all stepping the one engine they share.     *)

Producing(b, stage) == job[b].prod = stage /\ Unblocked(b)

(* One step of the engine: every request gets a token; those of `done`,    *)
(* and those at their limit, finish and leave the engine.                  *)
AdvanceAll(reqs, done) ==
    [r \in Batches |->
        IF r \notin reqs THEN job[r]
        ELSE [job[r] EXCEPT !.ids = Append(@, "w"),
                            !.fin = IF r \in done THEN "Stop"
                                    ELSE IF Len(job[r].ids) + 1 = MaxNew THEN "Length"
                                    ELSE None]]

(* drive_generation: step, and keep only the output of this request.       *)
VllmStep(b) ==
    LET e == job[b].eng
        reqs == engines[e].reqs
    IN  /\ kind = "vllm"
        /\ Producing(b, "run")
        /\ \E done \in SUBSET reqs :
            LET next  == AdvanceAll(reqs, done)
                full  == Decode(next[b].ids)
                alive == job[b].rx
                left  == {r \in reqs : next[r].fin = None}
            IN  /\ IF b \in reqs
                   THEN /\ job' = [next EXCEPT
                            ![b].sent = full,
                            ![b].prod = IF next[b].fin # None \/ ~alive THEN "done" ELSE "run"]
                        /\ Send(b, << Item(VllmDelta(full, Len(job[b].sent)), next[b].fin) >>)
                   ELSE /\ job' = [next EXCEPT ![b].prod = "check"]
                        /\ UNCHANGED chan
                /\ engines' = [engines EXCEPT
                    ![e].reqs = IF b \in reqs /\ ~alive THEN left \ {b} ELSE left]
        /\ UNCHANGED <<kind, model, cells, out, cutoff>>

(* Fault: a poller without output never asks whether anything is left.     *)
VllmCheckNever(b) ==
    /\ kind = "vllm"
    /\ job[b].prod = "check"
    /\ job' = [job EXCEPT ![b].prod = "run"]
    /\ UNCHANGED <<kind, model, cells, engines, chan, out, cutoff>>

(* No output for this request: go on while the engine has any.             *)
VllmCheck(b) ==
    /\ kind = "vllm"
    /\ job[b].prod = "check"
    /\ job' = [job EXCEPT ![b].prod = IF engines[job[b].eng].reqs = {} THEN "done" ELSE "run"]
    /\ UNCHANGED <<kind, model, cells, engines, chan, out, cutoff>>

(* step or has_unfinished_requests raises: the request is not withdrawn    *)
(* from the engine.                                                        *)
VllmStepFails(b) ==
    /\ kind = "vllm"
    /\ Producing(b, "run") \/ Producing(b, "check")
    /\ job' = [job EXCEPT ![b].prod = "done"]
    /\ Send(b, << Error("Internal") >>)
    /\ UNCHANGED <<kind, model, cells, engines, out, cutoff>>

----------------------------------------------------------------------------
(* ONNX: one blocking task per batch, one session lock for all of them.    *)

OrtStart(b) ==
    LET e == job[b].eng
    IN  /\ kind = "ort"
        /\ job[b].prod = "session"
        /\ engines[e].session = Free
        /\ engines' = [engines EXCEPT ![e].session = b]
        /\ IF model = "f16"
           THEN /\ job' = [job EXCEPT ![b].prod = "release"]
                /\ Send(b, << Error("BadRequest") >>)
           ELSE /\ job' = [job EXCEPT ![b].prod = "run"]
                /\ UNCHANGED chan
        /\ UNCHANGED <<kind, model, cells, out, cutoff>>

(* One turn of run_loop: run the session, sample, decode, emit, stop?      *)
OrtToken(b) ==
    /\ kind = "ort"
    /\ Producing(b, "run")
    /\ \E t \in Vocabulary :
        LET ids  == Append(job[b].ids, t)
            full == Decode(ids)
            d    == DecodeDelta(job[b].sent, full)
            stop == StopReason(ids, MaxNew)
            gone == d.delta # <<>> /\ ~job[b].rx
        IN  /\ job' = [job EXCEPT
                ![b].ids = ids,
                ![b].sent = IF d.advance THEN full ELSE @,
                ![b].fin = stop,
                ![b].prod = IF gone THEN "release" ELSE IF stop = None THEN "run" ELSE "flush"]
            /\ Send(b, IF d.delta = <<>> THEN <<>> ELSE << Item(d.delta, None) >>)
    /\ UNCHANGED <<kind, model, cells, engines, out, cutoff>>

(* Fault: the loop's error is dropped with the loop.                       *)
OrtRunFailsSilently(b) ==
    /\ kind = "ort"
    /\ Producing(b, "run")
    /\ job' = [job EXCEPT ![b].prod = "release"]
    /\ UNCHANGED <<kind, model, cells, engines, chan, out, cutoff>>

OrtRunFails(b) ==
    /\ kind = "ort"
    /\ Producing(b, "run")
    /\ job' = [job EXCEPT ![b].prod = "release"]
    /\ \E says \in {"shape", "other"} : Send(b, << Error(MapOrtErr(says)) >>)
    /\ UNCHANGED <<kind, model, cells, engines, out, cutoff>>

(* The final flush: the withheld tail, the usage and the finish reason.    *)
OrtFlush(b) ==
    /\ kind = "ort"
    /\ Producing(b, "flush")
    /\ job' = [job EXCEPT ![b].prod = "release"]
    /\ Send(b, << Item(FinalTail(job[b].sent, Decode(job[b].ids)), job[b].fin) >>)
    /\ UNCHANGED <<kind, model, cells, engines, out, cutoff>>

(* The blocking task ends once its last send went through.                 *)
OrtRelease(b) ==
    /\ kind = "ort"
    /\ Producing(b, "release")
    /\ job' = [job EXCEPT ![b].prod = "done"]
    /\ engines' = [engines EXCEPT ![job[b].eng].session = Free]
    /\ UNCHANGED <<kind, model, cells, chan, out, cutoff>>

----------------------------------------------------------------------------
(* mistral.rs: the task forwards the responses of the library's stream.    *)

(* The library may end its stream at any time; the loop then just ends.    *)
MistralResponse(b) ==
    /\ kind = "mistralrs"
    /\ Producing(b, "run")
    /\ \/ /\ Len(job[b].ids) < MaxNew
          /\ job[b].fin = None
          /\ \E says \in {None, "length"} :
                LET fin == IF says = None THEN None ELSE MistralFinishReason(says)
                IN  /\ job' = [job EXCEPT ![b].ids = Append(@, "w"), ![b].fin = fin,
                                          ![b].prod = IF job[b].rx THEN "run" ELSE "done"]
                    /\ Send(b, << Item(<<"w">>, fin) >>)
          /\ UNCHANGED cutoff
       \/ /\ job' = [job EXCEPT ![b].prod = "done", ![b].fin = "Stop"]
          /\ Send(b, << Item(<<>>, "Stop") >>)
          /\ UNCHANGED cutoff
       \/ /\ job' = [job EXCEPT ![b].prod = "done"]
          /\ Send(b, << Error("Internal") >>)
          /\ UNCHANGED cutoff
       \/ /\ job' = [job EXCEPT ![b].prod = "done"]
          /\ cutoff' = IF job[b].fin = None THEN cutoff \cup {b} ELSE cutoff
          /\ UNCHANGED chan
    /\ UNCHANGED <<kind, model, cells, engines, out>>

(* MockRunner: the scripted chunks, the last with the finish reason; a     *)
(* script without chunks is a stream without anything.                     *)
MockChunk(b) ==
    /\ kind = "mock"
    /\ Producing(b, "run")
    /\ \/ LET n   == Len(job[b].ids) + 1
              fin == IF n = MaxNew THEN "Stop" ELSE None
          IN  /\ job' = [job EXCEPT ![b].ids = Append(@, "w"), ![b].fin = fin,
                                    ![b].prod = IF fin = None THEN "run" ELSE "done"]
              /\ Send(b, << Item(<<"w">>, fin) >>)
              /\ UNCHANGED cutoff
       \/ /\ job[b].ids = <<>>
          /\ job' = [job EXCEPT ![b].prod = "done"]
          /\ cutoff' = cutoff \cup {b}
          /\ UNCHANGED chan
    /\ UNCHANGED <<kind, model, cells, engines, out>>

----------------------------------------------------------------------------
(* The producing task panics: its sender is dropped, and unwinding gives   *)
(* the session's lock back; a vLLM request stays in the engine.  (For      *)
(* mistral.rs it is as if the library had ended its stream.)               *)
ProducerPanics(b) ==
    /\ kind \in {"vllm", "ort"}
    /\ Producing(b, "run")
    /\ MayDrop
    /\ job' = [job EXCEPT ![b].prod = IF kind = "ort" THEN "release" ELSE "done"]
    /\ cutoff' = cutoff \cup {b}
    /\ UNCHANGED <<kind, model, cells, engines, chan, out>>

(* What the scheduler runs for a batch, whatever the host.                 *)
TaskStep(b) ==
    \/ AcquireRunner(b) \/ Launch(b) \/ LaunchFails(b) \/ Submit(b) \/ SubmitFails(b)
    \/ Drain(b) \/ DrainEnds(b)

ProducerStep(b) ==
    \/ VllmStepFails(b) \/ VllmStep(b) \/ VllmCheck(b)
    \/ OrtRunFails(b) \/ OrtStart(b) \/ OrtToken(b) \/ OrtFlush(b) \/ OrtRelease(b)
    \/ MistralResponse(b) \/ MockChunk(b) \/ ProducerAborts(b) \/ ProducerPanics(b)

(* execute started for the batch, so its consumer is owed an ending.       *)
Executed(b) == job[b].cell # 0

Delivered(b) == out[b].fin > 0 \/ out[b].err # None
=============================================================================
