---------------------------- MODULE LocalWorker ----------------------------
(***************************************************************************)
(* The local worker of inference-runtime (worker.rs): a stable WorkerActor *)
(* forwards to a ContextActor child that owns the runner and runs every    *)
(* message in a task of its own.                                           *)
(*                                                                         *)
(*   inbox    the WorkerActor's mailbox                                    *)
(*   child    the ContextActor is there; its runner is the last of cells   *)
(*   ctxbox   its mailbox                                                  *)
(*   rebuild  the session rebuilds that were asked for; the cause one came *)
(*            with is picked where it is first looked at                   *)
(*   floor    per batch: the runner it must at least get, and the engines  *)
(*            that were launched before a rebuild its sender knew of       *)
(***************************************************************************)
EXTENDS LocalRunner

CONSTANTS
    Rebuilds,       \* the RebuildSession requests
    Causes,         \* the causes they come with
    MaxControl,     \* bound: ContextPoisoned and RebuildSession messages
    BothKinds       \* the runtimes that get one of them more

VARIABLES inbox, child, ctxbox, rebuild, poisons, floor, stale

workerVars == <<inbox, child, ctxbox, rebuild, poisons, floor, stale>>
vars == <<runnerVars, workerVars>>

(* spawn_child: a fresh slot from the factory; the spawn itself may fail,  *)
(* and then there is no child.                                             *)
SpawnChild ==
    /\ cells' = Append(cells, [lock |-> Free, engine |-> 0])
    /\ child' \in BOOLEAN

WorkerInit ==
    /\ RunnerInit
    /\ inbox = << [tag |-> "start"] >>
    /\ child = FALSE
    /\ ctxbox = <<>>
    /\ rebuild = [r \in Rebuilds |-> [st |-> "idle", cell |-> 0]]
    /\ poisons = 0
    /\ floor = [b \in Batches |-> [cell |-> 1, engine |-> 0]]
    /\ stale = 0

Answered(how) == [st |-> how, cell |-> 0]

----------------------------------------------------------------------------
(* What others send; batches are numbered as they are posted.              *)

Controls == poisons + Cardinality({r \in Rebuilds : rebuild[r].st # "idle"})

PostExecute(b) ==
    /\ job[b].st = "idle"
    /\ \A c \in 1..(b - 1) : job[c].st # "idle"
    /\ job' = [job EXCEPT ![b].st = "posted"]
    /\ inbox' = Append(inbox, [tag |-> "Execute", batch |-> b])
    /\ floor' = [floor EXCEPT ![b] = [cell |-> 1 + poisons, engine |-> stale]]
    /\ UNCHANGED <<kind, model, cells, engines, chan, out, cutoff, child, ctxbox, rebuild,
                   poisons, stale>>

MayControl == Controls < IF kind \in BothKinds THEN MaxControl + 1 ELSE MaxControl

PostContextPoisoned ==
    /\ MayControl
    /\ poisons' = poisons + 1
    /\ inbox' = Append(inbox, [tag |-> "ContextPoisoned"])
    /\ UNCHANGED <<runnerVars, child, ctxbox, rebuild, floor, stale>>

PostRebuild(r) ==
    /\ rebuild[r].st = "idle"
    /\ MayControl
    /\ rebuild' = [rebuild EXCEPT ![r].st = "posted"]
    /\ inbox' = Append(inbox, [tag |-> "RebuildSession", rebuild |-> r])
    /\ UNCHANGED <<runnerVars, child, ctxbox, poisons, floor, stale>>

----------------------------------------------------------------------------
(* The WorkerActor, one message at a time.                                 *)

PreStart ==
    /\ Head(inbox).tag = "start"
    /\ SpawnChild
    /\ inbox' = Tail(inbox)
    /\ UNCHANGED <<kind, model, engines, job, chan, out, cutoff, ctxbox, rebuild, poisons, floor, stale>>

(* Without a child the batch and its output are dropped on the floor.      *)
HandleExecute ==
    /\ Head(inbox).tag = "Execute"
    /\ inbox' = Tail(inbox)
    /\ LET b == Head(inbox).batch
       IN  IF child
           THEN /\ ctxbox' = Append(ctxbox, Head(inbox))
                /\ job' = [job EXCEPT ![b].st = "mail"]
           ELSE /\ job' = [job EXCEPT ![b].st = "closed"]
                /\ UNCHANGED ctxbox
    /\ UNCHANGED <<kind, model, cells, engines, chan, out, cutoff, child, rebuild, poisons, floor, stale>>

(* The batches and rebuilds that wait in a mailbox.                        *)
Mailed(box, tag) == {i \in 1..Len(box) : box[i].tag = tag}
MailedBatches(box) == {box[i].batch : i \in Mailed(box, "Execute")}
MailedRebuilds(box) == {box[i].rebuild : i \in Mailed(box, "RebuildSession")}

(* The child is stopped, with its mailbox, and a new one is spawned; the   *)
(* tasks of the old one go on with the old runner.                         *)
HandlePoisoned ==
    /\ Head(inbox).tag = "ContextPoisoned"
    /\ inbox' = Tail(inbox)
    /\ ctxbox' = <<>>
    /\ job' = [b \in Batches |-> IF b \in MailedBatches(ctxbox)
                                 THEN [job[b] EXCEPT !.st = "closed"] ELSE job[b]]
    /\ rebuild' = [r \in Rebuilds |-> IF r \in MailedRebuilds(ctxbox)
                                      THEN Answered("lost") ELSE rebuild[r]]
    /\ SpawnChild
    /\ UNCHANGED <<kind, model, engines, chan, out, cutoff, poisons, floor, stale>>

HandleRebuild ==
    /\ Head(inbox).tag = "RebuildSession"
    /\ inbox' = Tail(inbox)
    /\ LET r == Head(inbox).rebuild
       IN  IF child
           THEN /\ ctxbox' = Append(ctxbox, Head(inbox))
                /\ rebuild' = [rebuild EXCEPT ![r].st = "mail"]
           ELSE /\ rebuild' = [rebuild EXCEPT ![r] = Answered("failed")]
                /\ UNCHANGED ctxbox
    /\ UNCHANGED <<runnerVars, child, poisons, floor, stale>>

WorkerStep ==
    /\ inbox # <<>>
    /\ PreStart \/ HandleExecute \/ HandlePoisoned \/ HandleRebuild

----------------------------------------------------------------------------
(* The ContextActor: every message becomes a task on the runner's lock.    *)

ContextExecute ==
    /\ Head(ctxbox).tag = "Execute"
    /\ job' = [job EXCEPT ![Head(ctxbox).batch].st = "waiting",
                          ![Head(ctxbox).batch].cell = Len(cells)]
    /\ UNCHANGED rebuild

ContextRebuild ==
    /\ Head(ctxbox).tag = "RebuildSession"
    /\ rebuild' = [rebuild EXCEPT ![Head(ctxbox).rebuild].st = "waiting",
                                  ![Head(ctxbox).rebuild].cell = Len(cells)]
    /\ UNCHANGED job

ContextStep ==
    /\ ctxbox # <<>>
    /\ ContextExecute \/ ContextRebuild
    /\ ctxbox' = Tail(ctxbox)
    /\ UNCHANGED <<kind, model, cells, engines, chan, out, cutoff, inbox, child, poisons, floor, stale>>

(* Fault: an operator's rebuild keeps the engine.                          *)
RebuildTaskKeeps(r) ==
    LET c == rebuild[r].cell
    IN  /\ rebuild[r].st = "waiting"
        /\ cells[c].lock = Free
        /\ rebuild' = [rebuild EXCEPT ![r] = Answered("ok")]
        /\ \E cause \in Causes :
            stale' = IF RebuildClears(kind, cause) /\ c = Len(cells) THEN Len(engines) ELSE stale
        /\ UNCHANGED <<runnerVars, inbox, child, ctxbox, poisons, floor>>

(* rebuild_session under the lock; the reply tells the sender, who may     *)
(* from now on count on a new engine.                                      *)
RebuildTask(r) ==
    LET c == rebuild[r].cell
    IN  /\ rebuild[r].st = "waiting"
        /\ cells[c].lock = Free
        /\ rebuild' = [rebuild EXCEPT ![r] = Answered("ok")]
        /\ \E cause \in Causes :
            LET clears == RebuildClears(kind, cause)
            IN  /\ cells' = IF clears THEN [cells EXCEPT ![c].engine = 0] ELSE cells
                /\ stale' = IF clears /\ c = Len(cells) THEN Len(engines) ELSE stale
        /\ UNCHANGED <<kind, model, engines, job, chan, out, cutoff, inbox, child, ctxbox, poisons,
                       floor>>

(* TensorRT reads its plan again first; that may fail and changes nothing. *)
RebuildTaskFails(r) ==
    /\ rebuild[r].st = "waiting"
    /\ kind = "tensorrt"
    /\ Causes \cap {"CudaContextPoisoned", "Manual"} # {}
    /\ cells[rebuild[r].cell].lock = Free
    /\ rebuild' = [rebuild EXCEPT ![r] = Answered("failed")]
    /\ UNCHANGED <<runnerVars, inbox, child, ctxbox, poisons, floor, stale>>

RunnerStep(b) == (TaskStep(b) \/ ProducerStep(b)) /\ UNCHANGED workerVars

WorkerNext ==
    \/ WorkerStep \/ ContextStep \/ PostContextPoisoned
    \/ \E r \in Rebuilds : PostRebuild(r) \/ RebuildTask(r) \/ RebuildTaskFails(r)
    \/ \E b \in Batches : PostExecute(b) \/ RunnerStep(b)
                          \/ (ReaderDrops(b) /\ UNCHANGED workerVars)

(* The actors, the tasks and the engines are scheduled; a consumer that is *)
(* still there reads.  Nobody has to post anything.  (infer_kv_dims waits  *)
(* for the session's lock on a thread of the runtime: for the drains to go *)
(* on meanwhile the runtime needs a second one.)                           *)
WorkerFairness ==
    /\ WF_vars(WorkerStep)
    /\ WF_vars(ContextStep)
    /\ \A r \in Rebuilds : WF_vars(RebuildTask(r))
    /\ \A b \in Batches : /\ WF_vars(TaskStep(b) /\ UNCHANGED workerVars)
                          /\ WF_vars(ProducerStep(b) /\ UNCHANGED workerVars)

WorkerSpec == WorkerInit /\ [][WorkerNext]_vars /\ WorkerFairness

----------------------------------------------------------------------------
(* A consumer that stayed, and whose batch was executed, sees a finish or  *)
(* an error before its stream closes: the drain of worker.rs forwards what *)
(* the ONNX, mistral.rs and scripted runners send last.  Silent are only a *)
(* producer that panics, mistral.rs's stream when the library ends it with *)
(* no response that finishes, and a script without chunks.  (vLLM is asked *)
(* separately.)                                                            *)
Explained(b) ==
    job[b].st = "closed" /\ job[b].reader /\ Executed(b) /\ b \notin cutoff => Delivered(b)

EndIsExplained == kind # "vllm" => \A b \in Batches : Explained(b)

(* engine.rs of the vLLM runner: "each step() ... returns finished /       *)
(* partial outputs we can demux ourselves", so the finish of a batch       *)
(* reaches its consumer whichever poller made the step.                    *)
FinishIsDemuxed == kind = "vllm" => \A b \in Batches : Explained(b)

(* The text handed over is always a prefix of what the model generated,    *)
(* with nothing repeated, lost or half-decoded in between, and it is all   *)
(* of it when the finish is handed over - although vLLM's outputs may be   *)
(* taken by another batch's poller, and the ONNX decoder holds broken      *)
(* characters back.                                                        *)
TextIsExact ==
    \A b \in Batches :
        /\ IsPrefix(out[b].text, Decode(job[b].ids))
        /\ out[b].fin > 0 => out[b].text = Decode(job[b].ids)

(* A batch sent after ContextPoisoned, or after a rebuild was acknowledged *)
(* that makes the runner forget its engine, never runs on the runner or    *)
(* the engine from before.                                                 *)
NoStaleEngine ==
    \A b \in Batches : job[b].eng # 0 =>
        /\ job[b].cell >= floor[b].cell
        /\ (job[b].cell = floor[b].cell => job[b].eng > floor[b].engine)

(* Every batch that was posted closes and every rebuild is answered or     *)
(* dropped, whatever fails, panics or is stopped on the way: no lock is    *)
(* kept by a task that ended and no poller polls an idle engine forever.   *)
EveryBatchCloses ==
    <>[](/\ \A b \in Batches : job[b].st \in {"idle", "closed"}
         /\ \A r \in Rebuilds : rebuild[r].st \in {"idle", "ok", "failed", "lost"})
=============================================================================
