------------------------------ MODULE Runners ------------------------------
(***************************************************************************)
(* What a runner stands on: a provider reached over HTTP, a model in the   *)
(* process, or the link helpers for a provider's WebSocket.  A deployment  *)
(* is of one kind, so one of the three state machines runs and the others  *)
(* rest.                                                                   *)
(***************************************************************************)
EXTENDS HttpRunner, LocalSpeech, WsLink

Resting(kind) ==
    /\ runner = [kind |-> kind, feature |-> TRUE, platform |-> TRUE]
    /\ disk = [model |-> 0, written |-> 0, manifest |-> "ok"]
    /\ cell = 0 /\ floor = 0 /\ job = NewJob

RunnersInit ==
    /\ Init /\ LinkInit
    /\ SpeechInit \/ Resting("http") \/ Resting("link")
    /\ runner.kind # "link" => ~net /\ policy = CHOOSE p \in [max : Limits, jitter : Jitters] : TRUE

RunnersNext ==
    \/ runner.kind = "http" /\ Next /\ UNCHANGED <<speechVars, linkVars>>
    \/ runner.kind = "link" /\ LinkNext /\ UNCHANGED <<vars, speechVars>>
    \/ runner.kind \notin {"http", "link"} /\ SpeechNext /\ UNCHANGED <<vars, linkVars>>

RunnersSpec ==
    RunnersInit /\ [][RunnersNext]_<<vars, speechVars, linkVars>>

-----------------------------------------------------------------------------
(* Properties.                                                             *)

(* A call never works with what a finished rebuild has replaced: an HTTP   *)
(* request is sent with no older credential than the last rebuild that was *)
(* acknowledged before it started (session.rs), and an in-process runner   *)
(* never speaks from a model older than the one its rebuild was to load.   *)
NothingStale == FreshSession /\ SessionIsCurrent

(* Nothing is lost on the way in or out but a system message of Parts:     *)
(* every other message of the conversation is in the request, in order     *)
(* (Anthropic's and Gemini's from_batch drop that one), every piece of     *)
(* text of the answer reaches the consumer (wire.rs and the SSE framing),  *)
(* and the samples an in-process runner decodes are those of the file.     *)
ContentKept == TextComplete /\ ConversationKept /\ SignalIsWhole

(* The last piece of speech or of a transcript, and only the last, is      *)
(* marked final, whichever way it was cut into chunks.                     *)
FinalComesLast == FinalIsLast /\ LocalFinalIsLast
=============================================================================
