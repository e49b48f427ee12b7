---------------------------- MODULE SpeechStream ----------------------------
(***************************************************************************)
(* One streaming session of a speech runner over the provider's WebSocket: *)
(*                                                                         *)
(*   "deepgram"        Deepgram execute_audio                              *)
(*   "assemblyai"      AssemblyAI execute_audio                            *)
(*   "elevenlabs"      ElevenLabs speak_ws                                 *)
(*   "gemini_live"     Gemini Live open_session                            *)
(*   "openai_realtime" OpenAI Realtime open_session                        *)
(*                                                                         *)
(* The transcribers and Gemini Live run two tasks, an uplink that drains   *)
(* the caller's input and a downlink that turns provider frames into       *)
(* items; the others run one. Every task holds a sender of the bounded     *)
(* item channel, whose receiver is the stream the consumer reads: the      *)
(* stream ends when all the tasks have ended and the channel is drained.   *)
(*                                                                         *)
(* Messages and frames are known by their position: fed[n] is the caller's *)
(* n-th message, served[n] the provider's n-th frame.                      *)
(***************************************************************************)
EXTENDS SpeechFrames, SpeechOpening

CONSTANTS
    Providers,   \* which of the runners the session may be of
    OutCapacity, \* capacity of the item channel (16 in the code)
    InCapacity,  \* capacity of the input channel (8, or the caller's choice)
    MaxUnread,   \* bound: how many frames may wait in the socket
    MaxInput,    \* bound: how many messages the caller sends
    MaxFrames    \* bound: how many frames the provider sends before its end

ASSUME StreamAssumption ==
    /\ Providers \subseteq {"deepgram", "assemblyai", "elevenlabs", "gemini_live",
                            "openai_realtime"}
    /\ {OutCapacity, InCapacity, MaxUnread} \subseteq Nat \ {0}
    /\ MaxInput \in Nat /\ MaxFrames \in Nat

VARIABLES
    provider,     \* the runner of this session
    emit_interim, \* TranscribeOptions::interim_results
    phase,        \* "idle", "setup", "open", or "refused" (an Err returned)
    refusal,      \* the error it was refused with, None before
    dialled,      \* whether a connection was tried: "no", "yes", or "bad_url"
                  \* when WsClient turned the address or a header down itself
    fed,          \* messages the caller has put in the input channel
    taken,        \* how many of them were received from it
    input_open,   \* whether the caller still holds the input's sender
    wire,         \* what was sent to the provider: the handshake (negative),
                  \* positions in fed, or Marker
    sink,         \* "ok", or "broken" once a send has failed
    served,       \* frames the provider has sent, its end the last
    read,         \* how many of them were received
    up,           \* the uplink task
    down,         \* the downlink task: pc, items it is sending, where it goes then
    produced,     \* the transcript chunks the downlink has collected
    out,          \* the item channel
    got,          \* items the consumer has read
    gone,         \* whether the consumer has dropped the stream
    cancelled     \* whether RealtimeSession::cancel was called

caller == <<fed, input_open>>
server == <<served>>
consumer == <<got, gone>>
fixed == <<provider, emit_interim>>
opening == <<phase, refusal, dialled>>
vars == <<fixed, opening, caller, taken, wire, sink, server, read, up, down,
          produced, out, consumer, cancelled>>

Stt == provider \in {"deepgram", "assemblyai"}
Eleven == provider = "elevenlabs"
Gemini == provider = "gemini_live"
OpenAi == provider = "openai_realtime"

(* CloseStream, Terminate or a Close frame.                                *)
Marker == 0

(* How a connection ends: a Close frame with the code 1000, with 1005 or   *)
(* 1006, or with another, the end of the stream, and a receive error.      *)
Ends == {"close_1000", "close_1006", "close_other", "eof", "recv_error"}

(* "segment" is a Deepgram result that is_final but not speech_final and   *)
(* "early_final" the reverse; "garbage" does not decode; "other" stands    *)
(* for all that is ignored.                                                *)
Frames ==
    CASE provider = "deepgram" -> DeepgramFrames
      [] provider = "assemblyai" -> AssemblyAiFrames
      [] Eleven -> ElevenFrames
      [] Gemini -> GeminiFrames
      [] OpenAi -> OpenAiFrames

(* The caller's messages, one of each kind the uplinks tell apart: Gemini  *)
(* Live treats a text and a Commit as it treats audio, OpenAI Realtime a   *)
(* Commit and an interrupt.                                                *)
Messages ==
    CASE Stt -> {"audio", "empty"}
      [] Eleven -> {}
      [] Gemini -> {"audio", "bad_format", "interrupt", "close"}
      [] OpenAi -> {"audio", "text", "commit", "close"}

(* An item of the stream: n is the frame it was made from, 0 if none.      *)
Item(kind, n) == [kind |-> kind, n |-> n, by |-> "down"]
UplinkError == [kind |-> "err", n |-> 0, by |-> "up"]
DownlinkError == Item("err", 0)

Off == [pc |-> "off", hold |-> <<>>, then |-> "ended"]

(* Send the items, then go on there.                                       *)
Sending(items, then) ==
    [pc |-> IF items = <<>> THEN then ELSE "send", hold |-> items, then |-> then]

At(label) == Sending(<<>>, label)

Init ==
    /\ provider \in Providers
    /\ emit_interim \in (IF Stt THEN BOOLEAN ELSE {FALSE})
    /\ phase = "idle" /\ refusal = None /\ dialled = "no"
    /\ fed = <<>> /\ taken = 0 /\ input_open = ~Eleven
    /\ wire = <<>> /\ sink = "ok"
    /\ served = <<>> /\ read = 0
    /\ up = "off" /\ down = Off /\ produced = <<>>
    /\ out = <<>> /\ got = <<>> /\ gone = FALSE /\ cancelled = FALSE

-----------------------------------------------------------------------------
(* Opening.  The runner rejects the request, WsClient rejects the address  *)
(* or a header, the connection or one of the first sends fails, or the     *)
(* tasks are spawned.  Every error of connect becomes a NetworkError, the  *)
(* one that ws-core calls terminal (WsError::BadUrl) included.             *)

(* The handshake takes the places below the first of the messages.         *)
Greeting(handshake) == [i \in DOMAIN handshake |-> i - 1 - Len(handshake)]

Refused(kind) == phase' = "refused" /\ refusal' = kind

Opening(rejection, handshake, to, uplink, downlink) ==
    /\ phase = "idle"
    /\ \/ /\ rejection # None /\ Refused(rejection)
          /\ UNCHANGED <<dialled, up, down, wire>>
       \/ /\ rejection = None /\ Refused("NetworkError") /\ dialled' = "bad_url"
          /\ UNCHANGED <<up, down, wire>>
       \/ /\ rejection = None /\ Refused("NetworkError") /\ dialled' = "yes"
          /\ \E k \in 0..Len(handshake) :
                /\ k = 0 \/ k < Len(handshake)
                /\ wire' = SubSeq(Greeting(handshake), 1, k)
          /\ UNCHANGED <<up, down>>
       \/ /\ rejection = None /\ phase' = to /\ dialled' = "yes"
          /\ up' = uplink /\ down' = downlink /\ wire' = Greeting(handshake)
          /\ UNCHANGED refusal
    /\ UNCHANGED <<fixed, caller, taken, sink, server, read, produced, out,
                   consumer, cancelled>>

OpenDeepgram ==
    /\ provider = "deepgram"
    /\ \E r \in SttRequests : Opening(DeepgramRejects(r), <<>>, "open", "run", At("read"))

OpenAssemblyAi ==
    /\ provider = "assemblyai"
    /\ \E r \in SttRequests :
          Opening(AssemblyAiRejects(r), <<>>, "open", "run", At("read"))

OpenElevenLabs ==
    /\ Eleven
    /\ \E r \in SpeechRequests :
          Opening(ElevenOpenRejects(r), ElevenHandshake, "open", "off", At("read"))

OpenOpenAi ==
    /\ OpenAi
    /\ \E r \in RealtimeRequests :
          Opening(OpenAiRejects(r), OpenAiHandshake, "open", "off", At("read"))

OpenGemini ==
    /\ Gemini
    /\ \E r \in RealtimeRequests :
          Opening(GeminiRejects(r), GeminiHandshake, "setup", "off", Off)

Open ==
    OpenDeepgram \/ OpenAssemblyAi \/ OpenElevenLabs \/ OpenOpenAi \/ OpenGemini

(* What the wait for setupComplete fails with, if this frame ends it.      *)
SetupFails(frame) ==
    CASE frame = "error" -> GeminiLiveError("ServerError")
      [] frame \in Ends \ {"recv_error"} -> GeminiLiveError("SessionClosed")
      [] frame = "recv_error" -> "NetworkError"
      [] OTHER -> None

(* Gemini Live waits for setupComplete before it returns the session.      *)
AwaitSetup ==
    /\ phase = "setup" /\ read < Len(served)
    /\ read' = read + 1
    /\ LET frame == served[read'] IN
         \/ SetupFails(frame) # None /\ Refused(SetupFails(frame)) /\ down' = down
         \/ /\ frame = "setup" /\ phase' = "open" /\ down' = At("start")
            /\ UNCHANGED refusal
         \/ /\ SetupFails(frame) = None /\ frame # "setup"
            /\ UNCHANGED <<phase, refusal, down>>
    /\ UNCHANGED <<fixed, dialled, caller, taken, wire, sink, server, up, produced,
                   out, consumer, cancelled>>

(* The first poll of session_adapter spawns the uplink task.               *)
StartAdapter ==
    /\ down.pc = "start"
    /\ up' = "run" /\ down' = At("read")
    /\ UNCHANGED <<fixed, opening, caller, taken, wire, sink, server, read, produced,
                   out, consumer, cancelled>>

-----------------------------------------------------------------------------
(* The uplink.                                                             *)

(* WsSender::send: once a send has failed they all fail.                   *)
Send(frames) ==
    /\ sink = "ok" /\ sink' = "ok"
    /\ wire' = wire \o frames

SendFails == sink' = "broken" /\ wire' = wire

NoSend == UNCHANGED <<wire, sink>>

(* Fault: an empty chunk is taken for the end of the input.                *)
SttTakeStopsAtEmpty(n) ==
    \/ /\ fed[n] = "empty"
       /\ Send(<<Marker>>) \/ SendFails
       /\ up' = "ended"
    \/ fed[n] # "empty" /\ Send(<<n>>) /\ up' = up
    \/ fed[n] # "empty" /\ SendFails /\ up' = "report"

SttTake(n) ==
    \/ fed[n] = "empty" /\ NoSend /\ up' = up
    \/ fed[n] # "empty" /\ Send(<<n>>) /\ up' = up
    \/ fed[n] # "empty" /\ SendFails /\ up' = "report"

GeminiTake(n) ==
    \/ GeminiSends(fed[n]) # <<>> /\ Send(<<n>>) /\ up' = up
    \/ GeminiSends(fed[n]) # <<>> /\ SendFails /\ up' = "ended"
    \/ fed[n] \in {"bad_format", "interrupt"} /\ NoSend /\ up' = "report"
    \/ fed[n] = "close" /\ NoSend /\ up' = "ended"

UplinkTake ==
    /\ up = "run" /\ taken < Len(fed)
    /\ taken' = taken + 1
    /\ \/ Stt /\ SttTake(taken + 1)
       \/ Gemini /\ GeminiTake(taken + 1)
    /\ UNCHANGED <<fixed, opening, caller, server, read, down, produced, out,
                   consumer, cancelled>>

(* recv returns None; the transcribers then ask the provider to flush.     *)
UplinkDrained ==
    /\ up = "run" /\ taken = Len(fed) /\ ~input_open
    /\ up' = "ended"
    /\ \/ Stt /\ (Send(<<Marker>>) \/ SendFails)
       \/ Gemini /\ NoSend
    /\ UNCHANGED <<fixed, opening, caller, taken, server, read, down, produced, out,
                   consumer, cancelled>>

(* The uplink's error goes through its own sender of the item channel.     *)
UplinkReport ==
    /\ up = "report"
    /\ \/ gone /\ out' = out
       \/ ~gone /\ Len(out) < OutCapacity /\ out' = Append(out, UplinkError)
    /\ up' = "ended"
    /\ UNCHANGED <<fixed, opening, caller, taken, wire, sink, server, read, down,
                   produced, consumer, cancelled>>

-----------------------------------------------------------------------------
(* The downlink: what a frame makes it send, and where it goes then.       *)

SttReads(frame) ==
    CASE frame \in {"close_1000", "close_1006", "eof"} -> At("finish")
      [] frame = "garbage" -> Sending(<<DownlinkError>>, "finish")
      [] frame \in {"close_other", "recv_error"} -> Sending(<<DownlinkError>>, "ended")
      [] OTHER -> At("read")

(* The chunk of a Results envelope: is_final follows speech_final.         *)
DeepgramCollects(frame, n) ==
    CASE frame = "final" -> <<Item("final", n)>>
      [] frame = "early_final" /\ emit_interim -> <<Item("final", n)>>
      [] frame = "segment" \/ (frame = "interim" /\ emit_interim) -> <<Item("data", n)>>
      [] OTHER -> <<>>

(* The chunk of a Turn envelope: is_final follows end_of_turn.             *)
AssemblyAiCollects(frame, n) ==
    CASE frame = "final" -> <<Item("final", n)>>
      [] frame = "interim" /\ emit_interim -> <<Item("data", n)>>
      [] OTHER -> <<>>

Collects(frame, n) ==
    CASE provider = "deepgram" -> DeepgramCollects(frame, n)
      [] provider = "assemblyai" -> AssemblyAiCollects(frame, n)
      [] OTHER -> <<>>

(* Fault: sent_final is not set, so the terminal chunk is sent twice.      *)
ElevenReadsForgetful(frame, n) ==
    CASE frame = "audio" -> Sending(<<Item("data", n)>>, "read")
      [] frame = "final" -> Sending(<<Item("final", n)>>, "finish")
      [] frame \in {"close_1000", "eof"} -> At("finish")
      [] frame \in {"garbage", "close_1006", "close_other", "recv_error"} ->
            Sending(<<DownlinkError>>, "finish")
      [] OTHER -> At("read")

ElevenReads(frame, n) ==
    CASE frame = "audio" -> Sending(<<Item("data", n)>>, "read")
      [] frame = "final" -> Sending(<<Item("final", n)>>, "close")
      [] frame \in {"close_1000", "eof"} -> At("finish")
      [] frame \in {"garbage", "close_1006", "close_other", "recv_error"} ->
            Sending(<<DownlinkError>>, "finish")
      [] OTHER -> At("read")

(* Fault: a failed session is ended like a closed one, with a Done alone.  *)
GeminiReadsSilently(frame, n) ==
    CASE frame = "audio" -> Sending(<<Item("data", n)>>, "read")
      [] frame = "final" -> Sending(<<Item("final", n)>>, "read")
      [] frame = "audio_final" -> Sending(<<Item("data", n), Item("final", n)>>, "read")
      [] frame \in Ends \cup {"error"} -> At("finish")
      [] OTHER -> At("read")

GeminiReads(frame, n) ==
    CASE frame = "audio" -> Sending(<<Item("data", n)>>, "read")
      [] frame = "final" -> Sending(<<Item("final", n)>>, "read")
      [] frame = "audio_final" -> Sending(<<Item("data", n), Item("final", n)>>, "read")
      [] frame \in {"close_1000", "close_1006", "close_other", "eof"} -> At("finish")
      [] frame \in {"error", "recv_error"} -> Sending(<<DownlinkError>>, "finish")
      [] OTHER -> At("read")

OpenAiReads(frame, n) ==
    CASE frame = "audio" -> Sending(<<Item("data", n)>>, "read")
      [] frame = "final" -> Sending(<<Item("final", n)>>, "read")
      [] frame = "done" -> Sending(<<Item("done", n)>>, "read")
      [] frame = "error" -> Sending(<<Item("err", n)>>, "read")
      [] frame \in Ends -> At("ended")
      [] OTHER -> At("read")

DownlinkRead ==
    /\ down.pc = "read" /\ read < Len(served)
    /\ read' = read + 1
    /\ LET n == read + 1 IN
         /\ down' = CASE Stt -> SttReads(served[n])
                      [] Eleven -> ElevenReads(served[n], n)
                      [] Gemini -> GeminiReads(served[n], n)
                      [] OpenAi -> OpenAiReads(served[n], n)
         /\ produced' = produced \o Collects(served[n], n)
    /\ UNCHANGED <<fixed, opening, caller, taken, wire, sink, server, up, out,
                   consumer, cancelled>>

(* The chunks to flush: the last one is promoted when none is final, and   *)
(* an empty final one stands in for none.                                  *)
Flush(chunks) ==
    CASE chunks = <<>> -> <<Item("final", 0)>>
      [] \E i \in DOMAIN chunks : chunks[i].kind = "final" -> chunks
      [] OTHER -> [chunks EXCEPT ![Len(chunks)].kind = "final"]

DownlinkFinish ==
    /\ down.pc = "finish"
    /\ down' = CASE Stt -> Sending(Flush(produced), "ended")
                 [] Eleven -> Sending(<<Item("final", 0)>>, "close")
                 [] Gemini -> Sending(<<Item("done", 0)>>, "ended")
    /\ produced' = <<>>
    /\ UNCHANGED <<fixed, opening, caller, taken, wire, sink, server, read, up, out,
                   consumer, cancelled>>

ElevenCloses ==
    /\ down.pc = "close"
    /\ Send(<<Marker>>) \/ SendFails
    /\ down' = At("ended")
    /\ UNCHANGED <<fixed, opening, caller, taken, server, read, up, produced, out,
                   consumer, cancelled>>

DownlinkSends ==
    /\ down.pc = "send" /\ ~gone /\ Len(out) < OutCapacity
    /\ out' = Append(out, Head(down.hold))
    /\ down' = Sending(Tail(down.hold), down.then)
    /\ UNCHANGED <<fixed, opening, caller, taken, wire, sink, server, read, up,
                   produced, consumer, cancelled>>

(* Fault: a full channel is polled for room, whoever has dropped it.       *)
DownlinkSendFailsUnnoticed == FALSE /\ UNCHANGED vars

(* The consumer is gone.  A flush is broken off, ElevenLabs leaves its     *)
(* loop and Gemini Live returns; where the code ignores the result of a    *)
(* send, the task goes on.                                                 *)
DownlinkSendFails ==
    /\ down.pc = "send" /\ gone
    /\ LET item == Head(down.hold) IN
         down' = CASE Stt /\ item.kind # "err" -> At("ended")
                   [] Eleven /\ item.n > 0 -> At("finish")
                   [] Gemini /\ item.kind = "data" -> At("ended")
                   [] OTHER -> Sending(Tail(down.hold), down.then)
    /\ UNCHANGED <<fixed, opening, caller, taken, wire, sink, server, read, up,
                   produced, out, consumer, cancelled>>

-----------------------------------------------------------------------------
(* OpenAI Realtime serves its input from the task of the downlink.         *)

(* A failed send only skips the rest of the message's frames.              *)
AdapterTake ==
    /\ OpenAi /\ down.pc = "read" /\ taken < Len(fed)
    /\ taken' = taken + 1
    /\ LET n == taken + 1
           frames == [k \in DOMAIN OpenAiSends(fed[n]) |-> n] IN
         \/ fed[n] # "close" /\ Send(frames) /\ down' = down
         \/ /\ fed[n] # "close" /\ down' = down
            /\ sink' = "broken"
            /\ \E k \in (IF sink = "ok" THEN 0..(Len(frames) - 1) ELSE {0}) :
                  wire' = wire \o SubSeq(frames, 1, k)
         \/ fed[n] = "close" /\ (Send(<<Marker>>) \/ SendFails) /\ down' = At("ended")
    /\ UNCHANGED <<fixed, opening, caller, server, read, up, produced, out,
                   consumer, cancelled>>

AdapterDrained ==
    /\ OpenAi /\ down.pc = "read" /\ taken = Len(fed) /\ ~input_open
    /\ Send(<<Marker>>) \/ SendFails
    /\ down' = At("ended")
    /\ UNCHANGED <<fixed, opening, caller, taken, server, read, up, produced, out,
                   consumer, cancelled>>

(* RealtimeSession::cancel aborts the adapter, at an await.  The uplink of *)
(* Gemini Live is a task of its own and is not aborted.                    *)
Cancel ==
    /\ Gemini \/ OpenAi
    /\ down.pc \in {"start", "read", "send"}
    /\ cancelled' = TRUE
    /\ down' = At("ended")
    /\ UNCHANGED <<fixed, opening, caller, taken, wire, sink, server, read, up,
                   produced, out, consumer>>

-----------------------------------------------------------------------------
(* The caller, the provider and the consumer.                              *)

(* Whether a task, or the call that will spawn it, holds the receiver.     *)
InputHeld ==
    CASE phase \in {"idle", "setup"} -> TRUE
      [] phase = "refused" -> FALSE
      [] Stt -> up # "ended"
      [] Gemini -> up \in {"run", "report"} \/ down.pc = "start"
      [] OTHER -> down.pc # "ended"

Feed(m) ==
    /\ input_open /\ InputHeld
    /\ Len(fed) < MaxInput /\ Len(fed) - taken < InCapacity
    /\ fed' = Append(fed, m)
    /\ UNCHANGED <<fixed, opening, input_open, taken, wire, sink, server, read, up,
                   down, produced, out, consumer, cancelled>>

CloseInput ==
    /\ input_open
    /\ input_open' = FALSE
    /\ UNCHANGED <<fixed, opening, fed, taken, wire, sink, server, read, up, down,
                   produced, out, consumer, cancelled>>

ServerEnded == \E n \in DOMAIN served : served[n] \in Ends

Serve ==
    /\ phase \in {"setup", "open"} /\ ~ServerEnded
    /\ Len(served) - read < MaxUnread
    /\ \/ Len(served) < MaxFrames /\ \E f \in Frames : served' = Append(served, f)
       \/ \E e \in Ends : served' = Append(served, e)
    /\ UNCHANGED <<fixed, opening, caller, taken, wire, sink, read, up, down,
                   produced, out, consumer, cancelled>>

Consume ==
    /\ ~gone /\ out # <<>>
    /\ got' = Append(got, Head(out)) /\ out' = Tail(out)
    /\ UNCHANGED <<fixed, opening, caller, taken, wire, sink, server, read, up, down,
                   produced, gone, cancelled>>

DropStream ==
    /\ phase = "open" /\ ~gone
    /\ gone' = TRUE /\ out' = <<>>
    /\ UNCHANGED <<fixed, opening, caller, taken, wire, sink, server, read, up, down,
                   produced, got, cancelled>>

(* Every sender of the item channel is gone.                               *)
TasksEnded == phase = "open" /\ up \in {"off", "ended"} /\ down.pc = "ended"

Quiescent ==
    /\ (TasksEnded \/ phase = "refused") /\ out = <<>>
    /\ UNCHANGED vars

UplinkTask == UplinkTake \/ UplinkDrained \/ UplinkReport

DownlinkTask ==
    \/ StartAdapter \/ DownlinkRead \/ DownlinkFinish \/ ElevenCloses
    \/ DownlinkSends \/ DownlinkSendFails
    \/ AdapterTake \/ AdapterDrained

Next ==
    \/ Open \/ AwaitSetup \/ UplinkTask \/ DownlinkTask \/ Cancel
    \/ \E m \in Messages : Feed(m)
    \/ CloseInput \/ Serve \/ Consume \/ DropStream \/ Quiescent

Spec == Init /\ [][Next]_vars

(* Tokio polls a task that can make progress; callers, providers and       *)
(* consumers may do nothing for ever.                                      *)
FairSpec ==
    Spec /\ WF_vars(AwaitSetup) /\ WF_vars(UplinkTask) /\ WF_vars(DownlinkTask)

-----------------------------------------------------------------------------
(* Properties.                                                             *)

Items == [kind : {"data", "final", "err", "done"}, n : 0..(MaxFrames + 1),
          by : {"up", "down"}]

(* The variables stay within their types, and the item channel within its  *)
(* capacity whichever task sends on it.                                    *)
StreamTypeOK ==
    /\ provider \in Providers /\ emit_interim \in BOOLEAN
    /\ phase \in {"idle", "setup", "open", "refused"}
    /\ refusal \in Kinds \cup {None} /\ dialled \in {"no", "bad_url", "yes"}
    /\ fed \in Seq(Messages) /\ taken \in 0..Len(fed) /\ input_open \in BOOLEAN
    /\ wire \in Seq(-2..MaxInput) /\ sink \in {"ok", "broken"}
    /\ served \in Seq(Frames \cup Ends) /\ read \in 0..Len(served)
    /\ up \in {"off", "run", "report", "ended"}
    /\ down.pc \in {"off", "start", "read", "send", "finish", "close", "ended"}
    /\ down.hold \in Seq(Items) /\ (down.pc = "send" <=> down.hold # <<>>)
    /\ produced \in Seq(Items) /\ got \in Seq(Items)
    /\ out \in Seq(Items) /\ Len(out) <= OutCapacity
    /\ gone \in BOOLEAN /\ cancelled \in BOOLEAN

Delivered == got \o out

Count(Test(_)) == Cardinality({i \in DOMAIN Delivered : Test(Delivered[i])})
IsFinal(item) == item.kind = "final"
IsDone(item) == item.kind = "done"
UpFailed(item) == item = UplinkError
DownFailed(item) == item = DownlinkError

(* The consumer has been given all there will be.                          *)
SeenOut == TasksEnded /\ ~gone /\ ~cancelled

(* A consumer that reads to the end always learns how the session ended: a *)
(* failed transcription by an error and a complete one by a final chunk, a *)
(* synthesis by exactly one terminal chunk, behind an error if it failed,  *)
(* and a Gemini session by exactly one Done, behind an error if it failed. *)
(* The tasks of these runners that met a failure reported it exactly once  *)
(* (execute_audio, speak_ws, downlink_task), but for two that the code     *)
(* ignores: a failed flush marker, and a failed send of Gemini's uplink.   *)
(* Nothing is said of OpenAI Realtime, whose task ends silently with its   *)
(* connection.  A session that never opened returned an error and nothing  *)
(* was sent unless a connection was made: what the runner rejects itself   *)
(* is never worth a retry, a failed connection always is, and a provider   *)
(* that hangs up in the setup is not.  An address or a header that         *)
(* WsClient rejects is reported as a failed connection is, so it is        *)
(* retried, although ws-core calls it terminal (open_session,              *)
(* execute_audio, speak_ws).                                               *)
EndIsExplained ==
    /\ (phase = "refused") <=> (refusal # None)
    /\ phase = "refused" =>
         /\ dialled = "no" => wire = <<>> /\ ~IsRetryable(refusal)
         /\ dialled = "bad_url" => wire = <<>> /\ refusal = "NetworkError"
         /\ dialled = "yes" => (IsRetryable(refusal) <=>
               (read = 0 \/ served[read] \in {"error", "recv_error"}))
    /\ SeenOut =>
      /\ Stt =>
           /\ Count(IsFinal) > 0 \/ Count(DownFailed) = 1
           /\ Count(DownFailed) =
                IF served[read] \in {"garbage", "close_other", "recv_error"} THEN 1 ELSE 0
           /\ Count(UpFailed) = 1 \/ (taken = Len(fed) /\ ~input_open)
      /\ Eleven =>
           /\ Count(IsFinal) = 1
           /\ Count(DownFailed) =
                IF served[read] \in {"final", "close_1000", "eof"} THEN 0 ELSE 1
      /\ Gemini =>
           /\ Count(IsDone) = 1
           /\ Count(DownFailed) =
                IF served[read] \in {"error", "recv_error"} THEN 1 ELSE 0
           /\ Count(UpFailed) =
                IF taken > 0 /\ fed[taken] \in {"bad_format", "interrupt"} THEN 1 ELSE 0

(* The frames that carry something for the consumer; what Gemini Live      *)
(* receives before setupComplete does not.                                 *)
Worth(n) ==
    /\ \/ served[n] \in {"segment", "final", "audio", "audio_final", "done"}
       \/ served[n] \in {"interim", "early_final"} /\ emit_interim
       \/ served[n] = "error" /\ OpenAi
    /\ Gemini => \E m \in 1..(n - 1) : served[m] = "setup"

(* Nothing is delivered twice or out of the provider's order, and when the *)
(* connection did not fail a consumer that reads to the end has an item    *)
(* for every frame worth one: not a word of the transcript is lost between *)
(* the collecting, the promotion of the last chunk and the flush.          *)
DeliveredInOrder ==
    LET made == {i \in DOMAIN Delivered : Delivered[i].n > 0} IN
    /\ \A i, j \in made : i < j =>
          \/ Delivered[i].n < Delivered[j].n
          \/ /\ Delivered[i].n = Delivered[j].n /\ served[Delivered[i].n] = "audio_final"
             /\ Delivered[i].kind = "data" /\ Delivered[j].kind = "final"
    /\ SeenOut /\ ~(Stt /\ served[read] \in {"close_other", "recv_error"})
         => {Delivered[i].n : i \in made} = {n \in 1..read : Worth(n)}

(* What closes a stream comes last: nothing follows the terminal chunk of  *)
(* a synthesis, nothing but an error of the uplink follows a Gemini Done,  *)
(* and a transcriber's downlink reports its failure before any chunk,      *)
(* since it collects them all until the connection has ended.              *)
TerminalIsLast ==
    \A i, j \in DOMAIN Delivered : i < j =>
      /\ Eleven => Delivered[i].kind # "final"
      /\ Gemini => (Delivered[i].kind = "done" => UpFailed(Delivered[j]))
      /\ Stt /\ DownFailed(Delivered[j]) => Delivered[i].by = "up"

(* What the consumer has been given is a faithful prefix of the session.   *)
DeliveredFaithfully == DeliveredInOrder /\ TerminalIsLast

(* The provider is sent the caller's messages in order and is asked to     *)
(* flush, or told of the end, only when every one of them was sent.        *)
AudioThenMarker ==
    /\ \A i, j \in DOMAIN wire :
          i < j => wire[i] # Marker /\ (wire[j] = Marker \/ wire[i] <= wire[j])
    /\ \A i \in DOMAIN wire : wire[i] = Marker /\ ~Eleven =>
          \A n \in DOMAIN fed : fed[n] \notin {"empty", "close"} /\ n <= taken
             => \E j \in DOMAIN wire : wire[j] = n
    /\ Stt /\ (\E i \in DOMAIN wire : wire[i] = Marker)
         => taken = Len(fed) /\ ~input_open

(* When the provider has ended the connection and the caller its input,    *)
(* the session's tasks end, provided that the consumer reads on or drops   *)
(* the stream; nobody is left blocked on the full channel.                 *)
TasksEnd ==
    []<>(gone \/ out = <<>>) =>
      ((phase # "refused" /\ ServerEnded /\ ~input_open)
          ~> (TasksEnded \/ phase = "refused"))
=============================================================================
