---------------------------- MODULE SpeechFrames ----------------------------
(***************************************************************************)
(* The protocols of the speech providers: what a runner sends to open a    *)
(* session and for a message of the caller, and what an envelope of the    *)
(* provider is to it.                                                      *)
(*                                                                         *)
(* An envelope is a record of the fields that decide: its tag ("none" for  *)
(* text that carries no known shape) and the presence and the value of the *)
(* others.  Transcripts, audio and timings are left out.                   *)
(***************************************************************************)
EXTENDS Integers, Sequences

-----------------------------------------------------------------------------
(* Deepgram.  A Results without its channel does not decode; a tag that is *)
(* not known does.                                                         *)

DeepgramEnvelopes ==
    [tag : {"Results", "Metadata", "SpeechStarted", "none"}, channel : BOOLEAN,
     is_final : BOOLEAN, speech_final : BOOLEAN]

DeepgramFrame(e) ==
    CASE e.tag = "none" \/ (e.tag = "Results" /\ ~e.channel) -> "garbage"
      [] e.tag # "Results" -> "other"
      [] e.is_final -> IF e.speech_final THEN "final" ELSE "segment"
      [] OTHER -> IF e.speech_final THEN "early_final" ELSE "interim"

DeepgramFrames == {DeepgramFrame(e) : e \in DeepgramEnvelopes}

-----------------------------------------------------------------------------
(* AssemblyAI.  Every field has a default, so only the tag can fail.       *)

AssemblyAiEnvelopes ==
    [tag : {"Begin", "Turn", "Termination", "SessionInformation", "none"},
     end_of_turn : BOOLEAN]

AssemblyAiFrame(e) ==
    CASE e.tag = "none" -> "garbage"
      [] e.tag # "Turn" -> "other"
      [] OTHER -> IF e.end_of_turn THEN "final" ELSE "interim"

AssemblyAiFrames == {AssemblyAiFrame(e) : e \in AssemblyAiEnvelopes}

-----------------------------------------------------------------------------
(* ElevenLabs.  The whole input goes out in the first message and an empty *)
(* text asks for the flush.                                                *)

ElevenHandshake == <<"init", "flush">>

(* Audio is absent, base64 or not; the alignment counts when it is asked   *)
(* for; "none" is text that is no JSON object.                             *)
ElevenEnvelopes ==
    [tag : {"frame", "none"}, audio : {"absent", "base64", "corrupt"},
     alignment : BOOLEAN, is_final : BOOLEAN]

ElevenFrame(e) ==
    CASE e.tag = "none" \/ e.audio = "corrupt" -> "garbage"
      [] e.is_final -> "final"
      [] e.audio = "base64" \/ e.alignment -> "audio"
      [] OTHER -> "other"

ElevenFrames == {ElevenFrame(e) : e \in ElevenEnvelopes}

-----------------------------------------------------------------------------
(* Gemini Live.  A text and a Commit are both client content, an interrupt *)
(* and audio that is not PCM16 have no envelope.                           *)

GeminiHandshake == <<"setup">>

GeminiSends(message) ==
    CASE message = "audio" -> <<"realtimeInput">>
      [] message \in {"text", "commit"} -> <<"clientContent">>
      [] OTHER -> <<>>

(* A turn of several parts is as many turns of one.  An envelope whose     *)
(* only known key is "error" counts as an error; what does not parse, a    *)
(* tool call and a setupComplete in the session are ignored.               *)
GeminiEnvelopes ==
    [tag : {"setupComplete", "serverContent", "toolCall", "error", "none"},
     part : {"absent", "audio", "text", "corrupt"}, turn_complete : BOOLEAN]

GeminiFrame(e) ==
    CASE e.tag = "error" -> "error"
      [] e.tag = "setupComplete" -> "setup"
      [] e.tag = "serverContent" /\ e.part \in {"audio", "text"} ->
            IF e.turn_complete THEN "audio_final" ELSE "audio"
      [] e.tag = "serverContent" /\ e.turn_complete -> "final"
      [] OTHER -> "other"

GeminiFrames == {GeminiFrame(e) : e \in GeminiEnvelopes}

-----------------------------------------------------------------------------
(* OpenAI Realtime.  A text makes an item and asks for the response.       *)

OpenAiHandshake == <<"session.update">>

OpenAiSends(message) ==
    CASE message = "audio" -> <<"input_audio_buffer.append">>
      [] message = "text" -> <<"conversation.item.create", "response.create">>
      [] message = "commit" -> <<"input_audio_buffer.commit">>
      [] message = "interrupt" -> <<"response.cancel">>
      [] OTHER -> <<>>

(* "whole" is whether the audio is base64, or the error has its body.      *)
OpenAiEnvelopes ==
    [tag : {"response.audio.delta", "response.audio_transcript.delta",
            "response.audio_transcript.done", "input_transcription.completed",
            "response.done", "error", "session.created", "none"},
     whole : BOOLEAN]

OpenAiFrame(e) ==
    CASE e.tag = "response.audio_transcript.delta" -> "audio"
      [] e.tag = "response.audio.delta" /\ e.whole -> "audio"
      [] e.tag \in {"response.audio_transcript.done", "input_transcription.completed"} ->
            "final"
      [] e.tag = "response.done" -> "done"
      [] e.tag = "error" /\ e.whole -> "error"
      [] OTHER -> "other"

OpenAiFrames == {OpenAiFrame(e) : e \in OpenAiEnvelopes}
=============================================================================
