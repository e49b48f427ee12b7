---------------------------- MODULE LocalSpeech ----------------------------
(***************************************************************************)
(* Calls of one in-process speech runner.  whisper and Piper load their    *)
(* model on the first call and keep it in a OnceCell: a failed load leaves *)
(* the cell empty, a rebuild for a poisoned context or by hand empties it. *)
(* The stubs look at the disk on every call.  The operator replaces and    *)
(* removes model files at any time.                                        *)
(***************************************************************************)
EXTENDS LocalAudio

CONSTANTS
    MaxVersions,   \* how often a model file is written
    MaxCalls       \* calls of the runner

VARIABLES
    runner,   \* the runner, and what it was built with
    disk,     \* the model file and, for Piper, its manifest
    cell,     \* version of the loaded session, 0 when the cell is empty
    floor,    \* version on disk when the cell was last to be emptied
    job       \* the call in progress and its result

speechVars == <<runner, disk, cell, floor, job>>

Lazy == {"whisper", "piper"}
OnDisk == Lazy \cup {"kokoro", "xtts", "moss"}
SpeechRunners == OnDisk \cup {"audio2face", "mock_stt", "mock_tts", "mock_a2f", "replay"}

NewJob == [phase |-> "new", calls |-> 0, batch |-> [size |-> 0], model |-> 0, err |-> None, given |-> <<>>, out |-> <<>>]

SpeechInit ==
    /\ runner \in [kind : SpeechRunners, feature : BOOLEAN, platform : BOOLEAN]
    /\ disk \in [model : {0, 1}, written : {1},
                 manifest : IF runner.kind = "piper" THEN {"ok", "broken", "absent"} ELSE {"ok"}]
    /\ cell = 0 /\ floor = 0
    /\ job = NewJob

----------------------------------------------------------------------------
(* Inputs.                                                                 *)

Params(rate, channels) == [rate |-> rate, channels |-> channels]
OtherChunk(id, size) == [id |-> id, size |-> size, tag |-> 0, channels |-> 0, rate |-> 0, bits |-> 0]
Fmt(size, tag, channels, rate, bits) ==
    [id |-> "fmt", size |-> size, tag |-> tag, channels |-> channels, rate |-> rate, bits |-> bits]

WavFiles ==
    LET fmts == {Fmt(16, 1, 1, 16000, 16), Fmt(18, 3, 1, 16000, 32), Fmt(16, 1, 2, 16000, 16), Fmt(14, 1, 1, 16000, 16)}
        others == {OtherChunk("LIST", 3), OtherChunk("data", 4), OtherChunk("data", 6)}
        files == {<<a, b, c>> : a \in fmts, b \in others, c \in others} \cup {<<a, b>> : a \in others, b \in fmts}
    IN  [header : {TRUE}, missing : {0, 1, 9}, chunks : files]
          \cup [header : {FALSE}, missing : {0}, chunks : {<<>>}]

SpeechInput ==
    [options |-> "transcribe", payload |-> "bytes", params |-> Params(16000, 1), format |-> "Pcm16Le",
     size |-> 4, wav |-> [header |-> FALSE, missing |-> 0, chunks |-> <<>>], voice |-> "named",
     default_voice |-> TRUE, text |-> <<>>, words |-> FALSE, fps |-> -1, units |-> 0, bytes |-> <<>>]

Voices == {[a |-> <<7, 8>>], [a |-> <<7>>] @@ ("^" :> <<1>>) @@ ("_" :> <<0>>) @@ ("$" :> <<2>>)}

SpeechBatches(kind) ==
    CASE kind = "whisper" ->
            {[SpeechInput EXCEPT !.options = o] : o \in {"transcribe", "audio2face"}}
            \cup {[SpeechInput EXCEPT !.payload = p] : p \in {"path", "missing_path", "url", "stream"}}
            \cup {[SpeechInput EXCEPT !.params = q] : q \in {Params(8000, 1), Params(16000, 2)}}
            \cup {[SpeechInput EXCEPT !.format = f, !.size = n] : f \in Formats \ {"Wav"}, n \in {3, 6, 8}}
            \cup {[SpeechInput EXCEPT !.format = "Wav", !.wav = w] : w \in WavFiles}
      [] kind = "piper" ->
            {[SpeechInput EXCEPT !.text = t, !.size = n] :
                t \in {<<>>, <<"a">>, <<"a", "a">>, <<"a", "z">>}, n \in {0, 1, 3}}
      [] kind \in {"kokoro", "xtts", "moss"} ->
            {[SpeechInput EXCEPT !.format = f, !.voice = v, !.default_voice = d, !.params = q] :
                f \in Formats \cup {None}, v \in {"named", "cloned"}, d \in BOOLEAN,
                q \in {Params(16000, 1), Params(4000, 1), Params(16000, 9)}}
      [] kind \in {"audio2face", "mock_a2f"} ->
            {[SpeechInput EXCEPT !.options = "audio2face", !.payload = p, !.params = q, !.size = n, !.fps = k, !.units = u] :
                p \in {"bytes", "path", "stream"}, q \in {Params(8000, 2), Params(0, 0)}, n \in {0, 9000},
                k \in {-1, 0, 3}, u \in {0, 2}}
            \cup {SpeechInput, [SpeechInput EXCEPT !.options = "audio2face", !.fps = 2000, !.units = 2]}
      [] kind = "replay" -> {[SpeechInput EXCEPT !.bytes = s] : s \in SeqOf({0, 1, 171, 255}, 4)}
      [] OTHER -> {[SpeechInput EXCEPT !.size = n, !.units = u] : n \in 0..2, u \in 0..2}

----------------------------------------------------------------------------
(* The disk.                                                               *)

InstallModel ==
    /\ runner.kind \in OnDisk
    /\ disk.written < MaxVersions
    /\ disk' = [disk EXCEPT !.model = disk.written + 1, !.written = @ + 1, !.manifest = "ok"]
    /\ UNCHANGED <<runner, cell, floor, job>>

RemoveModel ==
    /\ runner.kind \in OnDisk
    /\ disk.model # 0
    /\ disk' = [disk EXCEPT !.model = 0]
    /\ UNCHANGED <<runner, cell, floor, job>>

----------------------------------------------------------------------------
(* A call.                                                                 *)

EndCall(b, err, given, out) ==
    job' = [job EXCEPT !.phase = "ended", !.batch = b, !.err = err, !.given = given, !.out = out]
Refuse(b, err) == EndCall(b, err, <<>>, <<>>)

Starts(kind, b) ==
    /\ runner.kind = kind
    /\ job.phase = "new"
    /\ UNCHANGED <<runner, disk, cell, floor>>

ToSession(b) == job' = [job EXCEPT !.phase = "session", !.batch = b]

WhisperStarts(b) ==
    /\ Starts("whisper", b)
    /\ IF b.options # "transcribe" THEN Refuse(b, "BadRequest")
       ELSE IF b.payload = "stream" THEN Refuse(b, WhisperError("StreamingNotSupported"))
       ELSE IF ~runner.feature THEN Refuse(b, WhisperError("FeatureDisabled"))
       ELSE IF ~runner.platform THEN Refuse(b, WhisperError("UnsupportedArch"))
       ELSE ToSession(b)

PiperStarts(b) ==
    /\ Starts("piper", b)
    /\ IF ~runner.feature THEN Refuse(b, PiperError("FeatureDisabled")) ELSE ToSession(b)

KokoroSpeaks(b) ==
    /\ Starts("kokoro", b)
    /\ IF ~runner.feature THEN Refuse(b, KokoroError("FeatureDisabled"))
       ELSE IF KokoroRejects(b) # None THEN Refuse(b, KokoroRejects(b))
       ELSE IF disk.model = 0 THEN Refuse(b, KokoroError("VoiceNotFound"))
       ELSE EndCall(b, None, <<>>, EmptySpeech)

XttsSpeaks(b) ==
    /\ Starts("xtts", b)
    /\ IF ~runner.feature THEN Refuse(b, XttsError("FeatureDisabled"))
       ELSE IF XttsRejects(b) # None THEN Refuse(b, XttsRejects(b))
       ELSE IF disk.model = 0 THEN Refuse(b, XttsError("ModelNotFound"))
       ELSE EndCall(b, None, <<>>, EmptySpeech)

MossSpeaks(b) ==
    /\ Starts("moss", b)
    /\ IF ~runner.feature THEN Refuse(b, MossError("FeatureDisabled"))
       ELSE IF ~runner.platform THEN Refuse(b, MossError("RequiresLinux"))
       ELSE IF MossRejects(b) # None THEN Refuse(b, MossRejects(b))
       ELSE IF disk.model = 0 THEN Refuse(b, MossError("ModelNotFound"))
       ELSE EndCall(b, None, <<>>, EmptySpeech)

ExecuteAudio2Face(b) ==
    /\ Starts("audio2face", b)
    /\ IF ~runner.feature THEN Refuse(b, Audio2FaceError("FeatureDisabled"))
       ELSE IF ~runner.platform THEN Refuse(b, Audio2FaceError("UnsupportedArch"))
       ELSE IF b.options # "audio2face" THEN Refuse(b, Audio2FaceError("BadRequest"))
       ELSE EndCall(b, None, <<>>, GeneratorFrames(FrameCount(b), FrameDuration(Fps(b))))

(* The mocks play their script; b.units is the partials, b.size the rest.  *)
MockTranscribes(b) ==
    /\ Starts("mock_stt", b)
    /\ EndCall(b, None, <<>>, [i \in 1..(b.units + b.size) |-> [final |-> i = b.units + b.size /\ b.size > 0]])

MockSpeaks(b) ==
    /\ Starts("mock_tts", b)
    /\ EndCall(b, None, [i \in 1..b.size |-> i], [i \in 1..b.size |-> [final |-> i = b.size, audio |-> <<i>>]])

MockAnimates(b) ==
    /\ Starts("mock_a2f", b)
    /\ EndCall(b, None, <<>>, GeneratorFrames(b.units, FrameDuration(Fps(b))))

MockFails(b) ==
    /\ \E kind \in {"mock_stt", "mock_tts", "mock_a2f"} : Starts(kind, b)
    /\ \E err \in Kinds : Refuse(b, err)

(* A payload is written to a replay log and read back.                     *)
Replay(b) ==
    /\ Starts("replay", b)
    /\ LET back == Base64Decode(Base64Encode(b.bytes))
       IN  IF back = {} THEN Refuse(b, "BadRequest") ELSE EndCall(b, None, b.bytes, CHOOSE x \in back : TRUE)

----------------------------------------------------------------------------
(* ensure_session and ensure_state: look at the file, then load it.        *)

SessionPresent ==
    /\ job.phase = "session" /\ cell # 0
    /\ job' = [job EXCEPT !.phase = "run", !.model = cell]
    /\ UNCHANGED <<runner, disk, cell, floor>>

SessionMissing ==
    /\ job.phase = "session" /\ cell = 0
    /\ IF disk.model = 0
       THEN Refuse(job.batch, IF runner.kind = "whisper" THEN WhisperError("ModelNotFound") ELSE PiperError("VoiceNotFound"))
       ELSE job' = [job EXCEPT !.phase = IF runner.kind = "whisper" THEN "load" ELSE "manifest"]
    /\ UNCHANGED <<runner, disk, cell, floor>>

LoadManifest ==
    /\ job.phase = "manifest"
    /\ CASE disk.manifest = "absent" -> Refuse(job.batch, PiperError("ManifestNotFound"))
         [] disk.manifest = "broken" -> Refuse(job.batch, PiperError("ManifestParse"))
         [] OTHER -> job' = [job EXCEPT !.phase = "load"]
    /\ UNCHANGED <<runner, disk, cell, floor>>

(* The library opens whatever is there now, and may reject it.             *)
BuildSession ==
    /\ job.phase = "load"
    /\ \/ /\ disk.model # 0
          /\ cell' = disk.model
          /\ job' = [job EXCEPT !.phase = "run", !.model = disk.model]
       \/ /\ Refuse(job.batch, "Internal")
          /\ cell' = cell
    /\ UNCHANGED <<runner, disk, floor>>

Segments == {<<>>, <<[t0 |-> -1, t1 |-> 2, tokens |-> <<[special |-> TRUE, t0 |-> 0, t1 |-> 0], [special |-> FALSE, t0 |-> 0, t1 |-> 2]>>],
                     [t0 |-> 2, t1 |-> 3, tokens |-> <<>>]>>}

Transcribe(segments, words) ==
    /\ job.phase = "run" /\ runner.kind = "whisper"
    /\ LET samples == PayloadToPcm(job.batch, 16000)
       IN  IF samples = -1 THEN Refuse(job.batch, WhisperError("UnsupportedAudio"))
           ELSE \/ EndCall(job.batch, None, <<samples>>, SegmentChunks(segments, words))
                \/ Refuse(job.batch, WhisperError("Backend"))
    /\ UNCHANGED <<runner, disk, cell, floor>>

RunSynthesis(voice, speaker, speakers, chunk_samples) ==
    /\ job.phase = "run" /\ runner.kind = "piper"
    /\ IF IdsForText(voice, job.batch.text) = {} THEN Refuse(job.batch, PiperError("UnknownPhoneme"))
       ELSE IF ~SpeakerInRange(speaker, speakers) THEN Refuse(job.batch, PiperError("SpeakerOutOfRange"))
       ELSE LET pcm == [i \in 1..job.batch.size |-> 90 * i]
            IN  \/ EndCall(job.batch, None, pcm, PcmChunks(pcm, AtLeastOne(chunk_samples)))
                \/ Refuse(job.batch, PiperError("Ort"))
    /\ UNCHANGED <<runner, disk, cell, floor>>

NextCall ==
    /\ job.phase = "ended" /\ job.calls < MaxCalls
    /\ job' = [NewJob EXCEPT !.calls = job.calls + 1]
    /\ UNCHANGED <<runner, disk, cell, floor>>

(* rebuild_session borrows the runner mutably: never during a call.  The   *)
(* runners that keep no session answer Ok and change nothing.              *)
Clearing == {"CudaContextPoisoned", "Manual"}

RebuildSession(cause) ==
    /\ job.phase = "new"
    /\ runner.kind \in Lazy
    /\ cell' = IF cause \in Clearing THEN 0 ELSE cell
    /\ floor' = IF cause \in Clearing THEN disk.written ELSE floor
    /\ UNCHANGED <<runner, disk, job>>

SpeechNext ==
    \/ InstallModel \/ RemoveModel
    \/ \E b \in SpeechBatches(runner.kind) :
          \/ WhisperStarts(b) \/ PiperStarts(b) \/ KokoroSpeaks(b) \/ XttsSpeaks(b) \/ MossSpeaks(b)
          \/ ExecuteAudio2Face(b) \/ MockTranscribes(b) \/ MockSpeaks(b) \/ MockAnimates(b) \/ MockFails(b)
          \/ Replay(b)
    \/ SessionPresent \/ SessionMissing \/ LoadManifest \/ BuildSession
    \/ \E s \in Segments, w \in BOOLEAN : Transcribe(s, w)
    \/ \E v \in Voices, speaker \in {-1, 0, 1}, speakers \in {1, 2}, n \in 0..2 : RunSynthesis(v, speaker, speakers, n)
    \/ NextCall
    \/ \E cause \in Clearing \cup {"RemoteAuthFailure"} : RebuildSession(cause)

(***************************************************************************)
(* A call is served by a session loaded since the last rebuild that was to *)
(* drop it, never by a model file replaced before that (whisper and Piper  *)
(* runner.rs, rebuild_session against get_or_try_init).                    *)
(***************************************************************************)
SessionIsCurrent == job.phase = "run" => job.model >= floor

(***************************************************************************)
(* What the caller gets is the whole signal.  A well-formed mono 16 kHz    *)
(* WAV is decoded to exactly the samples of its data chunk, wherever the   *)
(* chunks lie and however odd the ones between are; synthesized audio is   *)
(* the waveform, saturated and in order; a replayed payload is unchanged.  *)
(***************************************************************************)
SignalIsWhole ==
    job.phase = "ended" =>
        /\ runner.kind = "replay" => job.err = None /\ job.out = job.given
        /\ runner.kind \in {"piper", "mock_tts"} /\ job.err = None =>
             FlattenSeq([i \in 1..Len(job.out) |-> job.out[i].audio]) =
                 [i \in 1..Len(job.given) |-> IF job.given[i] > 100 THEN 100 ELSE job.given[i]]
        /\ runner.kind = "whisper" /\ job.model # 0 /\ job.batch.format = "Wav" =>
             LET chunks == Range(job.batch.wav.chunks)
                 fmts == {c \in chunks : c.id = "fmt" /\ c.size >= 16}
                 datas == {c \in chunks : c.id = "data"}
                 width(c) == IF c.tag = 1 THEN 2 ELSE 4
             IN  /\ job.err = None => \E f \in fmts, d \in datas : job.given = <<d.size \div width(f)>>
                 /\ job.err = "UnsupportedAudioFormat" /\ job.batch.wav.header /\ job.batch.wav.missing = 0 =>
                       \/ fmts = {} \/ datas = {}
                       \/ \E f \in fmts, d \in datas : f.channels # 1 \/ d.size % width(f) # 0

(***************************************************************************)
(* A stream of a real runner has exactly one final item, its last one; a   *)
(* frame of Audio2Face is never stamped later than it is due, and drifts   *)
(* by less than a millisecond for each frame before it.                    *)
(***************************************************************************)
LocalFinalIsLast ==
    job.phase = "ended" /\ job.err = None /\ runner.kind \notin {"replay", "mock_stt", "mock_tts", "mock_a2f"} =>
        /\ job.out # <<>>
        /\ \A i \in 1..Len(job.out) :
             /\ job.out[i].final <=> i = Len(job.out)
             /\ runner.kind = "audio2face" =>
                  LET due == (i - 1) * 1000
                      at == job.out[i].at * Fps(job.batch)
                  IN  at <= due /\ due <= at + (i - 1) * Fps(job.batch)

SpeechSpec == SpeechInit /\ [][SpeechNext]_speechVars
=============================================================================
