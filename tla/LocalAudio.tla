----------------------------- MODULE LocalAudio -----------------------------
(***************************************************************************)
(* The pure part of the in-process speech runners (whisper.cpp, Piper,     *)
(* Kokoro, XTTS, MOSS, Audio2Face and the test kit's mocks): what they     *)
(* refuse, how audio is decoded, and how an answer is cut into chunks.     *)
(* Sizes and positions are in bytes, times in milliseconds.                *)
(***************************************************************************)
EXTENDS SpeechWire

(* The From impls of the crates' error enums.                              *)
WhisperError(e) ==
    CASE e \in {"ModelNotFound", "ModelIo"} -> "BadRequest"
      [] e = "UnsupportedAudio" -> "UnsupportedAudioFormat"
      [] e \in {"StreamingNotSupported", "UnsupportedArch"} -> "Unsupported"
      [] e \in {"Backend", "FeatureDisabled"} -> "Internal"

PiperError(e) ==
    CASE e \in {"VoiceNotFound", "ManifestNotFound", "UnknownPhoneme", "SpeakerOutOfRange"} -> "BadRequest"
      [] e \in {"ManifestIo", "ManifestParse", "Ort", "FeatureDisabled"} -> "Internal"

KokoroError(e) ==
    CASE e \in {"VoiceNotFound", "EmptyVoiceName"} -> "BadRequest"
      [] e = "UnsupportedFormat" -> "UnsupportedAudioFormat"
      [] e = "FeatureDisabled" -> "Internal"

XttsError(e) ==
    CASE e \in {"ModelNotFound", "ReferenceAudioError"} -> "BadRequest"
      [] e = "UnsupportedFormat" -> "UnsupportedAudioFormat"
      [] e = "FeatureDisabled" -> "Internal"

MossError(e) ==
    CASE e = "ModelNotFound" -> "BadRequest"
      [] e = "UnsupportedFormat" -> "UnsupportedAudioFormat"
      [] e \in {"RequiresLinux", "FeatureDisabled"} -> "Internal"

Audio2FaceError(e) ==
    CASE e = "BadRequest" -> "BadRequest"
      [] e \in {"UnsupportedArch", "FeatureDisabled"} -> "Internal"

IsValid(params) == params.rate \in 8000..96000 /\ params.channels \in 1..8

----------------------------------------------------------------------------
(***************************************************************************)
(* A WAV file: whether it has the RIFF/WAVE header, its chunks, and how    *)
(* many bytes are missing at its end.  A chunk has an 8-byte header, its   *)
(* body and, when the body is odd, a pad byte.                             *)
(***************************************************************************)
WavStart(f, i) == FoldLeft(LAMBDA at, c : at + 8 + c.size + (c.size % 2), 12, SubSeq(f.chunks, 1, i - 1))
WavLength(f) == WavStart(f, Len(f.chunks) + 1) - f.missing

Walked(pos, fmt, data, bad) == [pos |-> pos, fmt |-> fmt, data |-> data, bad |-> bad]

(* Fault: the pad byte of an odd chunk is not skipped.                     *)
WavAdvanceUnpadded(size) == size
WavAdvance(size) == IF size % 2 = 0 THEN size ELSE size + 1

(***************************************************************************)
(* One turn of decode_wav's loop.  A position that is not the start of a   *)
(* chunk shows the walk bytes that are no chunk header at all.             *)
(***************************************************************************)
WavStep(f, w, i) ==
    LET c == f.chunks[i]
    IN  IF w.bad \/ w.pos + 8 > WavLength(f) THEN w
        ELSE IF w.pos # WavStart(f, i) \/ w.pos + 8 + c.size > WavLength(f) THEN [w EXCEPT !.bad = TRUE]
        ELSE Walked(w.pos + 8 + WavAdvance(c.size),
                    IF c.id = "fmt" /\ c.size >= 16 THEN {c} ELSE w.fmt,
                    IF c.id = "data" THEN {c} ELSE w.data, FALSE)

WavWalk(f) ==
    FoldLeft(LAMBDA w, i : WavStep(f, w, i), Walked(12, {}, {}, FALSE), [i \in 1..Len(f.chunks) |-> i])

(* Samples decoded, or -1 for an unsupported payload.                      *)
DecodePcm16(size) == IF size % 2 # 0 THEN -1 ELSE size \div 2
DecodePcmF32(size) == IF size % 4 # 0 THEN -1 ELSE size \div 4

DecodeWav(f) ==
    LET w == WavWalk(f)
        fmt == CHOOSE c \in w.fmt : TRUE
        data == CHOOSE c \in w.data : TRUE
    IN  IF ~f.header \/ w.bad \/ w.fmt = {} \/ w.data = {} THEN -1
        ELSE IF fmt.channels # 1 \/ fmt.rate # 16000 THEN -1
        ELSE CASE fmt.tag = 1 /\ fmt.bits = 16 -> DecodePcm16(data.size)
               [] fmt.tag = 3 /\ fmt.bits = 32 -> DecodePcmF32(data.size)
               [] OTHER -> -1

DecodeBytes(b) ==
    CASE b.format = "Pcm16Le" -> DecodePcm16(b.size)
      [] b.format = "PcmF32Le" -> DecodePcmF32(b.size)
      [] b.format = "Wav" -> DecodeWav(b.wav)
      [] OTHER -> -1

CheckParams(params, rate) == params.rate = rate /\ params.channels = 1

PayloadToPcm(b, rate) ==
    IF b.payload \notin {"bytes", "path"} \/ ~CheckParams(b.params, rate) THEN -1
    ELSE DecodeBytes(b)

(* transcribe: a chunk per segment, an empty one when there is none; the   *)
(* engine counts in hundredths of a second and may report negative times.  *)
ToMs(t) == (IF t < 0 THEN 0 ELSE t) * 10

ExtractWords(tokens) ==
    LET words == SelectSeq(tokens, LAMBDA k : ~k.special)
    IN  [i \in 1..Len(words) |-> [start |-> ToMs(words[i].t0), stop |-> ToMs(words[i].t1)]]

SegmentChunks(segments, word_timestamps) ==
    IF segments = <<>> THEN PlainToChunks
    ELSE [i \in 1..Len(segments) |->
            [final |-> i = Len(segments), start |-> ToMs(segments[i].t0), stop |-> ToMs(segments[i].t1),
             words |-> IF word_timestamps THEN ExtractWords(segments[i].tokens) ELSE <<>>]]

----------------------------------------------------------------------------
(* Piper.  A voice maps symbols to ids; "^", "_" and "$" may be missing.   *)

IdsOf(voice, symbol) == IF symbol \in DOMAIN voice THEN voice[symbol] ELSE <<>>

IdsForText(voice, text) ==
    IF \E i \in 1..Len(text) : text[i] \notin DOMAIN voice THEN {}
    ELSE {(IF "^" \in DOMAIN voice THEN IdsOf(voice, "^") \o IdsOf(voice, "_") ELSE <<>>)
             \o FlattenSeq([i \in 1..Len(text) |-> voice[text[i]] \o IdsOf(voice, "_")])
             \o IdsOf(voice, "$")}

SpeakerInRange(speaker, speakers) == speaker >= 0 /\ speaker < speakers

(* Samples in hundredths; one outside the unit range saturates.            *)
Clamp(s) == IF s > 100 THEN 100 ELSE IF s < -100 THEN -100 ELSE s

Slices(total, size) == (total + size - 1) \div size

PcmChunks(pcm, size) ==
    IF pcm = <<>> THEN <<[final |-> TRUE, audio |-> <<>>]>>
    ELSE [i \in 1..((Len(pcm) + size - 1) \div size) |->
            LET slice == SubSeq(pcm, (i - 1) * size + 1, IF i * size < Len(pcm) THEN i * size ELSE Len(pcm))
            IN  [final |-> i = Slices(Len(pcm), size), audio |-> [j \in 1..Len(slice) |-> Clamp(slice[j])]]]

EmptySpeech == <<[final |-> TRUE, audio |-> <<>>]>>

(* The stub runners: what they refuse, in their order.                     *)
KokoroRejects(b) ==
    IF ~b.default_voice THEN KokoroError("EmptyVoiceName")
    ELSE IF b.format \notin Pcm \cup {None} THEN KokoroError("UnsupportedFormat")
    ELSE None

XttsRejects(b) ==
    IF b.format \notin Pcm \cup {None} THEN XttsError("UnsupportedFormat")
    ELSE IF b.voice = "cloned" /\ ~IsValid(b.params) THEN XttsError("ReferenceAudioError")
    ELSE None

MossRejects(b) == IF b.format \notin Pcm \cup {None} THEN MossError("UnsupportedFormat") ELSE None

----------------------------------------------------------------------------
(* Audio2Face: frames per second (-1 when not given) and frame count.      *)

Fps(b) == IF b.fps = -1 THEN 30 ELSE IF b.fps = 0 THEN 1 ELSE b.fps
AtLeastOne(n) == IF n < 1 THEN 1 ELSE n

FrameCount(b) ==
    IF b.payload = "stream" THEN Fps(b)
    ELSE IF b.units > 0 THEN b.units
    ELSE IF b.payload = "bytes"
    THEN LET samples == b.size \div AtLeastOne(2 * b.params.channels)
         IN  AtLeastOne(samples \div AtLeastOne(b.params.rate \div Fps(b)))
    ELSE Fps(b)

FrameDuration(fps) == 1000 \div fps

GeneratorFrames(count, duration) ==
    [i \in 1..count |-> [final |-> i = count, at |-> (i - 1) * duration]]

----------------------------------------------------------------------------
(***************************************************************************)
(* base64_compat: byte payloads in config files and replay logs.  A symbol *)
(* is its index in TABLE; Pad is the "=" sign.                             *)
(***************************************************************************)
Pad == 64

Sextets(bytes) ==
    LET n == (IF Len(bytes) > 0 THEN bytes[1] * 65536 ELSE 0)
               + (IF Len(bytes) > 1 THEN bytes[2] * 256 ELSE 0)
               + (IF Len(bytes) > 2 THEN bytes[3] ELSE 0)
    IN  <<n \div 262144, (n \div 4096) % 64, (n \div 64) % 64, n % 64>>

Base64Encode(bytes) ==
    LET whole == Len(bytes) \div 3
        rest == SubSeq(bytes, 3 * whole + 1, Len(bytes))
        tail == CASE Len(rest) = 0 -> <<>>
                  [] Len(rest) = 1 -> SubSeq(Sextets(rest), 1, 2) \o <<Pad, Pad>>
                  [] Len(rest) = 2 -> SubSeq(Sextets(rest), 1, 3) \o <<Pad>>
    IN  FlattenSeq([i \in 1..whole |-> Sextets(SubSeq(bytes, 3 * i - 2, 3 * i))]) \o tail

(* decode: trailing pads are trimmed, any other is an error ({}); six bits *)
(* in, a byte out whenever eight have gathered.                            *)
Base64Decode(symbols) ==
    LET data == SubSeq(symbols, 1, Max({0} \cup {i \in 1..Len(symbols) : symbols[i] # Pad}))
        Take(acc, v) ==
            LET buf == acc.buf * 64 + v
                bits == acc.bits + 6
            IN  IF bits >= 8
                THEN [buf |-> buf % 2^(bits - 8), bits |-> bits - 8,
                      out |-> Append(acc.out, (buf \div 2^(bits - 8)) % 256)]
                ELSE [buf |-> buf, bits |-> bits, out |-> acc.out]
    IN  IF \E i \in 1..Len(data) : data[i] = Pad THEN {}
        ELSE {FoldLeft(Take, [buf |-> 0, bits |-> 0, out |-> <<>>], data).out}
=============================================================================
