------------------------- MODULE SpeechStreamProofs -------------------------
(***************************************************************************)
(* Proofs about a session of a streaming speech runner, for every runner,  *)
(* every capacity of the two channels and any number of messages and       *)
(* frames.  What goes to the provider is the caller's messages in order,   *)
(* and the request to flush, or the Close, only behind all of them; what   *)
(* the consumer is given is in the order of the provider's frames, whole,  *)
(* and closed by what closes a stream; and whoever reads to the end learns *)
(* how the session ended, as does the caller of one that never opened.     *)
(***************************************************************************)
EXTENDS SpeechStream, FiniteSetTheorems, SequenceTheorems, WellFoundedInduction, TLAPS

USE StreamAssumption

-----------------------------------------------------------------------------
(***************************************************************************)
(* What is on the wire.                                                    *)
(***************************************************************************)
(* The messages in order and nothing behind the marker.                    *)
Ordered(w) ==
    \A i, j \in DOMAIN w : i < j => w[i] # Marker /\ (w[j] = Marker \/ w[i] <= w[j])

(* Nothing beyond the t messages taken.                                    *)
Below(w, t) == \A i \in DOMAIN w : w[i] <= t

Marked(w) == \E i \in DOMAIN w : w[i] = Marker

(* Each of the first t messages of f that has something to send was sent.  *)
Covers(w, f, t) ==
    \A n \in DOMAIN f : f[n] \notin {"empty", "close"} /\ n <= t
        => \E j \in DOMAIN w : w[j] = n

(* Where an element of a concatenation comes from.                         *)
LEMMA Joined ==
    ASSUME NEW S, NEW v \in Seq(S), NEW s \in Seq(S)
    PROVE  /\ v \o s \in Seq(S)
           /\ DOMAIN (v \o s) = 1..(Len(v) + Len(s))
           /\ DOMAIN v = 1..Len(v) /\ DOMAIN s = 1..Len(s)
           /\ Len(v) \in Nat /\ Len(s) \in Nat
           /\ \A i \in DOMAIN v : i \in DOMAIN (v \o s) /\ (v \o s)[i] = v[i]
           /\ \A i \in DOMAIN s : Len(v) + i \in DOMAIN (v \o s) /\ (v \o s)[Len(v) + i] = s[i]
           /\ \A i \in DOMAIN (v \o s) :
                 \/ i \in DOMAIN v
                 \/ i > Len(v) /\ i - Len(v) \in DOMAIN s /\ (v \o s)[i] = s[i - Len(v)]
<1>1. /\ v \o s \in Seq(S) /\ Len(v \o s) = Len(v) + Len(s)
      /\ \A i \in 1..(Len(v) + Len(s)) :
            (v \o s)[i] = IF i <= Len(v) THEN v[i] ELSE s[i - Len(v)]
  BY ConcatProperties
<1>2. DOMAIN (v \o s) = 1..(Len(v) + Len(s))
  BY <1>1
<1>3. DOMAIN v = 1..Len(v) /\ DOMAIN s = 1..Len(s) /\ Len(v) \in Nat /\ Len(s) \in Nat
  OBVIOUS
<1> DEFINE q == v \o s
<1> HIDE DEF q
<1>4. /\ q \in Seq(S) /\ DOMAIN q = 1..(Len(v) + Len(s))
      /\ \A i \in 1..(Len(v) + Len(s)) : q[i] = IF i <= Len(v) THEN v[i] ELSE s[i - Len(v)]
  BY <1>1, <1>2 DEF q
<1>5. \A i \in DOMAIN v : i \in DOMAIN q /\ q[i] = v[i]
  <2> TAKE i \in DOMAIN v
  <2>1. i \in 1..(Len(v) + Len(s)) /\ i <= Len(v)
    BY <1>3
  <2> QED BY <1>4, <2>1
<1>6. \A i \in DOMAIN s : Len(v) + i \in DOMAIN q /\ q[Len(v) + i] = s[i]
  <2> TAKE i \in DOMAIN s
  <2>1. /\ Len(v) + i \in 1..(Len(v) + Len(s)) /\ ~(Len(v) + i <= Len(v))
        /\ (Len(v) + i) - Len(v) = i
    BY <1>3
  <2> QED BY <1>4, <2>1
<1>7. \A i \in DOMAIN q :
         \/ i \in DOMAIN v
         \/ i > Len(v) /\ i - Len(v) \in DOMAIN s /\ q[i] = s[i - Len(v)]
  <2> TAKE i \in DOMAIN q
  <2>1. i \in 1..(Len(v) + Len(s))
    BY <1>4
  <2>2. \/ i \in DOMAIN v
        \/ i > Len(v) /\ i - Len(v) \in DOMAIN s /\ ~(i <= Len(v))
    BY <1>3, <2>1
  <2> QED BY <1>4, <2>1, <2>2
<1> QED BY <1>3, <1>4, <1>5, <1>6, <1>7 DEF q

(* Frames of the next message go behind what is there.                     *)
LEMMA NextMessage ==
    ASSUME NEW v \in Seq(Int), NEW s \in Seq(Int), NEW t \in Nat,
           \A i \in DOMAIN s : s[i] = t + 1,
           Ordered(v), Below(v, t), ~Marked(v)
    PROVE  /\ v \o s \in Seq(Int) /\ Ordered(v \o s) /\ Below(v \o s, t + 1)
           /\ ~Marked(v \o s)
<1> DEFINE q == v \o s
<1>1. /\ q \in Seq(Int)
      /\ \A i \in DOMAIN v : i \in DOMAIN q /\ q[i] = v[i]
      /\ \A i \in DOMAIN q : i \in DOMAIN v \/ (i > Len(v) /\ q[i] = t + 1)
      /\ DOMAIN v = 1..Len(v) /\ Len(v) \in Nat
      /\ DOMAIN q \subseteq Int
  <2>1. /\ q \in Seq(Int) /\ DOMAIN q = 1..(Len(v) + Len(s))
        /\ DOMAIN v = 1..Len(v) /\ Len(v) \in Nat /\ Len(s) \in Nat
        /\ \A i \in DOMAIN v : i \in DOMAIN q /\ q[i] = v[i]
        /\ \A i \in DOMAIN q :
              \/ i \in DOMAIN v
              \/ i > Len(v) /\ i - Len(v) \in DOMAIN s /\ q[i] = s[i - Len(v)]
    BY Joined
  <2> HIDE DEF q
  <2>2. \A i \in DOMAIN q : i \in DOMAIN v \/ (i > Len(v) /\ q[i] = t + 1)
    BY <2>1
  <2>3. DOMAIN q \subseteq Int
    BY <2>1
  <2> QED BY <2>1, <2>2, <2>3
<1> HIDE DEF q
<1>2. \A i \in DOMAIN v : v[i] \in Int /\ v[i] <= t /\ v[i] # Marker
  BY DEF Below, Marked
<1>3. \A i \in DOMAIN q : q[i] \in Int /\ q[i] <= t + 1 /\ q[i] # Marker
  <2> TAKE i \in DOMAIN q
  <2>1. CASE i \in DOMAIN v
    <3>1. q[i] = v[i] /\ v[i] \in Int /\ v[i] <= t /\ v[i] # Marker
      BY <1>1, <1>2, <2>1
    <3> QED BY <3>1
  <2>2. CASE q[i] = t + 1
    BY <2>2 DEF Marker
  <2> QED BY <1>1, <2>1, <2>2
<1>4. Below(q, t + 1) /\ ~Marked(q)
  BY <1>3 DEF Below, Marked
<1>5. ASSUME NEW i \in DOMAIN q, NEW j \in DOMAIN q, i < j
      PROVE  q[i] # Marker /\ (q[j] = Marker \/ q[i] <= q[j])
  <2>1. CASE j \in DOMAIN v
    <3>0. i > Len(v) => ~(i < j)
      BY <1>1, <2>1
    <3>1. i \in DOMAIN v
      BY <1>1, <1>5, <3>0
    <3>2. q[i] = v[i] /\ q[j] = v[j]
      BY <1>1, <2>1, <3>1
    <3>3. v[i] # Marker /\ (v[j] = Marker \/ v[i] <= v[j])
      BY <1>5, <2>1, <3>1 DEF Ordered
    <3> QED BY <3>2, <3>3
  <2>2. CASE q[j] = t + 1
    BY <1>3, <2>2
  <2> QED BY <1>1, <2>1, <2>2
<1>6. Ordered(q)
  BY <1>5 DEF Ordered
<1> QED BY <1>1, <1>4, <1>6 DEF q

(* And the marker behind all.                                              *)
LEMMA ThenMarker ==
    ASSUME NEW v \in Seq(Int), NEW t \in Nat, Ordered(v), Below(v, t), ~Marked(v)
    PROVE  /\ v \o <<Marker>> \in Seq(Int) /\ Ordered(v \o <<Marker>>)
           /\ Below(v \o <<Marker>>, t)
<1> DEFINE q == v \o <<Marker>>
<1>0. <<Marker>> \in Seq(Int) /\ \A i \in DOMAIN <<Marker>> : <<Marker>>[i] = Marker
  BY DEF Marker
<1>1. /\ q \in Seq(Int)
      /\ \A i \in DOMAIN v : i \in DOMAIN q /\ q[i] = v[i]
      /\ \A i \in DOMAIN q : i \in DOMAIN v \/ (i > Len(v) /\ q[i] = Marker)
      /\ DOMAIN v = 1..Len(v) /\ Len(v) \in Nat
      /\ DOMAIN q = 1..(Len(v) + 1)
  BY <1>0, Joined
<1> HIDE DEF q
<1>2. \A i \in DOMAIN v : v[i] \in Int /\ v[i] <= t /\ v[i] # Marker
  BY DEF Below, Marked
<1>3. Below(q, t)
  BY <1>1, <1>2 DEF Below, Marker
<1>5. ASSUME NEW i \in DOMAIN q, NEW j \in DOMAIN q, i < j
      PROVE  q[i] # Marker /\ (q[j] = Marker \/ q[i] <= q[j])
  <2>0. i \in DOMAIN v
    BY <1>1, <1>5
  <2>1. CASE j \in DOMAIN v
    BY <1>1, <1>5, <2>0, <2>1 DEF Ordered
  <2>2. CASE q[j] = Marker
    BY <1>1, <1>2, <2>0, <2>2
  <2> QED BY <1>1, <2>1, <2>2
<1>6. Ordered(q)
  BY <1>5 DEF Ordered
<1> QED BY <1>1, <1>3, <1>6 DEF q

(* A longer wire covers what a shorter one did, ...                        *)
LEMMA StillCovers ==
    ASSUME NEW v \in Seq(Int), NEW s \in Seq(Int), NEW f, NEW t, Covers(v, f, t)
    PROVE  Covers(v \o s, f, t)
BY Joined DEF Covers

(* ... the message sent on it too, ...                                     *)
LEMMA CoversSent ==
    ASSUME NEW v \in Seq(Int), NEW s \in Seq(Int), NEW f, NEW t \in Nat,
           DOMAIN f \subseteq Nat, Covers(v, f, t),
           s # <<>>, \A i \in DOMAIN s : s[i] = t + 1
    PROVE  Covers(v \o s, f, t + 1)
<1> DEFINE q == v \o s
<1>1. /\ \A i \in DOMAIN v : i \in DOMAIN q /\ q[i] = v[i]
      /\ \A i \in DOMAIN s : Len(v) + i \in DOMAIN q /\ q[Len(v) + i] = s[i]
  BY ONLY Joined, v \in Seq(Int), s \in Seq(Int)
<1>2. 1 \in DOMAIN s
  OBVIOUS
<1> HIDE DEF q
<1>3. \E j \in DOMAIN q : q[j] = t + 1
  BY <1>1, <1>2
<1>4. ASSUME NEW n \in DOMAIN f, f[n] \notin {"empty", "close"}, n <= t + 1
      PROVE  \E j \in DOMAIN q : q[j] = n
  <2>1. n <= t \/ n = t + 1
    BY <1>4
  <2> QED BY <1>1, <1>3, <1>4, <2>1 DEF Covers
<1>5. Covers(q, f, t + 1)
  BY <1>4 DEF Covers
<1> QED BY <1>5 DEF q

(* ... and a message that is not sent asks for nothing.                    *)
LEMMA CoversSkipped ==
    ASSUME NEW v, NEW f, NEW t \in Nat, DOMAIN f \subseteq Nat, Covers(v, f, t),
           f[t + 1] \in {"empty", "close"}
    PROVE  Covers(v, f, t + 1)
<1>1. ASSUME NEW n \in DOMAIN f, f[n] \notin {"empty", "close"}, n <= t + 1
      PROVE  n <= t
  BY <1>1
<1> QED BY <1>1 DEF Covers

(* A message that only waits asks for nothing either.                      *)
LEMMA CoversFed ==
    ASSUME NEW v, NEW M, NEW f \in Seq(M), NEW m \in M, NEW t \in 0..Len(f), Covers(v, f, t)
    PROVE  Covers(v, Append(f, m), t)
<1>1. \A n \in DOMAIN Append(f, m) :
         n <= t => n \in DOMAIN f /\ Append(f, m)[n] = f[n]
  OBVIOUS
<1> QED BY <1>1 DEF Covers

-----------------------------------------------------------------------------
(***************************************************************************)
(* Where the downlink may be: only ElevenLabs closes its socket behind its *)
(* loop, only OpenAI Realtime does nothing at the end of it, and only      *)
(* Gemini Live starts by spawning the uplink.                              *)
(***************************************************************************)
Goes(p, label) ==
    /\ label = "close" => p = "elevenlabs"
    /\ label = "finish" => p # "openai_realtime"
    /\ label = "start" => p = "gemini_live"
    /\ label # "send" /\ label # "off"

DownOk(p, d) == (d.pc \in {"send", "off"} \/ Goes(p, d.pc)) /\ Goes(p, d.then)

(* Sending some items on the way to a place.                               *)
LEMMA SendingOk ==
    ASSUME NEW p, NEW items, NEW label, Goes(p, label)
    PROVE  DownOk(p, Sending(items, label)) /\ DownOk(p, At(label))
<1>1. /\ Sending(items, label).pc \in {label, "send"}
      /\ Sending(items, label).then = label
      /\ At(label).pc = label /\ At(label).then = label
  BY DEF Sending, At
<1> QED BY <1>1 DEF DownOk

LEMMA AtIs ==
    ASSUME NEW label
    PROVE  At(label).pc = label
BY DEF Sending, At

(* The runners exclude each other.                                         *)
LEMMA OneRunner ==
    ASSUME provider \in Providers
    PROVE  /\ Stt \/ Eleven \/ Gemini \/ OpenAi
           /\ Stt => ~Eleven /\ ~Gemini /\ ~OpenAi
           /\ Eleven => ~Gemini /\ ~OpenAi
           /\ Gemini => ~OpenAi
           /\ Eleven = (provider = "elevenlabs")
           /\ OpenAi = (provider = "openai_realtime")
BY DEF Stt, Eleven, Gemini, OpenAi

(* A frame of the provider takes the downlink to a place of its runner.    *)
LEMMA ReadsGo ==
    ASSUME provider \in Providers, DownlinkRead
    PROVE  DownOk(provider, down')
<1> DEFINE n == read + 1
           Ok(label) == \A items : DownOk(provider, Sending(items, label))
                                   /\ DownOk(provider, At(label))
<1>0. down' = CASE Stt -> SttReads(served[n])
                [] Eleven -> ElevenReads(served[n], n)
                [] Gemini -> GeminiReads(served[n], n)
                [] OpenAi -> OpenAiReads(served[n], n)
  BY DEF DownlinkRead
<1>r. Ok("read") /\ Ok("ended") /\ (~OpenAi => Ok("finish")) /\ (Eleven => Ok("close"))
  BY SendingOk DEF Goes, OpenAi, Eleven
<1> HIDE DEF n, Ok
<1>1. CASE Stt
  <2>1. down' = SttReads(served[n])
    BY <1>0, <1>1, OneRunner, Zenon
  <2>3. \/ down' = At("finish") \/ down' = Sending(<<DownlinkError>>, "finish")
        \/ down' = Sending(<<DownlinkError>>, "ended") \/ down' = At("read")
    BY <2>1, Zenon DEF SttReads
  <2>4. Ok("read") /\ Ok("ended") /\ Ok("finish")
    BY <1>1, <1>r, OneRunner
  <2> QED BY <2>3, <2>4, Zenon DEF Ok
<1>2. CASE Eleven
  <2>1. down' = ElevenReads(served[n], n)
    BY <1>0, <1>2, OneRunner, Zenon
  <2>3. \/ down' = At("finish") \/ down' = Sending(<<DownlinkError>>, "finish")
        \/ down' = Sending(<<Item("final", n)>>, "close") \/ down' = At("read")
        \/ down' = Sending(<<Item("data", n)>>, "read")
    BY <2>1, Zenon DEF ElevenReads
  <2>4. Ok("read") /\ Ok("ended") /\ Ok("finish") /\ Ok("close")
    BY <1>2, <1>r, OneRunner
  <2> QED BY <2>3, <2>4, Zenon DEF Ok
<1>3. CASE Gemini
  <2>1. down' = GeminiReads(served[n], n)
    BY <1>0, <1>3, OneRunner, Zenon
  <2>3. \/ down' = At("finish") \/ down' = Sending(<<DownlinkError>>, "finish")
        \/ down' = Sending(<<Item("final", n)>>, "read") \/ down' = At("read")
        \/ down' = Sending(<<Item("data", n)>>, "read")
        \/ down' = Sending(<<Item("data", n), Item("final", n)>>, "read")
    BY <2>1, Zenon DEF GeminiReads
  <2>4. Ok("read") /\ Ok("ended") /\ Ok("finish")
    BY <1>3, <1>r, OneRunner
  <2> QED BY <2>3, <2>4, Zenon DEF Ok
<1>4. CASE OpenAi
  <2>1. down' = OpenAiReads(served[n], n)
    BY <1>0, <1>4, OneRunner, Zenon
  <2>2. \/ down' = Sending(<<Item("data", n)>>, "read")
        \/ down' = Sending(<<Item("final", n)>>, "read")
        \/ down' = Sending(<<Item("done", n)>>, "read")
        \/ down' = Sending(<<Item("err", n)>>, "read")
        \/ down' = At("read") \/ down' = At("ended")
    <3> DEFINE frame == served[n]
               Over == frame \in Ends
    <3>1. down' = CASE frame = "audio" -> Sending(<<Item("data", n)>>, "read")
                    [] frame = "final" -> Sending(<<Item("final", n)>>, "read")
                    [] frame = "done" -> Sending(<<Item("done", n)>>, "read")
                    [] frame = "error" -> Sending(<<Item("err", n)>>, "read")
                    [] Over -> At("ended")
                    [] OTHER -> At("read")
      BY <2>1 DEF OpenAiReads
    <3> HIDE DEF frame, Over
    <3> QED BY <3>1, SMT
  <2> QED BY <2>2, <1>r, Zenon DEF Ok
<1> QED BY <1>1, <1>2, <1>3, <1>4, OneRunner

(* So does the end of its loop.                                            *)
LEMMA FinishGoes ==
    ASSUME provider \in Providers, DownOk(provider, down), DownlinkFinish
    PROVE  DownOk(provider, down')
<1>0. down' = CASE Stt -> Sending(Flush(produced), "ended")
                [] Eleven -> Sending(<<Item("final", 0)>>, "close")
                [] Gemini -> Sending(<<Item("done", 0)>>, "ended")
  BY DEF DownlinkFinish
<1>1. ~OpenAi
  BY DEF DownlinkFinish, DownOk, Goes, OpenAi
<1>2. CASE Stt
  <2>1. down' = Sending(Flush(produced), "ended")
    BY <1>0, <1>2, OneRunner, Zenon
  <2>2. Goes(provider, "ended")
    BY DEF Goes
  <2> QED BY <2>1, <2>2, SendingOk, Zenon
<1>3. CASE Eleven
  <2>1. down' = Sending(<<Item("final", 0)>>, "close")
    BY <1>0, <1>3, OneRunner, Zenon
  <2>2. Goes(provider, "close")
    BY <1>3 DEF Goes, Eleven
  <2> QED BY <2>1, <2>2, SendingOk, Zenon
<1>4. CASE Gemini
  <2>1. down' = Sending(<<Item("done", 0)>>, "ended")
    BY <1>0, <1>4, OneRunner, Zenon
  <2>2. Goes(provider, "ended")
    BY DEF Goes
  <2> QED BY <2>1, <2>2, SendingOk, Zenon
<1> QED BY <1>1, <1>2, <1>3, <1>4, OneRunner

(* And a send, whether there is someone to take the item or not.           *)
LEMMA SendGoes ==
    ASSUME DownOk(provider, down), DownlinkSends \/ DownlinkSendFails
    PROVE  DownOk(provider, down')
<1>1. Goes(provider, down.then)
  BY DEF DownOk
<1>2. CASE DownlinkSends
  <2>1. down' = Sending(Tail(down.hold), down.then)
    BY <1>2 DEF DownlinkSends
  <2> QED BY <1>1, <2>1, SendingOk, Zenon
<1>3. CASE DownlinkSendFails
  <2> DEFINE item == Head(down.hold)
             Breaks == Stt /\ item.kind # "err"
             Leaves == Eleven /\ item.n > 0
             Returns == Gemini /\ item.kind = "data"
  <2>0. down' = CASE Breaks -> At("ended")
                  [] Leaves -> At("finish")
                  [] Returns -> At("ended")
                  [] OTHER -> Sending(Tail(down.hold), down.then)
    BY <1>3 DEF DownlinkSendFails
  <2>l. Leaves => Eleven
    OBVIOUS
  <2> HIDE DEF Breaks, Leaves, Returns
  <2>1. \/ Eleven /\ down' = At("finish")
        \/ down' = At("ended")
        \/ down' = Sending(Tail(down.hold), down.then)
    BY <2>0, <2>l, SMT
  <2>2. Eleven => Goes(provider, "finish")
    BY DEF Eleven, Goes
  <2>3. Goes(provider, "ended")
    BY DEF Goes
  <2> QED BY <1>1, <2>1, <2>2, <2>3, SendingOk, Zenon
<1> QED BY <1>2, <1>3

-----------------------------------------------------------------------------
(***************************************************************************)
(* The inductive invariant.  While its sends succeed the uplink of a       *)
(* transcriber, or the adapter of OpenAI Realtime, has sent all that it    *)
(* took; a marker means that the task which sent it has ended, so that     *)
(* nothing follows it.  Before the session is open nothing was taken.      *)
(***************************************************************************)
WireOk ==
    /\ fed \in Seq(Messages) /\ taken \in 0..Len(fed)
    /\ wire \in Seq(Int) /\ Below(wire, taken) /\ Ordered(wire)

Complete ==
    (Stt \/ OpenAi) /\ sink = "ok" => Covers(wire, fed, taken)

MarkedLast ==
    Marked(wire) =>
      /\ ~Gemini
      /\ Stt \/ OpenAi => Covers(wire, fed, taken)
      /\ Stt => up = "ended" /\ taken = Len(fed) /\ ~input_open
      /\ ~Stt => down.pc = "ended"

Unopened ==
    /\ phase = "idle" =>
         taken = 0 /\ wire = <<>> /\ sink = "ok" /\ up = "off" /\ down.pc = "off"
    /\ phase = "setup" => Gemini

StreamInv ==
    /\ provider \in Providers /\ DownOk(provider, down)
    /\ WireOk /\ Complete /\ MarkedLast /\ Unopened

(* The invariant implies the property.                                     *)
LEMMA StreamInvImplies == StreamInv => AudioThenMarker
<1> SUFFICES ASSUME StreamInv PROVE AudioThenMarker
  OBVIOUS
<1>1. Ordered(wire)
  BY DEF StreamInv, WireOk
<1>2. Marked(wire) /\ ~Eleven => Covers(wire, fed, taken)
  BY OneRunner DEF StreamInv, MarkedLast
<1>3. Stt /\ Marked(wire) => taken = Len(fed) /\ ~input_open
  BY DEF StreamInv, MarkedLast
<1> QED BY <1>1, <1>2, <1>3, Zenon DEF AudioThenMarker, Ordered, Marked, Covers

(* It holds of a session that has not begun.                               *)
LEMMA StreamInvInit == Init => StreamInv
<1> SUFFICES ASSUME Init PROVE StreamInv
  OBVIOUS
<1>1. /\ provider \in Providers /\ phase = "idle" /\ fed = <<>> /\ taken = 0
      /\ wire = <<>> /\ sink = "ok" /\ up = "off" /\ down = Off
  BY DEF Init
<1>2. down.pc = "off" /\ DownOk(provider, down)
  BY <1>1 DEF Off, DownOk, Goes
<1>3. WireOk /\ Complete /\ ~Marked(wire)
  BY <1>1 DEF WireOk, Complete, Marked, Below, Ordered, Covers
<1> QED BY <1>1, <1>2, <1>3 DEF StreamInv, MarkedLast, Unopened

-----------------------------------------------------------------------------
(***************************************************************************)
(* The steps that send nothing and take nothing, a failed send among them: *)
(* no task that has ended starts again and no session returns to its       *)
(* opening.                                                                *)
(***************************************************************************)
Rests ==
    /\ UNCHANGED <<provider, fed, taken, wire>>
    /\ sink' = sink \/ (sink' = "broken" /\ phase # "idle")
    /\ input_open' => input_open
    /\ Stt /\ up = "ended" => up' = "ended"
    /\ ~Gemini /\ down.pc = "ended" => down'.pc = "ended"
    /\ phase' = "idle" => phase = "idle" /\ up' = up /\ down' = down
    /\ phase' = "setup" => phase = "setup"

(* The runner of a session does not change.                                *)
LEMMA SameRunner ==
    ASSUME provider' = provider
    PROVE  /\ Stt' = Stt /\ Eleven' = Eleven /\ Gemini' = Gemini /\ OpenAi' = OpenAi
           /\ Messages' = Messages
BY DEF Stt, Eleven, Gemini, OpenAi, Messages

LEMMA RestKeeps ==
    ASSUME StreamInv, Rests, DownOk(provider, down')
    PROVE  StreamInv'
<1>0. /\ provider' = provider /\ fed' = fed /\ taken' = taken /\ wire' = wire
      /\ sink' = "ok" => sink = "ok"
      /\ phase = "idle" => sink' = sink
  BY DEF Rests
<1>s. /\ Stt' = Stt /\ Eleven' = Eleven /\ Gemini' = Gemini /\ OpenAi' = OpenAi
      /\ Messages' = Messages
  BY <1>0, SameRunner
<1>1. provider' \in Providers /\ DownOk(provider', down')
  BY <1>0 DEF StreamInv
<1>2. WireOk'
  BY <1>0, <1>s DEF StreamInv, WireOk
<1>3. Complete'
  BY <1>0, <1>s DEF StreamInv, Complete
<1>4. MarkedLast'
  BY <1>0, <1>s DEF StreamInv, MarkedLast, Rests
<1>5. Unopened'
  BY <1>0, <1>s DEF StreamInv, Unopened, Rests
<1> QED BY <1>1, <1>2, <1>3, <1>4, <1>5 DEF StreamInv

-----------------------------------------------------------------------------
(***************************************************************************)
(* The steps that send.  The next message is taken, and none, some or all  *)
(* of its frames are sent; all of them while the sink is sound.            *)
(***************************************************************************)
Taking(s) ==
    /\ UNCHANGED <<provider, fed, phase, input_open>>
    /\ taken < Len(fed) /\ taken' = taken + 1 /\ phase # "idle" /\ ~Marked(wire)
    /\ s \in Seq(Int) /\ (\A i \in DOMAIN s : s[i] = taken + 1)
    /\ wire' = wire \o s
    /\ (Stt \/ OpenAi) /\ sink' = "ok" =>
         sink = "ok" /\ (s # <<>> \/ fed[taken + 1] \in {"empty", "close"})

LEMMA TakeKeeps ==
    ASSUME StreamInv, NEW s, Taking(s), DownOk(provider, down')
    PROVE  StreamInv'
<1>0. /\ provider' = provider /\ fed' = fed /\ phase' = phase /\ phase # "idle"
      /\ taken' = taken + 1 /\ ~Marked(wire)
      /\ wire' = wire \o s /\ s \in Seq(Int) /\ \A i \in DOMAIN s : s[i] = taken + 1
  BY DEF Taking
<1>s. /\ Stt' = Stt /\ Eleven' = Eleven /\ Gemini' = Gemini /\ OpenAi' = OpenAi
      /\ Messages' = Messages
  BY <1>0, SameRunner
<1>1. provider' \in Providers /\ DownOk(provider', down')
  BY <1>0 DEF StreamInv
<1>2. /\ fed \in Seq(Messages) /\ taken \in Nat /\ taken + 1 \in 0..Len(fed)
      /\ wire \in Seq(Int) /\ Below(wire, taken) /\ Ordered(wire)
      /\ DOMAIN fed \subseteq Nat
  BY DEF StreamInv, WireOk, Taking
<1>3. /\ wire' \in Seq(Int) /\ Ordered(wire') /\ Below(wire', taken + 1)
      /\ ~Marked(wire')
  BY <1>0, <1>2, NextMessage
<1>4. WireOk'
  BY <1>0, <1>2, <1>3, <1>s DEF WireOk
<1>5. Complete'
  <2> SUFFICES ASSUME Stt \/ OpenAi, sink' = "ok" PROVE Covers(wire', fed, taken + 1)
    BY <1>0, <1>s DEF Complete
  <2>1. sink = "ok" /\ (s # <<>> \/ fed[taken + 1] \in {"empty", "close"})
    BY DEF Taking
  <2>2. Covers(wire, fed, taken)
    BY <2>1 DEF StreamInv, Complete
  <2>3. CASE s # <<>>
    BY <1>0, <1>2, <2>2, <2>3, CoversSent
  <2>4. CASE fed[taken + 1] \in {"empty", "close"}
    <3>1. Covers(wire \o s, fed, taken)
      BY <1>0, <1>2, <2>2, StillCovers
    <3> QED BY <1>0, <1>2, <2>4, <3>1, CoversSkipped
  <2> QED BY <2>1, <2>3, <2>4
<1>6. MarkedLast'
  BY <1>3 DEF MarkedLast
<1>7. Unopened'
  BY <1>0, <1>s DEF StreamInv, Unopened
<1> QED BY <1>1, <1>4, <1>5, <1>6, <1>7 DEF StreamInv

(* The task that sends the marker has taken and sent all, and it ends.     *)
Marking ==
    /\ UNCHANGED <<provider, fed, phase, input_open>>
    /\ phase # "idle" /\ ~Gemini /\ ~Marked(wire)
    /\ sink = "ok" /\ sink' = "ok" /\ wire' = wire \o <<Marker>>
    /\ \/ taken' = taken
       \/ taken < Len(fed) /\ taken' = taken + 1 /\ fed[taken + 1] = "close"
    /\ Stt => up' = "ended" /\ taken' = Len(fed) /\ ~input_open
    /\ ~Stt => down'.pc = "ended"

LEMMA MarkKeeps ==
    ASSUME StreamInv, Marking, DownOk(provider, down')
    PROVE  StreamInv'
<1>0. /\ provider' = provider /\ fed' = fed /\ phase' = phase /\ phase # "idle"
      /\ wire' = wire \o <<Marker>> /\ ~Marked(wire) /\ input_open' = input_open
      /\ sink = "ok" /\ ~Gemini
  BY DEF Marking
<1>s. /\ Stt' = Stt /\ Eleven' = Eleven /\ Gemini' = Gemini /\ OpenAi' = OpenAi
      /\ Messages' = Messages
  BY <1>0, SameRunner
<1>1. provider' \in Providers /\ DownOk(provider', down')
  BY <1>0 DEF StreamInv
<1>2. /\ fed \in Seq(Messages) /\ taken \in Nat /\ taken <= Len(fed)
      /\ wire \in Seq(Int) /\ Below(wire, taken) /\ Ordered(wire)
      /\ DOMAIN fed \subseteq Nat
  BY DEF StreamInv, WireOk
<1>3. /\ wire' \in Seq(Int) /\ Ordered(wire') /\ Below(wire', taken)
  BY <1>0, <1>2, ThenMarker
<1>4. taken' \in 0..Len(fed) /\ taken <= taken'
  BY <1>2 DEF Marking
<1>5. Below(wire', taken')
  BY <1>2, <1>3, <1>4 DEF Below
<1>6. WireOk'
  BY <1>0, <1>2, <1>3, <1>4, <1>5, <1>s DEF WireOk
<1>7. Stt \/ OpenAi => Covers(wire', fed, taken')
  <2> SUFFICES ASSUME Stt \/ OpenAi PROVE Covers(wire', fed, taken')
    OBVIOUS
  <2>1. Covers(wire, fed, taken)
    BY <1>0 DEF StreamInv, Complete
  <2>2. <<Marker>> \in Seq(Int)
    BY DEF Marker
  <2>3. Covers(wire', fed, taken)
    BY <1>0, <1>2, <2>1, <2>2, StillCovers
  <2>4. CASE taken' = taken
    BY <2>3, <2>4
  <2>5. CASE taken' = taken + 1 /\ fed[taken + 1] \in {"empty", "close"}
    BY <1>2, <2>3, <2>5, CoversSkipped
  <2> QED BY <2>4, <2>5 DEF Marking
<1>8. Complete' /\ MarkedLast'
  <2>1. Stt => up' = "ended" /\ taken' = Len(fed) /\ ~input_open
    BY DEF Marking
  <2>2. ~Stt => down'.pc = "ended"
    BY DEF Marking
  <2> QED BY <1>0, <1>7, <1>s, <2>1, <2>2 DEF Complete, MarkedLast
<1>9. Unopened'
  BY <1>0, <1>s DEF StreamInv, Unopened
<1> QED BY <1>1, <1>6, <1>8, <1>9 DEF StreamInv

-----------------------------------------------------------------------------
(***************************************************************************)
(* The opening: the handshake takes the places below the first message.    *)
(***************************************************************************)
Fresh(w) == w \in Seq(Int) /\ Below(w, 0) /\ Ordered(w) /\ ~Marked(w)

LEMMA GreetingIsFresh ==
    ASSUME NEW S, NEW h \in Seq(S), NEW k \in 0..Len(h)
    PROVE  Fresh(SubSeq(Greeting(h), 1, k)) /\ Fresh(Greeting(h)) /\ Fresh(<<>>)
<1>1. /\ Len(h) \in Nat /\ DOMAIN Greeting(h) = 1..Len(h)
      /\ \A i \in 1..Len(h) : Greeting(h)[i] = i - 1 - Len(h)
  BY DEF Greeting
<1>2. Greeting(h) \in Seq(Int)
  <2>1. Greeting(h) \in [1..Len(h) -> Int]
    BY DEF Greeting
  <2> QED BY <1>1, <2>1
<1>3. ASSUME NEW w \in Seq(Int), NEW l \in 0..Len(h), DOMAIN w = 1..l,
             \A i \in 1..l : w[i] = i - 1 - Len(h)
      PROVE  Fresh(w)
  <2>1. \A i \in DOMAIN w : w[i] < 0
    BY <1>1, <1>3
  <2>2. \A i, j \in DOMAIN w : i < j => w[i] <= w[j]
    BY <1>1, <1>3
  <2> QED BY <2>1, <2>2 DEF Fresh, Below, Ordered, Marked, Marker
<1>4. Fresh(Greeting(h))
  BY <1>1, <1>2, <1>3
<1>5. Fresh(SubSeq(Greeting(h), 1, k))
  <2> DEFINE w == SubSeq(Greeting(h), 1, k)
  <2>1. /\ w \in Seq(Int) /\ DOMAIN w = 1..k
        /\ \A i \in 1..k : w[i] = Greeting(h)[i]
    BY <1>1, <1>2
  <2>2. \A i \in 1..k : w[i] = i - 1 - Len(h)
    BY <1>1, <2>1
  <2> HIDE DEF w
  <2>3. Fresh(w)
    BY <1>3, <2>1, <2>2
  <2> QED BY <2>3 DEF w
<1>6. Fresh(<<>>)
  BY DEF Fresh, Below, Ordered, Marked
<1> QED BY <1>4, <1>5, <1>6

LEMMA OpeningKeeps ==
    ASSUME StreamInv,
           NEW rejection, NEW S, NEW handshake \in Seq(S), NEW to, NEW uplink, NEW downlink,
           Opening(rejection, handshake, to, uplink, downlink),
           DownOk(provider, downlink), to # "idle", to = "setup" => Gemini
    PROVE  StreamInv'
<1>0. /\ provider' = provider /\ fed' = fed /\ taken' = taken /\ sink' = sink
      /\ phase = "idle"
  BY DEF Opening, fixed, caller
<1>s. /\ Stt' = Stt /\ Eleven' = Eleven /\ Gemini' = Gemini /\ OpenAi' = OpenAi
      /\ Messages' = Messages
  BY <1>0, SameRunner
<1>1. taken = 0 /\ wire = <<>> /\ fed \in Seq(Messages)
  BY <1>0 DEF StreamInv, Unopened, WireOk
<1>2. Fresh(wire')
  <2>1. \/ wire' = wire \/ wire' = Greeting(handshake)
        \/ \E k \in 0..Len(handshake) : wire' = SubSeq(Greeting(handshake), 1, k)
    BY DEF Opening
  <2>2. 0 \in 0..Len(handshake)
    OBVIOUS
  <2> QED BY <1>1, <2>1, <2>2, GreetingIsFresh, Zenon
<1>3. phase' # "idle" /\ (phase' = "setup" => Gemini)
  BY DEF Opening, Refused
<1>4. down' = down \/ down' = downlink
  BY DEF Opening
<1>5. provider' \in Providers /\ DownOk(provider', down')
  BY <1>0, <1>4 DEF StreamInv
<1>6. WireOk' /\ ~Marked(wire')
  BY <1>0, <1>1, <1>2, <1>s DEF WireOk, Fresh
<1>7. Complete'
  <2>1. \A n \in DOMAIN fed : ~(n <= 0)
    BY <1>1
  <2>2. Covers(wire', fed, 0)
    BY <2>1 DEF Covers
  <2> QED BY <1>0, <1>1, <2>2 DEF Complete
<1>8. MarkedLast' /\ Unopened'
  BY <1>3, <1>6, <1>s DEF MarkedLast, Unopened
<1> QED BY <1>5, <1>6, <1>7, <1>8 DEF StreamInv

LEMMA OpenKeeps ==
    ASSUME StreamInv, Open
    PROVE  StreamInv'
<1>1. /\ DownOk(provider, At("read")) /\ DownOk(provider, Off)
  <2>1. Goes(provider, "read") /\ Goes(provider, "ended")
    BY DEF Goes
  <2>2. Off.pc = "off" /\ Off.then = "ended"
    BY DEF Off
  <2> QED BY <2>1, <2>2, SendingOk DEF DownOk
<1>2. \E S : /\ <<>> \in Seq(S) /\ ElevenHandshake \in Seq(S)
              /\ OpenAiHandshake \in Seq(S) /\ GeminiHandshake \in Seq(S)
  <2>1. ASSUME NEW S, NEW a \in S, NEW b \in S
        PROVE  <<a, b>> \in Seq(S) /\ <<a>> \in Seq(S) /\ <<>> \in Seq(S)
    <3>1. <<>> \in Seq(S)
      OBVIOUS
    <3>2. <<a>> \in Seq(S)
      OBVIOUS
    <3>3. <<a, b>> = Append(<<a>>, b)
      OBVIOUS
    <3>4. <<a, b>> \in Seq(S)
      BY <3>2, <3>3, AppendProperties
    <3> QED BY <3>1, <3>2, <3>4
  <2> DEFINE Names == {"init", "flush", "session.update", "setup"}
  <2>2. "init" \in Names /\ "flush" \in Names /\ "session.update" \in Names /\ "setup" \in Names
    OBVIOUS
  <2> HIDE DEF Names
  <2>3. /\ <<>> \in Seq(Names) /\ ElevenHandshake \in Seq(Names)
        /\ OpenAiHandshake \in Seq(Names) /\ GeminiHandshake \in Seq(Names)
    BY <2>1, <2>2, Zenon DEF ElevenHandshake, OpenAiHandshake, GeminiHandshake
  <2> QED BY <2>3
<1>3. \/ \E r : Opening(r, <<>>, "open", "run", At("read"))
      \/ \E r : Opening(r, ElevenHandshake, "open", "off", At("read"))
      \/ \E r : Opening(r, OpenAiHandshake, "open", "off", At("read"))
      \/ Gemini /\ \E r : Opening(r, GeminiHandshake, "setup", "off", Off)
  <2>1. CASE OpenDeepgram
    BY <2>1, Zenon DEF OpenDeepgram
  <2>2. CASE OpenAssemblyAi
    BY <2>2, Zenon DEF OpenAssemblyAi
  <2>3. CASE OpenElevenLabs
    BY <2>3, Zenon DEF OpenElevenLabs
  <2>4. CASE OpenOpenAi
    BY <2>4, Zenon DEF OpenOpenAi
  <2>5. CASE OpenGemini
    BY <2>5, Zenon DEF OpenGemini
  <2> QED BY <2>1, <2>2, <2>3, <2>4, <2>5, Zenon DEF Open
<1>4. "open" # "idle" /\ "open" # "setup" /\ "setup" # "idle"
  OBVIOUS
<1>5. CASE \E r : Opening(r, <<>>, "open", "run", At("read"))
  BY <1>1, <1>2, <1>4, <1>5, OpeningKeeps
<1>6. CASE \E r : Opening(r, ElevenHandshake, "open", "off", At("read"))
  BY <1>1, <1>2, <1>4, <1>6, OpeningKeeps
<1>7. CASE \E r : Opening(r, OpenAiHandshake, "open", "off", At("read"))
  BY <1>1, <1>2, <1>4, <1>7, OpeningKeeps
<1>8. CASE Gemini /\ \E r : Opening(r, GeminiHandshake, "setup", "off", Off)
  BY <1>1, <1>2, <1>4, <1>8, OpeningKeeps
<1> QED BY <1>3, <1>5, <1>6, <1>7, <1>8

-----------------------------------------------------------------------------
(***************************************************************************)
(* The other actions, one by one.                                          *)
(***************************************************************************)
LEMMA UplinkTakeKeeps ==
    ASSUME StreamInv, UplinkTake
    PROVE  StreamInv'
<1> DEFINE n == taken + 1
<1>0. /\ UNCHANGED <<provider, fed, phase, input_open, down>>
      /\ up = "run" /\ taken < Len(fed) /\ taken' = taken + 1
      /\ (Stt /\ SttTake(n)) \/ (Gemini /\ GeminiTake(n))
  BY DEF UplinkTake, fixed, caller, opening
<1>1. phase # "idle" /\ ~Marked(wire)
  BY <1>0 DEF StreamInv, Unopened, MarkedLast
<1>2. DownOk(provider, down') /\ taken \in Nat /\ wire \in Seq(Int)
  BY <1>0 DEF StreamInv, WireOk
<1>3. \/ wire' = wire \o <<n>> /\ sink = "ok"
      \/ /\ wire' = wire
         /\ ~Gemini /\ sink' = "ok" => sink = "ok" /\ fed[n] \in {"empty", "close"}
  <2>1. CASE Stt /\ SttTake(n)
    BY <2>1 DEF SttTake, Send, SendFails, NoSend
  <2>2. CASE Gemini /\ GeminiTake(n)
    BY <2>2 DEF GeminiTake, Send, SendFails, NoSend
  <2> QED BY <1>0, <2>1, <2>2
<1>4. ~OpenAi /\ (Stt => ~Gemini)
  BY <1>0, OneRunner DEF StreamInv
<1>5. CASE wire' = wire \o <<n>> /\ sink = "ok"
  <2>1. <<n>> \in Seq(Int) /\ <<n>> # <<>> /\ \A i \in DOMAIN <<n>> : <<n>>[i] = taken + 1
    BY <1>2
  <2>2. Taking(<<n>>)
    BY <1>0, <1>1, <1>5, <2>1 DEF Taking
  <2> QED BY <1>2, <2>2, TakeKeeps
<1>6. CASE /\ wire' = wire
           /\ ~Gemini /\ sink' = "ok" => sink = "ok" /\ fed[n] \in {"empty", "close"}
  <2>1. <<>> \in Seq(Int) /\ \A i \in DOMAIN <<>> : <<>>[i] = taken + 1
    OBVIOUS
  <2>2. wire' = wire \o <<>>
    BY <1>2, <1>6
  <2>3. Taking(<<>>)
    BY <1>0, <1>1, <1>4, <1>6, <2>1, <2>2 DEF Taking
  <2> QED BY <1>2, <2>3, TakeKeeps
<1> QED BY <1>3, <1>5, <1>6

LEMMA UplinkDrainedKeeps ==
    ASSUME StreamInv, UplinkDrained
    PROVE  StreamInv'
<1>0. /\ UNCHANGED <<provider, fed, phase, input_open, down, taken>>
      /\ up = "run" /\ taken = Len(fed) /\ ~input_open /\ up' = "ended"
      /\ (Stt /\ (Send(<<Marker>>) \/ SendFails)) \/ (Gemini /\ NoSend)
  BY DEF UplinkDrained, fixed, caller, opening
<1>1. phase # "idle" /\ ~Marked(wire)
  BY <1>0 DEF StreamInv, Unopened, MarkedLast
<1>2. DownOk(provider, down')
  BY <1>0 DEF StreamInv
<1>3. CASE Stt /\ Send(<<Marker>>)
  <2>1. ~Gemini
    BY <1>3, OneRunner DEF StreamInv
  <2>2. Marking
    BY <1>0, <1>1, <1>3, <2>1 DEF Marking, Send
  <2> QED BY <1>2, <2>2, MarkKeeps
<1>4. CASE SendFails \/ NoSend
  <2>1. wire' = wire /\ (sink' = sink \/ sink' = "broken")
    BY <1>4 DEF SendFails, NoSend
  <2>2. Rests
    BY <1>0, <1>1, <2>1 DEF Rests
  <2> QED BY <1>2, <2>2, RestKeeps
<1> QED BY <1>0, <1>3, <1>4

LEMMA ElevenClosesKeeps ==
    ASSUME StreamInv, ElevenCloses
    PROVE  StreamInv'
<1>0. /\ UNCHANGED <<provider, fed, phase, input_open, up, taken>>
      /\ down.pc = "close" /\ down' = At("ended")
      /\ Send(<<Marker>>) \/ SendFails
  BY DEF ElevenCloses, fixed, caller, opening
<1>1. Eleven
  BY <1>0 DEF StreamInv, DownOk, Goes, Eleven
<1>2. ~Stt /\ ~Gemini
  BY <1>1, OneRunner DEF StreamInv
<1>3. phase # "idle" /\ ~Marked(wire)
  BY <1>0, <1>2 DEF StreamInv, Unopened, MarkedLast
<1>4. DownOk(provider, down') /\ down'.pc = "ended"
  <2>1. Goes(provider, "ended")
    BY DEF Goes
  <2> QED BY <1>0, <2>1, SendingOk, AtIs
<1>5. CASE Send(<<Marker>>)
  <2>1. Marking
    BY <1>0, <1>2, <1>3, <1>4, <1>5 DEF Marking, Send
  <2> QED BY <1>4, <2>1, MarkKeeps
<1>6. CASE SendFails
  <2>1. Rests
    BY <1>0, <1>3, <1>4, <1>6 DEF Rests, SendFails
  <2> QED BY <1>4, <2>1, RestKeeps
<1> QED BY <1>0, <1>5, <1>6

LEMMA AdapterDrainedKeeps ==
    ASSUME StreamInv, AdapterDrained
    PROVE  StreamInv'
<1>0. /\ UNCHANGED <<provider, fed, phase, input_open, up, taken>>
      /\ OpenAi /\ down.pc = "read" /\ down' = At("ended")
      /\ Send(<<Marker>>) \/ SendFails
  BY DEF AdapterDrained, fixed, caller, opening
<1>2. ~Stt /\ ~Gemini
  BY <1>0, OneRunner DEF StreamInv
<1>3. phase # "idle" /\ ~Marked(wire)
  BY <1>0, <1>2 DEF StreamInv, Unopened, MarkedLast
<1>4. DownOk(provider, down') /\ down'.pc = "ended"
  <2>1. Goes(provider, "ended")
    BY DEF Goes
  <2> QED BY <1>0, <2>1, SendingOk, AtIs
<1>5. CASE Send(<<Marker>>)
  <2>1. Marking
    BY <1>0, <1>2, <1>3, <1>4, <1>5 DEF Marking, Send
  <2> QED BY <1>4, <2>1, MarkKeeps
<1>6. CASE SendFails
  <2>1. Rests
    BY <1>0, <1>3, <1>4, <1>6 DEF Rests, SendFails
  <2> QED BY <1>4, <2>1, RestKeeps
<1> QED BY <1>0, <1>5, <1>6

(* A message of the caller to OpenAI Realtime makes one frame or two.      *)
LEMMA AdapterTakeKeeps ==
    ASSUME StreamInv, AdapterTake
    PROVE  StreamInv'
<1> DEFINE n == taken + 1
           frames == [k \in DOMAIN OpenAiSends(fed[n]) |-> n]
<1>0. /\ UNCHANGED <<provider, fed, phase, input_open, up>>
      /\ OpenAi /\ down.pc = "read" /\ taken < Len(fed) /\ taken' = taken + 1
  BY DEF AdapterTake, fixed, caller, opening
<1>a. \/ fed[n] # "close" /\ Send(frames) /\ down' = down
      \/ /\ fed[n] # "close" /\ down' = down /\ sink' = "broken"
         /\ \E k \in (IF sink = "ok" THEN 0..(Len(frames) - 1) ELSE {0}) :
               wire' = wire \o SubSeq(frames, 1, k)
      \/ fed[n] = "close" /\ (Send(<<Marker>>) \/ SendFails) /\ down' = At("ended")
  BY DEF AdapterTake
<1>1. ~Stt /\ ~Gemini
  BY <1>0, OneRunner DEF StreamInv
<1>2. phase # "idle" /\ ~Marked(wire)
  BY <1>0, <1>1 DEF StreamInv, Unopened, MarkedLast
<1>3. /\ taken \in Nat /\ wire \in Seq(Int) /\ n \in Int /\ n \in DOMAIN fed
      /\ fed \in Seq(Messages) /\ DownOk(provider, down)
  BY <1>0 DEF StreamInv, WireOk
<1>4. fed[n] \in {"audio", "text", "commit", "close"}
  <2>1. Messages = {"audio", "text", "commit", "close"}
    BY <1>0, <1>1, OneRunner DEF StreamInv, Messages
  <2>2. fed[n] \in Messages
    BY <1>3
  <2> QED BY <2>1, <2>2
<1>5. \E l \in Nat : /\ DOMAIN OpenAiSends(fed[n]) = 1..l
                     /\ fed[n] # "close" => l > 0
  <2>1. \/ OpenAiSends(fed[n]) = <<"input_audio_buffer.append">>
        \/ OpenAiSends(fed[n]) = <<"conversation.item.create", "response.create">>
        \/ OpenAiSends(fed[n]) = <<"input_audio_buffer.commit">>
        \/ fed[n] = "close" /\ OpenAiSends(fed[n]) = <<>>
    BY <1>4, Zenon DEF OpenAiSends
  <2>2. \/ DOMAIN OpenAiSends(fed[n]) = 1..1
        \/ DOMAIN OpenAiSends(fed[n]) = 1..2
        \/ fed[n] = "close" /\ DOMAIN OpenAiSends(fed[n]) = 1..0
    BY <2>1
  <2>3. CASE DOMAIN OpenAiSends(fed[n]) = 1..1
    <3> WITNESS 1 \in Nat
    <3> QED BY <2>3
  <2>4. CASE DOMAIN OpenAiSends(fed[n]) = 1..2
    <3> WITNESS 2 \in Nat
    <3> QED BY <2>4
  <2>5. CASE fed[n] = "close" /\ DOMAIN OpenAiSends(fed[n]) = 1..0
    <3> WITNESS 0 \in Nat
    <3> QED BY <2>5
  <2> QED BY <2>2, <2>3, <2>4, <2>5
<1>6. /\ frames \in Seq(Int) /\ \A i \in DOMAIN frames : frames[i] = n
      /\ fed[n] # "close" => frames # <<>>
  <2>1. PICK l \in Nat : DOMAIN OpenAiSends(fed[n]) = 1..l /\ (fed[n] # "close" => l > 0)
    BY <1>5
  <2>2. frames = [k \in 1..l |-> n]
    BY <2>1
  <2>3. frames \in [1..l -> Int] /\ DOMAIN frames = 1..l
    BY <1>3, <2>2
  <2>4. frames \in Seq(Int)
    BY <2>3
  <2>5. \A i \in DOMAIN frames : frames[i] = n
    BY <2>2, <2>3
  <2>6. fed[n] # "close" => 1 \in DOMAIN frames
    BY <2>1, <2>3
  <2> QED BY <2>4, <2>5, <2>6
<1> HIDE DEF frames
<1>7. CASE fed[n] # "close" /\ Send(frames) /\ down' = down
  <2>1. Taking(frames)
    BY <1>0, <1>2, <1>6, <1>7 DEF Taking, Send
  <2> QED BY <1>3, <1>7, <2>1, TakeKeeps
<1>8. CASE /\ fed[n] # "close" /\ down' = down /\ sink' = "broken"
           /\ \E k \in (IF sink = "ok" THEN 0..(Len(frames) - 1) ELSE {0}) :
                 wire' = wire \o SubSeq(frames, 1, k)
  <2>1. PICK k \in (IF sink = "ok" THEN 0..(Len(frames) - 1) ELSE {0}) :
               wire' = wire \o SubSeq(frames, 1, k)
    BY <1>8
  <2>2. k \in 0..Len(frames)
    BY <1>6
  <2> DEFINE s == SubSeq(frames, 1, k)
  <2>3. s \in Seq(Int) /\ \A i \in DOMAIN s : s[i] = n
    <3>1. s \in Seq(Int) /\ DOMAIN s = 1..k /\ \A i \in 1..k : s[i] = frames[i]
      BY <1>6, <2>2
    <3>2. 1..k \subseteq DOMAIN frames
      BY <1>6, <2>2
    <3> HIDE DEF s
    <3> QED BY <1>6, <3>1, <3>2
  <2> HIDE DEF s
  <2>4. wire' = wire \o s
    BY <2>1 DEF s
  <2>5. Taking(s)
    BY <1>0, <1>2, <1>8, <2>3, <2>4 DEF Taking
  <2> QED BY <1>3, <1>8, <2>5, TakeKeeps
<1>9. CASE fed[n] = "close" /\ (Send(<<Marker>>) \/ SendFails) /\ down' = At("ended")
  <2>1. DownOk(provider, down') /\ down'.pc = "ended"
    <3>1. Goes(provider, "ended")
      BY DEF Goes
    <3> QED BY <1>9, <3>1, SendingOk, AtIs
  <2>2. CASE Send(<<Marker>>)
    <3>1. Marking
      BY <1>0, <1>1, <1>2, <1>9, <2>1, <2>2 DEF Marking, Send
    <3> QED BY <2>1, <3>1, MarkKeeps
  <2>3. CASE SendFails
    <3>1. <<>> \in Seq(Int) /\ \A i \in DOMAIN <<>> : <<>>[i] = taken + 1
      OBVIOUS
    <3>2. wire' = wire \o <<>> /\ sink' = "broken"
      BY <1>3, <2>3 DEF SendFails
    <3>3. Taking(<<>>)
      BY <1>0, <1>2, <3>1, <3>2 DEF Taking
    <3> QED BY <2>1, <3>3, TakeKeeps
  <2> QED BY <1>9, <2>2, <2>3
<1> QED BY <1>a, <1>7, <1>8, <1>9

(* The caller's next message waits to be taken.                            *)
LEMMA FeedKeeps ==
    ASSUME StreamInv, NEW m \in Messages, Feed(m)
    PROVE  StreamInv'
<1>0. /\ UNCHANGED <<provider, phase, input_open, up, down, taken, wire, sink>>
      /\ fed' = Append(fed, m) /\ input_open
  BY DEF Feed, fixed, opening
<1>s. /\ Stt' = Stt /\ Eleven' = Eleven /\ Gemini' = Gemini /\ OpenAi' = OpenAi
      /\ Messages' = Messages
  BY <1>0, SameRunner
<1>1. /\ fed \in Seq(Messages) /\ taken \in 0..Len(fed)
      /\ wire \in Seq(Int) /\ Below(wire, taken) /\ Ordered(wire)
  BY DEF StreamInv, WireOk
<1>2. fed' \in Seq(Messages) /\ taken \in 0..Len(fed')
  BY <1>0, <1>1
<1>3. WireOk'
  BY <1>0, <1>1, <1>2, <1>s DEF WireOk
<1>4. Covers(wire, fed, taken) => Covers(wire, fed', taken)
  BY <1>0, <1>1, CoversFed
<1>5. Complete'
  BY <1>0, <1>4, <1>s DEF StreamInv, Complete
<1>6. MarkedLast'
  BY <1>0, <1>4, <1>s DEF StreamInv, MarkedLast
<1>7. Unopened'
  BY <1>0, <1>s DEF StreamInv, Unopened
<1>8. provider' \in Providers /\ DownOk(provider', down')
  BY <1>0 DEF StreamInv
<1> QED BY <1>3, <1>5, <1>6, <1>7, <1>8 DEF StreamInv

(* The steps of the downlink that send to the consumer only.               *)
LEMMA DownlinkKeeps ==
    ASSUME StreamInv, DownlinkRead \/ DownlinkFinish \/ DownlinkSends \/ DownlinkSendFails
    PROVE  StreamInv'
<1>1. provider \in Providers /\ DownOk(provider, down)
  BY DEF StreamInv
<1>2. DownOk(provider, down')
  BY <1>1, ReadsGo, FinishGoes, SendGoes
<1>3. /\ UNCHANGED <<provider, fed, taken, wire, sink, input_open, up, phase>>
      /\ down.pc \in {"read", "finish", "send"}
  BY DEF DownlinkRead, DownlinkFinish, DownlinkSends, DownlinkSendFails, fixed, caller,
         opening
<1>4. Rests
  BY <1>3 DEF Rests, StreamInv, Unopened
<1> QED BY <1>2, <1>4, RestKeeps

(* The steps that move the downlink from place to place.                   *)
LEMMA TurnKeeps ==
    ASSUME StreamInv, AwaitSetup \/ StartAdapter \/ Cancel
    PROVE  StreamInv'
<1>0. (Gemini => Goes(provider, "start")) /\ Goes(provider, "read") /\ Goes(provider, "ended")
  BY DEF Goes, Gemini
<1>1. UNCHANGED <<provider, fed, taken, wire, sink, input_open>>
  BY DEF AwaitSetup, StartAdapter, Cancel, fixed, caller
<1>2. \/ down' = down \/ (Gemini /\ down' = At("start"))
      \/ down' = At("read") \/ down' = At("ended")
  BY DEF AwaitSetup, StartAdapter, Cancel, StreamInv, Unopened
<1>3. DownOk(provider, down')
  BY <1>0, <1>2, SendingOk DEF StreamInv
<1>4. CASE AwaitSetup
  <2>1. phase = "setup" /\ Gemini
    BY <1>4 DEF AwaitSetup, StreamInv, Unopened
  <2>2. phase' # "idle" /\ up' = up
    BY <1>4, <2>1 DEF AwaitSetup, Refused
  <2>3. Rests
    BY <1>1, <2>1, <2>2 DEF Rests
  <2> QED BY <1>3, <2>3, RestKeeps
<1>5. CASE StartAdapter \/ Cancel
  <2>1. phase' = phase /\ down.pc # "off" /\ down.pc # "ended"
    BY <1>5 DEF StartAdapter, Cancel, opening
  <2>2. phase # "idle"
    BY <2>1 DEF StreamInv, Unopened
  <2>3. up' = up \/ Gemini
    BY <1>5 DEF StartAdapter, Cancel, StreamInv, DownOk, Goes, Gemini
  <2>4. Gemini => ~Stt
    BY OneRunner DEF StreamInv
  <2>5. Rests
    BY <1>1, <2>1, <2>2, <2>3, <2>4 DEF Rests
  <2> QED BY <1>3, <2>5, RestKeeps
<1> QED BY <1>4, <1>5

(* What the caller, the provider and the consumer do besides, and a report *)
(* of the uplink.                                                          *)
LEMMA OthersKeep ==
    ASSUME StreamInv,
           UplinkReport \/ CloseInput \/ Serve \/ Consume \/ DropStream \/ UNCHANGED vars
    PROVE  StreamInv'
<1>1. /\ UNCHANGED <<provider, fed, taken, wire, sink, phase, down>>
      /\ input_open' => input_open
      /\ up' = up \/ (up = "report" /\ up' = "ended")
  BY DEF UplinkReport, CloseInput, Serve, Consume, DropStream, vars, fixed, opening, caller
<1>2. phase = "idle" => up # "report"
  BY DEF StreamInv, Unopened
<1>3. Rests
  BY <1>1, <1>2 DEF Rests
<1> QED BY <1>1, <1>3, RestKeeps DEF StreamInv

LEMMA StreamInvStep == StreamInv /\ [Next]_vars => StreamInv'
<1> SUFFICES ASSUME StreamInv, [Next]_vars PROVE StreamInv'
  OBVIOUS
<1>1. CASE Open
  BY <1>1, OpenKeeps
<1>2. CASE AwaitSetup \/ StartAdapter \/ Cancel
  BY <1>2, TurnKeeps
<1>3. CASE UplinkTake
  BY <1>3, UplinkTakeKeeps
<1>4. CASE UplinkDrained
  BY <1>4, UplinkDrainedKeeps
<1>5. CASE DownlinkRead \/ DownlinkFinish \/ DownlinkSends \/ DownlinkSendFails
  BY <1>5, DownlinkKeeps
<1>6. CASE ElevenCloses
  BY <1>6, ElevenClosesKeeps
<1>7. CASE AdapterTake
  BY <1>7, AdapterTakeKeeps
<1>8. CASE AdapterDrained
  BY <1>8, AdapterDrainedKeeps
<1>9. CASE \E m \in Messages : Feed(m)
  BY <1>9, FeedKeeps
<1>10. CASE UplinkReport \/ CloseInput \/ Serve \/ Consume \/ DropStream \/ UNCHANGED vars
  BY <1>10, OthersKeep
<1>11. Quiescent => UNCHANGED vars
  BY DEF Quiescent
<1> QED BY <1>1, <1>2, <1>3, <1>4, <1>5, <1>6, <1>7, <1>8, <1>9, <1>10, <1>11, Zenon
           DEF Next, UplinkTask, DownlinkTask

(***************************************************************************)
(* Whatever the order of the caller, the tasks and the provider, and       *)
(* whichever sends fail, the provider is sent the caller's messages in     *)
(* order, and a request to flush or a Close only when it has been sent     *)
(* every message taken before, and by a transcriber only when the caller   *)
(* has closed its input and all of it was taken.                           *)
(***************************************************************************)
THEOREM AudioPrecedesMarker == Spec => []AudioThenMarker
<1>1. Init => StreamInv
  BY StreamInvInit
<1>2. StreamInv /\ [Next]_vars => StreamInv'
  BY StreamInvStep
<1>3. StreamInv => AudioThenMarker
  BY StreamInvImplies
<1> QED BY <1>1, <1>2, <1>3, PTL DEF Spec

-----------------------------------------------------------------------------
(***************************************************************************)
(* What the consumer is given.  An item is on its way in one of three      *)
(* places: delivered, held by the downlink for sending, or collected by a  *)
(* transcriber until the connection has ended.                             *)
(***************************************************************************)
AnyItem == [kind : {"data", "final", "err", "done"}, n : Nat, by : {"up", "down"}]

(* An item may come before another: its frame came before, or it is the    *)
(* audio of the frame whose end the other is.                              *)
Follows(a, b, f) ==
    a.n > 0 /\ b.n > 0 =>
      \/ a.n < b.n
      \/ a.n = b.n /\ f[a.n] = "audio_final" /\ a.kind = "data" /\ b.kind = "final"

Chain(s, f) == \A i, j \in DOMAIN s : i < j => Follows(s[i], s[j], f)

Before(s, t, f) == \A i \in DOMAIN s, j \in DOMAIN t : Follows(s[i], t[j], f)

Upto(s, r) == \A i \in DOMAIN s : s[i].n <= r

(* The three places, of which each comes before the next.                  *)
Line(d, h, p, f, r) ==
    /\ Chain(d, f) /\ Chain(h, f) /\ Chain(p, f)
    /\ Before(d, h, f) /\ Before(d, p, f) /\ Before(h, p, f)
    /\ Upto(d, r) /\ Upto(h, r) /\ Upto(p, r)

(* The frames that items were made from.                                   *)
Nums(s) == {s[i].n : i \in DOMAIN s} \ {0}

Shape(d) ==
    /\ d.pc = "send" <=> d.hold # <<>>
    /\ d.pc \notin {"send", "off"} => d.then = d.pc

LineTypes ==
    /\ got \in Seq(AnyItem) /\ out \in Seq(AnyItem)
    /\ down.hold \in Seq(AnyItem) /\ produced \in Seq(AnyItem)
    /\ served \in Seq(Frames \cup Ends) /\ read \in 0..Len(served)

LineShape ==
    /\ Shape(down)
    /\ ~Stt => produced = <<>>
    /\ Eleven \/ OpenAi => up = "off"
    /\ phase = "idle" => read = 0
    /\ phase # "open" =>
         /\ down = Off /\ up = "off"
         /\ produced = <<>> /\ got = <<>> /\ out = <<>>

LineOrder == Line(Delivered, down.hold, produced, served, read)

Wanted == {n \in 1..read : Worth(n)}

LineWhole ==
    /\ Gemini /\ phase \in {"idle", "setup"} => \A m \in 1..read : served[m] # "setup"
    /\ Gemini /\ phase = "open" => \E m \in 1..read : served[m] = "setup"
    /\ phase = "open" /\ ~gone /\ ~cancelled =>
         Nums(Delivered) \cup Nums(down.hold) \cup Nums(produced) = Wanted
    /\ Stt /\ ~gone /\ down.then = "ended" =>
         produced = <<>> \/ (read > 0 /\ served[read] \in {"close_other", "recv_error"})

AllUp(s) == \A i \in DOMAIN s : s[i].by = "up"

Without(s, kind) == \A i \in DOMAIN s : s[i].kind # kind

(* What is behind the terminal item of a stream, or before its failure.    *)
ClosesLast(d) ==
    \A i, j \in DOMAIN d : i < j =>
      /\ Eleven => d[i].kind # "final"
      /\ Gemini => (d[i].kind = "done" => UpFailed(d[j]))
      /\ Stt /\ DownFailed(d[j]) => d[i].by = "up"

(* Where the downlink is when the terminal item, or a failure, is          *)
(* delivered or held.                                                      *)
Closing(d, dn, p) ==
    /\ Eleven =>
         /\ Without(d, "final") \/ dn.pc \in {"close", "ended"}
         /\ dn.hold = <<>> \/ Len(dn.hold) = 1
         /\ Without(dn.hold, "final") \/ dn.then = "close"
    /\ Gemini =>
         /\ Without(d, "done") \/ dn.pc = "ended"
         /\ \/ Without(dn.hold, "done")
            \/ Len(dn.hold) = 1 /\ dn.then = "ended"
    /\ Stt =>
         /\ dn.pc = "read" => AllUp(d)
         /\ dn.hold = <<>> \/ dn.then # "read"
         /\ \/ Without(dn.hold, "err")
            \/ dn.hold = <<DownlinkError>> /\ AllUp(d)
         /\ Without(p, "err")

LineLast == ClosesLast(Delivered) /\ (~gone => Closing(Delivered, down, produced))

LineInv == LineTypes /\ LineShape /\ LineOrder /\ LineWhole /\ LineLast

(* An item's position, and the items there are.                            *)
LEMMA ItemFacts ==
    /\ \A x \in AnyItem : x.n \in Nat
    /\ UplinkError \in AnyItem /\ UplinkError.n = 0 /\ UplinkError.kind = "err"
    /\ UplinkError.by = "up"
    /\ DownlinkError \in AnyItem /\ DownlinkError.n = 0 /\ DownlinkError.kind = "err"
    /\ DownlinkError.by = "down"
BY DEF AnyItem, UplinkError, DownlinkError, Item

LEMMA ItemIs ==
    ASSUME NEW kind \in {"data", "final", "err", "done"}, NEW n \in Nat
    PROVE  /\ Item(kind, n) \in AnyItem /\ Item(kind, n).n = n
           /\ Item(kind, n).kind = kind /\ Item(kind, n).by = "down"
BY DEF AnyItem, Item

(* The elements of a sequence with one more, and of one without its head.  *)
LEMMA Appended ==
    ASSUME NEW S, NEW s \in Seq(S), NEW x \in S
    PROVE  /\ Append(s, x) \in Seq(S)
           /\ DOMAIN Append(s, x) = DOMAIN s \cup {Len(s) + 1}
           /\ \A i \in DOMAIN s : Append(s, x)[i] = s[i] /\ i < Len(s) + 1 /\ i \in Nat
           /\ Append(s, x)[Len(s) + 1] = x /\ Len(s) \in Nat
OBVIOUS

LEMMA Beheaded ==
    ASSUME NEW S, NEW s \in Seq(S), s # <<>>
    PROVE  /\ Tail(s) \in Seq(S) /\ Head(s) \in S
           /\ 1 \in DOMAIN s /\ Head(s) = s[1]
           /\ \A i \in DOMAIN Tail(s) : i + 1 \in DOMAIN s /\ Tail(s)[i] = s[i + 1] /\ i \in Nat
           /\ \A i \in DOMAIN s : i = 1 \/ (i - 1 \in DOMAIN Tail(s) /\ s[i] = Tail(s)[i - 1])
           /\ \A i \in DOMAIN Tail(s) : 1 < i + 1
           /\ DOMAIN s \subseteq Nat
<1>1. /\ Tail(s) \in Seq(S) /\ Head(s) \in S /\ Head(s) = s[1]
      /\ Len(s) \in Nat /\ Len(s) > 0 /\ DOMAIN s = 1..Len(s)
      /\ DOMAIN Tail(s) = 1..(Len(s) - 1)
      /\ \A i \in 1..(Len(s) - 1) : Tail(s)[i] = s[i + 1]
  OBVIOUS
<1>2. \A i \in DOMAIN Tail(s) :
         i + 1 \in DOMAIN s /\ Tail(s)[i] = s[i + 1] /\ i \in Nat /\ 1 < i + 1
  BY <1>1
<1>3. \A i \in DOMAIN s : i = 1 \/ (i - 1 \in DOMAIN Tail(s) /\ s[i] = Tail(s)[i - 1])
  <2> TAKE i \in DOMAIN s
  <2>1. i = 1 \/ (i - 1 \in 1..(Len(s) - 1) /\ (i - 1) + 1 = i)
    BY <1>1
  <2> QED BY <1>1, <2>1
<1> QED BY <1>1, <1>2, <1>3

-----------------------------------------------------------------------------
(* Frames that arrive later change nothing of the order, ...               *)
LEMMA LineGrows ==
    ASSUME NEW S, NEW d \in Seq(AnyItem), NEW h \in Seq(AnyItem), NEW p \in Seq(AnyItem),
           NEW f \in Seq(S), NEW r \in 0..Len(f), NEW x \in S,
           Line(d, h, p, f, r)
    PROVE  Line(d, h, p, Append(f, x), r)
<1>1. \A n \in 1..r : Append(f, x)[n] = f[n]
  OBVIOUS
<1>2. ASSUME NEW a \in AnyItem, NEW b \in AnyItem, a.n <= r, Follows(a, b, f)
      PROVE  Follows(a, b, Append(f, x))
  <2>1. a.n \in Nat
    BY ItemFacts
  <2>2. a.n > 0 => a.n \in 1..r
    BY <1>2, <2>1
  <2>3. a.n > 0 => Append(f, x)[a.n] = f[a.n]
    BY <1>1, <2>2
  <2> QED BY <1>2, <2>3 DEF Follows
<1>3. /\ \A i \in DOMAIN d : d[i] \in AnyItem /\ d[i].n <= r
      /\ \A i \in DOMAIN h : h[i] \in AnyItem /\ h[i].n <= r
      /\ \A i \in DOMAIN p : p[i] \in AnyItem /\ p[i].n <= r
  BY DEF Line, Upto
<1>4. Chain(d, Append(f, x)) /\ Chain(h, Append(f, x)) /\ Chain(p, Append(f, x))
  BY <1>2, <1>3 DEF Line, Chain
<1>5. Before(d, h, Append(f, x)) /\ Before(d, p, Append(f, x)) /\ Before(h, p, Append(f, x))
  BY <1>2, <1>3 DEF Line, Before
<1> QED BY <1>4, <1>5 DEF Line

(* ... an item that stands for no frame fits everywhere, ...               *)
LEMMA LineReports ==
    ASSUME NEW d \in Seq(AnyItem), NEW h \in Seq(AnyItem), NEW p \in Seq(AnyItem),
           NEW f, NEW r \in Nat, NEW x \in AnyItem, x.n = 0, Line(d, h, p, f, r)
    PROVE  Line(Append(d, x), h, p, f, r)
<1> DEFINE e == Append(d, x)
<1>1. /\ DOMAIN e = DOMAIN d \cup {Len(d) + 1} /\ e[Len(d) + 1] = x
      /\ \A i \in DOMAIN d : e[i] = d[i]
  BY Appended
<1> HIDE DEF e
<1>2. \A a : Follows(a, x, f) /\ Follows(x, a, f)
  BY DEF Follows
<1>3. \A i \in DOMAIN e : (i \in DOMAIN d /\ e[i] = d[i]) \/ e[i] = x
  BY <1>1
<1>4. Chain(e, f)
  BY <1>2, <1>3 DEF Line, Chain
<1>5. Before(e, h, f) /\ Before(e, p, f)
  BY <1>2, <1>3 DEF Line, Before
<1>6. Upto(e, r)
  BY <1>3 DEF Line, Upto
<1> QED BY <1>4, <1>5, <1>6 DEF Line, e

(* ... the next of the held ones goes behind the delivered ones, ...       *)
LEMMA LineSends ==
    ASSUME NEW d \in Seq(AnyItem), NEW h \in Seq(AnyItem), NEW p \in Seq(AnyItem),
           NEW f, NEW r \in Nat, h # <<>>, Line(d, h, p, f, r)
    PROVE  Line(Append(d, Head(h)), Tail(h), p, f, r) /\ Line(d, Tail(h), p, f, r)
<1> DEFINE e == Append(d, Head(h))
           t == Tail(h)
<1>1. /\ 1 \in DOMAIN h /\ Head(h) = h[1] /\ Head(h) \in AnyItem
      /\ \A i \in DOMAIN t : i + 1 \in DOMAIN h /\ t[i] = h[i + 1] /\ i \in Nat
      /\ \A i \in DOMAIN t : 1 < i + 1
  BY Beheaded
<1>2. /\ DOMAIN e = DOMAIN d \cup {Len(d) + 1} /\ e[Len(d) + 1] = h[1]
      /\ Len(d) \in Nat
      /\ \A i \in DOMAIN d : e[i] = d[i] /\ i < Len(d) + 1 /\ i \in Nat
  BY <1>1, Appended
<1> HIDE DEF e, t
<1>3. \A i \in DOMAIN e : (i \in DOMAIN d /\ e[i] = d[i]) \/ (i = Len(d) + 1 /\ e[i] = h[1])
  BY <1>2
<1>4. Chain(e, f)
  <2> SUFFICES ASSUME NEW i \in DOMAIN e, NEW j \in DOMAIN e, i < j
               PROVE  Follows(e[i], e[j], f)
    BY DEF Chain
  <2>1. i \in DOMAIN d /\ e[i] = d[i]
    BY <1>2, <1>3
  <2>2. CASE j \in DOMAIN d /\ e[j] = d[j]
    BY <2>1, <2>2 DEF Line, Chain
  <2>3. CASE e[j] = h[1]
    BY <1>1, <2>1, <2>3 DEF Line, Before
  <2> QED BY <1>3, <2>2, <2>3
<1>5. Chain(t, f)
  <2> SUFFICES ASSUME NEW i \in DOMAIN t, NEW j \in DOMAIN t, i < j
               PROVE  Follows(t[i], t[j], f)
    BY DEF Chain
  <2>1. i + 1 < j + 1 /\ t[i] = h[i + 1] /\ t[j] = h[j + 1]
    BY <1>1
  <2> QED BY <1>1, <2>1 DEF Line, Chain
<1>6. Before(d, t, f) /\ Before(t, p, f)
  BY <1>1 DEF Line, Before
<1>7. Before(e, t, f)
  <2> SUFFICES ASSUME NEW i \in DOMAIN e, NEW j \in DOMAIN t
               PROVE  Follows(e[i], t[j], f)
    BY DEF Before
  <2>1. CASE i \in DOMAIN d /\ e[i] = d[i]
    BY <1>6, <2>1 DEF Before
  <2>2. CASE e[i] = h[1]
    <3>1. 1 < j + 1
      BY <1>1
    <3> QED BY <1>1, <2>2, <3>1 DEF Line, Chain
  <2> QED BY <1>3, <2>1, <2>2
<1>8. Before(e, p, f)
  BY <1>1, <1>3 DEF Line, Before
<1>9. Upto(e, r) /\ Upto(t, r)
  BY <1>1, <1>3 DEF Line, Upto
<1>10. Line(e, t, p, f, r) /\ Line(d, t, p, f, r)
  BY <1>4, <1>5, <1>6, <1>7, <1>8, <1>9 DEF Line
<1> QED BY <1>10 DEF e, t

(* ... and what is dropped leaves the rest in order.                       *)
LEMMA LineDrops ==
    ASSUME NEW d \in Seq(AnyItem), NEW h \in Seq(AnyItem), NEW p \in Seq(AnyItem),
           NEW e \in Seq(AnyItem), NEW f, NEW r, Line(d, h, p, f, r),
           DOMAIN e \subseteq DOMAIN d, \A i \in DOMAIN e : e[i] = d[i]
    PROVE  Line(e, h, p, f, r) /\ Line(d, <<>>, p, f, r) /\ Line(d, <<>>, <<>>, f, r)
<1>1. Chain(e, f) /\ Before(e, h, f) /\ Before(e, p, f) /\ Upto(e, r)
  BY DEF Line, Chain, Before, Upto
<1>2. /\ Chain(<<>>, f) /\ Before(d, <<>>, f) /\ Before(<<>>, p, f) /\ Upto(<<>>, r)
      /\ Before(<<>>, <<>>, f)
  BY DEF Chain, Before, Upto
<1> QED BY <1>1, <1>2 DEF Line

LEMMA UptoMore ==
    ASSUME NEW s \in Seq(AnyItem), NEW r \in Nat, Upto(s, r)
    PROVE  Upto(s, r + 1)
<1>1. \A i \in DOMAIN s : s[i].n \in Nat /\ s[i].n <= r
  BY ItemFacts DEF Upto
<1>2. \A m \in Nat : m <= r => m <= r + 1
  OBVIOUS
<1> QED BY <1>1, <1>2 DEF Upto

(* Items of the next frame, held or collected, go behind all.              *)
LEMMA LineReads ==
    ASSUME NEW d \in Seq(AnyItem), NEW p \in Seq(AnyItem),
           NEW h \in Seq(AnyItem), NEW f, NEW r \in Nat, Line(d, <<>>, p, f, r),
           p = <<>> \/ Upto(h, 0), Chain(h, f),
           \A i \in DOMAIN h : h[i].n = 0 \/ h[i].n = r + 1
    PROVE  Line(d, h, p, f, r + 1)
<1>1. /\ \A i \in DOMAIN d : d[i].n \in Nat /\ d[i].n <= r
      /\ \A i \in DOMAIN p : p[i].n \in Nat /\ p[i].n <= r
      /\ \A i \in DOMAIN h : h[i].n \in Nat
  BY ItemFacts DEF Line, Upto
<1>2. Before(d, h, f)
  <2> SUFFICES ASSUME NEW i \in DOMAIN d, NEW j \in DOMAIN h, h[j].n > 0
               PROVE  d[i].n < h[j].n
    BY DEF Before, Follows
  <2>1. h[j].n = r + 1 /\ d[i].n \in Nat /\ d[i].n <= r
    BY <1>1
  <2> QED BY <2>1
<1>3. Before(h, p, f)
  <2>1. CASE p = <<>>
    BY <2>1 DEF Before
  <2>2. CASE Upto(h, 0)
    BY <1>1, <2>2 DEF Before, Follows, Upto
  <2> QED BY <2>1, <2>2
<1>4. Upto(d, r + 1) /\ Upto(p, r + 1)
  BY UptoMore DEF Line
<1>5. Upto(h, r + 1)
  <2> SUFFICES ASSUME NEW i \in DOMAIN h PROVE h[i].n <= r + 1
    BY DEF Upto
  <2>1. h[i].n = 0 \/ h[i].n = r + 1
    OBVIOUS
  <2> QED BY <2>1
<1> QED BY <1>2, <1>3, <1>4, <1>5 DEF Line

LEMMA LineCollects ==
    ASSUME NEW d \in Seq(AnyItem), NEW p \in Seq(AnyItem), NEW h \in Seq(AnyItem),
           NEW f, NEW r \in Nat, Line(d, h, p, f, r), Upto(h, 0),
           NEW x \in AnyItem, x.n = r + 1
    PROVE  Line(d, h, Append(p, x), f, r + 1)
<1> DEFINE q == Append(p, x)
<1>1. /\ DOMAIN q = DOMAIN p \cup {Len(p) + 1} /\ q[Len(p) + 1] = x
      /\ Len(p) \in Nat
      /\ \A i \in DOMAIN p : q[i] = p[i] /\ i < Len(p) + 1 /\ i \in Nat
  BY Appended
<1> HIDE DEF q
<1>2. \A i \in DOMAIN q : (i \in DOMAIN p /\ q[i] = p[i]) \/ (i = Len(p) + 1 /\ q[i] = x)
  BY <1>1
<1>3. /\ \A i \in DOMAIN d : d[i].n \in Nat /\ d[i].n <= r
      /\ \A i \in DOMAIN p : p[i].n \in Nat /\ p[i].n <= r
      /\ \A i \in DOMAIN h : h[i].n = 0
  BY ItemFacts DEF Line, Upto
<1>4. Chain(q, f)
  <2> SUFFICES ASSUME NEW i \in DOMAIN q, NEW j \in DOMAIN q, i < j
               PROVE  Follows(q[i], q[j], f)
    BY DEF Chain
  <2>1. i \in DOMAIN p /\ q[i] = p[i]
    BY <1>1, <1>2
  <2>2. CASE j \in DOMAIN p /\ q[j] = p[j]
    BY <2>1, <2>2 DEF Line, Chain
  <2>3. CASE q[j] = x
    BY <1>3, <2>1, <2>3 DEF Follows
  <2> QED BY <1>2, <2>2, <2>3
<1>5. Before(d, q, f)
  <2> SUFFICES ASSUME NEW i \in DOMAIN d, NEW j \in DOMAIN q PROVE Follows(d[i], q[j], f)
    BY DEF Before
  <2>1. CASE j \in DOMAIN p /\ q[j] = p[j]
    BY <2>1 DEF Line, Before
  <2>2. CASE q[j] = x
    BY <1>3, <2>2 DEF Follows
  <2> QED BY <1>2, <2>1, <2>2
<1>6. Before(h, q, f)
  <2>1. \A i \in DOMAIN h : ~(h[i].n > 0)
    BY <1>3
  <2> QED BY <2>1 DEF Before, Follows
<1>7. Upto(d, r + 1) /\ Upto(h, r + 1) /\ Upto(q, r + 1)
  <2>1. Upto(d, r + 1) /\ Upto(h, r + 1) /\ Upto(p, r + 1)
    BY UptoMore DEF Line
  <2>2. x.n <= r + 1
    OBVIOUS
  <2> QED BY <1>2, <2>1, <2>2 DEF Upto
<1>8. Line(d, h, q, f, r + 1)
  BY <1>4, <1>5, <1>6, <1>7 DEF Line
<1> QED BY <1>8 DEF q

(* The flush: the chunks stay what they were, but for the last one's mark. *)
LEMMA FlushIs ==
    ASSUME NEW p \in Seq(AnyItem)
    PROVE  /\ Flush(p) \in Seq(AnyItem) /\ Flush(p) # <<>>
           /\ p = <<>> => Flush(p) = <<Item("final", 0)>>
           /\ p # <<>> =>
                /\ DOMAIN Flush(p) = DOMAIN p
                /\ \A i \in DOMAIN p :
                      /\ Flush(p)[i].n = p[i].n
                      /\ Flush(p)[i].kind \in {p[i].kind, "final"}
                      /\ i # Len(p) => Flush(p)[i] = p[i]
           /\ \E i \in DOMAIN Flush(p) : Flush(p)[i].kind = "final"
<1>1. CASE p = <<>>
  <2>0. ~\E i \in DOMAIN p : p[i].kind = "final"
    BY <1>1
  <2>1. Flush(p) = <<Item("final", 0)>>
    BY <1>1, <2>0, Zenon DEF Flush
  <2>2. Item("final", 0) \in AnyItem /\ Item("final", 0).kind = "final"
    BY ItemIs
  <2>3. /\ <<Item("final", 0)>> \in Seq(AnyItem) /\ <<Item("final", 0)>> # <<>>
        /\ 1 \in DOMAIN <<Item("final", 0)>>
        /\ <<Item("final", 0)>>[1].kind = "final"
    BY <2>2
  <2> QED BY <1>1, <2>1, <2>3
<1>2. CASE p # <<>> /\ \E i \in DOMAIN p : p[i].kind = "final"
  <2>1. Flush(p) = p
    BY <1>2, Zenon DEF Flush
  <2> QED BY <1>2, <2>1
<1>3. CASE p # <<>> /\ ~\E i \in DOMAIN p : p[i].kind = "final"
  <2>1. Flush(p) = [p EXCEPT ![Len(p)].kind = "final"]
    BY <1>3, Zenon DEF Flush
  <2>2. Len(p) \in DOMAIN p /\ DOMAIN p = 1..Len(p) /\ Len(p) \in Nat
    BY <1>3
  <2> DEFINE q == [p EXCEPT ![Len(p)].kind = "final"]
             last == [p[Len(p)] EXCEPT !.kind = "final"]
  <2>3. /\ DOMAIN q = DOMAIN p /\ q[Len(p)] = last
        /\ \A i \in DOMAIN p : i # Len(p) => q[i] = p[i]
    BY <2>2
  <2>4. p[Len(p)] \in AnyItem
    BY <2>2
  <2>5. last \in AnyItem /\ last.n = p[Len(p)].n /\ last.kind = "final"
    BY <2>4 DEF AnyItem
  <2> HIDE DEF last
  <2>6. \A i \in DOMAIN p : q[i] \in AnyItem
    BY <2>3, <2>5
  <2>7. q \in Seq(AnyItem) /\ q # <<>>
    <3>1. q \in [1..Len(p) -> AnyItem]
      BY <2>2, <2>3, <2>6
    <3> HIDE DEF q
    <3> QED BY <2>2, <2>3, <3>1
  <2> HIDE DEF q
  <2>8. Flush(p) = q
    BY <2>1 DEF q
  <2> QED BY <1>3, <2>2, <2>3, <2>5, <2>7, <2>8
<1> QED BY <1>1, <1>2, <1>3

LEMMA LineFlushes ==
    ASSUME NEW d \in Seq(AnyItem), NEW p \in Seq(AnyItem), NEW f, NEW r \in Nat,
           Line(d, <<>>, p, f, r)
    PROVE  Line(d, Flush(p), <<>>, f, r)
<1> DEFINE q == Flush(p)
<1>0. /\ q \in Seq(AnyItem)
      /\ p = <<>> => q = <<Item("final", 0)>>
      /\ p # <<>> =>
           /\ DOMAIN q = DOMAIN p
           /\ \A i \in DOMAIN p :
                 /\ q[i].n = p[i].n
                 /\ q[i].kind \in {p[i].kind, "final"}
                 /\ i # Len(p) => q[i] = p[i]
  BY FlushIs
<1> HIDE DEF q
<1>1. Chain(<<>>, f) /\ Before(d, <<>>, f) /\ Before(q, <<>>, f) /\ Upto(<<>>, r)
  BY DEF Chain, Before, Upto
<1>2. CASE p = <<>>
  <2>1. DOMAIN q = {1} /\ q[1].n = 0
    BY <1>0, <1>2, ItemIs
  <2>2. Chain(q, f) /\ Before(d, q, f) /\ Upto(q, r)
    BY <2>1 DEF Chain, Before, Upto, Follows
  <2> QED BY <1>1, <2>2 DEF Line, q
<1>3. CASE p # <<>>
  <2>0. Upto(q, r)
    BY <1>0, <1>3 DEF Line, Upto
  <2>1. Before(d, q, f)
    <3> SUFFICES ASSUME NEW i \in DOMAIN d, NEW j \in DOMAIN q PROVE Follows(d[i], q[j], f)
      BY DEF Before
    <3>1. Follows(d[i], p[j], f)
      BY <1>0, <1>3 DEF Line, Before
    <3>2. q[j].n = p[j].n /\ q[j].kind \in {p[j].kind, "final"}
      BY <1>0, <1>3
    <3> QED BY <3>1, <3>2 DEF Follows
  <2>2. Chain(q, f)
    <3> SUFFICES ASSUME NEW i \in DOMAIN q, NEW j \in DOMAIN q, i < j
                 PROVE  Follows(q[i], q[j], f)
      BY DEF Chain
    <3>1. i \in DOMAIN p /\ j \in DOMAIN p /\ i # Len(p)
      BY <1>0, <1>3
    <3>2. Follows(p[i], p[j], f)
      BY <3>1 DEF Line, Chain
    <3>3. q[i] = p[i] /\ q[j].n = p[j].n /\ q[j].kind \in {p[j].kind, "final"}
      BY <1>0, <1>3, <3>1
    <3> QED BY <3>2, <3>3 DEF Follows
  <2> QED BY <1>1, <2>0, <2>1, <2>2 DEF Line, q
<1> QED BY <1>2, <1>3

-----------------------------------------------------------------------------
(***************************************************************************)
(* The frames that items were made from, place by place.                   *)
(***************************************************************************)
LEMMA NumsOf ==
    ASSUME NEW s \in Seq(AnyItem), NEW x \in AnyItem
    PROVE  /\ Nums(Append(s, x)) = Nums(s) \cup Nums(<<x>>)
           /\ Nums(<<>>) = {}
           /\ x.n = 0 => Nums(<<x>>) = {}
           /\ x.n # 0 => Nums(<<x>>) = {x.n}
           /\ s # <<>> => Nums(s) = Nums(<<Head(s)>>) \cup Nums(Tail(s))
<1>1. DOMAIN <<x>> = {1} /\ <<x>>[1] = x
  OBVIOUS
<1>2. Nums(<<x>>) = {x.n} \ {0}
  BY <1>1 DEF Nums
<1>3. Nums(<<>>) = {}
  BY DEF Nums
<1>4. Nums(Append(s, x)) = Nums(s) \cup Nums(<<x>>)
  <2> DEFINE e == Append(s, x)
  <2>1. /\ DOMAIN e = DOMAIN s \cup {Len(s) + 1} /\ e[Len(s) + 1] = x
        /\ \A i \in DOMAIN s : e[i] = s[i]
    BY Appended
  <2> HIDE DEF e
  <2>2. {e[i].n : i \in DOMAIN e} = {s[i].n : i \in DOMAIN s} \cup {x.n}
    BY <2>1
  <2>3. Nums(e) = Nums(s) \cup ({x.n} \ {0})
    BY <2>2 DEF Nums
  <2> QED BY <1>2, <2>3 DEF e
<1>5. ASSUME s # <<>> PROVE Nums(s) = Nums(<<Head(s)>>) \cup Nums(Tail(s))
  <2> DEFINE t == Tail(s)
  <2>1. /\ 1 \in DOMAIN s /\ Head(s) = s[1]
        /\ \A i \in DOMAIN t : i + 1 \in DOMAIN s /\ t[i] = s[i + 1]
        /\ \A i \in DOMAIN s : i = 1 \/ (i - 1 \in DOMAIN t /\ s[i] = t[i - 1])
    BY <1>5, Beheaded
  <2>2. Nums(<<s[1]>>) = {s[1].n} \ {0}
    <3>1. DOMAIN <<s[1]>> = {1} /\ <<s[1]>>[1] = s[1]
      OBVIOUS
    <3> QED BY <3>1 DEF Nums
  <2> HIDE DEF t
  <2>3. {s[i].n : i \in DOMAIN s} = {s[1].n} \cup {t[i].n : i \in DOMAIN t}
    <3>1. ASSUME NEW m \in {s[i].n : i \in DOMAIN s}
          PROVE  m \in {s[1].n} \cup {t[i].n : i \in DOMAIN t}
      BY <2>1
    <3>2. ASSUME NEW m \in {s[1].n} \cup {t[i].n : i \in DOMAIN t}
          PROVE  m \in {s[i].n : i \in DOMAIN s}
      BY <2>1
    <3> QED BY <3>1, <3>2
  <2>4. Nums(s) = ({s[1].n} \ {0}) \cup Nums(t)
    BY <2>3 DEF Nums
  <2> QED BY <2>1, <2>2, <2>4 DEF t
<1>6. (x.n = 0 => Nums(<<x>>) = {}) /\ (x.n # 0 => Nums(<<x>>) = {x.n})
  BY <1>2
<1> QED BY <1>3, <1>4, <1>5, <1>6

(* The flush loses none.                                                   *)
LEMMA NumsFlush ==
    ASSUME NEW p \in Seq(AnyItem)
    PROVE  Nums(Flush(p)) = Nums(p)
<1> DEFINE q == Flush(p)
<1>1. CASE p = <<>>
  <2>1. q = <<Item("final", 0)>>
    BY <1>1, FlushIs
  <2>2. Item("final", 0) \in AnyItem /\ Item("final", 0).n = 0
    BY ItemIs
  <2> HIDE DEF q
  <2>3. Nums(q) = {}
    BY <2>1, <2>2, NumsOf
  <2>4. Nums(p) = {}
    BY <1>1 DEF Nums
  <2> QED BY <2>3, <2>4 DEF q
<1>2. CASE p # <<>>
  <2>1. DOMAIN q = DOMAIN p /\ \A i \in DOMAIN p : q[i].n = p[i].n
    BY <1>2, FlushIs
  <2> HIDE DEF q
  <2>2. Nums(q) = Nums(p)
    BY <2>1 DEF Nums
  <2> QED BY <2>2 DEF q
<1> QED BY <1>1, <1>2

(* The kinds of frames of each provider.                                   *)
LEMMA FramesAre ==
    ASSUME provider \in Providers
    PROVE  /\ provider = "deepgram" => Frames \subseteq
                {"garbage", "other", "final", "segment", "early_final", "interim"}
           /\ provider = "assemblyai" => Frames \subseteq
                {"garbage", "other", "final", "interim"}
           /\ Eleven => Frames \subseteq {"garbage", "other", "final", "audio"}
           /\ Gemini => Frames \subseteq
                {"error", "setup", "audio", "audio_final", "final", "other"}
           /\ OpenAi => Frames \subseteq {"audio", "final", "done", "error", "other"}
<1>1. ASSUME provider = "deepgram"
      PROVE  Frames \subseteq
                {"garbage", "other", "final", "segment", "early_final", "interim"}
  <2>1. Frames = DeepgramFrames
    BY <1>1 DEF Frames, Eleven, Gemini, OpenAi
  <2>2. \A e : DeepgramFrame(e) \in
                {"garbage", "other", "final", "segment", "early_final", "interim"}
    BY DEF DeepgramFrame
  <2> QED BY <2>1, <2>2 DEF DeepgramFrames
<1>2. ASSUME provider = "assemblyai"
      PROVE  Frames \subseteq {"garbage", "other", "final", "interim"}
  <2>1. Frames = AssemblyAiFrames
    BY <1>2 DEF Frames, Eleven, Gemini, OpenAi
  <2>2. \A e : AssemblyAiFrame(e) \in {"garbage", "other", "final", "interim"}
    BY DEF AssemblyAiFrame
  <2> QED BY <2>1, <2>2 DEF AssemblyAiFrames
<1>3. ASSUME Eleven PROVE Frames \subseteq {"garbage", "other", "final", "audio"}
  <2>1. Frames = ElevenFrames
    BY <1>3 DEF Frames, Eleven, Gemini, OpenAi
  <2>2. \A e : ElevenFrame(e) \in {"garbage", "other", "final", "audio"}
    BY DEF ElevenFrame
  <2> QED BY <2>1, <2>2 DEF ElevenFrames
<1>4. ASSUME Gemini
      PROVE  Frames \subseteq {"error", "setup", "audio", "audio_final", "final", "other"}
  <2>1. Frames = GeminiFrames
    BY <1>4 DEF Frames, Eleven, Gemini, OpenAi
  <2>2. \A e : GeminiFrame(e) \in
                {"error", "setup", "audio", "audio_final", "final", "other"}
    BY DEF GeminiFrame
  <2> QED BY <2>1, <2>2 DEF GeminiFrames
<1>5. ASSUME OpenAi PROVE Frames \subseteq {"audio", "final", "done", "error", "other"}
  <2>1. Frames = OpenAiFrames
    BY <1>5 DEF Frames, Eleven, Gemini, OpenAi
  <2>2. \A e : OpenAiFrame(e) \in {"audio", "final", "done", "error", "other"}
    BY DEF OpenAiFrame
  <2> QED BY <2>1, <2>2 DEF OpenAiFrames
<1> QED BY <1>1, <1>2, <1>3, <1>4, <1>5

-----------------------------------------------------------------------------
(***************************************************************************)
(* What a frame yields: items to hold, a chunk to collect, or neither; the *)
(* items of a frame that is worth one bear its number, and no other does.  *)
(***************************************************************************)
Yield(items, c, n, f, worth) ==
    /\ items \in Seq(AnyItem) /\ Chain(items, f)
    /\ \A i \in DOMAIN items : items[i].n = 0 \/ items[i].n = n
    /\ \/ c = <<>>
       \/ items = <<>> /\ \E x \in AnyItem : x.n = n /\ x.kind # "err" /\ c = <<x>>
    /\ Nums(items) \cup Nums(c) = IF worth THEN {n} ELSE {}

LEMMA YieldNone ==
    ASSUME NEW n, NEW f, NEW worth \in BOOLEAN, ~worth
    PROVE  Yield(<<>>, <<>>, n, f, worth)
<1>1. <<>> \in Seq(AnyItem) /\ Chain(<<>>, f)
  BY DEF Chain
<1>2. Nums(<<>>) = {}
  BY DEF Nums
<1> QED BY <1>1, <1>2 DEF Yield

LEMMA YieldOne ==
    ASSUME NEW n, NEW f, NEW worth \in BOOLEAN, NEW x \in AnyItem,
           (x.n = 0 /\ ~worth) \/ (x.n = n /\ n # 0 /\ worth)
    PROVE  Yield(<<x>>, <<>>, n, f, worth)
<1>1. <<x>> \in Seq(AnyItem) /\ DOMAIN <<x>> = {1} /\ <<x>>[1] = x
  OBVIOUS
<1>2. Chain(<<x>>, f)
  BY <1>1 DEF Chain
<1>3. Nums(<<>>) = {} /\ Nums(<<x>>) = {x.n} \ {0}
  BY <1>1 DEF Nums
<1>4. Nums(<<x>>) \cup Nums(<<>>) = IF worth THEN {n} ELSE {}
  BY <1>3
<1> QED BY <1>1, <1>2, <1>4 DEF Yield

LEMMA YieldTwo ==
    ASSUME NEW n \in Nat, NEW f, NEW worth \in BOOLEAN, worth, n # 0, f[n] = "audio_final"
    PROVE  Yield(<<Item("data", n), Item("final", n)>>, <<>>, n, f, worth)
<1> DEFINE x == Item("data", n)
           y == Item("final", n)
           s == <<x, y>>
<1>1. /\ x \in AnyItem /\ x.n = n /\ x.kind = "data"
      /\ y \in AnyItem /\ y.n = n /\ y.kind = "final"
  BY ItemIs
<1> HIDE DEF x, y
<1>2. s \in Seq(AnyItem) /\ DOMAIN s = {1, 2} /\ s[1] = x /\ s[2] = y
  <2>1. s = Append(<<x>>, y)
    OBVIOUS
  <2>2. <<x>> \in Seq(AnyItem)
    BY <1>1
  <2>3. s \in Seq(AnyItem)
    BY <1>1, <2>1, <2>2, AppendProperties
  <2> QED BY <2>3
<1> HIDE DEF s
<1>3. Follows(x, y, f)
  BY <1>1 DEF Follows
<1>4. Chain(s, f)
  BY <1>2, <1>3 DEF Chain
<1>5. Nums(s) = {n} /\ Nums(<<>>) = {}
  <2>1. {s[i].n : i \in DOMAIN s} = {n}
    BY <1>1, <1>2
  <2> QED BY <2>1 DEF Nums
<1>6. Nums(s) \cup Nums(<<>>) = IF worth THEN {n} ELSE {}
  BY <1>5
<1>7. \A i \in DOMAIN s : s[i].n = 0 \/ s[i].n = n
  BY <1>1, <1>2
<1>8. Yield(s, <<>>, n, f, worth)
  BY <1>2, <1>4, <1>6, <1>7 DEF Yield
<1> QED BY <1>8 DEF s, x, y

LEMMA YieldChunk ==
    ASSUME NEW n, NEW f, NEW worth \in BOOLEAN, worth, n # 0,
           NEW x \in AnyItem, x.n = n, x.kind # "err"
    PROVE  Yield(<<>>, <<x>>, n, f, worth)
<1>1. <<>> \in Seq(AnyItem) /\ Chain(<<>>, f) /\ Upto(<<>>, 0)
  BY DEF Chain, Upto
<1>2. DOMAIN <<x>> = {1} /\ <<x>>[1] = x
  OBVIOUS
<1>3. Nums(<<>>) = {} /\ Nums(<<x>>) = {x.n} \ {0}
  BY <1>2 DEF Nums
<1>4. Nums(<<>>) \cup Nums(<<x>>) = IF worth THEN {n} ELSE {}
  BY <1>3
<1> QED BY <1>1, <1>4 DEF Yield

(* What the downlink does with a frame, as the rest of the proof needs it. *)
Reads(items, label, c) ==
    /\ down' = Sending(items, label) /\ produced' = produced \o c
    /\ Yield(items, c, read + 1, served, Worth(read + 1))
    /\ Stt => items = <<>> \/ (items = <<DownlinkError>> /\ label # "read")
    /\ Stt /\ label = "ended" => served[read + 1] \in {"close_other", "recv_error"}
    /\ ~Stt => c = <<>>
    /\ Eleven => items = <<>> \/ Len(items) = 1
    /\ Eleven => Without(items, "final") \/ label = "close"
    /\ Gemini => Without(items, "done")

LEMMA WorthIs ==
    ASSUME NEW n
    PROVE  Worth(n) \in BOOLEAN
BY DEF Worth

LEMMA WithoutIs ==
    /\ \A kind : Without(<<>>, kind)
    /\ \A x, kind : x.kind # kind => Without(<<x>>, kind)
    /\ \A x, y, kind : x.kind # kind /\ y.kind # kind => Without(<<x, y>>, kind)
<1>1. \A x, y : /\ DOMAIN <<x>> = {1} /\ <<x>>[1] = x
                /\ DOMAIN <<x, y>> = {1, 2} /\ <<x, y>>[1] = x /\ <<x, y>>[2] = y
  OBVIOUS
<1> QED BY <1>1 DEF Without

(* The transcribers.                                                       *)
LEMMA SttReadYields ==
    ASSUME provider \in Providers, Stt, DownlinkRead,
           served \in Seq(Frames \cup Ends), read \in 0..Len(served)
    PROVE  \E items, label, c : Reads(items, label, c)
<1> DEFINE n == read + 1
           g == served[n]
           W == Worth(n)
<1>0. n \in Nat /\ n # 0 /\ n \in DOMAIN served
  BY DEF DownlinkRead
<1>1. down' = SttReads(g) /\ produced' = produced \o Collects(g, n)
  <2>1. /\ down' = CASE Stt -> SttReads(g)
                     [] Eleven -> ElevenReads(g, n)
                     [] Gemini -> GeminiReads(g, n)
                     [] OpenAi -> OpenAiReads(g, n)
        /\ produced' = produced \o Collects(g, n)
    BY DEF DownlinkRead
  <2> HIDE DEF g, n
  <2> QED BY <2>1, OneRunner, Zenon
<1>2. /\ g \in {"garbage", "other", "final", "segment", "early_final", "interim"} \cup Ends
      /\ provider = "assemblyai" => g \notin {"segment", "early_final"}
  <2>1. g \in Frames \cup Ends
    BY <1>0
  <2> HIDE DEF g
  <2> QED BY <2>1, FramesAre DEF Stt, Ends
<1>3. ~Eleven /\ ~Gemini /\ ~OpenAi
  BY OneRunner
<1>4. W \in BOOLEAN
  BY WorthIs
<1>5. W <=> \/ g \in {"segment", "final"}
            \/ g \in {"interim", "early_final"} /\ emit_interim
  BY <1>2, <1>3 DEF Worth, Ends
<1>6. /\ Item("final", n) \in AnyItem /\ Item("final", n).n = n
      /\ Item("final", n).kind = "final"
      /\ Item("data", n) \in AnyItem /\ Item("data", n).n = n
      /\ Item("data", n).kind = "data"
  BY <1>0, ItemIs
<1>7. ASSUME NEW x \in AnyItem, x.n = n, x.kind # "err", W,
             Collects(g, n) = <<x>>, SttReads(g) = At("read")
      PROVE  Reads(<<>>, "read", <<x>>)
  <2>1. Yield(<<>>, <<x>>, n, served, W)
    BY <1>0, <1>4, <1>7, YieldChunk
  <2>2. down' = Sending(<<>>, "read") /\ produced' = produced \o <<x>>
    BY <1>1, <1>7 DEF At
  <2> QED BY <1>3, <2>1, <2>2 DEF Reads
<1>8. ASSUME ~W, Collects(g, n) = <<>>, NEW label, SttReads(g) = At(label),
             label # "ended"
      PROVE  Reads(<<>>, label, <<>>)
  <2>1. Yield(<<>>, <<>>, n, served, W)
    BY <1>4, <1>8, YieldNone
  <2>2. down' = Sending(<<>>, label) /\ produced' = produced \o <<>>
    BY <1>1, <1>8 DEF At
  <2> QED BY <1>3, <1>8, <2>1, <2>2 DEF Reads
<1>9. ASSUME ~W, Collects(g, n) = <<>>, NEW label, SttReads(g) = Sending(<<DownlinkError>>, label),
             label # "read", label = "ended" => g \in {"close_other", "recv_error"}
      PROVE  Reads(<<DownlinkError>>, label, <<>>)
  <2>1. Yield(<<DownlinkError>>, <<>>, n, served, W)
    BY <1>4, <1>9, YieldOne, ItemFacts
  <2>2. down' = Sending(<<DownlinkError>>, label) /\ produced' = produced \o <<>>
    BY <1>1, <1>9
  <2> QED BY <1>3, <1>9, <2>1, <2>2 DEF Reads
<1> HIDE DEF W, g, n
<1>c. /\ ~W => Collects(g, n) = <<>>
      /\ W => Collects(g, n) = <<Item("final", n)>> \/ Collects(g, n) = <<Item("data", n)>>
  <2>1. CASE provider = "deepgram"
    <3>1. Collects(g, n) = DeepgramCollects(g, n)
      BY <2>1 DEF Collects
    <3> QED BY <1>5, <3>1 DEF DeepgramCollects
  <2>2. CASE provider = "assemblyai"
    <3>1. Collects(g, n) = AssemblyAiCollects(g, n)
      BY <2>2 DEF Collects
    <3> QED BY <1>2, <1>5, <2>2, <3>1 DEF AssemblyAiCollects
  <2> QED BY <2>1, <2>2 DEF Stt
<1>r. \/ ~W /\ SttReads(g) = At("finish")
      \/ ~W /\ SttReads(g) = Sending(<<DownlinkError>>, "finish")
      \/ /\ ~W /\ SttReads(g) = Sending(<<DownlinkError>>, "ended")
         /\ g \in {"close_other", "recv_error"}
      \/ SttReads(g) = At("read")
  BY <1>2, <1>5 DEF SttReads, Ends
<1>10. CASE ~W
  BY <1>8, <1>9, <1>c, <1>r, <1>10, Zenon
<1>11. CASE W
  BY <1>6, <1>7, <1>c, <1>r, <1>11, Zenon
<1> QED BY <1>10, <1>11

(* The other runners collect nothing.                                      *)
LEMMA OthersCollectNothing ==
    ASSUME provider \in Providers, ~Stt, DownlinkRead,
           served \in Seq(Frames \cup Ends), read \in 0..Len(served)
    PROVE  /\ read + 1 \in Nat /\ read + 1 # 0 /\ served[read + 1] \in Frames \cup Ends
           /\ produced' = produced \o <<>>
           /\ Eleven => down' = ElevenReads(served[read + 1], read + 1)
           /\ Gemini => down' = GeminiReads(served[read + 1], read + 1)
           /\ OpenAi => down' = OpenAiReads(served[read + 1], read + 1)
<1> DEFINE n == read + 1
           g == served[n]
<1>0. n \in Nat /\ n # 0 /\ n \in DOMAIN served
  BY DEF DownlinkRead
<1>1. g \in Frames \cup Ends
  BY <1>0
<1>2. /\ down' = CASE Stt -> SttReads(g)
                   [] Eleven -> ElevenReads(g, n)
                   [] Gemini -> GeminiReads(g, n)
                   [] OpenAi -> OpenAiReads(g, n)
      /\ produced' = produced \o Collects(g, n)
  BY DEF DownlinkRead
<1> HIDE DEF g, n
<1>3. Collects(g, n) = <<>>
  BY DEF Collects, Stt
<1>4. Eleven => down' = ElevenReads(g, n)
  BY <1>2, OneRunner, Zenon
<1>5. Gemini => down' = GeminiReads(g, n)
  BY <1>2, OneRunner, Zenon
<1>6. OpenAi => down' = OpenAiReads(g, n)
  BY <1>2, OneRunner, Zenon
<1> QED BY <1>0, <1>1, <1>2, <1>3, <1>4, <1>5, <1>6 DEF g, n

LEMMA ElevenReadYields ==
    ASSUME provider \in Providers, Eleven, DownlinkRead,
           served \in Seq(Frames \cup Ends), read \in 0..Len(served)
    PROVE  \E items, label, c : Reads(items, label, c)
<1> DEFINE n == read + 1
           g == served[n]
           W == Worth(n)
<1>0. ~Stt /\ ~Gemini /\ ~OpenAi
  BY OneRunner
<1>1. /\ n \in Nat /\ n # 0 /\ g \in Frames \cup Ends
      /\ produced' = produced \o <<>> /\ down' = ElevenReads(g, n)
  BY <1>0, OthersCollectNothing
<1>2. g \in {"garbage", "other", "final", "audio"} \cup Ends
  BY <1>1, FramesAre
<1>4. W \in BOOLEAN
  BY WorthIs
<1>5. W <=> g \in {"final", "audio"}
  BY <1>0, <1>2 DEF Worth, Ends
<1>6. /\ Item("final", n) \in AnyItem /\ Item("final", n).n = n
      /\ Item("data", n) \in AnyItem /\ Item("data", n).n = n
      /\ Item("data", n).kind # "final"
      /\ DownlinkError \in AnyItem /\ DownlinkError.n = 0 /\ DownlinkError.kind # "final"
  BY <1>1, ItemIs, ItemFacts
<1>7. ASSUME ~W, NEW label, down' = At(label)
      PROVE  Reads(<<>>, label, <<>>)
  <2>1. Yield(<<>>, <<>>, n, served, W)
    BY <1>4, <1>7, YieldNone
  <2>2. down' = Sending(<<>>, label)
    BY <1>7 DEF At
  <2> QED BY <1>0, <1>1, <2>1, <2>2, WithoutIs DEF Reads
<1>8. ASSUME NEW x \in AnyItem, NEW label, down' = Sending(<<x>>, label),
             (x.n = 0 /\ ~W) \/ (x.n = n /\ W), x.kind # "final" \/ label = "close"
      PROVE  Reads(<<x>>, label, <<>>)
  <2>1. Yield(<<x>>, <<>>, n, served, W)
    BY <1>1, <1>4, <1>8, YieldOne
  <2>2. Len(<<x>>) = 1
    OBVIOUS
  <2>3. Without(<<x>>, "final") \/ label = "close"
    BY <1>8, WithoutIs
  <2> QED BY <1>0, <1>1, <1>8, <2>1, <2>2, <2>3 DEF Reads
<1> HIDE DEF W, g, n
<1>r. \/ ~W /\ down' = At("finish")
      \/ ~W /\ down' = At("read")
      \/ ~W /\ down' = Sending(<<DownlinkError>>, "finish")
      \/ W /\ down' = Sending(<<Item("data", n)>>, "read")
      \/ W /\ down' = Sending(<<Item("final", n)>>, "close")
  <2>1. \/ ~W /\ ElevenReads(g, n) = At("finish")
        \/ ~W /\ ElevenReads(g, n) = At("read")
        \/ ~W /\ ElevenReads(g, n) = Sending(<<DownlinkError>>, "finish")
        \/ W /\ ElevenReads(g, n) = Sending(<<Item("data", n)>>, "read")
        \/ W /\ ElevenReads(g, n) = Sending(<<Item("final", n)>>, "close")
    BY <1>2, <1>5 DEF ElevenReads, Ends
  <2> QED BY <1>1, <2>1
<1>9. CASE ~W
  BY <1>6, <1>7, <1>8, <1>r, <1>9, Zenon
<1>10. CASE W
  BY <1>6, <1>8, <1>r, <1>10, Zenon
<1> QED BY <1>9, <1>10

LEMMA GeminiReadYields ==
    ASSUME provider \in Providers, Gemini, DownlinkRead,
           served \in Seq(Frames \cup Ends), read \in 0..Len(served),
           \E m \in 1..read : served[m] = "setup"
    PROVE  \E items, label, c : Reads(items, label, c)
<1> DEFINE n == read + 1
           g == served[n]
           W == Worth(n)
<1>0. ~Stt /\ ~Eleven /\ ~OpenAi
  BY OneRunner
<1>1. /\ n \in Nat /\ n # 0 /\ g \in Frames \cup Ends
      /\ produced' = produced \o <<>> /\ down' = GeminiReads(g, n)
  BY <1>0, OthersCollectNothing
<1>2. g \in {"error", "setup", "audio", "audio_final", "final", "other"} \cup Ends
  BY <1>1, FramesAre
<1>3. \E m \in 1..(n - 1) : served[m] = "setup"
  <2>1. n - 1 = read
    OBVIOUS
  <2> QED BY <2>1
<1>4. W \in BOOLEAN
  BY WorthIs
<1>5. W <=> g \in {"final", "audio", "audio_final"}
  BY <1>0, <1>2, <1>3 DEF Worth, Ends
<1>6. /\ Item("final", n) \in AnyItem /\ Item("final", n).n = n
      /\ Item("data", n) \in AnyItem /\ Item("data", n).n = n
      /\ Item("data", n).kind # "done" /\ Item("final", n).kind # "done"
      /\ DownlinkError \in AnyItem /\ DownlinkError.n = 0 /\ DownlinkError.kind # "done"
  BY <1>1, ItemIs, ItemFacts
<1>7. ASSUME ~W, NEW label, down' = At(label)
      PROVE  Reads(<<>>, label, <<>>)
  <2>1. Yield(<<>>, <<>>, n, served, W)
    BY <1>4, <1>7, YieldNone
  <2>2. down' = Sending(<<>>, label)
    BY <1>7 DEF At
  <2> QED BY <1>0, <1>1, <2>1, <2>2, WithoutIs DEF Reads
<1>8. ASSUME NEW x \in AnyItem, NEW label, down' = Sending(<<x>>, label),
             (x.n = 0 /\ ~W) \/ (x.n = n /\ W), x.kind # "done"
      PROVE  Reads(<<x>>, label, <<>>)
  <2>1. Yield(<<x>>, <<>>, n, served, W)
    BY <1>1, <1>4, <1>8, YieldOne
  <2>2. Without(<<x>>, "done")
    BY <1>8, WithoutIs
  <2> QED BY <1>0, <1>1, <1>8, <2>1, <2>2 DEF Reads
<1>9. ASSUME W, g = "audio_final",
             down' = Sending(<<Item("data", n), Item("final", n)>>, "read")
      PROVE  Reads(<<Item("data", n), Item("final", n)>>, "read", <<>>)
  <2>1. Yield(<<Item("data", n), Item("final", n)>>, <<>>, n, served, W)
    BY <1>1, <1>4, <1>9, YieldTwo
  <2>2. Without(<<Item("data", n), Item("final", n)>>, "done")
    BY <1>6, WithoutIs
  <2> QED BY <1>0, <1>1, <1>9, <2>1, <2>2 DEF Reads
<1> HIDE DEF W, g, n
<1>r. \/ ~W /\ down' = At("finish")
      \/ ~W /\ down' = At("read")
      \/ ~W /\ down' = Sending(<<DownlinkError>>, "finish")
      \/ W /\ down' = Sending(<<Item("data", n)>>, "read")
      \/ W /\ down' = Sending(<<Item("final", n)>>, "read")
      \/ /\ W /\ g = "audio_final"
         /\ down' = Sending(<<Item("data", n), Item("final", n)>>, "read")
  <2>1. \/ ~W /\ GeminiReads(g, n) = At("finish")
        \/ ~W /\ GeminiReads(g, n) = At("read")
        \/ ~W /\ GeminiReads(g, n) = Sending(<<DownlinkError>>, "finish")
        \/ W /\ GeminiReads(g, n) = Sending(<<Item("data", n)>>, "read")
        \/ W /\ GeminiReads(g, n) = Sending(<<Item("final", n)>>, "read")
        \/ /\ W /\ g = "audio_final"
           /\ GeminiReads(g, n) = Sending(<<Item("data", n), Item("final", n)>>, "read")
    BY <1>2, <1>5 DEF GeminiReads, Ends
  <2> QED BY <1>1, <2>1
<1>10. CASE ~W
  BY <1>6, <1>7, <1>8, <1>r, <1>10, Zenon
<1>11. CASE W
  BY <1>6, <1>8, <1>9, <1>r, <1>11, Zenon
<1> QED BY <1>10, <1>11

LEMMA OpenAiReadYields ==
    ASSUME provider \in Providers, OpenAi, DownlinkRead,
           served \in Seq(Frames \cup Ends), read \in 0..Len(served)
    PROVE  \E items, label, c : Reads(items, label, c)
<1> DEFINE n == read + 1
           g == served[n]
           W == Worth(n)
<1>0. ~Stt /\ ~Eleven /\ ~Gemini
  BY OneRunner
<1>1. /\ n \in Nat /\ n # 0 /\ g \in Frames \cup Ends
      /\ produced' = produced \o <<>> /\ down' = OpenAiReads(g, n)
  BY <1>0, OthersCollectNothing
<1>2. g \in {"audio", "final", "done", "error", "other"} \cup Ends
  BY <1>1, FramesAre
<1>4. W \in BOOLEAN
  BY WorthIs
<1>5. W <=> g \in {"final", "audio", "done", "error"}
  BY <1>0, <1>2 DEF Worth, Ends
<1>6. \A kind \in {"data", "final", "err", "done"} :
         Item(kind, n) \in AnyItem /\ Item(kind, n).n = n
  BY <1>1, ItemIs
<1>7. ASSUME ~W, NEW label, down' = At(label)
      PROVE  Reads(<<>>, label, <<>>)
  <2>1. Yield(<<>>, <<>>, n, served, W)
    BY <1>4, <1>7, YieldNone
  <2>2. down' = Sending(<<>>, label)
    BY <1>7 DEF At
  <2> QED BY <1>0, <1>1, <2>1, <2>2 DEF Reads
<1>8. ASSUME W, NEW kind \in {"data", "final", "err", "done"},
             down' = Sending(<<Item(kind, n)>>, "read")
      PROVE  Reads(<<Item(kind, n)>>, "read", <<>>)
  <2>1. Yield(<<Item(kind, n)>>, <<>>, n, served, W)
    BY <1>1, <1>4, <1>6, <1>8, YieldOne
  <2> QED BY <1>0, <1>1, <1>8, <2>1 DEF Reads
<1> HIDE DEF W, g, n
<1>r. \/ ~W /\ down' = At("ended")
      \/ ~W /\ down' = At("read")
      \/ W /\ down' = Sending(<<Item("data", n)>>, "read")
      \/ W /\ down' = Sending(<<Item("final", n)>>, "read")
      \/ W /\ down' = Sending(<<Item("done", n)>>, "read")
      \/ W /\ down' = Sending(<<Item("err", n)>>, "read")
  <2>1. \/ ~W /\ OpenAiReads(g, n) = At("ended")
        \/ ~W /\ OpenAiReads(g, n) = At("read")
        \/ W /\ OpenAiReads(g, n) = Sending(<<Item("data", n)>>, "read")
        \/ W /\ OpenAiReads(g, n) = Sending(<<Item("final", n)>>, "read")
        \/ W /\ OpenAiReads(g, n) = Sending(<<Item("done", n)>>, "read")
        \/ W /\ OpenAiReads(g, n) = Sending(<<Item("err", n)>>, "read")
    BY <1>2, <1>5 DEF OpenAiReads, Ends
  <2> QED BY <1>1, <2>1
<1>9. CASE ~W
  BY <1>7, <1>r, <1>9, Zenon
<1>10. CASE W
  BY <1>8, <1>r, <1>10, Zenon
<1> QED BY <1>9, <1>10

LEMMA ReadYields ==
    ASSUME provider \in Providers, DownlinkRead,
           served \in Seq(Frames \cup Ends), read \in 0..Len(served),
           Gemini => \E m \in 1..read : served[m] = "setup"
    PROVE  \E items, label, c : Reads(items, label, c)
BY OneRunner, SttReadYields, ElevenReadYields, GeminiReadYields, OpenAiReadYields, Zenon

-----------------------------------------------------------------------------
(***************************************************************************)
(* The invariant of the three places, step by step.                        *)
(***************************************************************************)
LEMMA LineInvInit == Init => LineInv
<1> SUFFICES ASSUME Init PROVE LineInv
  OBVIOUS
<1>1. /\ phase = "idle" /\ served = <<>> /\ read = 0 /\ up = "off" /\ down = Off
      /\ produced = <<>> /\ out = <<>> /\ got = <<>>
  BY DEF Init
<1>2. Delivered = <<>>
  BY <1>1 DEF Delivered
<1>3. down.hold = <<>> /\ down.pc = "off" /\ down.then = "ended"
  BY <1>1 DEF Off
<1>4. LineTypes
  BY <1>1, <1>3 DEF LineTypes
<1>5. LineShape
  BY <1>1, <1>3 DEF LineShape, Shape
<1>6. LineOrder
  BY <1>1, <1>2, <1>3 DEF LineOrder, Line, Chain, Before, Upto
<1>7. LineWhole
  BY <1>1 DEF LineWhole
<1>8. ClosesLast(Delivered)
  BY <1>2 DEF ClosesLast
<1>9. Closing(Delivered, down, produced)
  BY <1>1, <1>2, <1>3 DEF Closing, Without
<1> QED BY <1>4, <1>5, <1>6, <1>7, <1>8, <1>9 DEF LineInv, LineLast

(* Together with the first invariant it implies the property.              *)
LEMMA LineInvImplies ==
    ASSUME StreamInv, LineInv
    PROVE  DeliveredFaithfully
<1>1. TerminalIsLast
  BY DEF LineInv, LineLast, ClosesLast, TerminalIsLast
<1> DEFINE made == {i \in DOMAIN Delivered : Delivered[i].n > 0}
<1>2. Delivered \in Seq(AnyItem)
  BY ConcatProperties DEF LineInv, LineTypes, Delivered
<1>3. Chain(Delivered, served)
  BY DEF LineInv, LineOrder, Line
<1> DEFINE d == Delivered
<1>4. \A i \in DOMAIN d : d[i].n \in Nat
  BY <1>2, ItemFacts
<1>5. ASSUME SeenOut, ~(Stt /\ served[read] \in {"close_other", "recv_error"})
      PROVE  {Delivered[i].n : i \in made} = Wanted
  <2>1. phase = "open" /\ down.pc = "ended" /\ ~gone /\ ~cancelled
    BY <1>5 DEF SeenOut, TasksEnded
  <2>2. down.hold = <<>> /\ down.then = "ended"
    BY <2>1 DEF LineInv, LineShape, Shape
  <2>3. produced = <<>>
    BY <1>5, <2>1, <2>2 DEF LineInv, LineShape, LineWhole
  <2>4. Nums(<<>>) = {}
    BY DEF Nums
  <2>5. Nums(Delivered) = Wanted
    BY <2>1, <2>2, <2>3, <2>4 DEF LineInv, LineWhole
  <2> HIDE DEF d
  <2>6. {d[i].n : i \in {i \in DOMAIN d : d[i].n > 0}} = {d[i].n : i \in DOMAIN d} \ {0}
    BY <1>4
  <2>7. {d[i].n : i \in {i \in DOMAIN d : d[i].n > 0}} = Wanted
    BY <2>5, <2>6 DEF Nums, d
  <2> QED BY <2>7 DEF d
<1>6. DeliveredInOrder
  <2>1. \A i, j \in made : i < j =>
          \/ Delivered[i].n < Delivered[j].n
          \/ /\ Delivered[i].n = Delivered[j].n /\ served[Delivered[i].n] = "audio_final"
             /\ Delivered[i].kind = "data" /\ Delivered[j].kind = "final"
    BY <1>3 DEF Chain, Follows
  <2>2. SeenOut /\ ~(Stt /\ served[read] \in {"close_other", "recv_error"})
         => {Delivered[i].n : i \in made} = {n \in 1..read : Worth(n)}
    BY <1>5 DEF Wanted
  <2> QED BY <2>1, <2>2, Zenon DEF DeliveredInOrder
<1> QED BY <1>1, <1>6 DEF DeliveredFaithfully

(* What a frame is worth does not change when others arrive.               *)
LEMMA SameWorth ==
    ASSUME provider' = provider, emit_interim' = emit_interim,
           NEW S, served \in Seq(S), read \in 0..Len(served),
           served' = served \/ \E x \in S : served' = Append(served, x)
    PROVE  /\ \A n \in 1..read : served'[n] = served[n]
           /\ \A n \in 1..read : Worth(n)' = Worth(n)
<1>1. \A n \in 1..read : served'[n] = served[n]
  OBVIOUS
<1>s. /\ Stt' = Stt /\ Eleven' = Eleven /\ Gemini' = Gemini /\ OpenAi' = OpenAi
  BY SameRunner
<1>2. ASSUME NEW n \in 1..read
      PROVE  Worth(n)' = Worth(n)
  <2>1. served'[n] = served[n] /\ \A m \in 1..(n - 1) : served'[m] = served[m]
    BY <1>1
  <2>2. (\E m \in 1..(n - 1) : served'[m] = "setup")
          <=> (\E m \in 1..(n - 1) : served[m] = "setup")
    BY <2>1
  <2>3. Worth(n)' <=> Worth(n)
    BY <1>s, <2>1, <2>2 DEF Worth
  <2> QED BY <2>3 DEF Worth
<1> QED BY <1>1, <1>2

(* What another runner's variables are to a place stays the same.          *)
LEMMA SameClosing ==
    ASSUME provider' = provider
    PROVE  /\ ClosesLast(Delivered') => ClosesLast(Delivered)'
           /\ Closing(Delivered', down', produced') => Closing(Delivered, down, produced)'
<1>1. /\ Stt' = Stt /\ Eleven' = Eleven /\ Gemini' = Gemini /\ OpenAi' = OpenAi
  BY SameRunner
<1> QED BY <1>1 DEF ClosesLast, Closing, Without, AllUp, UpFailed, DownFailed, UplinkError,
                    DownlinkError, Item

(***************************************************************************)
(* The steps that leave the three places alone; a frame may arrive.        *)
(***************************************************************************)
Still ==
    /\ UNCHANGED <<provider, emit_interim, phase, read, down, produced, gone, cancelled>>
    /\ Delivered' = Delivered
    /\ got' \in Seq(AnyItem) /\ out' \in Seq(AnyItem)
    /\ served' = served \/ \E x \in Frames \cup Ends : served' = Append(served, x)
    /\ phase # "open" => got' = got /\ out' = out /\ up' = up
    /\ Eleven \/ OpenAi => up' = up

LEMMA StillKeeps ==
    ASSUME LineInv, Still
    PROVE  LineInv'
<1>0. /\ UNCHANGED <<provider, emit_interim, phase, read, down, produced, gone, cancelled>>
      /\ Delivered' = Delivered
      /\ served' = served \/ \E x \in Frames \cup Ends : served' = Append(served, x)
  BY DEF Still
<1>s. /\ Stt' = Stt /\ Eleven' = Eleven /\ Gemini' = Gemini /\ OpenAi' = OpenAi
      /\ Frames' = Frames /\ Ends' = Ends
  BY <1>0, SameRunner DEF Frames, Ends
<1>t. /\ served \in Seq(Frames \cup Ends) /\ read \in 0..Len(served)
      /\ down.hold \in Seq(AnyItem) /\ produced \in Seq(AnyItem)
      /\ Delivered \in Seq(AnyItem)
  BY ConcatProperties DEF LineInv, LineTypes, Delivered
<1>1. LineTypes'
  <2>1. served' \in Seq(Frames \cup Ends) /\ read \in 0..Len(served')
    <3>1. CASE served' = served
      BY <1>t, <3>1
    <3>2. ASSUME NEW x \in Frames \cup Ends, served' = Append(served, x)
          PROVE  served' \in Seq(Frames \cup Ends) /\ read \in 0..Len(served')
      <4> DEFINE S == Frames \cup Ends
      <4>1. served \in Seq(S) /\ x \in S
        BY <1>t
      <4> HIDE DEF S
      <4>2. Append(served, x) \in Seq(S) /\ Len(Append(served, x)) = Len(served) + 1
        BY <4>1
      <4>3. Len(served) \in Nat
        BY <4>1
      <4> QED BY <1>t, <3>2, <4>2, <4>3 DEF S
    <3> QED BY <1>0, <3>1, <3>2
  <2>2. got' \in Seq(AnyItem) /\ out' \in Seq(AnyItem)
    BY DEF Still
  <2> QED BY <1>0, <1>s, <1>t, <2>1, <2>2 DEF LineTypes
<1>2. LineShape'
  BY <1>0, <1>s DEF LineInv, LineShape, Still
<1>3. LineOrder'
  <2>1. CASE served' = served
    BY <1>0, <2>1 DEF LineInv, LineOrder
  <2>2. CASE \E x \in Frames \cup Ends : served' = Append(served, x)
    BY <1>0, <1>t, <2>2, LineGrows DEF LineInv, LineOrder
  <2> QED BY <1>0, <2>1, <2>2
<1>4. LineWhole'
  <2>1. /\ \A n \in 1..read : served'[n] = served[n]
        /\ \A n \in 1..read : Worth(n)' = Worth(n)
    BY <1>0, <1>t, SameWorth
  <2>2. Wanted' = Wanted
    BY <1>0, <2>1 DEF Wanted
  <2>3. read # 0 => served'[read] = served[read]
    BY <1>t, <2>1
  <2>4. read > 0 <=> read # 0
    BY <1>t
  <2> QED BY <1>0, <1>s, <2>1, <2>2, <2>3, <2>4 DEF LineInv, LineWhole
<1>5. LineLast'
  BY <1>0, SameClosing DEF LineInv, LineLast
<1> QED BY <1>1, <1>2, <1>3, <1>4, <1>5 DEF LineInv

(* A downlink that sends items on its way to a place.                      *)
LEMMA SendingShape ==
    ASSUME NEW items, NEW label, label # "send"
    PROVE  /\ Shape(Sending(items, label)) /\ Sending(items, label).hold = items
           /\ Sending(items, label).then = label
           /\ items = <<>> => Sending(items, label).pc = label
           /\ items # <<>> => Sending(items, label).pc = "send"
BY DEF Sending, Shape

LEMMA AtShape ==
    ASSUME NEW label, label # "send"
    PROVE  /\ Shape(At(label)) /\ At(label).hold = <<>> /\ At(label).then = label
           /\ At(label).pc = label /\ At(label) = Sending(<<>>, label)
BY DEF Sending, At, Shape

LEMMA TailOfOne ==
    ASSUME NEW S, NEW s \in Seq(S), Len(s) = 1
    PROVE  Tail(s) = <<>>
<1>1. s # <<>>
  <2>1. Len(<<>>) = 0 /\ 0 # 1
    BY EmptySeq
  <2> QED BY <2>1, Zenon
<1>2. Tail(s) \in Seq(S) /\ Len(Tail(s)) = Len(s) - 1
  BY <1>1, HeadTailProperties
<1>3. Len(Tail(s)) = 0
  BY <1>2
<1> QED BY <1>2, <1>3, EmptySeq

(* One more delivered item.                                                *)
LEMMA LastAppends ==
    ASSUME NEW d \in Seq(AnyItem), NEW x \in AnyItem, ClosesLast(d),
           Eleven => Without(d, "final"),
           Gemini => Without(d, "done") \/ UpFailed(x),
           Stt /\ DownFailed(x) => AllUp(d)
    PROVE  ClosesLast(Append(d, x))
<1> DEFINE e == Append(d, x)
<1>1. /\ DOMAIN e = DOMAIN d \cup {Len(d) + 1} /\ e[Len(d) + 1] = x
      /\ Len(d) \in Nat
      /\ \A i \in DOMAIN d : e[i] = d[i] /\ i < Len(d) + 1 /\ i \in Nat
  BY Appended
<1> HIDE DEF e
<1>2. ASSUME NEW i \in DOMAIN e, NEW j \in DOMAIN e, i < j
      PROVE  /\ Eleven => e[i].kind # "final"
             /\ Gemini => (e[i].kind = "done" => UpFailed(e[j]))
             /\ Stt /\ DownFailed(e[j]) => e[i].by = "up"
  <2>1. i \in DOMAIN d /\ e[i] = d[i]
    BY <1>1, <1>2
  <2>2. CASE j \in DOMAIN d
    <3>1. e[j] = d[j]
      BY <1>1, <2>2
    <3> QED BY <1>2, <2>1, <2>2, <3>1 DEF ClosesLast
  <2>3. CASE j = Len(d) + 1
    <3>1. e[j] = x
      BY <1>1, <2>3
    <3> QED BY <2>1, <3>1 DEF Without, AllUp
  <2> QED BY <1>1, <2>2, <2>3
<1>3. ClosesLast(e)
  BY <1>2 DEF ClosesLast
<1> QED BY <1>3 DEF e

LEMMA WithoutAppends ==
    ASSUME NEW d \in Seq(AnyItem), NEW x \in AnyItem, NEW kind
    PROVE  /\ Without(d, kind) /\ x.kind # kind => Without(Append(d, x), kind)
           /\ AllUp(d) /\ x.by = "up" => AllUp(Append(d, x))
<1>1. \A i \in DOMAIN Append(d, x) :
         (i \in DOMAIN d /\ Append(d, x)[i] = d[i]) \/ Append(d, x)[i] = x
  BY Appended
<1> QED BY <1>1 DEF Without, AllUp

LEMMA WithoutTail ==
    ASSUME NEW h \in Seq(AnyItem), h # <<>>, NEW kind, Without(h, kind)
    PROVE  Without(Tail(h), kind) /\ Head(h).kind # kind
<1>1. /\ 1 \in DOMAIN h /\ Head(h) = h[1]
      /\ \A i \in DOMAIN Tail(h) : i + 1 \in DOMAIN h /\ Tail(h)[i] = h[i + 1]
  BY Beheaded
<1> QED BY <1>1 DEF Without

(* The item channel and what was read from it, put together.               *)
LEMMA DeliveredIs ==
    ASSUME LineInv
    PROVE  /\ Delivered \in Seq(AnyItem)
           /\ \A x \in AnyItem : got \o Append(out, x) = Append(Delivered, x)
           /\ out # <<>> => Append(got, Head(out)) \o Tail(out) = Delivered
           /\ got \o <<>> = got
           /\ DOMAIN got \subseteq DOMAIN Delivered
           /\ \A i \in DOMAIN got : got[i] = Delivered[i]
<1>0. got \in Seq(AnyItem) /\ out \in Seq(AnyItem)
  BY DEF LineInv, LineTypes
<1>1. Delivered \in Seq(AnyItem)
  BY <1>0, ConcatProperties DEF Delivered
<1>2. ASSUME NEW x \in AnyItem PROVE got \o Append(out, x) = Append(Delivered, x)
  BY <1>0 DEF Delivered
<1>3. ASSUME out # <<>> PROVE Append(got, Head(out)) \o Tail(out) = Delivered
  BY <1>0, <1>3 DEF Delivered
<1>4. got \o <<>> = got
  BY <1>0
<1>5. \A i \in DOMAIN got : i \in DOMAIN Delivered /\ Delivered[i] = got[i]
  BY <1>0, Joined DEF Delivered
<1> QED BY <1>1, <1>2, <1>3, <1>4, <1>5

(***************************************************************************)
(* The steps that move an idle downlink, and a cancel.                     *)
(***************************************************************************)
Turns(label) ==
    /\ UNCHANGED <<provider, emit_interim, phase, read, served, produced, got, out, gone>>
    /\ phase = "open" /\ ~Stt /\ down' = At(label) /\ label # "send"
    /\ \/ down.hold = <<>> /\ cancelled' = cancelled
       \/ cancelled'
    /\ Eleven => label \in {"close", "ended"}
    /\ Gemini => label = "ended" \/ down.pc = "start"
    /\ Eleven \/ OpenAi => up' = up

LEMMA TurnsKeep ==
    ASSUME LineInv, NEW label, Turns(label)
    PROVE  LineInv'
<1>0. /\ UNCHANGED <<provider, emit_interim, phase, read, served, produced, got, out, gone>>
      /\ phase = "open" /\ ~Stt /\ down' = At(label)
  BY DEF Turns
<1>s. /\ Stt' = Stt /\ Eleven' = Eleven /\ Gemini' = Gemini /\ OpenAi' = OpenAi
      /\ Frames' = Frames /\ Ends' = Ends
  BY <1>0, SameRunner DEF Frames, Ends
<1>d. /\ Shape(down') /\ down'.hold = <<>> /\ down'.pc = label /\ down'.then = label
  <2>1. label # "send"
    BY DEF Turns
  <2> QED BY <1>0, <2>1, AtShape
<1>t. /\ served \in Seq(Frames \cup Ends) /\ read \in 0..Len(served)
      /\ down.hold \in Seq(AnyItem) /\ produced \in Seq(AnyItem)
      /\ Delivered \in Seq(AnyItem) /\ Delivered' = Delivered
  BY <1>0, DeliveredIs DEF LineInv, LineTypes, Delivered
<1>1. LineTypes'
  BY <1>0, <1>s, <1>d DEF LineInv, LineTypes
<1>2. LineShape'
  BY <1>0, <1>s, <1>d DEF LineInv, LineShape, Turns
<1>3. LineOrder'
  <2>1. Line(Delivered, <<>>, produced, served, read)
    BY <1>t, LineDrops DEF LineInv, LineOrder
  <2> QED BY <1>0, <1>d, <1>t, <2>1 DEF LineOrder
<1>4. LineWhole'
  <2>1. Wanted' = Wanted
    BY <1>0, <1>t, SameWorth DEF Wanted
  <2>2. ~cancelled' => down.hold = <<>> /\ ~cancelled
    BY DEF Turns
  <2> QED BY <1>0, <1>s, <1>d, <1>t, <2>1, <2>2 DEF LineInv, LineWhole
<1>5. ClosesLast(Delivered') /\ (~gone' => Closing(Delivered', down', produced'))
  <2>1. ClosesLast(Delivered')
    BY <1>t DEF LineInv, LineLast
  <2>2. ASSUME ~gone PROVE Closing(Delivered, down', produced)
    <3>1. Closing(Delivered, down, produced)
      BY <2>2 DEF LineInv, LineLast
    <3>2. Without(<<>>, "final") /\ Without(<<>>, "done")
      BY WithoutIs
    <3>3. Gemini => Without(Delivered, "done") \/ label = "ended"
      BY <3>1 DEF Closing, Turns
    <3>4. Eleven => label \in {"close", "ended"}
      BY DEF Turns
    <3> QED BY <1>0, <1>d, <3>2, <3>3, <3>4 DEF Closing
  <2> QED BY <1>0, <1>t, <2>1, <2>2
<1>6. LineLast'
  BY <1>0, <1>5, SameClosing DEF LineLast
<1> QED BY <1>1, <1>2, <1>3, <1>4, <1>6 DEF LineInv

(* A send that fails, since the consumer is gone.                          *)
LEMMA SendFailsKeeps ==
    ASSUME StreamInv, LineInv, DownlinkSendFails
    PROVE  LineInv'
<1>0. /\ UNCHANGED <<provider, emit_interim, phase, read, served, produced, got, out, up>>
      /\ gone /\ gone' /\ down.pc = "send"
  BY DEF DownlinkSendFails, fixed, opening, server, consumer
<1>p. phase = "open"
  BY <1>0 DEF LineInv, LineShape, Off
<1>s. /\ Stt' = Stt /\ Eleven' = Eleven /\ Gemini' = Gemini /\ OpenAi' = OpenAi
      /\ Frames' = Frames /\ Ends' = Ends
  BY <1>0, SameRunner DEF Frames, Ends
<1>h. down.hold \in Seq(AnyItem) /\ down.hold # <<>> /\ down.then # "send"
  BY <1>0 DEF LineInv, LineTypes, LineShape, Shape, StreamInv, DownOk, Goes
<1>d. \/ down' = Sending(<<>>, "finish") \/ down' = Sending(<<>>, "ended")
      \/ down' = Sending(Tail(down.hold), down.then)
  <2> DEFINE item == Head(down.hold)
             Breaks == Stt /\ item.kind # "err"
             Leaves == Eleven /\ item.n > 0
             Returns == Gemini /\ item.kind = "data"
  <2>0. down' = CASE Breaks -> At("ended")
                  [] Leaves -> At("finish")
                  [] Returns -> At("ended")
                  [] OTHER -> Sending(Tail(down.hold), down.then)
    BY DEF DownlinkSendFails
  <2> HIDE DEF Breaks, Leaves, Returns
  <2>1. down' = At("finish") \/ down' = At("ended")
        \/ down' = Sending(Tail(down.hold), down.then)
    BY <2>0, SMT
  <2> QED BY <2>1 DEF At
<1>e. /\ Shape(down') /\ down'.hold \in Seq(AnyItem)
      /\ down'.hold = <<>> \/ down'.hold = Tail(down.hold)
  <2>1. Tail(down.hold) \in Seq(AnyItem) /\ <<>> \in Seq(AnyItem)
    BY <1>h, Beheaded
  <2>2. "finish" # "send" /\ "ended" # "send"
    OBVIOUS
  <2>3. ASSUME NEW items, NEW l, l # "send", down' = Sending(items, l)
        PROVE  Shape(down') /\ down'.hold = items
    BY <2>3, SendingShape, Zenon
  <2>4. Shape(down') /\ (down'.hold = <<>> \/ down'.hold = Tail(down.hold))
    BY <1>d, <1>h, <2>2, <2>3, Zenon
  <2> QED BY <2>1, <2>4
<1>t. /\ served \in Seq(Frames \cup Ends) /\ read \in 0..Len(served)
      /\ produced \in Seq(AnyItem)
      /\ Delivered \in Seq(AnyItem) /\ Delivered' = Delivered
  BY <1>0, DeliveredIs DEF LineInv, LineTypes, Delivered
<1>1. LineTypes'
  BY <1>0, <1>s, <1>e DEF LineInv, LineTypes
<1>2. LineShape'
  BY <1>0, <1>p, <1>s, <1>e DEF LineInv, LineShape
<1>3. LineOrder'
  <2>0. Line(Delivered, down.hold, produced, served, read) /\ read \in Nat
    BY <1>t DEF LineInv, LineOrder
  <2>1. /\ Line(Delivered, <<>>, produced, served, read)
        /\ Line(Delivered, Tail(down.hold), produced, served, read)
    BY <1>h, <1>t, <2>0, LineDrops, LineSends
  <2> QED BY <1>0, <1>e, <1>t, <2>1 DEF LineOrder
<1>4. LineWhole'
  BY <1>0, <1>p, <1>s DEF LineInv, LineWhole
<1>5. ClosesLast(Delivered')
  BY <1>t DEF LineInv, LineLast
<1>6. LineLast'
  BY <1>0, <1>5, SameClosing DEF LineLast
<1> QED BY <1>1, <1>2, <1>3, <1>4, <1>6 DEF LineInv

(* The consumer drops the stream, and with it what is in the channel.      *)
LEMMA DropKeeps ==
    ASSUME LineInv, DropStream
    PROVE  LineInv'
<1>0. /\ UNCHANGED <<provider, emit_interim, phase, read, served, produced, got, down, up>>
      /\ gone' /\ out' = <<>> /\ phase = "open"
  BY DEF DropStream, fixed, opening, server
<1>s. /\ Stt' = Stt /\ Eleven' = Eleven /\ Gemini' = Gemini /\ OpenAi' = OpenAi
      /\ Frames' = Frames /\ Ends' = Ends
  BY <1>0, SameRunner DEF Frames, Ends
<1>t. /\ down.hold \in Seq(AnyItem) /\ produced \in Seq(AnyItem) /\ got \in Seq(AnyItem)
      /\ Delivered \in Seq(AnyItem) /\ Delivered' = got
      /\ DOMAIN got \subseteq DOMAIN Delivered
      /\ \A i \in DOMAIN got : got[i] = Delivered[i]
  BY <1>0, DeliveredIs DEF LineInv, LineTypes, Delivered
<1>1. LineTypes'
  BY <1>0, <1>s DEF LineInv, LineTypes
<1>2. LineShape'
  BY <1>0, <1>s DEF LineInv, LineShape
<1>3. LineOrder'
  <2>1. Line(got, down.hold, produced, served, read)
    BY <1>t, LineDrops DEF LineInv, LineOrder
  <2> QED BY <1>0, <1>t, <2>1 DEF LineOrder
<1>4. LineWhole'
  BY <1>0, <1>s DEF LineInv, LineWhole
<1>5. ClosesLast(Delivered')
  <2>1. ClosesLast(Delivered)
    BY DEF LineInv, LineLast
  <2>2. ClosesLast(got)
    BY <1>t, <2>1 DEF ClosesLast
  <2> QED BY <1>t, <2>2
<1>6. LineLast'
  BY <1>0, <1>5, SameClosing DEF LineLast
<1> QED BY <1>1, <1>2, <1>3, <1>4, <1>6 DEF LineInv

(* The error of the uplink.                                                *)
LEMMA ReportKeeps ==
    ASSUME StreamInv, LineInv, UplinkReport, ~gone
    PROVE  LineInv'
<1>0. /\ UNCHANGED <<provider, emit_interim, phase, read, served, produced, got, down,
                     gone, cancelled>>
      /\ out' = Append(out, UplinkError) /\ up = "report" /\ up' = "ended"
  BY DEF UplinkReport, fixed, opening, server, consumer
<1>p. phase = "open" /\ ~Eleven /\ ~OpenAi
  BY <1>0 DEF LineInv, LineShape
<1>s. /\ Stt' = Stt /\ Eleven' = Eleven /\ Gemini' = Gemini /\ OpenAi' = OpenAi
      /\ Frames' = Frames /\ Ends' = Ends
  BY <1>0, SameRunner DEF Frames, Ends
<1>x. /\ UplinkError \in AnyItem /\ UplinkError.n = 0 /\ UplinkError.kind = "err"
      /\ UplinkError.by = "up"
  BY ItemFacts
<1>t. /\ served \in Seq(Frames \cup Ends) /\ read \in 0..Len(served) /\ read \in Nat
      /\ down.hold \in Seq(AnyItem) /\ produced \in Seq(AnyItem)
      /\ Delivered \in Seq(AnyItem) /\ Delivered' = Append(Delivered, UplinkError)
      /\ out \in Seq(AnyItem)
  <2>1. Delivered' = got \o Append(out, UplinkError)
    BY <1>0 DEF Delivered
  <2>2. Delivered \in Seq(AnyItem) /\ Delivered' = Append(Delivered, UplinkError)
    BY <1>x, <2>1, DeliveredIs
  <2> QED BY <2>2 DEF LineInv, LineTypes
<1>1. LineTypes'
  <2>1. out' \in Seq(AnyItem)
    BY <1>0, <1>t, <1>x
  <2> QED BY <1>0, <1>s, <2>1 DEF LineInv, LineTypes
<1>2. LineShape'
  BY <1>0, <1>p, <1>s DEF LineInv, LineShape
<1>3. LineOrder'
  <2>1. Line(Append(Delivered, UplinkError), down.hold, produced, served, read)
    BY <1>t, <1>x, LineReports DEF LineInv, LineOrder
  <2> QED BY <1>0, <1>t, <2>1 DEF LineOrder
<1>4. LineWhole'
  <2>1. Wanted' = Wanted
    BY <1>0, <1>t, SameWorth DEF Wanted
  <2>2. Nums(Delivered') = Nums(Delivered)
    <3>1. Nums(<<UplinkError>>) = {}
      BY <1>t, <1>x, NumsOf
    <3>2. Nums(Append(Delivered, UplinkError)) = Nums(Delivered) \cup Nums(<<UplinkError>>)
      BY <1>t, <1>x, NumsOf
    <3> QED BY <1>t, <3>1, <3>2
  <2> QED BY <1>0, <1>s, <1>t, <2>1, <2>2 DEF LineInv, LineWhole
<1>c. Closing(Delivered, down, produced)
  BY DEF LineInv, LineLast
<1>5. ClosesLast(Delivered')
  <2>1. UpFailed(UplinkError) /\ ~DownFailed(UplinkError)
    BY <1>x, ItemFacts DEF UpFailed, DownFailed
  <2>2. ClosesLast(Delivered)
    BY DEF LineInv, LineLast
  <2> QED BY <1>p, <1>t, <1>x, <2>1, <2>2, LastAppends
<1>6. Closing(Delivered', down, produced)
  <2> DEFINE e == Append(Delivered, UplinkError)
  <2>1. /\ Without(Delivered, "done") => Without(e, "done")
        /\ AllUp(Delivered) => AllUp(e)
    BY <1>t, <1>x, WithoutAppends
  <2> HIDE DEF e
  <2>2. Closing(e, down, produced)
    BY <1>c, <1>p, <2>1 DEF Closing
  <2> QED BY <1>t, <2>2 DEF e
<1>7. LineLast'
  BY <1>0, <1>5, <1>6, SameClosing DEF LineLast
<1> QED BY <1>1, <1>2, <1>3, <1>4, <1>7 DEF LineInv

(* An item goes into the channel.                                          *)
LEMMA SendsKeeps ==
    ASSUME StreamInv, LineInv, DownlinkSends
    PROVE  LineInv'
<1> DEFINE h == down.hold
           x == Head(h)
<1>0. /\ UNCHANGED <<provider, emit_interim, phase, read, served, produced, got, up,
                     gone, cancelled>>
      /\ out' = Append(out, x) /\ down.pc = "send" /\ ~gone
      /\ down' = Sending(Tail(h), down.then)
  BY DEF DownlinkSends, fixed, opening, server, consumer
<1>p. phase = "open"
  BY <1>0 DEF LineInv, LineShape, Off
<1>s. /\ Stt' = Stt /\ Eleven' = Eleven /\ Gemini' = Gemini /\ OpenAi' = OpenAi
      /\ Frames' = Frames /\ Ends' = Ends
  BY <1>0, SameRunner DEF Frames, Ends
<1>h. h \in Seq(AnyItem) /\ h # <<>> /\ down.then # "send"
  BY <1>0 DEF LineInv, LineTypes, LineShape, Shape, StreamInv, DownOk, Goes
<1>x. x \in AnyItem /\ Tail(h) \in Seq(AnyItem)
  BY <1>h, Beheaded
<1>d. /\ Shape(down') /\ down'.hold = Tail(h) /\ down'.then = down.then
      /\ Tail(h) = <<>> => down'.pc = down.then
      /\ Tail(h) # <<>> => down'.pc = "send"
  <2> DEFINE next == down.then
             rest == Tail(h)
             dn == Sending(rest, next)
  <2>0. next # "send"
    BY <1>h
  <2>2. down' = dn
    BY <1>0
  <2> HIDE DEF next, rest
  <2>1. /\ Shape(dn) /\ dn.hold = rest /\ dn.then = next
        /\ rest = <<>> => dn.pc = next
        /\ rest # <<>> => dn.pc = "send"
    BY <2>0, SendingShape
  <2> HIDE DEF dn
  <2>3. /\ Shape(down') /\ down'.hold = rest /\ down'.then = next
        /\ rest = <<>> => down'.pc = next
        /\ rest # <<>> => down'.pc = "send"
    BY <2>1, <2>2
  <2> QED BY <2>3 DEF rest, next
<1>l. Len(h) = 1 => Tail(h) = <<>>
  BY <1>h, TailOfOne
<1> HIDE DEF h, x
<1>t. /\ served \in Seq(Frames \cup Ends) /\ read \in 0..Len(served) /\ read \in Nat
      /\ produced \in Seq(AnyItem) /\ out \in Seq(AnyItem)
      /\ Delivered \in Seq(AnyItem) /\ Delivered' = Append(Delivered, x)
  <2>1. Delivered' = got \o Append(out, x)
    BY <1>0 DEF Delivered
  <2>2. Delivered \in Seq(AnyItem) /\ Delivered' = Append(Delivered, x)
    BY <1>x, <2>1, DeliveredIs
  <2> QED BY <2>2 DEF LineInv, LineTypes
<1>1. LineTypes'
  <2>1. out' \in Seq(AnyItem)
    BY <1>0, <1>t, <1>x
  <2> QED BY <1>0, <1>s, <1>d, <1>x, <2>1 DEF LineInv, LineTypes
<1>2. LineShape'
  BY <1>0, <1>p, <1>s, <1>d DEF LineInv, LineShape
<1>3. LineOrder'
  <2>1. Line(Delivered, h, produced, served, read)
    BY DEF LineInv, LineOrder, h
  <2>2. Line(Append(Delivered, x), Tail(h), produced, served, read)
    BY <1>h, <1>t, <2>1, LineSends DEF x
  <2> QED BY <1>0, <1>d, <1>t, <2>2 DEF LineOrder
<1>4. LineWhole'
  <2>1. Wanted' = Wanted
    BY <1>0, <1>t, SameWorth DEF Wanted
  <2>2. Nums(Append(Delivered, x)) = Nums(Delivered) \cup Nums(<<x>>)
    BY <1>t, <1>x, NumsOf
  <2>3. Nums(h) = Nums(<<x>>) \cup Nums(Tail(h))
    BY <1>h, <1>x, NumsOf DEF x
  <2>4. Nums(Delivered') \cup Nums(down'.hold) = Nums(Delivered) \cup Nums(down.hold)
    BY <1>d, <1>t, <2>2, <2>3 DEF h
  <2> QED BY <1>0, <1>s, <1>d, <1>t, <2>1, <2>4 DEF LineInv, LineWhole
<1>c. Closing(Delivered, down, produced) /\ ClosesLast(Delivered)
  BY <1>0 DEF LineInv, LineLast
<1>k. ASSUME NEW kind
      PROVE  Without(h, kind) => Without(Tail(h), kind) /\ x.kind # kind
  BY <1>h, WithoutTail DEF x
<1>5. ClosesLast(Delivered')
  <2>1. (Eleven => Without(Delivered, "final")) /\ (Gemini => Without(Delivered, "done"))
    BY <1>0, <1>c DEF Closing
  <2>2. ASSUME Stt, DownFailed(x) PROVE AllUp(Delivered)
    <3>1. x.kind = "err"
      BY <2>2, ItemFacts DEF DownFailed
    <3>2. ~Without(h, "err")
      BY <1>k, <3>1
    <3> QED BY <1>c, <2>2, <3>2 DEF Closing, h
  <2> QED BY <1>c, <1>t, <1>x, <2>1, <2>2, LastAppends
<1>6. Closing(Delivered', down', produced)
  <2> DEFINE e == Append(Delivered, x)
  <2>1. \A kind : Without(Delivered, kind) /\ x.kind # kind => Without(e, kind)
    BY <1>t, <1>x, WithoutAppends
  <2>2. \A kind : Without(<<>>, kind)
    BY WithoutIs
  <2> HIDE DEF e
  <2>3. ASSUME Eleven
        PROVE  /\ Without(e, "final") \/ down'.pc \in {"close", "ended"}
               /\ down'.hold = <<>>
    <3>1. Tail(h) = <<>> /\ Without(Delivered, "final")
      BY <1>0, <1>c, <1>h, <1>l, <2>3 DEF Closing, h
    <3>2. CASE Without(h, "final")
      BY <1>d, <1>k, <2>1, <3>1, <3>2
    <3>3. CASE down.then = "close"
      BY <1>d, <3>1, <3>3
    <3> QED BY <1>c, <2>3, <3>2, <3>3 DEF Closing, h
  <2>4. ASSUME Gemini
        PROVE  /\ Without(e, "done") \/ down'.pc = "ended"
               /\ Without(down'.hold, "done")
    <3>1. Without(Delivered, "done")
      BY <1>0, <1>c, <2>4 DEF Closing
    <3>2. CASE Without(h, "done")
      BY <1>d, <1>k, <2>1, <3>1, <3>2
    <3>3. CASE Len(h) = 1 /\ down.then = "ended"
      BY <1>d, <1>l, <2>2, <3>3
    <3> QED BY <1>c, <2>4, <3>2, <3>3 DEF Closing, h
  <2>5. ASSUME Stt
        PROVE  /\ down'.pc # "read" /\ Without(down'.hold, "err")
               /\ down'.hold = <<>> \/ down'.then # "read"
    <3>1. down.then # "read"
      BY <1>c, <1>h, <2>5 DEF Closing, h
    <3>2. down'.pc # "read"
      BY <1>d, <3>1
    <3>3. Without(h, "err") => Without(down'.hold, "err")
      BY <1>d, <1>k
    <3>4. ASSUME h = <<DownlinkError>> PROVE Without(down'.hold, "err")
      <4>1. Tail(h) = <<>>
        BY <3>4
      <4> QED BY <1>d, <2>2, <4>1
    <3>5. Without(h, "err") \/ h = <<DownlinkError>>
      BY <1>c, <2>5 DEF Closing, h
    <3> QED BY <1>d, <3>1, <3>2, <3>3, <3>4, <3>5
  <2>6. Stt => Without(produced, "err")
    BY <1>c DEF Closing
  <2>7. Closing(e, down', produced)
    BY <2>2, <2>3, <2>4, <2>5, <2>6 DEF Closing
  <2> QED BY <1>t, <2>7 DEF e
<1>7. LineLast'
  BY <1>0, <1>5, <1>6, SameClosing DEF LineLast
<1> QED BY <1>1, <1>2, <1>3, <1>4, <1>7 DEF LineInv

(* A frame is read.                                                        *)
LEMMA ReadKeeps ==
    ASSUME StreamInv, StreamInv', LineInv, DownlinkRead
    PROVE  LineInv'
<1>0. /\ UNCHANGED <<provider, emit_interim, phase, served, got, out, up, gone, cancelled>>
      /\ down.pc = "read" /\ read < Len(served) /\ read' = read + 1
  BY DEF DownlinkRead, fixed, opening, server, consumer
<1>p. phase = "open"
  BY <1>0 DEF LineInv, LineShape, Off
<1>s. /\ Stt' = Stt /\ Eleven' = Eleven /\ Gemini' = Gemini /\ OpenAi' = OpenAi
      /\ Frames' = Frames /\ Ends' = Ends
  BY <1>0, SameRunner DEF Frames, Ends
<1>t. /\ served \in Seq(Frames \cup Ends) /\ read \in 0..Len(served) /\ read \in Nat
      /\ produced \in Seq(AnyItem) /\ Len(served) \in Nat
      /\ Delivered \in Seq(AnyItem) /\ Delivered' = Delivered
      /\ down.hold = <<>>
  BY <1>0, DeliveredIs DEF LineInv, LineTypes, LineShape, Shape, Delivered
<1>g. Gemini => \E m \in 1..read : served[m] = "setup"
  BY <1>p DEF LineInv, LineWhole
<1>r. \E items, label, c : Reads(items, label, c)
  BY <1>g, <1>t, ReadYields DEF StreamInv
<1>u. PICK items, label, c : Reads(items, label, c)
  BY <1>r
<1> DEFINE n == read + 1
<1>y. /\ down' = Sending(items, label) /\ produced' = produced \o c
      /\ Yield(items, c, n, served, Worth(n))
      /\ Stt => items = <<>> \/ (items = <<DownlinkError>> /\ label # "read")
      /\ Stt /\ label = "ended" => served[n] \in {"close_other", "recv_error"}
      /\ ~Stt => c = <<>>
      /\ Eleven => items = <<>> \/ Len(items) = 1
      /\ Eleven => Without(items, "final") \/ label = "close"
      /\ Gemini => Without(items, "done")
  BY <1>u DEF Reads
<1>i. items \in Seq(AnyItem) /\ Chain(items, served)
  BY <1>y DEF Yield
<1>b. down'.then # "send" /\ down'.then = label
  <2>1. down'.then # "send"
    BY DEF StreamInv, DownOk, Goes
  <2>2. down'.then = label
    BY <1>y DEF Sending
  <2> QED BY <2>1, <2>2
<1>d. /\ Shape(down') /\ down'.hold = items /\ down'.then = label
      /\ items = <<>> => down'.pc = label
      /\ items # <<>> => down'.pc = "send"
  <2> DEFINE dn == Sending(items, label)
  <2>1. /\ Shape(dn) /\ dn.hold = items /\ dn.then = label
        /\ items = <<>> => dn.pc = label
        /\ items # <<>> => dn.pc = "send"
    BY <1>b, SendingShape
  <2>2. down' = dn
    BY <1>y
  <2> HIDE DEF dn
  <2> QED BY <2>1, <2>2
<1>o. Line(Delivered, <<>>, produced, served, read)
  BY <1>t DEF LineInv, LineOrder
<1>z. Stt => Upto(items, 0) /\ Without(<<>>, "err")
  <2>1. Upto(<<>>, 0) /\ Without(<<>>, "err")
    BY DEF Upto, Without
  <2>2. Upto(<<DownlinkError>>, 0)
    BY ItemFacts DEF Upto
  <2> QED BY <1>y, <2>1, <2>2
<1>n. Nums(<<>>) = {}
  BY DEF Nums
<1>v. /\ produced' \in Seq(AnyItem)
      /\ Line(Delivered, items, produced', served, n)
      /\ Nums(items) \cup Nums(produced') = Nums(produced) \cup (IF Worth(n) THEN {n} ELSE {})
      /\ Without(produced, "err") => Without(produced', "err")
      /\ ~Stt => produced' = produced
  <2>1. CASE c = <<>>
    <3>1. produced' = produced
      BY <1>t, <1>y, <2>1
    <3>2. produced = <<>> \/ Upto(items, 0)
      BY <1>z DEF LineInv, LineShape
    <3>3. \A i \in DOMAIN items : items[i].n = 0 \/ items[i].n = n
      BY <1>y DEF Yield
    <3>4. Line(Delivered, items, produced, served, n)
      BY <1>i, <1>o, <1>t, <3>2, <3>3, LineReads
    <3>5. Nums(items) = IF Worth(n) THEN {n} ELSE {}
      BY <1>n, <1>y, <2>1 DEF Yield
    <3> QED BY <1>t, <3>1, <3>4, <3>5
  <2>2. CASE c # <<>>
    <3>1. /\ items = <<>>
          /\ \E x \in AnyItem : x.n = n /\ x.kind # "err" /\ c = <<x>>
      BY <1>y, <2>2 DEF Yield
    <3>2. PICK x \in AnyItem : x.n = n /\ x.kind # "err" /\ c = <<x>>
      BY <3>1
    <3>3. produced' = Append(produced, x)
      BY <1>t, <1>y, <3>2
    <3>4. Upto(<<>>, 0) /\ <<>> \in Seq(AnyItem)
      BY DEF Upto
    <3>5. Line(Delivered, <<>>, Append(produced, x), served, n)
      BY <1>o, <1>t, <3>2, <3>4, LineCollects
    <3>6. Append(produced, x) \in Seq(AnyItem)
      BY <1>t, <3>2, Appended
    <3>7. Nums(Append(produced, x)) = Nums(produced) \cup Nums(c)
      BY <1>t, <3>2, NumsOf
    <3>8. Nums(items) \cup Nums(c) = IF Worth(n) THEN {n} ELSE {}
      BY <1>y DEF Yield
    <3>9. Without(produced, "err") => Without(Append(produced, x), "err")
      BY <1>t, <3>2, WithoutAppends
    <3>10. Stt
      BY <1>y, <2>2
    <3> QED BY <1>n, <3>1, <3>3, <3>5, <3>6, <3>7, <3>8, <3>9, <3>10
  <2> QED BY <2>1, <2>2
<1> HIDE DEF n
<1>1. LineTypes'
  <2>1. read' \in 0..Len(served)
    BY <1>0, <1>t
  <2> QED BY <1>0, <1>s, <1>d, <1>i, <1>v, <2>1 DEF LineInv, LineTypes
<1>2. LineShape'
  BY <1>0, <1>p, <1>s, <1>d, <1>v DEF LineInv, LineShape
<1>3. LineOrder'
  BY <1>0, <1>d, <1>t, <1>v DEF LineOrder, n
<1>4. LineWhole'
  <2>1. read' = n /\ n \in Nat /\ n > 0 /\ 1..n = (1..read) \cup {n}
    BY <1>0, <1>t DEF n
  <2>2. \A m \in 1..n : Worth(m)' = Worth(m)
    <3>1. \A m : Worth(m)' = Worth(m)
      BY <1>0, <1>s DEF Worth
    <3> QED BY <3>1
  <2>3. Wanted' = Wanted \cup (IF Worth(n) THEN {n} ELSE {})
    <3>1. Wanted' = {m \in 1..n : Worth(m)'}
      BY <2>1 DEF Wanted
    <3>2. Wanted' = {m \in 1..n : Worth(m)}
      BY <2>2, <3>1
    <3>3. Worth(n) \in BOOLEAN
      BY WorthIs
    <3> QED BY <2>1, <3>2, <3>3 DEF Wanted
  <2>4. ASSUME ~gone, ~cancelled
        PROVE  Nums(Delivered) \cup Nums(items) \cup Nums(produced') = Wanted'
    <3>1. Nums(Delivered) \cup Nums(produced) = Wanted
      BY <1>n, <1>p, <1>t, <2>4 DEF LineInv, LineWhole
    <3> QED BY <1>v, <2>3, <3>1
  <2>5. Gemini => \E m \in 1..n : served[m] = "setup"
    BY <1>g, <2>1
  <2> QED BY <1>0, <1>d, <1>p, <1>s, <1>t, <1>y, <2>1, <2>4, <2>5 DEF LineWhole
<1>c. ~gone => Closing(Delivered, down, produced)
  BY DEF LineInv, LineLast
<1>5. ClosesLast(Delivered')
  BY <1>t DEF LineInv, LineLast
<1>6. ASSUME ~gone PROVE Closing(Delivered, down', produced')
  <2>1. Eleven => Without(Delivered, "final")
    BY <1>0, <1>6, <1>c DEF Closing
  <2>2. Gemini => Without(Delivered, "done")
    BY <1>0, <1>6, <1>c DEF Closing
  <2>3. Stt => AllUp(Delivered) /\ Without(produced', "err")
    BY <1>0, <1>6, <1>c, <1>v DEF Closing
  <2> QED BY <1>d, <1>y, <1>z, <2>1, <2>2, <2>3 DEF Closing
<1>7. LineLast'
  BY <1>0, <1>5, <1>6, <1>t, SameClosing DEF LineLast
<1> QED BY <1>1, <1>2, <1>3, <1>4, <1>7 DEF LineInv

(* What the end of the loop has the downlink send.                         *)
LEMMA LineTerminal ==
    ASSUME NEW d \in Seq(AnyItem), NEW x \in AnyItem, NEW f, NEW r \in Nat,
           Line(d, <<>>, <<>>, f, r), x.n = 0
    PROVE  Line(d, <<x>>, <<>>, f, r)
<1> DEFINE q == <<x>>
<1>1. DOMAIN q = {1} /\ q[1].n = 0
  OBVIOUS
<1> HIDE DEF q
<1>2. Chain(<<>>, f) /\ Before(q, <<>>, f)
  BY DEF Chain, Before
<1>3. Chain(q, f) /\ Before(d, q, f) /\ Upto(q, r)
  BY <1>1 DEF Chain, Before, Upto, Follows
<1> QED BY <1>2, <1>3 DEF Line, q

LEMMA WithoutFlush ==
    ASSUME NEW p \in Seq(AnyItem), Without(p, "err")
    PROVE  Without(Flush(p), "err")
<1> DEFINE q == Flush(p)
<1>1. /\ p = <<>> => q = <<Item("final", 0)>>
      /\ p # <<>> => DOMAIN q = DOMAIN p
                     /\ \A i \in DOMAIN p : q[i].kind \in {p[i].kind, "final"}
  BY FlushIs
<1> HIDE DEF q
<1>2. CASE p = <<>>
  <2>1. DOMAIN q = {1} /\ q[1].kind = "final"
    BY <1>1, <1>2, ItemIs
  <2> QED BY <2>1 DEF Without, q
<1>3. CASE p # <<>>
  BY <1>1, <1>3 DEF Without, q
<1> QED BY <1>2, <1>3

Finishing(items, label) ==
    /\ down' = Sending(items, label) /\ produced' = <<>>
    /\ items \in Seq(AnyItem) /\ items # <<>> /\ label \in {"close", "ended"}
    /\ Line(Delivered, items, <<>>, served, read)
    /\ Nums(items) = Nums(produced)
    /\ Eleven => Len(items) = 1 /\ label = "close"
    /\ Gemini => Len(items) = 1 /\ label = "ended"
    /\ Stt /\ Without(produced, "err") => Without(items, "err")

LEMMA FinishSends ==
    ASSUME StreamInv, LineInv, DownlinkFinish
    PROVE  \E items, label : Finishing(items, label)
<1>0. /\ down' = CASE Stt -> Sending(Flush(produced), "ended")
                   [] Eleven -> Sending(<<Item("final", 0)>>, "close")
                   [] Gemini -> Sending(<<Item("done", 0)>>, "ended")
      /\ produced' = <<>> /\ down.pc = "finish"
  BY DEF DownlinkFinish
<1>1. ~OpenAi
  BY <1>0 DEF StreamInv, DownOk, Goes, OpenAi
<1>2. /\ Stt \/ Eleven \/ Gemini \/ OpenAi
      /\ Stt => ~Eleven /\ ~Gemini
      /\ Eleven => ~Gemini
  BY OneRunner DEF StreamInv
<1>t. /\ Delivered \in Seq(AnyItem) /\ produced \in Seq(AnyItem) /\ read \in Nat
      /\ ~Stt => produced = <<>>
  <2>1. Delivered \in Seq(AnyItem)
    BY DeliveredIs
  <2>2. produced \in Seq(AnyItem) /\ served \in Seq(Frames \cup Ends) /\ read \in 0..Len(served)
    BY DEF LineInv, LineTypes
  <2>3. read \in Nat
    BY <2>2
  <2> QED BY <2>1, <2>2, <2>3 DEF LineInv, LineShape
<1>h. down.hold = <<>>
  BY <1>0 DEF LineInv, LineShape, Shape
<1>l. Line(Delivered, <<>>, produced, served, read)
  BY <1>h DEF LineInv, LineOrder
<1>n. Nums(<<>>) = {}
  BY DEF Nums
<1>3. CASE Stt
  <2>1. down' = Sending(Flush(produced), "ended")
    BY <1>0, <1>2, <1>3, Zenon
  <2>2. Flush(produced) \in Seq(AnyItem) /\ Flush(produced) # <<>>
    BY <1>t, FlushIs
  <2>3. Line(Delivered, Flush(produced), <<>>, served, read)
    BY <1>l, <1>t, LineFlushes
  <2>4. Nums(Flush(produced)) = Nums(produced)
    BY <1>t, NumsFlush
  <2>5. Without(produced, "err") => Without(Flush(produced), "err")
    BY <1>t, WithoutFlush
  <2>6. Finishing(Flush(produced), "ended")
    BY <1>0, <1>2, <1>3, <2>1, <2>2, <2>3, <2>4, <2>5 DEF Finishing
  <2> QED BY <2>6
<1>4. ASSUME ~Stt, NEW kind \in {"final", "done"}, NEW label \in {"close", "ended"},
             down' = Sending(<<Item(kind, 0)>>, label),
             Eleven => label = "close", Gemini => label = "ended"
      PROVE  \E items, l : Finishing(items, l)
  <2> DEFINE x == Item(kind, 0)
  <2>1. x \in AnyItem /\ x.n = 0
    BY ItemIs
  <2>2. down' = Sending(<<x>>, label)
    BY <1>4
  <2> HIDE DEF x
  <2>3. <<x>> \in Seq(AnyItem) /\ <<x>> # <<>> /\ Len(<<x>>) = 1
    BY <2>1
  <2>4. Line(Delivered, <<x>>, <<>>, served, read)
    BY <1>4, <1>l, <1>t, <2>1, LineTerminal
  <2>5. Nums(<<x>>) = Nums(produced)
    BY <1>4, <1>n, <1>t, <2>1, NumsOf
  <2>6. Finishing(<<x>>, label)
    BY <1>0, <1>4, <2>2, <2>3, <2>4, <2>5 DEF Finishing
  <2> QED BY <2>6
<1>5. CASE Eleven
  <2>1. down' = Sending(<<Item("final", 0)>>, "close")
    BY <1>0, <1>2, <1>5, Zenon
  <2>2. "final" \in {"final", "done"} /\ "close" \in {"close", "ended"}
    OBVIOUS
  <2> QED BY <1>2, <1>4, <1>5, <2>1, <2>2, Zenon
<1>6. CASE Gemini
  <2>1. down' = Sending(<<Item("done", 0)>>, "ended")
    BY <1>0, <1>2, <1>6, Zenon
  <2>2. "done" \in {"final", "done"} /\ "ended" \in {"close", "ended"}
    OBVIOUS
  <2> QED BY <1>2, <1>4, <1>6, <2>1, <2>2, Zenon
<1> QED BY <1>1, <1>2, <1>3, <1>5, <1>6

LEMMA FinishKeeps ==
    ASSUME StreamInv, LineInv, DownlinkFinish
    PROVE  LineInv'
<1>0. /\ UNCHANGED <<provider, emit_interim, phase, read, served, got, out, up, gone,
                     cancelled>>
      /\ down.pc = "finish"
  BY DEF DownlinkFinish, fixed, opening, server, consumer
<1>p. phase = "open"
  BY <1>0 DEF LineInv, LineShape, Off
<1>s. /\ Stt' = Stt /\ Eleven' = Eleven /\ Gemini' = Gemini /\ OpenAi' = OpenAi
      /\ Frames' = Frames /\ Ends' = Ends
  BY <1>0, SameRunner DEF Frames, Ends
<1>t. /\ served \in Seq(Frames \cup Ends) /\ read \in 0..Len(served)
      /\ Delivered \in Seq(AnyItem) /\ Delivered' = Delivered
      /\ down.hold = <<>>
  BY <1>0, DeliveredIs DEF LineInv, LineTypes, LineShape, Shape, Delivered
<1>u. \E items, label : Finishing(items, label)
  BY FinishSends
<1>f. PICK items, label : Finishing(items, label)
  BY <1>u
<1>y. /\ down' = Sending(items, label) /\ produced' = <<>>
      /\ items \in Seq(AnyItem) /\ items # <<>>
      /\ label \in {"close", "ended"}
      /\ Line(Delivered, items, <<>>, served, read)
      /\ Nums(items) = Nums(produced)
  BY <1>f DEF Finishing
<1>d. /\ Shape(down') /\ down'.hold = items /\ down'.then = label /\ down'.pc = "send"
  <2> DEFINE dn == Sending(items, label)
  <2>1. label # "send"
    BY <1>y
  <2>2. Shape(dn) /\ dn.hold = items /\ dn.then = label /\ dn.pc = "send"
    BY <1>y, <2>1, SendingShape
  <2>3. down' = dn
    BY <1>y
  <2> HIDE DEF dn
  <2> QED BY <2>2, <2>3
<1>n. Nums(<<>>) = {}
  BY DEF Nums
<1>1. LineTypes'
  BY <1>0, <1>s, <1>d, <1>y DEF LineInv, LineTypes
<1>2. LineShape'
  BY <1>0, <1>p, <1>s, <1>d, <1>y DEF LineInv, LineShape
<1>3. LineOrder'
  BY <1>0, <1>d, <1>t, <1>y DEF LineOrder
<1>4. LineWhole'
  <2>1. Wanted' = Wanted
    BY <1>0, <1>t, SameWorth DEF Wanted
  <2>2. ASSUME ~gone, ~cancelled
        PROVE  Nums(Delivered) \cup Nums(items) \cup Nums(<<>>) = Wanted
    <3>1. Nums(Delivered) \cup Nums(<<>>) \cup Nums(produced) = Wanted
      BY <1>p, <1>t, <2>2 DEF LineInv, LineWhole
    <3> QED BY <1>n, <1>y, <3>1
  <2> QED BY <1>0, <1>d, <1>s, <1>t, <1>y, <2>1, <2>2 DEF LineInv, LineWhole
<1>5. ClosesLast(Delivered')
  BY <1>t DEF LineInv, LineLast
<1>6. ASSUME ~gone PROVE Closing(Delivered, down', produced')
  <2>0. Closing(Delivered, down, produced)
    BY <1>6 DEF LineInv, LineLast
  <2>1. Eleven => Without(Delivered, "final") /\ Len(items) = 1 /\ label = "close"
    BY <1>0, <1>f, <2>0 DEF Closing, Finishing
  <2>2. Gemini => Without(Delivered, "done") /\ Len(items) = 1 /\ label = "ended"
    BY <1>0, <1>f, <2>0 DEF Closing, Finishing
  <2>3. Stt => Without(items, "err")
    BY <1>f, <2>0 DEF Closing, Finishing
  <2>4. Without(<<>>, "err") /\ label # "read"
    BY <1>y, WithoutIs
  <2> QED BY <1>d, <1>y, <2>1, <2>2, <2>3, <2>4 DEF Closing
<1>7. LineLast'
  BY <1>0, <1>5, <1>6, <1>t, SameClosing DEF LineLast
<1> QED BY <1>1, <1>2, <1>3, <1>4, <1>7 DEF LineInv

-----------------------------------------------------------------------------
(***************************************************************************)
(* The opening, with nothing in any of the three places.                   *)
(***************************************************************************)
LEMMA Blank ==
    ASSUME NEW f, NEW r, NEW dn, dn.hold = <<>>
    PROVE  /\ Line(<<>>, dn.hold, <<>>, f, r) /\ ClosesLast(<<>>) /\ Closing(<<>>, dn, <<>>)
           /\ Nums(<<>>) = {} /\ Nums(dn.hold) = {}
<1>1. Line(<<>>, <<>>, <<>>, f, r)
  BY DEF Line, Chain, Before, Upto
<1>2. ClosesLast(<<>>)
  BY DEF ClosesLast
<1>3. Closing(<<>>, dn, <<>>)
  BY DEF Closing, Without, AllUp
<1>4. Nums(<<>>) = {}
  BY DEF Nums
<1> QED BY <1>1, <1>2, <1>3, <1>4

Opens ==
    /\ UNCHANGED <<provider, emit_interim, read, served, produced, got, out, gone, cancelled>>
    /\ phase = "idle" /\ phase' # "idle"
    /\ \/ phase' # "open" /\ down' = down /\ up' = up
       \/ /\ phase' = "open" /\ ~Gemini /\ down' = At("read")
          /\ Eleven \/ OpenAi => up' = "off"

LEMMA OpensKeeps ==
    ASSUME LineInv, Opens
    PROVE  LineInv'
<1>0. /\ UNCHANGED <<provider, emit_interim, read, served, produced, got, out, gone, cancelled>>
      /\ phase = "idle" /\ phase' # "idle"
      /\ down' = down \/ down' = At("read")
      /\ phase' = "open" => ~Gemini
  BY DEF Opens
<1>s. /\ Stt' = Stt /\ Eleven' = Eleven /\ Gemini' = Gemini /\ OpenAi' = OpenAi
      /\ Frames' = Frames /\ Ends' = Ends
  BY <1>0, SameRunner DEF Frames, Ends
<1>e. /\ read = 0 /\ produced = <<>> /\ got = <<>> /\ out = <<>> /\ down = Off /\ up = "off"
  BY <1>0 DEF LineInv, LineShape
<1>d. /\ Shape(down') /\ down'.hold = <<>>
  <2>1. Shape(Off) /\ Off.hold = <<>>
    BY DEF Off, Shape
  <2>2. Shape(At("read")) /\ At("read").hold = <<>>
    BY AtShape
  <2> QED BY <1>0, <1>e, <2>1, <2>2
<1>b. Delivered' = <<>>
  BY <1>0, <1>e DEF Delivered
<1>1. LineTypes'
  BY <1>0, <1>s, <1>d DEF LineInv, LineTypes
<1>2. LineShape'
  BY <1>0, <1>s, <1>d, <1>e DEF LineShape, Opens
<1>3. LineOrder'
  BY <1>0, <1>b, <1>d, <1>e, Blank DEF LineOrder
<1>4. LineWhole'
  <2>1. Wanted' = {}
    BY <1>0, <1>e DEF Wanted
  <2>2. Nums(Delivered') = {} /\ Nums(down'.hold) = {} /\ Nums(produced') = {}
    BY <1>0, <1>b, <1>d, <1>e, Blank
  <2>3. 1..read' = {}
    BY <1>0, <1>e
  <2> QED BY <1>0, <1>e, <1>s, <2>1, <2>2, <2>3 DEF LineWhole
<1>5. LineLast'
  <2>1. ClosesLast(Delivered') /\ Closing(Delivered', down', produced')
    BY <1>0, <1>b, <1>d, <1>e, Blank
  <2> QED BY <1>0, <2>1, SameClosing DEF LineLast
<1> QED BY <1>1, <1>2, <1>3, <1>4, <1>5 DEF LineInv

LEMMA OpenOpens ==
    ASSUME StreamInv, LineInv, Open
    PROVE  Opens
<1>0. phase = "idle"
  BY DEF Open, OpenDeepgram, OpenAssemblyAi, OpenElevenLabs, OpenOpenAi, OpenGemini, Opening
<1>e. down = Off /\ up = "off"
  BY <1>0 DEF LineInv, LineShape
<1>r. /\ Stt => ~Eleven /\ ~Gemini /\ ~OpenAi
      /\ Eleven => ~Gemini
      /\ OpenAi => ~Gemini
  BY OneRunner DEF StreamInv
<1>1. ASSUME NEW rejection, NEW handshake, NEW to, NEW uplink, NEW downlink,
             Opening(rejection, handshake, to, uplink, downlink),
             \/ to = "setup" /\ uplink = "off" /\ downlink = Off
             \/ /\ to = "open" /\ ~Gemini /\ downlink = At("read")
                /\ Eleven \/ OpenAi => uplink = "off"
      PROVE  Opens
  <2>1. /\ UNCHANGED <<provider, emit_interim, read, served, produced, got, out, gone,
                       cancelled>>
    BY <1>1 DEF Opening, fixed, server, consumer
  <2>2. \/ phase' = "refused" /\ down' = down /\ up' = up
        \/ phase' = to /\ down' = downlink /\ up' = uplink
    BY <1>1 DEF Opening, Refused
  <2> QED BY <1>0, <1>1, <1>e, <2>1, <2>2 DEF Opens
<1>2. CASE OpenDeepgram
  <2>1. Stt
    BY <1>2 DEF OpenDeepgram, Stt
  <2>2. \E r : Opening(r, <<>>, "open", "run", At("read"))
    BY <1>2, Zenon DEF OpenDeepgram
  <2> QED BY <1>1, <1>r, <2>1, <2>2, Zenon
<1>3. CASE OpenAssemblyAi
  <2>1. Stt
    BY <1>3 DEF OpenAssemblyAi, Stt
  <2>2. \E r : Opening(r, <<>>, "open", "run", At("read"))
    BY <1>3, Zenon DEF OpenAssemblyAi
  <2> QED BY <1>1, <1>r, <2>1, <2>2, Zenon
<1>4. CASE OpenElevenLabs
  <2>1. Eleven /\ \E r : Opening(r, ElevenHandshake, "open", "off", At("read"))
    BY <1>4, Zenon DEF OpenElevenLabs
  <2> QED BY <1>1, <1>r, <2>1, Zenon
<1>5. CASE OpenOpenAi
  <2>1. OpenAi /\ \E r : Opening(r, OpenAiHandshake, "open", "off", At("read"))
    BY <1>5, Zenon DEF OpenOpenAi
  <2> QED BY <1>1, <1>r, <2>1, Zenon
<1>6. CASE OpenGemini
  <2>1. \E r : Opening(r, GeminiHandshake, "setup", "off", Off)
    BY <1>6, Zenon DEF OpenGemini
  <2> QED BY <1>1, <2>1, Zenon
<1> QED BY <1>2, <1>3, <1>4, <1>5, <1>6, Zenon DEF Open

(* Nothing Gemini Live receives before setupComplete is worth an item.     *)
LEMMA SetupKeeps ==
    ASSUME StreamInv, LineInv, AwaitSetup
    PROVE  LineInv'
<1> DEFINE n == read + 1
<1>0. /\ UNCHANGED <<provider, emit_interim, served, produced, got, out, gone, cancelled, up>>
      /\ phase = "setup" /\ read < Len(served) /\ read' = read + 1
      /\ down' = down \/ down' = At("start")
  BY DEF AwaitSetup, fixed, server, consumer
<1>s. /\ Stt' = Stt /\ Eleven' = Eleven /\ Gemini' = Gemini /\ OpenAi' = OpenAi
      /\ Frames' = Frames /\ Ends' = Ends
  BY <1>0, SameRunner DEF Frames, Ends
<1>e. /\ produced = <<>> /\ got = <<>> /\ out = <<>> /\ down = Off /\ up = "off"
  BY <1>0 DEF LineInv, LineShape
<1>g. Gemini /\ ~Stt
  BY <1>0, OneRunner DEF StreamInv, Unopened
<1>a. \/ phase' = "refused" /\ down' = down
      \/ served[n] = "setup" /\ phase' = "open"
      \/ served[n] # "setup" /\ phase' = phase /\ down' = down
  BY <1>0 DEF AwaitSetup, Refused
<1>t. /\ served \in Seq(Frames \cup Ends) /\ read \in 0..Len(served)
      /\ n \in 0..Len(served) /\ n \in Nat /\ n > 0
      /\ 1..n = (1..read) \cup {n}
  BY <1>0 DEF LineInv, LineTypes
<1>m. \A m \in 1..read : served[m] # "setup"
  BY <1>0, <1>g DEF LineInv, LineWhole
<1>d. /\ Shape(down') /\ down'.hold = <<>>
  <2>1. Shape(Off) /\ Off.hold = <<>>
    BY DEF Off, Shape
  <2>2. Shape(At("start")) /\ At("start").hold = <<>>
    BY AtShape
  <2> QED BY <1>0, <1>e, <2>1, <2>2
<1>b. Delivered' = <<>>
  BY <1>0, <1>e DEF Delivered
<1>1. LineTypes'
  BY <1>0, <1>s, <1>d, <1>t DEF LineInv, LineTypes
<1>2. LineShape'
  BY <1>0, <1>a, <1>d, <1>e, <1>g, <1>s DEF LineShape
<1>3. LineOrder'
  BY <1>0, <1>b, <1>d, <1>e, Blank DEF LineOrder
<1>4. LineWhole'
  <2>1. Wanted' = {}
    <3>1. ASSUME NEW k \in 1..n PROVE ~Worth(k)'
      <4>1. \A m \in 1..(k - 1) : m \in 1..read
        BY <1>t
      <4>2. ~\E m \in 1..(k - 1) : served'[m] = "setup"
        BY <1>0, <1>m, <4>1
      <4> QED BY <1>g, <1>s, <4>2 DEF Worth
    <3> QED BY <1>0, <3>1 DEF Wanted
  <2>2. Nums(Delivered') = {} /\ Nums(down'.hold) = {} /\ Nums(produced') = {}
    BY <1>0, <1>b, <1>d, <1>e, Blank
  <2>3. phase' = "open" => \E m \in 1..n : served[m] = "setup"
    BY <1>0, <1>a, <1>t
  <2>4. phase' \in {"idle", "setup"} => \A m \in 1..n : served[m] # "setup"
    BY <1>0, <1>a, <1>m, <1>t
  <2> QED BY <1>0, <1>g, <1>s, <2>1, <2>2, <2>3, <2>4 DEF LineWhole
<1>5. LineLast'
  <2>1. ClosesLast(Delivered') /\ Closing(Delivered', down', produced')
    BY <1>0, <1>b, <1>d, <1>e, Blank
  <2> QED BY <1>0, <2>1, SameClosing DEF LineLast
<1> QED BY <1>1, <1>2, <1>3, <1>4, <1>5 DEF LineInv

-----------------------------------------------------------------------------
(***************************************************************************)
(* The other steps, and all of them together.                              *)
(***************************************************************************)
LEMMA IdleTurns ==
    ASSUME StreamInv, LineInv,
           \/ StartAdapter \/ ElevenCloses \/ AdapterDrained \/ Cancel
           \/ AdapterTake /\ down' # down
    PROVE  \E label : Turns(label)
<1>r. /\ Stt => ~Eleven /\ ~Gemini /\ ~OpenAi
      /\ Eleven => ~Gemini /\ ~OpenAi
      /\ Gemini => ~OpenAi
      /\ Eleven = (provider = "elevenlabs")
  BY OneRunner DEF StreamInv
<1>1. /\ UNCHANGED <<provider, emit_interim, phase, read, served, produced, got, out, gone>>
      /\ down.pc # "off"
  BY DEF StartAdapter, ElevenCloses, AdapterDrained, Cancel, AdapterTake, fixed, opening,
         server, consumer
<1>2. phase = "open"
  BY <1>1 DEF LineInv, LineShape, Off
<1>3. down.pc # "send" => down.hold = <<>>
  BY DEF LineInv, LineShape, Shape
<1>4. DownOk(provider, down)
  BY DEF StreamInv
<1>5. CASE StartAdapter
  <2>1. down.pc = "start" /\ down' = At("read") /\ cancelled' = cancelled
    BY <1>5 DEF StartAdapter
  <2>2. Gemini
    BY <1>4, <2>1 DEF DownOk, Goes, Gemini
  <2>3. Turns("read")
    BY <1>1, <1>2, <1>3, <1>r, <2>1, <2>2 DEF Turns
  <2> QED BY <2>3
<1>6. CASE ElevenCloses
  <2>1. down.pc = "close" /\ down' = At("ended") /\ cancelled' = cancelled /\ up' = up
    BY <1>6 DEF ElevenCloses
  <2>2. Eleven
    BY <1>4, <2>1 DEF DownOk, Goes, Eleven
  <2>3. Turns("ended")
    BY <1>1, <1>2, <1>3, <1>r, <2>1, <2>2 DEF Turns
  <2> QED BY <2>3
<1>7. CASE AdapterDrained \/ (AdapterTake /\ down' # down)
  <2>1. /\ OpenAi /\ down.pc = "read" /\ down' = At("ended") /\ cancelled' = cancelled
        /\ up' = up
    BY <1>7 DEF AdapterDrained, AdapterTake
  <2>2. Turns("ended")
    BY <1>1, <1>2, <1>3, <1>r, <2>1 DEF Turns
  <2> QED BY <2>2
<1>8. CASE Cancel
  <2>1. (Gemini \/ OpenAi) /\ down' = At("ended") /\ cancelled' /\ up' = up
    BY <1>8 DEF Cancel
  <2>2. Turns("ended")
    BY <1>1, <1>2, <1>r, <2>1 DEF Turns
  <2> QED BY <2>2
<1> QED BY <1>5, <1>6, <1>7, <1>8

LEMMA OthersAreStill ==
    ASSUME StreamInv, LineInv,
           \/ UplinkTake \/ UplinkDrained \/ (UplinkReport /\ gone)
           \/ (AdapterTake /\ down' = down) \/ (\E m \in Messages : Feed(m))
           \/ CloseInput \/ Serve \/ Consume \/ UNCHANGED vars
    PROVE  Still
<1>1. UNCHANGED <<provider, emit_interim, phase, read, down, produced, gone, cancelled>>
  BY DEF UplinkTake, UplinkDrained, UplinkReport, AdapterTake, Feed, CloseInput, Serve,
         Consume, vars, fixed, opening, consumer
<1>2. \/ up \in {"run", "report"} /\ got' = got /\ out' = out /\ served' = served
      \/ up' = up
  BY DEF UplinkTake, UplinkDrained, UplinkReport, AdapterTake, Feed, CloseInput, Serve,
         Consume, vars, server, consumer
<1>3. up \in {"run", "report"} => phase = "open" /\ ~Eleven /\ ~OpenAi
  BY DEF LineInv, LineShape
<1>4. got \in Seq(AnyItem) /\ out \in Seq(AnyItem)
  BY DEF LineInv, LineTypes
<1>5. CASE Consume
  <2>1. /\ out # <<>> /\ got' = Append(got, Head(out)) /\ out' = Tail(out)
        /\ served' = served /\ up' = up
    BY <1>5 DEF Consume, server
  <2>2. got' \in Seq(AnyItem) /\ out' \in Seq(AnyItem)
    <3>1. Head(out) \in AnyItem /\ Tail(out) \in Seq(AnyItem)
      BY <1>4, <2>1, Beheaded
    <3> QED BY <1>4, <2>1, <3>1, Appended
  <2>3. Delivered' = Delivered
    <3>1. Append(got, Head(out)) \o Tail(out) = Delivered
      BY <2>1, DeliveredIs
    <3> QED BY <2>1, <3>1 DEF Delivered
  <2>4. phase = "open"
    BY <2>1 DEF LineInv, LineShape
  <2> QED BY <1>1, <2>1, <2>2, <2>3, <2>4 DEF Still
<1>6. CASE Serve
  <2>1. got' = got /\ out' = out /\ up' = up
    BY <1>6 DEF Serve, consumer
  <2>2. \E x \in Frames \cup Ends : served' = Append(served, x)
    BY <1>6 DEF Serve
  <2>3. Delivered' = Delivered
    BY <2>1 DEF Delivered
  <2> QED BY <1>1, <1>4, <2>1, <2>2, <2>3 DEF Still
<1>7. CASE \/ UplinkTake \/ UplinkDrained \/ (UplinkReport /\ gone)
           \/ (AdapterTake /\ down' = down) \/ (\E m \in Messages : Feed(m))
           \/ CloseInput \/ UNCHANGED vars
  <2>1. got' = got /\ out' = out /\ served' = served
    BY <1>7 DEF UplinkTake, UplinkDrained, UplinkReport, AdapterTake, Feed, CloseInput,
                vars, server, consumer
  <2>2. Delivered' = Delivered
    BY <2>1 DEF Delivered
  <2> QED BY <1>1, <1>2, <1>3, <1>4, <2>1, <2>2 DEF Still
<1> QED BY <1>5, <1>6, <1>7

LEMMA LineInvStep ==
    ASSUME StreamInv, StreamInv', LineInv, [Next]_vars
    PROVE  LineInv'
<1>1. CASE Open
  BY <1>1, OpenOpens, OpensKeeps
<1>2. CASE AwaitSetup
  BY <1>2, SetupKeeps
<1>3. CASE DownlinkRead
  BY <1>3, ReadKeeps
<1>4. CASE DownlinkFinish
  BY <1>4, FinishKeeps
<1>5. CASE DownlinkSends
  BY <1>5, SendsKeeps
<1>6. CASE DownlinkSendFails
  BY <1>6, SendFailsKeeps
<1>7. CASE DropStream
  BY <1>7, DropKeeps
<1>8. CASE UplinkReport /\ ~gone
  BY <1>8, ReportKeeps
<1>9. CASE \/ StartAdapter \/ ElevenCloses \/ AdapterDrained \/ Cancel
           \/ AdapterTake /\ down' # down
  <2>1. \E label : Turns(label)
    BY <1>9, IdleTurns
  <2> QED BY <2>1, TurnsKeep
<1>10. CASE \/ UplinkTake \/ UplinkDrained \/ (UplinkReport /\ gone)
            \/ (AdapterTake /\ down' = down) \/ (\E m \in Messages : Feed(m))
            \/ CloseInput \/ Serve \/ Consume \/ UNCHANGED vars
  <2>1. Still
    BY <1>10, OthersAreStill
  <2> QED BY <2>1, StillKeeps
<1>11. Quiescent => UNCHANGED vars
  BY DEF Quiescent
<1> QED BY <1>1, <1>2, <1>3, <1>4, <1>5, <1>6, <1>7, <1>8, <1>9, <1>10, <1>11, Zenon
           DEF Next, UplinkTask, DownlinkTask

(***************************************************************************)
(* However long the session, whatever the runner and the capacity of the   *)
(* channels, and wherever it is broken off: what the consumer is given is  *)
(* in the order of the provider's frames, without a repetition; when it    *)
(* reads to the end of a session whose connection did not fail, it has an  *)
(* item for every frame worth one; and what closes a stream comes last.    *)
(***************************************************************************)
THEOREM DeliveredFaithful == Spec => []DeliveredFaithfully
<1>1. Init => StreamInv /\ LineInv
  BY StreamInvInit, LineInvInit
<1>2. StreamInv /\ [Next]_vars => StreamInv'
  BY StreamInvStep
<1>3. StreamInv /\ StreamInv' /\ LineInv /\ [Next]_vars => LineInv'
  BY LineInvStep
<1>4. StreamInv /\ LineInv => DeliveredFaithfully
  BY LineInvImplies
<1> QED BY <1>1, <1>2, <1>3, <1>4, PTL DEF Spec

-----------------------------------------------------------------------------
(***************************************************************************)
(* How a session ends.  Items of a kind are delivered or held nowhere, or  *)
(* just once.                                                              *)
(***************************************************************************)
NoneOf(s, S) == \A i \in DOMAIN s : s[i] \notin S

OneOf(s, S) ==
    \E i \in DOMAIN s : s[i] \in S /\ \A j \in DOMAIN s : s[j] \in S => j = i

Never(d, h, S) == NoneOf(d, S) /\ NoneOf(h, S)

Once(d, h, S) == (OneOf(d, S) /\ NoneOf(h, S)) \/ (NoneOf(d, S) /\ OneOf(h, S))

Finals == {x \in AnyItem : x.kind = "final"}
Dones == {x \in AnyItem : x.kind = "done"}
UpErrors == {UplinkError}
DownErrors == {DownlinkError}

SttFailed(frame) == frame \in {"garbage", "close_other", "recv_error"}
ElevenFailed(frame) == frame \notin {"final", "close_1000", "eof"}
GeminiFailed(frame) == frame \in {"error", "recv_error"}

(* Until the downlink leaves its loop nothing that closes the stream is on *)
(* its way, and then all of it is, each item once; frame is the last one   *)
(* it has read.                                                            *)
Told(d, h, then, frame, r) ==
    /\ Stt =>
         /\ then = "read" => Never(d, h, DownErrors)
         /\ then # "read" =>
              /\ r > 0
              /\ SttFailed(frame) => Once(d, h, DownErrors)
              /\ ~SttFailed(frame) => Never(d, h, DownErrors)
         /\ then = "ended" => SttFailed(frame) \/ ~Never(d, h, Finals)
    /\ Eleven =>
         /\ then = "read" => Never(d, h, DownErrors)
         /\ then # "read" =>
              /\ r > 0
              /\ ElevenFailed(frame) => Once(d, h, DownErrors)
              /\ ~ElevenFailed(frame) => Never(d, h, DownErrors)
         /\ then \in {"read", "finish"} => Never(d, h, Finals)
         /\ then \notin {"read", "finish"} => Once(d, h, Finals)
    /\ Gemini =>
         /\ then \notin {"finish", "ended"} => Never(d, h, DownErrors)
         /\ then \in {"finish", "ended"} =>
              /\ r > 0
              /\ GeminiFailed(frame) => Once(d, h, DownErrors)
              /\ ~GeminiFailed(frame) => Never(d, h, DownErrors)
         /\ then # "ended" => Never(d, h, Dones)
         /\ then = "ended" => Once(d, h, Dones)

DownTold ==
    phase = "open" /\ ~gone /\ ~cancelled =>
      Told(Delivered, down.hold, down.then, served[read], read)

(* The last message taken was one that Gemini Live does not take.          *)
Disliked == taken > 0 /\ fed[taken] \in {"bad_format", "interrupt"}

(* The uplink reports once, when it has ended because of a failure.        *)
UpTold ==
    /\ Gemini /\ up = "off" => taken = 0
    /\ Stt /\ phase = "open" => up # "off"
    /\ Gemini /\ up = "run" => ~Disliked
    /\ Gemini /\ up = "report" => Disliked
    /\ Gemini /\ down.then = "start" => up = "off" /\ down.hold = <<>>
    /\ phase = "open" /\ ~gone /\ (Stt \/ Gemini) =>
         /\ up # "ended" => NoneOf(Delivered, UpErrors)
         /\ NoneOf(down.hold, UpErrors)
         /\ Stt /\ up = "ended" =>
              OneOf(Delivered, UpErrors) \/ (taken = Len(fed) /\ ~input_open)
         /\ Gemini /\ up = "ended" =>
              /\ Disliked => OneOf(Delivered, UpErrors)
              /\ ~Disliked => NoneOf(Delivered, UpErrors)

(* The error of a session that was refused.                                *)
RefusalTold ==
    /\ phase = "idle" => dialled = "no"
    /\ phase = "setup" => dialled = "yes"
    /\ (phase = "refused") = (refusal # None)
    /\ phase = "refused" =>
         /\ dialled = "no" => wire = <<>> /\ ~IsRetryable(refusal)
         /\ dialled = "bad_url" => wire = <<>> /\ refusal = "NetworkError"
         /\ dialled = "yes" => (IsRetryable(refusal) =
               (read = 0 \/ served[read] \in {"error", "recv_error"}))

EndInv == DownTold /\ UpTold /\ RefusalTold

LEMMA OfFew ==
    ASSUME NEW S, NEW x, NEW y
    PROVE  /\ NoneOf(<<>>, S) /\ ~OneOf(<<>>, S)
           /\ x \notin S => NoneOf(<<x>>, S)
           /\ x \in S => OneOf(<<x>>, S)
           /\ x \notin S /\ y \notin S => NoneOf(<<x, y>>, S)
<1>1. /\ DOMAIN <<x>> = {1} /\ <<x>>[1] = x
      /\ DOMAIN <<x, y>> = {1, 2} /\ <<x, y>>[1] = x /\ <<x, y>>[2] = y
  OBVIOUS
<1>2. NoneOf(<<>>, S) /\ ~OneOf(<<>>, S)
  BY DEF NoneOf, OneOf
<1>3. x \in S => OneOf(<<x>>, S)
  BY <1>1 DEF OneOf
<1>4. x \notin S => NoneOf(<<x>>, S)
  BY <1>1 DEF NoneOf
<1>5. x \notin S /\ y \notin S => NoneOf(<<x, y>>, S)
  BY <1>1 DEF NoneOf
<1> QED BY <1>2, <1>3, <1>4, <1>5

LEMMA OfAppends ==
    ASSUME NEW d \in Seq(AnyItem), NEW x \in AnyItem, NEW S
    PROVE  /\ NoneOf(d, S) /\ x \notin S => NoneOf(Append(d, x), S)
           /\ OneOf(d, S) /\ x \notin S => OneOf(Append(d, x), S)
           /\ NoneOf(d, S) /\ x \in S => OneOf(Append(d, x), S)
           /\ x \in S => ~NoneOf(Append(d, x), S)
           /\ ~NoneOf(d, S) => ~NoneOf(Append(d, x), S)
<1> DEFINE e == Append(d, x)
           z == Len(d) + 1
<1>1. /\ DOMAIN e = DOMAIN d \cup {z} /\ e[z] = x
      /\ \A i \in DOMAIN d : e[i] = d[i] /\ i # z
  BY Appended
<1> HIDE DEF e, z
<1>2. NoneOf(d, S) /\ x \notin S => NoneOf(e, S)
  BY <1>1 DEF NoneOf
<1>3. ASSUME OneOf(d, S), x \notin S PROVE OneOf(e, S)
  <2>1. PICK i \in DOMAIN d : d[i] \in S /\ \A j \in DOMAIN d : d[j] \in S => j = i
    BY <1>3 DEF OneOf
  <2>2. i \in DOMAIN e /\ e[i] \in S /\ \A j \in DOMAIN e : e[j] \in S => j = i
    BY <1>1, <1>3, <2>1
  <2> QED BY <2>2 DEF OneOf
<1>4. ASSUME NoneOf(d, S), x \in S PROVE OneOf(e, S)
  <2>1. z \in DOMAIN e /\ e[z] \in S /\ \A j \in DOMAIN e : e[j] \in S => j = z
    BY <1>1, <1>4 DEF NoneOf
  <2> QED BY <2>1 DEF OneOf
<1>5. /\ x \in S => ~NoneOf(e, S)
      /\ ~NoneOf(d, S) => ~NoneOf(e, S)
  BY <1>1 DEF NoneOf
<1> QED BY <1>2, <1>3, <1>4, <1>5 DEF e

LEMMA OfTail ==
    ASSUME NEW h \in Seq(AnyItem), h # <<>>, NEW S
    PROVE  /\ NoneOf(h, S) => NoneOf(Tail(h), S) /\ Head(h) \notin S
           /\ OneOf(h, S) =>
                \/ Head(h) \in S /\ NoneOf(Tail(h), S)
                \/ Head(h) \notin S /\ OneOf(Tail(h), S)
           /\ ~NoneOf(h, S) => Head(h) \in S \/ ~NoneOf(Tail(h), S)
<1> DEFINE t == Tail(h)
<1>1. /\ 1 \in DOMAIN h /\ Head(h) = h[1]
      /\ \A i \in DOMAIN t : i + 1 \in DOMAIN h /\ t[i] = h[i + 1] /\ i \in Nat
      /\ \A i \in DOMAIN h : i = 1 \/ (i - 1 \in DOMAIN t /\ h[i] = t[i - 1])
      /\ \A i \in DOMAIN t : 1 < i + 1
      /\ DOMAIN h \subseteq Nat
  BY Beheaded
<1> HIDE DEF t
<1>2. NoneOf(h, S) => NoneOf(t, S) /\ Head(h) \notin S
  BY <1>1 DEF NoneOf
<1>3. ~NoneOf(h, S) => Head(h) \in S \/ ~NoneOf(t, S)
  BY <1>1 DEF NoneOf
<1>4. ASSUME OneOf(h, S)
      PROVE  \/ Head(h) \in S /\ NoneOf(t, S)
             \/ Head(h) \notin S /\ OneOf(t, S)
  <2>1. PICK i \in DOMAIN h : h[i] \in S /\ \A j \in DOMAIN h : h[j] \in S => j = i
    BY <1>4 DEF OneOf
  <2>2. CASE i = 1
    <3>1. ASSUME NEW j \in DOMAIN t, t[j] \in S PROVE FALSE
      <4>1. j + 1 \in DOMAIN h /\ h[j + 1] \in S /\ 1 < j + 1 /\ j \in Nat
        BY <1>1, <3>1
      <4>2. j + 1 = 1
        BY <2>1, <2>2, <4>1
      <4> QED BY <4>1, <4>2
    <3> QED BY <1>1, <2>1, <2>2, <3>1 DEF NoneOf
  <2>3. CASE i # 1
    <3>1. i - 1 \in DOMAIN t /\ t[i - 1] \in S
      BY <1>1, <2>1, <2>3
    <3>2. ASSUME NEW j \in DOMAIN t, t[j] \in S PROVE j = i - 1
      <4>1. j + 1 \in DOMAIN h /\ h[j + 1] \in S /\ j \in Nat /\ i \in Nat
        BY <1>1, <3>2
      <4>2. j + 1 = i
        BY <2>1, <4>1
      <4> QED BY <4>1, <4>2
    <3>3. OneOf(t, S)
      BY <3>1, <3>2 DEF OneOf
    <3>4. Head(h) \notin S
      BY <1>1, <2>1, <2>3
    <3> QED BY <3>3, <3>4
  <2> QED BY <2>2, <2>3
<1> QED BY <1>2, <1>3, <1>4 DEF t

(* An item on its way from the downlink to the channel, and the uplink's   *)
(* error, which is of none of the kinds.                                   *)
LEMMA OfMoves ==
    ASSUME NEW d \in Seq(AnyItem), NEW h \in Seq(AnyItem), h # <<>>, NEW S
    PROVE  /\ Never(d, h, S) => Never(Append(d, Head(h)), Tail(h), S)
           /\ Once(d, h, S) => Once(Append(d, Head(h)), Tail(h), S)
           /\ ~Never(d, h, S) => ~Never(Append(d, Head(h)), Tail(h), S)
<1> DEFINE x == Head(h)
           t == Tail(h)
           e == Append(d, x)
<1>0. x \in AnyItem
  BY Beheaded
<1>1. /\ NoneOf(h, S) => NoneOf(t, S) /\ x \notin S
      /\ OneOf(h, S) => (x \in S /\ NoneOf(t, S)) \/ (x \notin S /\ OneOf(t, S))
      /\ ~NoneOf(h, S) => x \in S \/ ~NoneOf(t, S)
  BY OfTail
<1> HIDE DEF x, t
<1>2. /\ NoneOf(d, S) /\ x \notin S => NoneOf(e, S)
      /\ OneOf(d, S) /\ x \notin S => OneOf(e, S)
      /\ NoneOf(d, S) /\ x \in S => OneOf(e, S)
      /\ x \in S => ~NoneOf(e, S)
      /\ ~NoneOf(d, S) => ~NoneOf(e, S)
  BY <1>0, OfAppends
<1> HIDE DEF e
<1>3. /\ Never(d, h, S) => Never(e, t, S)
      /\ Once(d, h, S) => Once(e, t, S)
      /\ ~Never(d, h, S) => ~Never(e, t, S)
  BY <1>1, <1>2 DEF Never, Once
<1> QED BY <1>3 DEF e, x, t

LEMMA OfReports ==
    ASSUME NEW d \in Seq(AnyItem), NEW h, NEW S, UplinkError \notin S
    PROVE  /\ Never(d, h, S) => Never(Append(d, UplinkError), h, S)
           /\ Once(d, h, S) => Once(Append(d, UplinkError), h, S)
           /\ ~Never(d, h, S) => ~Never(Append(d, UplinkError), h, S)
<1> DEFINE e == Append(d, UplinkError)
<1>1. /\ NoneOf(d, S) => NoneOf(e, S)
      /\ OneOf(d, S) => OneOf(e, S)
      /\ ~NoneOf(d, S) => ~NoneOf(e, S)
  BY OfAppends, ItemFacts
<1> HIDE DEF e
<1>2. /\ Never(d, h, S) => Never(e, h, S)
      /\ Once(d, h, S) => Once(e, h, S)
      /\ ~Never(d, h, S) => ~Never(e, h, S)
  BY <1>1 DEF Never, Once
<1> QED BY <1>2 DEF e

LEMMA KindsApart ==
    /\ \A S \in {Finals, Dones, DownErrors} : UplinkError \notin S
    /\ DownlinkError \in DownErrors /\ DownlinkError \notin Finals
    /\ DownlinkError \notin UpErrors /\ DownlinkError \notin Dones
<1>1. UplinkError.kind = "err" /\ UplinkError.by = "up"
  BY ItemFacts
<1>2. DownlinkError.kind = "err" /\ DownlinkError.by = "down"
  BY ItemFacts
<1> QED BY <1>1, <1>2 DEF Finals, Dones, DownErrors, UpErrors

LEMMA ItemKind ==
    ASSUME NEW kind \in {"data", "final", "err", "done"}, NEW n \in Nat
    PROVE  /\ Item(kind, n) \notin UpErrors
           /\ kind # "err" => Item(kind, n) \notin DownErrors
           /\ (Item(kind, n) \in Finals) = (kind = "final")
           /\ (Item(kind, n) \in Dones) = (kind = "done")
<1>1. /\ Item(kind, n) \in AnyItem /\ Item(kind, n).kind = kind
      /\ Item(kind, n).by = "down"
  BY ItemIs
<1>2. DownlinkError.kind = "err" /\ UplinkError.by = "up"
  BY ItemFacts
<1> QED BY <1>1, <1>2 DEF Finals, Dones, DownErrors, UpErrors

(* What the counts of the property are.                                    *)
LEMMA Counted ==
    ASSUME NEW s \in Seq(AnyItem), NEW S
    PROVE  LET found == {i \in DOMAIN s : s[i] \in S} IN
           /\ NoneOf(s, S) => Cardinality(found) = 0
           /\ OneOf(s, S) => Cardinality(found) = 1
           /\ ~NoneOf(s, S) => Cardinality(found) > 0
<1> DEFINE found == {i \in DOMAIN s : s[i] \in S}
<1>1. DOMAIN s = 1..Len(s) /\ Len(s) \in Nat
  OBVIOUS
<1>2. IsFiniteSet(1..Len(s))
  BY <1>1, FS_Interval
<1>3. found \in SUBSET (1..Len(s))
  BY <1>1
<1>4. IsFiniteSet(found)
  BY <1>2, <1>3, FS_Subset
<1>5. Cardinality(found) \in Nat /\ (Cardinality(found) = 0 <=> found = {})
  BY <1>4, FS_CardinalityType, FS_EmptySet
<1>6. NoneOf(s, S) <=> found = {}
  BY DEF NoneOf
<1>7. ASSUME OneOf(s, S) PROVE Cardinality(found) = 1
  <2>1. PICK i \in DOMAIN s : s[i] \in S /\ \A j \in DOMAIN s : s[j] \in S => j = i
    BY <1>7 DEF OneOf
  <2>2. found = {i}
    BY <2>1
  <2> QED BY <2>2, FS_Singleton
<1> HIDE DEF found
<1>8. /\ NoneOf(s, S) => Cardinality(found) = 0
      /\ OneOf(s, S) => Cardinality(found) = 1
      /\ ~NoneOf(s, S) => Cardinality(found) > 0
  BY <1>5, <1>6, <1>7
<1> QED BY <1>8 DEF found

LEMMA Counts ==
    ASSUME LineInv
    PROVE  /\ NoneOf(Delivered, DownErrors) => Count(DownFailed) = 0
           /\ OneOf(Delivered, DownErrors) => Count(DownFailed) = 1
           /\ NoneOf(Delivered, UpErrors) => Count(UpFailed) = 0
           /\ OneOf(Delivered, UpErrors) => Count(UpFailed) = 1
           /\ OneOf(Delivered, Finals) => Count(IsFinal) = 1
           /\ ~NoneOf(Delivered, Finals) => Count(IsFinal) > 0
           /\ OneOf(Delivered, Dones) => Count(IsDone) = 1
<1>1. Delivered \in Seq(AnyItem)
  BY DeliveredIs
<1>2. \A i \in DOMAIN Delivered : Delivered[i] \in AnyItem
  BY <1>1
<1>3. /\ Count(DownFailed) = Cardinality({i \in DOMAIN Delivered : Delivered[i] \in DownErrors})
      /\ Count(UpFailed) = Cardinality({i \in DOMAIN Delivered : Delivered[i] \in UpErrors})
  <2>1. /\ {i \in DOMAIN Delivered : DownFailed(Delivered[i])}
             = {i \in DOMAIN Delivered : Delivered[i] \in DownErrors}
        /\ {i \in DOMAIN Delivered : UpFailed(Delivered[i])}
             = {i \in DOMAIN Delivered : Delivered[i] \in UpErrors}
    BY DEF DownFailed, UpFailed, DownErrors, UpErrors
  <2> QED BY <2>1 DEF Count
<1>4. /\ Count(IsFinal) = Cardinality({i \in DOMAIN Delivered : Delivered[i] \in Finals})
      /\ Count(IsDone) = Cardinality({i \in DOMAIN Delivered : Delivered[i] \in Dones})
  <2>1. /\ {i \in DOMAIN Delivered : IsFinal(Delivered[i])}
             = {i \in DOMAIN Delivered : Delivered[i] \in Finals}
        /\ {i \in DOMAIN Delivered : IsDone(Delivered[i])}
             = {i \in DOMAIN Delivered : Delivered[i] \in Dones}
    BY <1>2 DEF IsFinal, IsDone, Finals, Dones
  <2> QED BY <2>1 DEF Count
<1>5. ASSUME NEW S
      PROVE  LET found == {i \in DOMAIN Delivered : Delivered[i] \in S} IN
             /\ NoneOf(Delivered, S) => Cardinality(found) = 0
             /\ OneOf(Delivered, S) => Cardinality(found) = 1
             /\ ~NoneOf(Delivered, S) => Cardinality(found) > 0
  BY <1>1, Counted
<1> QED BY <1>3, <1>4, <1>5

LEMMA EndInvInit == Init => EndInv
<1> SUFFICES ASSUME Init PROVE EndInv
  OBVIOUS
<1>1. /\ phase = "idle" /\ refusal = None /\ dialled = "no" /\ taken = 0 /\ up = "off"
      /\ down = Off
  BY DEF Init
<1>2. down.then = "ended"
  BY <1>1 DEF Off
<1> QED BY <1>1, <1>2 DEF EndInv, DownTold, UpTold, RefusalTold

(* Together with the others this invariant implies the property.           *)
LEMMA EndInvImplies ==
    ASSUME StreamInv, LineInv, EndInv
    PROVE  EndIsExplained
<1>1. /\ (phase = "refused") <=> (refusal # None)
      /\ phase = "refused" =>
           /\ dialled = "no" => wire = <<>> /\ ~IsRetryable(refusal)
           /\ dialled = "bad_url" => wire = <<>> /\ refusal = "NetworkError"
           /\ dialled = "yes" => (IsRetryable(refusal) <=>
                 (read = 0 \/ served[read] \in {"error", "recv_error"}))
  BY DEF EndInv, RefusalTold
<1>2. ASSUME SeenOut
      PROVE  /\ Stt =>
                  /\ Count(IsFinal) > 0 \/ Count(DownFailed) = 1
                  /\ Count(DownFailed) =
                       IF served[read] \in {"garbage", "close_other", "recv_error"} THEN 1 ELSE 0
                  /\ Count(UpFailed) = 1 \/ (taken = Len(fed) /\ ~input_open)
             /\ Eleven =>
                  /\ Count(IsFinal) = 1
                  /\ Count(DownFailed) =
                       IF served[read] \in {"final", "close_1000", "eof"} THEN 0 ELSE 1
             /\ Gemini =>
                  /\ Count(IsDone) = 1
                  /\ Count(DownFailed) =
                       IF served[read] \in {"error", "recv_error"} THEN 1 ELSE 0
                  /\ Count(UpFailed) =
                       IF taken > 0 /\ fed[taken] \in {"bad_format", "interrupt"} THEN 1 ELSE 0
  <2>0. /\ phase = "open" /\ ~gone /\ ~cancelled /\ up \in {"off", "ended"}
        /\ down.pc = "ended"
    BY <1>2 DEF SeenOut, TasksEnded
  <2>1. down.hold = <<>> /\ down.then = "ended"
    BY <2>0 DEF LineInv, LineShape, Shape
  <2>2. Told(Delivered, <<>>, "ended", served[read], read)
    BY <2>0, <2>1 DEF EndInv, DownTold
  <2>3. \A S : /\ Never(Delivered, <<>>, S) => NoneOf(Delivered, S)
               /\ ~Never(Delivered, <<>>, S) => ~NoneOf(Delivered, S)
               /\ Once(Delivered, <<>>, S) => OneOf(Delivered, S)
    BY OfFew DEF Never, Once
  <2>4. ASSUME Stt
        PROVE  /\ Count(IsFinal) > 0 \/ Count(DownFailed) = 1
               /\ Count(DownFailed) =
                    IF served[read] \in {"garbage", "close_other", "recv_error"} THEN 1 ELSE 0
               /\ Count(UpFailed) = 1 \/ (taken = Len(fed) /\ ~input_open)
    <3>1. /\ SttFailed(served[read]) => OneOf(Delivered, DownErrors)
          /\ ~SttFailed(served[read]) => NoneOf(Delivered, DownErrors)
          /\ SttFailed(served[read]) \/ ~NoneOf(Delivered, Finals)
      BY <2>2, <2>3, <2>4 DEF Told
    <3>2. OneOf(Delivered, UpErrors) \/ (taken = Len(fed) /\ ~input_open)
      BY <2>0, <2>4 DEF EndInv, UpTold
    <3> QED BY <3>1, <3>2, Counts DEF SttFailed
  <2>5. ASSUME Eleven
        PROVE  /\ Count(IsFinal) = 1
               /\ Count(DownFailed) =
                    IF served[read] \in {"final", "close_1000", "eof"} THEN 0 ELSE 1
    <3>1. /\ ElevenFailed(served[read]) => OneOf(Delivered, DownErrors)
          /\ ~ElevenFailed(served[read]) => NoneOf(Delivered, DownErrors)
          /\ OneOf(Delivered, Finals)
      BY <2>2, <2>3, <2>5 DEF Told
    <3> QED BY <3>1, Counts DEF ElevenFailed
  <2>6. ASSUME Gemini
        PROVE  /\ Count(IsDone) = 1
               /\ Count(DownFailed) =
                    IF served[read] \in {"error", "recv_error"} THEN 1 ELSE 0
               /\ Count(UpFailed) =
                    IF taken > 0 /\ fed[taken] \in {"bad_format", "interrupt"} THEN 1 ELSE 0
    <3>1. /\ OneOf(Delivered, Dones)
          /\ GeminiFailed(served[read]) => OneOf(Delivered, DownErrors)
          /\ ~GeminiFailed(served[read]) => NoneOf(Delivered, DownErrors)
      BY <2>2, <2>3, <2>6 DEF Told
    <3>2. /\ Disliked => OneOf(Delivered, UpErrors)
          /\ ~Disliked => NoneOf(Delivered, UpErrors)
      <4>1. CASE up = "off"
        <5>1. ~Disliked
          BY <2>6, <4>1 DEF EndInv, UpTold, Disliked
        <5>2. NoneOf(Delivered, UpErrors)
          BY <2>0, <2>6, <4>1 DEF EndInv, UpTold
        <5> QED BY <5>1, <5>2
      <4>2. CASE up = "ended"
        BY <2>0, <2>6, <4>2 DEF EndInv, UpTold
      <4> QED BY <2>0, <4>1, <4>2
    <3> QED BY <3>1, <3>2, Counts DEF Disliked, GeminiFailed
  <2> QED BY <2>4, <2>5, <2>6
<1> QED BY <1>1, <1>2 DEF EndIsExplained

-----------------------------------------------------------------------------
(***************************************************************************)
(* The downlink's part of it, step by step.                                *)
(***************************************************************************)
LEMMA SameTold ==
    ASSUME provider' = provider,
           Told(Delivered', down'.hold, down'.then, served'[read'], read')
    PROVE  DownTold'
<1>1. /\ Stt' = Stt /\ Eleven' = Eleven /\ Gemini' = Gemini
  BY SameRunner
<1>2. Told(Delivered, down.hold, down.then, served[read], read)'
  BY <1>1 DEF Told
<1> QED BY <1>2 DEF DownTold

(* Nothing was read when nothing was.                                      *)
LEMMA ToldFrame ==
    ASSUME NEW d, NEW h, NEW then, NEW a, NEW b, NEW r \in Nat, r # 0 => a = b,
           Told(d, h, then, a, r)
    PROVE  Told(d, h, then, b, r)
<1>1. CASE r = 0
  <2>1. ~(r > 0)
    BY <1>1
  <2>2. /\ Stt => then = "read" /\ Never(d, h, DownErrors)
        /\ Eleven => then = "read" /\ Never(d, h, DownErrors) /\ Never(d, h, Finals)
        /\ Gemini => /\ then \notin {"finish", "ended"} /\ Never(d, h, DownErrors)
                     /\ Never(d, h, Dones)
    BY <2>1 DEF Told
  <2>3. "read" # "ended" /\ "read" \in {"read", "finish"}
    OBVIOUS
  <2> QED BY <2>2, <2>3 DEF Told
<1>2. CASE r # 0
  BY <1>2
<1> QED BY <1>1, <1>2

LEMMA StillTold ==
    ASSUME LineInv, DownTold, Still
    PROVE  DownTold'
<1>0. /\ UNCHANGED <<provider, emit_interim, phase, read, down, gone, cancelled>>
      /\ Delivered' = Delivered
      /\ served' = served \/ \E x \in Frames \cup Ends : served' = Append(served, x)
  BY DEF Still
<1>1. CASE ~(phase = "open" /\ ~gone /\ ~cancelled)
  BY <1>0, <1>1 DEF DownTold
<1>2. CASE phase = "open" /\ ~gone /\ ~cancelled
  <2>1. served \in Seq(Frames \cup Ends) /\ read \in 0..Len(served)
    BY DEF LineInv, LineTypes
  <2>2. \A n \in 1..read : served'[n] = served[n]
    BY <1>0, <2>1, SameWorth
  <2>3. read \in Nat /\ (read # 0 => served[read] = served'[read])
    BY <2>1, <2>2
  <2>4. Told(Delivered, down.hold, down.then, served[read], read)
    BY <1>2 DEF DownTold
  <2>5. Told(Delivered, down.hold, down.then, served'[read], read)
    BY <2>3, <2>4, ToldFrame
  <2> QED BY <1>0, <2>5, SameTold
<1> QED BY <1>1, <1>2

LEMMA ReportTold ==
    ASSUME LineInv, DownTold, UplinkReport, ~gone
    PROVE  DownTold'
<1>0. /\ UNCHANGED <<provider, phase, read, served, got, down, gone, cancelled>>
      /\ out' = Append(out, UplinkError)
  BY DEF UplinkReport, fixed, opening, server, consumer
<1>1. CASE ~(phase = "open" /\ ~gone /\ ~cancelled)
  BY <1>0, <1>1 DEF DownTold
<1>2. CASE phase = "open" /\ ~gone /\ ~cancelled
  <2> DEFINE h == down.hold
             e == Append(Delivered, UplinkError)
  <2>1. Delivered \in Seq(AnyItem) /\ Delivered' = e
    <3>1. UplinkError \in AnyItem
      BY ItemFacts
    <3>2. Delivered' = got \o Append(out, UplinkError)
      BY <1>0 DEF Delivered
    <3> QED BY <3>1, <3>2, DeliveredIs
  <2>2. Told(Delivered, h, down.then, served[read], read)
    BY <1>2 DEF DownTold
  <2> HIDE DEF h
  <2>3. ASSUME NEW S \in {Finals, Dones, DownErrors}
        PROVE  /\ Never(Delivered, h, S) => Never(e, h, S)
               /\ Once(Delivered, h, S) => Once(e, h, S)
               /\ ~Never(Delivered, h, S) => ~Never(e, h, S)
    <3>1. UplinkError \notin S
      BY KindsApart
    <3> QED BY <2>1, <3>1, OfReports
  <2> HIDE DEF e
  <2>4. Told(e, h, down.then, served[read], read)
    BY <2>2, <2>3 DEF Told
  <2> QED BY <1>0, <2>1, <2>4, SameTold DEF h
<1> QED BY <1>1, <1>2

LEMMA SendTold ==
    ASSUME StreamInv, LineInv, DownTold, DownlinkSends
    PROVE  DownTold'
<1> DEFINE h == down.hold
           x == Head(h)
           t == Tail(h)
<1>0. /\ UNCHANGED <<provider, phase, read, served, got, gone, cancelled>>
      /\ out' = Append(out, x) /\ down.pc = "send" /\ ~gone
      /\ down' = Sending(t, down.then)
  BY DEF DownlinkSends, fixed, opening, server, consumer
<1>1. CASE ~(phase = "open" /\ ~gone /\ ~cancelled)
  BY <1>0, <1>1 DEF DownTold
<1>2. CASE phase = "open" /\ ~gone /\ ~cancelled
  <2>h. h \in Seq(AnyItem) /\ h # <<>>
    BY <1>0 DEF LineInv, LineTypes, LineShape, Shape
  <2>d. down'.hold = t /\ down'.then = down.then
    BY <1>0 DEF Sending
  <2>x. x \in AnyItem
    BY <2>h, Beheaded
  <2> DEFINE e == Append(Delivered, x)
  <2>1. Delivered \in Seq(AnyItem) /\ Delivered' = e
    <3>2. Delivered' = got \o Append(out, x)
      BY <1>0 DEF Delivered
    <3> HIDE DEF x
    <3> QED BY <2>x, <3>2, DeliveredIs
  <2>2. Told(Delivered, h, down.then, served[read], read)
    BY <1>2 DEF DownTold
  <2> HIDE DEF h
  <2>3. ASSUME NEW S
        PROVE  /\ Never(Delivered, h, S) => Never(e, t, S)
               /\ Once(Delivered, h, S) => Once(e, t, S)
               /\ ~Never(Delivered, h, S) => ~Never(e, t, S)
    BY <2>1, <2>h, OfMoves
  <2> HIDE DEF e, t
  <2>4. Told(e, t, down.then, served[read], read)
    BY <2>2, <2>3 DEF Told
  <2> QED BY <1>0, <2>1, <2>4, <2>d, SameTold
<1> QED BY <1>1, <1>2

(* The end of the loop: the terminal item, behind the failure if there was *)
(* one.                                                                    *)
LEMMA FinishTold ==
    ASSUME StreamInv, LineInv, DownTold, DownlinkFinish
    PROVE  DownTold'
<1>0. /\ UNCHANGED <<provider, phase, read, served, got, out, gone, cancelled>>
      /\ down.pc = "finish"
      /\ down' = CASE Stt -> Sending(Flush(produced), "ended")
                   [] Eleven -> Sending(<<Item("final", 0)>>, "close")
                   [] Gemini -> Sending(<<Item("done", 0)>>, "ended")
  BY DEF DownlinkFinish, fixed, opening, server, consumer
<1>1. CASE ~(phase = "open" /\ ~gone /\ ~cancelled)
  BY <1>0, <1>1 DEF DownTold
<1>2. CASE phase = "open" /\ ~gone /\ ~cancelled
  <2>r. /\ Stt \/ Eleven \/ Gemini \/ OpenAi
        /\ Stt => ~Eleven /\ ~Gemini
        /\ Eleven => ~Gemini
        /\ ~OpenAi
    <3>1. ~OpenAi
      BY <1>0 DEF StreamInv, DownOk, Goes, OpenAi
    <3> QED BY <3>1, OneRunner DEF StreamInv
  <2>1. Delivered' = Delivered /\ down.hold = <<>> /\ down.then = "finish"
    BY <1>0 DEF Delivered, LineInv, LineShape, Shape
  <2>2. Told(Delivered, <<>>, "finish", served[read], read)
    BY <1>2, <2>1 DEF DownTold
  <2>3. ASSUME NEW S, NEW items, NoneOf(items, S)
        PROVE  /\ Never(Delivered, <<>>, S) => Never(Delivered, items, S)
               /\ Once(Delivered, <<>>, S) => Once(Delivered, items, S)
    BY <2>3, OfFew DEF Never, Once
  <2>4. ASSUME NEW items, NEW label, down' = Sending(items, label),
               Told(Delivered, items, label, served[read], read)
        PROVE  DownTold'
    <3>1. down'.hold = items /\ down'.then = label
      BY <2>4 DEF Sending
    <3> QED BY <1>0, <2>1, <2>4, <3>1, SameTold
  <2>5. CASE Stt
    <3> DEFINE q == Flush(produced)
    <3>1. down' = Sending(q, "ended")
      BY <1>0, <2>5, <2>r, Zenon
    <3>2. produced \in Seq(AnyItem) /\ Without(produced, "err")
      BY <1>2, <2>5 DEF LineInv, LineTypes, LineLast, Closing
    <3>3. /\ q \in Seq(AnyItem) /\ Without(q, "err")
          /\ \E i \in DOMAIN q : q[i].kind = "final"
      BY <3>2, FlushIs, WithoutFlush
    <3> HIDE DEF q
    <3>4. NoneOf(q, DownErrors)
      BY <3>3, ItemFacts DEF NoneOf, DownErrors, Without
    <3>5. ~NoneOf(q, Finals)
      BY <3>3 DEF NoneOf, Finals
    <3>6. Told(Delivered, q, "ended", served[read], read)
      BY <2>2, <2>3, <2>5, <2>r, <3>4, <3>5 DEF Told, Never
    <3> QED BY <2>4, <3>1, <3>6
  <2>6. CASE Eleven
    <3> DEFINE x == Item("final", 0)
    <3>1. down' = Sending(<<x>>, "close")
      BY <1>0, <2>6, <2>r, Zenon
    <3>2. x \notin DownErrors /\ x \in Finals
      BY ItemKind
    <3> HIDE DEF x
    <3>3. NoneOf(<<x>>, DownErrors) /\ OneOf(<<x>>, Finals)
      BY <3>2, OfFew
    <3>4. Never(Delivered, <<>>, Finals)
      BY <2>2, <2>6 DEF Told
    <3>5. Once(Delivered, <<x>>, Finals)
      BY <3>3, <3>4 DEF Never, Once
    <3>6. Told(Delivered, <<x>>, "close", served[read], read)
      BY <2>2, <2>3, <2>6, <2>r, <3>3, <3>5 DEF Told
    <3> QED BY <2>4, <3>1, <3>6
  <2>7. CASE Gemini
    <3> DEFINE x == Item("done", 0)
    <3>1. down' = Sending(<<x>>, "ended")
      BY <1>0, <2>7, <2>r, Zenon
    <3>2. x \notin DownErrors /\ x \in Dones
      BY ItemKind
    <3> HIDE DEF x
    <3>3. NoneOf(<<x>>, DownErrors) /\ OneOf(<<x>>, Dones)
      BY <3>2, OfFew
    <3>4. Never(Delivered, <<>>, Dones)
      BY <2>2, <2>7 DEF Told
    <3>5. Once(Delivered, <<x>>, Dones)
      BY <3>3, <3>4 DEF Never, Once
    <3>6. Told(Delivered, <<x>>, "ended", served[read], read)
      BY <2>2, <2>3, <2>7, <2>r, <3>3, <3>5 DEF Told
    <3> QED BY <2>4, <3>1, <3>6
  <2> QED BY <2>5, <2>6, <2>7, <2>r
<1> QED BY <1>1, <1>2

(* What a frame makes the downlink hold, and whether it is a failure.      *)
LEMMA SttReadTells ==
    ASSUME provider \in Providers, Stt, DownlinkRead
    PROVE  \/ down' = Sending(<<>>, "read")
           \/ down' = Sending(<<>>, "finish") /\ ~SttFailed(served[read + 1])
           \/ /\ \/ down' = Sending(<<DownlinkError>>, "finish")
                 \/ down' = Sending(<<DownlinkError>>, "ended")
              /\ SttFailed(served[read + 1])
<1> DEFINE n == read + 1
           g == served[n]
<1>1. down' = CASE Stt -> SttReads(g)
                [] Eleven -> ElevenReads(g, n)
                [] Gemini -> GeminiReads(g, n)
                [] OpenAi -> OpenAiReads(g, n)
  BY DEF DownlinkRead
<1> HIDE DEF g, n
<1>2. down' = SttReads(g)
  BY <1>1, OneRunner, Zenon
<1>3. \/ SttReads(g) = At("read")
      \/ SttReads(g) = At("finish") /\ ~SttFailed(g)
      \/ SttReads(g) = Sending(<<DownlinkError>>, "finish") /\ SttFailed(g)
      \/ SttReads(g) = Sending(<<DownlinkError>>, "ended") /\ SttFailed(g)
  BY DEF SttReads, SttFailed
<1> QED BY <1>2, <1>3 DEF At, g, n

LEMMA ElevenReadTells ==
    ASSUME provider \in Providers, Eleven, DownlinkRead
    PROVE  \/ down' = Sending(<<>>, "read")
           \/ down' = Sending(<<Item("data", read + 1)>>, "read")
           \/ /\ \/ down' = Sending(<<Item("final", read + 1)>>, "close")
                 \/ down' = Sending(<<>>, "finish")
              /\ ~ElevenFailed(served[read + 1])
           \/ down' = Sending(<<DownlinkError>>, "finish") /\ ElevenFailed(served[read + 1])
<1> DEFINE n == read + 1
           g == served[n]
<1>1. down' = CASE Stt -> SttReads(g)
                [] Eleven -> ElevenReads(g, n)
                [] Gemini -> GeminiReads(g, n)
                [] OpenAi -> OpenAiReads(g, n)
  BY DEF DownlinkRead
<1> HIDE DEF g, n
<1>2. down' = ElevenReads(g, n)
  BY <1>1, OneRunner, Zenon
<1>3. \/ ElevenReads(g, n) = At("read")
      \/ ElevenReads(g, n) = Sending(<<Item("data", n)>>, "read")
      \/ ElevenReads(g, n) = Sending(<<Item("final", n)>>, "close") /\ ~ElevenFailed(g)
      \/ ElevenReads(g, n) = At("finish") /\ ~ElevenFailed(g)
      \/ ElevenReads(g, n) = Sending(<<DownlinkError>>, "finish") /\ ElevenFailed(g)
  BY DEF ElevenReads, ElevenFailed
<1> QED BY <1>2, <1>3 DEF At, g, n

LEMMA GeminiReadTells ==
    ASSUME provider \in Providers, Gemini, DownlinkRead
    PROVE  \/ \E items \in {<<>>, <<Item("data", read + 1)>>, <<Item("final", read + 1)>>,
                            <<Item("data", read + 1), Item("final", read + 1)>>} :
                down' = Sending(items, "read")
           \/ down' = Sending(<<>>, "finish") /\ ~GeminiFailed(served[read + 1])
           \/ down' = Sending(<<DownlinkError>>, "finish") /\ GeminiFailed(served[read + 1])
<1> DEFINE n == read + 1
           g == served[n]
           Few == {<<>>, <<Item("data", n)>>, <<Item("final", n)>>,
                   <<Item("data", n), Item("final", n)>>}
<1>1. down' = CASE Stt -> SttReads(g)
                [] Eleven -> ElevenReads(g, n)
                [] Gemini -> GeminiReads(g, n)
                [] OpenAi -> OpenAiReads(g, n)
  BY DEF DownlinkRead
<1> HIDE DEF g, n
<1>2. down' = GeminiReads(g, n)
  BY <1>1, OneRunner, Zenon
<1>3. \/ GeminiReads(g, n) = At("read")
      \/ GeminiReads(g, n) = At("finish") /\ ~GeminiFailed(g)
      \/ GeminiReads(g, n) = Sending(<<DownlinkError>>, "finish") /\ GeminiFailed(g)
      \/ GeminiReads(g, n) = Sending(<<Item("data", n)>>, "read")
      \/ GeminiReads(g, n) = Sending(<<Item("final", n)>>, "read")
      \/ GeminiReads(g, n) = Sending(<<Item("data", n), Item("final", n)>>, "read")
  <2> DEFINE Closed == g \in {"close_1000", "close_1006", "close_other", "eof"}
  <2>0. Closed => ~GeminiFailed(g)
    BY DEF GeminiFailed
  <2>1. GeminiReads(g, n) =
          CASE g = "audio" -> Sending(<<Item("data", n)>>, "read")
            [] g = "final" -> Sending(<<Item("final", n)>>, "read")
            [] g = "audio_final" -> Sending(<<Item("data", n), Item("final", n)>>, "read")
            [] Closed -> At("finish")
            [] GeminiFailed(g) -> Sending(<<DownlinkError>>, "finish")
            [] OTHER -> At("read")
    BY DEF GeminiReads, GeminiFailed
  <2> HIDE DEF Closed
  <2> QED BY <2>0, <2>1, SMT
<1>4. /\ <<>> \in Few /\ <<Item("data", n)>> \in Few
      /\ <<Item("final", n)>> \in Few /\ <<Item("data", n), Item("final", n)>> \in Few
  OBVIOUS
<1>5. \/ \E i \in Few : down' = Sending(i, "read")
      \/ down' = Sending(<<>>, "finish") /\ ~GeminiFailed(g)
      \/ down' = Sending(<<DownlinkError>>, "finish") /\ GeminiFailed(g)
  <2> HIDE DEF Few
  <2> QED BY <1>2, <1>3, <1>4, Zenon DEF At
<1> QED BY <1>5 DEF n, g

LEMMA ReadTold ==
    ASSUME StreamInv, LineInv, DownTold, DownlinkRead
    PROVE  DownTold'
<1> DEFINE n == read + 1
           g == served[n]
<1>0. /\ UNCHANGED <<provider, phase, served, got, out, gone, cancelled>>
      /\ down.pc = "read" /\ read' = n
  BY DEF DownlinkRead, fixed, opening, server, consumer
<1>1. CASE ~(phase = "open" /\ ~gone /\ ~cancelled)
  BY <1>0, <1>1 DEF DownTold
<1>2. CASE phase = "open" /\ ~gone /\ ~cancelled
  <2>r. /\ Stt \/ Eleven \/ Gemini \/ OpenAi
        /\ Stt => ~Eleven /\ ~Gemini /\ ~OpenAi
        /\ Eleven => ~Gemini /\ ~OpenAi
        /\ Gemini => ~OpenAi
    BY OneRunner DEF StreamInv
  <2>p. provider \in Providers
    BY DEF StreamInv
  <2>t. n \in Nat /\ n > 0
    <3>1. served \in Seq(Frames \cup Ends) /\ read \in 0..Len(served)
      BY DEF LineInv, LineTypes
    <3> QED BY <3>1
  <2>1. Delivered' = Delivered /\ down.hold = <<>> /\ down.then = "read"
    BY <1>0 DEF Delivered, LineInv, LineShape, Shape
  <2>2. Told(Delivered, <<>>, "read", served[read], read)
    BY <1>2, <2>1 DEF DownTold
  <2>3. /\ Stt \/ Eleven \/ Gemini => NoneOf(Delivered, DownErrors)
        /\ Eleven => NoneOf(Delivered, Finals)
        /\ Gemini => NoneOf(Delivered, Dones)
    BY <2>2 DEF Told, Never
  <2>4. ASSUME NEW items, NEW label, down' = Sending(items, label),
               Told(Delivered, items, label, g, n)
        PROVE  DownTold'
    <3>1. down'.hold = items /\ down'.then = label
      BY <2>4 DEF Sending
    <3> QED BY <1>0, <2>1, <2>4, <3>1, SameTold
  <2>k. /\ Item("data", n) \notin DownErrors /\ Item("data", n) \notin Finals
        /\ Item("data", n) \notin Dones
        /\ Item("final", n) \notin DownErrors /\ Item("final", n) \in Finals
        /\ Item("final", n) \notin Dones
        /\ DownlinkError \in DownErrors /\ DownlinkError \notin Finals
        /\ DownlinkError \notin Dones
    BY <2>t, ItemKind, KindsApart
  <2>e. \A S : NoneOf(<<>>, S)
    BY OfFew
  <2>f. \A S, x : (x \notin S => NoneOf(<<x>>, S)) /\ (x \in S => OneOf(<<x>>, S))
    BY OfFew
  <2>g. /\ NoneOf(<<Item("data", n), Item("final", n)>>, Dones)
        /\ NoneOf(<<Item("data", n), Item("final", n)>>, DownErrors)
    BY <2>k, OfFew
  <2>s. "finish" # "read" /\ "ended" # "read" /\ "close" # "read" /\ "finish" # "ended"
        /\ "close" # "ended" /\ "close" # "finish" /\ "ended" # "finish"
    OBVIOUS
  <2>5. CASE Stt
    <3>1. \/ down' = Sending(<<>>, "read")
          \/ down' = Sending(<<>>, "finish") /\ ~SttFailed(g)
          \/ down' = Sending(<<DownlinkError>>, "finish") /\ SttFailed(g)
          \/ down' = Sending(<<DownlinkError>>, "ended") /\ SttFailed(g)
      BY <2>5, <2>p, SttReadTells
    <3> HIDE DEF g, n
    <3>2. Told(Delivered, <<>>, "read", g, n)
      BY <2>3, <2>5, <2>e, <2>r DEF Told, Never
    <3>3. ~SttFailed(g) => Told(Delivered, <<>>, "finish", g, n)
      BY <2>3, <2>5, <2>e, <2>r, <2>t DEF Told, Never
    <3>4. Once(Delivered, <<DownlinkError>>, DownErrors)
      BY <2>3, <2>5, <2>f, <2>k DEF Once
    <3>5. SttFailed(g) => /\ Told(Delivered, <<DownlinkError>>, "finish", g, n)
                          /\ Told(Delivered, <<DownlinkError>>, "ended", g, n)
      BY <2>5, <2>r, <2>t, <3>4 DEF Told
    <3> QED BY <2>4, <3>1, <3>2, <3>3, <3>5
  <2>6. CASE Eleven
    <3>1. \/ down' = Sending(<<>>, "read")
          \/ down' = Sending(<<Item("data", n)>>, "read")
          \/ down' = Sending(<<Item("final", n)>>, "close") /\ ~ElevenFailed(g)
          \/ down' = Sending(<<>>, "finish") /\ ~ElevenFailed(g)
          \/ down' = Sending(<<DownlinkError>>, "finish") /\ ElevenFailed(g)
      BY <2>6, <2>p, ElevenReadTells
    <3> HIDE DEF g, n
    <3>2. Told(Delivered, <<>>, "read", g, n)
      BY <2>3, <2>6, <2>e, <2>r DEF Told, Never
    <3>3. Told(Delivered, <<Item("data", n)>>, "read", g, n)
      BY <2>3, <2>6, <2>f, <2>k, <2>r DEF Told, Never
    <3>4. ASSUME ~ElevenFailed(g)
          PROVE  Told(Delivered, <<Item("final", n)>>, "close", g, n)
      <4>1. Never(Delivered, <<Item("final", n)>>, DownErrors)
        BY <2>3, <2>6, <2>f, <2>k DEF Never
      <4>2. Once(Delivered, <<Item("final", n)>>, Finals)
        BY <2>3, <2>6, <2>f, <2>k DEF Once
      <4> QED BY <2>6, <2>r, <2>t, <3>4, <4>1, <4>2 DEF Told
    <3>5. ~ElevenFailed(g) => Told(Delivered, <<>>, "finish", g, n)
      BY <2>3, <2>6, <2>e, <2>r, <2>t DEF Told, Never
    <3>6. ASSUME ElevenFailed(g)
          PROVE  Told(Delivered, <<DownlinkError>>, "finish", g, n)
      <4>1. Once(Delivered, <<DownlinkError>>, DownErrors)
        BY <2>3, <2>6, <2>f, <2>k DEF Once
      <4>2. Never(Delivered, <<DownlinkError>>, Finals)
        BY <2>3, <2>6, <2>f, <2>k DEF Never
      <4> QED BY <2>6, <2>r, <2>t, <3>6, <4>1, <4>2 DEF Told
    <3> QED BY <2>4, <3>1, <3>2, <3>3, <3>4, <3>5, <3>6
  <2>7. CASE Gemini
    <3> DEFINE Few == {<<>>, <<Item("data", n)>>, <<Item("final", n)>>,
                       <<Item("data", n), Item("final", n)>>}
    <3>1. \/ \E items \in Few : down' = Sending(items, "read")
          \/ down' = Sending(<<>>, "finish") /\ ~GeminiFailed(g)
          \/ down' = Sending(<<DownlinkError>>, "finish") /\ GeminiFailed(g)
      BY <2>7, <2>p, GeminiReadTells
    <3> HIDE DEF g, n
    <3>2. ASSUME NEW items \in Few
          PROVE  Told(Delivered, items, "read", g, n)
      <4>1. NoneOf(items, Dones) /\ NoneOf(items, DownErrors)
        BY <2>e, <2>f, <2>g, <2>k, Zenon
      <4> QED BY <2>3, <2>7, <2>r, <4>1 DEF Told, Never
    <3>3. ~GeminiFailed(g) => Told(Delivered, <<>>, "finish", g, n)
      BY <2>3, <2>7, <2>e, <2>r, <2>t DEF Told, Never
    <3>4. ASSUME GeminiFailed(g)
          PROVE  Told(Delivered, <<DownlinkError>>, "finish", g, n)
      <4>1. Once(Delivered, <<DownlinkError>>, DownErrors)
        BY <2>3, <2>7, <2>f, <2>k DEF Once
      <4>2. Never(Delivered, <<DownlinkError>>, Dones)
        BY <2>3, <2>7, <2>f, <2>k DEF Never
      <4> QED BY <2>7, <2>r, <2>t, <3>4, <4>1, <4>2 DEF Told
    <3> HIDE DEF Few
    <3> QED BY <2>4, <3>1, <3>2, <3>3, <3>4
  <2>8. CASE OpenAi
    <3>1. \A d, h, then, frame, r : Told(d, h, then, frame, r)
      BY <2>8, <2>r DEF Told
    <3> QED BY <1>0, <3>1, SameTold
  <2> QED BY <2>5, <2>6, <2>7, <2>8, <2>r
<1> QED BY <1>1, <1>2

(* The other steps of the downlink, and the opening.                       *)
LEMMA BlankTold ==
    ASSUME provider' = provider, NEW label, down' = At(label),
           got' = <<>>, out' = <<>>,
           Gemini => label = "start", ~Gemini => label = "read"
    PROVE  DownTold'
<1>1. Delivered' = <<>>
  BY DEF Delivered
<1>2. down'.hold = <<>> /\ down'.then = label
  BY DEF At, Sending
<1>3. \A S : Never(<<>>, <<>>, S)
  BY OfFew DEF Never
<1>4. ~(Stt /\ Gemini) /\ ~(Eleven /\ Gemini)
  BY DEF Stt, Eleven, Gemini
<1>5. label = "start" \/ label = "read"
  OBVIOUS
<1>6. ASSUME NEW frame, NEW r PROVE Told(<<>>, <<>>, label, frame, r)
  BY <1>3, <1>4, <1>5 DEF Told
<1>7. Told(Delivered', down'.hold, down'.then, served'[read'], read')
  BY <1>1, <1>2, <1>6
<1> QED BY <1>7, SameTold

LEMMA TurnTold ==
    ASSUME StreamInv, LineInv, DownTold,
           \/ StartAdapter \/ ElevenCloses \/ AdapterDrained \/ Cancel \/ AdapterTake
    PROVE  DownTold'
<1>r. /\ Stt => ~Eleven /\ ~Gemini /\ ~OpenAi
      /\ Eleven => ~Gemini /\ ~OpenAi
      /\ Gemini => ~OpenAi
  BY OneRunner DEF StreamInv
<1>0. /\ UNCHANGED <<provider, phase, read, served, got, out, gone>>
      /\ Delivered' = Delivered
  BY DEF StartAdapter, ElevenCloses, AdapterDrained, Cancel, AdapterTake, fixed, opening,
         server, consumer, Delivered
<1>1. CASE Cancel
  <2>1. cancelled'
    BY <1>1 DEF Cancel
  <2> QED BY <2>1 DEF DownTold
<1>2. CASE AdapterDrained \/ AdapterTake
  <2>1. OpenAi
    BY <1>2 DEF AdapterDrained, AdapterTake
  <2>2. \A d, h, then, frame, r : Told(d, h, then, frame, r)
    BY <1>r, <2>1 DEF Told
  <2> QED BY <1>0, <2>2, SameTold
<1>3. ASSUME NEW from, NEW to, down.pc = from, down' = At(to), cancelled' = cancelled,
             from \notin {"send", "off"},
             Told(Delivered, <<>>, from, served[read], read)
               => Told(Delivered, <<>>, to, served[read], read)
      PROVE  DownTold'
  <2>1. down.hold = <<>> /\ down.then = from
    BY <1>3 DEF LineInv, LineShape, Shape
  <2>2. down'.hold = <<>> /\ down'.then = to
    BY <1>3 DEF At, Sending
  <2>3. CASE ~(phase = "open" /\ ~gone /\ ~cancelled)
    BY <1>0, <1>3, <2>3 DEF DownTold
  <2>4. CASE phase = "open" /\ ~gone /\ ~cancelled
    <3>1. Told(Delivered, <<>>, to, served[read], read)
      BY <1>3, <2>1, <2>4 DEF DownTold
    <3> QED BY <1>0, <2>2, <3>1, SameTold
  <2> QED BY <2>3, <2>4
<1>4. CASE StartAdapter
  <2>1. down.pc = "start" /\ down' = At("read") /\ cancelled' = cancelled
    BY <1>4 DEF StartAdapter
  <2>2. Gemini
    BY <2>1 DEF StreamInv, DownOk, Goes, Gemini
  <2>3. Told(Delivered, <<>>, "start", served[read], read)
          => Told(Delivered, <<>>, "read", served[read], read)
    BY <1>r, <2>2 DEF Told
  <2>4. "start" \notin {"send", "off"}
    OBVIOUS
  <2> QED BY <1>3, <2>1, <2>3, <2>4
<1>5. CASE ElevenCloses
  <2>1. down.pc = "close" /\ down' = At("ended") /\ cancelled' = cancelled
    BY <1>5 DEF ElevenCloses
  <2>2. Eleven
    BY <2>1 DEF StreamInv, DownOk, Goes, Eleven
  <2>3. Told(Delivered, <<>>, "close", served[read], read)
          => Told(Delivered, <<>>, "ended", served[read], read)
    BY <1>r, <2>2 DEF Told
  <2>4. "close" \notin {"send", "off"}
    OBVIOUS
  <2> QED BY <1>3, <2>1, <2>3, <2>4
<1> QED BY <1>1, <1>2, <1>4, <1>5

LEMMA OpenTold ==
    ASSUME StreamInv, LineInv, DownTold, Open \/ AwaitSetup
    PROVE  DownTold'
<1>1. CASE Open
  <2>0. Opens
    BY <1>1, OpenOpens
  <2>1. CASE phase' # "open"
    BY <2>1 DEF DownTold
  <2>2. CASE phase' = "open"
    <3>1. /\ provider' = provider /\ got' = got /\ out' = out /\ phase = "idle"
          /\ ~Gemini /\ down' = At("read")
      BY <2>0, <2>2 DEF Opens
    <3>2. got = <<>> /\ out = <<>>
      BY <3>1 DEF LineInv, LineShape
    <3> QED BY <3>1, <3>2, BlankTold
  <2> QED BY <2>1, <2>2
<1>2. CASE AwaitSetup
  <2>0. /\ provider' = provider /\ got' = got /\ out' = out /\ phase = "setup"
        /\ phase' = "open" => down' = At("start")
    BY <1>2 DEF AwaitSetup, Refused, fixed, consumer
  <2>1. CASE phase' # "open"
    BY <2>1 DEF DownTold
  <2>2. CASE phase' = "open"
    <3>1. Gemini
      BY <2>0 DEF StreamInv, Unopened
    <3>2. got = <<>> /\ out = <<>>
      BY <2>0 DEF LineInv, LineShape
    <3> QED BY <2>0, <2>2, <3>1, <3>2, BlankTold
  <2> QED BY <2>1, <2>2
<1> QED BY <1>1, <1>2

LEMMA DownToldStep ==
    ASSUME StreamInv, LineInv, DownTold, [Next]_vars
    PROVE  DownTold'
<1>1. CASE Open \/ AwaitSetup
  BY <1>1, OpenTold
<1>2. CASE DownlinkRead
  BY <1>2, ReadTold
<1>3. CASE DownlinkFinish
  BY <1>3, FinishTold
<1>4. CASE DownlinkSends
  BY <1>4, SendTold
<1>5. CASE DownlinkSendFails \/ DropStream
  <2>1. gone'
    BY <1>5 DEF DownlinkSendFails, DropStream, consumer
  <2> QED BY <2>1 DEF DownTold
<1>6. CASE UplinkReport /\ ~gone
  BY <1>6, ReportTold
<1>7. CASE StartAdapter \/ ElevenCloses \/ AdapterDrained \/ Cancel \/ AdapterTake
  BY <1>7, TurnTold
<1>8. CASE \/ UplinkTake \/ UplinkDrained \/ (UplinkReport /\ gone)
           \/ (\E m \in Messages : Feed(m))
           \/ CloseInput \/ Serve \/ Consume \/ UNCHANGED vars
  <2>1. Still
    BY <1>8, OthersAreStill
  <2> QED BY <2>1, StillTold
<1>9. Quiescent => UNCHANGED vars
  BY DEF Quiescent
<1> QED BY <1>1, <1>2, <1>3, <1>4, <1>5, <1>6, <1>7, <1>8, <1>9, Zenon
           DEF Next, UplinkTask, DownlinkTask

-----------------------------------------------------------------------------
(***************************************************************************)
(* The uplink's part.  The other tasks, the caller, the provider and the   *)
(* consumer neither report for the uplink nor change what it has taken.    *)
(***************************************************************************)
UpKept ==
    /\ UNCHANGED <<provider, phase, up, taken>>
    /\ input_open' => input_open
    /\ fed' = fed \/ (input_open /\ \E m \in Messages : fed' = Append(fed, m))
    /\ gone => gone'
    /\ Gemini /\ down'.then = "start" => down.then = "start" /\ down'.hold = <<>>
    /\ phase = "open" /\ ~gone' =>
         /\ NoneOf(Delivered, UpErrors) => NoneOf(Delivered', UpErrors)
         /\ OneOf(Delivered, UpErrors) => OneOf(Delivered', UpErrors)
         /\ NoneOf(down'.hold, UpErrors)

(* The runners without an uplink of their own have nothing to tell.        *)
LEMMA NoUplink ==
    ASSUME provider' = provider, ~Stt, ~Gemini
    PROVE  UpTold'
<1>1. ~Stt' /\ ~Gemini'
  BY SameRunner
<1> QED BY <1>1 DEF UpTold

LEMMA SameUpErrors ==
    UpErrors' = UpErrors
BY DEF UpErrors, UplinkError

LEMMA UpKeptKeeps ==
    ASSUME StreamInv, UpTold, UpKept
    PROVE  UpTold'
<1>0. /\ UNCHANGED <<provider, phase, up, taken>>
      /\ input_open' => input_open
      /\ fed' = fed \/ (input_open /\ \E m \in Messages : fed' = Append(fed, m))
      /\ ~gone' => ~gone
  BY DEF UpKept
<1>s. Stt' = Stt /\ Gemini' = Gemini /\ UpErrors' = UpErrors
  BY <1>0, SameRunner, SameUpErrors
<1>1. /\ Disliked' = Disliked
      /\ taken = Len(fed) /\ ~input_open => taken' = Len(fed') /\ ~input_open'
  <2>1. fed \in Seq(Messages) /\ taken \in 0..Len(fed)
    BY DEF StreamInv, WireOk
  <2>2. taken > 0 => fed'[taken] = fed[taken]
    <3>1. ASSUME NEW m \in Messages, fed' = Append(fed, m), taken > 0
          PROVE  fed'[taken] = fed[taken]
      BY <2>1, <3>1
    <3> QED BY <1>0, <3>1
  <2> QED BY <1>0, <2>2 DEF Disliked
<1>2. CASE phase = "open" /\ ~gone' /\ (Stt \/ Gemini)
  <2>1. /\ NoneOf(Delivered, UpErrors) => NoneOf(Delivered', UpErrors)
        /\ OneOf(Delivered, UpErrors) => OneOf(Delivered', UpErrors)
        /\ NoneOf(down'.hold, UpErrors)
    BY <1>2 DEF UpKept
  <2>2. /\ up # "ended" => NoneOf(Delivered', UpErrors)
        /\ Stt /\ up = "ended" =>
             OneOf(Delivered', UpErrors) \/ (taken' = Len(fed') /\ ~input_open')
        /\ Gemini /\ up = "ended" =>
             /\ Disliked => OneOf(Delivered', UpErrors)
             /\ ~Disliked => NoneOf(Delivered', UpErrors)
    BY <1>0, <1>1, <1>2, <2>1 DEF UpTold
  <2>3. /\ Gemini /\ up = "off" => taken = 0
        /\ Stt /\ phase = "open" => up # "off"
        /\ Gemini /\ up = "run" => ~Disliked
        /\ Gemini /\ up = "report" => Disliked
        /\ Gemini /\ down'.then = "start" => up = "off" /\ down'.hold = <<>>
    BY DEF UpTold, UpKept
  <2> QED BY <1>0, <1>1, <1>s, <2>1, <2>2, <2>3 DEF UpTold
<1>3. CASE ~(phase = "open" /\ ~gone' /\ (Stt \/ Gemini))
  <2>3. /\ Gemini /\ up = "off" => taken = 0
        /\ Stt /\ phase = "open" => up # "off"
        /\ Gemini /\ up = "run" => ~Disliked
        /\ Gemini /\ up = "report" => Disliked
        /\ Gemini /\ down'.then = "start" => up = "off" /\ down'.hold = <<>>
    BY DEF UpTold, UpKept
  <2> QED BY <1>0, <1>1, <1>3, <1>s, <2>3 DEF UpTold
<1> QED BY <1>2, <1>3

(* The caller, the provider, the consumer and a cancel.                    *)
LEMMA OutsideKeepsUp ==
    ASSUME StreamInv, LineInv, UpTold,
           \/ (\E m \in Messages : Feed(m)) \/ CloseInput \/ Serve \/ Consume
           \/ DropStream \/ Cancel \/ UNCHANGED vars
    PROVE  UpKept \/ (~Stt /\ ~Gemini)
<1> SUFFICES ASSUME Stt \/ Gemini PROVE UpKept
  OBVIOUS
<1>1. /\ UNCHANGED <<provider, phase, up, taken>>
      /\ input_open' => input_open
      /\ fed' = fed \/ (input_open /\ \E m \in Messages : fed' = Append(fed, m))
      /\ gone => gone'
  BY DEF Feed, CloseInput, Serve, Consume, DropStream, Cancel, vars, fixed, opening, caller,
         consumer
<1>2. down' = down \/ down' = At("ended")
  BY DEF Feed, CloseInput, Serve, Consume, DropStream, Cancel, vars
<1>3. At("ended").hold = <<>> /\ At("ended").then = "ended"
  BY AtShape
<1>4. Gemini /\ down'.then = "start" => down.then = "start" /\ down'.hold = <<>>
  BY <1>2, <1>3 DEF UpTold
<1>5. ASSUME phase = "open", ~gone' PROVE NoneOf(down'.hold, UpErrors)
  BY <1>1, <1>2, <1>3, <1>5, OfFew DEF UpTold
<1>6. ~gone' => Delivered' = Delivered
  <2>1. CASE Consume
    <3>1. /\ out # <<>> /\ got' = Append(got, Head(out)) /\ out' = Tail(out)
      BY <2>1 DEF Consume
    <3>2. Append(got, Head(out)) \o Tail(out) = Delivered
      BY <3>1, DeliveredIs
    <3> QED BY <3>1, <3>2 DEF Delivered
  <2>2. CASE DropStream
    BY <2>2 DEF DropStream
  <2>3. CASE got' = got /\ out' = out
    BY <2>3 DEF Delivered
  <2> QED BY <2>1, <2>2, <2>3 DEF Feed, CloseInput, Serve, Cancel, vars, consumer
<1> QED BY <1>1, <1>4, <1>5, <1>6 DEF UpKept

(* The downlink holds nothing of the uplink's, and passes on what it holds. *)
LEMMA DownlinkKeepsUp ==
    ASSUME StreamInv, LineInv, UpTold,
           DownlinkRead \/ DownlinkFinish \/ DownlinkSends \/ DownlinkSendFails
    PROVE  UpKept \/ (~Stt /\ ~Gemini)
<1> SUFFICES ASSUME Stt \/ Gemini PROVE UpKept
  OBVIOUS
<1>r. /\ Stt => ~Eleven /\ ~Gemini /\ ~OpenAi
      /\ Gemini => ~Eleven /\ ~OpenAi
      /\ provider \in Providers
  BY OneRunner DEF StreamInv
<1>t. /\ produced \in Seq(AnyItem) /\ down.hold \in Seq(AnyItem) /\ read \in Nat
  BY DEF LineInv, LineTypes
<1>0. /\ UNCHANGED <<provider, phase, up, taken, fed, input_open, gone, got>>
  BY DEF DownlinkRead, DownlinkFinish, DownlinkSends, DownlinkSendFails, fixed, opening,
         caller, consumer
<1>1. ASSUME NEW items, NEW label, down' = Sending(items, label), out' = out,
             label # "start", phase = "open" /\ ~gone' => NoneOf(items, UpErrors)
      PROVE  UpKept
  <2>1. down'.hold = items /\ down'.then = label
    BY <1>1 DEF Sending
  <2>2. Delivered' = Delivered
    BY <1>0, <1>1 DEF Delivered
  <2> QED BY <1>0, <1>1, <2>1, <2>2 DEF UpKept
<1>k. /\ DownlinkError \notin UpErrors
      /\ Item("data", read + 1) \notin UpErrors /\ Item("final", read + 1) \notin UpErrors
      /\ Item("done", 0) \notin UpErrors
  <2>1. read + 1 \in Nat /\ 0 \in Nat
    BY <1>t
  <2> QED BY <2>1, ItemKind, KindsApart
<1>2. CASE DownlinkRead
  <2>0. out' = out
    BY <1>2 DEF DownlinkRead
  <2>1. CASE Stt
    <3>1. \E items \in {<<>>, <<DownlinkError>>}, label \in {"read", "finish", "ended"} :
             down' = Sending(items, label)
      BY <1>2, <1>r, <2>1, SttReadTells
    <3>2. PICK items \in {<<>>, <<DownlinkError>>}, label \in {"read", "finish", "ended"} :
             down' = Sending(items, label)
      BY <3>1
    <3>3. NoneOf(items, UpErrors)
      BY <1>k, OfFew
    <3>4. label # "start"
      OBVIOUS
    <3> QED BY <1>1, <2>0, <3>2, <3>3, <3>4
  <2>2. CASE Gemini
    <3> DEFINE x == Item("data", read + 1)
               y == Item("final", read + 1)
    <3>1. PICK items \in {<<>>, <<DownlinkError>>, <<x>>, <<y>>, <<x, y>>},
               label \in {"read", "finish"} :
            down' = Sending(items, label)
      BY <1>2, <1>r, <2>2, GeminiReadTells
    <3>2. /\ DownlinkError \notin UpErrors /\ x \notin UpErrors /\ y \notin UpErrors
      BY <1>k
    <3> HIDE DEF x, y
    <3>3. /\ NoneOf(<<>>, UpErrors) /\ NoneOf(<<DownlinkError>>, UpErrors)
          /\ NoneOf(<<x>>, UpErrors) /\ NoneOf(<<y>>, UpErrors) /\ NoneOf(<<x, y>>, UpErrors)
      BY <3>2, OfFew
    <3>4. NoneOf(items, UpErrors)
      BY <3>3, Zenon
    <3>5. label # "start"
      OBVIOUS
    <3> QED BY <1>1, <2>0, <3>1, <3>4, <3>5
  <2> QED BY <2>1, <2>2
<1>3. CASE DownlinkFinish
  <2>0. /\ out' = out
        /\ down' = CASE Stt -> Sending(Flush(produced), "ended")
                     [] Eleven -> Sending(<<Item("final", 0)>>, "close")
                     [] Gemini -> Sending(<<Item("done", 0)>>, "ended")
    BY <1>3 DEF DownlinkFinish
  <2>s. "ended" # "start"
    OBVIOUS
  <2>1. CASE Stt
    <3> DEFINE q == Flush(produced)
    <3>1. down' = Sending(q, "ended")
      BY <1>r, <2>0, <2>1, Zenon
    <3>2. ASSUME phase = "open", ~gone PROVE NoneOf(q, UpErrors)
      <4>1. Without(produced, "err")
        BY <2>1, <3>2 DEF LineInv, LineLast, Closing
      <4>2. Without(q, "err")
        BY <1>t, <4>1, WithoutFlush
      <4> HIDE DEF q
      <4> QED BY <4>2, ItemFacts DEF NoneOf, UpErrors, Without
    <3> HIDE DEF q
    <3> QED BY <1>0, <1>1, <2>0, <2>s, <3>1, <3>2
  <2>2. CASE Gemini
    <3> DEFINE x == Item("done", 0)
    <3>1. down' = Sending(<<x>>, "ended")
      BY <1>r, <2>0, <2>2, Zenon
    <3>2. x \notin UpErrors
      BY <1>k
    <3> HIDE DEF x
    <3>3. NoneOf(<<x>>, UpErrors)
      BY <3>2, OfFew
    <3> QED BY <1>1, <2>0, <2>s, <3>1, <3>3
  <2> QED BY <2>1, <2>2
<1>4. CASE DownlinkSends
  <2> DEFINE h == down.hold
             x == Head(h)
             t == Tail(h)
             e == Append(Delivered, x)
  <2>0. /\ out' = Append(out, x) /\ down.pc = "send" /\ ~gone
        /\ down' = Sending(t, down.then)
    BY <1>4 DEF DownlinkSends
  <2>h. h \in Seq(AnyItem) /\ h # <<>>
    BY <2>0 DEF LineInv, LineTypes, LineShape, Shape
  <2>d. down'.hold = t /\ down'.then = down.then
    BY <2>0 DEF Sending
  <2>x. x \in AnyItem
    BY <2>h, Beheaded
  <2>1. Delivered \in Seq(AnyItem) /\ Delivered' = e
    <3>2. Delivered' = got \o Append(out, x)
      BY <1>0, <2>0 DEF Delivered
    <3> HIDE DEF x
    <3> QED BY <2>x, <3>2, DeliveredIs
  <2>2. Gemini => down.then # "start"
    BY <2>h DEF UpTold
  <2>3. phase = "open" => NoneOf(h, UpErrors)
    BY <2>0 DEF UpTold
  <2>4. NoneOf(h, UpErrors) => NoneOf(t, UpErrors) /\ x \notin UpErrors
    BY <2>h, OfTail
  <2>5. x \notin UpErrors =>
          /\ NoneOf(Delivered, UpErrors) => NoneOf(e, UpErrors)
          /\ OneOf(Delivered, UpErrors) => OneOf(e, UpErrors)
    <3> HIDE DEF x
    <3> QED BY <2>1, <2>x, OfAppends
  <2> HIDE DEF h, x, t, e
  <2> QED BY <1>0, <2>1, <2>2, <2>3, <2>4, <2>5, <2>d DEF UpKept
<1>5. CASE DownlinkSendFails
  <2> DEFINE item == Head(down.hold)
  <2>0. /\ gone /\ down.pc = "send"
        /\ down' = CASE Stt /\ item.kind # "err" -> At("ended")
                     [] Eleven /\ item.n > 0 -> At("finish")
                     [] Gemini /\ item.kind = "data" -> At("ended")
                     [] OTHER -> Sending(Tail(down.hold), down.then)
    BY <1>5 DEF DownlinkSendFails
  <2>1. Gemini => down.then # "start"
    BY <2>0 DEF UpTold, LineInv, LineShape, Shape
  <2>2. down' = At("ended") \/ down' = Sending(Tail(down.hold), down.then)
    BY <1>r, <2>0
  <2>3. down'.then = "ended" \/ down'.then = down.then
    BY <2>2 DEF At, Sending
  <2> QED BY <1>0, <2>0, <2>1, <2>3 DEF UpKept
<1> QED BY <1>2, <1>3, <1>4, <1>5

(* What the uplink does itself.                                            *)
LEMMA TakeTold ==
    ASSUME StreamInv, LineInv, UpTold, UplinkTake
    PROVE  UpTold'
<1> DEFINE n == taken + 1
<1>0. /\ UNCHANGED <<provider, phase, fed, input_open, down, got, out, gone>>
      /\ up = "run" /\ taken < Len(fed) /\ taken' = n
      /\ (Stt /\ SttTake(n)) \/ (Gemini /\ GeminiTake(n))
  BY DEF UplinkTake, fixed, opening, caller, consumer
<1>s. Stt' = Stt /\ Gemini' = Gemini /\ UpErrors' = UpErrors /\ Delivered' = Delivered
  BY <1>0, SameRunner, SameUpErrors DEF Delivered
<1>r. ~(Stt /\ Gemini)
  BY OneRunner DEF StreamInv
<1>t. n > 0 /\ n # 0 /\ phase = "open"
  <2>1. taken \in Nat
    BY DEF StreamInv, WireOk
  <2>2. phase = "open"
    BY <1>0 DEF LineInv, LineShape
  <2> QED BY <2>1, <2>2
<1>1. /\ ~gone => NoneOf(Delivered, UpErrors) /\ NoneOf(down.hold, UpErrors)
      /\ Gemini => down.then # "start"
  BY <1>0, <1>t DEF UpTold
<1>2. CASE Stt
  <2>1. up' = up \/ up' = "report"
    BY <1>0, <1>2, <1>r DEF SttTake
  <2> QED BY <1>0, <1>1, <1>2, <1>r, <1>s, <2>1 DEF UpTold
<1>3. CASE Gemini
  <2>1. Disliked' = (fed[n] \in {"bad_format", "interrupt"})
    BY <1>0, <1>t DEF Disliked
  <2>2. GeminiSends(fed[n]) # <<>> => fed[n] \notin {"bad_format", "interrupt"}
    BY DEF GeminiSends
  <2>3. \/ up' \in {"run", "ended"} /\ ~Disliked'
        \/ up' = "report" /\ Disliked'
    <3>1. GeminiTake(n)
      BY <1>0, <1>3, <1>r
    <3> QED BY <1>0, <2>1, <2>2, <3>1 DEF GeminiTake
  <2>4. up' # "off"
    BY <2>3
  <2> QED BY <1>0, <1>1, <1>3, <1>r, <1>s, <2>3, <2>4 DEF UpTold
<1> QED BY <1>0, <1>2, <1>3

LEMMA DrainedTold ==
    ASSUME StreamInv, LineInv, UpTold, UplinkDrained
    PROVE  UpTold'
<1>0. /\ UNCHANGED <<provider, phase, fed, taken, input_open, down, got, out, gone>>
      /\ up = "run" /\ up' = "ended" /\ taken = Len(fed) /\ ~input_open
  BY DEF UplinkDrained, fixed, opening, caller, consumer
<1>s. /\ Stt' = Stt /\ Gemini' = Gemini /\ UpErrors' = UpErrors /\ Delivered' = Delivered
      /\ Disliked' = Disliked
  BY <1>0, SameRunner, SameUpErrors DEF Delivered, Disliked
<1>1. /\ phase = "open"
      /\ ~gone /\ (Stt \/ Gemini) => NoneOf(Delivered, UpErrors) /\ NoneOf(down.hold, UpErrors)
      /\ Gemini => down.then # "start" /\ ~Disliked
  BY <1>0 DEF UpTold, LineInv, LineShape
<1> QED BY <1>0, <1>1, <1>s DEF UpTold

LEMMA ReportsTold ==
    ASSUME StreamInv, LineInv, UpTold, UplinkReport
    PROVE  UpTold'
<1>0. /\ UNCHANGED <<provider, phase, fed, taken, input_open, down, got, gone>>
      /\ up = "report" /\ up' = "ended"
      /\ gone \/ out' = Append(out, UplinkError)
  BY DEF UplinkReport, fixed, opening, caller, consumer
<1>s. /\ Stt' = Stt /\ Gemini' = Gemini /\ UpErrors' = UpErrors /\ Disliked' = Disliked
  BY <1>0, SameRunner, SameUpErrors DEF Disliked
<1>1. /\ phase = "open"
      /\ ~gone /\ (Stt \/ Gemini) => NoneOf(Delivered, UpErrors) /\ NoneOf(down.hold, UpErrors)
      /\ Gemini => down.then # "start" /\ Disliked
  BY <1>0 DEF UpTold, LineInv, LineShape
<1>2. ASSUME ~gone, Stt \/ Gemini
      PROVE  OneOf(Delivered', UpErrors)
  <2>1. UplinkError \in AnyItem /\ UplinkError \in UpErrors
    BY ItemFacts DEF UpErrors
  <2>2. Delivered' = got \o Append(out, UplinkError)
    BY <1>0, <1>2 DEF Delivered
  <2>3. Delivered \in Seq(AnyItem) /\ Delivered' = Append(Delivered, UplinkError)
    BY <2>1, <2>2, DeliveredIs
  <2> QED BY <1>1, <1>2, <2>1, <2>3, OfAppends
<1> QED BY <1>0, <1>1, <1>2, <1>s DEF UpTold

LEMMA StartTold ==
    ASSUME StreamInv, LineInv, UpTold, StartAdapter
    PROVE  UpTold'
<1>0. /\ UNCHANGED <<provider, phase, fed, taken, input_open, got, out, gone>>
      /\ down.pc = "start" /\ up' = "run" /\ down' = At("read")
  BY DEF StartAdapter, fixed, opening, caller, consumer
<1>s. /\ Stt' = Stt /\ Gemini' = Gemini /\ UpErrors' = UpErrors /\ Delivered' = Delivered
      /\ Disliked' = Disliked
  BY <1>0, SameRunner, SameUpErrors DEF Delivered, Disliked
<1>1. Gemini /\ ~Stt
  BY <1>0, OneRunner DEF StreamInv, DownOk, Goes, Gemini
<1>2. down.then = "start"
  BY <1>0 DEF LineInv, LineShape, Shape
<1>3. up = "off" /\ taken = 0 /\ ~Disliked
  BY <1>1, <1>2 DEF UpTold, Disliked
<1>4. down'.hold = <<>> /\ down'.then = "read"
  BY <1>0, AtShape
<1>5. phase = "open" /\ ~gone => NoneOf(Delivered, UpErrors)
  BY <1>1, <1>3 DEF UpTold
<1>6. NoneOf(<<>>, UpErrors)
  BY OfFew
<1> QED BY <1>0, <1>1, <1>3, <1>4, <1>5, <1>6, <1>s DEF UpTold

LEMMA OpensUplink ==
    ASSUME StreamInv, Open
    PROVE  Stt /\ phase' = "open" => up' = "run"
<1> SUFFICES ASSUME Stt, phase' = "open" PROVE up' = "run"
  OBVIOUS
<1>1. ASSUME NEW r, Opening(r, <<>>, "open", "run", At("read"))
      PROVE  up' = "run"
  BY <1>1 DEF Opening, Refused
<1>2. ~Eleven /\ ~OpenAi /\ ~Gemini
  BY OneRunner DEF StreamInv
<1>3. \E r : Opening(r, <<>>, "open", "run", At("read"))
  BY <1>2, Zenon DEF Open, OpenDeepgram, OpenAssemblyAi, OpenElevenLabs, OpenOpenAi, OpenGemini
<1> QED BY <1>1, <1>3

LEMMA OpeningUpTold ==
    ASSUME StreamInv, LineInv, UpTold, Open \/ AwaitSetup
    PROVE  UpTold'
<1>0. /\ UNCHANGED <<provider, fed, taken, input_open, got, out, gone>>
  BY DEF Open, OpenDeepgram, OpenAssemblyAi, OpenElevenLabs, OpenOpenAi, OpenGemini, Opening,
         AwaitSetup, fixed, caller, consumer
<1>s. Stt' = Stt /\ Gemini' = Gemini
  BY <1>0, SameRunner
<1>e. NoneOf(<<>>, UpErrors') /\ ~(Stt /\ Gemini)
  BY OfFew, OneRunner DEF StreamInv
<1>1. CASE Open
  <2>0. /\ phase = "idle"
        /\ \/ phase' # "open" /\ down' = down /\ up' = up
           \/ phase' = "open" /\ ~Gemini /\ down' = At("read")
    BY <1>1, OpenOpens DEF Opens
  <2>1. taken = 0 /\ up = "off" /\ got = <<>> /\ out = <<>> /\ down = Off
    BY <2>0 DEF StreamInv, Unopened, LineInv, LineShape
  <2>2. Delivered' = <<>> /\ ~Disliked'
    BY <1>0, <2>1 DEF Delivered, Disliked
  <2>3. CASE phase' # "open"
    <3>1. down'.then = "ended"
      BY <2>0, <2>1, <2>3 DEF Off
    <3> QED BY <1>0, <2>0, <2>1, <2>3, <3>1 DEF UpTold
  <2>4. CASE phase' = "open"
    <3>1. down'.then = "read" /\ down'.hold = <<>>
      BY <2>0, <2>4, AtShape
    <3>2. ~Gemini' /\ (Stt' => up' = "run")
      BY <1>1, <1>s, <2>0, <2>4, OpensUplink
    <3> QED BY <1>e, <2>2, <3>1, <3>2 DEF UpTold
  <2> QED BY <2>3, <2>4
<1>2. CASE AwaitSetup
  <2>0. /\ phase = "setup" /\ up' = up
        /\ \/ phase' # "open" /\ down' = down
           \/ down' = At("start")
    BY <1>2 DEF AwaitSetup, Refused
  <2>1. Gemini /\ ~Stt /\ up = "off" /\ got = <<>> /\ out = <<>> /\ down = Off
    BY <1>e, <2>0 DEF StreamInv, Unopened, LineInv, LineShape
  <2>2. taken = 0
    BY <2>1 DEF UpTold
  <2>3. Delivered' = <<>> /\ ~Disliked'
    BY <1>0, <2>1, <2>2 DEF Delivered, Disliked
  <2>4. down'.hold = <<>>
    BY <2>0, <2>1, AtShape DEF Off
  <2> QED BY <1>0, <1>e, <1>s, <2>0, <2>1, <2>2, <2>3, <2>4 DEF UpTold
<1> QED BY <1>1, <1>2

LEMMA UpToldStep ==
    ASSUME StreamInv, LineInv, UpTold, [Next]_vars
    PROVE  UpTold'
<1>1. CASE Open \/ AwaitSetup
  BY <1>1, OpeningUpTold
<1>2. CASE UplinkTake
  BY <1>2, TakeTold
<1>3. CASE UplinkDrained
  BY <1>3, DrainedTold
<1>4. CASE UplinkReport
  BY <1>4, ReportsTold
<1>5. CASE StartAdapter
  BY <1>5, StartTold
<1>6. CASE ElevenCloses \/ AdapterDrained \/ AdapterTake
  <2>1. provider' = provider
    BY <1>6 DEF ElevenCloses, AdapterDrained, AdapterTake, fixed
  <2>2. Eleven \/ OpenAi
    BY <1>6 DEF ElevenCloses, AdapterDrained, AdapterTake, StreamInv, DownOk, Goes, Eleven
  <2>3. ~Stt /\ ~Gemini
    BY <2>2, OneRunner DEF StreamInv
  <2> QED BY <2>1, <2>3, NoUplink
<1>7. CASE \/ (\E m \in Messages : Feed(m)) \/ CloseInput \/ Serve \/ Consume
           \/ DropStream \/ Cancel \/ UNCHANGED vars
           \/ DownlinkRead \/ DownlinkFinish \/ DownlinkSends \/ DownlinkSendFails
  <2>1. UpKept \/ (~Stt /\ ~Gemini)
    BY <1>7, OutsideKeepsUp, DownlinkKeepsUp
  <2>2. provider' = provider
    BY <1>7 DEF Feed, CloseInput, Serve, Consume, DropStream, Cancel, vars, DownlinkRead,
                DownlinkFinish, DownlinkSends, DownlinkSendFails, fixed
  <2> QED BY <2>1, <2>2, UpKeptKeeps, NoUplink
<1>8. Quiescent => UNCHANGED vars
  BY DEF Quiescent
<1> QED BY <1>1, <1>2, <1>3, <1>4, <1>5, <1>6, <1>7, <1>8, Zenon
           DEF Next, UplinkTask, DownlinkTask

-----------------------------------------------------------------------------
(***************************************************************************)
(* The refusals.  Whatever a runner rejects before it dials, it rejects    *)
(* with an error that is not worth a retry.                                *)
(***************************************************************************)
Lasting == {"BadRequest", "Unsupported", "UnsupportedAudioFormat", "Internal", "Unauthorized"}

LEMMA LeastOf ==
    ASSUME NEW S, S \subseteq Nat, S # {}
    PROVE  \E m \in S : \A x \in S : m <= x
<1> DEFINE R == OpToRel(<, Nat)
<1>1. IsWellFoundedOn(R, Nat)
  BY NatLessThanWellFounded
<1>2. \A x, y \in Nat : <<y, x>> \in R <=> y < x
  BY DEF OpToRel
<1> HIDE DEF R
<1>3. PICK m \in S : \A y \in S : ~(<<y, m>> \in R)
  BY <1>1, WFMin
<1>4. \A y \in S : ~(y < m)
  BY <1>2, <1>3
<1>5. \A y \in S : m <= y
  BY <1>4
<1> QED BY <1>5

LEMMA RejectionLasts ==
    ASSUME NEW checks \in Seq(BOOLEAN \X Lasting)
    PROVE  Rejection(checks) \in Lasting \cup {None}
<1> DEFINE failing == {i \in DOMAIN checks : checks[i][1]}
           Is(i) == i \in failing /\ \A j \in failing : i <= j
           first == CHOOSE i \in failing : \A j \in failing : i <= j
<1>1. Rejection(checks) = IF failing = {} THEN None ELSE checks[first][2]
  BY DEF Rejection
<1>2. ASSUME failing # {} PROVE checks[first][2] \in Lasting
  <2>1. failing \subseteq Nat
    OBVIOUS
  <2>2. \E m \in failing : \A x \in failing : m <= x
    BY <1>2, <2>1, LeastOf
  <2>3. first \in failing
    BY <2>2
  <2>4. checks[first] \in BOOLEAN \X Lasting
    BY <2>3
  <2> HIDE DEF first, failing
  <2> QED BY <2>4
<1> HIDE DEF first, failing
<1> QED BY <1>1, <1>2

LEMMA OfChecks ==
    ASSUME NEW x \in BOOLEAN \X Lasting, NEW y \in BOOLEAN \X Lasting,
           NEW z \in BOOLEAN \X Lasting
    PROVE  /\ <<x>> \in Seq(BOOLEAN \X Lasting) /\ <<x, y>> \in Seq(BOOLEAN \X Lasting)
           /\ <<x, y, z>> \in Seq(BOOLEAN \X Lasting)
<1> DEFINE S == BOOLEAN \X Lasting
<1>1. x \in S /\ y \in S /\ z \in S
  OBVIOUS
<1> HIDE DEF S
<1>2. <<x>> \in Seq(S) /\ <<x, y>> \in Seq(S) /\ <<x, y, z>> \in Seq(S)
  BY <1>1
<1> QED BY <1>2 DEF S

LEMMA ErrorsLast ==
    /\ DeepgramError("BadRequest") \in Lasting /\ DeepgramError("Unsupported") \in Lasting
    /\ DeepgramError("UnsupportedFormat") \in Lasting
    /\ AssemblyAiError("BadRequest") \in Lasting /\ AssemblyAiError("Unsupported") \in Lasting
    /\ AssemblyAiError("UnsupportedFormat") \in Lasting
    /\ ElevenLabsError("BadRequest") \in Lasting
    /\ ElevenLabsError("UnsupportedFormat") \in Lasting
    /\ GeminiLiveError("BadRequest") \in Lasting
    /\ {"BadRequest", "Internal", "Unauthorized"} \subseteq Lasting
<1>1. /\ RunnerError("BadRequest") = "BadRequest"
      /\ RunnerError("Unsupported") = "Unsupported"
      /\ RunnerError("UnsupportedFormat") = "UnsupportedAudioFormat"
  BY DEF RunnerError
<1>2. GeminiLiveError("BadRequest") = "BadRequest"
  BY <1>1 DEF GeminiLiveError
<1> QED BY <1>1, <1>2 DEF DeepgramError, AssemblyAiError, ElevenLabsError, Lasting

(* A check is a pair of a test and a lasting error.                        *)
LEMMA RejectsLast ==
    ASSUME NEW r
    PROVE  /\ DeepgramRejects(r) \in Lasting \cup {None}
           /\ AssemblyAiRejects(r) \in Lasting \cup {None}
           /\ ElevenOpenRejects(r) \in Lasting \cup {None}
           /\ OpenAiRejects(r) \in Lasting \cup {None}
           /\ GeminiRejects(r) \in Lasting \cup {None}
<1> DEFINE S == BOOLEAN \X Lasting
<1>c. ASSUME NEW test \in BOOLEAN, NEW error \in Lasting
      PROVE  <<test, error>> \in S
  OBVIOUS
<1>s. \A x, y, z \in S : <<x>> \in Seq(S) /\ <<x, y>> \in Seq(S) /\ <<x, y, z>> \in Seq(S)
  BY OfChecks
<1>j. \A s, t \in Seq(S) : s \o t \in Seq(S)
  BY ConcatProperties
<1>r. \A s \in Seq(S) : Rejection(s) \in Lasting \cup {None}
  BY RejectionLasts
<1>1. DeepgramRejects(r) \in Lasting \cup {None}
  <2> DEFINE a == <<r.options # "transcribe", DeepgramError("BadRequest")>>
             b == <<r.payload = "unreadable", "BadRequest">>
             c == <<r.payload = "url", DeepgramError("Unsupported")>>
             d == <<~DeepgramEncodes(r.format), DeepgramError("UnsupportedFormat")>>
             e == <<~r.base, "Internal">>
  <2>1. DeepgramRejects(r) = Rejection(<<a>> \o <<b, c>> \o <<d, e>>)
    BY DEF DeepgramRejects, DeepgramPayload
  <2>2. a \in S /\ b \in S /\ c \in S /\ d \in S /\ e \in S
    BY <1>c, ErrorsLast
  <2> HIDE DEF a, b, c, d, e, S
  <2>3. <<a>> \in Seq(S) /\ <<b, c>> \in Seq(S) /\ <<d, e>> \in Seq(S)
    BY <1>s, <2>2
  <2>4. <<a>> \o <<b, c>> \o <<d, e>> \in Seq(S)
    BY <1>j, <2>3
  <2> QED BY <1>r, <2>1, <2>4
<1>2. AssemblyAiRejects(r) \in Lasting \cup {None}
  <2> DEFINE a == <<r.options # "transcribe", AssemblyAiError("BadRequest")>>
             b == <<r.payload = "unreadable", "BadRequest">>
             c == <<r.payload = "url", AssemblyAiError("Unsupported")>>
             d == <<~FormatSupported(r.format), AssemblyAiError("UnsupportedFormat")>>
             e == <<r.channels # 1, AssemblyAiError("UnsupportedFormat")>>
             f == <<~r.base, "Internal">>
  <2>1. AssemblyAiRejects(r) = Rejection(<<a>> \o <<b, c>> \o <<d, e, f>>)
    BY DEF AssemblyAiRejects, AssemblyAiPayload
  <2>2. a \in S /\ b \in S /\ c \in S /\ d \in S /\ e \in S /\ f \in S
    BY <1>c, ErrorsLast
  <2> HIDE DEF a, b, c, d, e, f, S
  <2>3. <<a>> \in Seq(S) /\ <<b, c>> \in Seq(S) /\ <<d, e, f>> \in Seq(S)
    BY <1>s, <2>2
  <2>4. <<a>> \o <<b, c>> \o <<d, e, f>> \in Seq(S)
    BY <1>j, <2>3
  <2> QED BY <1>r, <2>1, <2>4
<1>3. ElevenOpenRejects(r) \in Lasting \cup {None}
  <2> DEFINE a == <<ResolveVoiceId(r) # None, ElevenLabsError("BadRequest")>>
             b == <<~r.base, "Internal">>
             c == <<ElevenLabsOutputFormat(r.format) = None,
                    ElevenLabsError("UnsupportedFormat")>>
  <2>1. ElevenOpenRejects(r) = Rejection(<<a, b, c>>)
    BY DEF ElevenOpenRejects
  <2>2. a \in S /\ b \in S /\ c \in S
    BY <1>c, ErrorsLast
  <2> HIDE DEF a, b, c, S
  <2> QED BY <1>r, <1>s, <2>1, <2>2
<1>4. OpenAiRejects(r) \in Lasting \cup {None}
  <2> DEFINE a == <<~ResolveVoice(r.voice), "BadRequest">>
             b == <<~ResolveApiKey(r.key), "Unauthorized">>
  <2>1. OpenAiRejects(r) = Rejection(<<a, b>>)
    BY DEF OpenAiRejects
  <2>2. a \in S /\ b \in S
    BY <1>c, ErrorsLast
  <2> HIDE DEF a, b, S
  <2> QED BY <1>r, <1>s, <2>1, <2>2
<1>5. GeminiRejects(r) \in Lasting \cup {None}
  <2> DEFINE a == <<r.voice = "cloned", GeminiLiveError("BadRequest")>>
             b == <<~r.base, "Internal">>
  <2>1. GeminiRejects(r) = Rejection(<<a, b>>)
    BY DEF GeminiRejects
  <2>2. a \in S /\ b \in S
    BY <1>c, ErrorsLast
  <2> HIDE DEF a, b, S
  <2> QED BY <1>r, <1>s, <2>1, <2>2
<1> QED BY <1>1, <1>2, <1>3, <1>4, <1>5

LEMMA OpeningRefuses ==
    ASSUME StreamInv, LineInv, RefusalTold,
           NEW rejection \in Lasting \cup {None}, NEW handshake, NEW to \in {"open", "setup"},
           NEW uplink, NEW downlink, Opening(rejection, handshake, to, uplink, downlink)
    PROVE  RefusalTold'
<1>0. /\ phase = "idle" /\ read' = read
      /\ \/ /\ rejection # None /\ phase' = "refused" /\ refusal' = rejection
            /\ dialled' = dialled /\ wire' = wire
         \/ /\ phase' = "refused" /\ refusal' = "NetworkError"
            /\ dialled' = "yes" \/ (dialled' = "bad_url" /\ wire' = wire)
         \/ phase' = to /\ dialled' = "yes" /\ refusal' = refusal
  BY DEF Opening, Refused
<1>1. read = 0 /\ wire = <<>> /\ dialled = "no" /\ refusal = None
  BY <1>0 DEF StreamInv, Unopened, LineInv, LineShape, RefusalTold
<1>2. CASE /\ rejection # None /\ phase' = "refused" /\ refusal' = rejection
           /\ dialled' = dialled /\ wire' = wire
  <2>1. ~IsRetryable(rejection)
    BY <1>2 DEF Lasting, IsRetryable
  <2> QED BY <1>1, <1>2, <2>1 DEF RefusalTold, IsRetryable
<1>3. CASE /\ phase' = "refused" /\ refusal' = "NetworkError"
           /\ dialled' = "yes" \/ (dialled' = "bad_url" /\ wire' = wire)
  <2>1. "NetworkError" # None /\ IsRetryable("NetworkError")
    BY DEF None, IsRetryable
  <2>2. IsRetryable(refusal)'
    BY <1>3, <2>1 DEF IsRetryable
  <2> QED BY <1>0, <1>1, <1>3, <2>1, <2>2 DEF RefusalTold
<1>4. CASE phase' = to /\ dialled' = "yes" /\ refusal' = refusal
  BY <1>1, <1>4 DEF RefusalTold
<1> QED BY <1>0, <1>2, <1>3, <1>4

LEMMA OpenRefuses ==
    ASSUME StreamInv, LineInv, RefusalTold, Open
    PROVE  RefusalTold'
<1> DEFINE K == Lasting \cup {None}
<1>1. ASSUME NEW rejection \in K, NEW handshake, NEW to, to = "open" \/ to = "setup",
             NEW uplink, NEW downlink, Opening(rejection, handshake, to, uplink, downlink)
      PROVE  RefusalTold'
  BY <1>1, OpeningRefuses
<1>2. ASSUME NEW r
      PROVE  /\ DeepgramRejects(r) \in K /\ AssemblyAiRejects(r) \in K
             /\ ElevenOpenRejects(r) \in K /\ OpenAiRejects(r) \in K
             /\ GeminiRejects(r) \in K
  BY RejectsLast
<1> HIDE DEF K
<1>3. CASE OpenDeepgram
  <2>1. \E r \in K : Opening(r, <<>>, "open", "run", At("read"))
    BY <1>2, <1>3, Zenon DEF OpenDeepgram
  <2> QED BY <1>1, <2>1, Zenon
<1>4. CASE OpenAssemblyAi
  <2>1. \E r \in K : Opening(r, <<>>, "open", "run", At("read"))
    BY <1>2, <1>4, Zenon DEF OpenAssemblyAi
  <2> QED BY <1>1, <2>1, Zenon
<1>5. CASE OpenElevenLabs
  <2>1. \E r \in K : Opening(r, ElevenHandshake, "open", "off", At("read"))
    BY <1>2, <1>5, Zenon DEF OpenElevenLabs
  <2> QED BY <1>1, <2>1, Zenon
<1>6. CASE OpenOpenAi
  <2>1. \E r \in K : Opening(r, OpenAiHandshake, "open", "off", At("read"))
    BY <1>2, <1>6, Zenon DEF OpenOpenAi
  <2> QED BY <1>1, <2>1, Zenon
<1>7. CASE OpenGemini
  <2>1. \E r \in K : Opening(r, GeminiHandshake, "setup", "off", Off)
    BY <1>2, <1>7, Zenon DEF OpenGemini
  <2> QED BY <1>1, <2>1, Zenon
<1> QED BY <1>3, <1>4, <1>5, <1>6, <1>7, Zenon DEF Open

(* A provider that hangs up in the setup, and one that fails.              *)
LEMMA SetupRefuses ==
    ASSUME StreamInv, LineInv, RefusalTold, AwaitSetup
    PROVE  RefusalTold'
<1> DEFINE n == read + 1
           frame == served[n]
           kind == SetupFails(frame)
<1>0. /\ phase = "setup" /\ read' = n /\ served' = served /\ dialled' = dialled
      /\ \/ kind # None /\ phase' = "refused" /\ refusal' = kind
         \/ phase' \in {"setup", "open"} /\ refusal' = refusal
  BY DEF AwaitSetup, Refused, server
<1>1. n # 0
  <2>1. read \in Nat
    BY DEF LineInv, LineTypes
  <2> QED BY <2>1
<1>2. dialled = "yes" /\ refusal = None
  BY <1>0 DEF RefusalTold
<1>3. kind # None => IsRetryable(kind) = (frame \in {"error", "recv_error"})
  <2>1. /\ GeminiLiveError("ServerError") = "ServerError"
        /\ GeminiLiveError("SessionClosed") = "RealtimeClosed"
    BY DEF GeminiLiveError
  <2> DEFINE Closed == frame \in Ends \ {"recv_error"}
             ByServer == GeminiLiveError("ServerError")
             ByClose == GeminiLiveError("SessionClosed")
  <2>2. kind = CASE frame = "error" -> ByServer
                 [] Closed -> ByClose
                 [] frame = "recv_error" -> "NetworkError"
                 [] OTHER -> None
    BY DEF SetupFails
  <2>3. Closed => frame # "error" /\ frame # "recv_error"
    BY DEF Ends
  <2>4. ByServer = "ServerError" /\ ByClose = "RealtimeClosed"
    BY <2>1
  <2> HIDE DEF Closed, ByServer, ByClose, frame, kind
  <2>5. \/ frame = "error" /\ kind = "ServerError"
        \/ frame = "recv_error" /\ kind = "NetworkError"
        \/ frame # "error" /\ frame # "recv_error" /\ kind \in {"RealtimeClosed", None}
    BY <2>2, <2>3, <2>4
  <2> QED BY <2>5 DEF IsRetryable
<1> HIDE DEF kind
<1>4. CASE kind # None /\ phase' = "refused" /\ refusal' = kind
  <2>1. IsRetryable(refusal)' = (frame \in {"error", "recv_error"})
    BY <1>3, <1>4 DEF IsRetryable
  <2>2. served'[read'] = frame /\ read' # 0
    BY <1>0, <1>1
  <2> HIDE DEF frame
  <2> QED BY <1>0, <1>2, <1>4, <2>1, <2>2 DEF RefusalTold, None
<1>5. CASE phase' \in {"setup", "open"} /\ refusal' = refusal
  BY <1>0, <1>2, <1>5 DEF RefusalTold, None
<1> QED BY <1>0, <1>4, <1>5

(* Nothing happens to a session that was refused.                          *)
LEMMA RefusalToldStep ==
    ASSUME StreamInv, LineInv, RefusalTold, [Next]_vars
    PROVE  RefusalTold'
<1>1. CASE Open
  BY <1>1, OpenRefuses
<1>2. CASE AwaitSetup
  BY <1>2, SetupRefuses
<1>3. CASE \/ UplinkTask \/ DownlinkTask \/ Cancel \/ (\E m \in Messages : Feed(m))
           \/ CloseInput \/ Serve \/ Consume \/ DropStream \/ UNCHANGED vars
  <2>1. UNCHANGED <<phase, refusal, dialled>>
    BY <1>3 DEF UplinkTask, UplinkTake, UplinkDrained, UplinkReport, DownlinkTask,
                StartAdapter, DownlinkRead, DownlinkFinish, ElevenCloses, DownlinkSends,
                DownlinkSendFails, AdapterTake, AdapterDrained, Cancel, Feed, CloseInput,
                Serve, Consume, DropStream, vars, opening
  <2>2. ASSUME phase = "refused" PROVE UNCHANGED <<wire, read, served>>
    <3>1. up = "off" /\ down.pc = "off" /\ out = <<>>
      BY <2>2 DEF LineInv, LineShape, Off
    <3>2. ~UplinkTask
      BY <3>1 DEF UplinkTask, UplinkTake, UplinkDrained, UplinkReport
    <3>3. ~DownlinkTask
      BY <3>1 DEF DownlinkTask, StartAdapter, DownlinkRead, DownlinkFinish, ElevenCloses,
                  DownlinkSends, DownlinkSendFails, AdapterTake, AdapterDrained
    <3>4. ~Serve
      BY <2>2 DEF Serve
    <3> QED BY <1>3, <3>2, <3>3, <3>4
            DEF Cancel, Feed, CloseInput, Consume, DropStream, vars, server
  <2>3. IsRetryable(refusal)' = IsRetryable(refusal)
    BY <2>1 DEF IsRetryable
  <2> QED BY <2>1, <2>2, <2>3 DEF RefusalTold
<1>4. Quiescent => UNCHANGED vars
  BY DEF Quiescent
<1> QED BY <1>1, <1>2, <1>3, <1>4, Zenon DEF Next

LEMMA EndInvStep ==
    ASSUME StreamInv, LineInv, EndInv, [Next]_vars
    PROVE  EndInv'
<1>1. DownTold /\ UpTold /\ RefusalTold
  BY DEF EndInv
<1> QED BY <1>1, DownToldStep, UpToldStep, RefusalToldStep DEF EndInv

(***************************************************************************)
(* However long the session and whatever the capacity of its channels, a   *)
(* consumer that reads to the end learns how it ended, and of a failure    *)
(* once from the task that met it (OpenAI Realtime and the sends whose     *)
(* result the code ignores aside); a session that was refused says whether *)
(* to try again, except that an address WsClient rejects is reported as a  *)
(* failed connection.                                                      *)
(***************************************************************************)
THEOREM SessionEndExplained == Spec => []EndIsExplained
<1>1. Init => StreamInv /\ LineInv /\ EndInv
  BY StreamInvInit, LineInvInit, EndInvInit
<1>2. StreamInv /\ [Next]_vars => StreamInv'
  BY StreamInvStep
<1>3. StreamInv /\ StreamInv' /\ LineInv /\ [Next]_vars => LineInv'
  BY LineInvStep
<1>4. StreamInv /\ LineInv /\ EndInv /\ [Next]_vars => EndInv'
  BY EndInvStep
<1>5. StreamInv /\ LineInv /\ EndInv => EndIsExplained
  BY EndInvImplies
<1> QED BY <1>1, <1>2, <1>3, <1>4, <1>5, PTL DEF Spec
=============================================================================
