--------------------------- MODULE RunnersProofs ----------------------------
(***************************************************************************)
(* Proofs about what the runners stand on and what they pass on. The link  *)
(* helpers, for every setting of their intervals that leaves a responsive  *)
(* peer the time to answer and every limit on the attempts: a peer that    *)
(* answers is never declared dead, the link is given up only when the      *)
(* dials are used up, and a backlog of frames coalesced into messages      *)
(* loses no byte and crosses no cap. The HTTP and the in-process runners:  *)
(* no call works with what a finished rebuild has replaced, every error a  *)
(* provider's answer becomes may be retried exactly when that makes sense, *)
(* only the last chunk of an answer is final, and what the provider or the *)
(* model gave (text, conversation, speech) reaches the caller whole. On    *)
(* the way there: what the library's folds compute, proved from their      *)
(* recursive definitions, and that Base64 decoding undoes encoding.        *)
(***************************************************************************)
EXTENDS Runners, SequenceTheorems, FiniteSetTheorems, WellFoundedInduction, TLAPS

-----------------------------------------------------------------------------
(* The settings are positive durations.                                    *)
LEMMA Durations ==
    /\ PingInterval \in Nat /\ PingInterval >= 1 /\ TickEvery \in Nat /\ TickEvery >= 1
    /\ RoundTrip \in Nat /\ RoundTrip >= 1 /\ IdleTimeout \in Nat
    /\ PingInterval + (TickEvery - 1) + RoundTrip < IdleTimeout
<1>1. {PingInterval, TickEvery, RoundTrip} \subseteq Nat \ {0}
  BY LinkAssumption
<1>2. /\ PingInterval \in Nat \ {0} /\ TickEvery \in Nat \ {0} /\ RoundTrip \in Nat \ {0}
  BY <1>1
<1>3. PingInterval \in Nat /\ PingInterval >= 1 /\ TickEvery \in Nat /\ TickEvery >= 1
  BY <1>2
<1>4. RoundTrip \in Nat /\ RoundTrip >= 1 /\ IdleTimeout \in Nat
  BY <1>2, LinkAssumption
<1>5. IdleTimeout > PingInterval + (TickEvery - 1) + RoundTrip
  BY LinkAssumption
<1> QED BY <1>3, <1>4, <1>5

(***************************************************************************)
(* The clocks of a link that is up.  timer units ago the interval fired    *)
(* and the peer had been quiet for less than the idle timeout; if no ping  *)
(* is out, for less than the ping interval.  While the network delivers, a *)
(* ping that is out has its pong on the way, and that ping was sent no     *)
(* later than one timer period after the peer had been quiet for the       *)
(* interval.                                                               *)
(***************************************************************************)
Clock == [seen : Nat, ping : Nat \cup {Never}]

ClockTypes ==
    /\ alive \in Clock /\ timer \in Nat /\ timer <= TickEvery
    /\ pong \in Nat \cup {Never} /\ net \in BOOLEAN /\ steady \in BOOLEAN

Answering ==
    /\ pong <= RoundTrip
    /\ IF alive.ping = Never THEN alive.seen - timer < PingInterval
       ELSE pong # Never /\ alive.seen - pong < PingInterval + TickEvery

ClockInv ==
    /\ ClockTypes
    /\ steady => net
    /\ verdict = "IdleTimeout" => ~steady
    /\ link = "up" => alive.seen - timer < IdleTimeout
    /\ link = "up" /\ steady => Answering

(* A peer that answers is never quiet for the idle timeout.                *)
LEMMA AnsweringInTime ==
    ASSUME ClockTypes, Answering
    PROVE  alive.seen < IdleTimeout
<1>1. /\ alive.seen \in Nat /\ timer \in Nat /\ timer <= TickEvery /\ pong \in Nat \cup {Never}
  BY DEF ClockTypes, Clock
<1>2. CASE alive.ping = Never
  BY <1>1, <1>2, Durations DEF Answering
<1>3. CASE alive.ping # Never
  BY <1>1, <1>3, Durations DEF Answering, Never
<1> QED BY <1>2, <1>3

(* The interval fires.                                                     *)
LEMMA TimerFiresClock ==
    ASSUME ClockInv, TimerFires
    PROVE  ClockInv'
<1>t. /\ alive \in Clock /\ timer \in Nat /\ pong \in Nat \cup {Never} /\ net \in BOOLEAN
      /\ steady \in BOOLEAN /\ ClockTypes
  BY DEF ClockInv, ClockTypes
<1>s. alive.seen \in Nat /\ alive.ping \in Nat \cup {Never}
  BY <1>t DEF Clock
<1>e. link = "up" /\ timer = TickEvery /\ timer' = 0 /\ net' = net /\ steady' = steady
  BY DEF TimerFires
<1>z. 0 \in Nat /\ 0 <= TickEvery /\ IdleTimeout # 0 /\ PingInterval # 0 /\ IdleTimeout > 0
  BY Durations
<1>1. CASE KeepaliveTick = "Dead"
  <2>1. link' = "down" /\ verdict' = "IdleTimeout" /\ alive' = alive /\ pong' = pong
    BY <1>1 DEF TimerFires
  <2>2. alive.seen >= IdleTimeout
    BY <1>1 DEF KeepaliveTick
  <2>3. ~steady
    <3> SUFFICES ASSUME steady PROVE FALSE
      OBVIOUS
    <3>1. alive.seen < IdleTimeout
      BY <1>e, <1>t, AnsweringInTime DEF ClockInv
    <3> QED BY <2>2, <3>1, <1>s, Durations
  <2> QED BY <2>1, <2>3, <1>e, <1>t, <1>z DEF ClockInv, ClockTypes
<1>2. CASE KeepaliveTick # "Dead"
  <2>1. alive.seen < IdleTimeout
    BY <1>2, <1>s, <1>z, Durations DEF KeepaliveTick
  <2>2. CASE KeepaliveTick = "SendPing"
    <3>1. /\ alive' = [alive EXCEPT !.ping = 0] /\ link' = link /\ verdict' = verdict
          /\ pong' = IF net /\ pong = Never THEN 0 ELSE pong
      BY <1>2, <2>2 DEF TimerFires
    <3>2. alive'.seen = alive.seen /\ alive'.ping = 0 /\ alive' \in Clock
      BY <3>1, <1>t DEF Clock
    <3>3. pong' \in Nat \cup {Never}
      BY <3>1, <1>t
    <3>4. ASSUME steady PROVE Answering'
      <4>1. net /\ Answering
        BY <3>4, <1>e DEF ClockInv
      <4>2. CASE pong = Never
        <5>1. pong' = 0 /\ alive.ping = Never
          BY <4>1, <4>2, <3>1 DEF Answering
        <5>2. alive.seen - timer < PingInterval
          BY <4>1, <5>1 DEF Answering
        <5> QED BY <5>1, <5>2, <3>2, <1>e, <1>s, Durations DEF Answering, Never
      <4>3. CASE pong # Never
        <5>1. pong' = pong /\ pong \in Nat
          BY <4>3, <3>1, <1>t
        <5>2. CASE alive.ping = Never
          <6>1. alive.seen - timer < PingInterval /\ pong <= RoundTrip
            BY <4>1, <5>2, <4>3 DEF Answering
          <6> QED BY <5>1, <6>1, <3>2, <1>e, <1>s, Durations DEF Answering, Never
        <5>3. CASE alive.ping # Never
          BY <4>1, <5>1, <5>3, <3>2, <1>s, Durations DEF Answering, Never
        <5> QED BY <5>2, <5>3
      <4> QED BY <4>2, <4>3
    <3> QED BY <3>1, <3>2, <3>3, <3>4, <2>1, <1>e, <1>s, <1>t, <1>z DEF ClockInv, ClockTypes
  <2>3. CASE KeepaliveTick # "SendPing"
    <3>1. alive' = alive /\ pong' = pong /\ link' = link /\ verdict' = verdict
      BY <1>2, <2>3 DEF TimerFires
    <3>2. ~NeedPing
      BY <1>2, <2>3, <1>z DEF KeepaliveTick
    <3>3. ASSUME steady PROVE Answering'
      <4>1. Answering
        BY <3>3, <1>e DEF ClockInv
      <4>2. CASE alive.ping = Never
        <5>1. alive.seen < PingInterval
          BY <4>2, <3>2, <1>s, Durations DEF NeedPing
        <5>2. alive.seen - 0 < PingInterval
          BY <5>1, <1>s
        <5> QED BY <4>1, <4>2, <5>2, <3>1, <1>e DEF Answering
      <4>3. CASE alive.ping # Never
        BY <4>1, <4>3, <3>1 DEF Answering
      <4> QED BY <4>2, <4>3
    <3> QED BY <3>1, <3>3, <2>1, <1>e, <1>s, <1>t, <1>z DEF ClockInv, ClockTypes
  <2> QED BY <2>2, <2>3
<1> QED BY <1>1, <1>2

(* A frame or a pong: the peer was heard.                                  *)
LEMMA HeardClock ==
    ASSUME ClockInv, FrameArrives \/ PongArrives
    PROVE  ClockInv'
<1> DEFINE fresh == [seen |-> 0, ping |-> Never]
<1>t. timer \in Nat /\ pong \in Nat \cup {Never} /\ ClockTypes
  BY DEF ClockInv, ClockTypes
<1>e. /\ link = "up" /\ link' = link /\ alive' = fresh /\ timer' = timer /\ net' = net
      /\ steady' = steady /\ verdict' = verdict /\ (pong' = pong \/ pong' = Never)
  BY DEF FrameArrives, PongArrives, Observe, peerVars
<1>f. fresh \in Clock /\ fresh.seen = 0 /\ fresh.ping = Never
  BY DEF Clock
<1> HIDE DEF fresh
<1>1. ClockTypes'
  BY <1>e, <1>f, <1>t DEF ClockTypes
<1>2. alive'.seen - timer' < PingInterval /\ alive'.seen - timer' < IdleTimeout
  BY <1>e, <1>f, <1>t, Durations
<1>3. ASSUME steady PROVE Answering'
  <2>1. pong' <= RoundTrip
    BY <1>3, <1>e, <1>t, Durations DEF ClockInv, Answering, Never
  <2> QED BY <2>1, <1>2, <1>e, <1>f DEF Answering
<1> QED BY <1>1, <1>2, <1>3, <1>e DEF ClockInv

(* A new connection.                                                       *)
LEMMA ConnectsClock ==
    ASSUME ClockInv, Connects
    PROVE  ClockInv'
<1> DEFINE fresh == [seen |-> 0, ping |-> Never]
<1>e. /\ net /\ link' = "up" /\ alive' = fresh /\ timer' = 0 /\ net' = net
      /\ steady' = TRUE /\ verdict' = "none" /\ pong' = Never
  BY DEF Connects
<1>f. fresh \in Clock /\ fresh.seen = 0 /\ fresh.ping = Never
  BY DEF Clock
<1> HIDE DEF fresh
<1>1. ClockTypes'
  BY <1>e, <1>f, Durations DEF ClockTypes, ClockInv
<1>2. 0 - 0 < PingInterval /\ 0 - 0 < IdleTimeout /\ Never <= RoundTrip
  BY Durations DEF Never
<1>3. Answering'
  BY <1>2, <1>e, <1>f DEF Answering
<1> QED BY <1>1, <1>2, <1>3, <1>e, <1>f DEF ClockInv

(* A unit of time passes.                                                  *)
LEMMA ElapseClock ==
    ASSUME ClockInv, Elapse
    PROVE  ClockInv'
<1>t. /\ alive \in Clock /\ timer \in Nat /\ pong \in Nat \cup {Never} /\ net \in BOOLEAN
      /\ steady \in BOOLEAN /\ ClockTypes /\ timer <= TickEvery
  BY DEF ClockInv, ClockTypes
<1>s. alive.seen \in Nat /\ alive.ping \in Nat \cup {Never}
  BY <1>t DEF Clock
<1>e. link' = link /\ net' = net /\ steady' = steady /\ verdict' = verdict
  BY DEF Elapse
<1>1. CASE UNCHANGED <<alive, timer, pong>>
  BY <1>1, <1>e DEF ClockInv, ClockTypes, Answering
<1>2. CASE /\ link = "up" /\ timer < TickEvery
           /\ net => pong < RoundTrip
           /\ alive' = [seen |-> alive.seen + 1, ping |-> Older(alive.ping)]
           /\ timer' = timer + 1
           /\ pong' = IF net THEN Older(pong) ELSE Never
  <2>1. Older(alive.ping) \in Nat \cup {Never} /\ (Older(alive.ping) = Never <=> alive.ping = Never)
    BY <1>s DEF Older, Never
  <2>2. /\ Older(pong) \in Nat \cup {Never} /\ (Older(pong) = Never <=> pong = Never)
        /\ pong # Never => Older(pong) = pong + 1
    BY <1>t DEF Older, Never
  <2> DEFINE now == [seen |-> alive.seen + 1, ping |-> Older(alive.ping)]
  <2>3. now \in Clock /\ now.seen = alive.seen + 1 /\ now.ping = Older(alive.ping) /\ alive' = now
    BY <1>2, <1>s, <2>1 DEF Clock
  <2> HIDE DEF now
  <2>4. timer' \in Nat /\ timer' <= TickEvery /\ pong' \in Nat \cup {Never}
    BY <1>2, <1>t, <2>2, Durations
  <2>5. ClockTypes'
    BY <2>3, <2>4, <1>e, <1>t DEF ClockTypes
  <2>6. alive'.seen - timer' = alive.seen - timer
    BY <2>3, <1>2, <1>s, <1>t
  <2>7. ASSUME steady PROVE Answering'
    <3>1. net /\ Answering /\ pong' = Older(pong) /\ pong < RoundTrip
      BY <2>7, <1>2 DEF ClockInv
    <3>2. pong' <= RoundTrip
      BY <3>1, <2>2, <1>t, Durations DEF Never
    <3>3. CASE alive.ping = Never
      <4>1. alive'.ping = Never /\ alive.seen - timer < PingInterval
        BY <3>1, <3>3, <2>1, <2>3 DEF Answering
      <4> QED BY <4>1, <3>2, <2>6 DEF Answering
    <3>4. CASE alive.ping # Never
      <4>1. /\ alive'.ping # Never /\ pong # Never /\ pong' # Never /\ pong' = pong + 1
            /\ alive.seen - pong < PingInterval + TickEvery /\ alive'.seen = alive.seen + 1
        BY <3>1, <3>4, <2>1, <2>2, <2>3 DEF Answering
      <4>2. alive'.seen - pong' = alive.seen - pong
        BY <4>1, <1>s, <1>t
      <4> QED BY <4>1, <4>2, <3>2 DEF Answering
    <3> QED BY <3>3, <3>4
  <2> QED BY <2>5, <2>6, <2>7, <1>e, <1>2 DEF ClockInv
<1> QED BY <1>1, <1>2 DEF Elapse

(* The network.                                                            *)
LEMMA NetworkClock ==
    ASSUME ClockInv, NetFails \/ NetHeals
    PROVE  ClockInv'
<1>1. CASE NetFails
  <2>1. /\ net' = FALSE /\ pong' = Never /\ steady' = FALSE
        /\ link' = link /\ alive' = alive /\ timer' = timer /\ verdict' = verdict
    BY <1>1 DEF NetFails
  <2> QED BY <2>1 DEF ClockInv, ClockTypes
<1>2. CASE NetHeals
  <2>1. /\ ~net /\ net' = TRUE /\ pong' = pong /\ steady' = steady
        /\ link' = link /\ alive' = alive /\ timer' = timer /\ verdict' = verdict
    BY <1>2 DEF NetHeals
  <2>2. ~steady
    BY <2>1 DEF ClockInv
  <2> QED BY <2>1, <2>2 DEF ClockInv, ClockTypes
<1> QED BY <1>1, <1>2

(* Every step of the link keeps its clocks.                                *)
LEMMA LinkClock ==
    ASSUME ClockInv, LinkNext \/ UNCHANGED linkVars
    PROVE  ClockInv'
<1>0. ASSUME UNCHANGED <<alive, timer, net, pong, steady>>, link' # "up" \/ link' = link,
             verdict' = verdict \/ verdict' # "IdleTimeout"
      PROVE  ClockInv'
  BY <1>0 DEF ClockInv, ClockTypes, Answering
<1>1. CASE Dial
  BY <1>0, <1>1 DEF Dial, peerVars
<1>2. ASSUME NEW err \in WsErrors, ConnectFails(err) PROVE ClockInv'
  <2>1. err # "IdleTimeout"
    BY DEF WsErrors
  <2>2. UNCHANGED <<alive, timer, net, pong, steady>> /\ verdict' = err /\ link' # "up"
    BY <1>2 DEF ConnectFails, peerVars
  <2> QED BY <1>0, <2>1, <2>2
<1>3. ASSUME NEW err \in {"Closed", "Io", "Protocol"}, LinkBreaks(err) PROVE ClockInv'
  BY <1>0, <1>3 DEF LinkBreaks, peerVars
<1>4. ASSUME NEW frames, NEW max, FlushBacklog(frames, max) PROVE ClockInv'
  BY <1>0, <1>4 DEF FlushBacklog, peerVars
<1>5. CASE Flushed
  BY <1>0, <1>5 DEF Flushed, peerVars
<1>6. CASE UNCHANGED linkVars
  BY <1>0, <1>6 DEF linkVars
<1> QED BY <1>1, <1>2, <1>3, <1>4, <1>5, <1>6, ConnectsClock, TimerFiresClock, HeardClock,
           ElapseClock, NetworkClock DEF LinkNext

-----------------------------------------------------------------------------
(***************************************************************************)
(* The dials.  The engine's counter is the number of dials that failed     *)
(* since the last connection, one more while a dial is under way, and      *)
(* never exceeds the limit.                                                *)
(***************************************************************************)
DialInv ==
    /\ policy = [f \in {"max", "jitter"} |-> policy[f]] /\ policy.max \in Nat /\ fails \in Nat
    /\ engine = [f \in {"attempt", "wait"} |-> engine[f]] /\ engine.attempt \in Nat
    /\ link \in {"down", "waiting", "up", "stopped"}
    /\ link = "down" => engine.attempt = fails
    /\ link = "waiting" => engine.attempt = fails + 1
    /\ link = "up" => engine.attempt = 0 /\ fails = 0
    /\ policy.max # 0 => engine.attempt <= policy.max
    /\ verdict = "ReconnectExhausted" => /\ link = "stopped"
                                         /\ policy.max # 0 /\ fails = policy.max

(* Every step of the link keeps the count.                                 *)
LEMMA LinkDials ==
    ASSUME DialInv, LinkNext \/ UNCHANGED linkVars
    PROVE  DialInv'
<1>t. /\ policy.max \in Nat /\ fails \in Nat /\ engine.attempt \in Nat
      /\ engine = [f \in {"attempt", "wait"} |-> engine[f]]
  BY DEF DialInv
<1>0. ASSUME UNCHANGED <<policy, engine, fails, link, verdict>> PROVE DialInv'
  BY <1>0 DEF DialInv
<1>1. CASE Dial
  <2>u. policy' = policy /\ fails' = fails /\ link = "down" /\ engine.attempt = fails
    BY <1>1 DEF Dial, DialInv
  <2>1. CASE Exhausted(engine)
    <3>1. link' = "stopped" /\ verdict' = "ReconnectExhausted" /\ engine' = engine
      BY <1>1, <2>1 DEF Dial
    <3>2. policy.max # 0 /\ fails = policy.max
      BY <2>1, <2>u, <1>t DEF Exhausted, DialInv
    <3> QED BY <3>1, <3>2, <2>u DEF DialInv
  <2>2. CASE ~Exhausted(engine)
    <3>1. link' = "waiting" /\ verdict' = "none" /\ engine' = NextDelay(engine)
      BY <1>1, <2>2 DEF Dial
    <3>2. /\ engine' = [f \in {"attempt", "wait"} |-> engine'[f]]
          /\ engine'.attempt = engine.attempt + 1
      BY <3>1, <1>t DEF NextDelay
    <3>3. policy.max # 0 => engine.attempt + 1 <= policy.max
      BY <2>2, <1>t DEF Exhausted
    <3> QED BY <3>1, <3>2, <3>3, <2>u, <1>t DEF DialInv
  <2> QED BY <2>1, <2>2
<1>2. CASE Connects
  <2>1. /\ policy' = policy /\ fails' = 0 /\ link' = "up" /\ verdict' = "none"
        /\ engine' = [attempt |-> 0, wait |-> 0]
    BY <1>2 DEF Connects, Reset
  <2>2. engine'.attempt = 0 /\ engine' = [f \in {"attempt", "wait"} |-> engine'[f]]
    BY <2>1
  <2> QED BY <2>1, <2>2, <1>t DEF DialInv
<1>3. ASSUME NEW err \in WsErrors, ConnectFails(err) PROVE DialInv'
  <2>1. /\ policy' = policy /\ fails' = fails + 1 /\ link = "waiting" /\ engine' = engine
        /\ link' \in {"down", "stopped"} /\ verdict' = err
    BY <1>3 DEF ConnectFails
  <2>2. err # "ReconnectExhausted"
    BY DEF WsErrors
  <2> QED BY <2>1, <2>2, <1>t DEF DialInv
<1>4. ASSUME NEW err \in {"Closed", "Io", "Protocol"}, LinkBreaks(err) PROVE DialInv'
  BY <1>4 DEF LinkBreaks, engineVars, DialInv
<1>5. CASE TimerFires
  <2>1. policy' = policy /\ engine' = engine /\ fails' = fails /\ link = "up"
    BY <1>5 DEF TimerFires, engineVars
  <2>2. (link' = "down" /\ verdict' = "IdleTimeout") \/ (link' = link /\ verdict' = verdict)
    BY <1>5, Zenon DEF TimerFires
  <2> QED BY <2>1, <2>2 DEF DialInv
<1>6. CASE FrameArrives \/ PongArrives
  BY <1>0, <1>6 DEF FrameArrives, PongArrives, engineVars
<1>7. ASSUME NEW frames, NEW max, FlushBacklog(frames, max) PROVE DialInv'
  BY <1>0, <1>7 DEF FlushBacklog, engineVars
<1>8. CASE Flushed
  BY <1>0, <1>8 DEF Flushed, engineVars
<1>9. CASE Elapse
  <2>1. policy' = policy /\ fails' = fails /\ link' = link /\ verdict' = verdict
        /\ (engine' = engine \/ engine' = [engine EXCEPT !.wait = engine.wait - 1])
    BY <1>9 DEF Elapse
  <2>2. engine'.attempt = engine.attempt /\ engine' = [f \in {"attempt", "wait"} |-> engine'[f]]
    BY <2>1, <1>t
  <2> QED BY <2>1, <2>2 DEF DialInv
<1>10. CASE NetFails \/ NetHeals
  BY <1>0, <1>10 DEF NetFails, NetHeals, engineVars
<1>11. CASE UNCHANGED linkVars
  BY <1>0, <1>11 DEF linkVars
<1> QED BY <1>1, <1>2, <1>3, <1>4, <1>5, <1>6, <1>7, <1>8, <1>9, <1>10, <1>11 DEF LinkNext

(* A step of a deployment of another kind leaves the link alone.           *)
LEMMA LinkSteps ==
    ASSUME [RunnersNext]_<<vars, speechVars, linkVars>>
    PROVE  LinkNext \/ UNCHANGED linkVars
BY DEF RunnersNext

(***************************************************************************)
(* A peer that answers within RoundTrip is never declared dead, and a      *)
(* silent one is found within a timer period of its deadline, for every    *)
(* setting that leaves the peer time to answer (keepalive.rs, tick).       *)
(***************************************************************************)
THEOREM KeepaliveTight == RunnersSpec => []KeepaliveIsTight
<1>1. RunnersInit => ClockInv
  <2> SUFFICES ASSUME LinkInit PROVE ClockInv
    BY DEF RunnersInit
  <2>1. /\ link = "down" /\ verdict = "none" /\ timer = 0 /\ net \in BOOLEAN /\ pong = Never
        /\ steady = FALSE /\ alive = [seen |-> 0, ping |-> Never]
    BY DEF LinkInit
  <2>2. 0 \in Nat /\ 0 <= TickEvery
    BY Durations
  <2>3. alive \in Clock
    BY <2>1 DEF Clock
  <2> QED BY <2>1, <2>2, <2>3 DEF ClockInv, ClockTypes
<1>2. ClockInv /\ [RunnersNext]_<<vars, speechVars, linkVars>> => ClockInv'
  BY LinkSteps, LinkClock
<1>3. ClockInv => KeepaliveIsTight
  <2> SUFFICES ASSUME ClockInv PROVE KeepaliveIsTight
    OBVIOUS
  <2>1. alive.seen \in Nat /\ timer \in Nat /\ timer <= TickEvery
    BY DEF ClockInv, ClockTypes, Clock
  <2>2. link = "up" => alive.seen < IdleTimeout + TickEvery
    BY <2>1, Durations DEF ClockInv
  <2> QED BY <2>2 DEF ClockInv, KeepaliveIsTight
<1> QED BY <1>1, <1>2, <1>3, PTL DEF RunnersSpec

(***************************************************************************)
(* The link is given up as soon as max_attempts dials in a row have failed *)
(* and not before, for every limit and however the dials and the           *)
(* connections alternate (reconnect.rs, next_delay and reset).             *)
(***************************************************************************)
THEOREM GivesUpJustly == RunnersSpec => []GiveUpJustified
<1>1. RunnersInit => DialInv
  <2> SUFFICES ASSUME LinkInit PROVE DialInv
    BY DEF RunnersInit
  <2>1. /\ link = "down" /\ verdict = "none" /\ fails = 0 /\ engine = [attempt |-> 0, wait |-> 0]
        /\ policy \in [max : Limits, jitter : Jitters]
    BY DEF LinkInit
  <2>2. policy.max \in Nat /\ policy = [f \in {"max", "jitter"} |-> policy[f]]
    BY <2>1, LinkAssumption
  <2>3. engine = [f \in {"attempt", "wait"} |-> engine[f]] /\ engine.attempt = 0
    BY <2>1
  <2> QED BY <2>1, <2>2, <2>3 DEF DialInv
<1>2. DialInv /\ [RunnersNext]_<<vars, speechVars, linkVars>> => DialInv'
  BY LinkSteps, LinkDials
<1>3. DialInv => GiveUpJustified
  <2>1. DialInv => (policy.max # 0 /\ link = "waiting" => fails < policy.max)
    BY DEF DialInv
  <2> QED BY <2>1 DEF DialInv, GiveUpJustified
<1> QED BY <1>1, <1>2, <1>3, PTL DEF RunnersSpec

-----------------------------------------------------------------------------
(***************************************************************************)
(* The in-process speech runners.  Versions of the model file only grow,   *)
(* so what is on disk, what the cell holds and what a running call speaks  *)
(* from are all at least the version of the last rebuild that cleared.     *)
(***************************************************************************)
JobShape == job = [f \in {"phase", "calls", "batch", "model", "err", "given", "out"} |-> job[f]]

DiskInv ==
    /\ disk = [f \in {"model", "written", "manifest"} |-> disk[f]]
    /\ disk.written \in Nat /\ disk.model \in {0, disk.written}

SpeechInv ==
    /\ JobShape /\ DiskInv
    /\ floor \in Nat /\ floor <= disk.written
    /\ cell \in Nat /\ (cell # 0 => cell >= floor)
    /\ job.phase = "run" => job.model >= floor

(* A step of the call that runs nothing keeps it.                          *)
LEMMA CallMoves ==
    ASSUME SpeechInv, UNCHANGED <<disk, cell, floor>>, JobShape', job'.phase # "run"
    PROVE  SpeechInv'
BY DEF SpeechInv, DiskInv

(* The ways a call ends.                                                   *)
LEMMA CallEnds ==
    ASSUME JobShape, NEW b, NEW err, NEW given, NEW out, EndCall(b, err, given, out)
    PROVE  JobShape' /\ job'.phase = "ended"
<1>1. job' = [job EXCEPT !.phase = "ended", !.batch = b, !.err = err, !.given = given, !.out = out]
  BY DEF EndCall
<1>2. job' = [f \in {"phase", "calls", "batch", "model", "err", "given", "out"} |-> job'[f]]
  BY <1>1 DEF JobShape
<1>3. job'.phase = "ended"
  BY <1>1 DEF JobShape
<1> QED BY <1>2, <1>3 DEF JobShape

(* A refusal.                                                              *)
LEMMA CallRefused ==
    ASSUME JobShape, NEW b, NEW err, Refuse(b, err)
    PROVE  JobShape' /\ job'.phase = "ended"
BY CallEnds DEF Refuse

(* A step that only moves the phase.                                       *)
LEMMA PhaseMoves ==
    ASSUME JobShape, NEW p, NEW b, NEW m,
           job' = [job EXCEPT !.phase = p, !.batch = b, !.model = m]
    PROVE  JobShape' /\ job'.phase = p /\ job'.model = m
<1>1. job' = [f \in {"phase", "calls", "batch", "model", "err", "given", "out"} |-> job'[f]]
  BY DEF JobShape
<1>2. job'.phase = p /\ job'.model = m
  BY DEF JobShape
<1> QED BY <1>1, <1>2 DEF JobShape

(* Every call that starts is refused, served on the spot or goes on to its *)
(* session.                                                                *)
LEMMA StartMoves ==
    ASSUME SpeechInv, NEW b,
           \/ WhisperStarts(b) \/ PiperStarts(b) \/ KokoroSpeaks(b) \/ XttsSpeaks(b) \/ MossSpeaks(b)
           \/ ExecuteAudio2Face(b) \/ MockTranscribes(b) \/ MockSpeaks(b) \/ MockAnimates(b)
           \/ MockFails(b) \/ Replay(b)
    PROVE  SpeechInv'
<1>j. JobShape
  BY DEF SpeechInv
<1>s. ASSUME ToSession(b) PROVE JobShape' /\ job'.phase = "session"
  <2>1. job' = [job EXCEPT !.phase = "session", !.batch = b]
    BY <1>s DEF ToSession
  <2>2. job' = [f \in {"phase", "calls", "batch", "model", "err", "given", "out"} |-> job'[f]]
    BY <2>1, <1>j DEF JobShape
  <2>3. job'.phase = "session"
    BY <2>1, <1>j DEF JobShape
  <2> QED BY <2>2, <2>3 DEF JobShape
<1>u. ASSUME NEW kind, Starts(kind, b) PROVE UNCHANGED <<disk, cell, floor>>
  BY <1>u DEF Starts
<1>0. ASSUME NEW kind, Starts(kind, b),
             \/ ToSession(b) \/ \E err : Refuse(b, err)
             \/ \E err, given, out : EndCall(b, err, given, out)
      PROVE  SpeechInv'
  <2>1. UNCHANGED <<disk, cell, floor>>
    BY <1>0, <1>u
  <2>2. JobShape' /\ job'.phase # "run"
    BY <1>0, <1>s, <1>j, CallRefused, CallEnds
  <2> QED BY <2>1, <2>2, CallMoves
<1>1. CASE WhisperStarts(b)
  <2>1. Starts("whisper", b) /\ (ToSession(b) \/ \E err : Refuse(b, err))
    BY <1>1, Zenon DEF WhisperStarts
  <2> QED BY <2>1, <1>0
<1>2. CASE PiperStarts(b)
  <2>1. Starts("piper", b) /\ (ToSession(b) \/ \E err : Refuse(b, err))
    BY <1>2, Zenon DEF PiperStarts
  <2> QED BY <2>1, <1>0
<1>3. CASE KokoroSpeaks(b)
  <2>1. Starts("kokoro", b) /\ ((\E err : Refuse(b, err)) \/ \E err, given, out : EndCall(b, err, given, out))
    BY <1>3, Zenon DEF KokoroSpeaks
  <2> QED BY <2>1, <1>0
<1>4. CASE XttsSpeaks(b)
  <2>1. Starts("xtts", b) /\ ((\E err : Refuse(b, err)) \/ \E err, given, out : EndCall(b, err, given, out))
    BY <1>4, Zenon DEF XttsSpeaks
  <2> QED BY <2>1, <1>0
<1>5. CASE MossSpeaks(b)
  <2>1. Starts("moss", b) /\ ((\E err : Refuse(b, err)) \/ \E err, given, out : EndCall(b, err, given, out))
    BY <1>5, Zenon DEF MossSpeaks
  <2> QED BY <2>1, <1>0
<1>6. CASE ExecuteAudio2Face(b)
  <2>1. /\ Starts("audio2face", b)
        /\ (\E err : Refuse(b, err)) \/ \E err, given, out : EndCall(b, err, given, out)
    BY <1>6, Zenon DEF ExecuteAudio2Face
  <2> QED BY <2>1, <1>0
<1>7. CASE MockTranscribes(b)
  <2>1. Starts("mock_stt", b) /\ \E err, given, out : EndCall(b, err, given, out)
    BY <1>7, Zenon DEF MockTranscribes
  <2> QED BY <2>1, <1>0
<1>8. CASE MockSpeaks(b)
  <2>1. Starts("mock_tts", b) /\ \E err, given, out : EndCall(b, err, given, out)
    BY <1>8, Zenon DEF MockSpeaks
  <2> QED BY <2>1, <1>0
<1>9. CASE MockAnimates(b)
  <2>1. Starts("mock_a2f", b) /\ \E err, given, out : EndCall(b, err, given, out)
    BY <1>9, Zenon DEF MockAnimates
  <2> QED BY <2>1, <1>0
<1>10. CASE MockFails(b)
  <2>1. (\E kind : Starts(kind, b)) /\ \E err : Refuse(b, err)
    BY <1>10, Zenon DEF MockFails
  <2> QED BY <2>1, <1>0
<1>11. CASE Replay(b)
  <2>1. Starts("replay", b) /\ ((\E err : Refuse(b, err)) \/ \E err, given, out : EndCall(b, err, given, out))
    BY <1>11, Zenon DEF Replay
  <2> QED BY <2>1, <1>0
<1> QED BY <1>1, <1>2, <1>3, <1>4, <1>5, <1>6, <1>7, <1>8, <1>9, <1>10, <1>11

(* Every step of a speech runner keeps the versions in order.              *)
LEMMA SpeechKept ==
    ASSUME SpeechInv, SpeechNext \/ UNCHANGED speechVars
    PROVE  SpeechInv'
<1>j. JobShape
  BY DEF SpeechInv
<1>t. /\ floor \in Nat /\ floor <= disk.written /\ cell \in Nat /\ (cell # 0 => cell >= floor)
      /\ disk.written \in Nat /\ disk.model \in {0, disk.written}
      /\ disk = [f \in {"model", "written", "manifest"} |-> disk[f]]
  BY DEF SpeechInv, DiskInv
<1>1. CASE InstallModel
  <2>1. /\ disk' = [disk EXCEPT !.model = disk.written + 1, !.written = disk.written + 1, !.manifest = "ok"]
        /\ cell' = cell /\ floor' = floor /\ job' = job
    BY <1>1 DEF InstallModel
  <2>2. disk' = [f \in {"model", "written", "manifest"} |-> disk'[f]]
    BY <2>1, <1>t
  <2>3. disk'.model = disk.written + 1 /\ disk'.written = disk.written + 1
    BY <2>1, <1>t
  <2>4. disk'.written \in Nat /\ disk'.model \in {0, disk'.written} /\ floor <= disk'.written
    BY <2>3, <1>t
  <2> QED BY <2>1, <2>2, <2>4 DEF SpeechInv, DiskInv, JobShape
<1>2. CASE RemoveModel
  <2>1. disk' = [disk EXCEPT !.model = 0] /\ cell' = cell /\ floor' = floor /\ job' = job
    BY <1>2 DEF RemoveModel
  <2>2. disk' = [f \in {"model", "written", "manifest"} |-> disk'[f]]
    BY <2>1, <1>t
  <2>3. disk'.model = 0 /\ disk'.written = disk.written
    BY <2>1, <1>t
  <2> QED BY <2>1, <2>2, <2>3, <1>t DEF SpeechInv, DiskInv, JobShape
<1>3. CASE SessionPresent
  <2>1. /\ cell # 0 /\ UNCHANGED <<disk, cell, floor>>
        /\ job' = [job EXCEPT !.phase = "run", !.batch = job.batch, !.model = cell]
    BY <1>3, <1>j DEF SessionPresent, JobShape
  <2>2. JobShape' /\ job'.model = cell
    BY <2>1, <1>j, PhaseMoves
  <2> QED BY <2>1, <2>2, <1>t DEF SpeechInv, DiskInv
<1>4. CASE SessionMissing
  <2>1. UNCHANGED <<disk, cell, floor>>
    BY <1>4 DEF SessionMissing
  <2>2. \/ \E err : Refuse(job.batch, err)
        \/ \E p \in {"load", "manifest"} : job' = [job EXCEPT !.phase = p]
    BY <1>4 DEF SessionMissing
  <2>3. ASSUME NEW p \in {"load", "manifest"}, job' = [job EXCEPT !.phase = p]
        PROVE  JobShape' /\ job'.phase # "run"
    <3>1. job' = [job EXCEPT !.phase = p, !.batch = job.batch, !.model = job.model]
      BY <2>3, <1>j DEF JobShape
    <3> QED BY <3>1, <1>j, PhaseMoves
  <2>4. JobShape' /\ job'.phase # "run"
    BY <2>2, <2>3, <1>j, CallRefused
  <2> QED BY <2>1, <2>4, CallMoves
<1>5. CASE LoadManifest
  <2>1. UNCHANGED <<disk, cell, floor>>
    BY <1>5 DEF LoadManifest
  <2>2. (\E err : Refuse(job.batch, err)) \/ job' = [job EXCEPT !.phase = "load"]
    BY <1>5, Zenon DEF LoadManifest
  <2>3. ASSUME job' = [job EXCEPT !.phase = "load"] PROVE JobShape' /\ job'.phase # "run"
    <3>1. job' = [f \in {"phase", "calls", "batch", "model", "err", "given", "out"} |-> job'[f]]
      BY <2>3, <1>j DEF JobShape
    <3>2. job'.phase = "load"
      BY <2>3, <1>j DEF JobShape
    <3> QED BY <3>1, <3>2 DEF JobShape
  <2>4. JobShape' /\ job'.phase # "run"
    BY <2>2, <2>3, <1>j, CallRefused
  <2> QED BY <2>1, <2>4, CallMoves
<1>6. CASE BuildSession
  <2>1. disk' = disk /\ floor' = floor
    BY <1>6 DEF BuildSession
  <2>2. CASE disk.model # 0 /\ cell' = disk.model
             /\ job' = [job EXCEPT !.phase = "run", !.model = disk.model]
    <3>1. job' = [job EXCEPT !.phase = "run", !.batch = job.batch, !.model = disk.model]
      BY <2>2, <1>j DEF JobShape
    <3>2. JobShape' /\ job'.model = disk.model
      BY <3>1, <1>j, PhaseMoves
    <3> QED BY <2>1, <2>2, <3>2, <1>t DEF SpeechInv, DiskInv
  <2>3. CASE Refuse(job.batch, "Internal") /\ cell' = cell
    BY <2>1, <2>3, <1>j, CallRefused, CallMoves
  <2> QED BY <1>6, <2>2, <2>3 DEF BuildSession
<1>7. ASSUME NEW s, NEW w, Transcribe(s, w) PROVE SpeechInv'
  <2>1. UNCHANGED <<disk, cell, floor>>
    BY <1>7 DEF Transcribe
  <2>2. \/ Refuse(job.batch, WhisperError("UnsupportedAudio"))
        \/ EndCall(job.batch, None, <<PayloadToPcm(job.batch, 16000)>>, SegmentChunks(s, w))
        \/ Refuse(job.batch, WhisperError("Backend"))
    BY <1>7 DEF Transcribe
  <2>3. JobShape' /\ job'.phase # "run"
    BY <2>2, <1>j, CallRefused, CallEnds
  <2> QED BY <2>1, <2>3, CallMoves
<1>8. ASSUME NEW v, NEW speaker, NEW speakers, NEW n, RunSynthesis(v, speaker, speakers, n)
      PROVE SpeechInv'
  <2>1. UNCHANGED <<disk, cell, floor>>
    BY <1>8 DEF RunSynthesis
  <2> DEFINE pcm == [i \in 1..job.batch.size |-> 90 * i]
  <2>2. \/ Refuse(job.batch, PiperError("UnknownPhoneme"))
        \/ Refuse(job.batch, PiperError("SpeakerOutOfRange"))
        \/ EndCall(job.batch, None, pcm, PcmChunks(pcm, AtLeastOne(n))) \/ Refuse(job.batch, PiperError("Ort"))
    BY <1>8, Zenon DEF RunSynthesis
  <2> HIDE DEF pcm
  <2>3. JobShape' /\ job'.phase # "run"
    BY <2>2, <1>j, CallRefused, CallEnds
  <2> QED BY <2>1, <2>3, CallMoves
<1>9. CASE NextCall
  <2>1. UNCHANGED <<disk, cell, floor>> /\ job' = [NewJob EXCEPT !.calls = job.calls + 1]
    BY <1>9 DEF NextCall
  <2>2. job' = [f \in {"phase", "calls", "batch", "model", "err", "given", "out"} |-> job'[f]]
    BY <2>1 DEF NewJob
  <2>3. job'.phase = "new"
    BY <2>1 DEF NewJob
  <2> QED BY <2>1, <2>2, <2>3, CallMoves DEF JobShape
<1>10. ASSUME NEW cause, RebuildSession(cause) PROVE SpeechInv'
  <2>1. /\ disk' = disk /\ job' = job /\ job.phase = "new"
        /\ (cell' = 0 /\ floor' = disk.written) \/ (cell' = cell /\ floor' = floor)
    BY <1>10 DEF RebuildSession
  <2> QED BY <2>1, <1>t DEF SpeechInv, DiskInv, JobShape
<1>11. CASE UNCHANGED speechVars
  BY <1>11 DEF speechVars, SpeechInv, DiskInv, JobShape
<1> QED BY <1>1, <1>2, <1>3, <1>4, <1>5, <1>6, <1>7, <1>8, <1>9, <1>10, <1>11,
      StartMoves DEF SpeechNext

(* At first nothing is loaded.                                             *)
LEMMA SpeechStart ==
    ASSUME RunnersInit
    PROVE  SpeechInv
<1>1. cell = 0 /\ floor = 0 /\ job = NewJob
  BY DEF RunnersInit, SpeechInit, Resting
<1>2. /\ disk = [f \in {"model", "written", "manifest"} |-> disk[f]]
      /\ disk.written \in {0, 1} /\ disk.model \in {0, disk.written}
  <2>1. CASE SpeechInit
    <3>1. PICK m \in {{"ok", "broken", "absent"}, {"ok"}} :
              disk \in [model : {0, 1}, written : {1}, manifest : m]
      BY <2>1 DEF SpeechInit
    <3> QED BY <3>1
  <2>2. CASE disk = [model |-> 0, written |-> 0, manifest |-> "ok"]
    BY <2>2
  <2> QED BY <2>1, <2>2 DEF RunnersInit, Resting
<1>3. JobShape /\ job.phase = "new"
  BY <1>1 DEF NewJob, JobShape
<1> QED BY <1>1, <1>2, <1>3 DEF SpeechInv, DiskInv

(* A step of a deployment of another kind leaves the speech runner alone.  *)
LEMMA SpeechSteps ==
    ASSUME [RunnersNext]_<<vars, speechVars, linkVars>>
    PROVE  SpeechNext \/ UNCHANGED speechVars
BY DEF RunnersNext

-----------------------------------------------------------------------------
(***************************************************************************)
(* The HTTP runners.  The snapshot's number only grows: a call's baseline, *)
(* its client and its credential were each read from it, in this order.    *)
(***************************************************************************)
CallShaped(c) ==
    c = [f \in {"phase", "api", "batch", "since", "client", "cred", "key", "request", "cause", "err", "wait",
                "given", "out", "events"} |-> c[f]]

(* A call that is over has dropped its snapshots.                          *)
Gone(c) == CallShaped(c) /\ c.phase = "ended" /\ c.since = 0 /\ c.client = 0

(* Whether c ended as d did, with the same reason.                         *)
SameEnd(c, d) == c.wait = d.wait /\ c.cause = d.cause /\ c.err = d.err /\ c.api = d.api

(* Dropping the snapshots ends the call.                                   *)
LEMMA DroppedIsGone ==
    ASSUME NEW c, CallShaped(c)
    PROVE  Gone(Dropped(c)) /\ SameEnd(Dropped(c), c)
<1> DEFINE d == [c EXCEPT !.phase = "ended", !.since = 0, !.client = 0, !.cred = 0, !.key = 0]
<1>1. CallShaped(d)
  BY DEF CallShaped
<1>2. d.phase = "ended" /\ d.since = 0 /\ d.client = 0
  BY DEF CallShaped
<1>3. d.wait = c.wait /\ d.cause = c.cause /\ d.err = c.err /\ d.api = c.api
  BY DEF CallShaped
<1> QED BY <1>1, <1>2, <1>3 DEF Dropped, Gone, SameEnd

(* What may be noted on a call that is over.                               *)
NotesVerdict(c, d, e, w) == d = [c EXCEPT !.err = e, !.wait = w]
NotesError(c, d, e) == d = [c EXCEPT !.err = e]
NotesCause(c, d, x) == d = [c EXCEPT !.cause = x]
NotesItem(c, d, o) == d = [c EXCEPT !.out = o]
NotesAnswer(c, d, g, o) == d = [c EXCEPT !.given = g, !.out = o]

(* A verdict leaves it over.                                               *)
LEMMA GoneVerdict ==
    ASSUME NEW c, NEW d, NEW e, NEW w, Gone(c), NotesVerdict(c, d, e, w)
    PROVE  Gone(d) /\ d.err = e /\ d.wait = w /\ d.cause = c.cause /\ d.api = c.api
<1>c. CallShaped(c) /\ c.phase = "ended" /\ c.since = 0 /\ c.client = 0
  BY DEF Gone
<1>1. CallShaped(d)
  BY <1>c DEF CallShaped, NotesVerdict
<1>2. d.phase = "ended" /\ d.since = 0 /\ d.client = 0
  BY <1>c DEF CallShaped, NotesVerdict
<1>3. d.err = e /\ d.wait = w /\ d.cause = c.cause /\ d.api = c.api
  BY <1>c DEF CallShaped, NotesVerdict
<1> QED BY <1>1, <1>2, <1>3 DEF Gone

(* So does its cause.                                                      *)
LEMMA GoneCause ==
    ASSUME NEW c, NEW d, NEW x, Gone(c), NotesCause(c, d, x)
    PROVE  Gone(d) /\ d.err = c.err /\ d.wait = c.wait /\ d.cause = x /\ d.api = c.api
<1>c. CallShaped(c) /\ c.phase = "ended" /\ c.since = 0 /\ c.client = 0
  BY DEF Gone
<1>1. CallShaped(d)
  BY <1>c DEF CallShaped, NotesCause
<1>2. d.phase = "ended" /\ d.since = 0 /\ d.client = 0
  BY <1>c DEF CallShaped, NotesCause
<1>3. d.err = c.err /\ d.wait = c.wait /\ d.cause = x /\ d.api = c.api
  BY <1>c DEF CallShaped, NotesCause
<1> QED BY <1>1, <1>2, <1>3 DEF Gone

(* So does the error of a stream.                                          *)
LEMMA GoneError ==
    ASSUME NEW c, NEW d, NEW e, Gone(c), NotesError(c, d, e)
    PROVE  Gone(d) /\ d.wait = c.wait /\ d.cause = c.cause /\ d.api = c.api
<1>c. CallShaped(c) /\ c.phase = "ended" /\ c.since = 0 /\ c.client = 0
  BY DEF Gone
<1>1. CallShaped(d)
  BY <1>c DEF CallShaped, NotesError
<1>2. d.phase = "ended" /\ d.since = 0 /\ d.client = 0
  BY <1>c DEF CallShaped, NotesError
<1>3. d.wait = c.wait /\ d.cause = c.cause /\ d.api = c.api
  BY <1>c DEF CallShaped, NotesError
<1> QED BY <1>1, <1>2, <1>3 DEF Gone

(* So does an item of the stream.                                          *)
LEMMA GoneItem ==
    ASSUME NEW c, NEW d, NEW o, Gone(c), NotesItem(c, d, o)
    PROVE  Gone(d) /\ d.err = c.err /\ d.wait = c.wait /\ d.cause = c.cause /\ d.api = c.api
<1>c. CallShaped(c) /\ c.phase = "ended" /\ c.since = 0 /\ c.client = 0
  BY DEF Gone
<1>1. CallShaped(d)
  BY <1>c DEF CallShaped, NotesItem
<1>2. d.phase = "ended" /\ d.since = 0 /\ d.client = 0
  BY <1>c DEF CallShaped, NotesItem
<1>3. d.err = c.err /\ d.wait = c.wait /\ d.cause = c.cause /\ d.api = c.api
  BY <1>c DEF CallShaped, NotesItem
<1> QED BY <1>1, <1>2, <1>3 DEF Gone

(* So does the answer.                                                     *)
LEMMA GoneAnswer ==
    ASSUME NEW c, NEW d, NEW g, NEW o, Gone(c), NotesAnswer(c, d, g, o)
    PROVE  Gone(d) /\ d.err = c.err /\ d.wait = c.wait /\ d.cause = c.cause /\ d.api = c.api
<1>c. CallShaped(c) /\ c.phase = "ended" /\ c.since = 0 /\ c.client = 0
  BY DEF Gone
<1>1. CallShaped(d)
  BY <1>c DEF CallShaped, NotesAnswer
<1>2. d.phase = "ended" /\ d.since = 0 /\ d.client = 0
  BY <1>c DEF CallShaped, NotesAnswer
<1>3. d.err = c.err /\ d.wait = c.wait /\ d.cause = c.cause /\ d.api = c.api
  BY <1>c DEF CallShaped, NotesAnswer
<1> QED BY <1>1, <1>2, <1>3 DEF Gone

(* A call that is not over carries no verdict yet.                         *)
CallInv ==
    /\ CallShaped(call)
    /\ call.phase # "ended" => call.wait = -1 /\ call.cause = [kind |-> None]
    /\ call.phase # "new" => call.api \in TextApis \cup SpeechApis

Undecided == call'.wait = call.wait /\ call'.cause = call.cause

(* What the steps of a call do to its phase, its snapshots and its reason. *)
Opens ==
    /\ call.phase = "new" /\ call'.phase \in {"client", "ended"} /\ Undecided
    /\ call'.api \in Apis /\ call'.since = acked /\ call'.client = call.client
TakesClient ==
    /\ call.phase = "client" /\ call'.phase = "auth" /\ Undecided /\ call'.api = call.api
    /\ call'.since = call.since /\ call'.client = snapshot.num
TakesCredential ==
    /\ call.phase = "auth" /\ call'.phase = "sent" /\ Undecided /\ call'.api = call.api
    /\ call'.since = call.since /\ call'.client = call.client /\ call'.cred = snapshot.num
Streams ==
    /\ call.phase \in {"sent", "streaming"} /\ call'.phase = "streaming" /\ Undecided
    /\ call'.api = call.api /\ call'.since = call.since /\ call'.client = call.client
    /\ call'.cred = call.cred
Finishes ==
    /\ call.phase \in {"auth", "sent", "streaming"} /\ Gone(call')
    /\ call'.api = call.api /\ call'.wait = -1 /\ call'.cause.kind # "status"
TurnedAway(status, header, body) ==
    LET e == Classify(call.api, status, header, body)
    IN  /\ call.phase = "sent" /\ Gone(call') /\ call'.api = call.api
        /\ call'.err = e.kind /\ call'.wait = e.wait
        /\ call'.cause = [kind |-> "status", status |-> status, header |-> header, body |-> body]

CallMove ==
    \/ Opens \/ TakesClient \/ TakesCredential \/ Streams \/ Finishes
    \/ \E status \in Statuses, header \in RetryAfterHeaders, body \in Bodies : TurnedAway(status, header, body)

(* The steps that open a call.                                             *)
LEMMA CallOpens ==
    ASSUME CallInv,
           \/ \E api \in Apis \cap TextApis : \E b \in Batches(api) : StartText(api, b)
           \/ \E api \in Apis \cap SpeechApis : \E b \in Batches(api) : StartSpeech(api, b)
    PROVE  UNCHANGED sessionVars /\ CallShaped(call') /\ Opens
<1>c. CallShaped(call)
  BY DEF CallInv
<1>1. ASSUME NEW api \in Apis, NEW b, StartText(api, b)
      PROVE  UNCHANGED sessionVars /\ CallShaped(call') /\ Opens
  <2>1. /\ call.phase = "new" /\ UNCHANGED sessionVars
        /\ call' = [call EXCEPT !.phase = "client", !.api = api, !.batch = b, !.since = acked,
                                !.request = FromBatch(api, b.messages)]
    BY <1>1 DEF StartText
  <2> DEFINE r == FromBatch(api, b.messages)
  <2>2. call' = [call EXCEPT !.phase = "client", !.api = api, !.batch = b, !.since = acked, !.request = r]
    BY <2>1
  <2> HIDE DEF r
  <2>3. CallShaped(call')
    BY <2>2, <1>c DEF CallShaped
  <2>4. call'.phase = "client" /\ call'.api = api /\ call'.since = acked
    BY <2>2, <1>c DEF CallShaped
  <2>5. call'.client = call.client /\ call'.wait = call.wait /\ call'.cause = call.cause
    BY <2>2, <1>c DEF CallShaped
  <2> QED BY <2>1, <2>3, <2>4, <2>5 DEF Opens, Undecided
<1>2. ASSUME NEW api \in Apis, NEW b, StartSpeech(api, b)
      PROVE  UNCHANGED sessionVars /\ CallShaped(call') /\ Opens
  <2> DEFINE refused == Rejects(api, b)
             p == IF refused = None THEN "client" ELSE "ended"
  <2>1. /\ call.phase = "new" /\ UNCHANGED sessionVars
        /\ call' = [call EXCEPT !.phase = p, !.api = api, !.batch = b, !.since = acked, !.err = refused]
    BY <1>2, Zenon DEF StartSpeech
  <2>2. p \in {"client", "ended"}
    OBVIOUS
  <2> HIDE DEF p, refused
  <2>3. CallShaped(call')
    BY <2>1, <1>c DEF CallShaped
  <2>4. call'.phase = p /\ call'.api = api /\ call'.since = acked
    BY <2>1, <1>c DEF CallShaped
  <2>5. call'.client = call.client /\ call'.wait = call.wait /\ call'.cause = call.cause
    BY <2>1, <1>c DEF CallShaped
  <2> QED BY <2>1, <2>2, <2>3, <2>4, <2>5 DEF Opens, Undecided
<1> QED BY <1>1, <1>2

(* The two loads of the snapshot, and the stream.                          *)
LEMMA CallProceeds ==
    ASSUME CallInv, LoadClient \/ LoadCredential \/ StreamOpens
    PROVE  UNCHANGED sessionVars /\ CallShaped(call') /\ (TakesClient \/ TakesCredential \/ Streams)
<1>c. CallShaped(call)
  BY DEF CallInv
<1>1. CASE LoadClient
  <2>1. /\ call.phase = "client" /\ UNCHANGED sessionVars
        /\ call' = [call EXCEPT !.phase = "auth", !.client = snapshot.num]
    BY <1>1 DEF LoadClient
  <2>2. CallShaped(call')
    BY <2>1, <1>c DEF CallShaped
  <2>3. call'.phase = "auth" /\ call'.client = snapshot.num /\ call'.since = call.since
    BY <2>1, <1>c DEF CallShaped
  <2>4. call'.api = call.api /\ call'.wait = call.wait /\ call'.cause = call.cause
    BY <2>1, <1>c DEF CallShaped
  <2> QED BY <2>1, <2>2, <2>3, <2>4 DEF TakesClient, Undecided
<1>2. CASE LoadCredential
  <2> DEFINE k == KeyPlaced(call.api)
  <2>1. /\ call.phase = "auth" /\ UNCHANGED sessionVars
        /\ call' = [call EXCEPT !.phase = "sent", !.cred = snapshot.num, !.key = k]
    BY <1>2 DEF LoadCredential
  <2> HIDE DEF k
  <2>2. CallShaped(call')
    BY <2>1, <1>c DEF CallShaped
  <2>3. call'.phase = "sent" /\ call'.client = call.client /\ call'.since = call.since
    BY <2>1, <1>c DEF CallShaped
  <2>4. call'.cred = snapshot.num /\ call'.api = call.api
    BY <2>1, <1>c DEF CallShaped
  <2>5. call'.wait = call.wait /\ call'.cause = call.cause
    BY <2>1, <1>c DEF CallShaped
  <2> QED BY <2>1, <2>2, <2>3, <2>4, <2>5 DEF TakesCredential, Undecided
<1>3. CASE StreamOpens
  <2>1. /\ call.phase = "sent" /\ UNCHANGED sessionVars
        /\ call' = [call EXCEPT !.phase = "streaming"]
    BY <1>3 DEF StreamOpens
  <2>2. CallShaped(call')
    BY <2>1, <1>c DEF CallShaped
  <2>3. call'.phase = "streaming" /\ call'.client = call.client /\ call'.since = call.since
    BY <2>1, <1>c DEF CallShaped
  <2>4. call'.cred = call.cred /\ call'.api = call.api /\ call'.wait = call.wait
        /\ call'.cause = call.cause
    BY <2>1, <1>c DEF CallShaped
  <2> QED BY <2>1, <2>2, <2>3, <2>4 DEF Streams, Undecided
<1> QED BY <1>1, <1>2, <1>3

(* One event of a stream.                                                  *)
LEMMA CallStreams ==
    ASSUME CallInv, NEW e, StreamEvent(e)
    PROVE  UNCHANGED sessionVars /\ CallShaped(call') /\ (Streams \/ Finishes)
<1>c. CallShaped(call) /\ call.phase = "streaming" /\ call.wait = -1 /\ call.cause = [kind |-> None]
  BY DEF CallInv, StreamEvent
<1> DEFINE items == Lift(call.api, e)
           n == call.events + 1
           o == call.out \o items
           g == Append(call.given, e)
           next == [call EXCEPT !.events = n, !.out = o, !.given = g]
           err == items[1].err
<1>1. UNCHANGED sessionVars /\ (call' = [Dropped(next) EXCEPT !.err = err] \/ call' = next)
  BY DEF StreamEvent
<1> HIDE DEF err, n, o, g, items
<1>2. CallShaped(next)
  BY <1>c DEF CallShaped
<1>3. next.phase = "streaming" /\ next.client = call.client /\ next.since = call.since
  BY <1>c DEF CallShaped
<1>4. next.cred = call.cred /\ next.api = call.api /\ next.wait = call.wait
      /\ next.cause = call.cause
  BY <1>c DEF CallShaped
<1>5. CASE call' = next
  BY <1>1, <1>2, <1>3, <1>4, <1>5, <1>c DEF Streams, Undecided
<1>6. CASE call' = [Dropped(next) EXCEPT !.err = err]
  <2> DEFINE d == Dropped(next)
  <2>1. Gone(d) /\ d.api = call.api /\ d.wait = -1 /\ d.cause = [kind |-> None]
    BY <1>2, <1>4, <1>c, DroppedIsGone DEF SameEnd
  <2> HIDE DEF d, next
  <2>2. Gone(call') /\ call'.wait = d.wait /\ call'.cause = d.cause /\ call'.api = d.api
    <3>1. NotesError(d, call', err)
      BY <1>6 DEF d, NotesError
    <3> QED BY <3>1, <2>1, GoneError
  <2>3. call'.cause.kind # "status"
    BY <2>1, <2>2 DEF None
  <2> QED BY <1>1, <2>1, <2>2, <2>3, <1>c DEF Finishes, Gone
<1> QED BY <1>1, <1>5, <1>6

(* A failure, seen from the call before it.                                *)
LEMMA EndedIsGone ==
    ASSUME CallShaped(call), NEW err, NEW wait
    PROVE  LET d == Ended(err, wait)
           IN  Gone(d) /\ d.err = err /\ d.wait = wait /\ d.cause = call.cause /\ d.api = call.api
<1> DEFINE c == Dropped(call)
<1>1. Gone(c) /\ c.cause = call.cause /\ c.api = call.api
  BY DroppedIsGone DEF SameEnd
<1> HIDE DEF c
<1> DEFINE d == Ended(err, wait)
<1>2. NotesVerdict(c, d, err, wait)
  BY DEF Ended, c, NotesVerdict
<1> HIDE DEF d
<1>3. Gone(d) /\ d.err = err /\ d.wait = wait /\ d.cause = c.cause /\ d.api = c.api
  BY <1>1, <1>2, GoneVerdict
<1> QED BY <1>1, <1>3 DEF d

(* A failure with its cause.                                               *)
LEMMA FailedIsGone ==
    ASSUME CallShaped(call), NEW err, NEW wait, NEW x, NotesCause(Ended(err, wait), call', x)
    PROVE  Gone(call') /\ call'.err = err /\ call'.wait = wait /\ call'.cause = x /\ call'.api = call.api
<1> DEFINE d == Ended(err, wait)
<1>1. Gone(d) /\ d.err = err /\ d.wait = wait /\ d.api = call.api
  BY EndedIsGone
<1>2. NotesCause(d, call', x)
  OBVIOUS
<1> HIDE DEF d
<1> QED BY <1>1, <1>2, GoneCause

(* The steps that end a call.                                              *)
LEMMA CallFinishes ==
    ASSUME CallInv,
           \/ CredentialInvalid \/ SendFails \/ BodyFails \/ StreamBreaks \/ StreamCloses \/ VoiceAdded
           \/ \E e : Document(e)
           \/ \E a : Transcript(a)
           \/ \E total : Audio(total)
    PROVE  UNCHANGED sessionVars /\ CallShaped(call') /\ Finishes
<1>c. CallShaped(call)
  BY DEF CallInv
<1>q. call.phase # "ended" => call.wait = -1 /\ call.cause.kind # "status"
  BY DEF CallInv, None
<1>0. ASSUME call.phase \in {"auth", "sent", "streaming"}, Gone(call'), call'.api = call.api,
             call'.wait = -1, call'.cause.kind # "status", UNCHANGED sessionVars
      PROVE  UNCHANGED sessionVars /\ CallShaped(call') /\ Finishes
  BY <1>0 DEF Finishes, Gone
<1>1. CASE CredentialInvalid
  <2>1. call.phase = "auth" /\ UNCHANGED sessionVars /\ call' = Ended("Internal", -1)
    BY <1>1 DEF CredentialInvalid
  <2>2. Gone(call') /\ call'.wait = -1 /\ call'.cause = call.cause /\ call'.api = call.api
    BY <2>1, <1>c, EndedIsGone
  <2> QED BY <1>0, <2>1, <2>2, <1>q
<1>2. CASE SendFails
  <2>1. /\ call.phase = "sent" /\ UNCHANGED sessionVars
        /\ NotesCause(Ended("NetworkError", -1), call', [kind |-> "network"])
    BY <1>2 DEF SendFails, NotesCause
  <2>2. Gone(call') /\ call'.wait = -1 /\ call'.cause = [kind |-> "network"] /\ call'.api = call.api
    BY <2>1, <1>c, FailedIsGone
  <2> QED BY <1>0, <2>1, <2>2
<1>3. CASE BodyFails
  <2> DEFINE err == IF call.api \in {"openai_tts", "elevenlabs", "clone_voice"} THEN "NetworkError" ELSE "Internal"
  <2>1. /\ call.phase = "sent" /\ UNCHANGED sessionVars
        /\ NotesCause(Ended(err, -1), call', [kind |-> "body"])
    BY <1>3 DEF BodyFails, NotesCause
  <2> HIDE DEF err
  <2>2. Gone(call') /\ call'.wait = -1 /\ call'.cause = [kind |-> "body"] /\ call'.api = call.api
    BY <2>1, <1>c, FailedIsGone
  <2> QED BY <1>0, <2>1, <2>2
<1>4. CASE StreamBreaks
  <2> DEFINE d == Ended("NetworkError", -1)
             f == [d EXCEPT !.cause = [kind |-> "network"]]
             o == Append(f.out, Failed("NetworkError"))
  <2>1. call.phase = "streaming" /\ UNCHANGED sessionVars /\ call' = [f EXCEPT !.out = o]
    BY <1>4 DEF StreamBreaks
  <2>2. Gone(d) /\ d.wait = -1 /\ d.api = call.api
    BY <1>c, EndedIsGone
  <2>n. NotesCause(d, f, [kind |-> "network"]) /\ NotesItem(f, call', o)
    BY <2>1 DEF NotesCause, NotesItem
  <2> HIDE DEF d, f, o
  <2>3. Gone(f) /\ f.wait = -1 /\ f.api = call.api /\ f.cause = [kind |-> "network"]
    BY <2>n, <2>2, GoneCause
  <2>4. Gone(call') /\ call'.wait = -1 /\ call'.api = call.api /\ call'.cause = [kind |-> "network"]
    BY <2>n, <2>3, GoneItem
  <2> QED BY <1>0, <2>1, <2>4
<1> DEFINE c == Dropped(call)
<1>d. Gone(c) /\ c.wait = call.wait /\ c.cause = call.cause /\ c.api = call.api
  BY <1>c, DroppedIsGone DEF SameEnd
<1> HIDE DEF c
<1>5. CASE StreamCloses
  <2>1. call.phase = "streaming" /\ UNCHANGED sessionVars /\ call' = c
    BY <1>5 DEF StreamCloses, c
  <2> QED BY <1>0, <2>1, <1>d, <1>q
<1>6. CASE VoiceAdded
  <2>1. call.phase = "sent" /\ UNCHANGED sessionVars /\ call' = c
    BY <1>6 DEF VoiceAdded, c
  <2> QED BY <1>0, <2>1, <1>d, <1>q
<1>g. ASSUME call.phase = "sent", UNCHANGED sessionVars, NEW g, NEW o, NotesAnswer(c, call', g, o)
      PROVE  UNCHANGED sessionVars /\ CallShaped(call') /\ Finishes
  <2>1. Gone(call') /\ call'.wait = c.wait /\ call'.cause = c.cause /\ call'.api = c.api
    BY <1>g, <1>d, GoneAnswer
  <2> QED BY <1>0, <1>g, <2>1, <1>d, <1>q
<1>7. ASSUME NEW e, Document(e) PROVE UNCHANGED sessionVars /\ CallShaped(call') /\ Finishes
  <2>1. /\ call.phase = "sent" /\ UNCHANGED sessionVars
        /\ NotesAnswer(c, call', <<e>>, LiftDocument(call.api, e))
    BY <1>7 DEF Document, c, NotesAnswer
  <2> QED BY <2>1, <1>g
<1>8. ASSUME NEW a, Transcript(a) PROVE UNCHANGED sessionVars /\ CallShaped(call') /\ Finishes
  <2>1. /\ call.phase = "sent" /\ UNCHANGED sessionVars
        /\ NotesAnswer(c, call', <<a>>, TranscriptChunks(call.batch, a))
    BY <1>8 DEF Transcript, c, NotesAnswer
  <2> QED BY <2>1, <1>g
<1>9. ASSUME NEW total, Audio(total) PROVE UNCHANGED sessionVars /\ CallShaped(call') /\ Finishes
  <2>1. /\ call.phase = "sent" /\ UNCHANGED sessionVars
        /\ NotesAnswer(c, call', <<total>>, Rechunk(total, ChunkBytes))
    BY <1>9 DEF Audio, c, NotesAnswer
  <2> QED BY <2>1, <1>g
<1> QED BY <1>1, <1>2, <1>3, <1>4, <1>5, <1>6, <1>7, <1>8, <1>9

(* A status that is no success.                                            *)
LEMMA CallRejected ==
    ASSUME CallInv, NEW status, NEW header, NEW body, Refused(status, header, body)
    PROVE  UNCHANGED sessionVars /\ CallShaped(call') /\ TurnedAway(status, header, body)
<1>c. CallShaped(call)
  BY DEF CallInv
<1> DEFINE e == Classify(call.api, status, header, body)
           x == [kind |-> "status", status |-> status, header |-> header, body |-> body]
<1>1. call.phase = "sent" /\ UNCHANGED sessionVars
      /\ call' = [Ended(e.kind, e.wait) EXCEPT !.cause = x]
  BY DEF Refused
<1> DEFINE kind == e.kind  wait == e.wait
<1>2. NotesCause(Ended(kind, wait), call', x)
  BY <1>1 DEF NotesCause
<1> HIDE DEF e, x, kind, wait
<1>3. Gone(call') /\ call'.err = kind /\ call'.wait = wait /\ call'.cause = x
      /\ call'.api = call.api
  BY <1>2, <1>c, FailedIsGone
<1> QED BY <1>1, <1>3 DEF TurnedAway, e, x, kind, wait, Gone

(* Every step moves the session or the call, never both.                   *)
LEMMA CallSteps ==
    ASSUME CallInv, Next
    PROVE  \/ call' = call /\ (Rotate \/ RebuildStarts \/ RebuildEnds \/ RebuildFails)
           \/ UNCHANGED sessionVars /\ CallShaped(call') /\ CallMove
<1>1. CASE Rotate \/ RebuildStarts \/ RebuildEnds \/ RebuildFails
  BY <1>1 DEF Rotate, RebuildStarts, RebuildEnds, RebuildFails
<1>2. CASE \/ \E api \in Apis \cap TextApis : \E b \in Batches(api) : StartText(api, b)
           \/ \E api \in Apis \cap SpeechApis : \E b \in Batches(api) : StartSpeech(api, b)
  BY <1>2, CallOpens DEF CallMove
<1>3. CASE LoadClient \/ LoadCredential \/ StreamOpens
  BY <1>3, CallProceeds DEF CallMove
<1>4. CASE \E e : StreamEvent(e)
  BY <1>4, CallStreams DEF CallMove
<1>5. CASE \/ CredentialInvalid \/ SendFails \/ BodyFails \/ StreamBreaks \/ StreamCloses
           \/ VoiceAdded
           \/ \E e : Document(e)
           \/ \E a : Transcript(a)
           \/ \E total : Audio(total)
  BY <1>5, CallFinishes DEF CallMove
<1>6. CASE \E status \in Statuses, header \in RetryAfterHeaders, body \in Bodies : Refused(status, header, body)
  BY <1>6, CallRejected DEF CallMove
<1> QED BY <1>1, <1>2, <1>3, <1>4, <1>5, <1>6, Zenon DEF Next

(* A call carries its verdict only once it is over.                        *)
LEMMA CallKept ==
    ASSUME CallInv, Next \/ UNCHANGED vars
    PROVE  CallInv'
<1>1. CASE call' = call
  BY <1>1 DEF CallInv, CallShaped
<1>2. CASE CallShaped(call') /\ CallMove
  <2>1. call'.phase # "ended" => Undecided /\ call.phase # "ended"
    BY <1>2 DEF CallMove, Opens, TakesClient, TakesCredential, Streams, Finishes, TurnedAway, Gone
  <2>2. call'.api \in Apis \/ (call'.api = call.api /\ call.phase # "new")
    BY <1>2 DEF CallMove, Opens, TakesClient, TakesCredential, Streams, Finishes, TurnedAway, Gone
  <2> QED BY <1>2, <2>1, <2>2, BoundsAssumption DEF CallInv, Undecided
<1> QED BY <1>1, <1>2, CallSteps DEF vars

(***************************************************************************)
(* What each call has of the snapshots.                                    *)
(***************************************************************************)
FreshInv ==
    /\ snapshot.num \in Nat /\ acked \in Nat /\ acked <= snapshot.num
    /\ call.since \in Nat /\ call.since <= snapshot.num
    /\ call.client \in Nat /\ call.client <= snapshot.num
    /\ call.phase \in {"new", "client"} => call.client = 0
    /\ call.client > 0 => call.client >= call.since
    /\ call.phase \in {"sent", "streaming"} => call.cred \in Nat /\ call.cred >= call.client

(* The session is rebuilt under a call, or the call moves under a session  *)
(* that stands.                                                            *)
LEMMA FreshKept ==
    ASSUME CallInv, FreshInv, Next \/ UNCHANGED vars
    PROVE  FreshInv'
<1>t. /\ snapshot.num \in Nat /\ acked \in Nat /\ acked <= snapshot.num
      /\ call.since \in Nat /\ call.since <= snapshot.num /\ call.client \in Nat /\ call.client <= snapshot.num
  BY DEF FreshInv
<1>1. CASE UNCHANGED <<call, snapshot, acked>>
  BY <1>1 DEF FreshInv
<1>2. CASE call' = call /\ RebuildEnds
  <2>1. snapshot' = [num |-> snapshot.num + 1, secret |-> secret] /\ acked' = snapshot.num + 1
    BY <1>2 DEF RebuildEnds
  <2>2. snapshot'.num = snapshot.num + 1
    BY <2>1
  <2> QED BY <2>1, <2>2, <1>2, <1>t DEF FreshInv
<1>3. CASE UNCHANGED sessionVars /\ CallMove
  <2>0. snapshot' = snapshot /\ acked' = acked
    BY <1>3 DEF sessionVars
  <2>1. CASE Opens
    BY <2>0, <2>1, <1>t DEF Opens, FreshInv
  <2>2. CASE TakesClient
    BY <2>0, <2>2, <1>t DEF TakesClient, FreshInv
  <2>3. CASE TakesCredential
    BY <2>0, <2>3, <1>t DEF TakesCredential, FreshInv
  <2>4. CASE Streams
    BY <2>0, <2>4, <1>t DEF Streams, FreshInv
  <2>5. CASE Gone(call')
    BY <2>0, <2>5, <1>t DEF Gone, FreshInv
  <2> QED BY <1>3, <2>1, <2>2, <2>3, <2>4, <2>5 DEF CallMove, Finishes, TurnedAway
<1>4. Rotate \/ RebuildStarts \/ RebuildFails => UNCHANGED <<call, snapshot, acked>>
  BY DEF Rotate, RebuildStarts, RebuildFails
<1>5. UNCHANGED vars => UNCHANGED <<call, snapshot, acked>>
  BY DEF vars
<1> QED BY <1>1, <1>2, <1>3, <1>4, <1>5, CallSteps

(* A step of a deployment of another kind leaves the HTTP call alone.      *)
LEMMA HttpSteps ==
    ASSUME [RunnersNext]_<<vars, speechVars, linkVars>>
    PROVE  Next \/ UNCHANGED vars
BY DEF RunnersNext

(* At first there is no call.                                              *)
LEMMA CallStart ==
    ASSUME Init
    PROVE  CallInv /\ FreshInv
<1>1. call = NoCall /\ acked = 1 /\ snapshot = [num |-> 1, secret |-> 1]
  BY DEF Init
<1>2. CallShaped(call)
  BY <1>1 DEF CallShaped, NoCall
<1>3. call.phase = "new" /\ call.wait = -1 /\ call.cause = [kind |-> None]
  BY <1>1 DEF NoCall
<1>4. call.since = 0 /\ call.client = 0
  BY <1>1 DEF NoCall
<1>5. snapshot.num = 1
  BY <1>1
<1> QED BY <1>1, <1>2, <1>3, <1>4, <1>5 DEF CallInv, FreshInv

(***************************************************************************)
(* No call works with what a finished rebuild has replaced, whenever the   *)
(* rebuilds, the loads of the snapshot and the writes of the model file    *)
(* fall between each other (session.rs, the runners' get_or_try_init).     *)
(***************************************************************************)
THEOREM NeverReplaced == RunnersSpec => []NothingStale
<1> DEFINE Inv == CallInv /\ FreshInv /\ SpeechInv
<1>1. RunnersInit => Inv
  <2> SUFFICES ASSUME RunnersInit PROVE Inv
    OBVIOUS
  <2>1. CallInv /\ FreshInv
    BY CallStart DEF RunnersInit
  <2> QED BY <2>1, SpeechStart
<1>2. Inv /\ [RunnersNext]_<<vars, speechVars, linkVars>> => Inv'
  BY HttpSteps, SpeechSteps, CallKept, FreshKept, SpeechKept
<1>3. Inv => NothingStale
  BY DEF FreshInv, SpeechInv, NothingStale, FreshSession, SessionIsCurrent
<1> QED BY <1>1, <1>2, <1>3, PTL DEF RunnersSpec

-----------------------------------------------------------------------------
(* A wait is announced only with a rate limit, and is the header's.        *)
WaitSound(e, header) == e.wait >= 0 => e.kind = "RateLimited" /\ header.secs = e.wait

Transient(s) == s = 429 \/ s \in 500..599

(* The generic table.                                                      *)
LEMMA StatusSound ==
    ASSUME NEW status \in Int, NEW header, NEW wait, wait >= 0 => header.secs = wait
    PROVE  LET e == ClassifyHttpStatus(status, wait)
           IN  /\ WaitSound(e, header)
               /\ IsRetryable(e.kind) <=> Transient(status)
<1>1. CASE status = 429
  BY <1>1 DEF ClassifyHttpStatus, Classified, WaitSound, IsRetryable, Transient
<1>2. CASE status \in 500..599
  BY <1>2 DEF ClassifyHttpStatus, Classified, WaitSound, IsRetryable, Transient
<1>3. CASE status # 429 /\ status \notin 500..599
  BY <1>3 DEF ClassifyHttpStatus, Classified, WaitSound, IsRetryable, Transient
<1> QED BY <1>1, <1>2, <1>3

(* What the retry loop relies on.                                          *)
Named(api, body) ==
    \/ api = "anthropic" /\ body \in {"too_long", "permission"}
    \/ api \in GeminiApis /\ body = "safety"

VerdictSound(api, status, header, body, e) ==
    /\ WaitSound(e, header)
    /\ IsRetryable(e.kind) => \/ Transient(status)
                              \/ api \in GeminiApis /\ body = "resource_exhausted"
    /\ Transient(status) /\ ~IsRetryable(e.kind) => Named(api, body)

(* The refinements that recognise a refusal name one that cannot succeed.  *)
LEMMA RefusalSound ==
    ASSUME NEW kind, kind \in {"ContextLengthExceeded", "ContentFiltered", "Forbidden"}, NEW header
    PROVE  WaitSound(Classified(kind, -1), header) /\ ~IsRetryable(Classified(kind, -1).kind)
BY DEF WaitSound, Classified, IsRetryable

(* Every provider's classifier is sound for every status, header and body. *)
LEMMA ClassifySound ==
    ASSUME NEW api \in TextApis \cup SpeechApis, NEW status \in Int, NEW header, NEW body
    PROVE  VerdictSound(api, status, header, body, Classify(api, status, header, body))
<1>w. ParseRetryAfter(header) >= 0 => header.secs = ParseRetryAfter(header)
  BY DEF ParseRetryAfter
<1> DEFINE table == ClassifyHttpStatus(status, ParseRetryAfter(header))
<1>t. WaitSound(table, header) /\ (IsRetryable(table.kind) <=> Transient(status))
  BY <1>w, StatusSound
<1> HIDE DEF table
<1>1. CASE api \in OpenAiApis \cup {"openai_stt", "openai_tts"}
  <2>1. Classify(api, status, header, body) = ClassifyOpenAiError(status, header, body)
    BY <1>1 DEF Classify, OpenAiApis, GeminiApis
  <2>2. CASE status = 400
    <3>1. ~Transient(status)
      BY <2>2 DEF Transient
    <3>2. \/ Classify(api, status, header, body) = table
          \/ \E kind \in {"ContextLengthExceeded", "ContentFiltered"} :
                Classify(api, status, header, body) = Classified(kind, -1)
      BY <2>1 DEF ClassifyOpenAiError, table
    <3> QED BY <3>1, <3>2, <1>t, RefusalSound DEF VerdictSound
  <2>3. CASE status # 400
    <3>1. Classify(api, status, header, body) = table
      BY <2>1, <2>3 DEF ClassifyOpenAiError, table
    <3> QED BY <3>1, <1>t DEF VerdictSound
  <2> QED BY <2>2, <2>3
<1>2. CASE api = "anthropic"
  <2>1. Classify(api, status, header, body) = ClassifyAnthropicError(status, header, body)
    BY <1>2 DEF Classify, OpenAiApis, GeminiApis
  <2>2. CASE body \in {"too_long", "permission"}
    <3>1. \E kind \in {"ContextLengthExceeded", "Forbidden"} :
              Classify(api, status, header, body) = Classified(kind, -1)
      BY <2>1, <2>2 DEF ClassifyAnthropicError
    <3> QED BY <3>1, <2>2, <1>2, RefusalSound DEF VerdictSound, Named
  <2>3. CASE body \notin {"too_long", "permission"}
    <3>1. Classify(api, status, header, body) = table
      BY <2>1, <2>3 DEF ClassifyAnthropicError, table
    <3> QED BY <3>1, <1>t DEF VerdictSound
  <2> QED BY <2>2, <2>3
<1>3. CASE api \in GeminiApis
  <2>1. Classify(api, status, header, body) = ClassifyGeminiError(status, header, body)
    BY <1>3 DEF Classify, OpenAiApis, GeminiApis
  <2>2. CASE body = "resource_exhausted"
    <3>1. Classify(api, status, header, body) = Classified("RateLimited", ParseRetryAfter(header))
      BY <2>1, <2>2 DEF ClassifyGeminiError
    <3> QED BY <3>1, <2>2, <1>3, <1>w DEF VerdictSound, WaitSound, Classified, IsRetryable
  <2>3. CASE body = "safety"
    <3>1. Classify(api, status, header, body) = Classified("ContentFiltered", -1)
      BY <2>1, <2>3 DEF ClassifyGeminiError
    <3> QED BY <3>1, <2>3, <1>3, RefusalSound DEF VerdictSound, Named
  <2>4. CASE body \notin {"resource_exhausted", "safety"}
    <3>1. Classify(api, status, header, body) = table
      BY <2>1, <2>4 DEF ClassifyGeminiError, table
    <3> QED BY <3>1, <1>t DEF VerdictSound
  <2> QED BY <2>2, <2>3, <2>4
<1>4. ASSUME NEW h, WaitSound(Classified("RateLimited", ParseSeconds(h)), header)
      PROVE  VerdictSound(api, status, header, body, ClassifyElevenLabsError(status, h, body))
  <2>1. CASE status = 429
    BY <1>4, <2>1 DEF ClassifyElevenLabsError, VerdictSound, Classified, Transient, IsRetryable
  <2>2. CASE status \in 500..599
    BY <2>2 DEF ClassifyElevenLabsError, VerdictSound, WaitSound, Classified, Transient, IsRetryable
  <2>3. CASE status # 429 /\ status \notin 500..599
    BY <2>3 DEF ClassifyElevenLabsError, VerdictSound, WaitSound, Classified, Transient, IsRetryable
  <2> QED BY <2>1, <2>2, <2>3
<1>5. CASE api = "elevenlabs"
  <2>1. Classify(api, status, header, body) = ClassifyElevenLabsError(status, header, body)
    BY <1>5 DEF Classify, OpenAiApis, GeminiApis
  <2>2. WaitSound(Classified("RateLimited", ParseSeconds(header)), header)
    BY DEF WaitSound, Classified, ParseSeconds
  <2> QED BY <2>1, <2>2, <1>4
<1>6. CASE api = "clone_voice"
  <2> DEFINE h == [kind |-> "absent", secs |-> 0]
  <2>1. Classify(api, status, header, body) = ClassifyElevenLabsError(status, h, body)
    BY <1>6 DEF Classify, OpenAiApis, GeminiApis
  <2>2. WaitSound(Classified("RateLimited", ParseSeconds(h)), header)
    BY DEF WaitSound, Classified, ParseSeconds
  <2> QED BY <2>1, <2>2, <1>4
<1> QED BY <1>1, <1>2, <1>3, <1>5, <1>6 DEF TextApis, SpeechApis, OpenAiApis, GeminiApis

(***************************************************************************)
(* Whatever a provider answers and whenever it does, the retry loop        *)
(* repeats only what can succeed, and waits only as long as it was told    *)
(* (classify.rs and the providers' error.rs).                              *)
(***************************************************************************)
THEOREM RetriesSound == RunnersSpec => []RetryIsSound
<1> DEFINE Inv == CallInv /\ RetryIsSound
<1>0. ASSUME call.wait = -1, call.cause.kind # "status" PROVE RetryIsSound
  BY <1>0 DEF RetryIsSound
<1>1. RunnersInit => Inv
  <2> SUFFICES ASSUME Init PROVE Inv
    BY DEF RunnersInit
  <2>1. CallInv /\ call.phase = "new"
    BY CallStart DEF Init, NoCall
  <2>2. call.wait = -1 /\ call.cause.kind # "status"
    BY <2>1 DEF CallInv, None
  <2> QED BY <2>1, <2>2, <1>0
<1>2. ASSUME Inv, [RunnersNext]_<<vars, speechVars, linkVars>> PROVE Inv'
  <2>1. CallInv' /\ (Next \/ UNCHANGED vars)
    BY <1>2, HttpSteps, CallKept
  <2>2. CASE call' = call
    BY <1>2, <2>1, <2>2 DEF RetryIsSound
  <2>3. ASSUME call'.wait = -1, call'.cause.kind # "status" PROVE RetryIsSound'
    BY <2>3 DEF RetryIsSound
  <2>4. CASE call.phase # "ended" /\ Undecided
    <3>1. call'.wait = -1 /\ call'.cause = [kind |-> None]
      BY <1>2, <2>4 DEF CallInv, Undecided
    <3> QED BY <2>1, <2>3, <3>1 DEF None
  <2>5. CASE Finishes
    BY <2>1, <2>3, <2>5 DEF Finishes
  <2>6. ASSUME NEW status \in Statuses, NEW header \in RetryAfterHeaders, NEW body \in Bodies,
               TurnedAway(status, header, body)
        PROVE  RetryIsSound'
    <3> DEFINE e == Classify(call.api, status, header, body)
    <3>1. status \in Int
      BY DEF Statuses
    <3>2. call.api \in TextApis \cup SpeechApis
      BY <1>2, <2>6 DEF CallInv, TurnedAway
    <3>3. VerdictSound(call.api, status, header, body, e)
      BY <3>1, <3>2, ClassifySound
    <3>4. /\ call'.api = call.api /\ call'.err = e.kind /\ call'.wait = e.wait
          /\ call'.cause = [kind |-> "status", status |-> status, header |-> header, body |-> body]
      BY <2>6 DEF TurnedAway
    <3> HIDE DEF e
    <3>5. call'.cause.status = status /\ call'.cause.header = header /\ call'.cause.body = body
      BY <3>4
    <3> QED BY <3>3, <3>4, <3>5 DEF VerdictSound, WaitSound, RetryIsSound, Transient, Named
  <2>7. CASE CallMove
    BY <2>1, <2>4, <2>5, <2>6, <2>7 DEF CallMove, Opens, TakesClient, TakesCredential, Streams
  <2> QED BY <1>2, <2>1, <2>2, <2>7, CallSteps DEF vars
<1>3. Inv => RetryIsSound
  OBVIOUS
<1> QED BY <1>1, <1>2, <1>3, PTL DEF RunnersSpec

(* A set of natural numbers has a least one.                               *)
LEMMA LeastNat ==
    ASSUME NEW S, S \subseteq Nat, S # {}
    PROVE  \E m \in S : \A x \in S : m <= x
<1> DEFINE R == OpToRel(<, Nat)
<1>1. IsWellFoundedOn(R, Nat)
  BY NatLessThanWellFounded
<1>2. \A x, y \in Nat : <<y, x>> \in R <=> y < x
  BY DEF OpToRel
<1> HIDE DEF R
<1>3. PICK m \in S : \A y \in S : ~(<<y, m>> \in R)
  BY <1>1, WFMin
<1>4. \A y \in S : ~(y < m)
  BY <1>2, <1>3
<1>5. \A y \in S : m <= y
  BY <1>4
<1> QED BY <1>5

(* Induction: a set that holds zero and every successor of its members.    *)
LEMMA NatSet ==
    ASSUME NEW P, 0 \in P, \A n \in Nat : n \in P => n + 1 \in P
    PROVE  Nat \subseteq P
<1> SUFFICES ASSUME NEW x \in Nat, x \notin P PROVE FALSE
  OBVIOUS
<1> DEFINE Bad == {n \in Nat : n \notin P}
<1>1. Bad \subseteq Nat /\ Bad # {}
  OBVIOUS
<1> HIDE DEF Bad
<1>2. PICK m \in Bad : \A y \in Bad : m <= y
  BY <1>1, LeastNat
<1>3. m \in Nat /\ m \notin P
  BY <1>2 DEF Bad
<1>4. m # 0
  BY <1>3
<1>5. m - 1 \in Nat /\ m - 1 < m /\ (m - 1) + 1 = m
  BY <1>3, <1>4
<1>6. m - 1 \in P
  BY <1>5, <1>2, <1>3 DEF Bad
<1> QED BY <1>3, <1>5, <1>6

(***************************************************************************)
(* Definition by recursion on the natural numbers: a first value and a     *)
(* step give a sequence of values.  Partial sequences exist for every      *)
(* length, agree where both are defined, and so make up a whole one.       *)
(***************************************************************************)
IsStep(st, V) == st \in [Nat \X V -> V]
Unfolds(f, V, base, st) ==
    f \in [Nat -> V] /\ f[0] = base /\ \A n \in Nat : f[n + 1] = st[<<n, f[n]>>]

(* A first value and a step unfold to a function on the natural numbers.   *)
LEMMA Recursion ==
    ASSUME NEW V, NEW base, base \in V, NEW st, IsStep(st, V)
    PROVE  \E f : Unfolds(f, V, base, st)
<1>0. st \in [Nat \X V -> V]
  BY DEF IsStep
<1> DEFINE Is(g, n) == /\ g \in [0..n -> V] /\ g[0] = base
                       /\ \A k \in Nat : k < n => g[k + 1] = st[<<k, g[k]>>]
           P == {n \in Nat : \E g : Is(g, n)}
<1>1. 0 \in P
  <2> DEFINE g == [k \in 0..0 |-> base]
  <2>1. g \in [0..0 -> V] /\ g[0] = base /\ \A k \in Nat : ~(k < 0)
    OBVIOUS
  <2>2. Is(g, 0)
    BY <2>1
  <2> QED BY <2>2
<1>2. ASSUME NEW n \in Nat, n \in P PROVE n + 1 \in P
  <2>1. PICK g : Is(g, n)
    BY <1>2
  <2> DEFINE h == [k \in 0..(n + 1) |-> IF k = n + 1 THEN st[<<n, g[n]>>] ELSE g[k]]
  <2>2. g \in [0..n -> V] /\ n \in 0..n /\ g[n] \in V
    BY <2>1
  <2>3. st[<<n, g[n]>>] \in V
    BY <2>2, <1>0
  <2>4. h \in [0..(n + 1) -> V]
    BY <2>2, <2>3
  <2>5. \A k \in 0..n : h[k] = g[k]
    OBVIOUS
  <2>6. h[n + 1] = st[<<n, g[n]>>]
    OBVIOUS
  <2>7. h[0] = base
    BY <2>1, <2>5
  <2> HIDE DEF h
  <2>8. ASSUME NEW k \in Nat, k < n + 1 PROVE h[k + 1] = st[<<k, h[k]>>]
    <3>1. CASE k = n
      BY <3>1, <2>5, <2>6
    <3>2. CASE k < n
      <4>1. k \in 0..n /\ k + 1 \in 0..n
        BY <3>2
      <4> QED BY <4>1, <3>2, <2>1, <2>5
    <3> QED BY <3>1, <3>2, <2>8
  <2>9. Is(h, n + 1)
    BY <2>4, <2>7, <2>8
  <2> QED BY <2>9
<1> HIDE DEF P
<1>3. Nat \subseteq P
  BY <1>1, <1>2, NatSet
<1>4. \A n \in Nat : \E g : Is(g, n)
  BY <1>3 DEF P
<1>5. ASSUME NEW g, NEW h, NEW n \in Nat, NEW m \in Nat, Is(g, n), Is(h, m)
      PROVE  \A k \in Nat : k <= n /\ k <= m => g[k] = h[k]
  <2> DEFINE Q == {k \in Nat : k <= n /\ k <= m => g[k] = h[k]}
  <2>1. 0 \in Q
    BY <1>5
  <2>2. ASSUME NEW k \in Nat, k \in Q PROVE k + 1 \in Q
    <3> SUFFICES ASSUME k + 1 <= n, k + 1 <= m PROVE g[k + 1] = h[k + 1]
      OBVIOUS
    <3>1. k < n /\ k < m /\ k <= n /\ k <= m
      OBVIOUS
    <3>2. g[k] = h[k]
      BY <2>2, <3>1
    <3>3. g[k + 1] = st[<<k, g[k]>>]
      BY <1>5, <3>1
    <3>4. h[k + 1] = st[<<k, h[k]>>]
      BY <1>5, <3>1
    <3> QED BY <3>2, <3>3, <3>4
  <2> HIDE DEF Q
  <2>3. Nat \subseteq Q
    BY <2>1, <2>2, NatSet
  <2> QED BY <2>3 DEF Q
<1> DEFINE G(n) == CHOOSE g : Is(g, n)
           f == [n \in Nat |-> G(n)[n]]
<1>6. \A n \in Nat : Is(G(n), n)
  BY <1>4
<1> HIDE DEF G
<1>7. ASSUME NEW n \in Nat PROVE f[n] = G(n)[n] /\ G(n)[n] \in V
  <2>1. G(n) \in [0..n -> V] /\ n \in 0..n
    BY <1>6
  <2> QED BY <2>1
<1>8. f \in [Nat -> V]
  BY <1>7
<1> HIDE DEF f
<1>9. f[0] = base
  BY <1>6, <1>7
<1>10. ASSUME NEW n \in Nat PROVE f[n + 1] = st[<<n, f[n]>>]
  <2>1. Is(G(n), n) /\ Is(G(n + 1), n + 1)
    BY <1>6
  <2>2. G(n)[n] = G(n + 1)[n]
    <3> DEFINE a == G(n)
               b == G(n + 1)
    <3>1. Is(a, n) /\ Is(b, n + 1) /\ n + 1 \in Nat
      BY <2>1
    <3> HIDE DEF a, b, Is
    <3>2. \A k \in Nat : k <= n /\ k <= n + 1 => a[k] = b[k]
      BY <3>1, <1>5
    <3>3. a[n] = b[n]
      BY <3>2
    <3> QED BY <3>3 DEF a, b
  <2>3. G(n + 1)[n + 1] = st[<<n, G(n + 1)[n]>>]
    BY <2>1
  <2> QED BY <2>2, <2>3, <1>7
<1> QED BY <1>8, <1>9, <1>10 DEF Unfolds

(* The greatest of a nonempty set of numbers up to n.                      *)
LEMMA MaxUpTo ==
    ASSUME NEW n \in Nat, NEW s \in SUBSET (0..n), s # {}
    PROVE  Max(s) \in s /\ \A y \in s : y <= Max(s)
<1> DEFINE Up == {m \in Nat : \A y \in s : y <= m}
<1>1. Up \subseteq Nat /\ n \in Up
  OBVIOUS
<1> HIDE DEF Up
<1>2. PICK m \in Up : \A y \in Up : m <= y
  BY <1>1, LeastNat
<1>3. m \in Nat /\ \A y \in s : y <= m
  BY <1>2 DEF Up
<1>4. m \in s
  <2> SUFFICES ASSUME m \notin s PROVE FALSE
    OBVIOUS
  <2>1. PICK z \in s : TRUE
    OBVIOUS
  <2>2. z \in Nat /\ z <= m /\ z # m
    BY <1>3
  <2>3. m - 1 \in Nat
    BY <2>2, <1>3
  <2>4. \A y \in s : y <= m - 1
    BY <1>3
  <2>5. m - 1 \in Up
    BY <2>3, <2>4 DEF Up
  <2> QED BY <2>5, <1>2, <1>3
<1>5. \E x \in s : \A y \in s : x >= y
  BY <1>3, <1>4
<1>6. Max(s) \in s /\ \A y \in s : Max(s) >= y
  BY <1>5 DEF Max
<1> QED BY <1>6

(* The greatest position of a nonempty set of them.                        *)
LEMMA MaxInRange ==
    ASSUME NEW n \in Nat, NEW s \in SUBSET (1..n), s # {}
    PROVE  Max(s) \in s /\ Max(s) \in 1..n /\ \A y \in s : y <= Max(s)
<1>1. s \in SUBSET (0..n)
  OBVIOUS
<1> QED BY <1>1, MaxUpTo

(* The numbers up to k, and what is left of them without the greatest.     *)
LEMMA MaxOfRange ==
    ASSUME NEW k \in Nat, k # 0
    PROVE  1..k # {} /\ Max(1..k) = k /\ (1..k) \ {k} = 1..(k - 1)
<1>1. 1..k # {} /\ (1..k) \ {k} = 1..(k - 1)
  OBVIOUS
<1>0. 1..k \in SUBSET (0..k)
  OBVIOUS
<1>2. Max(1..k) \in 1..k /\ \A y \in 1..k : y <= Max(1..k)
  BY <1>0, <1>1, MaxUpTo
<1> QED BY <1>1, <1>2

(***************************************************************************)
(* The recursive function behind a fold over the positions 1 to n: it is   *)
(* defined on the sets of positions and takes the greatest one off.  The   *)
(* k-th stage is right on the sets within 1 to k, so the n-th is right on  *)
(* all of them.                                                            *)
(***************************************************************************)
FoldStep(f, s, base, st) == IF s = {} THEN base ELSE st[<<f[s \ {Max(s)}], Max(s)>>]
IsFoldStep(st, V, n) == st \in [V \X (1..n) -> V]
FoldsOver(f, V, n, base, st) ==
    f \in [SUBSET (1..n) -> V] /\ \A s \in SUBSET (1..n) : f[s] = FoldStep(f, s, base, st)

(* The steps of a fold over n places have such a run.                      *)
LEMMA FoldExists ==
    ASSUME NEW V, NEW base, base \in V, NEW n \in Nat, NEW st, IsFoldStep(st, V, n)
    PROVE  \E f : FoldsOver(f, V, n, base, st)
<1> DEFINE D == SUBSET (1..n)
           W == [D -> V]
           Stage(g) == [s \in D |-> FoldStep(g, s, base, st)]
           next == [p \in Nat \X W |-> Stage(p[2])]
           first == [s \in D |-> base]
<1>1. \A s \in D : s # {} => Max(s) \in s /\ Max(s) \in 1..n /\ s \ {Max(s)} \in D
  BY MaxInRange
<1>2. ASSUME NEW g \in W PROVE Stage(g) \in W
  <2>1. \A s \in D : FoldStep(g, s, base, st) \in V
    BY <1>1 DEF FoldStep, IsFoldStep
  <2> QED BY <2>1
<1>3. first \in W /\ next \in [Nat \X W -> W]
  BY <1>2
<1>4. \A k \in Nat, g \in W : next[<<k, g>>] = Stage(g)
  OBVIOUS
<1>0. \A g : \A s \in D : Stage(g)[s] = FoldStep(g, s, base, st)
  OBVIOUS
<1> HIDE DEF W, next, first, Stage
<1>r. PICK h : Unfolds(h, W, first, next)
  BY <1>3, Recursion DEF IsStep
<1>5. h \in [Nat -> W] /\ h[0] = first /\ \A k \in Nat : h[k + 1] = next[<<k, h[k]>>]
  BY <1>r DEF Unfolds
<1>6. \A k \in Nat : h[k] \in W /\ h[k + 1] = Stage(h[k])
  BY <1>4, <1>5
<1> DEFINE P == {k \in Nat : \A s \in D : s \subseteq 1..k => h[k + 1][s] = h[k][s]}
<1>7. 0 \in P
  <2>1. ASSUME NEW s \in D, s \subseteq 1..0 PROVE h[1][s] = h[0][s]
    <3>1. s = {}
      BY <2>1
    <3>2. h[1] = Stage(h[0])
      <4>1. 0 \in Nat /\ 0 + 1 = 1
        OBVIOUS
      <4> QED BY <4>1, <1>6
    <3>4. h[1][s] = base
      BY <3>2, <1>0, <3>1 DEF FoldStep
    <3>3. h[0][s] = base
      BY <1>5 DEF first
    <3> QED BY <3>3, <3>4
  <2> QED BY <2>1
<1>8. ASSUME NEW k \in Nat, k \in P PROVE k + 1 \in P
  <2>1. ASSUME NEW s \in D, s \subseteq 1..(k + 1) PROVE h[(k + 1) + 1][s] = h[k + 1][s]
    <3>1. h[(k + 1) + 1][s] = FoldStep(h[k + 1], s, base, st)
          /\ h[k + 1][s] = FoldStep(h[k], s, base, st)
      BY <1>6, <1>0
    <3>2. CASE s = {}
      BY <3>1, <3>2 DEF FoldStep
    <3>3. CASE s # {}
      <4>1. Max(s) \in s /\ s \ {Max(s)} \in D /\ \A y \in s : y <= Max(s)
        BY <3>3, <1>1, MaxInRange
      <4>2. s \ {Max(s)} \subseteq 1..k
        <5> SUFFICES ASSUME NEW y \in s, y # Max(s) PROVE y \in 1..k
          OBVIOUS
        <5>1. y \in 1..(k + 1) /\ Max(s) \in 1..(k + 1) /\ y <= Max(s)
          BY <4>1, <2>1
        <5> QED BY <5>1
      <4>3. h[k + 1][s \ {Max(s)}] = h[k][s \ {Max(s)}]
        BY <4>1, <4>2, <1>8
      <4> QED BY <4>3, <3>1, <3>3 DEF FoldStep
    <3> QED BY <3>2, <3>3
  <2> QED BY <2>1
<1> HIDE DEF P
<1>9. n \in P
  BY <1>7, <1>8, NatSet
<1>10. \A s \in D : h[n + 1][s] = h[n][s]
  BY <1>9 DEF P
<1>11. \A s \in D : h[n][s] = FoldStep(h[n], s, base, st)
  BY <1>6, <1>0, <1>10
<1>12. h[n] \in [SUBSET (1..n) -> V]
  BY <1>6 DEF W
<1> QED BY <1>11, <1>12 DEF FoldsOver

(***************************************************************************)
(* Running through the positions one by one: the fold over 1 to k, for k   *)
(* from 0 to n.  A fold whose steps stay in V is such a run.               *)
(***************************************************************************)
Trace(f, V, n, base, st) ==
    /\ f[1..0] = base /\ \A k \in 0..n : f[1..k] \in V
    /\ \A k \in 1..n : f[1..k] = st[<<f[1..(k - 1)], k>>]

FoldLike(f, V, n, base, st) ==
    /\ f[{}] = base
    /\ \A s \in SUBSET (1..n) :
         s # {} /\ f[s \ {Max(s)}] \in V => f[s] = st[<<f[s \ {Max(s)}], Max(s)>>]

(* Whatever satisfies the folds' recursive definition is that run: its     *)
(* value at each stage is the step applied to the stage before.            *)
LEMMA FoldRuns ==
    ASSUME NEW V, NEW base, base \in V, NEW n \in Nat, NEW st, IsFoldStep(st, V, n),
           NEW f, FoldLike(f, V, n, base, st)
    PROVE  Trace(f, V, n, base, st)
<1>1. 1..0 = {}
  OBVIOUS
<1>2. f[1..0] = base
  BY <1>1 DEF FoldLike
<1>3. ASSUME NEW k \in 1..n, f[1..(k - 1)] \in V
      PROVE  f[1..k] = st[<<f[1..(k - 1)], k>>] /\ f[1..k] \in V
  <2>1. 1..k \in SUBSET (1..n) /\ k \in Nat /\ k # 0
    OBVIOUS
  <2>2. 1..k # {} /\ Max(1..k) = k /\ (1..k) \ {k} = 1..(k - 1)
    BY <2>1, MaxOfRange
  <2>3. f[1..k] = st[<<f[1..(k - 1)], k>>]
    BY <2>1, <2>2, <1>3 DEF FoldLike
  <2> QED BY <2>3, <1>3 DEF IsFoldStep
<1> DEFINE P == {k \in Nat : k \in 0..n => f[1..k] \in V}
<1>4. 0 \in P
  BY <1>2
<1>5. ASSUME NEW k \in Nat, k \in P PROVE k + 1 \in P
  <2> SUFFICES ASSUME k + 1 \in 0..n PROVE f[1..(k + 1)] \in V
    OBVIOUS
  <2>1. k \in 0..n /\ k + 1 \in 1..n /\ (k + 1) - 1 = k
    OBVIOUS
  <2>2. f[1..((k + 1) - 1)] \in V
    BY <2>1, <1>5
  <2> QED BY <2>1, <2>2, <1>3
<1> HIDE DEF P
<1>6. Nat \subseteq P
  BY <1>4, <1>5, NatSet
<1>7. \A k \in 0..n : f[1..k] \in V
  BY <1>6 DEF P
<1>8. ASSUME NEW k \in 1..n PROVE f[1..k] = st[<<f[1..(k - 1)], k>>]
  <2>1. k - 1 \in 0..n
    OBVIOUS
  <2> QED BY <2>1, <1>7, <1>3
<1> QED BY <1>2, <1>7, <1>8 DEF Trace

-----------------------------------------------------------------------------
(* What is known of a sequence.                                            *)
LEMMA SeqFacts ==
    ASSUME NEW S, NEW s \in Seq(S)
    PROVE  Len(s) \in Nat /\ DOMAIN s = 1..Len(s) /\ \A i \in 1..Len(s) : s[i] \in S
BY LenProperties, ElementOfSeq

(* One item more: the sequence with the same items, and x behind them.     *)
LEMMA IsAppended ==
    ASSUME NEW S, NEW q, q \in Seq(S), NEW x, x \in S, NEW p, p \in Seq(S), Len(p) = Len(q) + 1,
           \A i \in 1..Len(q) : p[i] = q[i], p[Len(q) + 1] = x
    PROVE  p = Append(q, x)
<1> DEFINE r == Append(q, x)
<1>1. /\ r \in Seq(S) /\ Len(r) = Len(q) + 1 /\ r[Len(q) + 1] = x
      /\ \A i \in 1..Len(q) : r[i] = q[i]
  BY AppendProperties
<1>2. Len(q) \in Nat
  BY SeqFacts
<1> HIDE DEF r
<1>3. \A i \in 1..Len(p) : p[i] = r[i]
  <2>1. \A i \in 1..Len(p) : i \in 1..Len(q) \/ i = Len(q) + 1
    BY <1>2
  <2> QED BY <2>1, <1>1
<1>4. p = r
  BY <1>1, <1>3, SeqEqual
<1> QED BY <1>4 DEF r

(***************************************************************************)
(* The running concatenation of a sequence of sequences: g[k] is the first *)
(* k of them in one.                                                       *)
(***************************************************************************)
Flattens(g, seqs, X) ==
    /\ g \in [0..Len(seqs) -> Seq(X)] /\ g[0] = <<>>
    /\ \A k \in 1..Len(seqs) : g[k] = g[k - 1] \o seqs[k]

(* FlattenSeq appends its arguments one after the other.                   *)
LEMMA FlattenRuns ==
    ASSUME NEW X, NEW seqs \in Seq(Seq(X))
    PROVE  \E g : Flattens(g, seqs, X) /\ FlattenSeq(seqs) = g[Len(seqs)]
<1> DEFINE n == Len(seqs)
<1>1. n \in Nat /\ \A i \in 1..n : seqs[i] \in Seq(X)
  BY SeqFacts
<1>2. CASE n = 0
  <2>1. seqs = <<>> /\ FlattenSeq(seqs) = <<>>
    BY <1>2, EmptySeq DEF FlattenSeq
  <2> DEFINE g == [k \in 0..0 |-> <<>>]
  <2>2. g \in [0..n -> Seq(X)] /\ g[0] = <<>> /\ 1..n = {}
    BY <1>2, EmptySeq
  <2>3. Flattens(g, seqs, X)
    BY <2>2 DEF Flattens
  <2> QED BY <2>1, <2>2, <2>3, <1>2
<1>3. CASE n # 0
  <2> DEFINE V == Seq(X)
             st == [p \in Nat \X V |-> IF p[1] < n THEN p[2] \o seqs[p[1] + 1] ELSE p[2]]
             Def(c) == [i \in 1..n |-> IF i = 1 THEN seqs[i] ELSE c[i - 1] \o seqs[i]]
             c == CHOOSE d : d = Def(d)
  <2>1. <<>> \in V /\ IsStep(st, V)
    <3>1. ASSUME NEW k \in Nat, NEW v \in V, k < n PROVE v \o seqs[k + 1] \in V
      <4>1. k + 1 \in 1..n
        BY <3>1, <1>1
      <4> QED BY <4>1, <1>1, ConcatProperties
    <3>2. \A p \in Nat \X V : (IF p[1] < n THEN p[2] \o seqs[p[1] + 1] ELSE p[2]) \in V
      BY <3>1
    <3> QED BY <3>2 DEF IsStep
  <2>2. ASSUME NEW k \in Nat, NEW v \in V, k < n PROVE st[<<k, v>>] = v \o seqs[k + 1]
    BY <2>2
  <2>3. FlattenSeq(seqs) = c[n]
    BY <1>3 DEF FlattenSeq
  <2> HIDE DEF st
  <2>4. PICK f : Unfolds(f, V, <<>>, st)
    BY <2>1, Recursion
  <2>5. f \in [Nat -> V] /\ f[0] = <<>> /\ \A k \in Nat : f[k + 1] = st[<<k, f[k]>>]
    BY <2>4 DEF Unfolds
  <2>6. ASSUME NEW i \in 1..n PROVE f[i] = f[i - 1] \o seqs[i]
    <3>1. i - 1 \in Nat /\ (i - 1) + 1 = i /\ i - 1 < n
      BY <1>1
    <3>2. f[(i - 1) + 1] = st[<<i - 1, f[i - 1]>>] /\ f[i - 1] \in V
      BY <3>1, <2>5
    <3>3. st[<<i - 1, f[i - 1]>>] = f[i - 1] \o seqs[(i - 1) + 1]
      BY <3>1, <3>2, <2>2
    <3> QED BY <3>1, <3>2, <3>3
  <2>7. f[1] = seqs[1]
    <3>1. 1 \in 1..n /\ 1 - 1 = 0
      BY <1>1, <1>3
    <3>2. <<>> \o seqs[1] = seqs[1]
      BY <3>1, <1>1, ConcatEmptySeq
    <3> QED BY <3>1, <3>2, <2>5, <2>6
  <2> DEFINE d == [i \in 1..n |-> f[i]]
  <2>8. d = Def(d)
    <3>1. ASSUME NEW i \in 1..n PROVE d[i] = IF i = 1 THEN seqs[i] ELSE d[i - 1] \o seqs[i]
      <4>1. CASE i = 1
        BY <4>1, <2>7
      <4>2. CASE i # 1
        <5>1. i - 1 \in 1..n
          BY <4>2, <1>1
        <5> QED BY <5>1, <4>2, <2>6
      <4> QED BY <4>1, <4>2
    <3> QED BY <3>1
  <2> HIDE DEF d
  <2>9. c = Def(c)
    <3> HIDE DEF Def
    <3> QED BY <2>8
  <2> HIDE DEF c
  <2> DEFINE g == [k \in 0..n |-> IF k = 0 THEN <<>> ELSE c[k]]
             P == {k \in Nat : k \in 0..n => g[k] \in Seq(X)}
  <2>10. \A i \in 1..n : c[i] = IF i = 1 THEN seqs[i] ELSE c[i - 1] \o seqs[i]
    <3> DEFINE e == Def(c)
    <3>1. \A i \in 1..n : e[i] = IF i = 1 THEN seqs[i] ELSE c[i - 1] \o seqs[i]
      OBVIOUS
    <3>2. e = c
      BY <2>9
    <3> HIDE DEF e
    <3> QED BY <3>1, <3>2
  <2>11. ASSUME NEW k \in 1..n PROVE g[k] = g[k - 1] \o seqs[k]
    <3>1. k - 1 \in 0..n /\ k \in 0..n /\ k # 0
      BY <1>1
    <3>2. CASE k = 1
      <4>1. g[k - 1] = <<>> /\ g[k] = seqs[1]
        BY <3>1, <3>2, <2>10
      <4>2. <<>> \o seqs[1] = seqs[1]
        BY <3>2, <1>1, ConcatEmptySeq
      <4> QED BY <4>1, <4>2, <3>2
    <3>3. CASE k # 1
      <4>1. g[k - 1] = c[k - 1] /\ g[k] = c[k]
        BY <3>1, <3>3
      <4> QED BY <4>1, <3>3, <2>10
    <3> QED BY <3>2, <3>3
  <2>12. g[0] = <<>> /\ g[n] = c[n]
    BY <1>1, <1>3
  <2>13. g = [k \in 0..n |-> g[k]]
    OBVIOUS
  <2> HIDE DEF g
  <2>14. 0 \in P
    BY <2>12, EmptySeq
  <2>15. ASSUME NEW k \in Nat, k \in P PROVE k + 1 \in P
    <3> SUFFICES ASSUME k + 1 \in 0..n PROVE g[k + 1] \in Seq(X)
      OBVIOUS
    <3>1. k \in 0..n /\ k + 1 \in 1..n /\ (k + 1) - 1 = k
      BY <1>1
    <3>2. g[k + 1] = g[k] \o seqs[k + 1] /\ g[k] \in Seq(X) /\ seqs[k + 1] \in Seq(X)
      BY <3>1, <2>11, <2>15, <1>1
    <3> QED BY <3>2, ConcatProperties
  <2> HIDE DEF P
  <2>16. Nat \subseteq P
    BY <2>14, <2>15, NatSet
  <2>17. \A k \in 0..n : g[k] \in Seq(X)
    BY <2>16, <1>1 DEF P
  <2>18. g \in [0..n -> Seq(X)]
    BY <2>13, <2>17
  <2>19. Flattens(g, seqs, X)
    BY <2>18, <2>12, <2>11 DEF Flattens
  <2> QED BY <2>19, <2>12, <2>3
<1> QED BY <1>2, <1>3

(* A longer sequence begins as the shorter one does.                       *)
Begins(a, b) == Len(a) <= Len(b) /\ \A i \in 1..Len(a) : a[i] = b[i]

(* Flattening a list and one it begins agree as far as the shorter goes.   *)
LEMMA FlattenAgrees ==
    ASSUME NEW X, NEW a \in Seq(Seq(X)), NEW b \in Seq(Seq(X)), Begins(a, b),
           NEW g, NEW h, Flattens(g, a, X), Flattens(h, b, X)
    PROVE  \A k \in 0..Len(a) : g[k] = h[k]
<1> DEFINE P == {k \in Nat : k \in 0..Len(a) => g[k] = h[k]}
<1>0. Len(a) \in Nat /\ Len(b) \in Nat
  BY SeqFacts
<1>1. 0 \in P
  BY DEF Flattens
<1>2. ASSUME NEW k \in Nat, k \in P PROVE k + 1 \in P
  <2> SUFFICES ASSUME k + 1 \in 0..Len(a) PROVE g[k + 1] = h[k + 1]
    OBVIOUS
  <2>1. k \in 0..Len(a) /\ k + 1 \in 1..Len(a) /\ k + 1 \in 1..Len(b) /\ (k + 1) - 1 = k
    BY <1>0 DEF Begins
  <2>2. g[k] = h[k] /\ a[k + 1] = b[k + 1]
    BY <2>1, <1>2 DEF Begins
  <2>3. g[k + 1] = g[k] \o a[k + 1] /\ h[k + 1] = h[k] \o b[k + 1]
    BY <2>1 DEF Flattens
  <2> QED BY <2>2, <2>3
<1> HIDE DEF P
<1>3. Nat \subseteq P
  BY <1>1, <1>2, NatSet
<1> QED BY <1>3, <1>0 DEF P

(* Flattening: of nothing, and of one more.                                *)
LEMMA FlattenEmpty == FlattenSeq(<<>>) = <<>>
<1>1. Len(<<>>) = 0
  BY EmptySeq
<1> QED BY <1>1 DEF FlattenSeq

(* Flattening after one more sequence appends that sequence.               *)
LEMMA FlattenAppend ==
    ASSUME NEW X, NEW seqs \in Seq(Seq(X)), NEW s \in Seq(X)
    PROVE  /\ FlattenSeq(Append(seqs, s)) = FlattenSeq(seqs) \o s
           /\ FlattenSeq(seqs) \in Seq(X)
<1> DEFINE n == Len(seqs)
           b == Append(seqs, s)
<1>1. /\ n \in Nat /\ b \in Seq(Seq(X)) /\ Len(b) = n + 1 /\ b[n + 1] = s
      /\ \A i \in 1..n : seqs[i] = b[i]
  BY SeqFacts, AppendProperties
<1>2. PICK g : Flattens(g, seqs, X) /\ FlattenSeq(seqs) = g[n]
  BY FlattenRuns
<1> HIDE DEF b
<1>3. PICK h : Flattens(h, b, X) /\ FlattenSeq(b) = h[n + 1]
  BY <1>1, FlattenRuns
<1>4. g[n] = h[n]
  <2>0. Begins(seqs, b)
    BY <1>1 DEF Begins
  <2>1. \A k \in 0..Len(seqs) : g[k] = h[k]
    BY <2>0, <1>1, <1>2, <1>3, FlattenAgrees
  <2> QED BY <2>1, <1>1
<1>5. h[n + 1] = h[n] \o s
  <2>1. n + 1 \in 1..Len(b) /\ (n + 1) - 1 = n
    BY <1>1
  <2> QED BY <2>1, <1>1, <1>3 DEF Flattens
<1>6. g[n] \in Seq(X)
  <2>1. n \in 0..Len(seqs) /\ g \in [0..Len(seqs) -> Seq(X)]
    BY <1>1, <1>2 DEF Flattens
  <2> QED BY <2>1
<1> QED BY <1>2, <1>3, <1>4, <1>5, <1>6 DEF b

-----------------------------------------------------------------------------
(* Frames, the gathering of coalesce_binary, and what frames carry.        *)
Frame == [kind : {"binary", "text"}, bytes : Seq(Nat)]
Gathering == [buf : Seq(Nat), out : Seq(Frame)]

PieceOf(f) == IF f.kind = "text" THEN <<0>> ELSE f.bytes
PiecesOf(frames) == [i \in 1..Len(frames) |-> PieceOf(frames[i])]
ContentOf(frames) == FlattenSeq(PiecesOf(frames))

(* What a frame carries is a sequence.                                     *)
LEMMA PieceIsSeq ==
    ASSUME NEW f \in Frame
    PROVE  PieceOf(f) \in Seq(Nat)
<1>1. <<0>> \in Seq(Nat) /\ f.bytes \in Seq(Nat)
  BY DEF Frame
<1> QED BY <1>1 DEF PieceOf

(* So is what each frame of a list carries.                                *)
LEMMA PiecesAreSeqs ==
    ASSUME NEW frames \in Seq(Frame)
    PROVE  PiecesOf(frames) \in Seq(Seq(Nat)) /\ Len(PiecesOf(frames)) = Len(frames)
<1>1. Len(frames) \in Nat /\ \A i \in 1..Len(frames) : PieceOf(frames[i]) \in Seq(Nat)
  BY SeqFacts, PieceIsSeq
<1> QED BY <1>1 DEF PiecesOf

(* One frame more is its piece more.                                       *)
LEMMA ContentAppend ==
    ASSUME NEW frames \in Seq(Frame), NEW f \in Frame
    PROVE  /\ ContentOf(Append(frames, f)) = ContentOf(frames) \o PieceOf(f)
           /\ ContentOf(frames) \in Seq(Nat)
<1> DEFINE n == Len(frames)
<1>1. n \in Nat /\ Append(frames, f) \in Seq(Frame) /\ Len(Append(frames, f)) = n + 1
  BY SeqFacts, AppendProperties
<1>2. \A i \in 1..(n + 1) : Append(frames, f)[i] = IF i <= n THEN frames[i] ELSE f
  BY <1>1, AppendProperties
<1>3. PiecesOf(frames) \in Seq(Seq(Nat)) /\ Len(PiecesOf(frames)) = n /\ PieceOf(f) \in Seq(Nat)
  BY PiecesAreSeqs, PieceIsSeq
<1>4. PiecesOf(Append(frames, f)) = Append(PiecesOf(frames), PieceOf(f))
  <2> DEFINE a == Append(frames, f)
             p == PiecesOf(a)
             q == PiecesOf(frames)
  <2> HIDE DEF a
  <2>1. p \in Seq(Seq(Nat)) /\ Len(p) = n + 1
    BY <1>1, PiecesAreSeqs DEF a
  <2>2. \A i \in 1..n : p[i] = PieceOf(a[i]) /\ q[i] = PieceOf(frames[i]) /\ a[i] = frames[i]
    BY <1>1, <1>2 DEF PiecesOf, a
  <2>3. p[n + 1] = PieceOf(f)
    <3>1. n + 1 \in 1..(n + 1) /\ a[n + 1] = f /\ Len(a) = n + 1
      BY <1>1, <1>2 DEF a
    <3> QED BY <3>1 DEF PiecesOf
  <2>4. \A i \in 1..n : p[i] = q[i]
    BY <2>2
  <2> HIDE DEF p, q
  <2>5. p = Append(q, PieceOf(f))
    BY <2>1, <2>3, <2>4, <1>3, IsAppended DEF q
  <2> QED BY <2>5 DEF p, q, a
<1> QED BY <1>3, <1>4, FlattenAppend DEF ContentOf

(* No frames, no content.                                                  *)
LEMMA ContentEmpty == ContentOf(<<>>) = <<>>
<1>1. PiecesOf(<<>>) = <<>>
  BY EmptySeq DEF PiecesOf
<1> QED BY <1>1, FlattenEmpty DEF ContentOf

(***************************************************************************)
(* The loop invariant of coalesce_binary over the frames of src: what has  *)
(* been passed on and what is gathered make up the content c so far, the   *)
(* gathering keeps the cap, and a frame above the cap came in as it is.    *)
(***************************************************************************)
Capped(out, src, max) == \A i \in 1..Len(out) : Len(out[i].bytes) > max => out[i] \in src

GatheredFrom(acc, src, max, c) ==
    /\ acc \in Gathering /\ c \in Seq(Nat)
    /\ ContentOf(acc.out) \o acc.buf = c
    /\ Len(acc.buf) <= max
    /\ Capped(acc.out, src, max)

(* A frame within the cap, or one that came that long, keeps the output    *)
(* within the cap.                                                         *)
LEMMA CappedAppend ==
    ASSUME NEW out \in Seq(Frame), NEW src, NEW max \in Nat, NEW f \in Frame,
           Capped(out, src, max), Len(f.bytes) > max => f \in src
    PROVE  Capped(Append(out, f), src, max)
<1>1. Len(out) \in Nat /\ Len(Append(out, f)) = Len(out) + 1
  BY SeqFacts, AppendProperties
<1>2. ASSUME NEW i \in 1..(Len(out) + 1)
      PROVE (Append(out, f)[i] = out[i] /\ i \in 1..Len(out)) \/ Append(out, f)[i] = f
  BY <1>1, AppendProperties
<1> QED BY <1>1, <1>2 DEF Capped

(* flush: the gathering becomes a frame of its own.                        *)
LEMMA FlushKeeps ==
    ASSUME NEW acc, NEW src, NEW max \in Nat, NEW c, GatheredFrom(acc, src, max, c)
    PROVE  GatheredFrom(Flush(acc), src, max, c) /\ Flush(acc).buf = <<>>
<1>1. /\ acc.buf \in Seq(Nat) /\ acc.out \in Seq(Frame) /\ c \in Seq(Nat)
      /\ ContentOf(acc.out) \o acc.buf = c /\ Len(acc.buf) <= max /\ Capped(acc.out, src, max)
  BY DEF GatheredFrom, Gathering
<1>2. <<>> \in Seq(Nat) /\ Len(<<>>) = 0
  BY EmptySeq
<1>3. CASE acc.buf = <<>>
  <2>1. Flush(acc) = [buf |-> <<>>, out |-> acc.out]
    BY <1>3 DEF Flush
  <2>2. Flush(acc).buf = <<>> /\ Flush(acc).out = acc.out /\ Flush(acc) \in Gathering
    BY <2>1, <1>1, <1>2 DEF Gathering
  <2> QED BY <2>2, <1>1, <1>2, <1>3 DEF GatheredFrom
<1>4. CASE acc.buf # <<>>
  <2> DEFINE f == Binary(acc.buf)
  <2>1. f \in Frame /\ f.bytes = acc.buf /\ PieceOf(f) = acc.buf
    BY <1>1 DEF Binary, Frame, PieceOf
  <2>2. Flush(acc) = [buf |-> <<>>, out |-> Append(acc.out, f)]
    BY <1>4 DEF Flush
  <2> HIDE DEF f
  <2>3. Append(acc.out, f) \in Seq(Frame)
    BY <2>1, <1>1, AppendProperties
  <2>4. Flush(acc).buf = <<>> /\ Flush(acc).out = Append(acc.out, f) /\ Flush(acc) \in Gathering
    BY <2>2, <2>3, <1>2 DEF Gathering
  <2>5. ContentOf(Append(acc.out, f)) = c
    BY <2>1, <1>1, ContentAppend
  <2>6. c \o <<>> = c
    BY <1>1, ConcatEmptySeq
  <2>7. Capped(Append(acc.out, f), src, max)
    <3>1. ~(Len(f.bytes) > max)
      BY <2>1, <1>1, SeqFacts
    <3> QED BY <3>1, <2>1, <1>1, CappedAppend
  <2> QED BY <2>4, <2>5, <2>6, <2>7, <1>1, <1>2 DEF GatheredFrom
<1> QED BY <1>3, <1>4

(* A frame passed on behind an empty gathering.                            *)
LEMMA PassedOn ==
    ASSUME NEW acc, NEW src, NEW max \in Nat, NEW c, GatheredFrom(acc, src, max, c), acc.buf = <<>>,
           NEW f \in Frame, f \in src
    PROVE  GatheredFrom([acc EXCEPT !.out = Append(@, f)], src, max, c \o PieceOf(f))
<1>1. /\ acc.out \in Seq(Frame) /\ c \in Seq(Nat) /\ acc \in Gathering
      /\ ContentOf(acc.out) \o <<>> = c /\ Len(<<>>) <= max /\ Capped(acc.out, src, max)
  BY DEF GatheredFrom, Gathering
<1> DEFINE b == [acc EXCEPT !.out = Append(@, f)]
<1>2. Append(acc.out, f) \in Seq(Frame) /\ PieceOf(f) \in Seq(Nat)
  BY <1>1, AppendProperties, PieceIsSeq
<1>3. b \in Gathering /\ b.out = Append(acc.out, f) /\ b.buf = <<>>
  BY <1>1, <1>2 DEF Gathering
<1> HIDE DEF b
<1>4. ContentOf(acc.out) = c
  BY <1>1, ContentAppend, ConcatEmptySeq
<1>5. ContentOf(b.out) = c \o PieceOf(f) /\ c \o PieceOf(f) \in Seq(Nat)
  BY <1>1, <1>2, <1>3, <1>4, ContentAppend, ConcatProperties
<1>6. ContentOf(b.out) \o b.buf = c \o PieceOf(f)
  BY <1>3, <1>5, ConcatEmptySeq
<1>7. Capped(b.out, src, max)
  BY <1>1, <1>3, CappedAppend
<1>8. GatheredFrom(b, src, max, c \o PieceOf(f))
  BY <1>1, <1>3, <1>5, <1>6, <1>7 DEF GatheredFrom
<1> QED BY <1>8 DEF b

(* One frame through the loop.                                             *)
LEMMA CoalesceStep ==
    ASSUME NEW acc, NEW src, NEW max \in Nat, NEW c, GatheredFrom(acc, src, max, c),
           NEW f \in Frame, f \in src
    PROVE  GatheredFrom(CoalesceFrame(acc, f, max), src, max, c \o PieceOf(f))
<1>0. /\ acc.buf \in Seq(Nat) /\ acc.out \in Seq(Frame) /\ c \in Seq(Nat) /\ f.bytes \in Seq(Nat)
      /\ f.kind \in {"binary", "text"} /\ acc \in Gathering
      /\ ContentOf(acc.out) \o acc.buf = c /\ Len(acc.buf) <= max /\ Capped(acc.out, src, max)
  BY DEF GatheredFrom, Gathering, Frame
<1> DEFINE fl == Flush(acc)
<1>1. GatheredFrom(fl, src, max, c) /\ fl.buf = <<>>
  BY FlushKeeps
<1>2. CASE f.kind # "binary" \/ Len(f.bytes) >= max
  <2>1. CoalesceFrame(acc, f, max) = [fl EXCEPT !.out = Append(@, f)]
    BY <1>2 DEF CoalesceFrame
  <2> HIDE DEF fl
  <2> QED BY <2>1, <1>1, PassedOn
<1>3. CASE f.kind = "binary" /\ ~(Len(f.bytes) >= max)
  <2>0. PieceOf(f) = f.bytes /\ Len(f.bytes) \in Nat /\ Len(acc.buf) \in Nat
    BY <1>0, <1>3, SeqFacts DEF PieceOf
  <2>c. c \o f.bytes \in Seq(Nat)
    BY <1>0, ConcatProperties
  <2>1. CASE Len(acc.buf) + Len(f.bytes) > max
    <3>1. CoalesceFrame(acc, f, max) = [fl EXCEPT !.buf = f.bytes]
      BY <1>3, <2>1 DEF CoalesceFrame
    <3> DEFINE b == [fl EXCEPT !.buf = f.bytes]
    <3> HIDE DEF fl
    <3>2. fl \in Gathering /\ ContentOf(fl.out) \o <<>> = c /\ Capped(fl.out, src, max)
          /\ fl.out \in Seq(Frame)
      BY <1>1 DEF GatheredFrom, Gathering
    <3>3. b \in Gathering /\ b.out = fl.out /\ b.buf = f.bytes
      BY <3>2, <1>0 DEF Gathering
    <3> HIDE DEF b
    <3>4. ContentOf(fl.out) = c
      BY <3>2, <1>0, ContentAppend, ConcatEmptySeq
    <3>5. Len(b.buf) <= max
      BY <3>3, <1>3, <2>0
    <3>6. GatheredFrom(b, src, max, c \o f.bytes)
      BY <3>2, <3>3, <3>4, <3>5, <2>c DEF GatheredFrom
    <3> QED BY <3>1, <3>6, <2>0 DEF b
  <2>2. CASE ~(Len(acc.buf) + Len(f.bytes) > max)
    <3>1. CoalesceFrame(acc, f, max) = [acc EXCEPT !.buf = @ \o f.bytes]
      BY <1>3, <2>2 DEF CoalesceFrame
    <3> DEFINE b == [acc EXCEPT !.buf = @ \o f.bytes]
    <3>2. acc.buf \o f.bytes \in Seq(Nat) /\ Len(acc.buf \o f.bytes) = Len(acc.buf) + Len(f.bytes)
      BY <1>0, ConcatProperties
    <3>3. b \in Gathering /\ b.out = acc.out /\ b.buf = acc.buf \o f.bytes
      BY <3>2, <1>0 DEF Gathering
    <3> HIDE DEF b
    <3>4. ContentOf(acc.out) \o (acc.buf \o f.bytes) = (ContentOf(acc.out) \o acc.buf) \o f.bytes
      <4> DEFINE x == ContentOf(acc.out)
                 y == acc.buf
                 z == f.bytes
      <4>1. x \in Seq(Nat) /\ y \in Seq(Nat) /\ z \in Seq(Nat)
        BY <1>0, ContentAppend
      <4> HIDE DEF x, y, z
      <4>2. (x \o y) \o z = x \o (y \o z)
        BY ONLY SMTT(30), <4>1, ConcatAssociative
      <4> QED BY <4>2 DEF x, y, z
    <3>5. Len(b.buf) <= max
      <4>1. Len(b.buf) = Len(acc.buf) + Len(f.bytes)
        BY <3>2, <3>3
      <4>2. \A u, v \in Nat : ~(u + v > max) => u + v <= max
        OBVIOUS
      <4> QED BY ONLY <4>1, <4>2, <2>0, <2>2
    <3>6. GatheredFrom(b, src, max, c \o f.bytes)
      BY <3>3, <3>4, <3>5, <2>c, <1>0 DEF GatheredFrom
    <3> QED BY <3>1, <3>6, <2>0 DEF b
  <2> QED BY <2>1, <2>2
<1> QED BY <1>2, <1>3

(* The loop of coalesce_binary, position by position.                      *)
NoGathering == [buf |-> <<>>, out |-> <<>>]
Coalescing(acc, frames, max) ==
    /\ acc[1..0] = NoGathering
    /\ \A k \in 1..Len(frames) : acc[1..k] = CoalesceFrame(acc[1..(k - 1)], frames[k], max)

(* CoalesceBinary is the loop over the frames and the flush after it.      *)
LEMMA CoalesceRuns ==
    ASSUME NEW frames \in Seq(Frame), NEW max \in Nat, max # 0, Len(frames) > 1
    PROVE  \E acc : /\ Coalescing(acc, frames, max)
                   /\ CoalesceBinary(frames, max) = Flush(acc[1..Len(frames)]).out
<1> DEFINE n == Len(frames)
           V == {a \in Gathering : Len(a.buf) <= max}
           Def(d) == [s \in SUBSET (1..n) |->
                        IF s = {} THEN NoGathering
                        ELSE CoalesceFrame(d[s \ {Max(s)}], frames[Max(s)], max)]
           it == CHOOSE d : d = Def(d)
           st == [p \in V \X (1..n) |-> CoalesceFrame(p[1], frames[p[2]], max)]
<1>1. n \in Nat /\ DOMAIN frames = 1..n /\ \A i \in 1..n : frames[i] \in Frame
  BY SeqFacts
<1>2. CoalesceBinary(frames, max) = Flush(it[1..n]).out
  <2>1. ~(max = 0 \/ Len(frames) <= 1)
    BY <1>1
  <2> QED BY <2>1, <1>1 DEF CoalesceBinary, FoldLeft, MapThenFoldSet, NoGathering
<1>3. NoGathering \in V
  <2>1. <<>> \in Seq(Nat) /\ <<>> \in Seq(Frame) /\ Len(<<>>) = 0
    BY EmptySeq
  <2> QED BY <2>1 DEF NoGathering, Gathering
<1>4. ASSUME NEW a \in V, NEW i \in 1..n PROVE CoalesceFrame(a, frames[i], max) \in V
  <2> DEFINE c == ContentOf(a.out) \o a.buf
             b == CoalesceFrame(a, frames[i], max)
  <2>1. a \in Gathering /\ a.out \in Seq(Frame) /\ a.buf \in Seq(Nat) /\ Len(a.buf) <= max
    BY DEF Gathering
  <2>2. frames[i] \in Frame
    BY <1>1
  <2>3. c \in Seq(Nat)
    BY <2>1, <2>2, ContentAppend, ConcatProperties
  <2>4. Capped(a.out, Frame, max)
    BY <2>1, SeqFacts DEF Capped
  <2>5. GatheredFrom(a, Frame, max, c)
    BY <2>1, <2>3, <2>4 DEF GatheredFrom
  <2> HIDE DEF c
  <2>6. GatheredFrom(b, Frame, max, c \o PieceOf(frames[i]))
    BY <2>2, <2>5, CoalesceStep
  <2> HIDE DEF b
  <2>7. b \in V
    BY <2>6 DEF GatheredFrom
  <2> QED BY <2>7 DEF b
<1>5. IsFoldStep(st, V, n)
  BY <1>4 DEF IsFoldStep
<1>6. \A a \in V, i \in 1..n : st[<<a, i>>] = CoalesceFrame(a, frames[i], max)
  OBVIOUS
<1> HIDE DEF V, st
<1>7. PICK f : FoldsOver(f, V, n, NoGathering, st)
  BY <1>1, <1>3, <1>5, FoldExists
<1>8. f = Def(f)
  <2>1. ASSUME NEW s \in SUBSET (1..n)
        PROVE f[s] = IF s = {} THEN NoGathering ELSE CoalesceFrame(f[s \ {Max(s)}], frames[Max(s)], max)
    <3>1. f[s] = FoldStep(f, s, NoGathering, st)
      BY <1>7 DEF FoldsOver
    <3>2. CASE s = {}
      BY <3>1, <3>2 DEF FoldStep
    <3>3. CASE s # {}
      <4>1. Max(s) \in 1..n /\ s \ {Max(s)} \in SUBSET (1..n)
        BY <3>3, <1>1, MaxInRange
      <4>2. f[s \ {Max(s)}] \in V
        BY <4>1, <1>7 DEF FoldsOver
      <4> QED BY <4>1, <4>2, <3>1, <3>3, <1>6 DEF FoldStep
    <3> QED BY <3>2, <3>3
  <2>2. f = [s \in SUBSET (1..n) |-> f[s]]
    BY <1>7 DEF FoldsOver
  <2> QED BY <2>1, <2>2
<1>9. it = Def(it)
  <2> HIDE DEF Def
  <2> QED BY <1>8
<1> HIDE DEF it
<1>10. \A s \in SUBSET (1..n) :
          it[s] = IF s = {} THEN NoGathering ELSE CoalesceFrame(it[s \ {Max(s)}], frames[Max(s)], max)
  <2> DEFINE e == Def(it)
  <2>1. \A s \in SUBSET (1..n) :
          e[s] = IF s = {} THEN NoGathering ELSE CoalesceFrame(it[s \ {Max(s)}], frames[Max(s)], max)
    OBVIOUS
  <2>2. e = it
    BY <1>9
  <2> HIDE DEF e
  <2> QED BY <2>1, <2>2
<1>11. it[1..0] = NoGathering
  <2>1. 1..0 = {} /\ 1..0 \in SUBSET (1..n)
    OBVIOUS
  <2> QED BY <2>1, <1>10
<1>12. ASSUME NEW k \in 1..n PROVE it[1..k] = CoalesceFrame(it[1..(k - 1)], frames[k], max)
  <2>1. 1..k \in SUBSET (1..n) /\ k \in Nat /\ k # 0
    BY <1>1
  <2>2. 1..k # {} /\ Max(1..k) = k /\ (1..k) \ {k} = 1..(k - 1)
    BY <2>1, MaxOfRange
  <2> QED BY <2>1, <2>2, <1>10
<1> QED BY <1>2, <1>11, <1>12 DEF Coalescing

(***************************************************************************)
(* coalesce_binary on any frames and any cap: the content is the same, and *)
(* only a frame that came in above the cap goes out above it.              *)
(***************************************************************************)
THEOREM CoalesceLosesNothing ==
    ASSUME NEW frames \in Seq(Frame), NEW max \in Nat
    PROVE  /\ ContentOf(CoalesceBinary(frames, max)) = ContentOf(frames)
           /\ Capped(CoalesceBinary(frames, max), Range(frames), max)
<1> DEFINE n == Len(frames)
           src == Range(frames)
<1>0. n \in Nat /\ DOMAIN frames = 1..n /\ \A i \in 1..n : frames[i] \in Frame /\ frames[i] \in src
  BY SeqFacts DEF Range
<1>1. CASE max = 0 \/ Len(frames) <= 1
  BY <1>0, <1>1 DEF CoalesceBinary, Capped
<1>2. CASE max # 0 /\ Len(frames) > 1
  <2>1. PICK acc : /\ Coalescing(acc, frames, max)
                   /\ CoalesceBinary(frames, max) = Flush(acc[1..n]).out
    BY <1>2, CoalesceRuns
  <2> HIDE DEF src
  <2>2. PiecesOf(frames) \in Seq(Seq(Nat)) /\ Len(PiecesOf(frames)) = n
    BY PiecesAreSeqs
  <2>3. PICK g : Flattens(g, PiecesOf(frames), Nat) /\ ContentOf(frames) = g[n]
    BY <2>2, FlattenRuns DEF ContentOf
  <2> DEFINE P == {k \in Nat : k \in 0..n => GatheredFrom(acc[1..k], src, max, g[k])}
  <2>4. 0 \in P
    <3>1. acc[1..0] = NoGathering /\ g[0] = <<>>
      BY <2>1, <2>3 DEF Coalescing, Flattens
    <3>2. <<>> \in Seq(Nat) /\ <<>> \in Seq(Frame) /\ Len(<<>>) = 0 /\ <<>> \o <<>> = <<>>
      BY EmptySeq, ConcatEmptySeq
    <3>3. NoGathering \in Gathering /\ NoGathering.buf = <<>> /\ NoGathering.out = <<>>
      BY <3>2 DEF NoGathering, Gathering
    <3>4. GatheredFrom(NoGathering, src, max, <<>>)
      BY <3>2, <3>3, ContentEmpty DEF GatheredFrom, Capped
    <3> QED BY <3>1, <3>4
  <2>5. ASSUME NEW k \in Nat, k \in P PROVE k + 1 \in P
    <3> SUFFICES ASSUME k + 1 \in 0..n PROVE GatheredFrom(acc[1..(k + 1)], src, max, g[k + 1])
      OBVIOUS
    <3>1. k \in 0..n /\ k + 1 \in 1..n /\ (k + 1) - 1 = k
      BY <1>0
    <3>2. GatheredFrom(acc[1..k], src, max, g[k])
      BY <3>1, <2>5
    <3>3. acc[1..(k + 1)] = CoalesceFrame(acc[1..k], frames[k + 1], max)
      BY <3>1, <2>1 DEF Coalescing
    <3>4. g[k + 1] = g[k] \o PieceOf(frames[k + 1])
      BY <3>1, <2>2, <2>3 DEF Flattens, PiecesOf
    <3>5. frames[k + 1] \in Frame /\ frames[k + 1] \in src
      BY <3>1, <1>0
    <3> DEFINE a == acc[1..k]
    <3> HIDE DEF a
    <3>6. GatheredFrom(a, src, max, g[k])
      BY <3>2 DEF a
    <3>7. GatheredFrom(CoalesceFrame(a, frames[k + 1], max), src, max, g[k] \o PieceOf(frames[k + 1]))
      BY <3>5, <3>6, CoalesceStep
    <3> QED BY <3>3, <3>4, <3>7 DEF a
  <2> HIDE DEF P
  <2>6. Nat \subseteq P
    BY <2>4, <2>5, NatSet
  <2>7. GatheredFrom(acc[1..n], src, max, g[n])
    BY <2>6, <1>0 DEF P
  <2> DEFINE z == Flush(acc[1..n])
  <2>8. GatheredFrom(z, src, max, g[n]) /\ z.buf = <<>>
    BY <2>7, FlushKeeps
  <2> HIDE DEF z
  <2>9. z.out \in Seq(Frame) /\ ContentOf(z.out) \o <<>> = g[n] /\ Capped(z.out, src, max)
    BY <2>8 DEF GatheredFrom, Gathering
  <2>10. ContentOf(z.out) = g[n]
    <3>1. 1 \in 1..n
      BY <1>2, <1>0
    <3>2. ContentOf(z.out) \in Seq(Nat)
      BY <2>9, <3>1, <1>0, ContentAppend
    <3> QED BY <3>2, <2>9, ConcatEmptySeq
  <2>11. CoalesceBinary(frames, max) = z.out
    BY <2>1 DEF z
  <2> QED BY <2>3, <2>9, <2>10, <2>11 DEF src
<1> QED BY <1>1, <1>2, <1>0

(* The frames that pile up are frames.                                     *)
LEMMA BacklogsAreFrames ==
    ASSUME NEW frames \in Backlogs
    PROVE  frames \in Seq(Frame)
<1> DEFINE kinds == {0, 1, 2, 3, Never}
           frame(s, i) == IF s[i] = Never THEN [kind |-> "text", bytes |-> <<>>]
                          ELSE Binary([j \in 1..s[i] |-> 10 * i + j])
<1>0. PICK n \in 0..3 : frames \in {[i \in 1..n |-> frame(s, i)] : s \in [1..n -> kinds]}
  BY DEF Backlogs
<1>1. PICK s \in [1..n -> kinds] : frames = [i \in 1..n |-> frame(s, i)]
  BY <1>0
<1>2. ASSUME NEW i \in 1..n PROVE frame(s, i) \in Frame
  <2>1. CASE s[i] = Never
    <3>1. <<>> \in Seq(Nat)
      BY EmptySeq
    <3> QED BY <3>1, <2>1 DEF Frame
  <2>2. CASE s[i] # Never
    <3> DEFINE b == [j \in 1..s[i] |-> 10 * i + j]
    <3>1. s[i] \in Nat /\ i \in Nat
      BY <2>2
    <3>2. b \in [1..s[i] -> Nat]
      BY <3>1
    <3>3. b \in Seq(Nat)
      BY <3>1, <3>2, SeqDef
    <3> HIDE DEF b
    <3>4. Binary(b) \in Frame
      BY <3>3 DEF Binary, Frame
    <3> QED BY <3>4, <2>2 DEF b
  <2> QED BY <2>1, <2>2
<1> HIDE DEF frame
<1>3. frames \in [1..n -> Frame] /\ n \in Nat
  BY <1>1, <1>2
<1> QED BY <1>3, SeqDef

(***************************************************************************)
(* Whatever piled up while the link was down goes out complete and in      *)
(* order, and within the cap where it can be (frame.rs, coalesce_binary).  *)
(***************************************************************************)
THEOREM BacklogComplete == RunnersSpec => []BacklogKept
<1> DEFINE Kept(b) == /\ ContentOf(b.sent) = ContentOf(b.frames)
                      /\ Capped(b.sent, Range(b.frames), b.max)
<1>0. BacklogKept = Kept(backlog)
  BY DEF BacklogKept, ContentOf, PiecesOf, PieceOf, Capped
<1>e. Kept(NoFlush)
  <2>1. NoFlush.sent = <<>> /\ NoFlush.frames = <<>> /\ Len(<<>>) = 0
    BY EmptySeq DEF NoFlush
  <2> QED BY <2>1 DEF Capped
<1>f. ASSUME NEW frames \in Backlogs, NEW max \in {0, 2, 3}
      PROVE  Kept([frames |-> frames, max |-> max, sent |-> CoalesceBinary(frames, max)])
  <2>1. frames \in Seq(Frame) /\ max \in Nat
    BY BacklogsAreFrames
  <2> QED BY <2>1, CoalesceLosesNothing
<1> HIDE DEF Kept
<1>1. RunnersInit => Kept(backlog)
  BY <1>e DEF RunnersInit, LinkInit
<1>2. Kept(backlog) /\ [RunnersNext]_<<vars, speechVars, linkVars>> => Kept(backlog)'
  <2> SUFFICES ASSUME Kept(backlog), LinkNext \/ UNCHANGED linkVars PROVE Kept(backlog')
    BY LinkSteps DEF Kept
  <2>1. ASSUME NEW frames \in Backlogs, NEW max \in {0, 2, 3}, FlushBacklog(frames, max)
        PROVE Kept(backlog')
    BY <2>1, <1>f DEF FlushBacklog
  <2>2. CASE Flushed
    BY <2>2, <1>e DEF Flushed
  <2>3. ASSUME backlog' = backlog PROVE Kept(backlog')
    BY <2>3
  <2>4. CASE Dial \/ Connects \/ TimerFires \/ FrameArrives \/ PongArrives
    BY <2>3, <2>4, Zenon DEF Dial, Connects, TimerFires, FrameArrives, PongArrives
  <2>5. ASSUME NEW err, ConnectFails(err) \/ LinkBreaks(err) PROVE Kept(backlog')
    BY <2>3, <2>5, Zenon DEF ConnectFails, LinkBreaks
  <2>6. CASE Elapse \/ NetFails \/ NetHeals
    BY <2>3, <2>6, Zenon DEF Elapse, NetFails, NetHeals
  <2>7. CASE UNCHANGED linkVars
    BY <2>3, <2>7 DEF linkVars
  <2> QED BY <2>1, <2>2, <2>4, <2>5, <2>6, <2>7 DEF LinkNext
<1>3. Kept(backlog) => BacklogKept
  BY <1>0
<1> QED BY <1>1, <1>2, <1>3, PTL DEF RunnersSpec

-----------------------------------------------------------------------------
(* Transcripts.  Words and segments are spans of time.                     *)
Spans == [start : Nat, stop : Nat]
Inside(w, seg) == w.start >= seg.start /\ w.stop <= seg.stop

(* verbose_to_chunks gives a segment only words that lie in it.            *)
LEMMA WordsLieWithin ==
    ASSUME NEW words \in Seq(Spans), NEW seg \in Spans
    PROVE  /\ WordsWithin(words, seg) \in Seq(Spans)
           /\ \A j \in 1..Len(WordsWithin(words, seg)) : Inside(WordsWithin(words, seg)[j], seg)
<1> DEFINE n == Len(words)
           V == {k \in Seq(Spans) : \A j \in 1..Len(k) : Inside(k[j], seg)}
           Keep(k, i) == IF Inside(words[i], seg) THEN Append(k, words[i]) ELSE k
           Def(d) == [s \in SUBSET (1..n) |-> IF s = {} THEN <<>> ELSE Keep(d[s \ {Max(s)}], Max(s))]
           it == CHOOSE d : d = Def(d)
           st == [p \in V \X (1..n) |-> Keep(p[1], p[2])]
<1>1. n \in Nat /\ DOMAIN words = 1..n /\ \A i \in 1..n : words[i] \in Spans
  BY SeqFacts
<1>2. WordsWithin(words, seg) = it[1..n]
  BY <1>1 DEF WordsWithin, FoldLeft, MapThenFoldSet, Inside
<1>3. <<>> \in V
  BY EmptySeq
<1>4. ASSUME NEW k \in V, NEW i \in 1..n PROVE Keep(k, i) \in V
  <2>1. CASE Inside(words[i], seg)
    <3> DEFINE a == Append(k, words[i])
    <3>1. /\ a \in Seq(Spans) /\ Len(a) = Len(k) + 1 /\ a[Len(k) + 1] = words[i] /\ Len(k) \in Nat
          /\ \A j \in 1..Len(k) : a[j] = k[j]
      BY <1>1, AppendProperties, SeqFacts
    <3> HIDE DEF a
    <3>2. \A j \in 1..Len(a) : j \in 1..Len(k) \/ j = Len(k) + 1
      BY <3>1
    <3>3. a \in V
      BY <3>1, <3>2, <2>1
    <3> QED BY <3>3, <2>1 DEF a
  <2>2. CASE ~Inside(words[i], seg)
    BY <2>2
  <2> QED BY <2>1, <2>2
<1> HIDE DEF V, Keep
<1>5. IsFoldStep(st, V, n) /\ \A k \in V, i \in 1..n : st[<<k, i>>] = Keep(k, i)
  BY <1>4 DEF IsFoldStep
<1> HIDE DEF st
<1>6. PICK f : FoldsOver(f, V, n, <<>>, st)
  BY <1>1, <1>3, <1>5, FoldExists
<1>7. f = Def(f)
  <2>1. ASSUME NEW s \in SUBSET (1..n)
        PROVE f[s] = IF s = {} THEN <<>> ELSE Keep(f[s \ {Max(s)}], Max(s))
    <3>1. f[s] = FoldStep(f, s, <<>>, st)
      BY <1>6 DEF FoldsOver
    <3>2. CASE s = {}
      BY <3>1, <3>2 DEF FoldStep
    <3>3. CASE s # {}
      <4>1. Max(s) \in 1..n /\ s \ {Max(s)} \in SUBSET (1..n)
        BY <3>3, <1>1, MaxInRange
      <4>2. f[s \ {Max(s)}] \in V
        BY <4>1, <1>6 DEF FoldsOver
      <4> QED BY <4>1, <4>2, <3>1, <3>3, <1>5 DEF FoldStep
    <3> QED BY <3>2, <3>3
  <2>2. f = [s \in SUBSET (1..n) |-> f[s]]
    BY <1>6 DEF FoldsOver
  <2> QED BY <2>1, <2>2
<1>8. it = Def(it)
  <2> HIDE DEF Def
  <2> QED BY <1>7
<1> HIDE DEF it
<1>9. \A s \in SUBSET (1..n) : it[s] = IF s = {} THEN <<>> ELSE Keep(it[s \ {Max(s)}], Max(s))
  <2> DEFINE e == Def(it)
  <2>1. \A s \in SUBSET (1..n) : e[s] = IF s = {} THEN <<>> ELSE Keep(it[s \ {Max(s)}], Max(s))
    OBVIOUS
  <2>2. e = it
    BY <1>8
  <2> HIDE DEF e
  <2> QED BY <2>1, <2>2
<1>10. FoldLike(it, V, n, <<>>, st)
  <2>1. \A s \in SUBSET (1..n) : s # {} => Max(s) \in 1..n
    BY <1>1, MaxInRange
  <2> QED BY <2>1, <1>5, <1>9 DEF FoldLike
<1>11. Trace(it, V, n, <<>>, st)
  BY <1>1, <1>3, <1>5, <1>10, FoldRuns
<1>12. it[1..n] \in V
  BY <1>11, <1>1 DEF Trace
<1> QED BY <1>12, <1>2 DEF V

(* The length of a sequence given item by item.                            *)
LEMMA LenOfItems ==
    ASSUME NEW n \in Nat, NEW s, DOMAIN s = 1..n
    PROVE  Len(s) = n
OBVIOUS

(* A sequence of numbers is bounded.                                       *)
LEMMA SeqBounded ==
    ASSUME NEW s \in Seq(Nat)
    PROVE  \E m \in Nat : \A i \in 1..Len(s) : s[i] <= m
<1>1. Len(s) \in Nat /\ \A i \in 1..Len(s) : s[i] \in Nat
  BY SeqFacts
<1> DEFINE P == {n \in Nat : n <= Len(s) => \E m \in Nat : \A i \in 1..n : s[i] <= m}
<1>2. 0 \in P
  <2>1. 1..0 = {} /\ 0 \in Nat
    OBVIOUS
  <2> QED BY <2>1
<1>3. ASSUME NEW n \in Nat, n \in P PROVE n + 1 \in P
  <2> SUFFICES ASSUME n + 1 <= Len(s) PROVE \E m \in Nat : \A i \in 1..(n + 1) : s[i] <= m
    OBVIOUS
  <2>1. n <= Len(s) /\ n + 1 \in 1..Len(s)
    BY <1>1
  <2>2. PICK m \in Nat : \A i \in 1..n : s[i] <= m
    BY <2>1, <1>3
  <2>3. s[n + 1] \in Nat /\ \A i \in 1..n : s[i] \in Nat
    BY <2>1, <1>1
  <2>4. \A i \in 1..(n + 1) : i \in 1..n \/ i = n + 1
    OBVIOUS
  <2> DEFINE x == s[n + 1]
             k == m + x
  <2>x. x \in Nat /\ s[n + 1] = x
    BY <2>3
  <2> HIDE DEF x
  <2>5. k \in Nat /\ x <= k /\ \A u \in Nat : u <= m => u <= k
    BY <2>x
  <2>6. k \in Nat /\ s[n + 1] <= k /\ \A i \in 1..n : s[i] <= k
    BY <2>2, <2>3, <2>5, <2>x
  <2> HIDE DEF k
  <2>7. \A i \in 1..(n + 1) : s[i] <= k
    BY <2>4, <2>6
  <2> QED BY <2>6, <2>7
<1> HIDE DEF P
<1>4. Nat \subseteq P
  BY <1>2, <1>3, NatSet
<1>5. Len(s) \in P /\ Len(s) <= Len(s)
  BY <1>1, <1>4
<1> QED BY <1>5 DEF P

(* The least of a nonempty set of numbers.                                 *)
LEMMA MinIsLeast ==
    ASSUME NEW s \in SUBSET Nat, s # {}
    PROVE  Min(s) \in s /\ \A y \in s : Min(s) <= y
<1>1. \E m \in s : \A y \in s : m <= y
  BY LeastNat
<1> QED BY <1>1 DEF Min

-----------------------------------------------------------------------------
(* What a consumer relies on in an answer cut into chunks: the last chunk, *)
(* and only the last, is final; words lie in their chunk's time; slices of *)
(* a body of total bytes follow each other without gap or overlap.         *)
FinalOnly(out) == \A i \in 1..Len(out) : out[i].final <=> i = Len(out)
WordsInTime(out) ==
    \A i \in 1..Len(out) : \A j \in 1..Len(out[i].words) : Inside(out[i].words[j], out[i])
Slicing(out, total) ==
    /\ out[1].from = 0 /\ Last(out).to = total
    /\ \A i \in 1..(Len(out) - 1) : out[i].to = out[i + 1].from /\ out[i].to > out[i].from

(* The one chunk of a transcript without segments spans its words.         *)
LEMMA WordsSpanned ==
    ASSUME NEW words \in Seq(Spans), words # <<>>, NEW j \in 1..Len(words)
    PROVE  /\ words[j].start >= Min({words[i].start : i \in DOMAIN words})
           /\ words[j].stop <= Max({words[i].stop : i \in DOMAIN words})
<1> DEFINE n == Len(words)
           starts == {words[i].start : i \in DOMAIN words}
           stops == {words[i].stop : i \in DOMAIN words}
           s == [i \in 1..n |-> words[i].stop]
<1>1. /\ n \in Nat /\ DOMAIN words = 1..n
      /\ \A i \in 1..n : words[i].start \in Nat /\ words[i].stop \in Nat
  <2>1. n \in Nat /\ DOMAIN words = 1..n /\ \A i \in 1..n : words[i] \in Spans
    BY SeqFacts
  <2>2. \A w \in Spans : w.start \in Nat /\ w.stop \in Nat
    BY DEF Spans
  <2> QED BY <2>1, <2>2
<1>2. s \in [1..n -> Nat]
  BY <1>1
<1>3. s \in Seq(Nat) /\ Len(s) = n
  BY <1>1, <1>2, SeqDef, LenOfItems
<1>4. \A i \in 1..n : s[i] = words[i].stop
  OBVIOUS
<1> HIDE DEF s
<1>5. PICK m \in Nat : \A i \in 1..n : s[i] <= m
  BY <1>3, SeqBounded
<1>6. words[j].start \in starts /\ words[j].stop \in stops
  BY <1>1
<1>7. starts \in SUBSET Nat
  BY <1>1
<1>8. stops \in SUBSET (0..m)
  BY <1>1, <1>4, <1>5
<1> HIDE DEF starts, stops
<1>9. Min(starts) \in Nat /\ Min(starts) <= words[j].start
  BY <1>6, <1>7, MinIsLeast
<1>10. Max(stops) \in Nat /\ words[j].stop <= Max(stops)
  <2>1. Max(stops) \in stops /\ \A y \in stops : y <= Max(stops)
    BY <1>6, <1>8, MaxUpTo
  <2>2. \A y \in stops : y \in Nat
    BY <1>8
  <2> QED BY <2>1, <2>2, <1>6
<1>11. words[j].start >= Min(starts)
  BY <1>9, <1>1
<1> QED BY <1>10, <1>11 DEF starts, stops

(***************************************************************************)
(* verbose_to_chunks on any response: one final chunk, the last, and every *)
(* word in a chunk that spans it.                                          *)
(***************************************************************************)
LEMMA VerboseIsFramed ==
    ASSUME NEW words \in Seq(Spans), NEW segments \in Seq(Spans)
    PROVE  FinalOnly(VerboseToChunks(words, segments)) /\ WordsInTime(VerboseToChunks(words, segments))
<1> DEFINE out == VerboseToChunks(words, segments)
           m == Len(segments)
<1>1. m \in Nat /\ \A i \in 1..m : segments[i] \in Spans
  BY SeqFacts
<1>2. CASE segments = <<>>
  <2> DEFINE a == IF words = <<>> THEN 0 ELSE Min({words[i].start : i \in DOMAIN words})
             z == IF words = <<>> THEN 0 ELSE Max({words[i].stop : i \in DOMAIN words})
             one == [final |-> TRUE, start |-> a, stop |-> z, words |-> words]
  <2>1. out = <<one>>
    BY <1>2 DEF VerboseToChunks
  <2>2. ASSUME NEW j \in 1..Len(words) PROVE words[j].start >= a /\ words[j].stop <= z
    <3>1. words # <<>>
      BY EmptySeq
    <3> QED BY <3>1, WordsSpanned
  <2> HIDE DEF a, z
  <2>3. one.final = TRUE /\ one.start = a /\ one.stop = z /\ one.words = words
    OBVIOUS
  <2> HIDE DEF one, out
  <2>4. Len(out) = 1 /\ out[1] = one /\ 1..1 = {1}
    BY <2>1
  <2>5. \A i \in 1..Len(out) : i = 1 /\ out[i] = one
    BY <2>4
  <2>6. FinalOnly(out)
    BY <2>3, <2>4, <2>5 DEF FinalOnly
  <2>7. WordsInTime(out)
    BY <2>2, <2>3, <2>5 DEF WordsInTime, Inside
  <2> QED BY <2>6, <2>7 DEF out
<1>3. CASE segments # <<>>
  <2> DEFINE part(i) == [final |-> i = m, start |-> segments[i].start,
                         stop |-> segments[i].stop, words |-> WordsWithin(words, segments[i])]
  <2>1. out = [i \in 1..m |-> part(i)]
    BY <1>3 DEF VerboseToChunks
  <2>2. Len(out) = m
    BY <2>1, <1>1, LenOfItems
  <2>3. ASSUME NEW i \in 1..m
        PROVE  /\ out[i].final = (i = m)
               /\ out[i].start = segments[i].start /\ out[i].stop = segments[i].stop
               /\ out[i].words = WordsWithin(words, segments[i])
    BY <2>1
  <2> HIDE DEF out
  <2>4. ASSUME NEW i \in 1..m, NEW j \in 1..Len(out[i].words) PROVE Inside(out[i].words[j], out[i])
    <3>1. segments[i] \in Spans /\ j \in 1..Len(WordsWithin(words, segments[i]))
      BY <1>1, <2>3
    <3>2. Inside(WordsWithin(words, segments[i])[j], segments[i])
      BY <3>1, WordsLieWithin
    <3> QED BY <3>2, <2>3 DEF Inside
  <2>5. FinalOnly(out)
    BY <2>2, <2>3 DEF FinalOnly
  <2>6. WordsInTime(out)
    BY <2>2, <2>4 DEF WordsInTime
  <2> QED BY <2>5, <2>6 DEF out
<1> QED BY <1>2, <1>3

(* Cutting total bytes into slices of size: how many, and how far they go. *)
LEMMA SliceCount ==
    ASSUME NEW total \in Nat, total # 0, NEW size \in Nat, size # 0
    PROVE  LET n == (total + size - 1) \div size
           IN  n \in Nat /\ n >= 1 /\ n * size >= total /\ (n - 1) * size < total
<1> DEFINE a == total + size - 1
           n == a \div size
<1>1. a \in Nat /\ a >= size
  OBVIOUS
<1> HIDE DEF a
<1>2. n \in Nat /\ size * n <= a /\ a < size * n + size
  BY <1>1
<1>3. n # 0
  BY <1>1, <1>2
<1> HIDE DEF n
<1>4. n * size = size * n /\ (n - 1) * size = size * n - size
  BY <1>2
<1> DEFINE p == size * n
<1>5. p \in Nat /\ p <= a /\ a < p + size
  BY <1>2
<1> HIDE DEF p
<1>6. p >= total /\ p - size < total
  BY <1>5 DEF a
<1> QED BY <1>2, <1>3, <1>4, <1>6 DEF n, a, p

(* Multiples of size grow with their factor.                               *)
LEMMA MultipleGrows ==
    ASSUME NEW size \in Nat, size # 0, NEW i \in Nat, NEW n \in Nat, i < n
    PROVE  i * size \in Nat /\ i * size <= (n - 1) * size /\ i * size < (i + 1) * size
<1>1. n - 1 - i \in Nat
  OBVIOUS
<1>2. (n - 1 - i) * size \in Nat /\ (n - 1) * size = i * size + (n - 1 - i) * size
  BY <1>1
<1>3. (i + 1) * size = i * size + size /\ i * size \in Nat
  OBVIOUS
<1> DEFINE x == i * size
           y == (n - 1 - i) * size
<1>4. x \in Nat /\ y \in Nat /\ (n - 1) * size = x + y /\ (i + 1) * size = x + size
  BY <1>2, <1>3
<1> HIDE DEF x, y
<1>5. x <= x + y /\ x < x + size
  BY <1>4
<1> QED BY <1>4, <1>5 DEF x

(* The slices of a body of any length by any chunk size.                   *)
LEMMA RechunkIsFramed ==
    ASSUME NEW total \in Nat, NEW size \in Nat, size # 0
    PROVE  FinalOnly(Rechunk(total, size)) /\ Slicing(Rechunk(total, size), total)
<1> DEFINE out == Rechunk(total, size)
<1>1. CASE total = 0
  <2> DEFINE one == [from |-> 0, to |-> 0, final |-> TRUE]
  <2>1. out = <<one>>
    BY <1>1 DEF Rechunk
  <2>2. one.from = 0 /\ one.to = 0 /\ one.final = TRUE
    OBVIOUS
  <2> HIDE DEF one, out
  <2>3. Len(out) = 1 /\ out[1] = one /\ 1..(1 - 1) = {} /\ 1..1 = {1}
    BY <2>1
  <2>4. FinalOnly(out)
    BY <2>2, <2>3 DEF FinalOnly
  <2>5. Slicing(out, total)
    BY <2>2, <2>3, <1>1 DEF Slicing, Last
  <2> QED BY <2>4, <2>5 DEF out
<1>2. CASE total # 0
  <2> DEFINE n == (total + size - 1) \div size
             to(i) == IF i * size < total THEN i * size ELSE total
             slice(i) == [from |-> (i - 1) * size, to |-> to(i), final |-> i * size >= total]
  <2>1. n \in Nat /\ n >= 1 /\ n * size >= total /\ (n - 1) * size < total
    BY <1>2, SliceCount
  <2>2. out = [i \in 1..n |-> slice(i)]
    BY <1>2 DEF Rechunk
  <2> HIDE DEF n
  <2>3. Len(out) = n
    BY <2>1, <2>2, LenOfItems
  <2>4. \A i \in 1..n : /\ out[i].from = (i - 1) * size /\ out[i].to = to(i)
                        /\ out[i].final = (i * size >= total)
    BY <2>2
  <2> HIDE DEF out
  <2>5. ASSUME NEW i \in 1..n, i # n
        PROVE  i * size < total /\ i * size \in Nat /\ (i - 1) * size < i * size /\ (i + 1) - 1 = i
    <3>0. n \in Nat
      BY <2>1
    <3>1. i \in Nat /\ i < n /\ i - 1 \in Nat /\ i - 1 < n /\ (i - 1) + 1 = i
      BY <3>0, <2>5
    <3>2. i * size \in Nat /\ i * size <= (n - 1) * size
      BY <3>1, <2>1, MultipleGrows
    <3>3. (i - 1) * size < ((i - 1) + 1) * size
      BY <3>1, <2>1, MultipleGrows
    <3> DEFINE p == i * size
               q == (n - 1) * size
    <3>4. p \in Nat /\ p <= q /\ q < total
      BY <3>2, <2>1
    <3>5. q \in Int
      BY <2>1
    <3> HIDE DEF p, q
    <3>6. p < total
      BY <3>4, <3>5
    <3> QED BY <3>1, <3>2, <3>3, <3>6 DEF p
  <2>6. FinalOnly(out)
    <3>1. ASSUME NEW i \in 1..n PROVE out[i].final <=> i = n
      <4>1. CASE i = n
        BY <4>1, <2>1, <2>4
      <4>2. CASE i # n
        <5> DEFINE p == i * size
        <5>1. p < total /\ p \in Nat
          BY <4>2, <2>5
        <5> HIDE DEF p
        <5>2. ~(p >= total)
          BY <5>1
        <5> QED BY <4>2, <5>2, <2>4 DEF p
      <4> QED BY <4>1, <4>2
    <3> QED BY <3>1, <2>3 DEF FinalOnly
  <2>7. out[1].from = 0 /\ out[n].to = total
    <3>1. 1 \in 1..n /\ n \in 1..n /\ (1 - 1) * size = 0
      BY <2>1
    <3> DEFINE p == n * size
    <3>2. p >= total /\ p \in Nat
      BY <2>1
    <3> HIDE DEF p
    <3>3. ~(p < total)
      BY <3>2
    <3>4. to(n) = total
      BY <3>3 DEF p
    <3> QED BY <3>1, <3>4, <2>4
  <2>8. ASSUME NEW i \in 1..(n - 1)
        PROVE  out[i].to = out[i + 1].from /\ out[i].to > out[i].from
    <3>1. i \in 1..n /\ i # n /\ i + 1 \in 1..n
      BY <2>1
    <3>2. i * size < total /\ i * size \in Nat /\ (i - 1) * size < i * size /\ (i + 1) - 1 = i
      BY <3>1, <2>5
    <3>3. to(i) = i * size
      BY <3>2
    <3>4. out[i].from = (i - 1) * size /\ out[i].to = i * size /\ out[i + 1].from = i * size
      BY <3>1, <3>2, <3>3, <2>4
    <3> QED BY <3>2, <3>4
  <2>9. Slicing(out, total)
    BY <2>3, <2>7, <2>8 DEF Slicing, Last
  <2> QED BY <2>6, <2>9 DEF out
<1> QED BY <1>1, <1>2

-----------------------------------------------------------------------------
(***************************************************************************)
(* What a step of an HTTP call does to its answer: what the provider has   *)
(* given so far and what has gone out to the consumer.                     *)
(***************************************************************************)
Keeps(c, d) ==
    /\ d.api = c.api /\ d.batch = c.batch /\ d.request = c.request /\ d.events = c.events
    /\ d.given = c.given /\ d.out = c.out

Asks(c, d, api, b) ==
    /\ c.phase = "new" /\ d.phase = "client"
    /\ d.api = api /\ d.batch = b /\ d.request = FromBatch(api, b.messages) /\ d.events = c.events
    /\ d.given = c.given /\ d.out = c.out /\ d.err = c.err
Speaks(c, d, api, b) ==
    /\ c.phase = "new" /\ d.phase \in {"client", "ended"}
    /\ d.api = api /\ d.batch = b /\ d.events = c.events /\ d.given = c.given /\ d.out = c.out
Proceeds(c, d) == Keeps(c, d) /\ c.phase \in {"client", "auth"} /\ d.phase \in {"auth", "sent"}
StreamBegins(c, d) ==
    /\ Keeps(c, d) /\ c.phase = "sent" /\ d.phase = "streaming"
    /\ c.api \in TextApis /\ c.batch.stream
Fails(c, d) == Keeps(c, d) /\ c.phase \in {"auth", "sent"} /\ d.phase = "ended" /\ d.err # None
Closes(c, d) ==
    /\ Keeps(c, d) /\ d.phase = "ended"
    /\ c.phase = "streaming" \/ (c.phase = "sent" /\ c.api = "clone_voice")
Hears(c, d, e) ==
    /\ c.phase = "streaming" /\ d.phase \in {"streaming", "ended"}
    /\ d.phase = "streaming" => Lift(c.api, e) = <<>> \/ Lift(c.api, e)[1].err = None
    /\ d.api = c.api /\ d.batch = c.batch /\ d.request = c.request /\ d.events = c.events + 1
    /\ d.given = Append(c.given, e) /\ d.out = c.out \o Lift(c.api, e)
Breaks(c, d) ==
    /\ c.phase = "streaming" /\ d.phase = "ended"
    /\ d.api = c.api /\ d.batch = c.batch /\ d.request = c.request /\ d.events = c.events
    /\ d.given = c.given /\ d.out = Append(c.out, Failed("NetworkError"))
AnswersWhole(c, d, given, out) ==
    /\ c.phase = "sent" /\ d.phase = "ended"
    /\ d.api = c.api /\ d.batch = c.batch /\ d.request = c.request /\ d.events = c.events
    /\ d.given = given /\ d.out = out

AnswerMove ==
    \/ \E api \in TextApis : \E b \in Batches(api) : Asks(call, call', api, b)
    \/ \E api \in SpeechApis : \E b \in Batches(api) : Speaks(call, call', api, b)
    \/ Proceeds(call, call') \/ StreamBegins(call, call') \/ Fails(call, call') \/ Closes(call, call')
    \/ \E e \in ProviderEvents(call.api, call.events + 1) : Hears(call, call', e)
    \/ Breaks(call, call')
    \/ /\ call.api \in TextApis /\ ~call.batch.stream
       /\ \E e \in Documents(call.api, 1) : AnswersWhole(call, call', <<e>>, LiftDocument(call.api, e))
    \/ /\ call.api = "openai_stt"
       /\ \E a \in Answers : AnswersWhole(call, call', <<a>>, TranscriptChunks(call.batch, a))
    \/ /\ call.api \in {"openai_tts", "elevenlabs"}
       /\ \E total \in 0..5 : AnswersWhole(call, call', <<total>>, Rechunk(total, ChunkBytes))

(* Dropping the snapshots and noting a reason leave the answer alone.      *)
LEMMA DroppedKeeps ==
    ASSUME NEW c, CallShaped(c)
    PROVE  CallShaped(Dropped(c)) /\ Keeps(c, Dropped(c)) /\ Dropped(c).phase = "ended"
<1> DEFINE d == [c EXCEPT !.phase = "ended", !.since = 0, !.client = 0, !.cred = 0, !.key = 0]
<1>1. CallShaped(d)
  BY DEF CallShaped
<1>2. d.api = c.api /\ d.batch = c.batch /\ d.request = c.request
  BY DEF CallShaped
<1>3. d.events = c.events /\ d.given = c.given /\ d.out = c.out /\ d.phase = "ended"
  BY DEF CallShaped
<1> QED BY <1>1, <1>2, <1>3 DEF Dropped, Keeps

(* Noting a verdict leaves the call's phase and what it has passed on.     *)
LEMMA VerdictKeeps ==
    ASSUME NEW c, NEW d, NEW e, NEW w, CallShaped(c), NotesVerdict(c, d, e, w)
    PROVE  CallShaped(d) /\ Keeps(c, d) /\ d.phase = c.phase /\ d.err = e
<1>1. CallShaped(d)
  BY DEF CallShaped, NotesVerdict
<1>2. d.api = c.api /\ d.batch = c.batch /\ d.request = c.request
  BY DEF CallShaped, NotesVerdict
<1>3. d.events = c.events /\ d.given = c.given /\ d.out = c.out /\ d.phase = c.phase /\ d.err = e
  BY DEF CallShaped, NotesVerdict
<1> QED BY <1>1, <1>2, <1>3 DEF Keeps

(* Noting what caused an end leaves them too.                              *)
LEMMA CauseKeeps ==
    ASSUME NEW c, NEW d, NEW x, CallShaped(c), NotesCause(c, d, x)
    PROVE  CallShaped(d) /\ Keeps(c, d) /\ d.phase = c.phase /\ d.err = c.err
<1>1. CallShaped(d)
  BY DEF CallShaped, NotesCause
<1>2. d.api = c.api /\ d.batch = c.batch /\ d.request = c.request
  BY DEF CallShaped, NotesCause
<1>3. d.events = c.events /\ d.given = c.given /\ d.out = c.out /\ d.phase = c.phase
      /\ d.err = c.err
  BY DEF CallShaped, NotesCause
<1> QED BY <1>1, <1>2, <1>3 DEF Keeps

(* So does noting an error.                                                *)
LEMMA ErrorKeeps ==
    ASSUME NEW c, NEW d, NEW e, CallShaped(c), NotesError(c, d, e)
    PROVE  Keeps(c, d) /\ d.phase = c.phase
<1>2. d.api = c.api /\ d.batch = c.batch /\ d.request = c.request
  BY DEF CallShaped, NotesError
<1>3. d.events = c.events /\ d.given = c.given /\ d.out = c.out /\ d.phase = c.phase
  BY DEF CallShaped, NotesError
<1> QED BY <1>2, <1>3 DEF Keeps

(* Ending the call changes nothing that was passed on.                     *)
LEMMA EndedKeeps ==
    ASSUME CallShaped(call), NEW err, NEW wait
    PROVE  LET d == Ended(err, wait)
           IN  CallShaped(d) /\ Keeps(call, d) /\ d.phase = "ended" /\ d.err = err
<1> DEFINE c == Dropped(call)
           d == Ended(err, wait)
<1>1. CallShaped(c) /\ Keeps(call, c) /\ c.phase = "ended"
  BY DroppedKeeps
<1>2. NotesVerdict(c, d, err, wait)
  BY DEF Ended, NotesVerdict
<1> HIDE DEF c, d
<1>3. CallShaped(d) /\ Keeps(c, d) /\ d.phase = c.phase /\ d.err = err
  BY <1>1, <1>2, VerdictKeeps
<1>4. Keeps(call, d)
  BY <1>1, <1>3 DEF Keeps
<1> QED BY <1>1, <1>3, <1>4 DEF d

(* A failure with its cause.                                               *)
LEMMA FailureKeeps ==
    ASSUME CallShaped(call), NEW err, NEW wait, NEW x, NotesCause(Ended(err, wait), call', x)
    PROVE  Keeps(call, call') /\ call'.phase = "ended" /\ call'.err = err
<1> DEFINE d == Ended(err, wait)
<1>1. CallShaped(d) /\ Keeps(call, d) /\ d.phase = "ended" /\ d.err = err
  BY EndedKeeps
<1>2. NotesCause(d, call', x)
  OBVIOUS
<1> HIDE DEF d
<1>3. Keeps(d, call') /\ call'.phase = d.phase /\ call'.err = d.err
  BY <1>1, <1>2, CauseKeeps
<1> QED BY <1>1, <1>3 DEF Keeps

(* A refusal always has a kind.                                            *)
LEMMA ClassifyNames ==
    ASSUME NEW api \in TextApis \cup SpeechApis, NEW status \in Int, NEW header, NEW body
    PROVE  Classify(api, status, header, body).kind \in Kinds
<1>1. ASSUME NEW wait PROVE ClassifyHttpStatus(status, wait).kind \in Kinds
  BY DEF ClassifyHttpStatus, Classified, Kinds
<1>2. ASSUME NEW h PROVE ClassifyElevenLabsError(status, h, body).kind \in Kinds
  <2>1. \E k \in {"RateLimited", "Unauthorized", "Forbidden", "BadRequest", "ServerError", "Internal"} : \E w :
            ClassifyElevenLabsError(status, h, body) = Classified(k, w)
    BY DEF ClassifyElevenLabsError
  <2> QED BY <2>1 DEF Classified, Kinds
<1> DEFINE table == ClassifyHttpStatus(status, ParseRetryAfter(header))
           named(k, w) == Classified(k, w)
<1>3. \A k, w : Classified(k, w).kind = k
  BY DEF Classified
<1>4. table.kind \in Kinds
  BY <1>1
<1> HIDE DEF table
<1>5. CASE api \in OpenAiApis \cup {"openai_stt", "openai_tts"}
  <2>1. Classify(api, status, header, body) = ClassifyOpenAiError(status, header, body)
    BY <1>5 DEF Classify, OpenAiApis, GeminiApis
  <2>2. \/ Classify(api, status, header, body) = table
        \/ \E kind \in {"ContextLengthExceeded", "ContentFiltered"} :
              Classify(api, status, header, body) = Classified(kind, -1)
    BY <2>1 DEF ClassifyOpenAiError, table
  <2> QED BY <2>2, <1>3, <1>4 DEF Kinds
<1>6. CASE api = "anthropic"
  <2>1. Classify(api, status, header, body) = ClassifyAnthropicError(status, header, body)
    BY <1>6 DEF Classify, OpenAiApis, GeminiApis
  <2>2. \/ Classify(api, status, header, body) = table
        \/ \E kind \in {"ContextLengthExceeded", "Forbidden"} :
              Classify(api, status, header, body) = Classified(kind, -1)
    BY <2>1 DEF ClassifyAnthropicError, table
  <2> QED BY <2>2, <1>3, <1>4 DEF Kinds
<1>7. CASE api \in GeminiApis
  <2>1. Classify(api, status, header, body) = ClassifyGeminiError(status, header, body)
    BY <1>7 DEF Classify, OpenAiApis, GeminiApis
  <2>2. \/ Classify(api, status, header, body) = table
        \/ \E kind \in {"RateLimited", "ContentFiltered"} : \E w :
              Classify(api, status, header, body) = Classified(kind, w)
    BY <2>1 DEF ClassifyGeminiError, table
  <2> QED BY <2>2, <1>3, <1>4 DEF Kinds
<1>8. CASE api \in {"elevenlabs", "clone_voice"}
  <2>1. \E h : Classify(api, status, header, body) = ClassifyElevenLabsError(status, h, body)
    BY <1>8 DEF Classify, OpenAiApis, GeminiApis
  <2> QED BY <2>1, <1>2
<1> QED BY <1>5, <1>6, <1>7, <1>8 DEF TextApis, SpeechApis, OpenAiApis, GeminiApis

(* A call that opens.                                                      *)
LEMMA AnswerOpens ==
    ASSUME CallShaped(call), NEW api, NEW b
    PROVE  /\ StartText(api, b) => Asks(call, call', api, b)
           /\ StartSpeech(api, b) => Speaks(call, call', api, b)
<1>1. ASSUME StartText(api, b) PROVE Asks(call, call', api, b)
  <2> DEFINE r == FromBatch(api, b.messages)
  <2>1. /\ call.phase = "new"
        /\ call' = [call EXCEPT !.phase = "client", !.api = api, !.batch = b, !.since = acked, !.request = r]
    BY <1>1 DEF StartText
  <2> HIDE DEF r
  <2>2. call'.phase = "client" /\ call'.api = api /\ call'.batch = b /\ call'.request = r
    BY <2>1 DEF CallShaped
  <2>3. /\ call'.events = call.events /\ call'.given = call.given /\ call'.out = call.out
        /\ call'.err = call.err
    BY <2>1 DEF CallShaped
  <2> QED BY <2>1, <2>2, <2>3 DEF Asks, r
<1>2. ASSUME StartSpeech(api, b) PROVE Speaks(call, call', api, b)
  <2> DEFINE refused == Rejects(api, b)
             p == IF refused = None THEN "client" ELSE "ended"
  <2>1. /\ call.phase = "new"
        /\ call' = [call EXCEPT !.phase = p, !.api = api, !.batch = b, !.since = acked, !.err = refused]
    BY <1>2, Zenon DEF StartSpeech
  <2>2. p \in {"client", "ended"}
    OBVIOUS
  <2> HIDE DEF p, refused
  <2>3. call'.phase = p /\ call'.api = api /\ call'.batch = b
    BY <2>1 DEF CallShaped
  <2>4. call'.events = call.events /\ call'.given = call.given /\ call'.out = call.out
    BY <2>1 DEF CallShaped
  <2> QED BY <2>1, <2>2, <2>3, <2>4 DEF Speaks
<1> QED BY <1>1, <1>2

(* The loads, and the stream's beginning.                                  *)
LEMMA AnswerProceeds ==
    ASSUME CallShaped(call), LoadClient \/ LoadCredential \/ StreamOpens
    PROVE  Proceeds(call, call') \/ StreamBegins(call, call')
<1>1. CASE LoadClient
  <2>1. call.phase = "client" /\ call' = [call EXCEPT !.phase = "auth", !.client = snapshot.num]
    BY <1>1 DEF LoadClient
  <2>2. call'.phase = "auth" /\ call'.api = call.api /\ call'.batch = call.batch
        /\ call'.request = call.request
    BY <2>1 DEF CallShaped
  <2>3. call'.events = call.events /\ call'.given = call.given /\ call'.out = call.out
    BY <2>1 DEF CallShaped
  <2> QED BY <2>1, <2>2, <2>3 DEF Proceeds, Keeps
<1>2. CASE LoadCredential
  <2> DEFINE k == KeyPlaced(call.api)
  <2>1. call.phase = "auth" /\ call' = [call EXCEPT !.phase = "sent", !.cred = snapshot.num, !.key = k]
    BY <1>2 DEF LoadCredential
  <2> HIDE DEF k
  <2>2. call'.phase = "sent" /\ call'.api = call.api /\ call'.batch = call.batch
        /\ call'.request = call.request
    BY <2>1 DEF CallShaped
  <2>3. call'.events = call.events /\ call'.given = call.given /\ call'.out = call.out
    BY <2>1 DEF CallShaped
  <2> QED BY <2>1, <2>2, <2>3 DEF Proceeds, Keeps
<1>3. CASE StreamOpens
  <2>1. /\ call.phase = "sent" /\ call.api \in TextApis /\ call.batch.stream
        /\ call' = [call EXCEPT !.phase = "streaming"]
    BY <1>3 DEF StreamOpens
  <2>2. /\ call'.phase = "streaming" /\ call'.api = call.api /\ call'.batch = call.batch
        /\ call'.request = call.request
    BY <2>1 DEF CallShaped
  <2>3. call'.events = call.events /\ call'.given = call.given /\ call'.out = call.out
    BY <2>1 DEF CallShaped
  <2> QED BY <2>1, <2>2, <2>3 DEF StreamBegins, Keeps
<1> QED BY <1>1, <1>2, <1>3

(* One event of the stream.                                                *)
LEMMA AnswerStreams ==
    ASSUME CallShaped(call), NEW e, StreamEvent(e)
    PROVE  Hears(call, call', e)
<1> DEFINE items == Lift(call.api, e)
           n == call.events + 1
           o == call.out \o items
           g == Append(call.given, e)
           failed == items # <<>> /\ items[1].err # None
           next == [call EXCEPT !.events = n, !.out = o, !.given = g]
           err == items[1].err
<1>1. call.phase = "streaming" /\ call' = IF failed THEN [Dropped(next) EXCEPT !.err = err] ELSE next
  BY DEF StreamEvent
<1>i. ~failed => items = <<>> \/ items[1].err = None
  OBVIOUS
<1> HIDE DEF err, n, o, g, failed
<1>2. CallShaped(next)
  BY DEF CallShaped
<1>3. next.phase = call.phase /\ next.api = call.api /\ next.batch = call.batch
      /\ next.request = call.request
  BY DEF CallShaped
<1>4. next.events = n /\ next.given = g /\ next.out = o
  BY DEF CallShaped
<1> HIDE DEF next, items
<1>5. CASE ~failed
  <2>1. call' = next
    BY <1>1, <1>5
  <2> QED BY <2>1, <1>1, <1>3, <1>4, <1>5, <1>i DEF Hears, n, o, g, items
<1>6. CASE failed
  <2> DEFINE d == Dropped(next)
  <2>1. CallShaped(d) /\ Keeps(next, d) /\ d.phase = "ended"
    BY <1>2, DroppedKeeps
  <2>2. NotesError(d, call', err)
    BY <1>1, <1>6 DEF NotesError
  <2> HIDE DEF d
  <2>3. Keeps(d, call') /\ call'.phase = d.phase
    BY <2>1, <2>2, ErrorKeeps
  <2>4. Keeps(next, call') /\ call'.phase = "ended"
    BY <2>1, <2>3 DEF Keeps
  <2> QED BY <2>4, <1>1, <1>3, <1>4 DEF Hears, Keeps, n, o, g, items
<1> QED BY <1>5, <1>6

(* The ways a call fails, and a stream that closes.                        *)
LEMMA AnswerFails ==
    ASSUME CallInv, \/ CredentialInvalid \/ SendFails \/ BodyFails
                    \/ \E status \in Statuses : \E header, body : Refused(status, header, body)
    PROVE  Fails(call, call')
<1>c. CallShaped(call)
  BY DEF CallInv
<1>1. CASE CredentialInvalid
  <2>1. call.phase = "auth" /\ call' = Ended("Internal", -1)
    BY <1>1 DEF CredentialInvalid
  <2>2. Keeps(call, call') /\ call'.phase = "ended" /\ call'.err = "Internal"
    BY <2>1, <1>c, EndedKeeps
  <2> QED BY <2>1, <2>2 DEF Fails, None
<1>2. CASE SendFails
  <2>1. call.phase = "sent" /\ NotesCause(Ended("NetworkError", -1), call', [kind |-> "network"])
    BY <1>2 DEF SendFails, NotesCause
  <2>2. Keeps(call, call') /\ call'.phase = "ended" /\ call'.err = "NetworkError"
    BY <2>1, <1>c, FailureKeeps
  <2> QED BY <2>1, <2>2 DEF Fails, None
<1>3. CASE BodyFails
  <2> DEFINE err == IF call.api \in {"openai_tts", "elevenlabs", "clone_voice"} THEN "NetworkError" ELSE "Internal"
  <2>1. call.phase = "sent" /\ NotesCause(Ended(err, -1), call', [kind |-> "body"])
    BY <1>3 DEF BodyFails, NotesCause
  <2>2. err # None
    BY DEF None
  <2> HIDE DEF err
  <2>3. Keeps(call, call') /\ call'.phase = "ended" /\ call'.err = err
    BY <2>1, <1>c, FailureKeeps
  <2> QED BY <2>1, <2>2, <2>3 DEF Fails
<1>4. ASSUME NEW status \in Statuses, NEW header, NEW body, Refused(status, header, body)
      PROVE  Fails(call, call')
  <2> DEFINE e == Classify(call.api, status, header, body)
             x == [kind |-> "status", status |-> status, header |-> header, body |-> body]
             kind == e.kind
             wait == e.wait
  <2>1. call.phase = "sent" /\ NotesCause(Ended(kind, wait), call', x)
    BY <1>4 DEF Refused, NotesCause
  <2>2. call.api \in TextApis \cup SpeechApis /\ status \in Int
    BY <2>1 DEF CallInv, Statuses
  <2>3. kind \in Kinds
    BY <2>2, ClassifyNames
  <2>4. kind # None
    BY <2>3 DEF Kinds, None
  <2> HIDE DEF kind, wait, x, e
  <2>5. Keeps(call, call') /\ call'.phase = "ended" /\ call'.err = kind
    BY <2>1, <1>c, FailureKeeps
  <2> QED BY <2>1, <2>4, <2>5 DEF Fails
<1> QED BY <1>1, <1>2, <1>3, <1>4

(* A stream that breaks or closes, and an answer that comes whole.         *)
LEMMA AnswerEnds ==
    ASSUME CallShaped(call)
    PROVE  /\ StreamBreaks => Breaks(call, call')
           /\ StreamCloses \/ VoiceAdded => Closes(call, call')
           /\ \A e : Document(e) => AnswersWhole(call, call', <<e>>, LiftDocument(call.api, e))
           /\ \A a : Transcript(a) => AnswersWhole(call, call', <<a>>, TranscriptChunks(call.batch, a))
           /\ \A total : Audio(total) => AnswersWhole(call, call', <<total>>, Rechunk(total, ChunkBytes))
<1>1. ASSUME StreamBreaks PROVE Breaks(call, call')
  <2> DEFINE d == Ended("NetworkError", -1)
             f == [d EXCEPT !.cause = [kind |-> "network"]]
             o == Append(f.out, Failed("NetworkError"))
  <2>1. call.phase = "streaming" /\ call' = [f EXCEPT !.out = o]
    BY <1>1 DEF StreamBreaks
  <2>2. CallShaped(d) /\ Keeps(call, d) /\ d.phase = "ended"
    BY EndedKeeps
  <2>n. NotesCause(d, f, [kind |-> "network"])
    BY DEF NotesCause
  <2> HIDE DEF d, f
  <2>3. CallShaped(f) /\ Keeps(d, f) /\ f.phase = "ended"
    BY <2>n, <2>2, CauseKeeps
  <2>4. o = Append(call.out, Failed("NetworkError"))
    BY <2>2, <2>3 DEF Keeps
  <2> HIDE DEF o
  <2>5. call'.api = f.api /\ call'.batch = f.batch /\ call'.request = f.request
    BY <2>1, <2>3 DEF CallShaped
  <2>6. call'.events = f.events /\ call'.given = f.given /\ call'.out = o /\ call'.phase = f.phase
    BY <2>1, <2>3 DEF CallShaped
  <2> QED BY <2>1, <2>2, <2>3, <2>4, <2>5, <2>6 DEF Breaks, Keeps
<1> DEFINE c == Dropped(call)
<1>d. CallShaped(c) /\ Keeps(call, c) /\ c.phase = "ended"
  BY DroppedKeeps
<1> HIDE DEF c
<1>2. ASSUME StreamCloses \/ VoiceAdded PROVE Closes(call, call')
  BY <1>2, <1>d DEF StreamCloses, VoiceAdded, Closes, c
<1>3. ASSUME NEW g, NEW o, call.phase = "sent", NotesAnswer(c, call', g, o)
      PROVE  AnswersWhole(call, call', g, o)
  <2>1. call'.api = c.api /\ call'.batch = c.batch /\ call'.request = c.request
    BY <1>3, <1>d DEF CallShaped, NotesAnswer
  <2>2. call'.events = c.events /\ call'.given = g /\ call'.out = o /\ call'.phase = c.phase
    BY <1>3, <1>d DEF CallShaped, NotesAnswer
  <2> QED BY <2>1, <2>2, <1>3, <1>d DEF AnswersWhole, Keeps
<1>4. ASSUME NEW e, Document(e) PROVE AnswersWhole(call, call', <<e>>, LiftDocument(call.api, e))
  <2>1. call.phase = "sent" /\ NotesAnswer(c, call', <<e>>, LiftDocument(call.api, e))
    BY <1>4 DEF Document, c, NotesAnswer
  <2> QED BY <2>1, <1>3
<1>5. ASSUME NEW a, Transcript(a)
      PROVE AnswersWhole(call, call', <<a>>, TranscriptChunks(call.batch, a))
  <2>1. call.phase = "sent" /\ NotesAnswer(c, call', <<a>>, TranscriptChunks(call.batch, a))
    BY <1>5 DEF Transcript, c, NotesAnswer
  <2> QED BY <2>1, <1>3
<1>6. ASSUME NEW total, Audio(total)
      PROVE AnswersWhole(call, call', <<total>>, Rechunk(total, ChunkBytes))
  <2>1. call.phase = "sent" /\ NotesAnswer(c, call', <<total>>, Rechunk(total, ChunkBytes))
    BY <1>6 DEF Audio, c, NotesAnswer
  <2> QED BY <2>1, <1>3
<1> QED BY <1>1, <1>2, <1>4, <1>5, <1>6

(* Every step of the call is one of these, or leaves it alone.             *)
LEMMA AnswerSteps ==
    ASSUME CallInv, Next \/ UNCHANGED vars
    PROVE  call' = call \/ AnswerMove
<1>c. CallShaped(call)
  BY DEF CallInv
<1>1. CASE Rotate \/ RebuildStarts \/ RebuildEnds \/ RebuildFails \/ UNCHANGED vars
  BY <1>1 DEF Rotate, RebuildStarts, RebuildEnds, RebuildFails, vars
<1>2. ASSUME NEW api \in Apis \cap TextApis, NEW b \in Batches(api), StartText(api, b)
      PROVE AnswerMove
  BY <1>2, <1>c, AnswerOpens DEF AnswerMove
<1>3. ASSUME NEW api \in Apis \cap SpeechApis, NEW b \in Batches(api), StartSpeech(api, b)
      PROVE AnswerMove
  BY <1>3, <1>c, AnswerOpens DEF AnswerMove
<1>4. CASE LoadClient \/ LoadCredential \/ StreamOpens
  BY <1>4, <1>c, AnswerProceeds DEF AnswerMove
<1>5. ASSUME NEW e \in ProviderEvents(call.api, call.events + 1), StreamEvent(e) PROVE AnswerMove
  BY <1>5, <1>c, AnswerStreams DEF AnswerMove
<1>6. CASE \/ CredentialInvalid \/ SendFails \/ BodyFails
           \/ \E status \in Statuses, header \in RetryAfterHeaders, body \in Bodies :
                 Refused(status, header, body)
  <2>1. Fails(call, call')
    BY <1>6, AnswerFails
  <2> QED BY <2>1 DEF AnswerMove
<1>7. CASE StreamBreaks \/ StreamCloses \/ VoiceAdded
  BY <1>7, <1>c, AnswerEnds DEF AnswerMove
<1>8. ASSUME NEW e \in Documents(call.api, 1), Document(e) PROVE AnswerMove
  <2>1. call.api \in TextApis /\ ~call.batch.stream
    BY <1>8 DEF Document
  <2> QED BY <2>1, <1>8, <1>c, AnswerEnds DEF AnswerMove
<1>9. ASSUME NEW a \in Answers, Transcript(a) PROVE AnswerMove
  <2>1. call.api = "openai_stt"
    BY <1>9 DEF Transcript
  <2> QED BY <2>1, <1>9, <1>c, AnswerEnds DEF AnswerMove
<1>10. ASSUME NEW total \in 0..5, Audio(total) PROVE AnswerMove
  <2>1. call.api \in {"openai_tts", "elevenlabs"}
    BY <1>10 DEF Audio
  <2> QED BY <2>1, <1>10, <1>c, AnswerEnds DEF AnswerMove
<1> QED BY <1>1, <1>2, <1>3, <1>4, <1>5, <1>6, <1>7, <1>8, <1>9, <1>10, Zenon DEF Next

-----------------------------------------------------------------------------
(* The two kinds of providers are apart.                                   *)
LEMMA ApisApart == TextApis \cap SpeechApis = {}
BY DEF TextApis, SpeechApis

(* The words and segments of an answer.                                    *)
LEMMA AnswersAreSpans ==
    ASSUME NEW a \in Answers
    PROVE  a.words \in Seq(Spans) /\ a.segments \in Seq(Spans)
<1>1. \A x, y \in Nat : Word(x, y) \in Spans
  BY DEF Word, Spans
<1>2. /\ a.words \in {<<>>, <<Word(0, 2), Word(2, 4)>>, <<Word(1, 3), Word(3, 4)>>}
      /\ a.segments \in {<<>>, <<Word(0, 4)>>, <<Word(0, 2), Word(2, 4)>>}
  BY DEF Answers
<1>3. <<>> \in Seq(Spans) /\ \A x, y \in Spans : <<x>> \in Seq(Spans) /\ <<x, y>> \in Seq(Spans)
  OBVIOUS
<1>4. {Word(0, 2), Word(2, 4), Word(1, 3), Word(3, 4), Word(0, 4)} \subseteq Spans
  BY <1>1
<1> QED BY <1>2, <1>3, <1>4

(* What an answer holds before it comes, and once it has.                  *)
Framed(api, given, out) ==
    /\ FinalOnly(out)
    /\ IF api = "openai_stt" THEN WordsInTime(out) ELSE Slicing(out, given[1])

FramedInv ==
    /\ call.phase \in {"new", "client", "auth", "sent"} => call.out = <<>>
    /\ call.phase = "streaming" => call.api \in TextApis
    /\ call.api \in SpeechApis /\ call.out # <<>> => Framed(call.api, call.given, call.out)

(* Every step of an HTTP runner keeps the order of its audio chunks.       *)
LEMMA FramedKept ==
    ASSUME CallInv, FramedInv, Next \/ UNCHANGED vars
    PROVE  FramedInv'
<1>1. CASE call' = call
  BY <1>1 DEF FramedInv
<1>2. ASSUME NEW api \in TextApis \cup SpeechApis, NEW b, Asks(call, call', api, b)
      \/ Speaks(call, call', api, b)
      PROVE  FramedInv'
  BY <1>2 DEF FramedInv, Asks, Speaks
<1>3. CASE \/ Proceeds(call, call') \/ StreamBegins(call, call')
           \/ Fails(call, call') \/ Closes(call, call')
  BY <1>3 DEF FramedInv, Proceeds, StreamBegins, Fails, Closes, Keeps
<1>4. ASSUME NEW e, Hears(call, call', e) PROVE FramedInv'
  BY <1>4, ApisApart DEF FramedInv, Hears
<1>5. CASE Breaks(call, call')
  BY <1>5, ApisApart DEF FramedInv, Breaks
<1>6. ASSUME NEW e, call.api \in TextApis, AnswersWhole(call, call', <<e>>, LiftDocument(call.api, e))
      PROVE FramedInv'
  BY <1>6, ApisApart DEF FramedInv, AnswersWhole
<1>7. ASSUME NEW a \in Answers, call.api = "openai_stt",
             AnswersWhole(call, call', <<a>>, TranscriptChunks(call.batch, a))
      PROVE  FramedInv'
  <2> DEFINE out == TranscriptChunks(call.batch, a)
  <2>1. FinalOnly(out) /\ WordsInTime(out)
    <3>1. CASE WantVerbose(call.batch)
      BY <3>1, AnswersAreSpans, VerboseIsFramed DEF TranscriptChunks
    <3>2. CASE ~WantVerbose(call.batch)
      <4>1. out = VerboseToChunks(<<>>, <<>>)
        BY <3>2 DEF TranscriptChunks, PlainToChunks, VerboseToChunks
      <4>2. <<>> \in Seq(Spans)
        BY EmptySeq
      <4> QED BY <4>1, <4>2, VerboseIsFramed
    <3> QED BY <3>1, <3>2
  <2> HIDE DEF out
  <2>2. AnswersWhole(call, call', <<a>>, out)
    BY <1>7 DEF out
  <2>3. Framed("openai_stt", <<a>>, out)
    BY <2>1 DEF Framed
  <2> QED BY <2>2, <2>3, <1>7 DEF FramedInv, AnswersWhole
<1>8. ASSUME NEW total \in 0..5, call.api \in {"openai_tts", "elevenlabs"},
             AnswersWhole(call, call', <<total>>, Rechunk(total, ChunkBytes))
      PROVE  FramedInv'
  <2> DEFINE out == Rechunk(total, ChunkBytes)
  <2>1. FinalOnly(out) /\ Slicing(out, total)
    BY RechunkIsFramed DEF ChunkBytes
  <2> HIDE DEF out
  <2>2. AnswersWhole(call, call', <<total>>, out) /\ <<total>>[1] = total
    BY <1>8 DEF out
  <2>3. Framed(call.api, <<total>>, out)
    BY <2>1, <2>2, <1>8 DEF Framed
  <2> QED BY <2>2, <2>3, <1>8 DEF FramedInv, AnswersWhole
<1> QED BY <1>1, <1>2, <1>3, <1>4, <1>5, <1>6, <1>7, <1>8, AnswerSteps DEF AnswerMove

-----------------------------------------------------------------------------
(* The answers of the in-process speech runners.                           *)

(* Piper's chunks, for any waveform and any chunk size.                    *)
LEMMA PcmIsFramed ==
    ASSUME NEW pcm \in Seq(Int), NEW size \in Nat, size # 0
    PROVE  FinalOnly(PcmChunks(pcm, size)) /\ PcmChunks(pcm, size) # <<>>
<1> DEFINE out == PcmChunks(pcm, size)
<1>0. Len(pcm) \in Nat
  BY SeqFacts
<1>1. CASE pcm = <<>>
  <2> DEFINE one == [final |-> TRUE, audio |-> <<>>]
  <2>1. out = <<one>> /\ one.final = TRUE
    BY <1>1 DEF PcmChunks
  <2> HIDE DEF one, out
  <2>2. Len(out) = 1 /\ out[1] = one /\ 1..1 = {1} /\ out # <<>>
    BY <2>1
  <2>3. FinalOnly(out)
    BY <2>1, <2>2 DEF FinalOnly
  <2> QED BY <2>2, <2>3 DEF out
<1>2. CASE pcm # <<>>
  <2> DEFINE n == (Len(pcm) + size - 1) \div size
             slice(i) == SubSeq(pcm, (i - 1) * size + 1, IF i * size < Len(pcm) THEN i * size ELSE Len(pcm))
             audio(i) == [j \in 1..Len(slice(i)) |-> Clamp(slice(i)[j])]
  <2>1. Len(pcm) # 0
    BY <1>2, EmptySeq
  <2>2. n \in Nat /\ n >= 1
    BY <2>1, <1>0, SliceCount
  <2>3. out = [i \in 1..n |-> [final |-> i = n, audio |-> audio(i)]]
    BY <1>2 DEF PcmChunks, Slices
  <2> HIDE DEF n, audio
  <2>4. Len(out) = n /\ \A i \in 1..n : out[i].final = (i = n)
    BY <2>2, <2>3, LenOfItems
  <2> HIDE DEF out
  <2>5. out # <<>>
    BY <2>2, <2>4, EmptySeq
  <2> QED BY <2>4, <2>5 DEF FinalOnly, out
<1> QED BY <1>1, <1>2

(* whisper's chunks, for any segments.                                     *)
LEMMA SegmentsAreFramed ==
    ASSUME NEW segments, segments = <<>> \/ Len(segments) \in Nat \ {0}, NEW words
    PROVE  FinalOnly(SegmentChunks(segments, words)) /\ SegmentChunks(segments, words) # <<>>
<1> DEFINE out == SegmentChunks(segments, words)
<1>1. CASE segments = <<>>
  <2> DEFINE one == [final |-> TRUE, start |-> 0, stop |-> 0, words |-> <<>>]
  <2>1. out = <<one>> /\ one.final = TRUE
    BY <1>1 DEF SegmentChunks, PlainToChunks
  <2> HIDE DEF one, out
  <2>2. Len(out) = 1 /\ out[1] = one /\ 1..1 = {1} /\ out # <<>>
    BY <2>1
  <2>3. FinalOnly(out)
    BY <2>1, <2>2 DEF FinalOnly
  <2> QED BY <2>2, <2>3 DEF out
<1>2. CASE segments # <<>>
  <2> DEFINE n == Len(segments)
             part(i) == [final |-> i = n, start |-> ToMs(segments[i].t0), stop |-> ToMs(segments[i].t1),
                         words |-> IF words THEN ExtractWords(segments[i].tokens) ELSE <<>>]
  <2>1. n \in Nat /\ n # 0
    BY <1>2
  <2>2. out = [i \in 1..n |-> part(i)]
    BY <1>2 DEF SegmentChunks
  <2>3. \A i \in 1..n : out[i].final = (i = n)
    BY <2>2
  <2>4. Len(out) = n
    BY <2>1, <2>2, LenOfItems
  <2> HIDE DEF out
  <2>5. out # <<>>
    BY <2>1, <2>4, EmptySeq
  <2> QED BY <2>3, <2>4, <2>5 DEF FinalOnly, out
<1> QED BY <1>1, <1>2

(* A frame's stamp and the time it is due.                                 *)
Drifts(at, k, fps) == at <= k * 1000 /\ k * 1000 <= at + k * fps
OnTime(out, fps) == \A i \in 1..Len(out) : Drifts(out[i].at * fps, i - 1, fps)

(* k frames of a truncated duration fall short of k frames of the true one *)
(* by less than k milliseconds.                                            *)
LEMMA Drift ==
    ASSUME NEW k \in Nat, NEW fps \in Nat, fps # 0
    PROVE  Drifts((k * (1000 \div fps)) * fps, k, fps)
<1> DEFINE d == 1000 \div fps
<1>1. d \in Nat /\ fps * d <= 1000 /\ 1000 < fps * d + fps
  OBVIOUS
<1> HIDE DEF d
<1> DEFINE p == fps * d
           r == 1000 - p
           s == fps - r
<1>2. p \in Nat /\ r \in Nat /\ s \in Nat
  BY <1>1
<1>3. (k * d) * fps = k * p
  BY <1>1
<1> HIDE DEF p
<1>4. k * 1000 = k * p + k * r /\ k * fps = k * r + k * s
  BY <1>2
<1> DEFINE kp == k * p
           kr == k * r
           ks == k * s
<1>5. kp \in Nat /\ kr \in Nat /\ ks \in Nat
  BY <1>2
<1>6. k * 1000 = kp + kr /\ k * fps = kr + ks /\ (k * d) * fps = kp
  BY <1>3, <1>4
<1> HIDE DEF kp, kr, ks
<1>7. kp <= kp + kr /\ kp + kr <= kp + (kr + ks)
  BY <1>5
<1> QED BY <1>6, <1>7 DEF d, Drifts

(* Audio2Face's frames, for any count and any rate.                        *)
LEMMA FramesAreFramed ==
    ASSUME NEW count \in Nat, count # 0, NEW fps \in Nat, fps # 0
    PROVE  LET out == GeneratorFrames(count, FrameDuration(fps))
           IN  FinalOnly(out) /\ OnTime(out, fps) /\ out # <<>>
<1> DEFINE out == GeneratorFrames(count, FrameDuration(fps))
           d == 1000 \div fps
<1>1. out = [i \in 1..count |-> [final |-> i = count, at |-> (i - 1) * d]]
  BY DEF GeneratorFrames, FrameDuration
<1> HIDE DEF d
<1>2. \A i \in 1..count : out[i].final = (i = count) /\ out[i].at = (i - 1) * d
  BY <1>1
<1>3. Len(out) = count
  BY <1>1, LenOfItems
<1> HIDE DEF out
<1>4. out # <<>>
  BY <1>3, EmptySeq
<1>5. ASSUME NEW i \in 1..count PROVE Drifts(out[i].at * fps, i - 1, fps)
  <2> DEFINE k == i - 1
  <2>1. k \in Nat /\ out[i].at = k * d
    BY <1>2
  <2> HIDE DEF k
  <2>2. Drifts((k * d) * fps, k, fps)
    BY <2>1, Drift DEF d
  <2> QED BY <2>1, <2>2 DEF k
<1>6. FinalOnly(out)
  BY <1>2, <1>3 DEF FinalOnly
<1>7. OnTime(out, fps)
  BY <1>3, <1>5 DEF OnTime
<1> QED BY <1>4, <1>6, <1>7 DEF out

(***************************************************************************)
(* What a step of an in-process speech runner does to the call.            *)
(***************************************************************************)
Ends(b, err, given, out) ==
    /\ job'.phase = "ended" /\ job'.model = job.model
    /\ job'.batch = b /\ job'.err = err /\ job'.given = given /\ job'.out = out
Turned(b) == \E err \in Kinds : Ends(b, err, <<>>, <<>>)
Loading == {"session", "manifest", "load"}
Waveform(b) == [i \in 1..b.size |-> 90 * i]
Restored(b) == Base64Decode(Base64Encode(b.bytes))

Plays(b) ==
    \/ runner.kind = "mock_stt" /\ \E out : Ends(b, None, <<>>, out)
    \/ runner.kind = "mock_tts" /\ Ends(b, None, [i \in 1..b.size |-> i],
                                        [i \in 1..b.size |-> [final |-> i = b.size, audio |-> <<i>>]])
    \/ runner.kind = "mock_a2f" /\ \E out : Ends(b, None, <<>>, out)
Serves(b) ==
    \/ runner.kind \in {"kokoro", "xtts", "moss"} /\ Ends(b, None, <<>>, EmptySpeech)
    \/ /\ runner.kind = "audio2face"
       /\ Ends(b, None, <<>>, GeneratorFrames(FrameCount(b), FrameDuration(Fps(b))))
Replays(b) ==
    /\ runner.kind = "replay"
    /\ IF Restored(b) = {} THEN Ends(b, "BadRequest", <<>>, <<>>)
       ELSE Ends(b, None, b.bytes, CHOOSE x \in Restored(b) : TRUE)
Launches(b) ==
    /\ job.phase = "new"
    /\ \/ /\ runner.kind \in Lazy
          /\ job'.phase = "session" /\ job'.batch = b /\ job'.model = job.model
       \/ runner.kind # "replay" /\ Turned(b)
       \/ Plays(b) \/ Serves(b) \/ Replays(b)
Prepares ==
    /\ job.phase \in Loading /\ job'.phase \in {"manifest", "load", "run"}
    /\ job'.batch = job.batch /\ (job'.phase # "run" => job'.model = job.model)
Listens ==
    /\ job.phase = "run" /\ runner.kind = "whisper"
    /\ IF PayloadToPcm(job.batch, 16000) = -1 THEN Ends(job.batch, "UnsupportedAudioFormat", <<>>, <<>>)
       ELSE \/ \E s \in Segments : \E w :
                 Ends(job.batch, None, <<PayloadToPcm(job.batch, 16000)>>, SegmentChunks(s, w))
            \/ Ends(job.batch, "Internal", <<>>, <<>>)
Utters ==
    /\ job.phase = "run" /\ runner.kind = "piper"
    /\ \/ Turned(job.batch)
       \/ \E n \in 0..2 : Ends(job.batch, None, Waveform(job.batch),
                               PcmChunks(Waveform(job.batch), AtLeastOne(n)))

JobMove ==
    \/ job'.phase = "new" /\ job'.model = 0
    \/ \E b \in SpeechBatches(runner.kind) : Launches(b)
    \/ Prepares
    \/ job.phase \in Loading /\ Turned(job.batch)
    \/ Listens \/ Utters

(* The ways a call ends.                                                   *)
LEMMA EndCallEnds ==
    ASSUME JobShape, NEW b, NEW err, NEW given, NEW out
    PROVE  EndCall(b, err, given, out) => Ends(b, err, given, out)
<1> SUFFICES ASSUME EndCall(b, err, given, out) PROVE Ends(b, err, given, out)
  OBVIOUS
<1>1. job' = [job EXCEPT !.phase = "ended", !.batch = b, !.err = err, !.given = given, !.out = out]
  BY DEF EndCall
<1>2. job'.phase = "ended" /\ job'.batch = b /\ job'.err = err
  BY <1>1 DEF JobShape
<1>3. job'.given = given /\ job'.out = out /\ job'.model = job.model
  BY <1>1 DEF JobShape
<1> QED BY <1>2, <1>3 DEF Ends

(* A refused batch ends with nothing passed on.                            *)
LEMMA RefuseEnds ==
    ASSUME JobShape, NEW b, NEW err
    PROVE  Refuse(b, err) => Ends(b, err, <<>>, <<>>)
BY EndCallEnds DEF Refuse

(* Refusing it is one of the ways a job may turn.                          *)
LEMMA RefuseTurns ==
    ASSUME JobShape, NEW b, NEW err \in Kinds, Refuse(b, err)
    PROVE  Turned(b)
BY RefuseEnds DEF Turned

(* Opening the session changes nothing but the phase and the batch.        *)
LEMMA SessionOpens ==
    ASSUME JobShape, NEW b, ToSession(b)
    PROVE  job'.phase = "session" /\ job'.batch = b /\ job'.model = job.model
<1>1. job' = [job EXCEPT !.phase = "session", !.batch = b]
  BY DEF ToSession
<1> QED BY <1>1 DEF JobShape

(* Every error of the crates is one of the taxonomy.                       *)
LEMMA ErrorsAreKinds ==
    /\ \A e \in {"ModelNotFound", "ModelIo", "UnsupportedAudio", "StreamingNotSupported",
                 "UnsupportedArch", "Backend", "FeatureDisabled"} : WhisperError(e) \in Kinds
    /\ \A e \in {"VoiceNotFound", "ManifestNotFound", "UnknownPhoneme", "SpeakerOutOfRange",
                 "ManifestIo", "ManifestParse", "Ort", "FeatureDisabled"} : PiperError(e) \in Kinds
    /\ \A e \in {"VoiceNotFound", "EmptyVoiceName", "UnsupportedFormat", "FeatureDisabled"} :
          KokoroError(e) \in Kinds
    /\ \A e \in {"ModelNotFound", "ReferenceAudioError", "UnsupportedFormat", "FeatureDisabled"} :
          XttsError(e) \in Kinds
    /\ \A e \in {"ModelNotFound", "UnsupportedFormat", "RequiresLinux", "FeatureDisabled"} :
          MossError(e) \in Kinds
    /\ \A e \in {"BadRequest", "UnsupportedArch", "FeatureDisabled"} : Audio2FaceError(e) \in Kinds
<1>1. \A e \in {"ModelNotFound", "ModelIo", "UnsupportedAudio", "StreamingNotSupported",
                 "UnsupportedArch", "Backend", "FeatureDisabled"} : WhisperError(e) \in Kinds
  BY DEF WhisperError, Kinds
<1>2. \A e \in {"VoiceNotFound", "ManifestNotFound", "UnknownPhoneme", "SpeakerOutOfRange",
                 "ManifestIo", "ManifestParse", "Ort", "FeatureDisabled"} : PiperError(e) \in Kinds
  BY DEF PiperError, Kinds
<1>3. \A e \in {"VoiceNotFound", "EmptyVoiceName", "UnsupportedFormat", "FeatureDisabled"} :
          KokoroError(e) \in Kinds
  BY DEF KokoroError, Kinds
<1>4. \A e \in {"ModelNotFound", "ReferenceAudioError", "UnsupportedFormat", "FeatureDisabled"} :
          XttsError(e) \in Kinds
  BY DEF XttsError, Kinds
<1>5. \A e \in {"ModelNotFound", "UnsupportedFormat", "RequiresLinux", "FeatureDisabled"} :
          MossError(e) \in Kinds
  BY DEF MossError, Kinds
<1>6. \A e \in {"BadRequest", "UnsupportedArch", "FeatureDisabled"} : Audio2FaceError(e) \in Kinds
  BY DEF Audio2FaceError, Kinds
<1> QED BY <1>1, <1>2, <1>3, <1>4, <1>5, <1>6

(* The steps that start a call.                                            *)
LEMMA JobStarts ==
    ASSUME JobShape, NEW b,
           \/ WhisperStarts(b) \/ PiperStarts(b) \/ KokoroSpeaks(b) \/ XttsSpeaks(b) \/ MossSpeaks(b)
           \/ ExecuteAudio2Face(b) \/ MockTranscribes(b) \/ MockSpeaks(b) \/ MockAnimates(b)
           \/ MockFails(b) \/ Replay(b)
    PROVE  Launches(b) /\ runner' = runner
<1>s. ASSUME NEW kind, Starts(kind, b)
      PROVE  runner.kind = kind /\ job.phase = "new" /\ runner' = runner
  BY <1>s DEF Starts
<1>t. ASSUME NEW kind, kind # "replay", Starts(kind, b), \E err \in Kinds : Refuse(b, err)
      PROVE  Launches(b) /\ runner' = runner
  BY <1>t, <1>s, RefuseTurns DEF Launches
<1>o. ASSUME NEW kind \in Lazy, Starts(kind, b), ToSession(b)
      PROVE  Launches(b) /\ runner' = runner
  BY <1>o, <1>s, SessionOpens DEF Launches
<1>e. ASSUME NEW kind \in {"kokoro", "xtts", "moss"}, Starts(kind, b), EndCall(b, None, <<>>, EmptySpeech)
      PROVE  Launches(b) /\ runner' = runner
  BY <1>e, <1>s, EndCallEnds DEF Launches, Serves
<1>1. CASE WhisperStarts(b)
  <2>1. Starts("whisper", b) /\ (ToSession(b) \/ \E err \in Kinds : Refuse(b, err))
    <3>1. /\ Starts("whisper", b)
          /\ \/ ToSession(b) \/ Refuse(b, "BadRequest") \/ Refuse(b, WhisperError("StreamingNotSupported"))
             \/ Refuse(b, WhisperError("FeatureDisabled")) \/ Refuse(b, WhisperError("UnsupportedArch"))
      BY <1>1, Zenon DEF WhisperStarts
    <3>2. "BadRequest" \in Kinds
      BY DEF Kinds
    <3> QED BY <3>1, <3>2, ErrorsAreKinds
  <2> QED BY <2>1, <1>t, <1>o DEF Lazy
<1>2. CASE PiperStarts(b)
  <2>1. Starts("piper", b) /\ (ToSession(b) \/ Refuse(b, PiperError("FeatureDisabled")))
    BY <1>2, Zenon DEF PiperStarts
  <2> QED BY <2>1, <1>t, <1>o, ErrorsAreKinds DEF Lazy
<1>3. CASE KokoroSpeaks(b)
  <2>1. /\ Starts("kokoro", b)
        /\ \/ Refuse(b, KokoroError("FeatureDisabled")) \/ Refuse(b, KokoroError("VoiceNotFound"))
           \/ (KokoroRejects(b) # None /\ Refuse(b, KokoroRejects(b)))
           \/ EndCall(b, None, <<>>, EmptySpeech)
    BY <1>3, Zenon DEF KokoroSpeaks
  <2>2. KokoroRejects(b) # None => KokoroRejects(b) \in Kinds
    BY ErrorsAreKinds DEF KokoroRejects
  <2> QED BY <2>1, <2>2, <1>t, <1>e, ErrorsAreKinds
<1>4. CASE XttsSpeaks(b)
  <2>1. /\ Starts("xtts", b)
        /\ \/ Refuse(b, XttsError("FeatureDisabled")) \/ Refuse(b, XttsError("ModelNotFound"))
           \/ (XttsRejects(b) # None /\ Refuse(b, XttsRejects(b)))
           \/ EndCall(b, None, <<>>, EmptySpeech)
    BY <1>4, Zenon DEF XttsSpeaks
  <2>2. XttsRejects(b) # None => XttsRejects(b) \in Kinds
    BY ErrorsAreKinds DEF XttsRejects
  <2> QED BY <2>1, <2>2, <1>t, <1>e, ErrorsAreKinds
<1>5. CASE MossSpeaks(b)
  <2>1. /\ Starts("moss", b)
        /\ \/ Refuse(b, MossError("FeatureDisabled")) \/ Refuse(b, MossError("ModelNotFound"))
           \/ Refuse(b, MossError("RequiresLinux"))
           \/ (MossRejects(b) # None /\ Refuse(b, MossRejects(b)))
           \/ EndCall(b, None, <<>>, EmptySpeech)
    BY <1>5, Zenon DEF MossSpeaks
  <2>2. MossRejects(b) # None => MossRejects(b) \in Kinds
    BY ErrorsAreKinds DEF MossRejects
  <2> QED BY <2>1, <2>2, <1>t, <1>e, ErrorsAreKinds
<1>6. CASE ExecuteAudio2Face(b)
  <2> DEFINE out == GeneratorFrames(FrameCount(b), FrameDuration(Fps(b)))
  <2>1. /\ Starts("audio2face", b)
        /\ \/ Refuse(b, Audio2FaceError("FeatureDisabled")) \/ Refuse(b, Audio2FaceError("UnsupportedArch"))
           \/ Refuse(b, Audio2FaceError("BadRequest")) \/ EndCall(b, None, <<>>, out)
    BY <1>6, Zenon DEF ExecuteAudio2Face
  <2>2. ASSUME EndCall(b, None, <<>>, out) PROVE Launches(b) /\ runner' = runner
    <3>1. Ends(b, None, <<>>, out)
      BY <2>2, EndCallEnds
    <3> QED BY <3>1, <2>1, <1>s DEF Launches, Serves
  <2> HIDE DEF out
  <2> QED BY <2>1, <2>2, <1>t, ErrorsAreKinds
<1>7. CASE MockTranscribes(b)
  <2>1. Starts("mock_stt", b) /\ \E out : EndCall(b, None, <<>>, out)
    BY <1>7, Zenon DEF MockTranscribes
  <2> QED BY <2>1, <1>s, EndCallEnds DEF Launches, Plays
<1>8. CASE MockSpeaks(b)
  <2> DEFINE given == [i \in 1..b.size |-> i]
             out == [i \in 1..b.size |-> [final |-> i = b.size, audio |-> <<i>>]]
  <2>1. Starts("mock_tts", b) /\ EndCall(b, None, given, out)
    BY <1>8 DEF MockSpeaks
  <2>2. Ends(b, None, given, out)
    BY <2>1, EndCallEnds
  <2> QED BY <2>1, <2>2, <1>s DEF Launches, Plays
<1>9. CASE MockAnimates(b)
  <2>1. Starts("mock_a2f", b) /\ \E out : EndCall(b, None, <<>>, out)
    BY <1>9, Zenon DEF MockAnimates
  <2> QED BY <2>1, <1>s, EndCallEnds DEF Launches, Plays
<1>10. CASE MockFails(b)
  <2>1. (\E kind \in {"mock_stt", "mock_tts", "mock_a2f"} : Starts(kind, b)) /\ \E err \in Kinds : Refuse(b, err)
    BY <1>10 DEF MockFails
  <2> QED BY <2>1, <1>t
<1>11. CASE Replay(b)
  <2>1. /\ Starts("replay", b)
        /\ IF Restored(b) = {} THEN Refuse(b, "BadRequest")
           ELSE EndCall(b, None, b.bytes, CHOOSE x \in Restored(b) : TRUE)
    BY <1>11 DEF Replay, Restored
  <2> QED BY <2>1, <1>s, RefuseEnds, EndCallEnds DEF Launches, Replays
<1> QED BY <1>1, <1>2, <1>3, <1>4, <1>5, <1>6, <1>7, <1>8, <1>9, <1>10, <1>11

(* A step that loads the session.                                          *)
Moves(p, m) == job' = [job EXCEPT !.phase = p, !.model = m]

(* Loading changes nothing a job has passed on.                            *)
LEMMA JobLoads ==
    ASSUME JobShape, NEW p, NEW m, job.phase \in Loading, p \in {"manifest", "load", "run"},
           p # "run" => m = job.model, Moves(p, m)
    PROVE  Prepares
<1>1. job'.phase = p /\ job'.model = m /\ job'.batch = job.batch
  BY DEF JobShape, Moves
<1> QED BY <1>1 DEF Prepares

(* Every step of the runner is one of these, or leaves the call alone.     *)
LEMMA JobSteps ==
    ASSUME JobShape, SpeechNext \/ UNCHANGED speechVars
    PROVE  runner' = runner /\ (job' = job \/ JobMove)
<1>1. CASE InstallModel \/ RemoveModel \/ UNCHANGED speechVars \/ \E cause : RebuildSession(cause)
  BY <1>1 DEF InstallModel, RemoveModel, RebuildSession, speechVars
<1>2. ASSUME NEW b \in SpeechBatches(runner.kind),
             \/ WhisperStarts(b) \/ PiperStarts(b) \/ KokoroSpeaks(b) \/ XttsSpeaks(b) \/ MossSpeaks(b)
             \/ ExecuteAudio2Face(b) \/ MockTranscribes(b) \/ MockSpeaks(b) \/ MockAnimates(b)
             \/ MockFails(b) \/ Replay(b)
      PROVE  runner' = runner /\ JobMove
  BY <1>2, JobStarts DEF JobMove
<1>l. ASSUME NEW p, job' = [job EXCEPT !.phase = p]
      PROVE  Moves(p, job.model)
  BY <1>l DEF JobShape, Moves
<1>3. CASE SessionPresent
  <2>1. job.phase = "session" /\ runner' = runner /\ Moves("run", cell)
    BY <1>3 DEF SessionPresent, Moves
  <2>2. Prepares
    BY <2>1, JobLoads DEF Loading
  <2> QED BY <2>1, <2>2 DEF JobMove
<1>4. CASE SessionMissing
  <2>1. job.phase = "session" /\ runner' = runner
    BY <1>4 DEF SessionMissing
  <2>2. \/ Refuse(job.batch, WhisperError("ModelNotFound"))
        \/ Refuse(job.batch, PiperError("VoiceNotFound"))
        \/ \E p \in {"load", "manifest"} : job' = [job EXCEPT !.phase = p]
    BY <1>4 DEF SessionMissing
  <2>3. CASE Refuse(job.batch, WhisperError("ModelNotFound"))
             \/ Refuse(job.batch, PiperError("VoiceNotFound"))
    <3>1. Turned(job.batch)
      BY <2>3, ErrorsAreKinds, RefuseTurns
    <3> QED BY <2>1, <3>1 DEF JobMove, Loading
  <2>4. ASSUME NEW p \in {"load", "manifest"}, job' = [job EXCEPT !.phase = p] PROVE Prepares
    <3>1. Moves(p, job.model)
      BY <2>4, <1>l
    <3> QED BY <2>1, <3>1, JobLoads DEF Loading
  <2> QED BY <2>1, <2>2, <2>3, <2>4 DEF JobMove
<1>5. CASE LoadManifest
  <2>1. job.phase = "manifest" /\ runner' = runner
    BY <1>5 DEF LoadManifest
  <2>2. \/ Refuse(job.batch, PiperError("ManifestNotFound"))
        \/ Refuse(job.batch, PiperError("ManifestParse"))
        \/ job' = [job EXCEPT !.phase = "load"]
    BY <1>5, Zenon DEF LoadManifest
  <2>3. CASE Refuse(job.batch, PiperError("ManifestNotFound"))
             \/ Refuse(job.batch, PiperError("ManifestParse"))
    <3>1. Turned(job.batch)
      BY <2>3, ErrorsAreKinds, RefuseTurns
    <3> QED BY <2>1, <3>1 DEF JobMove, Loading
  <2>4. CASE job' = [job EXCEPT !.phase = "load"]
    <3>1. Moves("load", job.model)
      BY <2>4, <1>l
    <3>2. Prepares
      BY <2>1, <3>1, JobLoads DEF Loading
    <3> QED BY <2>1, <3>2 DEF JobMove
  <2> QED BY <2>2, <2>3, <2>4
<1>6. CASE BuildSession
  <2>1. job.phase = "load" /\ runner' = runner
    BY <1>6 DEF BuildSession
  <2>2. \/ Refuse(job.batch, "Internal")
        \/ job' = [job EXCEPT !.phase = "run", !.model = disk.model]
    BY <1>6 DEF BuildSession
  <2>3. CASE Refuse(job.batch, "Internal")
    <3>1. "Internal" \in Kinds
      BY DEF Kinds
    <3>2. Turned(job.batch)
      BY <2>3, <3>1, RefuseTurns
    <3> QED BY <2>1, <3>2 DEF JobMove, Loading
  <2>4. CASE job' = [job EXCEPT !.phase = "run", !.model = disk.model]
    <3>1. Moves("run", disk.model)
      BY <2>4 DEF Moves
    <3>2. Prepares
      BY <2>1, <3>1, JobLoads DEF Loading
    <3> QED BY <2>1, <3>2 DEF JobMove
  <2> QED BY <2>2, <2>3, <2>4
<1>7. ASSUME NEW s \in Segments, NEW w, Transcribe(s, w) PROVE runner' = runner /\ JobMove
  <2> DEFINE samples == PayloadToPcm(job.batch, 16000)
  <2>1. job.phase = "run" /\ runner.kind = "whisper" /\ runner' = runner
    BY <1>7 DEF Transcribe
  <2>2. /\ samples = -1 => Refuse(job.batch, WhisperError("UnsupportedAudio"))
        /\ samples # -1 => \/ EndCall(job.batch, None, <<samples>>, SegmentChunks(s, w))
                           \/ Refuse(job.batch, WhisperError("Backend"))
    BY <1>7 DEF Transcribe
  <2>3. WhisperError("UnsupportedAudio") = "UnsupportedAudioFormat"
        /\ WhisperError("Backend") = "Internal"
    BY DEF WhisperError
  <2> HIDE DEF samples
  <2>4. IF samples = -1 THEN Ends(job.batch, "UnsupportedAudioFormat", <<>>, <<>>)
        ELSE \/ Ends(job.batch, None, <<samples>>, SegmentChunks(s, w))
             \/ Ends(job.batch, "Internal", <<>>, <<>>)
    BY <2>2, <2>3, EndCallEnds, RefuseEnds
  <2>5. Listens
    BY <2>1, <2>4 DEF Listens, samples
  <2> QED BY <2>1, <2>5 DEF JobMove
<1>8. ASSUME NEW v, NEW speaker, NEW speakers, NEW n \in 0..2, RunSynthesis(v, speaker, speakers, n)
      PROVE  runner' = runner /\ JobMove
  <2> DEFINE pcm == Waveform(job.batch)
             out == PcmChunks(pcm, AtLeastOne(n))
  <2>1. job.phase = "run" /\ runner.kind = "piper" /\ runner' = runner
    BY <1>8 DEF RunSynthesis
  <2>2. \/ Refuse(job.batch, PiperError("UnknownPhoneme"))
        \/ Refuse(job.batch, PiperError("SpeakerOutOfRange"))
        \/ EndCall(job.batch, None, pcm, out) \/ Refuse(job.batch, PiperError("Ort"))
    BY <1>8, Zenon DEF RunSynthesis, Waveform
  <2>3. CASE \/ Refuse(job.batch, PiperError("UnknownPhoneme"))
             \/ Refuse(job.batch, PiperError("SpeakerOutOfRange"))
             \/ Refuse(job.batch, PiperError("Ort"))
    <3>1. Turned(job.batch)
      BY <2>3, ErrorsAreKinds, RefuseTurns
    <3> QED BY <2>1, <3>1 DEF JobMove, Utters
  <2>4. CASE EndCall(job.batch, None, pcm, out)
    <3>1. Ends(job.batch, None, pcm, out)
      BY <2>4, EndCallEnds
    <3>2. Utters
      BY <2>1, <3>1 DEF Utters
    <3> QED BY <2>1, <3>2 DEF JobMove
  <2> QED BY <2>2, <2>3, <2>4
<1>9. CASE NextCall
  <2>1. job' = [NewJob EXCEPT !.calls = job.calls + 1] /\ runner' = runner
    BY <1>9 DEF NextCall
  <2>2. job'.phase = "new" /\ job'.model = 0
    BY <2>1 DEF NewJob
  <2> QED BY <2>1, <2>2 DEF JobMove
<1> QED BY <1>1, <1>2, <1>3, <1>4, <1>5, <1>6, <1>7, <1>8, <1>9 DEF SpeechNext

(* The batches of Audio2Face have a frame to stamp, and Piper's a length.  *)
LEMMA FaceBatches ==
    ASSUME NEW b \in SpeechBatches("audio2face")
    PROVE  Fps(b) \in Nat \ {0} /\ FrameCount(b) \in Nat \ {0}
<1>0. SpeechBatches("audio2face") =
            {[SpeechInput EXCEPT !.options = "audio2face", !.payload = p, !.params = q, !.size = n, !.fps = k, !.units = u] :
                p \in {"bytes", "path", "stream"}, q \in {Params(8000, 2), Params(0, 0)}, n \in {0, 9000},
                k \in {-1, 0, 3}, u \in {0, 2}}
            \cup {SpeechInput, [SpeechInput EXCEPT !.options = "audio2face", !.fps = 2000, !.units = 2]}
  BY DEF SpeechBatches
<1>1. /\ b.fps \in {-1, 0, 3, 2000} /\ b.units \in {0, 2} /\ b.size \in Nat
      /\ b.params \in {Params(8000, 2), Params(0, 0), Params(16000, 1)}
  <2> DEFINE S == {[SpeechInput EXCEPT !.options = "audio2face", !.payload = p, !.params = q, !.size = n,
                                       !.fps = k, !.units = u] :
                     p \in {"bytes", "path", "stream"}, q \in {Params(8000, 2), Params(0, 0)}, n \in {0, 9000},
                     k \in {-1, 0, 3}, u \in {0, 2}}
  <2>4. CASE b \in S
    <3>1. PICK p \in {"bytes", "path", "stream"}, q \in {Params(8000, 2), Params(0, 0)}, n \in {0, 9000},
               k \in {-1, 0, 3}, u \in {0, 2} :
               b = [SpeechInput EXCEPT !.options = "audio2face", !.payload = p, !.params = q, !.size = n,
                                       !.fps = k, !.units = u]
      BY <2>4
    <3>2. b.fps = k /\ b.units = u /\ b.size = n /\ b.params = q
      BY <3>1 DEF SpeechInput
    <3> QED BY <3>2
  <2>2. ASSUME b = SpeechInput
        PROVE b.fps = -1 /\ b.units = 0 /\ b.size = 4 /\ b.params = Params(16000, 1)
    BY <2>2 DEF SpeechInput
  <2>3. ASSUME b = [SpeechInput EXCEPT !.options = "audio2face", !.fps = 2000, !.units = 2]
        PROVE  b.fps = 2000 /\ b.units = 2 /\ b.size = 4 /\ b.params = Params(16000, 1)
    BY <2>3 DEF SpeechInput
  <2> HIDE DEF S
  <2>5. b \in S \/ b = SpeechInput \/ b = [SpeechInput EXCEPT !.options = "audio2face", !.fps = 2000, !.units = 2]
    BY <1>0 DEF S
  <2>6. CASE b = SpeechInput
    BY <2>2, <2>6
  <2>7. CASE b = [SpeechInput EXCEPT !.options = "audio2face", !.fps = 2000, !.units = 2]
    BY <2>3, <2>7
  <2> QED BY <2>4, <2>5, <2>6, <2>7
<1>2. b.params.channels \in Nat /\ b.params.rate \in Nat
  BY <1>1 DEF Params
<1>3. Fps(b) \in Nat \ {0}
  BY <1>1 DEF Fps
<1>4. FrameCount(b) \in Nat \ {0}
  <2> DEFINE f == Fps(b)
             c == AtLeastOne(2 * b.params.channels)
             r == AtLeastOne(b.params.rate \div f)
  <2>1. c \in Nat \ {0}
    BY <1>2 DEF AtLeastOne
  <2> HIDE DEF f
  <2>2. f \in Nat \ {0}
    BY <1>3 DEF f
  <2>3. b.params.rate \div f \in Nat
    BY <2>2, <1>2
  <2>4. r \in Nat \ {0}
    BY <2>3 DEF AtLeastOne
  <2> HIDE DEF c, r
  <2>5. b.size \div c \in Nat
    BY <2>1, <1>1
  <2>6. (b.size \div c) \div r \in Nat
    BY <2>4, <2>5
  <2>7. AtLeastOne((b.size \div c) \div r) \in Nat \ {0}
    BY <2>6 DEF AtLeastOne
  <2>8. \/ FrameCount(b) = f \/ (b.units > 0 /\ FrameCount(b) = b.units)
        \/ FrameCount(b) = AtLeastOne((b.size \div c) \div r)
    BY DEF FrameCount, f, c, r
  <2> QED BY <2>2, <2>7, <2>8, <1>1
<1> QED BY <1>3, <1>4

(* The synthesis batches have a size.                                      *)
LEMMA PiperBatches ==
    ASSUME NEW b \in SpeechBatches("piper")
    PROVE  b.size \in Nat
<1>0. SpeechBatches("piper") =
            {[SpeechInput EXCEPT !.text = t, !.size = n] :
                t \in {<<>>, <<"a">>, <<"a", "a">>, <<"a", "z">>}, n \in {0, 1, 3}}
  BY DEF SpeechBatches
<1>1. PICK t \in {<<>>, <<"a">>, <<"a", "a">>, <<"a", "z">>}, n \in {0, 1, 3} :
          b = [SpeechInput EXCEPT !.text = t, !.size = n]
  BY <1>0
<1>2. b.size = n
  BY <1>1 DEF SpeechInput
<1> QED BY <1>2

(* The synthesizer's waveform is a sequence of that many samples.          *)
LEMMA WaveformIsSeq ==
    ASSUME NEW b, b.size \in Nat
    PROVE  Waveform(b) \in Seq(Int) /\ Len(Waveform(b)) = b.size
<1>1. Waveform(b) \in [1..b.size -> Int]
  BY DEF Waveform
<1> QED BY <1>1, SeqDef, LenOfItems

(* What a finished call of a real runner holds.                            *)
Played == {"replay", "mock_stt", "mock_tts", "mock_a2f"}
LocalFramed(j, kind) ==
    j.phase = "ended" /\ j.err = None /\ kind \notin Played =>
        /\ j.out # <<>> /\ FinalOnly(j.out)
        /\ kind = "audio2face" => OnTime(j.out, Fps(j.batch))

(* Piper's batch stays what it was while the session loads.                *)
LoadingInv == runner.kind = "piper" /\ job.phase \in Loading \cup {"run"} => job.batch.size \in Nat
LocalInv == LoadingInv /\ LocalFramed(job, runner.kind)

(* Every step of an in-process runner keeps the order of its chunks.       *)
LEMMA LocalKept ==
    ASSUME JobShape, LocalInv, SpeechNext \/ UNCHANGED speechVars
    PROVE  LocalInv'
<1>r. runner' = runner /\ (job' = job \/ JobMove)
  BY JobSteps
<1>p. \A k \in Kinds : k # None
  BY DEF Kinds, None
<1>n. ASSUME job'.phase \notin Loading \cup {"run", "ended"} PROVE LocalInv'
  BY <1>n DEF LocalInv, LoadingInv, LocalFramed
<1>t. ASSUME NEW b, Turned(b) PROVE LocalInv'
  <2>1. job'.phase = "ended" /\ job'.err # None
    BY <1>t, <1>p DEF Turned, Ends
  <2> QED BY <2>1 DEF LocalInv, LoadingInv, LocalFramed, Loading
<1>e. ASSUME NEW b, NEW err, NEW given, NEW out, Ends(b, err, given, out),
             \/ err # None \/ runner.kind \in Played
             \/ /\ out # <<>> /\ FinalOnly(out)
                /\ runner.kind = "audio2face" => OnTime(out, Fps(b))
      PROVE  LocalInv'
  BY <1>e, <1>r DEF LocalInv, LoadingInv, LocalFramed, Loading, Ends
<1>1. CASE job' = job
  BY <1>1, <1>r DEF LocalInv, LoadingInv, LocalFramed
<1>2. CASE job'.phase = "new"
  BY <1>2, <1>n DEF Loading
<1>3. ASSUME NEW b \in SpeechBatches(runner.kind), Launches(b) PROVE LocalInv'
  <2>1. CASE runner.kind \in Lazy /\ job'.phase = "session" /\ job'.batch = b
    <3>1. runner.kind = "piper" => b.size \in Nat
      BY PiperBatches
    <3> QED BY <2>1, <3>1, <1>r DEF LocalInv, LoadingInv, LocalFramed
  <2>2. CASE Plays(b)
    BY <2>2, <1>e DEF Plays, Played
  <2>3. CASE Serves(b)
    <3>1. CASE runner.kind \in {"kokoro", "xtts", "moss"} /\ Ends(b, None, <<>>, EmptySpeech)
      <4>1. EmptySpeech # <<>> /\ FinalOnly(EmptySpeech)
        <5> DEFINE one == [final |-> TRUE, audio |-> <<>>]
        <5>1. EmptySpeech = <<one>> /\ one.final = TRUE
          BY DEF EmptySpeech
        <5> HIDE DEF one
        <5>2. Len(EmptySpeech) = 1 /\ EmptySpeech[1] = one /\ 1..1 = {1} /\ EmptySpeech # <<>>
          BY <5>1
        <5> QED BY <5>1, <5>2 DEF FinalOnly
      <4> QED BY <4>1, <3>1, <1>e
    <3>2. CASE /\ runner.kind = "audio2face"
               /\ Ends(b, None, <<>>, GeneratorFrames(FrameCount(b), FrameDuration(Fps(b))))
      <4> DEFINE fps == Fps(b)
                 count == FrameCount(b)
                 out == GeneratorFrames(count, FrameDuration(fps))
      <4>1. fps \in Nat \ {0} /\ count \in Nat \ {0}
        BY <3>2, FaceBatches
      <4> HIDE DEF fps, count
      <4>2. FinalOnly(out) /\ OnTime(out, fps) /\ out # <<>>
        BY <4>1, FramesAreFramed
      <4>3. Ends(b, None, <<>>, out)
        BY <3>2 DEF fps, count
      <4> HIDE DEF out
      <4> QED BY <4>2, <4>3, <1>e DEF fps
    <3> QED BY <2>3, <3>1, <3>2 DEF Serves
  <2>4. CASE Replays(b)
    BY <2>4, <1>e DEF Replays, Played
  <2> QED BY <1>3, <2>1, <2>2, <2>3, <2>4, <1>t DEF Launches
<1>4. CASE Prepares
  BY <1>4, <1>r DEF Prepares, LocalInv, LoadingInv, LocalFramed
<1>5. CASE Listens
  <2>1. ASSUME NEW s \in Segments, NEW w
        PROVE FinalOnly(SegmentChunks(s, w)) /\ SegmentChunks(s, w) # <<>>
    <3>1. s = <<>> \/ Len(s) = 2
      BY DEF Segments
    <3> QED BY <3>1, SegmentsAreFramed
  <2>2. runner.kind = "whisper"
    BY <1>5 DEF Listens
  <2>3. "UnsupportedAudioFormat" # None /\ "Internal" # None
    BY DEF None
  <2>4. \/ Ends(job.batch, "UnsupportedAudioFormat", <<>>, <<>>)
        \/ Ends(job.batch, "Internal", <<>>, <<>>)
        \/ \E s \in Segments : \E w : Ends(job.batch, None, <<PayloadToPcm(job.batch, 16000)>>, SegmentChunks(s, w))
    BY <1>5 DEF Listens
  <2>5. CASE Ends(job.batch, "UnsupportedAudioFormat", <<>>, <<>>)
             \/ Ends(job.batch, "Internal", <<>>, <<>>)
    BY <2>5, <2>3, <1>e
  <2>6. ASSUME NEW s \in Segments, NEW w, Ends(job.batch, None, <<PayloadToPcm(job.batch, 16000)>>, SegmentChunks(s, w))
        PROVE LocalInv'
    <3> DEFINE out == SegmentChunks(s, w)
               given == <<PayloadToPcm(job.batch, 16000)>>
    <3>1. FinalOnly(out) /\ out # <<>> /\ Ends(job.batch, None, given, out)
      BY <2>1, <2>6
    <3> HIDE DEF out, given
    <3> QED BY <3>1, <2>2, <1>e
  <2> QED BY <2>4, <2>5, <2>6
<1>6. CASE Utters
  <2>1. runner.kind = "piper" /\ job.batch.size \in Nat
    BY <1>6 DEF Utters, LocalInv, LoadingInv
  <2>2. ASSUME NEW n \in 0..2, Ends(job.batch, None, Waveform(job.batch), PcmChunks(Waveform(job.batch), AtLeastOne(n)))
        PROVE LocalInv'
    <3> DEFINE pcm == Waveform(job.batch)
               size == AtLeastOne(n)
               out == PcmChunks(pcm, size)
    <3>1. pcm \in Seq(Int)
      BY <2>1, WaveformIsSeq
    <3>2. size \in Nat /\ size # 0
      BY DEF AtLeastOne
    <3>3. Ends(job.batch, None, pcm, out)
      BY <2>2
    <3> HIDE DEF pcm, size
    <3>4. FinalOnly(out) /\ out # <<>>
      BY <3>1, <3>2, PcmIsFramed
    <3> HIDE DEF out
    <3> QED BY <3>3, <3>4, <2>1, <1>e
  <2> QED BY <1>6, <2>2, <1>t DEF Utters
<1> QED BY <1>r, <1>1, <1>2, <1>3, <1>4, <1>5, <1>6, <1>t DEF JobMove

(***************************************************************************)
(* The last piece, and only the last, is final, and it is the last for a   *)
(* good reason: the slices make up the body without gap or overlap, words  *)
(* lie in their chunk, frames are stamped on time - whatever is answered   *)
(* and however it is cut (rechunk, verbose_to_chunks, the speech runners). *)
(***************************************************************************)
THEOREM FinalLast == RunnersSpec => []FinalComesLast
<1> DEFINE Inv == CallInv /\ FramedInv /\ SpeechInv /\ LocalInv
<1>1. RunnersInit => Inv
  <2> SUFFICES ASSUME RunnersInit PROVE Inv
    OBVIOUS
  <2>1. CallInv /\ call = NoCall
    BY CallStart DEF RunnersInit, Init
  <2>2. call.phase = "new" /\ call.out = <<>>
    BY <2>1 DEF NoCall
  <2>3. SpeechInv
    BY SpeechStart
  <2>4. job.phase = "new"
    BY DEF RunnersInit, SpeechInit, Resting, NewJob
  <2> QED BY <2>1, <2>2, <2>3, <2>4 DEF FramedInv, LocalInv, LoadingInv, LocalFramed, Loading
<1>2. Inv /\ [RunnersNext]_<<vars, speechVars, linkVars>> => Inv'
  <2> SUFFICES ASSUME Inv, [RunnersNext]_<<vars, speechVars, linkVars>> PROVE Inv'
    OBVIOUS
  <2>1. JobShape
    BY DEF SpeechInv
  <2> QED BY <2>1, HttpSteps, SpeechSteps, CallKept, FramedKept, SpeechKept, LocalKept
<1>3. Inv => FinalComesLast
  <2>1. FramedInv => FinalIsLast
    BY DEF FramedInv, FinalIsLast, Framed, FinalOnly, WordsInTime, Inside, Slicing
  <2>2. LocalInv => LocalFinalIsLast
    BY DEF LocalInv, LocalFinalIsLast, LocalFramed, FinalOnly, OnTime, Drifts, Played
  <2> QED BY <2>1, <2>2 DEF FinalComesLast
<1> QED BY <1>1, <1>2, <1>3, PTL DEF RunnersSpec

-----------------------------------------------------------------------------
(***************************************************************************)
(* Text.  The items of a stream, and what Tokens::append makes of them:    *)
(* the tokens of one item more are the tokens with the item appended.      *)
(***************************************************************************)
Reasons == {None, "Stop", "Length", "ToolCalls", "ContentFilter"}
Item == [err : Kinds \cup {None}, text : Seq(Nat), tool : BOOLEAN, usage : BOOLEAN, finish : Reasons]
Collected == [text : Seq(Nat), usages : Nat, finish : Reasons]
NoTokens == [text |-> <<>>, usages |-> 0, finish |-> None]

Collects(t, items) ==
    /\ t[1..0] = NoTokens
    /\ \A k \in 0..Len(items) : t[1..k] \in Collected
    /\ \A k \in 1..Len(items) : t[1..k] = Append1(t[1..(k - 1)], items[k])

(* Adding an item to what was collected gives a collection again.          *)
LEMMA AppendCollects ==
    ASSUME NEW t \in Collected, NEW x \in Item
    PROVE  Append1(t, x) \in Collected
<1>1. t.text \in Seq(Nat) /\ x.text \in Seq(Nat) /\ t.usages \in Nat /\ t.finish \in Reasons
      /\ x.finish \in Reasons
  BY DEF Collected, Item
<1>2. t.text \o x.text \in Seq(Nat)
  BY <1>1, ConcatProperties
<1>3. t.usages + (IF x.usage THEN 1 ELSE 0) \in Nat
  BY <1>1
<1>4. (IF x.finish = None THEN t.finish ELSE x.finish) \in Reasons
  BY <1>1
<1> QED BY <1>2, <1>3, <1>4 DEF Append1, Collected

(* Tokens collects its items one after the other.                          *)
LEMMA TokensRuns ==
    ASSUME NEW items \in Seq(Item)
    PROVE  \E t : Collects(t, items) /\ Tokens(items) = t[1..Len(items)]
<1> DEFINE n == Len(items)
           V == Collected
           Def(d) == [s \in SUBSET (1..n) |-> IF s = {} THEN NoTokens ELSE Append1(d[s \ {Max(s)}], items[Max(s)])]
           it == CHOOSE d : d = Def(d)
           st == [p \in V \X (1..n) |-> Append1(p[1], items[p[2]])]
<1>1. n \in Nat /\ DOMAIN items = 1..n /\ \A i \in 1..n : items[i] \in Item
  BY SeqFacts
<1>2. Tokens(items) = it[1..n]
  BY <1>1 DEF Tokens, FoldLeft, MapThenFoldSet, NoTokens
<1>3. NoTokens \in V
  BY EmptySeq DEF NoTokens, Collected, Reasons
<1>4. ASSUME NEW k \in V, NEW i \in 1..n PROVE Append1(k, items[i]) \in V
  BY <1>1, AppendCollects
<1> HIDE DEF V
<1>5. IsFoldStep(st, V, n) /\ \A k \in V, i \in 1..n : st[<<k, i>>] = Append1(k, items[i])
  BY <1>4 DEF IsFoldStep
<1> HIDE DEF st
<1>6. PICK f : FoldsOver(f, V, n, NoTokens, st)
  BY <1>1, <1>3, <1>5, FoldExists
<1>7. f = Def(f)
  <2>1. ASSUME NEW s \in SUBSET (1..n)
        PROVE f[s] = IF s = {} THEN NoTokens ELSE Append1(f[s \ {Max(s)}], items[Max(s)])
    <3>1. f[s] = FoldStep(f, s, NoTokens, st)
      BY <1>6 DEF FoldsOver
    <3>2. CASE s = {}
      BY <3>1, <3>2 DEF FoldStep
    <3>3. CASE s # {}
      <4>1. Max(s) \in 1..n /\ s \ {Max(s)} \in SUBSET (1..n)
        BY <3>3, <1>1, MaxInRange
      <4>2. f[s \ {Max(s)}] \in V
        BY <4>1, <1>6 DEF FoldsOver
      <4> QED BY <4>1, <4>2, <3>1, <3>3, <1>5 DEF FoldStep
    <3> QED BY <3>2, <3>3
  <2>2. f = [s \in SUBSET (1..n) |-> f[s]]
    BY <1>6 DEF FoldsOver
  <2> QED BY <2>1, <2>2
<1>8. it = Def(it)
  <2> HIDE DEF Def
  <2> QED BY <1>7
<1> HIDE DEF it
<1>9. \A s \in SUBSET (1..n) : it[s] = IF s = {} THEN NoTokens ELSE Append1(it[s \ {Max(s)}], items[Max(s)])
  <2> DEFINE e == Def(it)
  <2>1. \A s \in SUBSET (1..n) : e[s] = IF s = {} THEN NoTokens ELSE Append1(it[s \ {Max(s)}], items[Max(s)])
    OBVIOUS
  <2>2. e = it
    BY <1>8
  <2> HIDE DEF e
  <2> QED BY <2>1, <2>2
<1>10. FoldLike(it, V, n, NoTokens, st)
  <2>1. \A s \in SUBSET (1..n) : s # {} => Max(s) \in 1..n
    BY <1>1, MaxInRange
  <2> QED BY <2>1, <1>5, <1>9 DEF FoldLike
<1>11. Trace(it, V, n, NoTokens, st)
  BY <1>1, <1>3, <1>5, <1>10, FoldRuns
<1>12. \A k \in 1..n : it[1..k] = Append1(it[1..(k - 1)], items[k])
  <2>1. \A k \in 1..n : k - 1 \in 0..n
    BY <1>1
  <2> QED BY <2>1, <1>5, <1>11 DEF Trace
<1>13. Collects(it, items)
  BY <1>11, <1>12 DEF Trace, Collects, V
<1> QED BY <1>2, <1>13

(* Collecting from a list and from one it begins agree as far as the       *)
(* shorter goes.                                                           *)
LEMMA CollectsAgree ==
    ASSUME NEW a \in Seq(Item), NEW b \in Seq(Item), Begins(a, b),
           NEW g, NEW h, Collects(g, a), Collects(h, b)
    PROVE  \A k \in 0..Len(a) : g[1..k] = h[1..k]
<1> DEFINE P == {k \in Nat : k \in 0..Len(a) => g[1..k] = h[1..k]}
<1>0. Len(a) \in Nat /\ Len(b) \in Nat
  BY SeqFacts
<1>1. 0 \in P
  BY DEF Collects
<1>2. ASSUME NEW k \in Nat, k \in P PROVE k + 1 \in P
  <2> SUFFICES ASSUME k + 1 \in 0..Len(a) PROVE g[1..(k + 1)] = h[1..(k + 1)]
    OBVIOUS
  <2>1. k \in 0..Len(a) /\ k + 1 \in 1..Len(a) /\ k + 1 \in 1..Len(b) /\ (k + 1) - 1 = k
    BY <1>0 DEF Begins
  <2>2. g[1..k] = h[1..k] /\ a[k + 1] = b[k + 1]
    BY <2>1, <1>2 DEF Begins
  <2>3. g[1..(k + 1)] = Append1(g[1..k], a[k + 1]) /\ h[1..(k + 1)] = Append1(h[1..k], b[k + 1])
    BY <2>1 DEF Collects
  <2> QED BY <2>2, <2>3
<1> HIDE DEF P
<1>3. Nat \subseteq P
  BY <1>1, <1>2, NatSet
<1> QED BY <1>3, <1>0 DEF P

(* Collecting one more item adds that item.                                *)
LEMMA TokensAppend ==
    ASSUME NEW items \in Seq(Item), NEW x \in Item
    PROVE  /\ Tokens(Append(items, x)) = Append1(Tokens(items), x)
           /\ Tokens(items) \in Collected
<1> DEFINE n == Len(items)
           b == Append(items, x)
<1>1. /\ n \in Nat /\ b \in Seq(Item) /\ Len(b) = n + 1 /\ b[n + 1] = x
      /\ \A i \in 1..n : items[i] = b[i]
  BY SeqFacts, AppendProperties
<1>2. PICK g : Collects(g, items) /\ Tokens(items) = g[1..n]
  BY TokensRuns
<1> HIDE DEF b
<1>3. PICK h : Collects(h, b) /\ Tokens(b) = h[1..(n + 1)]
  BY <1>1, TokensRuns
<1>4. g[1..n] = h[1..n]
  <2>0. Begins(items, b)
    BY <1>1 DEF Begins
  <2>1. \A k \in 0..Len(items) : g[1..k] = h[1..k]
    BY <2>0, <1>1, <1>2, <1>3, CollectsAgree
  <2> QED BY <2>1, <1>1
<1>5. h[1..(n + 1)] = Append1(h[1..n], x)
  <2>1. n + 1 \in 1..Len(b) /\ (n + 1) - 1 = n
    BY <1>1
  <2> QED BY <2>1, <1>1, <1>3 DEF Collects
<1>6. g[1..n] \in Collected
  <2>1. n \in 0..Len(items)
    BY <1>1
  <2> QED BY <2>1, <1>2 DEF Collects
<1> QED BY <1>2, <1>3, <1>4, <1>5, <1>6 DEF b

(* No items, no tokens.                                                    *)
LEMMA TokensEmpty == Tokens(<<>>) = NoTokens
<1>1. <<>> \in Seq(Item) /\ Len(<<>>) = 0
  BY EmptySeq
<1>2. PICK g : Collects(g, <<>>) /\ Tokens(<<>>) = g[1..0]
  BY <1>1, TokensRuns
<1> QED BY <1>2 DEF Collects

(* A chunk and an error item are items.                                    *)
IsChunk(text, tool, usage, finish) ==
    text \in Seq(Nat) /\ tool \in BOOLEAN /\ usage \in BOOLEAN /\ finish \in Reasons
Makes(x, text, finish) == x \in Item /\ x.text = text /\ x.finish = finish /\ x.err = None

(* The two ways of making an item: a chunk has the text and the reason it  *)
(* was made with, a failure has no text.                                   *)
LEMMA ItemsMade ==
    /\ \A text, tool, usage, finish :
          IsChunk(text, tool, usage, finish) => Makes(Chunk(text, tool, usage, finish), text, finish)
    /\ \A kind \in Kinds : Failed(kind) \in Item /\ Failed(kind).text = <<>>
<1>1. <<>> \in Seq(Nat) /\ None \in Reasons
  BY EmptySeq DEF Reasons
<1> QED BY <1>1 DEF Chunk, Failed, Item, IsChunk, Makes

(* Every reason a provider gives becomes one the consumer knows.           *)
LEMMA ReasonsKnown ==
    \A s : /\ MapFinishReason(s) \in Reasons \ {None}
           /\ MapStopReason(s) \in Reasons \ {None}
           /\ MapFinish(s) \in Reasons \ {None}
<1> TAKE s
<1>1. MapFinishReason(s) \in {"Stop", "Length", "ToolCalls", "ContentFilter"}
  BY DEF MapFinishReason
<1>2. MapStopReason(s) \in {"Stop", "Length", "ToolCalls", "ContentFilter"}
  BY DEF MapStopReason
<1>3. MapFinish(s) \in {"Stop", "Length", "ToolCalls", "ContentFilter"}
  BY DEF MapFinish
<1>4. {"Stop", "Length", "ToolCalls", "ContentFilter"} \subseteq Reasons \ {None}
  BY DEF Reasons, None
<1> QED BY <1>1, <1>2, <1>3, <1>4

(* The reason taken from a list of choices is one of the reasons there     *)
(* are.                                                                    *)
LEMMA LastReasonsKnown ==
    \A choices : LastChoiceFinish(choices) \in Reasons /\ LastGivenFinish(choices) \in Reasons
<1>1. None \in Reasons
  BY DEF Reasons
<1> QED BY <1>1, ReasonsKnown DEF LastChoiceFinish, LastGivenFinish

(* The text of one choice, and of a second one that has none.              *)
OneChoice(t, f) == <<Choice(t, f)>>
TwoChoices(t, f, g) == <<Choice(t, f), Choice(<<>>, g)>>

(* The text of an event is the text of its first choice.                   *)
LEMMA ChoicesText ==
    /\ ChoiceText(<<>>) = <<>>
    /\ \A t \in Seq(Nat) : \A f, g :
          ChoiceText(OneChoice(t, f)) = t /\ ChoiceText(TwoChoices(t, f, g)) = t
<1> SUFFICES ASSUME NEW t \in Seq(Nat), NEW f, NEW g
             PROVE  /\ ChoiceText(<<>>) = <<>>
                    /\ ChoiceText(<<Choice(t, f)>>) = t
                    /\ ChoiceText(<<Choice(t, f), Choice(<<>>, g)>>) = t
  <2>1. <<>> \in Seq(Nat)
    BY EmptySeq
  <2> QED BY <2>1 DEF OneChoice, TwoChoices
<1>0. <<>> \in Seq(Nat) /\ <<>> \in Seq(Seq(Nat)) /\ Len(<<>>) = 0
  BY EmptySeq
<1>1. ChoiceText(<<>>) = <<>>
  <2>1. [i \in 1..Len(<<>>) |-> <<>>[i].text] = <<>>
    BY <1>0
  <2> QED BY <2>1, FlattenEmpty DEF ChoiceText
<1>2. FlattenSeq(<<t>>) = t
  <2>1. Append(<<>>, t) = <<t>>
    OBVIOUS
  <2>2. FlattenSeq(Append(<<>>, t)) = FlattenSeq(<<>>) \o t
    BY <1>0, FlattenAppend
  <2>3. <<>> \o t = t
    BY ConcatEmptySeq
  <2> QED BY <2>1, <2>2, <2>3, FlattenEmpty
<1>3. FlattenSeq(<<t, <<>> >>) = t
  <2> DEFINE none == <<>>
  <2>0. <<t>> \in Seq(Seq(Nat)) /\ none = <<>>
    OBVIOUS
  <2>1. Append(<<t>>, none) = <<t, none>>
    <3> DEFINE p == <<t, none>>
               q == <<t>>
    <3>1. none \in Seq(Nat)
      BY <1>0
    <3> HIDE DEF none
    <3>2. p \in Seq(Seq(Nat)) /\ q \in Seq(Seq(Nat))
      BY <3>1
    <3>3. Len(p) = 2 /\ Len(q) = 1 /\ p[1] = q[1] /\ p[2] = none
      OBVIOUS
    <3> HIDE DEF p, q
    <3>4. Len(p) = Len(q) + 1 /\ p[Len(q) + 1] = none /\ \A i \in 1..Len(q) : p[i] = q[i]
      BY <3>3
    <3>5. p = Append(q, none)
      BY <3>1, <3>2, <3>4, IsAppended
    <3> QED BY <3>5 DEF p, q
  <2>2. FlattenSeq(Append(<<t>>, <<>>)) = FlattenSeq(<<t>>) \o <<>>
    BY <1>0, <2>0, FlattenAppend
  <2>3. t \o <<>> = t
    BY ConcatEmptySeq
  <2> QED BY <2>1, <2>2, <2>3, <1>2
<1>4. ChoiceText(<<Choice(t, f)>>) = FlattenSeq(<<t>>)
  <2> DEFINE c == <<Choice(t, f)>>
             q == [i \in 1..Len(c) |-> c[i].text]
  <2>1. Len(c) = 1 /\ c[1].text = t
    BY DEF Choice
  <2>2. q = <<t>>
    BY <2>1
  <2> QED BY <2>2 DEF ChoiceText
<1>5. ChoiceText(<<Choice(t, f), Choice(<<>>, g)>>) = FlattenSeq(<<t, <<>> >>)
  <2> DEFINE c == <<Choice(t, f), Choice(<<>>, g)>>
             q == [i \in 1..Len(c) |-> c[i].text]
  <2>1. Len(c) = 2 /\ c[1].text = t /\ c[2].text = <<>>
    BY DEF Choice
  <2> HIDE DEF c
  <2>2. q = <<t, <<>> >>
    BY <2>1
  <2> QED BY <2>2 DEF ChoiceText, c
<1> QED BY <1>1, <1>2, <1>3, <1>4, <1>5

(* An event's text is what its item holds.                                 *)
Carries(l, text) ==
    /\ text \in Seq(Nat)
    /\ \/ l = <<>> /\ text = <<>>
       \/ \E x \in Item : l = <<x>> /\ x.text = text

(* Pieces of OpenAI and Gemini.                                            *)
LEMMA PiecesText ==
    ASSUME NEW api, NEW n \in Nat, NEW e \in Pieces(api, n)
    PROVE  /\ e.kind = "chunk" /\ e.tool = FALSE /\ e.usage \in BOOLEAN
           /\ ChoiceText(e.choices) \in Seq(Nat)
<1> DEFINE Piece(c) == Event("chunk", c, FALSE, c = <<>>)
<1>0. <<n>> \in Seq(Nat) /\ <<>> \in Seq(Nat)
  OBVIOUS
<1>1. ASSUME NEW c, e = Piece(c)
      PROVE  e.kind = "chunk" /\ e.tool = FALSE /\ e.usage \in BOOLEAN /\ e.choices = c
  BY <1>1 DEF Event
<1>2. \/ e = Piece(<<>>)
      \/ \E f : e = Piece(OneChoice(<<n>>, f))
      \/ \E f : e = Piece(TwoChoices(<<n>>, f, None))
  BY DEF Pieces, OneChoice, TwoChoices
<1> DEFINE one == <<n>>
<1> HIDE DEF Piece
<1>3. \E c : e = Piece(c) /\ ChoiceText(c) \in Seq(Nat)
  <2>1. one \in Seq(Nat)
    BY <1>0
  <2>2. \/ e = Piece(<<>>)
        \/ \E f : e = Piece(OneChoice(one, f))
        \/ \E f : e = Piece(TwoChoices(one, f, None))
    BY <1>2
  <2> HIDE DEF one
  <2>3. CASE e = Piece(<<>>)
    BY <2>3, <1>0, ChoicesText
  <2>4. ASSUME NEW f, e = Piece(OneChoice(one, f))
        PROVE \E c : e = Piece(c) /\ ChoiceText(c) \in Seq(Nat)
    BY <2>4, <2>1, ChoicesText
  <2>5. ASSUME NEW f, e = Piece(TwoChoices(one, f, None))
        PROVE \E c : e = Piece(c) /\ ChoiceText(c) \in Seq(Nat)
    BY <2>5, <2>1, ChoicesText
  <2> QED BY <2>2, <2>3, <2>4, <2>5
<1> QED BY <1>1, <1>3

(* Whatever the provider, the items an event is lifted to carry the text   *)
(* of the event and nothing else.                                          *)
LEMMA LiftText ==
    ASSUME NEW api \in TextApis, NEW n \in Nat, NEW e \in ProviderEvents(api, n)
    PROVE  Carries(Lift(api, e), ChoiceText(e.choices))
<1>0. <<>> \in Seq(Nat) /\ <<n>> \in Seq(Nat) /\ "Internal" \in Kinds /\ None \in Reasons
  BY DEF Kinds, Reasons
<1>k. "chunk" # "done" /\ "chunk" # "bad" /\ "chunk" # "empty"
  OBVIOUS
<1>1. CASE api = "anthropic"
  <2>0. Lift(api, e) = LiftAnthropicEvent(e)
    BY <1>1 DEF Lift, OpenAiApis, GeminiApis
  <2>1. ASSUME NEW k \in {"ping", "start", "block", "json", "bad", "error", "done"},
               e = Event(k, <<Choice(<<>>, None)>>, FALSE, FALSE)
        PROVE  Carries(Lift(api, e), ChoiceText(e.choices))
    <3>0. e.kind = k /\ e.choices = OneChoice(<<>>, None)
      BY <2>1 DEF Event, OneChoice
    <3>1. e.kind = k /\ ChoiceText(e.choices) = <<>>
      BY <3>0, <1>0, ChoicesText
    <3>2. \/ LiftAnthropicEvent(e) = <<>>
          \/ LiftAnthropicEvent(e) = <<Failed("Internal")>>
          \/ LiftAnthropicEvent(e) = <<Chunk(<<>>, TRUE, FALSE, None)>>
          \/ LiftAnthropicEvent(e) = <<Chunk(<<>>, FALSE, FALSE, "Stop")>>
      BY <3>1 DEF LiftAnthropicEvent
    <3>3. "Stop" \in Reasons
      BY DEF Reasons
    <3>4. IsChunk(<<>>, TRUE, FALSE, None) /\ IsChunk(<<>>, FALSE, FALSE, "Stop")
      BY <3>3, <1>0 DEF IsChunk
    <3>5. /\ Makes(Chunk(<<>>, TRUE, FALSE, None), <<>>, None)
          /\ Makes(Chunk(<<>>, FALSE, FALSE, "Stop"), <<>>, "Stop")
      BY <3>4, ItemsMade
    <3>6. Failed("Internal") \in Item /\ Failed("Internal").text = <<>>
      BY <1>0, ItemsMade
    <3> QED BY <3>1, <3>2, <3>5, <3>6, <2>0, <1>0 DEF Carries, Makes
  <2>2. ASSUME e = Event("text", <<Choice(<<n>>, None)>>, FALSE, FALSE)
        PROVE  Carries(Lift(api, e), ChoiceText(e.choices))
    <3>0. e.kind = "text" /\ e.choices = OneChoice(<<n>>, None) /\ e.choices[1].text = <<n>>
      BY <2>2 DEF Event, Choice, OneChoice
    <3>1. e.kind = "text" /\ ChoiceText(e.choices) = <<n>> /\ e.choices[1].text = <<n>>
      BY <3>0, <1>0, ChoicesText
    <3>2. LiftAnthropicEvent(e) = <<Chunk(<<n>>, FALSE, FALSE, None)>>
      BY <3>1 DEF LiftAnthropicEvent
    <3>3. Makes(Chunk(<<n>>, FALSE, FALSE, None), <<n>>, None)
      <4>1. IsChunk(<<n>>, FALSE, FALSE, None)
        BY <1>0 DEF IsChunk
      <4> QED BY <4>1, ItemsMade
    <3> QED BY <3>1, <3>2, <3>3, <2>0, <1>0 DEF Carries, Makes
  <2>3. ASSUME NEW f, e = Event("delta", <<Choice(<<>>, f)>>, FALSE, TRUE)
        PROVE  Carries(Lift(api, e), ChoiceText(e.choices))
    <3> DEFINE r == IF e.choices[1].finish = None THEN None ELSE MapStopReason(e.choices[1].finish)
    <3>0. e.kind = "delta" /\ e.choices = OneChoice(<<>>, f) /\ e.usage = TRUE
      BY <2>3 DEF Event, OneChoice
    <3>1. e.kind = "delta" /\ ChoiceText(e.choices) = <<>> /\ e.usage = TRUE
      BY <3>0, <1>0, ChoicesText
    <3>2. LiftAnthropicEvent(e) = <<Chunk(<<>>, FALSE, e.usage, r)>>
      BY <3>1 DEF LiftAnthropicEvent
    <3>3. r \in Reasons
      BY <1>0, ReasonsKnown
    <3> HIDE DEF r
    <3>4. Makes(Chunk(<<>>, FALSE, e.usage, r), <<>>, r)
      <4>1. IsChunk(<<>>, FALSE, e.usage, r)
        BY <1>0, <3>1, <3>3 DEF IsChunk
      <4> QED BY <4>1, ItemsMade
    <3> QED BY <3>1, <3>2, <3>4, <2>0, <1>0 DEF Carries, Makes
  <2> QED BY <2>1, <2>2, <2>3, <1>1 DEF ProviderEvents
<1>2. CASE api # "anthropic"
  <2>1. \/ e \in Pieces(api, n)
        \/ e = Event("bad", <<>>, FALSE, FALSE)
        \/ e = Event(IF api \in OpenAiApis THEN "done" ELSE "empty", <<>>, FALSE, FALSE)
    BY <1>2 DEF ProviderEvents
  <2> DEFINE c == e.choices
             x == Chunk(ChoiceText(c), e.tool, e.usage, LastChoiceFinish(c))
             y == Chunk(ChoiceText(c), FALSE, e.usage, LastGivenFinish(c))
  <2>2. \/ api \in OpenAiApis /\ Lift(api, e) = LiftOpenAiChunk(e)
        \/ api \notin OpenAiApis /\ Lift(api, e) = LiftGeminiChunk(e)
    BY <1>2 DEF Lift, TextApis, OpenAiApis, GeminiApis
  <2>3. CASE e \in Pieces(api, n)
    <3>1. /\ e.kind = "chunk" /\ e.tool = FALSE /\ e.usage \in BOOLEAN
          /\ ChoiceText(c) \in Seq(Nat)
      BY <2>3, PiecesText
    <3>2. LiftOpenAiChunk(e) = <<x>> /\ LiftGeminiChunk(e) = <<y>>
      BY <3>1, <1>k DEF LiftOpenAiChunk, LiftGeminiChunk
    <3>3. x \in Item /\ x.text = ChoiceText(c) /\ y \in Item /\ y.text = ChoiceText(c)
      <4>1. /\ IsChunk(ChoiceText(c), e.tool, e.usage, LastChoiceFinish(c))
            /\ IsChunk(ChoiceText(c), FALSE, e.usage, LastGivenFinish(c))
        BY <3>1, LastReasonsKnown DEF IsChunk
      <4>2. Makes(x, ChoiceText(c), LastChoiceFinish(c))
            /\ Makes(y, ChoiceText(c), LastGivenFinish(c))
        BY <4>1, ItemsMade
      <4> HIDE DEF x, y
      <4> QED BY <4>2 DEF Makes
    <3> HIDE DEF x, y, c
    <3>4. Carries(Lift(api, e), ChoiceText(c))
      BY <3>1, <3>2, <3>3, <2>2 DEF Carries
    <3> QED BY <3>4 DEF c
  <2>4. CASE e = Event("bad", <<>>, FALSE, FALSE)
    <3>1. e.kind = "bad" /\ ChoiceText(e.choices) = <<>>
      BY <2>4, <1>0, ChoicesText DEF Event
    <3>2. LiftOpenAiChunk(e) = <<Failed("Internal")>> /\ LiftGeminiChunk(e) = <<Failed("Internal")>>
      BY <3>1 DEF LiftOpenAiChunk, LiftGeminiChunk
    <3> QED BY <3>1, <3>2, <2>2, <1>0, ItemsMade DEF Carries
  <2>5. CASE e = Event(IF api \in OpenAiApis THEN "done" ELSE "empty", <<>>, FALSE, FALSE)
    <3>1. e.kind = (IF api \in OpenAiApis THEN "done" ELSE "empty") /\ ChoiceText(e.choices) = <<>>
      BY <2>5, <1>0, ChoicesText DEF Event
    <3>2. Lift(api, e) = <<>>
      BY <3>1, <2>2 DEF LiftOpenAiChunk, LiftGeminiChunk
    <3> QED BY <3>1, <3>2, <1>0 DEF Carries
  <2> QED BY <2>1, <2>3, <2>4, <2>5
<1> QED BY <1>1, <1>2

(* A whole answer is one chunk with the text of the document and a reason. *)
LEMMA DocumentText ==
    ASSUME NEW api \in TextApis, NEW n \in Nat, NEW e \in Documents(api, n)
    PROVE  /\ ChoiceText(e.choices) \in Seq(Nat)
           /\ \E x \in Item : /\ LiftDocument(api, e) = <<x>> /\ x.text = ChoiceText(e.choices)
                              /\ x.finish # None /\ x.err = None
<1>0. <<>> \in Seq(Nat) /\ <<n>> \in Seq(Nat) /\ None \in Reasons
  BY DEF Reasons
<1>s. \A r \in Reasons : OrStop(r) \in Reasons /\ OrStop(r) # None
  BY DEF OrStop, Reasons, None
<1> DEFINE c == e.choices
           last == IF c[1].finish = None THEN None ELSE MapStopReason(c[1].finish)
           Whole(r) == Chunk(ChoiceText(c), FALSE, e.usage, OrStop(r))
<1>1. e.usage \in BOOLEAN /\ ChoiceText(c) \in Seq(Nat)
  <2>1. CASE api = "anthropic"
    <3>1. PICK f : e = Event("chunk", <<Choice(<<n>>, f)>>, FALSE, TRUE)
      BY <2>1 DEF Documents
    <3>2. e.usage = TRUE /\ c = OneChoice(<<n>>, f)
      BY <3>1 DEF Event, OneChoice
    <3> HIDE DEF c
    <3> QED BY <3>2, <1>0, ChoicesText
  <2>2. CASE api # "anthropic"
    BY <2>2, PiecesText DEF Documents
  <2> QED BY <2>1, <2>2
<1>2. last \in Reasons
  BY <1>0, ReasonsKnown
<1>3. \/ LiftDocument(api, e) = <<Whole(LastChoiceFinish(c))>>
      \/ LiftDocument(api, e) = <<Whole(last)>>
      \/ LiftDocument(api, e) = <<Whole(LastGivenFinish(c))>>
  BY DEF LiftDocument, TextApis, OpenAiApis, GeminiApis, OpenAiDocument, AnthropicDocument,
      GeminiDocument
<1>4. ASSUME NEW r \in Reasons
      PROVE  /\ Whole(r) \in Item /\ Whole(r).text = ChoiceText(c)
             /\ Whole(r).finish # None /\ Whole(r).err = None
  <2>1. IsChunk(ChoiceText(c), FALSE, e.usage, OrStop(r))
    BY <1>1, <1>s DEF IsChunk
  <2>2. Makes(Whole(r), ChoiceText(c), OrStop(r))
    BY <2>1, ItemsMade
  <2> HIDE DEF Whole
  <2> QED BY <2>2, <1>s DEF Makes
<1> HIDE DEF Whole, last
<1> QED BY <1>1, <1>2, <1>3, <1>4, LastReasonsKnown

(* What a provider may send, and the text of what it has sent.             *)
TextEvents == UNION {ProviderEvents(api, n) \cup Documents(api, n) : api \in TextApis, n \in Nat}
TextsOf(given) == [i \in 1..Len(given) |-> ChoiceText(given[i].choices)]
TextOf(given) == FlattenSeq(TextsOf(given))

(* The text of an event is a sequence.                                     *)
LEMMA EventsHaveText ==
    ASSUME NEW e \in TextEvents
    PROVE  ChoiceText(e.choices) \in Seq(Nat)
<1>1. PICK api \in TextApis, n \in Nat : e \in ProviderEvents(api, n) \cup Documents(api, n)
  BY DEF TextEvents
<1>2. CASE e \in ProviderEvents(api, n)
  BY <1>2, LiftText DEF Carries
<1>3. CASE e \in Documents(api, n)
  BY <1>3, DocumentText
<1> QED BY <1>1, <1>2, <1>3

(* So is the text of each event of a list.                                 *)
LEMMA TextsAreSeqs ==
    ASSUME NEW given \in Seq(TextEvents)
    PROVE  TextsOf(given) \in Seq(Seq(Nat)) /\ Len(TextsOf(given)) = Len(given)
<1>1. Len(given) \in Nat /\ \A i \in 1..Len(given) : ChoiceText(given[i].choices) \in Seq(Nat)
  BY SeqFacts, EventsHaveText
<1> QED BY <1>1 DEF TextsOf

(* The text of one more event is appended.                                 *)
LEMMA TextAppend ==
    ASSUME NEW given \in Seq(TextEvents), NEW e \in TextEvents
    PROVE  /\ TextOf(Append(given, e)) = TextOf(given) \o ChoiceText(e.choices)
           /\ TextOf(given) \in Seq(Nat)
<1> DEFINE n == Len(given)
           a == Append(given, e)
           p == TextsOf(a)
           q == TextsOf(given)
           t == ChoiceText(e.choices)
<1>1. n \in Nat /\ a \in Seq(TextEvents) /\ Len(a) = n + 1 /\ a[n + 1] = e /\ \A i \in 1..n : a[i] = given[i]
  BY SeqFacts, AppendProperties
<1> HIDE DEF a
<1>2. p \in Seq(Seq(Nat)) /\ Len(p) = n + 1 /\ q \in Seq(Seq(Nat)) /\ Len(q) = n /\ t \in Seq(Nat)
  BY <1>1, TextsAreSeqs, EventsHaveText
<1>3. \A i \in 1..n : p[i] = q[i]
  <2>1. \A i \in 1..n : i \in 1..(n + 1)
    BY <1>1
  <2> QED BY <2>1, <1>1 DEF TextsOf
<1>4. p[n + 1] = t
  <2>1. n + 1 \in 1..(n + 1)
    BY <1>1
  <2> QED BY <2>1, <1>1 DEF TextsOf
<1> HIDE DEF p, q, t
<1>5. p = Append(q, t)
  BY <1>2, <1>3, <1>4, IsAppended
<1>6. FlattenSeq(Append(q, t)) = FlattenSeq(q) \o t /\ FlattenSeq(q) \in Seq(Nat)
  BY <1>2, FlattenAppend
<1> QED BY <1>5, <1>6 DEF TextOf, p, q, t, a

(* No events, no text.                                                     *)
LEMMA TextEmpty == TextOf(<<>>) = <<>>
<1>1. TextsOf(<<>>) = <<>>
  BY EmptySeq DEF TextsOf
<1> QED BY <1>1, FlattenEmpty DEF TextOf

-----------------------------------------------------------------------------
(* What has gone out is the text that was given; only the last item may be *)
(* an error.                                                               *)
Sound(out) == \A i \in 1..Len(out) : out[i].err = None
Told(given, out) ==
    /\ out \in Seq(Item) /\ given \in Seq(TextEvents)
    /\ Tokens(out).text = TextOf(given)
    /\ \A i \in 1..(Len(out) - 1) : out[i].err = None

(* Before the first event nothing was to be told.                          *)
LEMMA ToldNothing == Told(<<>>, <<>>) /\ Sound(<<>>)
<1>1. <<>> \in Seq(Item) /\ <<>> \in Seq(TextEvents) /\ Len(<<>>) = 0
  BY EmptySeq
<1>2. 1..0 = {} /\ 1..(0 - 1) = {}
  OBVIOUS
<1>3. Tokens(<<>>).text = <<>>
  BY TokensEmpty DEF NoTokens
<1> QED BY <1>1, <1>2, <1>3, TextEmpty DEF Told, Sound

(* One item more behind a sound stream.                                    *)
LEMMA ToldItem ==
    ASSUME NEW out \in Seq(Item), NEW x \in Item, Sound(out)
    PROVE  /\ Append(out, x) \in Seq(Item)
           /\ Tokens(Append(out, x)).text = Tokens(out).text \o x.text
           /\ \A i \in 1..(Len(Append(out, x)) - 1) : Append(out, x)[i].err = None
           /\ x.err = None => Sound(Append(out, x))
<1> DEFINE n == Len(out)
           a == Append(out, x)
<1>1. n \in Nat /\ a \in Seq(Item) /\ Len(a) = n + 1 /\ a[n + 1] = x /\ \A i \in 1..n : a[i] = out[i]
  BY SeqFacts, AppendProperties
<1>2. Tokens(a).text = Tokens(out).text \o x.text
  <2>1. Tokens(a) = Append1(Tokens(out), x)
    BY TokensAppend
  <2>2. Append1(Tokens(out), x).text = Tokens(out).text \o x.text
    BY DEF Append1
  <2> QED BY <2>1, <2>2
<1> HIDE DEF a
<1>3. (n + 1) - 1 = n /\ \A i \in 1..(n + 1) : i \in 1..n \/ i = n + 1
  BY <1>1
<1> QED BY <1>1, <1>2, <1>3 DEF Sound, a

(* Passing on the items of one more event keeps what was told complete,    *)
(* and keeps it sound when the items do not start with an error.           *)
LEMMA ToldMore ==
    ASSUME NEW given, NEW out, Told(given, out), Sound(out), NEW e \in TextEvents,
           NEW l, Carries(l, ChoiceText(e.choices))
    PROVE  /\ Told(Append(given, e), out \o l)
           /\ l = <<>> \/ l[1].err = None => Sound(out \o l)
<1> DEFINE t == ChoiceText(e.choices)
<1>1. out \in Seq(Item) /\ given \in Seq(TextEvents) /\ Tokens(out).text = TextOf(given)
  BY DEF Told
<1>2. Append(given, e) \in Seq(TextEvents) /\ TextOf(Append(given, e)) = TextOf(given) \o t
      /\ TextOf(given) \in Seq(Nat)
  BY <1>1, TextAppend, AppendProperties
<1>c. Carries(l, t)
  OBVIOUS
<1> HIDE DEF t
<1>3. CASE l = <<>> /\ t = <<>>
  <2>1. out \o l = out /\ TextOf(given) \o t = TextOf(given)
    BY <1>1, <1>2, <1>3, ConcatEmptySeq
  <2> QED BY <2>1, <1>1, <1>2 DEF Told
<1>4. ASSUME NEW x \in Item, l = <<x>>, x.text = t
      PROVE  Told(Append(given, e), out \o l) /\ (l = <<>> \/ l[1].err = None => Sound(out \o l))
  <2>1. out \o l = Append(out, x) /\ l # <<>> /\ l[1] = x
    BY <1>4, <1>1
  <2> DEFINE a == Append(out, x)
  <2>2. /\ a \in Seq(Item)
        /\ Tokens(a).text = Tokens(out).text \o x.text
        /\ \A i \in 1..(Len(a) - 1) : a[i].err = None
        /\ x.err = None => Sound(a)
    BY <1>1, ToldItem
  <2> HIDE DEF a
  <2>3. out \o l = a
    BY <2>1 DEF a
  <2> QED BY <2>1, <2>2, <2>3, <1>1, <1>2, <1>4 DEF Told
<1> QED BY <1>3, <1>4, <1>c DEF Carries

(* A connection that breaks adds an error and no text.                     *)
LEMMA ToldBroken ==
    ASSUME NEW given, NEW out, Told(given, out), Sound(out)
    PROVE  Told(given, Append(out, Failed("NetworkError")))
<1> DEFINE x == Failed("NetworkError")
           a == Append(out, x)
<1>1. x \in Item /\ x.text = <<>>
  BY ItemsMade DEF Kinds
<1> HIDE DEF x
<1>2. out \in Seq(Item) /\ given \in Seq(TextEvents) /\ Tokens(out).text = TextOf(given)
  BY DEF Told
<1>3. Tokens(out).text \in Seq(Nat)
  BY <1>1, <1>2, TokensAppend DEF Collected
<1>4. /\ a \in Seq(Item) /\ Tokens(a).text = Tokens(out).text \o x.text
      /\ \A i \in 1..(Len(a) - 1) : a[i].err = None
  BY <1>1, <1>2, ToldItem
<1>5. Tokens(a).text = TextOf(given)
  BY <1>1, <1>2, <1>3, <1>4, ConcatEmptySeq
<1> HIDE DEF a
<1>6. Told(given, a)
  BY <1>2, <1>4, <1>5 DEF Told
<1> QED BY <1>6 DEF a, x

(* A whole answer.                                                         *)
LEMMA ToldWhole ==
    ASSUME NEW e \in TextEvents, NEW x \in Item, x.text = ChoiceText(e.choices), x.finish # None
    PROVE  Told(<<e>>, <<x>>) /\ Tokens(<<x>>).finish # None
<1>1. <<e>> = Append(<<>>, e) /\ <<x>> = Append(<<>>, x) /\ <<>> \o <<x>> = <<x>>
  OBVIOUS
<1>2. Carries(<<x>>, ChoiceText(e.choices))
  BY EventsHaveText DEF Carries
<1>3. Told(Append(<<>>, e), <<>> \o <<x>>)
  BY <1>2, ToldNothing, ToldMore
<1>4. <<>> \in Seq(Item)
  BY EmptySeq
<1>5. Tokens(Append(<<>>, x)) = Append1(Tokens(<<>>), x)
  BY <1>4, TokensAppend
<1>6. Append1(Tokens(<<>>), x).finish = x.finish
  BY DEF Append1
<1> QED BY <1>1, <1>3, <1>5, <1>6

(***************************************************************************)
(* The text of an HTTP call: nothing before the answer begins, then what   *)
(* the provider has sent, and a reason with an answer that came whole.     *)
(***************************************************************************)
TextInv ==
    /\ call.events \in Nat
    /\ call.phase \in {"new", "client", "auth", "sent"} => call.out = <<>> /\ call.given = <<>>
    /\ call.phase = "streaming" => call.api \in TextApis /\ call.batch.stream /\ Sound(call.out)
    /\ call.api \in TextApis => Told(call.given, call.out)
    /\ call.api \in TextApis /\ call.phase = "ended" /\ ~call.batch.stream /\ call.err = None =>
          Tokens(call.out).finish # None

(* Every event and every document a provider may send is an event.         *)
LEMMA EventsAre ==
    ASSUME NEW api \in TextApis, NEW n \in Nat
    PROVE  ProviderEvents(api, n) \subseteq TextEvents /\ Documents(api, n) \subseteq TextEvents
<1> DEFINE E(a, k) == ProviderEvents(a, k) \cup Documents(a, k)
<1>1. TextEvents = UNION {E(a, k) : a \in TextApis, k \in Nat}
  BY DEF TextEvents
<1>2. ProviderEvents(api, n) \subseteq E(api, n) /\ Documents(api, n) \subseteq E(api, n)
  OBVIOUS
<1> HIDE DEF E
<1> QED BY <1>1, <1>2

(* Every step of an HTTP runner keeps the text it has passed on whole.     *)
LEMMA TextKept ==
    ASSUME CallInv, TextInv, Next \/ UNCHANGED vars
    PROVE  TextInv'
<1>1. CASE call' = call
  BY <1>1 DEF TextInv
<1>2. ASSUME NEW api, NEW b, Asks(call, call', api, b) PROVE TextInv'
  BY <1>2, ToldNothing DEF TextInv, Asks
<1>3. ASSUME NEW api \in SpeechApis, NEW b, Speaks(call, call', api, b) PROVE TextInv'
  BY <1>3, ApisApart DEF TextInv, Speaks
<1>4. CASE Proceeds(call, call')
  BY <1>4, ToldNothing DEF TextInv, Proceeds, Keeps
<1>5. CASE StreamBegins(call, call')
  BY <1>5, ToldNothing DEF TextInv, StreamBegins, Keeps
<1>6. CASE Fails(call, call')
  BY <1>6 DEF TextInv, Fails, Keeps
<1>7. CASE Closes(call, call')
  <2>1. "clone_voice" \notin TextApis
    BY DEF TextApis
  <2> QED BY <2>1, <1>7 DEF TextInv, Closes, Keeps
<1>8. ASSUME NEW e \in ProviderEvents(call.api, call.events + 1), Hears(call, call', e)
      PROVE TextInv'
  <2>1. /\ call.api \in TextApis /\ call.batch.stream /\ Sound(call.out)
        /\ Told(call.given, call.out)
        /\ call.events \in Nat /\ call.events + 1 \in Nat
    BY <1>8 DEF TextInv, Hears
  <2> DEFINE l == Lift(call.api, e)
  <2>2. Carries(l, ChoiceText(e.choices))
    BY <2>1, LiftText
  <2>3. e \in TextEvents
    BY <2>1, EventsAre
  <2>4. /\ call'.phase \in {"streaming", "ended"}
        /\ call'.phase = "streaming" => l = <<>> \/ l[1].err = None
        /\ call'.api = call.api /\ call'.batch = call.batch /\ call'.events = call.events + 1
        /\ call'.given = Append(call.given, e) /\ call'.out = call.out \o l
    BY <1>8 DEF Hears
  <2> HIDE DEF l
  <2>5. /\ Told(Append(call.given, e), call.out \o l)
        /\ l = <<>> \/ l[1].err = None => Sound(call.out \o l)
    BY <2>1, <2>2, <2>3, ToldMore
  <2> QED BY <2>1, <2>4, <2>5 DEF TextInv
<1>9. CASE Breaks(call, call')
  <2>1. /\ call.api \in TextApis /\ call.batch.stream /\ Sound(call.out)
        /\ Told(call.given, call.out)
        /\ call.events \in Nat
    BY <1>9 DEF TextInv, Breaks
  <2>2. Told(call.given, Append(call.out, Failed("NetworkError")))
    BY <2>1, ToldBroken
  <2> QED BY <2>1, <2>2, <1>9 DEF TextInv, Breaks
<1>10. ASSUME NEW e \in Documents(call.api, 1), call.api \in TextApis,
              AnswersWhole(call, call', <<e>>, LiftDocument(call.api, e))
       PROVE  TextInv'
  <2>1. PICK x \in Item : /\ LiftDocument(call.api, e) = <<x>> /\ x.text = ChoiceText(e.choices)
                          /\ x.finish # None
    BY <1>10, DocumentText
  <2>2. e \in TextEvents
    BY <1>10, EventsAre
  <2>3. Told(<<e>>, <<x>>) /\ Tokens(<<x>>).finish # None
    BY <2>1, <2>2, ToldWhole
  <2> DEFINE g == <<e>>
             o == <<x>>
  <2>4. AnswersWhole(call, call', g, o) /\ Told(g, o) /\ Tokens(o).finish # None
    BY <1>10, <2>1, <2>3
  <2> HIDE DEF g, o
  <2> QED BY <2>4 DEF TextInv, AnswersWhole
<1>11. ASSUME NEW g, NEW o, call.api \in SpeechApis, AnswersWhole(call, call', g, o) PROVE TextInv'
  BY <1>11, ApisApart DEF TextInv, AnswersWhole
<1>12. {"openai_stt", "openai_tts", "elevenlabs"} \subseteq SpeechApis
  BY DEF SpeechApis
<1> QED
  <2>1. CASE \E a \in Answers : call.api = "openai_stt" /\ AnswersWhole(call, call', <<a>>, TranscriptChunks(call.batch, a))
    BY <2>1, <1>11, <1>12
  <2>2. CASE call.api \in {"openai_tts", "elevenlabs"} /\
             \E total \in 0..5 : AnswersWhole(call, call', <<total>>, Rechunk(total, ChunkBytes))
    BY <2>2, <1>11, <1>12
  <2> QED BY <1>1, <1>2, <1>3, <1>4, <1>5, <1>6, <1>7, <1>8, <1>9, <1>10, <2>1, <2>2,
      AnswerSteps DEF AnswerMove

-----------------------------------------------------------------------------
(* Conversations.  The place of the i-th message among those in K.         *)
Upto(K, i) == {j \in K : j <= i}

Counted(K, i) ==
    /\ Cardinality(Upto(K, i)) \in Nat
    /\ i + 1 \in K => Cardinality(Upto(K, i + 1)) = Cardinality(Upto(K, i)) + 1
    /\ i + 1 \notin K => Cardinality(Upto(K, i + 1)) = Cardinality(Upto(K, i))

(* Counting the kept places up to i: none up to 0, all up to n, and the    *)
(* count grows by one exactly at a kept place.                             *)
LEMMA PlaceStep ==
    ASSUME NEW n \in Nat, NEW K, K \subseteq 1..n, NEW i \in 0..n
    PROVE  /\ Cardinality(Upto(K, 0)) = 0 /\ Cardinality(Upto(K, n)) = Cardinality(K)
           /\ Counted(K, i)
           /\ \A j \in K : j <= i => /\ Cardinality(Upto(K, j)) >= 1
                                     /\ Cardinality(Upto(K, j)) <= Cardinality(Upto(K, i))
<1>1. IsFiniteSet(1..n)
  BY FS_Interval
<1>2. \A j : Upto(K, j) \subseteq 1..n
  BY DEF Upto
<1>3. \A j : IsFiniteSet(Upto(K, j)) /\ Cardinality(Upto(K, j)) \in Nat
  BY <1>1, <1>2, FS_Subset, FS_CardinalityType
<1>0. \A j \in K : j \in Nat /\ j >= 1 /\ j <= n
  OBVIOUS
<1>4. Upto(K, 0) = {} /\ Upto(K, n) = K
  <2>1. \A j \in K : ~(j <= 0)
    BY <1>0
  <2> QED BY <1>0, <2>1 DEF Upto
<1>5. ASSUME i + 1 \in K PROVE Cardinality(Upto(K, i + 1)) = Cardinality(Upto(K, i)) + 1
  <2>1. Upto(K, i + 1) = Upto(K, i) \cup {i + 1} /\ i + 1 \notin Upto(K, i)
    <3>1. \A j \in K : (j <= i + 1 <=> j <= i \/ j = i + 1) /\ (j <= i => j # i + 1)
      BY <1>0
    <3> QED BY <1>5, <3>1 DEF Upto
  <2> QED BY <2>1, <1>3, FS_AddElement
<1>6. ASSUME i + 1 \notin K PROVE Upto(K, i + 1) = Upto(K, i)
  <2>1. \A j \in K : j # i + 1
    BY <1>6
  <2>2. \A j \in K : j <= i + 1 <=> j <= i
    BY <1>0, <2>1
  <2> QED BY <2>2 DEF Upto
<1>7. ASSUME NEW j \in K, j <= i
      PROVE  Cardinality(Upto(K, j)) >= 1 /\ Cardinality(Upto(K, j)) <= Cardinality(Upto(K, i))
  <2>1. {j} \subseteq Upto(K, j) /\ Upto(K, j) \subseteq Upto(K, i)
    <3>1. j <= j /\ \A m \in K : m <= j => m <= i
      BY <1>0, <1>7
    <3> QED BY <1>7, <3>1 DEF Upto
  <2>2. Cardinality({j}) = 1
    BY FS_Singleton
  <2>3. Cardinality({j}) <= Cardinality(Upto(K, j))
        /\ Cardinality(Upto(K, j)) <= Cardinality(Upto(K, i))
    BY <2>1, <1>3, FS_Subset
  <2> QED BY <2>2, <2>3, <1>3
<1> QED BY <1>3, <1>4, <1>5, <1>6, <1>7, FS_EmptySet DEF Counted

(* The loop of from_batch.                                                 *)
Turns(to) == {PushedAs(to, m) : m \in Messages}
Turning(t, messages, to) ==
    /\ t[1..0] = <<>>
    /\ \A k \in 0..Len(messages) : t[1..k] \in Seq(Turns(to))
    /\ \A k \in 1..Len(messages) :
         t[1..k] = IF GoesTo(to, messages[k])
                   THEN Append(t[1..(k - 1)], PushedAs(to, messages[k]))
                   ELSE t[1..(k - 1)]

(* Gathered is the loop over the messages.                                 *)
LEMMA TurnsRun ==
    ASSUME NEW messages \in Seq(Messages), NEW to
    PROVE  \E t : Turning(t, messages, to) /\ Gathered(messages, to) = t[1..Len(messages)]
<1> DEFINE n == Len(messages)
           V == Seq(Turns(to))
           Push(k, i) == IF GoesTo(to, messages[i]) THEN Append(k, PushedAs(to, messages[i])) ELSE k
           Def(d) == [s \in SUBSET (1..n) |-> IF s = {} THEN <<>> ELSE Push(d[s \ {Max(s)}], Max(s))]
           it == CHOOSE d : d = Def(d)
           st == [p \in V \X (1..n) |-> Push(p[1], p[2])]
<1>1. n \in Nat /\ DOMAIN messages = 1..n /\ \A i \in 1..n : messages[i] \in Messages
  BY SeqFacts
<1>2. Gathered(messages, to) = it[1..n]
  BY <1>1 DEF Gathered, FoldLeft, MapThenFoldSet
<1>3. <<>> \in V
  BY EmptySeq
<1>4. ASSUME NEW k \in V, NEW i \in 1..n PROVE Push(k, i) \in V
  <2>1. PushedAs(to, messages[i]) \in Turns(to)
    BY <1>1 DEF Turns
  <2> QED BY <2>1, AppendProperties
<1> HIDE DEF V, Push
<1>5. IsFoldStep(st, V, n) /\ \A k \in V, i \in 1..n : st[<<k, i>>] = Push(k, i)
  BY <1>4 DEF IsFoldStep
<1> HIDE DEF st
<1>6. PICK f : FoldsOver(f, V, n, <<>>, st)
  BY <1>1, <1>3, <1>5, FoldExists
<1>7. f = Def(f)
  <2>1. ASSUME NEW s \in SUBSET (1..n)
        PROVE f[s] = IF s = {} THEN <<>> ELSE Push(f[s \ {Max(s)}], Max(s))
    <3>1. f[s] = FoldStep(f, s, <<>>, st)
      BY <1>6 DEF FoldsOver
    <3>2. CASE s = {}
      BY <3>1, <3>2 DEF FoldStep
    <3>3. CASE s # {}
      <4>1. Max(s) \in 1..n /\ s \ {Max(s)} \in SUBSET (1..n)
        BY <3>3, <1>1, MaxInRange
      <4>2. f[s \ {Max(s)}] \in V
        BY <4>1, <1>6 DEF FoldsOver
      <4> QED BY <4>1, <4>2, <3>1, <3>3, <1>5 DEF FoldStep
    <3> QED BY <3>2, <3>3
  <2>2. f = [s \in SUBSET (1..n) |-> f[s]]
    BY <1>6 DEF FoldsOver
  <2> QED BY <2>1, <2>2
<1>8. it = Def(it)
  <2> HIDE DEF Def
  <2> QED BY <1>7
<1> HIDE DEF it
<1>9. \A s \in SUBSET (1..n) : it[s] = IF s = {} THEN <<>> ELSE Push(it[s \ {Max(s)}], Max(s))
  <2> DEFINE e == Def(it)
  <2>1. \A s \in SUBSET (1..n) : e[s] = IF s = {} THEN <<>> ELSE Push(it[s \ {Max(s)}], Max(s))
    OBVIOUS
  <2>2. e = it
    BY <1>8
  <2> HIDE DEF e
  <2> QED BY <2>1, <2>2
<1>10. FoldLike(it, V, n, <<>>, st)
  <2>1. \A s \in SUBSET (1..n) : s # {} => Max(s) \in 1..n
    BY <1>1, MaxInRange
  <2> QED BY <2>1, <1>5, <1>9 DEF FoldLike
<1>11. Trace(it, V, n, <<>>, st)
  BY <1>1, <1>3, <1>5, <1>10, FoldRuns
<1>12. \A k \in 1..n : it[1..k] = Push(it[1..(k - 1)], k)
  <2>1. \A k \in 1..n : k - 1 \in 0..n
    BY <1>1
  <2> QED BY <2>1, <1>5, <1>11 DEF Trace
<1>13. Turning(it, messages, to)
  BY <1>11, <1>12 DEF Trace, Turning, V, Push
<1> QED BY <1>2, <1>13

(* Everything has its place, and its message's mark and role.              *)
Places(sent, messages, K, to) ==
    \A i \in K : sent[Cardinality(Upto(K, i))] = PushedAs(to, messages[i])

(* The messages that go to the turns, or to the system text, are there,    *)
(* each at its place among them.                                           *)
LEMMA TurnsPlaced ==
    ASSUME NEW messages \in Seq(Messages), NEW to
    PROVE  LET K == {i \in 1..Len(messages) : GoesTo(to, messages[i])}
               sent == Gathered(messages, to)
           IN  Len(sent) = Cardinality(K) /\ Places(sent, messages, K, to)
<1> DEFINE n == Len(messages)
           K == {i \in 1..n : GoesTo(to, messages[i])}
           c(i) == Cardinality(Upto(K, i))
<1>1. n \in Nat /\ K \subseteq 1..n
  BY SeqFacts
<1>2. PICK t : Turning(t, messages, to) /\ Gathered(messages, to) = t[1..n]
  BY TurnsRun
<1>k. \A i \in 1..n : i \in K <=> GoesTo(to, messages[i])
  OBVIOUS
<1> HIDE DEF K
<1>3. \A i \in 0..n : /\ c(i) \in Nat /\ (i + 1 \in K => c(i + 1) = c(i) + 1) /\ (i + 1 \notin K => c(i + 1) = c(i))
                      /\ \A j \in K : j <= i => c(j) >= 1 /\ c(j) <= c(i)
  <2> TAKE i \in 0..n
  <2>1. /\ Cardinality(Upto(K, i)) \in Nat
        /\ i + 1 \in K => Cardinality(Upto(K, i + 1)) = Cardinality(Upto(K, i)) + 1
        /\ i + 1 \notin K => Cardinality(Upto(K, i + 1)) = Cardinality(Upto(K, i))
    <3>1. Counted(K, i)
      BY <1>1, PlaceStep
    <3> QED BY <3>1 DEF Counted
  <2>2. \A j \in K : j <= i => /\ Cardinality(Upto(K, j)) >= 1
                              /\ Cardinality(Upto(K, j)) <= Cardinality(Upto(K, i))
    BY <1>1, PlaceStep
  <2> QED BY <2>1, <2>2
<1>4. c(0) = 0 /\ c(n) = Cardinality(K)
  <2>1. 0 \in 0..n
    BY <1>1
  <2> QED BY <2>1, <1>1, PlaceStep
<1> DEFINE Done(k) == /\ Len(t[1..k]) = c(k)
                      /\ \A i \in K : i <= k => t[1..k][c(i)] = PushedAs(to, messages[i])
           P == {k \in Nat : k \in 0..n => Done(k)}
<1> HIDE DEF c
<1>5. 0 \in P
  <2>1. Len(t[1..0]) = 0
    BY <1>2, EmptySeq DEF Turning
  <2>2. \A i \in K : ~(i <= 0)
    BY <1>1
  <2> QED BY <2>1, <2>2, <1>4
<1>6. ASSUME NEW k \in Nat, k \in P PROVE k + 1 \in P
  <2> SUFFICES ASSUME k + 1 \in 0..n PROVE Done(k + 1)
    OBVIOUS
  <2>1. k \in 0..n /\ k + 1 \in 1..n /\ (k + 1) - 1 = k
    BY <1>1
  <2>2. Done(k)
    BY <2>1, <1>6
  <2> DEFINE a == t[1..k]
             b == t[1..(k + 1)]
             x == PushedAs(to, messages[k + 1])
             S == Turns(to)
  <2>3. a \in Seq(S) /\ b = IF GoesTo(to, messages[k + 1]) THEN Append(a, x) ELSE a
    BY <2>1, <1>2 DEF Turning
  <2>4. Len(a) = c(k) /\ \A i \in K : i <= k => a[c(i)] = PushedAs(to, messages[i])
    BY <2>2
  <2>5. \A i \in K : i <= k + 1 => i <= k \/ i = k + 1
    BY <1>1
  <2> HIDE DEF a, b, S, Done
  <2>6. CASE k + 1 \notin K
    <3>1. b = a /\ c(k + 1) = c(k)
      BY <2>6, <2>3, <2>1, <1>k, <1>3
    <3>2. Len(b) = c(k + 1) /\ \A i \in K : i <= k + 1 => b[c(i)] = PushedAs(to, messages[i])
      BY <3>1, <2>4, <2>5, <2>6
    <3> QED BY <3>2 DEF Done, b
  <2>7. CASE k + 1 \in K
    <3>1. b = Append(a, x) /\ c(k + 1) = c(k) + 1 /\ c(k) \in Nat
      BY <2>7, <2>3, <2>1, <1>k, <1>3
    <3>2. x \in S
      <4>1. messages[k + 1] \in Messages
        BY <2>1, SeqFacts
      <4> QED BY <4>1 DEF Turns, S
    <3> HIDE DEF x
    <3>3. Len(b) = Len(a) + 1 /\ b[Len(a) + 1] = x /\ \A i \in 1..Len(a) : b[i] = a[i]
      <4>1. a \in Seq(S)
        BY <2>3
      <4> DEFINE z == Append(a, x)
      <4>2. Len(z) = Len(a) + 1 /\ z[Len(a) + 1] = x /\ \A i \in 1..Len(a) : z[i] = a[i]
        BY <4>1, <3>2, AppendProperties
      <4> HIDE DEF z
      <4>3. b = z
        BY <3>1 DEF z
      <4> QED BY <4>2, <4>3
    <3>4. Len(b) = c(k + 1) /\ b[c(k + 1)] = x
      BY <3>1, <3>3, <2>4
    <3>5. ASSUME NEW i \in K, i <= k PROVE b[c(i)] = PushedAs(to, messages[i])
      <4>1. c(i) >= 1 /\ c(i) <= c(k) /\ c(i) \in Nat
        <5>1. i \in 0..n
          BY <1>1, <2>1, <3>5
        <5> QED BY <5>1, <3>5, <2>1, <1>3
      <4>2. c(i) \in 1..Len(a)
        BY <4>1, <2>4, <3>1
      <4> QED BY <4>2, <3>3, <3>5, <2>4
    <3>6. \A i \in K : i <= k + 1 => b[c(i)] = PushedAs(to, messages[i])
      BY <3>4, <3>5, <2>5 DEF x
    <3> QED BY <3>4, <3>6 DEF Done, b
  <2> QED BY <2>6, <2>7
<1> HIDE DEF P
<1>7. Nat \subseteq P
  BY <1>5, <1>6, NatSet
<1>8. n \in P /\ n \in 0..n
  BY <1>7, <1>1
<1>9. Done(n)
  BY <1>8 DEF P
<1>10. \A i \in K : i <= n
  BY <1>1
<1>11. Places(t[1..n], messages, K, to)
  BY <1>9, <1>10 DEF Places, c
<1> QED BY <1>2, <1>4, <1>9, <1>11 DEF K

(* What ConversationKept says of one request.                              *)
ConveysTexts(system, messages, K) ==
    /\ Len(system) = Cardinality(K)
    /\ \A i \in K : system[Cardinality(Upto(K, i))] = messages[i].mark
TextsFor(api, messages) ==
    {i \in 1..Len(messages) :
       (api \notin OpenAiApis /\ messages[i].role = "system") /\ ~messages[i].parts}
Conveys(sent, messages, K) ==
    /\ Len(sent) = Cardinality(K)
    /\ \A i \in K :
         /\ sent[Cardinality(Upto(K, i))].mark = messages[i].mark
         /\ (messages[i].role = "assistant") <=> (sent[Cardinality(Upto(K, i))].role \in {"assistant", "model"})
KeptBy(api, messages) ==
    {i \in 1..Len(messages) : ~(api \notin OpenAiApis /\ messages[i].role = "system")}

(* from_batch of every provider passes on every turn and every plain       *)
(* system message.                                                         *)
LEMMA RequestConveys ==
    ASSUME NEW api \in TextApis, NEW messages \in Seq(Messages)
    PROVE  /\ Conveys(FromBatch(api, messages).turns, messages, KeptBy(api, messages))
           /\ ConveysTexts(FromBatch(api, messages).system, messages, TextsFor(api, messages))
<1> DEFINE n == Len(messages)
           K == KeptBy(api, messages)
           X == TextsFor(api, messages)
<1>1. n \in Nat
  BY SeqFacts
<1>2. CASE api \in OpenAiApis
  <2> DEFINE sent == [i \in 1..n |-> [role |-> messages[i].role, mark |-> messages[i].mark]]
  <2>1. FromBatch(api, messages).turns = sent /\ FromBatch(api, messages).system = <<>>
    <3>1. FromBatch(api, messages) = ChatRequest(messages)
      BY <1>2 DEF FromBatch, OpenAiApis, GeminiApis
    <3> QED BY <3>1 DEF ChatRequest
  <2>2. K = 1..n /\ Cardinality(1..n) = n /\ Len(sent) = n
    <3>1. K = 1..n
      BY <1>2 DEF KeptBy
    <3>2. Cardinality(1..n) = n
      BY ONLY SMTT(30), <1>1, FS_Interval
    <3>3. Len(sent) = n
      BY SMTT(30), <1>1
    <3> QED BY <3>1, <3>2, <3>3
  <2>3. ASSUME NEW i \in 1..n PROVE Cardinality(Upto(K, i)) = i
    <3>1. Upto(K, i) = 1..i
      BY <2>2, <1>1 DEF Upto
    <3>2. Cardinality(1..i) = i
      BY FS_Interval
    <3> QED BY <3>1, <3>2
  <2>4. ASSUME NEW i \in 1..n
        PROVE  sent[i].mark = messages[i].mark /\ sent[i].role = messages[i].role
    OBVIOUS
  <2>5. \A i \in 1..n : messages[i].role # "model"
    <3>1. \A i \in 1..n : messages[i] \in Messages
      BY SeqFacts
    <3> QED BY <3>1 DEF Messages, Roles
  <2>x. X = {} /\ Cardinality({}) = 0 /\ Len(<<>>) = 0
    <3>1. X = {}
      BY <1>2 DEF TextsFor
    <3> QED BY <3>1, FS_EmptySet
  <2> HIDE DEF sent, K, X
  <2>6. Conveys(sent, messages, K)
    BY <2>2, <2>3, <2>4, <2>5 DEF Conveys
  <2>7. ConveysTexts(<<>>, messages, X)
    BY <2>x DEF ConveysTexts
  <2> QED BY <2>1, <2>6, <2>7 DEF K, X
<1>3. CASE api \notin OpenAiApis
  <2>1. \E to \in {"assistant", "model"} :
          /\ FromBatch(api, messages).turns = Gathered(messages, to)
          /\ FromBatch(api, messages).system = Gathered(messages, "system")
    BY <1>3 DEF FromBatch, MessagesRequest, GenerateContentRequest, TextApis, OpenAiApis, GeminiApis
  <2>2. PICK to \in {"assistant", "model"} :
          /\ FromBatch(api, messages).turns = Gathered(messages, to)
          /\ FromBatch(api, messages).system = Gathered(messages, "system")
    BY <2>1
  <2> DEFINE sent == Gathered(messages, to)
             text == Gathered(messages, "system")
             L == {i \in 1..n : GoesTo(to, messages[i])}
             Y == {i \in 1..n : GoesTo("system", messages[i])}
  <2>3. /\ Len(sent) = Cardinality(L) /\ Places(sent, messages, L, to)
        /\ Len(text) = Cardinality(Y) /\ Places(text, messages, Y, "system")
    BY TurnsPlaced
  <2>4. K = L /\ X = Y
    <3>1. \A m : /\ GoesTo(to, m) <=> m.role # "system"
                 /\ GoesTo("system", m) <=> m.role = "system" /\ ~m.parts
      BY <2>2 DEF GoesTo
    <3> QED BY <1>3, <3>1 DEF KeptBy, TextsFor
  <2> HIDE DEF sent, text, L, Y, K, X
  <2>5. \A m : /\ PushedAs(to, m).mark = m.mark
               /\ (m.role = "assistant") <=> (PushedAs(to, m).role \in {"assistant", "model"})
               /\ PushedAs("system", m) = m.mark
    BY <2>2 DEF PushedAs, TurnAs
  <2>6. Conveys(sent, messages, L)
    BY <2>3, <2>5 DEF Conveys, Places
  <2>7. ConveysTexts(text, messages, Y)
    BY <2>3, <2>5 DEF ConveysTexts, Places
  <2> QED BY <2>2, <2>4, <2>6, <2>7 DEF sent, text, K, X
<1> QED BY <1>2, <1>3

(* The conversations the run offers are lists of messages.                 *)
LEMMA ConversationsAreMessages == Conversations \subseteq Seq(Messages)
<1>1. \A role \in Roles, parts \in BOOLEAN, mark \in Nat : Message(role, parts, mark) \in Messages
  BY DEF Message, Messages
<1>2. {"system", "user", "assistant", "tool"} \subseteq Roles
  BY DEF Roles
<1> DEFINE a == Message("system", FALSE, 1)
           b == Message("user", FALSE, 2)
           c == Message("system", TRUE, 1)
           d == Message("user", TRUE, 2)
           e == Message("assistant", FALSE, 3)
           f == Message("tool", FALSE, 4)
           g == Message("system", FALSE, 5)
<1>3. {a, b, c, d, e, f, g} \subseteq Messages
  BY <1>2 DEF Message, Messages
<1>4. Conversations = {<<a, b>>, <<c, d, e, f, g>>}
  BY DEF Conversations
<1> HIDE DEF a, b, c, d, e, f, g
<1>5. <<a, b>> \in Seq(Messages) /\ <<c, d, e, f, g>> \in Seq(Messages)
  BY <1>3
<1> QED BY <1>4, <1>5

(* The request of a text call is the one built from its batch.             *)
TalkInv ==
    call.api \in TextApis =>
        /\ call.batch.messages \in Seq(Messages)
        /\ call.request = FromBatch(call.api, call.batch.messages)

(* Every step keeps the conversation that was sent the one that was asked  *)
(* for.                                                                    *)
LEMMA TalkKept ==
    ASSUME CallInv, TalkInv, Next \/ UNCHANGED vars
    PROVE  TalkInv'
<1>1. ASSUME call'.api = call.api, call'.batch = call.batch, call'.request = call.request
      PROVE TalkInv'
  BY <1>1 DEF TalkInv
<1>2. ASSUME NEW api \in TextApis, NEW b \in Batches(api), Asks(call, call', api, b) PROVE TalkInv'
  <2>1. b.messages \in Seq(Messages)
    <3>1. b \in TextBatches
      BY DEF Batches
    <3>2. b.messages \in Conversations
      BY <3>1 DEF TextBatches
    <3> QED BY <3>2, ConversationsAreMessages
  <2> QED BY <2>1, <1>2 DEF TalkInv, Asks
<1>3. ASSUME NEW api \in SpeechApis, NEW b, Speaks(call, call', api, b) PROVE TalkInv'
  BY <1>3, ApisApart DEF TalkInv, Speaks
<1>4. CASE call' = call
  BY <1>4, <1>1
<1>5. CASE Proceeds(call, call') \/ StreamBegins(call, call') \/ Fails(call, call')
           \/ Closes(call, call')
  BY <1>5, <1>1 DEF Proceeds, StreamBegins, Fails, Closes, Keeps
<1>6. ASSUME NEW e, Hears(call, call', e) PROVE TalkInv'
  BY <1>6, <1>1 DEF Hears
<1>7. CASE Breaks(call, call')
  BY <1>7, <1>1 DEF Breaks
<1>8. ASSUME NEW g, NEW o, AnswersWhole(call, call', g, o) PROVE TalkInv'
  BY <1>8, <1>1 DEF AnswersWhole
<1> QED BY <1>2, <1>3, <1>4, <1>5, <1>6, <1>7, <1>8, AnswerSteps DEF AnswerMove

(* Then the conversation arrives whole.                                    *)
LEMMA TalkConveys ==
    ASSUME TalkInv
    PROVE  ConversationKept
<1> SUFFICES ASSUME call.api \in TextApis PROVE ConversationKept
  BY DEF ConversationKept
<1> DEFINE K == KeptBy(call.api, call.batch.messages)
           X == TextsFor(call.api, call.batch.messages)
<1>1. /\ Conveys(call.request.turns, call.batch.messages, K)
      /\ ConveysTexts(call.request.system, call.batch.messages, X)
  BY RequestConveys DEF TalkInv
<1> QED BY <1>1 DEF ConversationKept, Conveys, ConveysTexts, KeptBy, TextsFor, Upto

(* Then the text arrives whole.                                            *)
LEMMA TextInvComplete ==
    ASSUME TextInv
    PROVE  TextComplete
<1> SUFFICES ASSUME call.api \in TextApis PROVE TextComplete
  BY DEF TextComplete
<1>1. Told(call.given, call.out)
  BY DEF TextInv
<1>2. Tokens(call.out).text =
        FlattenSeq([i \in 1..Len(call.given) |->
            FlattenSeq([j \in 1..Len(call.given[i].choices) |-> call.given[i].choices[j].text])])
  BY <1>1 DEF Told, TextOf, TextsOf, ChoiceText
<1>3. \A i \in 1..(Len(call.out) - 1) : call.out[i].err = None
  BY <1>1 DEF Told
<1>4. call.phase = "ended" /\ ~call.batch.stream /\ call.err = None => Tokens(call.out).finish # None
  BY DEF TextInv
<1> QED BY <1>2, <1>3, <1>4 DEF TextComplete

-----------------------------------------------------------------------------
(***************************************************************************)
(* Pieces that lie end to end.  The k-th piece ends at cut[k] of t and     *)
(* holds what t holds from the end of the one before: flattened, they are  *)
(* t.                                                                      *)
(***************************************************************************)
Fits(piece, t, from, to) ==
    /\ from <= to /\ to <= Len(t) /\ Len(piece) = to - from
    /\ \A j \in 1..(to - from) : piece[j] = t[from + j]

(* Pieces that are each the stretch of t between two successive cuts, the  *)
(* last cut at its end, flatten to t.                                      *)
LEMMA FlattenFits ==
    ASSUME NEW X, NEW t \in Seq(X), NEW seqs \in Seq(Seq(X)), NEW cut \in [0..Len(seqs) -> Nat],
           cut[0] = 0, cut[Len(seqs)] = Len(t),
           \A k \in 1..Len(seqs) : Fits(seqs[k], t, cut[k - 1], cut[k])
    PROVE  FlattenSeq(seqs) = t
<1> DEFINE n == Len(seqs)
<1>1. n \in Nat /\ Len(t) \in Nat /\ \A k \in 1..n : seqs[k] \in Seq(X)
  BY SeqFacts
<1>2. PICK g : Flattens(g, seqs, X) /\ FlattenSeq(seqs) = g[n]
  BY FlattenRuns
<1> DEFINE Is(k) == /\ g[k] \in Seq(X) /\ Len(g[k]) = cut[k]
                    /\ \A j \in 1..cut[k] : g[k][j] = t[j]
           P == {k \in Nat : k \in 0..n => Is(k)}
<1>3. 0 \in P
  <2>1. g[0] = <<>> /\ <<>> \in Seq(X) /\ Len(<<>>) = 0 /\ 1..0 = {}
    BY <1>2, EmptySeq DEF Flattens
  <2> QED BY <2>1
<1>4. ASSUME NEW k \in Nat, k \in P PROVE k + 1 \in P
  <2> SUFFICES ASSUME k + 1 \in 0..n PROVE Is(k + 1)
    OBVIOUS
  <2>1. k \in 0..n /\ k + 1 \in 1..n /\ (k + 1) - 1 = k
    BY <1>1
  <2> DEFINE a == g[k]
             b == seqs[k + 1]
             u == cut[k]
             v == cut[k + 1]
             c == a \o b
  <2>2. a \in Seq(X) /\ Len(a) = u /\ \A j \in 1..u : a[j] = t[j]
    BY <2>1, <1>4
  <2>3. b \in Seq(X) /\ g[k + 1] = c
    BY <2>1, <1>1, <1>2 DEF Flattens
  <2>4. Fits(b, t, u, v) /\ u \in Nat /\ v \in Nat
    <3>1. Fits(seqs[k + 1], t, cut[(k + 1) - 1], cut[k + 1])
      BY <2>1
    <3>2. cut[k] \in Nat /\ cut[k + 1] \in Nat
      BY <2>1
    <3>3. cut[(k + 1) - 1] = cut[k]
      BY <2>1
    <3>4. Fits(seqs[k + 1], t, cut[k], cut[k + 1])
      BY <3>1, <3>3
    <3> QED BY <3>2, <3>4
  <2> HIDE DEF a, b, u, v
  <2>p. a \in Seq(X) /\ b \in Seq(X)
    BY <2>2, <2>3
  <2>q. c \in Seq(X) /\ Len(c) = Len(a) + Len(b)
    BY ONLY <2>p, ConcatProperties
  <2>r. \A i \in 1..Len(c) : c[i] = IF i <= Len(a) THEN a[i] ELSE b[i - Len(a)]
    <3>1. \A i \in 1..(Len(a) + Len(b)) : c[i] = IF i <= Len(a) THEN a[i] ELSE b[i - Len(a)]
      BY ONLY <2>p, ConcatProperties
    <3> QED BY ONLY <3>1, <2>q
  <2> HIDE DEF c
  <2>5. /\ c \in Seq(X) /\ Len(c) = Len(a) + Len(b)
        /\ \A i \in 1..Len(c) : c[i] = IF i <= Len(a) THEN a[i] ELSE b[i - Len(a)]
    BY <2>q, <2>r
  <2>6. Len(c) = v
    BY <2>2, <2>4, <2>5 DEF Fits
  <2>7. ASSUME NEW j \in 1..v PROVE c[j] = t[j]
    <3>1. c[j] = IF j <= u THEN a[j] ELSE b[j - u]
      BY <2>2, <2>5, <2>6
    <3>2. CASE j <= u
      <4>1. j \in 1..u
        BY <3>2, <2>4
      <4> QED BY <4>1, <3>1, <3>2, <2>2
    <3>3. CASE ~(j <= u)
      <4>1. j - u \in 1..(v - u) /\ u + (j - u) = j
        BY <3>3, <2>4
      <4>2. b[j - u] = t[u + (j - u)]
        BY <4>1, <2>4 DEF Fits
      <4> QED BY <4>1, <4>2, <3>1, <3>3
    <3> QED BY <3>2, <3>3
  <2> QED BY <2>3, <2>5, <2>6, <2>7 DEF v
<1> HIDE DEF P
<1>s. Nat \subseteq P
  BY <1>3, <1>4, NatSet
<1>5. n \in P /\ n \in 0..n
  BY <1>1, <1>s
<1>6. Is(n)
  BY <1>5 DEF P
<1> DEFINE z == g[n]
<1>7. z \in Seq(X) /\ Len(z) = Len(t) /\ \A j \in 1..Len(t) : z[j] = t[j]
  BY <1>6
<1> HIDE DEF z
<1>8. z = t
  BY <1>7, SeqEqual
<1> QED BY <1>2, <1>8 DEF z

(* A slice holds what it was cut from.                                     *)
LEMMA SliceFits ==
    ASSUME NEW X, NEW t \in Seq(X), NEW from \in Nat, NEW to \in Nat, from <= to, to <= Len(t)
    PROVE  SubSeq(t, from + 1, to) \in Seq(X) /\ Fits(SubSeq(t, from + 1, to), t, from, to)
<1> DEFINE m == from + 1
           z == SubSeq(t, m, to)
<1>0. Len(t) \in Nat /\ m \in Int /\ to \in Int
  BY SeqFacts
<1>1. \A i \in m..to : t[i] \in X
  BY <1>0, SeqFacts
<1> HIDE DEF m
<1>2. z \in Seq(X) /\ Len(z) = IF m <= to THEN to - m + 1 ELSE 0
  BY ONLY <1>0, <1>1, SubSeqProperties
<1>3. \A i \in 1..(to - m + 1) : z[i] = t[m + i - 1]
  BY ONLY <1>0, <1>1, SubSeqProperties
<1> HIDE DEF z
<1>4. Len(z) = to - from
  BY <1>2 DEF m
<1>5. ASSUME NEW j \in 1..(to - from) PROVE z[j] = t[from + j]
  <2>1. j \in 1..(to - m + 1) /\ m + j - 1 = from + j
    BY DEF m
  <2> QED BY <2>1, <1>3
<1> QED BY <1>2, <1>4, <1>5 DEF Fits, z, m

(* Piper's chunks hold the whole waveform, whatever its length and the     *)
(* size of a chunk.                                                        *)
Clamped(pcm) == [i \in 1..Len(pcm) |-> Clamp(pcm[i])]
AudioOf(out) == [i \in 1..Len(out) |-> out[i].audio]

(* Clamping leaves as many samples as there were.                          *)
LEMMA ClampedIsSeq ==
    ASSUME NEW pcm \in Seq(Int)
    PROVE  Clamped(pcm) \in Seq(Int) /\ Len(Clamped(pcm)) = Len(pcm)
<1>1. Len(pcm) \in Nat /\ \A i \in 1..Len(pcm) : pcm[i] \in Int
  BY SeqFacts
<1>2. \A x \in Int : Clamp(x) \in Int
  BY DEF Clamp
<1>3. Clamped(pcm) \in [1..Len(pcm) -> Int]
  BY <1>1, <1>2 DEF Clamped
<1> QED BY <1>1, <1>3, SeqDef, LenOfItems

(* Cutting a waveform into PCM chunks of any size loses no sample and      *)
(* changes none beyond clamping it.                                        *)
LEMMA PcmIsWhole ==
    ASSUME NEW pcm \in Seq(Int), NEW size \in Nat, size # 0
    PROVE  FlattenSeq(AudioOf(PcmChunks(pcm, size))) = Clamped(pcm)
<1> DEFINE out == PcmChunks(pcm, size)
           L == Len(pcm)
<1>0. L \in Nat
  BY SeqFacts
<1>1. CASE pcm = <<>>
  <2> DEFINE one == [final |-> TRUE, audio |-> <<>>]
  <2>1. out = <<one>> /\ one.audio = <<>>
    BY <1>1 DEF PcmChunks
  <2> HIDE DEF one, out
  <2>2. Len(out) = 1 /\ out[1] = one
    BY <2>1
  <2>3. AudioOf(out) = << <<>> >>
    BY <2>1, <2>2 DEF AudioOf
  <2>4. << <<>> >> = Append(<<>>, <<>>) /\ <<>> \in Seq(Int) /\ <<>> \in Seq(Seq(Int))
    OBVIOUS
  <2>5. FlattenSeq(Append(<<>>, <<>>)) = FlattenSeq(<<>>) \o <<>>
    BY <2>4, FlattenAppend
  <2>6. FlattenSeq(AudioOf(out)) = <<>>
    BY <2>3, <2>4, <2>5, FlattenEmpty, ConcatEmptySeq
  <2>7. Clamped(pcm) = <<>>
    BY <1>1, EmptySeq DEF Clamped
  <2> QED BY <2>6, <2>7 DEF out
<1>2. CASE pcm # <<>>
  <2> DEFINE n == (L + size - 1) \div size
             end(i) == IF i * size < L THEN i * size ELSE L
             slice(i) == SubSeq(pcm, (i - 1) * size + 1, end(i))
             audio(i) == [j \in 1..Len(slice(i)) |-> Clamp(slice(i)[j])]
             t == Clamped(pcm)
             seqs == AudioOf(out)
             cut == [i \in 0..n |-> end(i)]
  <2>1. L # 0
    BY <1>2, EmptySeq
  <2>2. n \in Nat /\ n >= 1 /\ n * size >= L /\ (n - 1) * size < L
    BY <2>1, <1>0, SliceCount
  <2>3. out = [i \in 1..n |-> [final |-> i = n, audio |-> audio(i)]]
    BY <1>2 DEF PcmChunks, Slices
  <2>4. t \in Seq(Int) /\ Len(t) = L /\ \A i \in 1..L : t[i] = Clamp(pcm[i])
    BY ClampedIsSeq DEF Clamped
  <2> HIDE DEF n, t
  <2>5. ASSUME NEW i \in 1..n
        PROVE  /\ end(i) \in Nat /\ end(i) <= L /\ end(i) >= (i - 1) * size /\ end(i - 1) = (i - 1) * size
               /\ (i - 1) * size \in Nat
    <3>1. i - 1 \in Nat /\ i - 1 < n /\ (i - 1) + 1 = i
      BY <2>2
    <3>2. (i - 1) * size \in Nat /\ (i - 1) * size <= (n - 1) * size
          /\ (i - 1) * size < ((i - 1) + 1) * size
      BY <3>1, <2>2, MultipleGrows
    <3>3. (n - 1) * size \in Nat /\ i * size \in Nat
      <4>1. n - 1 \in Nat /\ i \in Nat
        BY <2>2
      <4> QED BY <4>1
    <3> DEFINE x == (i - 1) * size
               y == i * size
               w == (n - 1) * size
    <3>4. x \in Nat /\ x <= w /\ x < y /\ w < L /\ w \in Nat /\ y \in Nat
      BY <3>1, <3>2, <3>3, <2>2
    <3> HIDE DEF x, y, w
    <3>5. end(i) = (IF y < L THEN y ELSE L) /\ end(i - 1) = (IF x < L THEN x ELSE L)
      BY DEF x, y
    <3> HIDE DEF end
    <3>6. end(i) \in Nat /\ end(i) <= L /\ end(i) >= x /\ end(i - 1) = x
      BY <3>4, <3>5, <1>0
    <3> QED BY <3>6, <3>4 DEF x
  <2>6. end(0) = 0 /\ end(n) = L
    BY <2>1, <2>2, <1>0
  <2> HIDE DEF end
  <2>7. ASSUME NEW i \in 1..n PROVE audio(i) \in Seq(Int) /\ Fits(audio(i), t, end(i - 1), end(i))
    <3> DEFINE x == (i - 1) * size
               y == end(i)
               s == slice(i)
               m == y - x
    <3>1. x \in Nat /\ y \in Nat /\ y <= L /\ y >= x /\ end(i - 1) = x
      BY <2>5
    <3> HIDE DEF x, y
    <3>2. s = SubSeq(pcm, x + 1, y)
      BY DEF x, y
    <3>3. m \in Nat /\ (y + 1) - (x + 1) = m
      BY <3>1
    <3>4. Len(s) = m /\ \A j \in 1..m : s[j] = pcm[x + j] /\ pcm[x + j] \in Int
      <4>1. Fits(s, pcm, x, y)
        BY <3>1, <3>2, SliceFits
      <4> HIDE DEF s
      <4>2. Len(s) = m /\ \A j \in 1..m : s[j] = pcm[x + j]
        BY <4>1 DEF Fits
      <4>3. ASSUME NEW j \in 1..m PROVE x + j \in 1..L
        BY <3>1, <1>0
      <4> QED BY <4>2, <4>3, SeqFacts
    <3> HIDE DEF s, slice
    <3>5. audio(i) = [j \in 1..m |-> Clamp(s[j])]
      BY <3>4 DEF s
    <3>6. \A z \in Int : Clamp(z) \in Int
      BY DEF Clamp
    <3> HIDE DEF m
    <3>7. audio(i) \in [1..m -> Int]
      BY <3>4, <3>5, <3>6
    <3>8. audio(i) \in Seq(Int) /\ Len(audio(i)) = m
      BY <3>3, <3>7, SeqDef, LenOfItems
    <3>9. \A j \in 1..m : audio(i)[j] = t[x + j]
      <4>1. ASSUME NEW j \in 1..m PROVE x + j \in 1..L
        BY <3>1, <3>3 DEF m
      <4> QED BY ZenonT(60), <4>1, <3>4, <3>5, <2>4
    <3> HIDE DEF audio
    <3>10. Fits(audio(i), t, x, y)
      BY <3>1, <3>8, <3>9, <2>4 DEF Fits, m
    <3> QED BY <3>8, <3>10, <3>1 DEF y
  <2> HIDE DEF audio
  <2>8. Len(out) = n /\ \A i \in 1..n : out[i].audio = audio(i)
    BY <2>2, <2>3, LenOfItems
  <2> HIDE DEF out
  <2>9. seqs = [i \in 1..n |-> audio(i)]
    BY <2>8 DEF AudioOf
  <2>10. seqs \in [1..n -> Seq(Int)]
    BY <2>7, <2>9
  <2>11. seqs \in Seq(Seq(Int)) /\ Len(seqs) = n /\ \A i \in 1..n : seqs[i] = audio(i)
    BY <2>2, <2>9, <2>10, SeqDef, LenOfItems
  <2> HIDE DEF seqs
  <2>12. cut \in [0..n -> Nat] /\ cut[0] = 0 /\ cut[n] = L
    <3>1. \A i \in 0..n : end(i) \in Nat
      <4>1. \A i \in 0..n : i = 0 \/ i \in 1..n
        BY <2>2
      <4> QED BY <4>1, <2>5, <2>6
    <3> QED BY <3>1, <2>2, <2>6
  <2>13. \A k \in 1..n : Fits(seqs[k], t, cut[k - 1], cut[k])
    <3>1. \A k \in 1..n : cut[k - 1] = end(k - 1) /\ cut[k] = end(k)
      BY <2>2
    <3> QED BY <3>1, <2>7, <2>11
  <2> HIDE DEF cut
  <2>14. FlattenSeq(seqs) = t
    BY <2>4, <2>11, <2>12, <2>13, FlattenFits
  <2> QED BY <2>14 DEF seqs, t, out
<1> QED BY <1>1, <1>2

-----------------------------------------------------------------------------
(***************************************************************************)
(* Base64.  Three bytes a, b and c make four symbols of six bits.          *)
(***************************************************************************)
Bytes == 0..255
Six == 0..63
Sym1(a) == a \div 4
Sym2(a, b) == (a % 4) * 16 + b \div 16
Sym3(b, c) == (b % 16) * 4 + c \div 64
Sym4(c) == c % 64
Symbols(a, b, c) == <<Sym1(a), Sym2(a, b), Sym3(b, c), Sym4(c)>>

(* The four symbols of a group are six bits wide.                          *)
LEMMA SymbolsAreSix ==
    ASSUME NEW a \in Bytes, NEW b \in Bytes, NEW c \in Bytes
    PROVE  Sym1(a) \in Six /\ Sym2(a, b) \in Six /\ Sym3(b, c) \in Six /\ Sym4(c) \in Six
<1>1. Sym1(a) \in Six
  BY DEF Sym1, Six, Bytes
<1>2. Sym2(a, b) \in Six
  <2> DEFINE q == a % 4
             r == b \div 16
  <2>1. q \in 0..3 /\ r \in 0..15
    BY DEF Bytes
  <2> HIDE DEF q, r
  <2>2. q * 16 + r \in Six
    BY <2>1 DEF Six
  <2> QED BY <2>2 DEF Sym2, q, r
<1>3. Sym3(b, c) \in Six
  <2> DEFINE q == b % 16
             r == c \div 64
  <2>1. q \in 0..15 /\ r \in 0..3
    BY DEF Bytes
  <2> HIDE DEF q, r
  <2>2. q * 4 + r \in Six
    BY <2>1 DEF Six
  <2> QED BY <2>2 DEF Sym3, q, r
<1>4. Sym4(c) \in Six
  BY DEF Sym4, Six, Bytes
<1> QED BY <1>1, <1>2, <1>3, <1>4

(* The shifts and masks of the encoder, on a group's 24 bits, give the     *)
(* four symbols.                                                           *)
LEMMA SextetValues ==
    ASSUME NEW a \in Bytes, NEW b \in Bytes, NEW c \in Bytes, NEW n, n = a * 65536 + b * 256 + c
    PROVE  /\ n \div 262144 = Sym1(a) /\ (n \div 4096) % 64 = Sym2(a, b)
           /\ (n \div 64) % 64 = Sym3(b, c) /\ n % 64 = Sym4(c)
<1>0. a \in 0..255 /\ b \in 0..255 /\ c \in 0..255
  BY DEF Bytes
<1>1. n \div 262144 = a \div 4
  BY <1>0
<1>2. (n \div 4096) % 64 = (a % 4) * 16 + b \div 16
  <2> DEFINE q == a \div 4
             r == a % 4
             u == b \div 16
             v == b % 16
  <2>1. a = q * 4 + r /\ q \in 0..63 /\ r \in 0..3
    BY <1>0
  <2>2. b = u * 16 + v /\ u \in 0..15 /\ v \in 0..15
    BY <1>0
  <2> HIDE DEF q, r, u, v
  <2> DEFINE w == v * 256 + c
             h == q * 64 + r * 16 + u
  <2>3. w \in 0..4095 /\ h \in Nat
    BY <1>0, <2>1, <2>2
  <2>4. n = h * 4096 + w
    BY <1>0, <2>1, <2>2
  <2> DEFINE l == r * 16 + u
  <2>5. l \in 0..63 /\ h = q * 64 + l
    BY <2>1, <2>2
  <2> HIDE DEF w, h, l
  <2>6. n \div 4096 = h
    <3>1. n \in Nat /\ n >= h * 4096 /\ n < h * 4096 + 4096
      BY ONLY <2>3, <2>4
    <3> DEFINE k == n \div 4096
    <3>2. k \in Nat /\ k * 4096 <= n /\ n < k * 4096 + 4096
      BY <3>1
    <3> HIDE DEF k
    <3>3. k = h
      BY ONLY <3>1, <3>2, <2>3
    <3> QED BY <3>3 DEF k
  <2>7. h % 64 = l
    BY <2>5, <2>1
  <2> QED BY <2>6, <2>7 DEF l, r, u
<1>3. (n \div 64) % 64 = (b % 16) * 4 + c \div 64
  BY <1>0
<1>4. n % 64 = c % 64
  BY <1>0
<1> QED BY <1>1, <1>2, <1>3, <1>4 DEF Sym1, Sym2, Sym3, Sym4

(* The byte at p, zero past the end.                                       *)
ByteAt(bytes, p) == IF p <= Len(bytes) THEN bytes[p] ELSE 0

(* So the encoder writes a group's symbols, the missing bytes of a short   *)
(* group taken as zero.                                                    *)
LEMMA SextetsAre ==
    ASSUME NEW z \in Seq(Bytes), Len(z) >= 1, Len(z) <= 3
    PROVE  /\ Sextets(z) = Symbols(ByteAt(z, 1), ByteAt(z, 2), ByteAt(z, 3))
           /\ ByteAt(z, 1) \in Bytes /\ ByteAt(z, 2) \in Bytes /\ ByteAt(z, 3) \in Bytes
<1> DEFINE a == ByteAt(z, 1)
           b == ByteAt(z, 2)
           c == ByteAt(z, 3)
           n == (IF Len(z) > 0 THEN z[1] * 65536 ELSE 0)
               + (IF Len(z) > 1 THEN z[2] * 256 ELSE 0)
               + (IF Len(z) > 2 THEN z[3] ELSE 0)
<1>l. Len(z) \in Nat /\ \A i \in 1..Len(z) : z[i] \in Bytes
  BY SeqFacts
<1>0. Len(z) \in {1, 2, 3} /\ \A i \in 1..Len(z) : z[i] \in Bytes
  <2> DEFINE k == Len(z)
  <2>2. k \in Nat /\ k >= 1 /\ k <= 3
    BY <1>l
  <2> HIDE DEF k
  <2>3. k \in {1, 2, 3}
    BY ONLY <2>2
  <2>1. Len(z) \in {1, 2, 3}
    BY <2>3 DEF k
  <2> QED BY <2>1, <1>l
<1>1. a \in Bytes /\ b \in Bytes /\ c \in Bytes
  BY <1>0 DEF ByteAt, Bytes
<1>2. n = a * 65536 + b * 256 + c
  BY <1>0, <1>1 DEF ByteAt, Bytes
<1>3. Sextets(z) = <<n \div 262144, (n \div 4096) % 64, (n \div 64) % 64, n % 64>>
  BY DEF Sextets
<1> HIDE DEF n, a, b, c
<1>4. /\ n \div 262144 = Sym1(a) /\ (n \div 4096) % 64 = Sym2(a, b)
      /\ (n \div 64) % 64 = Sym3(b, c) /\ n % 64 = Sym4(c)
  BY <1>1, <1>2, SextetValues
<1>5. Sextets(z) = <<Sym1(a), Sym2(a, b), Sym3(b, c), Sym4(c)>>
  BY <1>3, <1>4
<1> QED BY <1>1, <1>5 DEF Symbols, a, b, c

-----------------------------------------------------------------------------
(* One symbol read: six bits more, and a byte out when eight are there.    *)
Take(acc, v) ==
    LET buf == acc.buf * 64 + v
        bits == acc.bits + 6
    IN  IF bits >= 8
        THEN [buf |-> buf % 2^(bits - 8), bits |-> bits - 8,
              out |-> Append(acc.out, (buf \div 2^(bits - 8)) % 256)]
        ELSE [buf |-> buf, bits |-> bits, out |-> acc.out]

Read(buf, bits, out) == [buf |-> buf, bits |-> bits, out |-> out]
Reader == [buf : Nat, bits : {0, 2, 4, 6}, out : Seq(Bytes)]

(* The powers the decoder shifts by.                                       *)
LEMMA PowersOfTwo == 2^0 = 1 /\ 2^2 = 4 /\ 2^4 = 16
<1>1. 2^0 = 1
  OBVIOUS
<1>2. 2^2 = 4
  OBVIOUS
<1>3. 2^4 = 16
  OBVIOUS
<1> QED BY <1>1, <1>2, <1>3

(* The first symbol of a group fills six bits and gives no byte.           *)
LEMMA TakeFew ==
    ASSUME NEW o, NEW v \in Six
    PROVE  Take(Read(0, 0, o), v) = Read(v, 6, o)
BY DEF Take, Read, Six

Gathers(x, p, left, buf, bits, v) == left = bits - 2 /\ p = 2^left /\ x = buf * 64 + v
Yields(acc, x, p, left, o) == acc = Read(x % p, left, Append(o, (x \div p) % 256))

(* Every other symbol gives one byte and leaves the rest of its bits.      *)
LEMMA TakeMany ==
    ASSUME NEW o, NEW buf \in Nat, NEW bits \in {2, 4, 6}, NEW v \in Six,
           NEW left, NEW p, NEW x, Gathers(x, p, left, buf, bits, v)
    PROVE  Yields(Take(Read(buf, bits, o), v), x, p, left, o)
<1>g. left = bits - 2 /\ p = 2^left /\ x = buf * 64 + v
  BY DEF Gathers
<1> DEFINE acc == Read(buf, bits, o)
<1>1. acc.buf = buf /\ acc.bits = bits /\ acc.out = o
  BY DEF Read
<1> HIDE DEF acc
<1>2. bits + 6 >= 8 /\ (bits + 6) - 8 = left
  BY <1>g
<1>3. Take(acc, v) = [buf |-> (buf * 64 + v) % 2^((bits + 6) - 8), bits |-> (bits + 6) - 8,
                      out |-> Append(o, ((buf * 64 + v) \div 2^((bits + 6) - 8)) % 256)]
  BY <1>1, <1>2 DEF Take
<1>4. 2^((bits + 6) - 8) = p
  BY <1>2, <1>g
<1>5. Take(acc, v) = [buf |-> x % p, bits |-> left, out |-> Append(o, (x \div p) % 256)]
  BY <1>2, <1>3, <1>4, <1>g
<1> QED BY <1>5 DEF Read, acc, Yields

(* The second symbol gives the group's first byte.                         *)
LEMMA TakeSecond ==
    ASSUME NEW o, NEW a \in Bytes, NEW b \in Bytes
    PROVE  Take(Read(Sym1(a), 6, o), Sym2(a, b)) = Read(b \div 16, 4, Append(o, a))
<1> DEFINE q == a \div 4
           r == a % 4
           u == b \div 16
           x == q * 64 + (r * 16 + u)
<1>0. a \in 0..255 /\ b \in 0..255
  BY DEF Bytes
<1>1. a = q * 4 + r /\ q \in 0..63 /\ r \in 0..3 /\ u \in 0..15
  BY <1>0
<1>2. Sym1(a) = q /\ Sym2(a, b) = r * 16 + u
  BY DEF Sym1, Sym2
<1> HIDE DEF q, r, u
<1>3. r * 16 + u \in Six /\ q \in Nat
  BY <1>1 DEF Six
<1>4. x % 16 = u /\ (x \div 16) % 256 = a
  <2>1. x = a * 16 + u
    BY <1>1
  <2> HIDE DEF x
  <2>2. x % 16 = u /\ x \div 16 = a
    BY <2>1, <1>0, <1>1
  <2> QED BY <2>2, <1>0
<1>5. 16 = 2^4 /\ 4 = 6 - 2
  BY PowersOfTwo
<1> DEFINE s == r * 16 + u
<1>6. Take(Read(q, 6, o), s) = Read(x % 16, 4, Append(o, (x \div 16) % 256))
  <2>1. s \in Six /\ Gathers(x, 16, 4, q, 6, s)
    BY <1>3, <1>5 DEF Gathers
  <2> HIDE DEF s, x
  <2>2. 6 \in {2, 4, 6}
    OBVIOUS
  <2>3. Yields(Take(Read(q, 6, o), s), x, 16, 4, o)
    BY <1>3, <2>1, <2>2, TakeMany
  <2> QED BY <2>3 DEF Yields
<1> HIDE DEF s, x
<1> QED BY <1>6, <1>4, <1>2 DEF s, u

(* The third symbol gives its second byte.                                 *)
LEMMA TakeThird ==
    ASSUME NEW o, NEW b \in Bytes, NEW c \in Bytes
    PROVE  Take(Read(b \div 16, 4, o), Sym3(b, c)) = Read(c \div 64, 2, Append(o, b))
<1> DEFINE q == b \div 16
           r == b % 16
           u == c \div 64
           x == q * 64 + (r * 4 + u)
<1>0. b \in 0..255 /\ c \in 0..255
  BY DEF Bytes
<1>1. b = q * 16 + r /\ q \in 0..15 /\ r \in 0..15 /\ u \in 0..3
  BY <1>0
<1>2. Sym3(b, c) = r * 4 + u
  BY DEF Sym3
<1> HIDE DEF q, r, u
<1>3. r * 4 + u \in Six /\ q \in Nat
  BY <1>1 DEF Six
<1>4. x % 4 = u /\ (x \div 4) % 256 = b
  <2>1. x = b * 4 + u
    BY <1>1
  <2> HIDE DEF x
  <2>2. x % 4 = u /\ x \div 4 = b
    BY <2>1, <1>0, <1>1
  <2> QED BY <2>2, <1>0
<1>5. 4 = 2^2 /\ 2 = 4 - 2
  BY PowersOfTwo
<1> DEFINE s == r * 4 + u
<1>6. Take(Read(q, 4, o), s) = Read(x % 4, 2, Append(o, (x \div 4) % 256))
  <2>1. s \in Six /\ Gathers(x, 4, 2, q, 4, s)
    BY <1>3, <1>5 DEF Gathers
  <2> HIDE DEF s, x
  <2>2. 4 \in {2, 4, 6}
    OBVIOUS
  <2>3. Yields(Take(Read(q, 4, o), s), x, 4, 2, o)
    BY <1>3, <2>1, <2>2, TakeMany
  <2> QED BY <2>3 DEF Yields
<1> HIDE DEF s, x
<1> QED BY <1>6, <1>4, <1>2 DEF s, u, q

(* The fourth symbol gives its third byte and leaves the buffer empty.     *)
LEMMA TakeFourth ==
    ASSUME NEW o, NEW c \in Bytes
    PROVE  Take(Read(c \div 64, 2, o), Sym4(c)) = Read(0, 0, Append(o, c))
<1> DEFINE q == c \div 64
           s == c % 64
<1>0. c \in 0..255
  BY DEF Bytes
<1>1. c = q * 64 + s /\ q \in Nat /\ s \in 0..63
  BY <1>0
<1>2. Sym4(c) = s
  BY DEF Sym4
<1> HIDE DEF q, s
<1>3. s \in Six
  BY <1>1 DEF Six
<1> DEFINE p == 1
<1>4. p = 2^0 /\ 0 = 2 - 2
  BY PowersOfTwo
<1>5. c % p = 0 /\ (c \div p) % 256 = c
  <2>1. c % 1 = 0 /\ c \div 1 = c /\ c % 256 = c
    BY <1>0
  <2> QED BY <2>1
<1> HIDE DEF p
<1>6. Take(Read(q, 2, o), s) = Read(c % p, 0, Append(o, (c \div p) % 256))
  <2>1. Gathers(c, p, 0, q, 2, s)
    BY <1>1, <1>4 DEF Gathers
  <2>2. 2 \in {2, 4, 6}
    OBVIOUS
  <2>3. Yields(Take(Read(q, 2, o), s), c, p, 0, o)
    BY <1>1, <1>3, <2>1, <2>2, TakeMany
  <2> QED BY <2>3 DEF Yields
<1> QED BY <1>6, <1>5, <1>2 DEF q

(* The symbols before the pads.                                            *)
Trimmed(symbols) == SubSeq(symbols, 1, Max({0} \cup {i \in 1..Len(symbols) : symbols[i] # Pad}))

Reads(d, data) ==
    /\ d[1..0] = Read(0, 0, <<>>)
    /\ \A k \in 0..Len(data) : d[1..k] \in Reader
    /\ \A k \in 1..Len(data) : d[1..k] = Take(d[1..(k - 1)], data[k])

(* Taking a symbol leaves the decoder in one of its states.                *)
LEMMA TakeReads ==
    ASSUME NEW acc \in Reader, NEW v \in Six
    PROVE  Take(acc, v) \in Reader
<1> DEFINE buf == acc.buf
           bits == acc.bits
           o == acc.out
           x == buf * 64 + v
<1>1. buf \in Nat /\ bits \in {0, 2, 4, 6} /\ o \in Seq(Bytes) /\ acc = Read(buf, bits, o)
  BY DEF Reader, Read
<1> HIDE DEF buf, bits, o
<1>2. x \in Nat
  BY <1>1 DEF Six
<1> HIDE DEF x
<1>3. CASE bits = 0
  <2>1. Take(acc, v) = [buf |-> x, bits |-> 6, out |-> o]
    BY <1>3, <1>1 DEF Take, Read, x
  <2> QED BY <2>1, <1>1, <1>2 DEF Reader
<1>4. ASSUME NEW l \in {0, 2, 4}, NEW p \in Nat, p # 0, p = 2^l, bits = l + 2
      PROVE Take(acc, v) \in Reader
  <2>1. Gathers(x, p, l, buf, bits, v) /\ bits \in {2, 4, 6}
    BY <1>4 DEF Gathers, x
  <2>2. Yields(Take(acc, v), x, p, l, o)
    BY <2>1, <1>1, TakeMany
  <2> DEFINE r == x % p
             q == x \div p
             y == q % 256
  <2>3. r \in Nat /\ q \in Nat
    BY <1>2, <1>4
  <2> HIDE DEF r, q
  <2>4. y \in Bytes
    BY <2>3 DEF Bytes
  <2>5. Take(acc, v) = [buf |-> r, bits |-> l, out |-> Append(o, y)]
    BY <2>2 DEF Yields, Read, r, q
  <2> HIDE DEF y
  <2>6. Append(o, y) \in Seq(Bytes)
    BY <2>4, <1>1, AppendProperties
  <2> QED BY <2>3, <2>5, <2>6 DEF Reader
<1>5. bits = 2 => Take(acc, v) \in Reader
  BY <1>4, PowersOfTwo
<1>6. bits = 4 => Take(acc, v) \in Reader
  BY <1>4, PowersOfTwo
<1>7. bits = 6 => Take(acc, v) \in Reader
  BY <1>4, PowersOfTwo
<1> QED BY <1>1, <1>3, <1>5, <1>6, <1>7

(* Base64Decode is the loop over the symbols before the padding.           *)
LEMMA DecodeRuns ==
    ASSUME NEW symbols, Trimmed(symbols) \in Seq(Six)
    PROVE  \E d : /\ Reads(d, Trimmed(symbols))
                  /\ Base64Decode(symbols) = {d[1..Len(Trimmed(symbols))].out}
<1> DEFINE data == Trimmed(symbols)
           n == Len(data)
           V == Reader
           Nothing == [buf |-> 0, bits |-> 0, out |-> <<>>]
           Def(d) == [s \in SUBSET (1..n) |-> IF s = {} THEN Nothing ELSE Take(d[s \ {Max(s)}], data[Max(s)])]
           it == CHOOSE d : d = Def(d)
           st == [p \in V \X (1..n) |-> Take(p[1], data[p[2]])]
<1>1. n \in Nat /\ DOMAIN data = 1..n /\ \A i \in 1..n : data[i] \in Six
  BY SeqFacts
<1>2. Base64Decode(symbols) = {it[1..n].out}
  <2>1. ~ \E i \in 1..n : data[i] = Pad
    <3>1. Pad \notin Six
      BY DEF Six, Pad
    <3> HIDE DEF data
    <3> QED BY <3>1, <1>1
  <2>2. Base64Decode(symbols) = IF \E i \in 1..n : data[i] = Pad THEN {} ELSE {it[1..n].out}
    BY ZenonT(60), <1>1 DEF Base64Decode, Trimmed, FoldLeft, MapThenFoldSet, Take
  <2> QED BY <2>1, <2>2
<1>3. Nothing \in V /\ Nothing = Read(0, 0, <<>>)
  BY EmptySeq DEF Reader, Read
<1> HIDE DEF Nothing
<1>4. ASSUME NEW k \in V, NEW i \in 1..n PROVE Take(k, data[i]) \in V
  BY <1>1, TakeReads
<1> HIDE DEF V, data
<1>5. IsFoldStep(st, V, n) /\ \A k \in V, i \in 1..n : st[<<k, i>>] = Take(k, data[i])
  BY <1>4 DEF IsFoldStep
<1> HIDE DEF st
<1>6. PICK f : FoldsOver(f, V, n, Nothing, st)
  BY <1>1, <1>3, <1>5, FoldExists
<1>7. f = Def(f)
  <2>1. ASSUME NEW s \in SUBSET (1..n)
        PROVE f[s] = IF s = {} THEN Nothing ELSE Take(f[s \ {Max(s)}], data[Max(s)])
    <3>1. f[s] = FoldStep(f, s, Nothing, st)
      BY <1>6 DEF FoldsOver
    <3>2. CASE s = {}
      BY <3>1, <3>2 DEF FoldStep
    <3>3. CASE s # {}
      <4>1. Max(s) \in 1..n /\ s \ {Max(s)} \in SUBSET (1..n)
        BY <3>3, <1>1, MaxInRange
      <4>2. f[s \ {Max(s)}] \in V
        BY <4>1, <1>6 DEF FoldsOver
      <4> QED BY <4>1, <4>2, <3>1, <3>3, <1>5 DEF FoldStep
    <3> QED BY <3>2, <3>3
  <2>2. f = [s \in SUBSET (1..n) |-> f[s]]
    BY <1>6 DEF FoldsOver
  <2> QED BY <2>1, <2>2
<1>8. it = Def(it)
  <2> HIDE DEF Def
  <2> QED BY <1>7
<1> HIDE DEF it
<1>9. \A s \in SUBSET (1..n) : it[s] = IF s = {} THEN Nothing ELSE Take(it[s \ {Max(s)}], data[Max(s)])
  <2> DEFINE e == Def(it)
  <2>1. \A s \in SUBSET (1..n) : e[s] = IF s = {} THEN Nothing ELSE Take(it[s \ {Max(s)}], data[Max(s)])
    OBVIOUS
  <2>2. e = it
    BY <1>8
  <2> HIDE DEF e
  <2> QED BY <2>1, <2>2
<1>10. FoldLike(it, V, n, Nothing, st)
  <2>1. \A s \in SUBSET (1..n) : s # {} => Max(s) \in 1..n
    BY <1>1, MaxInRange
  <2> QED BY <2>1, <1>5, <1>9 DEF FoldLike
<1>11. Trace(it, V, n, Nothing, st)
  BY <1>1, <1>3, <1>5, <1>10, FoldRuns
<1>12. \A k \in 1..n : it[1..k] = Take(it[1..(k - 1)], data[k])
  <2>1. \A k \in 1..n : k - 1 \in 0..n
    BY <1>1
  <2> QED BY <2>1, <1>5, <1>11 DEF Trace
<1>13. Reads(it, data)
  BY <1>3, <1>11, <1>12 DEF Trace, Reads, V
<1> QED BY <1>2, <1>13 DEF data

(* Trimming takes the pads and nothing else.                               *)
LEMMA TrimPads ==
    ASSUME NEW core \in Seq(Six), NEW pads \in Seq({Pad})
    PROVE  Trimmed(core \o pads) = core
<1> DEFINE y == core \o pads
           S == {0} \cup {i \in 1..Len(y) : y[i] # Pad}
           m == Len(core)
<1>1. m \in Nat /\ Len(pads) \in Nat /\ core \in Seq(Nat) /\ pads \in Seq(Nat)
  <2>1. Six \subseteq Nat /\ {Pad} \subseteq Nat
    BY DEF Six, Pad
  <2>2. m \in Nat /\ Len(pads) \in Nat
    BY SeqFacts
  <2>3. core \in [1..m -> Six] /\ pads \in [1..Len(pads) -> {Pad}]
    BY LenProperties
  <2>4. core \in [1..m -> Nat] /\ pads \in [1..Len(pads) -> Nat]
    BY <2>1, <2>3
  <2> QED BY SMTT(30), <2>2, <2>4, SeqDef
<1>2. \A i \in 1..m : core[i] \in Six
  BY SeqFacts
<1>3. \A i \in 1..Len(pads) : pads[i] = Pad
  BY SeqFacts
<1>4. y \in Seq(Nat) /\ Len(y) = m + Len(pads)
  BY ONLY <1>1, ConcatProperties
<1>5. \A i \in 1..(m + Len(pads)) : y[i] = IF i <= m THEN core[i] ELSE pads[i - m]
  BY ONLY <1>1, ConcatProperties
<1> HIDE DEF y
<1>6. \A i \in 1..m : y[i] = core[i] /\ y[i] # Pad
  <2>1. \A i \in 1..m : i \in 1..(m + Len(pads)) /\ i <= m
    BY <1>1
  <2>2. Pad \notin Six
    BY DEF Six, Pad
  <2> QED BY <2>1, <2>2, <1>2, <1>5
<1>7. \A i \in 1..Len(y) : i > m => y[i] = Pad
  <2>1. ASSUME NEW i \in 1..Len(y), i > m PROVE y[i] = Pad
    <3>1. i \in 1..(m + Len(pads)) /\ ~(i <= m) /\ i - m \in 1..Len(pads)
      BY <1>1, <1>4, <2>1
    <3> QED BY <3>1, <1>3, <1>5
  <2> QED BY <2>1
<1>8. Max(S) = m
  <2>1. m \in S
    <3>1. CASE m = 0
      BY <3>1
    <3>2. CASE m # 0
      <4>1. m \in 1..m /\ m \in 1..Len(y)
        BY <3>2, <1>1, <1>4
      <4> QED BY <4>1, <1>6
    <3> QED BY <3>1, <3>2
  <2>2. \A i \in S : i \in Nat /\ i <= m
    <3>1. ASSUME NEW i \in 1..Len(y), y[i] # Pad PROVE i <= m
      <4>1. ~(i > m)
        BY <1>7, <3>1
      <4> QED BY <4>1, <1>1
    <3> QED BY <3>1, <1>1
  <2> HIDE DEF S
  <2> DEFINE top == CHOOSE x \in S : \A z \in S : x >= z
  <2>3. \A z \in S : m >= z
    BY <2>2, <1>1
  <2>4. top \in S /\ \A z \in S : top >= z
    BY <2>1, <2>3
  <2> HIDE DEF top
  <2>5. top = m
    BY <2>1, <2>2, <2>4, <1>1
  <2> QED BY <2>5 DEF Max, top
<1>9. Trimmed(y) = SubSeq(y, 1, m)
  BY <1>8 DEF Trimmed
<1> HIDE DEF S
<1> DEFINE z == SubSeq(y, 0 + 1, m)
<1>10. z \in Seq(Nat) /\ Fits(z, y, 0, m)
  BY SMTT(30), <1>1, <1>4, SliceFits
<1>11. 0 + 1 = 1
  OBVIOUS
<1>12. Trimmed(y) = z
  BY <1>9, <1>11
<1> HIDE DEF z
<1>13. Len(z) = m /\ \A j \in 1..m : z[j] = y[j]
  BY <1>10, <1>1 DEF Fits
<1>14. z = core
  BY <1>1, <1>6, <1>10, <1>13, SeqEqual
<1> QED BY <1>12, <1>14 DEF y

(* What Base64 makes of the bytes: group i + 1 of the symbols spells the   *)
(* bytes 3i + 1 to 3i + 3.                                                 *)
Spells(core, bytes, i) ==
    LET a == ByteAt(bytes, 3 * i + 1)
        b == ByteAt(bytes, 3 * i + 2)
        c == ByteAt(bytes, 3 * i + 3)
    IN  /\ 4 * i + 1 <= Len(core) => core[4 * i + 1] = Sym1(a)
        /\ 4 * i + 2 <= Len(core) => core[4 * i + 2] = Sym2(a, b)
        /\ 4 * i + 3 <= Len(core) => core[4 * i + 3] = Sym3(b, c)
        /\ 4 * i + 4 <= Len(core) => core[4 * i + 4] = Sym4(c)

GroupOf(bytes, i) ==
    Symbols(ByteAt(bytes, 3 * i + 1), ByteAt(bytes, 3 * i + 2), ByteAt(bytes, 3 * i + 3))

(* A byte past the end reads as zero, so every position holds a byte.      *)
LEMMA ByteIsByte ==
    ASSUME NEW bytes \in Seq(Bytes), NEW p \in Nat, p >= 1
    PROVE  ByteAt(bytes, p) \in Bytes
<1>1. Len(bytes) \in Nat /\ \A i \in 1..Len(bytes) : bytes[i] \in Bytes
  BY SeqFacts
<1>2. 0 \in Bytes
  BY DEF Bytes
<1>3. p <= Len(bytes) => p \in 1..Len(bytes)
  BY <1>1
<1> QED BY <1>1, <1>2, <1>3 DEF ByteAt

(* The symbols of the i-th group, named.                                   *)
LEMMA GroupsAreSix ==
    ASSUME NEW bytes \in Seq(Bytes), NEW i \in Nat
    PROVE  /\ GroupOf(bytes, i) \in Seq(Six) /\ Len(GroupOf(bytes, i)) = 4
           /\ GroupOf(bytes, i)[1] = Sym1(ByteAt(bytes, 3 * i + 1))
           /\ GroupOf(bytes, i)[2] = Sym2(ByteAt(bytes, 3 * i + 1), ByteAt(bytes, 3 * i + 2))
           /\ GroupOf(bytes, i)[3] = Sym3(ByteAt(bytes, 3 * i + 2), ByteAt(bytes, 3 * i + 3))
           /\ GroupOf(bytes, i)[4] = Sym4(ByteAt(bytes, 3 * i + 3))
<1> DEFINE a == ByteAt(bytes, 3 * i + 1)
           b == ByteAt(bytes, 3 * i + 2)
           c == ByteAt(bytes, 3 * i + 3)
           s1 == Sym1(a)
           s2 == Sym2(a, b)
           s3 == Sym3(b, c)
           s4 == Sym4(c)
           g == <<s1, s2, s3, s4>>
<1>0. /\ 3 * i + 1 \in Nat /\ 3 * i + 1 >= 1 /\ 3 * i + 2 \in Nat /\ 3 * i + 2 >= 1
      /\ 3 * i + 3 \in Nat /\ 3 * i + 3 >= 1
  OBVIOUS
<1>1. a \in Bytes /\ b \in Bytes /\ c \in Bytes
  BY <1>0, ByteIsByte
<1>2. GroupOf(bytes, i) = g
  BY DEF GroupOf, Symbols
<1> HIDE DEF a, b, c
<1>3. s1 \in Six /\ s2 \in Six /\ s3 \in Six /\ s4 \in Six
  BY <1>1, SymbolsAreSix
<1> HIDE DEF s1, s2, s3, s4
<1>4. g \in Seq(Six) /\ Len(g) = 4 /\ g[1] = s1 /\ g[2] = s2 /\ g[3] = s3 /\ g[4] = s4
  BY <1>3
<1> HIDE DEF g
<1> QED BY <1>2, <1>4 DEF s1, s2, s3, s4, a, b, c

(* A full group, or the bytes left over at the end.                        *)
LEMMA GroupSymbols ==
    ASSUME NEW bytes \in Seq(Bytes), NEW i \in Nat, NEW to \in Nat, to <= Len(bytes),
           3 * i < to, to <= 3 * i + 3, to = Len(bytes) \/ to = 3 * i + 3,
           NEW z, z = SubSeq(bytes, 3 * i + 1, to)
    PROVE  Sextets(z) = GroupOf(bytes, i) /\ Len(z) = to - 3 * i
<1> DEFINE from == 3 * i
           k == to - from
<1>0. Len(bytes) \in Nat
  BY SeqFacts
<1>1. from \in Nat /\ from <= to /\ k \in {1, 2, 3}
  OBVIOUS
<1>2. z \in Seq(Bytes) /\ Fits(z, bytes, from, to)
  <2> HIDE DEF from
  <2>1. z = SubSeq(bytes, from + 1, to)
    BY DEF from
  <2> QED BY <2>1, <1>1, SliceFits
<1>3. Len(z) = k /\ \A j \in 1..k : z[j] = bytes[from + j]
  BY <1>2 DEF Fits
<1>4. /\ Sextets(z) = Symbols(ByteAt(z, 1), ByteAt(z, 2), ByteAt(z, 3))
  <2>1. Len(z) >= 1 /\ Len(z) <= 3
    BY <1>1, <1>3
  <2> QED BY <2>1, <1>2, SextetsAre
<1>5. ASSUME NEW j \in {1, 2, 3} PROVE ByteAt(z, j) = ByteAt(bytes, from + j)
  <2>1. CASE j <= k
    <3>1. j \in 1..k /\ from + j <= Len(bytes)
      BY <2>1, <1>0, <1>1
    <3> QED BY <3>1, <2>1, <1>3 DEF ByteAt
  <2>2. CASE ~(j <= k)
    <3>1. to # from + 3
      BY <2>2, <1>1
    <3>2. to = Len(bytes)
      BY <3>1
    <3>3. ~(from + j <= Len(bytes))
      BY <3>2, <2>2, <1>1
    <3> QED BY <3>3, <2>2, <1>3 DEF ByteAt
  <2> QED BY <2>1, <2>2
<1>6. /\ ByteAt(z, 1) = ByteAt(bytes, 3 * i + 1) /\ ByteAt(z, 2) = ByteAt(bytes, 3 * i + 2)
      /\ ByteAt(z, 3) = ByteAt(bytes, 3 * i + 3)
  BY <1>5
<1> QED BY <1>3, <1>4, <1>6 DEF GroupOf

Grouped(body, bytes, w) ==
    /\ body \in Seq(Six) /\ Len(body) = 4 * w
    /\ \A i \in 0..(w - 1), j \in 1..4 : body[4 * i + j] = GroupOf(bytes, i)[j]

(* The whole groups, one after the other.                                  *)
LEMMA GroupsFlatten ==
    ASSUME NEW bytes \in Seq(Bytes), NEW w \in Nat, 3 * w <= Len(bytes),
           NEW groups, groups = [i \in 1..w |-> Sextets(SubSeq(bytes, 3 * i - 2, 3 * i))]
    PROVE  Grouped(FlattenSeq(groups), bytes, w)
<1>0. Len(bytes) \in Nat
  BY SeqFacts
<1>1. ASSUME NEW k \in 1..w PROVE groups[k] = GroupOf(bytes, k - 1)
  <2> DEFINE i == k - 1
             to == 3 * k
  <2>1. i \in Nat /\ to \in Nat /\ to <= Len(bytes) /\ 3 * i < to /\ to <= 3 * i + 3
        /\ to = 3 * i + 3
    BY <1>0
  <2>2. 3 * k - 2 = 3 * i + 1
    OBVIOUS
  <2>3. groups[k] = Sextets(SubSeq(bytes, 3 * k - 2, 3 * k))
    OBVIOUS
  <2>4. groups[k] = Sextets(SubSeq(bytes, 3 * i + 1, to))
    BY <2>2, <2>3
  <2> HIDE DEF i, to
  <2> DEFINE z == SubSeq(bytes, 3 * i + 1, to)
  <2>5. Sextets(z) = GroupOf(bytes, i)
    BY <2>1, GroupSymbols
  <2> QED BY <2>4, <2>5 DEF i
<1> DEFINE part(p) == (p - 1) \div 4
           spot(p) == ((p - 1) % 4) + 1
           t == [p \in 1..(4 * w) |-> GroupOf(bytes, part(p))[spot(p)]]
           cut == [k \in 0..w |-> 4 * k]
<1>2. \A i \in Nat : GroupOf(bytes, i) \in Seq(Six) /\ Len(GroupOf(bytes, i)) = 4
  BY GroupsAreSix
<1>3. \A i \in Nat : \A j \in 1..4 : GroupOf(bytes, i)[j] \in Six
  <2>1. ASSUME NEW i \in Nat, NEW j \in 1..4 PROVE GroupOf(bytes, i)[j] \in Six
    <3> DEFINE g == GroupOf(bytes, i)
    <3>1. g \in Seq(Six) /\ Len(g) = 4
      BY <1>2
    <3> HIDE DEF g
    <3>2. g[j] \in Six
      BY <3>1, SeqFacts
    <3> QED BY <3>2 DEF g
  <2> QED BY <2>1
<1>4. \A p \in 1..(4 * w) : part(p) \in Nat /\ spot(p) \in 1..4
  OBVIOUS
<1>5. t \in [1..(4 * w) -> Six] /\ 4 * w \in Nat
  <2>1. 4 * w \in Nat
    OBVIOUS
  <2> HIDE DEF part, spot
  <2>2. \A p \in 1..(4 * w) : GroupOf(bytes, part(p))[spot(p)] \in Six
    BY <1>3, <1>4
  <2>3. t \in [1..(4 * w) -> Six]
    BY ONLY <2>2
  <2> QED BY <2>1, <2>3
<1>6. t \in Seq(Six) /\ Len(t) = 4 * w
  BY <1>5, SeqDef, LenOfItems
<1>7. ASSUME NEW i \in 0..(w - 1), NEW j \in 1..4 PROVE t[4 * i + j] = GroupOf(bytes, i)[j]
  <2>1. 4 * i + j \in 1..(4 * w)
    OBVIOUS
  <2>2. part(4 * i + j) = i /\ spot(4 * i + j) = j
    BY SMTT(30)
  <2> HIDE DEF part, spot
  <2> QED BY <2>1, <2>2
<1> HIDE DEF t
<1>8. groups \in Seq(Seq(Six)) /\ Len(groups) = w
  <2>1. \A k \in 1..w : k - 1 \in Nat
    OBVIOUS
  <2>2. groups \in [1..w -> Seq(Six)]
    BY <1>1, <1>2, <2>1
  <2> QED BY <2>2, SeqDef, LenOfItems
<1>9. cut \in [0..w -> Nat] /\ cut[0] = 0 /\ cut[w] = 4 * w
  OBVIOUS
<1>10. ASSUME NEW k \in 1..w PROVE Fits(groups[k], t, cut[k - 1], cut[k])
  <2> DEFINE i == k - 1
             g == GroupOf(bytes, i)
  <2>1. i \in 0..(w - 1) /\ i \in Nat
    OBVIOUS
  <2>2. cut[k - 1] = 4 * i /\ cut[k] = 4 * i + 4
    OBVIOUS
  <2>3. groups[k] = g /\ Len(g) = 4 /\ \A j \in 1..4 : g[j] = t[4 * i + j]
    BY <1>1, <1>2, <1>7, <2>1
  <2>4. 4 * i <= 4 * i + 4 /\ 4 * i + 4 <= 4 * w /\ (4 * i + 4) - 4 * i = 4
    BY <2>1
  <2> HIDE DEF i, g, cut
  <2>5. Fits(g, t, 4 * i, 4 * i + 4)
    BY <2>3, <2>4, <1>6 DEF Fits
  <2> QED BY <2>2, <2>3, <2>5
<1> HIDE DEF cut
<1>11. FlattenSeq(groups) = t
  BY <1>6, <1>8, <1>9, <1>10, FlattenFits
<1> QED BY <1>6, <1>7, <1>11 DEF Grouped

(* The head of a sequence is its stretch from the start.                   *)
LEMMA HeadFits ==
    ASSUME NEW X, NEW t \in Seq(X), NEW k \in Nat, k <= Len(t)
    PROVE  SubSeq(t, 1, k) \in Seq(X) /\ Fits(SubSeq(t, 1, k), t, 0, k)
<1> DEFINE from == 0
           z == SubSeq(t, from + 1, k)
<1>0. from \in Nat /\ from <= k /\ from + 1 = 1
  OBVIOUS
<1> HIDE DEF from
<1>1. z \in Seq(X) /\ Fits(z, t, from, k)
  BY <1>0, SliceFits
<1>2. z = SubSeq(t, 1, k)
  BY <1>0
<1> HIDE DEF z
<1> QED BY <1>1, <1>2 DEF from

(* All of it: symbols, and pads after them.                                *)
CoreLen(bytes) ==
    LET w == Len(bytes) \div 3
        r == Len(bytes) - 3 * w
    IN  4 * w + (IF r = 0 THEN 0 ELSE r + 1)

SpeltOut(core, bytes, w, k) ==
    core \in Seq(Six) /\ Len(core) = 4 * w + k /\ \A i \in 0..w : Spells(core, bytes, i)

(* Whole groups followed by the head of one more spell out the bytes.      *)
LEMMA CoreSpells ==
    ASSUME NEW bytes \in Seq(Bytes), NEW w \in Nat, NEW body, Grouped(body, bytes, w),
           NEW k \in 0..3, NEW s, s = SubSeq(GroupOf(bytes, w), 1, k)
    PROVE  SpeltOut(body \o s, bytes, w, k)
<1> DEFINE g == GroupOf(bytes, w)
           core == body \o s
<1>0. /\ body \in Seq(Six) /\ Len(body) = 4 * w
      /\ \A i \in 0..(w - 1), j \in 1..4 : body[4 * i + j] = GroupOf(bytes, i)[j]
  BY DEF Grouped
<1>1. g \in Seq(Six) /\ Len(g) = 4
  BY GroupsAreSix
<1>2. s = SubSeq(g, 1, k) /\ k \in Nat /\ k <= 4
  OBVIOUS
<1> HIDE DEF g
<1>3. s \in Seq(Six) /\ Fits(s, g, 0, k)
  BY <1>1, <1>2, HeadFits
<1>4. Len(s) = k /\ \A j \in 1..k : s[j] = g[j]
  BY <1>3 DEF Fits
<1>p. body \in Seq(Six) /\ s \in Seq(Six)
  BY <1>0, <1>3
<1>5. core \in Seq(Six) /\ Len(core) = Len(body) + Len(s)
  BY ONLY <1>p, ConcatProperties
<1>6. \A p \in 1..(Len(body) + Len(s)) : core[p] = IF p <= Len(body) THEN body[p] ELSE s[p - Len(body)]
  BY ONLY <1>p, ConcatProperties
<1> HIDE DEF core
<1>7. Len(core) = 4 * w + k
  BY <1>0, <1>4, <1>5
<1>8. ASSUME NEW i \in 0..w, NEW j \in 1..4, 4 * i + j <= Len(core)
      PROVE  core[4 * i + j] = GroupOf(bytes, i)[j]
  <2>0. 4 * i + j \in 1..(Len(body) + Len(s))
    BY <1>8, <1>5, <1>7
  <2>1. CASE i < w
    <3>1. i \in 0..(w - 1) /\ 4 * i + j <= Len(body)
      BY <2>1, <1>0
    <3> QED BY <3>1, <2>0, <1>0, <1>6
  <2>2. CASE ~(i < w)
    <3>1. i = w /\ ~(4 * i + j <= Len(body)) /\ (4 * i + j) - Len(body) = j /\ j \in 1..k
      BY <2>2, <1>0, <1>7, <1>8
    <3> QED BY <3>1, <2>0, <1>4, <1>6 DEF g
  <2> QED BY <2>1, <2>2
<1>9. ASSUME NEW i \in 0..w PROVE Spells(core, bytes, i)
  <2>1. 1 \in 1..4 /\ 2 \in 1..4 /\ 3 \in 1..4 /\ 4 \in 1..4 /\ i \in Nat
    OBVIOUS
  <2>2. /\ 4 * i + 1 <= Len(core) => core[4 * i + 1] = GroupOf(bytes, i)[1]
        /\ 4 * i + 2 <= Len(core) => core[4 * i + 2] = GroupOf(bytes, i)[2]
        /\ 4 * i + 3 <= Len(core) => core[4 * i + 3] = GroupOf(bytes, i)[3]
        /\ 4 * i + 4 <= Len(core) => core[4 * i + 4] = GroupOf(bytes, i)[4]
    BY <1>8, <2>1
  <2>3. /\ GroupOf(bytes, i)[1] = Sym1(ByteAt(bytes, 3 * i + 1))
        /\ GroupOf(bytes, i)[2] = Sym2(ByteAt(bytes, 3 * i + 1), ByteAt(bytes, 3 * i + 2))
        /\ GroupOf(bytes, i)[3] = Sym3(ByteAt(bytes, 3 * i + 2), ByteAt(bytes, 3 * i + 3))
        /\ GroupOf(bytes, i)[4] = Sym4(ByteAt(bytes, 3 * i + 3))
    BY <2>1, GroupsAreSix
  <2> QED BY <2>2, <2>3 DEF Spells
<1> QED BY <1>5, <1>7, <1>9 DEF SpeltOut, core

Encodes(core, pads, bytes) ==
    /\ core \in Seq(Six) /\ pads \in Seq({Pad}) /\ Base64Encode(bytes) = core \o pads
    /\ Len(core) = CoreLen(bytes)
    /\ \A i \in 0..(Len(bytes) \div 3) : Spells(core, bytes, i)

(* Base64Encode spells out its bytes and then pads.                        *)
LEMMA EncodeSpells ==
    ASSUME NEW bytes \in Seq(Bytes)
    PROVE  \E core, pads : Encodes(core, pads, bytes)
<1> DEFINE L == Len(bytes)
           w == L \div 3
           r == L - 3 * w
           groups == [i \in 1..w |-> Sextets(SubSeq(bytes, 3 * i - 2, 3 * i))]
           body == FlattenSeq(groups)
           rest == SubSeq(bytes, 3 * w + 1, L)
           g == GroupOf(bytes, w)
           tail == CASE Len(rest) = 0 -> <<>>
                     [] Len(rest) = 1 -> SubSeq(Sextets(rest), 1, 2) \o <<Pad, Pad>>
                     [] Len(rest) = 2 -> SubSeq(Sextets(rest), 1, 3) \o <<Pad>>
<1>0. L \in Nat
  BY SeqFacts
<1>1. w \in Nat /\ r \in 0..2 /\ 3 * w <= L /\ L = 3 * w + r
  BY <1>0
<1>2. Base64Encode(bytes) = body \o tail
  BY DEF Base64Encode
<1>3. CoreLen(bytes) = 4 * w + (IF r = 0 THEN 0 ELSE r + 1)
  BY DEF CoreLen
<1> HIDE DEF w, r, tail, L
<1>4. Grouped(body, bytes, w) /\ body \in Seq(Six)
  <2>1. 3 * w <= Len(bytes)
    BY <1>1 DEF L
  <2>2. Grouped(body, bytes, w)
    BY <2>1, <1>1, GroupsFlatten
  <2> QED BY <2>2 DEF Grouped
<1>5. Len(rest) = r
  <2>1. 3 * w \in Nat /\ 3 * w <= L
    BY <1>1
  <2> DEFINE from == 3 * w
  <2> HIDE DEF from
  <2>2. Fits(SubSeq(bytes, from + 1, L), bytes, from, L)
    BY <2>1, <1>0, SliceFits DEF from, L
  <2>3. Len(SubSeq(bytes, from + 1, L)) = L - from
    BY <2>2 DEF Fits
  <2> QED BY <2>3, <1>1 DEF from
<1>6. r # 0 => Sextets(rest) = g
  <2> SUFFICES ASSUME r # 0 PROVE Sextets(rest) = g
    OBVIOUS
  <2>1. L <= Len(bytes) /\ 3 * w < L /\ L <= 3 * w + 3 /\ L = Len(bytes)
    BY <1>0, <1>1 DEF L
  <2> QED BY <2>1, <1>0, <1>1, GroupSymbols
<1> HIDE DEF body, rest
<1>7. g \in Seq(Six) /\ Len(g) = 4
  BY <1>1, GroupsAreSix
<1>8. ASSUME NEW k \in 0..3, NEW pads \in Seq({Pad}), NEW head \in Seq(Six), head = SubSeq(g, 1, k),
             tail = head \o pads, k = (IF r = 0 THEN 0 ELSE r + 1)
      PROVE  \E core, ps : Encodes(core, ps, bytes)
  <2> DEFINE core == body \o head
  <2>0. SpeltOut(core, bytes, w, k)
    BY <1>1, <1>4, <1>8, CoreSpells
  <2>1. core \in Seq(Six) /\ Len(core) = 4 * w + k /\ \A i \in 0..w : Spells(core, bytes, i)
    BY <2>0 DEF SpeltOut
  <2>2. body \o (head \o pads) = core \o pads
    <3> DEFINE S == Six \cup {Pad}
    <3>1. body \in Seq(S) /\ head \in Seq(S) /\ pads \in Seq(S)
      BY <1>4, <1>8, SeqMonotonic
    <3> HIDE DEF S
    <3>2. (body \o head) \o pads = body \o (head \o pads)
      BY ONLY SMTT(30), <3>1, ConcatAssociative
    <3> QED BY <3>2
  <2> HIDE DEF core
  <2>3. Encodes(core, pads, bytes)
    BY <2>1, <2>2, <1>2, <1>3, <1>8 DEF Encodes, w, L
  <2> QED BY <2>3
<1>9. ASSUME NEW k \in 0..3 PROVE SubSeq(g, 1, k) \in Seq(Six)
  <2>1. k \in Nat /\ k <= 4
    OBVIOUS
  <2> HIDE DEF g
  <2> QED BY <1>7, <2>1, HeadFits
<1> HIDE DEF g
<1>10. CASE r = 0
  <2> DEFINE head == SubSeq(g, 1, 0)
             pads == <<>>
  <2>1. tail = <<>>
    BY <1>5, <1>10 DEF tail
  <2>2. head = <<>>
    BY SubSeqEmpty
  <2>3. head \in Seq(Six) /\ pads \in Seq({Pad}) /\ <<>> = <<>> \o <<>>
    BY <1>9, ConcatEmptySeq, EmptySeq
  <2> HIDE DEF head
  <2>4. tail = head \o pads /\ 0 = (IF r = 0 THEN 0 ELSE r + 1) /\ 0 \in 0..3
    BY <2>1, <2>2, <2>3, <1>10
  <2>5. head = SubSeq(g, 1, 0)
    BY DEF head
  <2> HIDE DEF pads
  <2> QED BY <2>3, <2>4, <2>5, <1>8
<1>11. CASE r = 1
  <2> DEFINE head == SubSeq(g, 1, 2)
             pads == <<Pad, Pad>>
  <2>1. tail = SubSeq(Sextets(rest), 1, 2) \o <<Pad, Pad>> /\ Sextets(rest) = g
    BY <1>5, <1>6, <1>11 DEF tail
  <2>2. tail = head \o pads
    BY <2>1
  <2>3. head \in Seq(Six) /\ pads \in Seq({Pad})
    BY <1>9
  <2>4. 2 = (IF r = 0 THEN 0 ELSE r + 1) /\ 2 \in 0..3 /\ head = SubSeq(g, 1, 2)
    BY <1>11
  <2> HIDE DEF head, pads
  <2> QED BY <2>2, <2>3, <2>4, <1>8
<1>12. CASE r = 2
  <2> DEFINE head == SubSeq(g, 1, 3)
             pads == <<Pad>>
  <2>1. tail = SubSeq(Sextets(rest), 1, 3) \o <<Pad>> /\ Sextets(rest) = g
    BY <1>5, <1>6, <1>12 DEF tail
  <2>2. tail = head \o pads
    BY <2>1
  <2>3. head \in Seq(Six) /\ pads \in Seq({Pad})
    BY <1>9
  <2>4. 3 = (IF r = 0 THEN 0 ELSE r + 1) /\ 3 \in 0..3 /\ head = SubSeq(g, 1, 3)
    BY <1>12
  <2> HIDE DEF head, pads
  <2> QED BY <2>2, <2>3, <2>4, <1>8
<1> QED BY <1>1, <1>10, <1>11, <1>12

(* Reading the group i + 1 takes the reader from one byte boundary to the  *)
(* next.                                                                   *)
LEMMA GroupReads ==
    ASSUME NEW bytes \in Seq(Bytes), NEW core \in Seq(Six), NEW d, Reads(d, core), NEW i \in Nat,
           Spells(core, bytes, i), NEW o, d[1..(4 * i)] = Read(0, 0, o)
    PROVE  LET a == ByteAt(bytes, 3 * i + 1)
               b == ByteAt(bytes, 3 * i + 2)
               c == ByteAt(bytes, 3 * i + 3)
           IN  /\ 4 * i + 2 <= Len(core) => d[1..(4 * i + 2)] = Read(b \div 16, 4, Append(o, a))
               /\ 4 * i + 3 <= Len(core) => d[1..(4 * i + 3)] = Read(c \div 64, 2, Append(Append(o, a), b))
               /\ 4 * i + 4 <= Len(core) => d[1..(4 * i + 4)] = Read(0, 0, Append(Append(Append(o, a), b), c))
<1> DEFINE a == ByteAt(bytes, 3 * i + 1)
           b == ByteAt(bytes, 3 * i + 2)
           c == ByteAt(bytes, 3 * i + 3)
           n == Len(core)
<1>0. n \in Nat
  BY SeqFacts
<1>1. a \in Bytes /\ b \in Bytes /\ c \in Bytes
  <2>1. /\ 3 * i + 1 \in Nat /\ 3 * i + 1 >= 1 /\ 3 * i + 2 \in Nat /\ 3 * i + 2 >= 1
        /\ 3 * i + 3 \in Nat /\ 3 * i + 3 >= 1
    OBVIOUS
  <2> QED BY <2>1, ByteIsByte
<1>2. /\ 4 * i + 1 <= n => core[4 * i + 1] = Sym1(a)
      /\ 4 * i + 2 <= n => core[4 * i + 2] = Sym2(a, b)
      /\ 4 * i + 3 <= n => core[4 * i + 3] = Sym3(b, c)
      /\ 4 * i + 4 <= n => core[4 * i + 4] = Sym4(c)
  BY DEF Spells
<1> HIDE DEF a, b, c
<1>3. ASSUME NEW j \in 1..4, 4 * i + j <= n
      PROVE  d[1..(4 * i + j)] = Take(d[1..(4 * i + j - 1)], core[4 * i + j])
  <2>1. 4 * i + j \in 1..n
    BY <1>0, <1>3
  <2> QED BY SMTT(30), <2>1 DEF Reads
<1>4. 4 * i + 1 - 1 = 4 * i /\ 4 * i + 2 - 1 = 4 * i + 1 /\ 4 * i + 3 - 1 = 4 * i + 2
      /\ 4 * i + 4 - 1 = 4 * i + 3
  OBVIOUS
<1>5. ASSUME 4 * i + 1 <= n PROVE d[1..(4 * i + 1)] = Read(Sym1(a), 6, o)
  <2>1. d[1..(4 * i + 1)] = Take(Read(0, 0, o), Sym1(a))
    BY <1>2, <1>3, <1>4, <1>5
  <2>2. Sym1(a) \in Six
    BY <1>1, SymbolsAreSix
  <2> QED BY <2>1, <2>2, TakeFew
<1>6. ASSUME 4 * i + 2 <= n PROVE d[1..(4 * i + 2)] = Read(b \div 16, 4, Append(o, a))
  <2>0. 4 * i + 1 <= n
    BY <1>0, <1>6
  <2>1. d[1..(4 * i + 2)] = Take(Read(Sym1(a), 6, o), Sym2(a, b))
    BY <1>2, <1>3, <1>4, <1>5, <1>6, <2>0
  <2> QED BY <2>1, <1>1, TakeSecond
<1>7. ASSUME 4 * i + 3 <= n PROVE d[1..(4 * i + 3)] = Read(c \div 64, 2, Append(Append(o, a), b))
  <2>0. 4 * i + 2 <= n
    BY <1>0, <1>7
  <2> DEFINE oa == Append(o, a)
  <2>1. d[1..(4 * i + 3)] = Take(Read(b \div 16, 4, oa), Sym3(b, c))
    BY <1>2, <1>3, <1>4, <1>6, <1>7, <2>0
  <2> HIDE DEF oa
  <2>2. d[1..(4 * i + 3)] = Read(c \div 64, 2, Append(oa, b))
    BY <2>1, <1>1, TakeThird
  <2> QED BY <2>2 DEF oa
<1>8. ASSUME 4 * i + 4 <= n PROVE d[1..(4 * i + 4)] = Read(0, 0, Append(Append(Append(o, a), b), c))
  <2>0. 4 * i + 3 <= n
    BY <1>0, <1>8
  <2> DEFINE ob == Append(Append(o, a), b)
  <2>1. d[1..(4 * i + 4)] = Take(Read(c \div 64, 2, ob), Sym4(c))
    BY <1>2, <1>3, <1>4, <1>7, <1>8, <2>0
  <2> HIDE DEF ob
  <2>2. d[1..(4 * i + 4)] = Read(0, 0, Append(ob, c))
    BY <2>1, <1>1, TakeFourth
  <2> QED BY <2>2 DEF ob
<1> QED BY <1>6, <1>7, <1>8 DEF a, b, c

(* The first k bytes.                                                      *)
Prefix(o, bytes, k) == o \in Seq(Bytes) /\ Len(o) = k /\ \A j \in 1..k : o[j] = bytes[j]

(* Appending the next byte makes the prefix one longer.                    *)
LEMMA PrefixGrows ==
    ASSUME NEW bytes \in Seq(Bytes), NEW k \in Nat, k + 1 <= Len(bytes), NEW o, Prefix(o, bytes, k)
    PROVE  Prefix(Append(o, ByteAt(bytes, k + 1)), bytes, k + 1)
<1> DEFINE x == ByteAt(bytes, k + 1)
           z == Append(o, x)
<1>0. Len(bytes) \in Nat /\ k + 1 \in Nat /\ k + 1 >= 1
  BY SeqFacts
<1>1. x \in Bytes /\ x = bytes[k + 1]
  <2>1. x = bytes[k + 1]
    BY DEF ByteAt
  <2> QED BY <2>1, <1>0, ByteIsByte
<1>2. o \in Seq(Bytes) /\ Len(o) = k /\ \A j \in 1..k : o[j] = bytes[j]
  BY DEF Prefix
<1> HIDE DEF x
<1>3. z \in Seq(Bytes) /\ Len(z) = k + 1 /\ z[k + 1] = x /\ \A j \in 1..k : z[j] = o[j]
  BY <1>1, <1>2, AppendProperties
<1> HIDE DEF z
<1>4. ASSUME NEW j \in 1..(k + 1) PROVE z[j] = bytes[j]
  <2>1. j = k + 1 \/ j \in 1..k
    OBVIOUS
  <2> QED BY <2>1, <1>1, <1>2, <1>3
<1> QED BY <1>3, <1>4 DEF Prefix, z, x

(* A prefix as long as the bytes is the bytes.                             *)
LEMMA PrefixIsAll ==
    ASSUME NEW bytes \in Seq(Bytes), NEW o, Prefix(o, bytes, Len(bytes))
    PROVE  o = bytes
BY SeqEqual DEF Prefix

(***************************************************************************)
(* base64_compat: decode gives back what encode was given, whatever the    *)
(* bytes and however many there are.                                       *)
(***************************************************************************)
THEOREM Base64RoundTrip ==
    ASSUME NEW bytes \in Seq(Bytes)
    PROVE  Base64Decode(Base64Encode(bytes)) = {bytes}
<1> DEFINE L == Len(bytes)
           w == L \div 3
           r == L - 3 * w
<1>0. L \in Nat
  BY SeqFacts
<1>1. w \in Nat /\ r \in 0..2 /\ L = 3 * w + r
  BY <1>0
<1>2. PICK core, pads : Encodes(core, pads, bytes)
  BY EncodeSpells
<1>3. /\ core \in Seq(Six) /\ pads \in Seq({Pad}) /\ Base64Encode(bytes) = core \o pads
      /\ \A i \in 0..w : Spells(core, bytes, i)
  BY <1>2 DEF Encodes
<1>4. Len(core) = 4 * w + (IF r = 0 THEN 0 ELSE r + 1)
  BY <1>2 DEF Encodes, CoreLen
<1> HIDE DEF L, w, r
<1> DEFINE symbols == core \o pads
<1>5. Trimmed(symbols) = core
  BY <1>3, TrimPads
<1> HIDE DEF symbols
<1>6. PICK d : Reads(d, core) /\ Base64Decode(symbols) = {d[1..Len(core)].out}
  BY <1>3, <1>5, DecodeRuns
<1>g. ASSUME NEW i \in 0..w, NEW o, d[1..(4 * i)] = Read(0, 0, o)
      PROVE  LET a == ByteAt(bytes, 3 * i + 1)
                 b == ByteAt(bytes, 3 * i + 2)
                 c == ByteAt(bytes, 3 * i + 3)
             IN  /\ 4 * i + 2 <= Len(core) => d[1..(4 * i + 2)] = Read(b \div 16, 4, Append(o, a))
                 /\ 4 * i + 3 <= Len(core) => d[1..(4 * i + 3)] = Read(c \div 64, 2, Append(Append(o, a), b))
                 /\ 4 * i + 4 <= Len(core) => d[1..(4 * i + 4)] = Read(0, 0, Append(Append(Append(o, a), b), c))
  <2>1. i \in Nat /\ Spells(core, bytes, i)
    BY <1>1, <1>3
  <2> QED BY <2>1, <1>g, <1>3, <1>6, GroupReads
<1>p. ASSUME NEW k \in Nat, NEW o, Prefix(o, bytes, 3 * k)
      PROVE  LET a == ByteAt(bytes, 3 * k + 1)
                 b == ByteAt(bytes, 3 * k + 2)
                 c == ByteAt(bytes, 3 * k + 3)
             IN  /\ 3 * k + 1 <= L => Prefix(Append(o, a), bytes, 3 * k + 1)
                 /\ 3 * k + 2 <= L => Prefix(Append(Append(o, a), b), bytes, 3 * k + 2)
                 /\ 3 * k + 3 <= L => Prefix(Append(Append(Append(o, a), b), c), bytes, 3 * k + 3)
  <2> DEFINE m == 3 * k
             a == ByteAt(bytes, m + 1)
             b == ByteAt(bytes, m + 2)
             c == ByteAt(bytes, m + 3)
             oa == Append(o, a)
             ob == Append(oa, b)
             oc == Append(ob, c)
  <2>1. m \in Nat /\ (m + 1) + 1 = m + 2 /\ (m + 2) + 1 = m + 3
    OBVIOUS
  <2>0. Prefix(o, bytes, m)
    BY <1>p
  <2> HIDE DEF m
  <2>2. m + 1 <= L => Prefix(oa, bytes, m + 1)
    BY <2>0, <2>1, PrefixGrows DEF L
  <2> HIDE DEF oa
  <2>3. m + 2 <= L => Prefix(ob, bytes, m + 2)
    <3>1. m + 2 <= L => m + 1 <= L /\ (m + 1) + 1 <= L
      BY <1>0, <2>1
    <3> DEFINE q == m + 1
    <3>2. q \in Nat /\ q + 1 = m + 2
      BY <2>1
    <3>3. m + 2 <= L => Prefix(oa, bytes, q)
      BY <3>1, <2>2
    <3> HIDE DEF q
    <3>4. m + 2 <= L => Prefix(Append(oa, ByteAt(bytes, q + 1)), bytes, q + 1)
      BY <3>2, <3>3, PrefixGrows DEF L
    <3> QED BY <3>2, <3>4
  <2> HIDE DEF ob
  <2>4. m + 3 <= L => Prefix(oc, bytes, m + 3)
    <3>1. m + 3 <= L => m + 2 <= L
      BY <1>0, <2>1
    <3> DEFINE q == m + 2
    <3>2. q \in Nat /\ q + 1 = m + 3
      BY <2>1
    <3>3. m + 3 <= L => Prefix(ob, bytes, q)
      BY <3>1, <2>3
    <3> HIDE DEF q
    <3>4. m + 3 <= L => Prefix(Append(ob, ByteAt(bytes, q + 1)), bytes, q + 1)
      BY <3>2, <3>3, PrefixGrows DEF L
    <3> QED BY <3>2, <3>4
  <2> QED BY <2>2, <2>3, <2>4 DEF oa, ob, m
<1> DEFINE At(k) == \E o : d[1..(4 * k)] = Read(0, 0, o) /\ Prefix(o, bytes, 3 * k)
           P == {k \in Nat : k <= w => At(k)}
<1>7. 0 \in P
  <2>1. d[1..(4 * 0)] = Read(0, 0, <<>>)
    <3>1. 4 * 0 = 0
      OBVIOUS
    <3> QED BY <3>1, <1>6 DEF Reads
  <2>2. Prefix(<<>>, bytes, 3 * 0)
    <3>1. 3 * 0 = 0 /\ 1..0 = {} /\ <<>> \in Seq(Bytes) /\ Len(<<>>) = 0
      BY EmptySeq
    <3> QED BY <3>1 DEF Prefix
  <2> QED BY <2>1, <2>2
<1>8. ASSUME NEW k \in Nat, k \in P PROVE k + 1 \in P
  <2> SUFFICES ASSUME k + 1 <= w PROVE At(k + 1)
    OBVIOUS
  <2>1. k \in 0..w /\ k <= w /\ 4 * k + 4 <= Len(core) /\ 3 * k + 3 <= L
    BY <1>1, <1>4
  <2>2. PICK o : d[1..(4 * k)] = Read(0, 0, o) /\ Prefix(o, bytes, 3 * k)
    BY <2>1, <1>8
  <2> DEFINE oc == Append(Append(Append(o, ByteAt(bytes, 3 * k + 1)), ByteAt(bytes, 3 * k + 2)), ByteAt(bytes, 3 * k + 3))
  <2>3. d[1..(4 * k + 4)] = Read(0, 0, oc)
    BY <2>1, <2>2, <1>g
  <2>4. Prefix(oc, bytes, 3 * k + 3)
    BY <2>1, <2>2, <1>p
  <2> HIDE DEF oc
  <2>5. 4 * (k + 1) = 4 * k + 4 /\ 3 * (k + 1) = 3 * k + 3
    OBVIOUS
  <2>6. d[1..(4 * (k + 1))] = Read(0, 0, oc) /\ Prefix(oc, bytes, 3 * (k + 1))
    BY <2>3, <2>4, <2>5
  <2> QED BY <2>6
<1> HIDE DEF P, At
<1>9. Nat \subseteq P
  BY <1>7, <1>8, NatSet
<1>10. w \in P /\ w <= w
  BY <1>1, <1>9
<1>11. At(w)
  BY <1>10 DEF P
<1>12. PICK o : d[1..(4 * w)] = Read(0, 0, o) /\ Prefix(o, bytes, 3 * w)
  BY <1>11 DEF At
<1>13. w \in 0..w
  BY <1>1
<1>14. ASSUME NEW buf, NEW bits, NEW z, d[1..Len(core)] = Read(buf, bits, z), Prefix(z, bytes, L)
       PROVE  Base64Decode(Base64Encode(bytes)) = {bytes}
  <2>1. z = bytes
    BY <1>14, PrefixIsAll DEF L
  <2>2. Read(buf, bits, z).out = z
    BY DEF Read
  <2> QED BY <2>1, <2>2, <1>14, <1>3, <1>6 DEF symbols
<1> DEFINE a == ByteAt(bytes, 3 * w + 1)
           b == ByteAt(bytes, 3 * w + 2)
           c == ByteAt(bytes, 3 * w + 3)
           oa == Append(o, a)
           ob == Append(oa, b)
<1>15. /\ 4 * w + 2 <= Len(core) => d[1..(4 * w + 2)] = Read(b \div 16, 4, oa)
       /\ 4 * w + 3 <= Len(core) => d[1..(4 * w + 3)] = Read(c \div 64, 2, ob)
  BY <1>12, <1>13, <1>g
<1>16. (3 * w + 1 <= L => Prefix(oa, bytes, 3 * w + 1)) /\ (3 * w + 2 <= L => Prefix(ob, bytes, 3 * w + 2))
  BY <1>1, <1>12, <1>p
<1> HIDE DEF a, b, c, oa, ob
<1>17. CASE r = 0
  <2>1. Len(core) = 4 * w /\ L = 3 * w
    BY <1>1, <1>4, <1>17
  <2> QED BY <2>1, <1>12, <1>14
<1>18. CASE r = 1
  <2>1. Len(core) = 4 * w + 2 /\ L = 3 * w + 1 /\ 4 * w + 2 <= Len(core) /\ 3 * w + 1 <= L
    BY <1>1, <1>4, <1>18
  <2>2. d[1..Len(core)] = Read(b \div 16, 4, oa) /\ Prefix(oa, bytes, L)
    BY <2>1, <1>15, <1>16
  <2> QED BY <2>2, <1>14
<1>19. CASE r = 2
  <2>1. Len(core) = 4 * w + 3 /\ L = 3 * w + 2 /\ 4 * w + 3 <= Len(core) /\ 3 * w + 2 <= L
    BY <1>1, <1>4, <1>19
  <2>2. d[1..Len(core)] = Read(c \div 64, 2, ob) /\ Prefix(ob, bytes, L)
    BY <2>1, <1>15, <1>16
  <2> QED BY <2>2, <1>14
<1> QED BY <1>1, <1>17, <1>18, <1>19

-----------------------------------------------------------------------------
(***************************************************************************)
(* WAV files.  Where a chunk starts: after the header, and after the       *)
(* header, the body and the pad of each chunk before it.                   *)
(***************************************************************************)
After(at, c) == at + 8 + c.size + (c.size % 2)
EndOf(s) == FoldLeft(LAMBDA at, c : at + 8 + c.size + (c.size % 2), 12, s)
Sized(C) == \A c \in C : c.size \in Nat

Steps(t, s) ==
    /\ t[1..0] = 12
    /\ \A k \in 0..Len(s) : t[1..k] \in Nat
    /\ \A k \in 1..Len(s) : t[1..k] = After(t[1..(k - 1)], s[k])

(* EndOf is the loop over the chunks' sizes.                               *)
LEMMA EndRuns ==
    ASSUME NEW C, Sized(C), NEW s \in Seq(C)
    PROVE  \E t : Steps(t, s) /\ EndOf(s) = t[1..Len(s)]
<1> DEFINE n == Len(s)
           Def(d) == [x \in SUBSET (1..n) |-> IF x = {} THEN 12 ELSE After(d[x \ {Max(x)}], s[Max(x)])]
           it == CHOOSE d : d = Def(d)
           st == [p \in Nat \X (1..n) |-> After(p[1], s[p[2]])]
<1>1. n \in Nat /\ DOMAIN s = 1..n /\ \A i \in 1..n : s[i] \in C
  BY SeqFacts
<1>2. EndOf(s) = it[1..n]
  BY <1>1 DEF EndOf, FoldLeft, MapThenFoldSet, After
<1>3. 12 \in Nat
  OBVIOUS
<1>4. ASSUME NEW k \in Nat, NEW i \in 1..n PROVE After(k, s[i]) \in Nat
  <2>1. s[i].size \in Nat
    BY <1>1 DEF Sized
  <2> QED BY <2>1 DEF After
<1>5. IsFoldStep(st, Nat, n) /\ \A k \in Nat, i \in 1..n : st[<<k, i>>] = After(k, s[i])
  BY <1>4 DEF IsFoldStep
<1> HIDE DEF st
<1>6. PICK f : FoldsOver(f, Nat, n, 12, st)
  BY <1>1, <1>3, <1>5, FoldExists
<1>7. f = Def(f)
  <2>1. ASSUME NEW x \in SUBSET (1..n)
        PROVE f[x] = IF x = {} THEN 12 ELSE After(f[x \ {Max(x)}], s[Max(x)])
    <3>1. f[x] = FoldStep(f, x, 12, st)
      BY <1>6 DEF FoldsOver
    <3>2. CASE x = {}
      BY <3>1, <3>2 DEF FoldStep
    <3>3. CASE x # {}
      <4>1. Max(x) \in 1..n /\ x \ {Max(x)} \in SUBSET (1..n)
        BY <3>3, <1>1, MaxInRange
      <4>2. f[x \ {Max(x)}] \in Nat
        BY <4>1, <1>6 DEF FoldsOver
      <4> QED BY <4>1, <4>2, <3>1, <3>3, <1>5 DEF FoldStep
    <3> QED BY <3>2, <3>3
  <2>2. f = [x \in SUBSET (1..n) |-> f[x]]
    BY <1>6 DEF FoldsOver
  <2> QED BY <2>1, <2>2
<1>8. it = Def(it)
  <2> HIDE DEF Def
  <2> QED BY <1>7
<1> HIDE DEF it
<1>9. \A x \in SUBSET (1..n) : it[x] = IF x = {} THEN 12 ELSE After(it[x \ {Max(x)}], s[Max(x)])
  <2> DEFINE e == Def(it)
  <2>1. \A x \in SUBSET (1..n) : e[x] = IF x = {} THEN 12 ELSE After(it[x \ {Max(x)}], s[Max(x)])
    OBVIOUS
  <2>2. e = it
    BY <1>8
  <2> HIDE DEF e
  <2> QED BY <2>1, <2>2
<1>10. FoldLike(it, Nat, n, 12, st)
  <2>1. \A x \in SUBSET (1..n) : x # {} => Max(x) \in 1..n
    BY <1>1, MaxInRange
  <2> QED BY <2>1, <1>5, <1>9 DEF FoldLike
<1>11. Trace(it, Nat, n, 12, st)
  BY <1>1, <1>3, <1>5, <1>10, FoldRuns
<1>12. \A k \in 1..n : it[1..k] = After(it[1..(k - 1)], s[k])
  <2>1. \A k \in 1..n : k - 1 \in 0..n
    BY <1>1
  <2> QED BY <2>1, <1>5, <1>11 DEF Trace
<1>13. Steps(it, s)
  BY <1>11, <1>12 DEF Trace, Steps
<1> QED BY <1>2, <1>13

(* The loops over a list and over one it begins agree as far as the        *)
(* shorter goes.                                                           *)
LEMMA StepsAgree ==
    ASSUME NEW C, NEW a \in Seq(C), NEW b \in Seq(C), Begins(a, b),
           NEW g, NEW h, Steps(g, a), Steps(h, b)
    PROVE  \A k \in 0..Len(a) : g[1..k] = h[1..k]
<1> DEFINE P == {k \in Nat : k \in 0..Len(a) => g[1..k] = h[1..k]}
<1>0. Len(a) \in Nat /\ Len(b) \in Nat
  BY SeqFacts
<1>1. 0 \in P
  BY DEF Steps
<1>2. ASSUME NEW k \in Nat, k \in P PROVE k + 1 \in P
  <2> SUFFICES ASSUME k + 1 \in 0..Len(a) PROVE g[1..(k + 1)] = h[1..(k + 1)]
    OBVIOUS
  <2>1. k \in 0..Len(a) /\ k + 1 \in 1..Len(a) /\ k + 1 \in 1..Len(b) /\ (k + 1) - 1 = k
    BY <1>0 DEF Begins
  <2>2. g[1..k] = h[1..k] /\ a[k + 1] = b[k + 1]
    BY <2>1, <1>2 DEF Begins
  <2>3. g[1..(k + 1)] = After(g[1..k], a[k + 1]) /\ h[1..(k + 1)] = After(h[1..k], b[k + 1])
    BY <2>1 DEF Steps
  <2> QED BY <2>2, <2>3
<1> HIDE DEF P
<1>3. Nat \subseteq P
  BY <1>1, <1>2, NatSet
<1> QED BY <1>3, <1>0 DEF P

Follows(f, i) == WavStart(f, i + 1) = After(WavStart(f, i), f.chunks[i])

(* Where the chunks of a file start: the first after the header, each one  *)
(* after the padded end of the one before.                                 *)
LEMMA WavPlaces ==
    ASSUME NEW C, Sized(C), NEW f, f.chunks \in Seq(C), NEW n, n = Len(f.chunks)
    PROVE  /\ n \in Nat /\ WavStart(f, 1) = 12 /\ \A i \in 1..(n + 1) : WavStart(f, i) \in Nat
           /\ \A i \in 1..n : Follows(f, i) /\ WavStart(f, i + 1) <= WavStart(f, n + 1)
<1> DEFINE s == f.chunks
<1>0. n \in Nat
  BY SeqFacts
<1>1. PICK t : Steps(t, s)
  BY EndRuns
<1>2. ASSUME NEW i \in 1..(n + 1) PROVE WavStart(f, i) = t[1..(i - 1)]
  <2> DEFINE k == i - 1
             a == SubSeq(s, 1, k)
  <2>1. k \in Nat /\ k <= n
    BY <1>0
  <2>2. WavStart(f, i) = EndOf(a)
    BY DEF WavStart, EndOf
  <2> HIDE DEF k
  <2>3. a \in Seq(C) /\ Fits(a, s, 0, k)
    BY <2>1, HeadFits
  <2> HIDE DEF a
  <2>4. Len(a) = k /\ Begins(a, s)
    BY <2>1, <2>3 DEF Fits, Begins
  <2>5. PICK g : Steps(g, a) /\ EndOf(a) = g[1..Len(a)]
    BY <2>3, EndRuns
  <2>6. g[1..k] = t[1..k]
    <3>1. \A j \in 0..Len(a) : g[1..j] = t[1..j]
      BY <2>3, <2>4, <2>5, <1>1, StepsAgree
    <3>2. k \in 0..Len(a)
      BY <2>1, <2>4
    <3> QED BY <3>1, <3>2
  <2> QED BY <2>2, <2>4, <2>5, <2>6 DEF k
<1>3. /\ t[1..0] = 12 /\ \A k \in 0..n : t[1..k] \in Nat
      /\ \A k \in 1..n : t[1..k] = After(t[1..(k - 1)], s[k])
  BY <1>1 DEF Steps
<1>4. WavStart(f, 1) = 12
  <2>1. 1 \in 1..(n + 1) /\ 1 - 1 = 0
    BY <1>0
  <2> QED BY <2>1, <1>2, <1>3
<1>5. \A i \in 1..(n + 1) : WavStart(f, i) \in Nat
  <2>1. \A i \in 1..(n + 1) : i - 1 \in 0..n
    BY <1>0
  <2> QED BY <2>1, <1>2, <1>3
<1>6. ASSUME NEW i \in 1..n PROVE Follows(f, i)
  <2>1. i \in 1..(n + 1) /\ i + 1 \in 1..(n + 1) /\ (i + 1) - 1 = i
    BY <1>0
  <2>2. WavStart(f, i + 1) = t[1..i] /\ WavStart(f, i) = t[1..(i - 1)]
    BY <2>1, <1>2
  <2> QED BY <2>2, <1>3 DEF Follows
<1>7. ASSUME NEW i \in 1..n PROVE WavStart(f, i) <= WavStart(f, i + 1)
  <2> DEFINE x == WavStart(f, i)
             z == s[i].size
  <2>1. i \in 1..(n + 1)
    BY <1>0
  <2>2. x \in Nat
    BY <2>1, <1>5
  <2>3. z \in Nat
    BY SeqFacts DEF Sized
  <2>4. WavStart(f, i + 1) = x + 8 + z + (z % 2)
    BY <1>6 DEF Follows, After
  <2> HIDE DEF x, z
  <2>5. x <= x + 8 + z + (z % 2)
    BY <2>2, <2>3
  <2> QED BY <2>4, <2>5 DEF x
<1> DEFINE P == {j \in Nat : j \in 1..(n + 1) => \A i \in 1..(n + 1) : i <= j => WavStart(f, i) <= WavStart(f, j)}
<1>8. 0 \in P
  BY <1>0
<1>9. ASSUME NEW j \in Nat, j \in P PROVE j + 1 \in P
  <2> SUFFICES ASSUME j + 1 \in 1..(n + 1), NEW i \in 1..(n + 1), i <= j + 1
               PROVE  WavStart(f, i) <= WavStart(f, j + 1)
    OBVIOUS
  <2>1. CASE i = j + 1
    BY <2>1, <1>5
  <2>2. CASE i # j + 1
    <3>1. i <= j /\ j \in 1..n /\ j \in 1..(n + 1)
      BY <2>2, <1>0
    <3>2. WavStart(f, i) <= WavStart(f, j) /\ WavStart(f, j) <= WavStart(f, j + 1)
      BY <3>1, <1>7, <1>9
    <3>3. WavStart(f, i) \in Nat /\ WavStart(f, j) \in Nat /\ WavStart(f, j + 1) \in Nat
      BY <3>1, <1>5
    <3> QED BY <3>2, <3>3
  <2> QED BY <2>1, <2>2
<1> HIDE DEF P
<1>10. Nat \subseteq P
  BY <1>8, <1>9, NatSet
<1>11. \A i \in 1..n : WavStart(f, i + 1) <= WavStart(f, n + 1)
  <2>1. n + 1 \in P /\ n + 1 \in 1..(n + 1) /\ \A i \in 1..n : i + 1 \in 1..(n + 1) /\ i + 1 <= n + 1
    BY <1>0, <1>10
  <2> QED BY <2>1 DEF P
<1> QED BY <1>0, <1>4, <1>5, <1>6, <1>11

(* What decode_wav looks for, and what its walk has found so far.          *)
Fmts(f) == {c \in Range(f.chunks) : c.id = "fmt" /\ c.size >= 16}
Datas(f) == {c \in Range(f.chunks) : c.id = "data"}
Walks(f) == [pos : Nat, fmt : SUBSET Fmts(f), data : SUBSET Datas(f), bad : BOOLEAN]

Treads(t, f) ==
    /\ t[1..0] = Walked(12, {}, {}, FALSE)
    /\ \A k \in 0..Len(f.chunks) : t[1..k] \in Walks(f)
    /\ \A k \in 1..Len(f.chunks) : t[1..k] = WavStep(f, t[1..(k - 1)], k)

(* A chunk at a place of the file is one of the file's chunks.             *)
LEMMA ChunkFound ==
    ASSUME NEW C, Sized(C), NEW f, f.chunks \in Seq(C), NEW i \in 1..Len(f.chunks)
    PROVE  /\ f.chunks[i].size \in Nat /\ f.chunks[i] \in Range(f.chunks)
           /\ f.chunks[i].id = "fmt" /\ f.chunks[i].size >= 16 => f.chunks[i] \in Fmts(f)
           /\ f.chunks[i].id = "data" => f.chunks[i] \in Datas(f)
<1>1. f.chunks[i] \in C /\ DOMAIN f.chunks = 1..Len(f.chunks)
  BY SeqFacts
<1>2. f.chunks[i] \in Range(f.chunks)
  BY <1>1 DEF Range
<1> QED BY <1>1, <1>2 DEF Sized, Fmts, Datas

(* One step of the walk leaves the walker in one of its states.            *)
LEMMA StepWalks ==
    ASSUME NEW C, Sized(C), NEW f, f.chunks \in Seq(C), NEW i \in 1..Len(f.chunks), NEW w \in Walks(f)
    PROVE  WavStep(f, w, i) \in Walks(f)
<1> DEFINE c == f.chunks[i]
           p == w.pos + 8 + WavAdvance(c.size)
           x == IF c.id = "fmt" /\ c.size >= 16 THEN {c} ELSE w.fmt
           d == IF c.id = "data" THEN {c} ELSE w.data
<1>1. w.pos \in Nat /\ w.fmt \in SUBSET Fmts(f) /\ w.data \in SUBSET Datas(f) /\ w.bad \in BOOLEAN
  BY DEF Walks
<1>2. \/ WavStep(f, w, i) = w \/ WavStep(f, w, i) = [w EXCEPT !.bad = TRUE]
      \/ WavStep(f, w, i) = Walked(p, x, d, FALSE)
  BY DEF WavStep
<1>3. /\ c.size \in Nat
      /\ c.id = "fmt" /\ c.size >= 16 => c \in Fmts(f)
      /\ c.id = "data" => c \in Datas(f)
  BY ChunkFound
<1> HIDE DEF c
<1>4. p \in Nat
  <2>1. WavAdvance(c.size) \in Nat
    BY <1>3 DEF WavAdvance
  <2> QED BY <2>1, <1>1
<1>5. x \in SUBSET Fmts(f) /\ d \in SUBSET Datas(f)
  BY <1>1, <1>3
<1> HIDE DEF p, x, d
<1>6. Walked(p, x, d, FALSE) \in Walks(f)
  BY <1>4, <1>5 DEF Walked, Walks
<1>7. [w EXCEPT !.bad = TRUE] \in Walks(f)
  BY DEF Walks
<1> QED BY <1>2, <1>6, <1>7

(* WavWalk is the loop over the chunks.                                    *)
LEMMA WalkRuns ==
    ASSUME NEW C, Sized(C), NEW f, f.chunks \in Seq(C)
    PROVE  \E t : Treads(t, f) /\ WavWalk(f) = t[1..Len(f.chunks)]
<1> DEFINE n == Len(f.chunks)
           V == Walks(f)
           s == [i \in 1..n |-> i]
           Start == Walked(12, {}, {}, FALSE)
           Def(d) == [x \in SUBSET (1..n) |-> IF x = {} THEN Start ELSE WavStep(f, d[x \ {Max(x)}], s[Max(x)])]
           it == CHOOSE d : d = Def(d)
           st == [p \in V \X (1..n) |-> WavStep(f, p[1], p[2])]
<1>1. n \in Nat /\ DOMAIN s = 1..n /\ \A i \in 1..n : s[i] = i
  BY SeqFacts
<1>2. WavWalk(f) = it[1..n]
  BY <1>1 DEF WavWalk, FoldLeft, MapThenFoldSet
<1>3. Start \in V
  BY DEF Walked, Walks
<1> HIDE DEF Start
<1>4. ASSUME NEW k \in V, NEW i \in 1..n PROVE WavStep(f, k, i) \in V
  BY StepWalks
<1> HIDE DEF V, n, s
<1>5. IsFoldStep(st, V, n) /\ \A k \in V, i \in 1..n : st[<<k, i>>] = WavStep(f, k, i)
  BY <1>4 DEF IsFoldStep
<1> HIDE DEF st
<1>6. PICK g : FoldsOver(g, V, n, Start, st)
  BY <1>1, <1>3, <1>5, FoldExists
<1>7. g = Def(g)
  <2>1. ASSUME NEW x \in SUBSET (1..n)
        PROVE g[x] = IF x = {} THEN Start ELSE WavStep(f, g[x \ {Max(x)}], s[Max(x)])
    <3>1. g[x] = FoldStep(g, x, Start, st)
      BY <1>6 DEF FoldsOver
    <3>2. CASE x = {}
      BY <3>1, <3>2 DEF FoldStep
    <3>3. CASE x # {}
      <4>1. Max(x) \in 1..n /\ x \ {Max(x)} \in SUBSET (1..n)
        BY <3>3, <1>1, MaxInRange
      <4>2. g[x \ {Max(x)}] \in V
        BY <4>1, <1>6 DEF FoldsOver
      <4> QED BY <4>1, <4>2, <3>1, <3>3, <1>1, <1>5 DEF FoldStep
    <3> QED BY <3>2, <3>3
  <2>2. g = [x \in SUBSET (1..n) |-> g[x]]
    BY <1>6 DEF FoldsOver
  <2> QED BY <2>1, <2>2
<1>8. it = Def(it)
  <2> HIDE DEF Def
  <2> QED BY <1>7
<1> HIDE DEF it
<1>9. \A x \in SUBSET (1..n) : it[x] = IF x = {} THEN Start ELSE WavStep(f, it[x \ {Max(x)}], s[Max(x)])
  <2> DEFINE e == Def(it)
  <2>1. \A x \in SUBSET (1..n) : e[x] = IF x = {} THEN Start ELSE WavStep(f, it[x \ {Max(x)}], s[Max(x)])
    OBVIOUS
  <2>2. e = it
    BY <1>8
  <2> HIDE DEF e
  <2> QED BY <2>1, <2>2
<1>10. FoldLike(it, V, n, Start, st)
  <2>1. \A x \in SUBSET (1..n) : x # {} => Max(x) \in 1..n
    BY <1>1, MaxInRange
  <2>2. it[{}] = Start
    BY <1>9
  <2>3. ASSUME NEW x \in SUBSET (1..n), x # {}, it[x \ {Max(x)}] \in V
        PROVE  it[x] = st[<<it[x \ {Max(x)}], Max(x)>>]
    <3>1. Max(x) \in 1..n
      BY <2>1, <2>3
    <3>2. it[x] = WavStep(f, it[x \ {Max(x)}], Max(x))
      BY <3>1, <2>3, <1>1, <1>9
    <3> QED BY <3>1, <3>2, <2>3, <1>5
  <2> QED BY <2>2, <2>3 DEF FoldLike
<1>11. Trace(it, V, n, Start, st)
  BY <1>1, <1>3, <1>5, <1>10, FoldRuns
<1>12. \A k \in 1..n : it[1..k] = WavStep(f, it[1..(k - 1)], k)
  <2>1. \A k \in 1..n : k - 1 \in 0..n
    BY <1>1
  <2> QED BY <2>1, <1>5, <1>11 DEF Trace
<1>13. Treads(it, f)
  BY <1>11, <1>12 DEF Trace, Treads, V, n, Start
<1> QED BY <1>2, <1>13 DEF n

(***************************************************************************)
(* Nothing is missed in a file that is all there: the walk steps from      *)
(* chunk to chunk, is never thrown off by a pad byte, and finds a format   *)
(* and a data chunk if there are any.                                      *)
(***************************************************************************)
LEMMA WalkFinds ==
    ASSUME NEW C, Sized(C), NEW f, f.chunks \in Seq(C), f.missing = 0
    PROVE  /\ WavWalk(f).bad = FALSE
           /\ Fmts(f) # {} => WavWalk(f).fmt # {}
           /\ Datas(f) # {} => WavWalk(f).data # {}
<1> DEFINE n == Len(f.chunks)
           end == WavStart(f, n + 1)
<1>1. /\ n \in Nat /\ WavStart(f, 1) = 12 /\ \A i \in 1..(n + 1) : WavStart(f, i) \in Nat
      /\ \A i \in 1..n : Follows(f, i) /\ WavStart(f, i + 1) <= WavStart(f, n + 1)
  BY WavPlaces
<1>2. WavLength(f) = end /\ end \in Nat
  <2>1. n + 1 \in 1..(n + 1)
    BY <1>1
  <2>2. end \in Nat
    BY <2>1, <1>1
  <2> HIDE DEF end
  <2>3. WavLength(f) = end - 0
    BY DEF WavLength, end
  <2> QED BY <2>2, <2>3
<1> HIDE DEF end
<1>3. PICK t : Treads(t, f) /\ WavWalk(f) = t[1..n]
  BY WalkRuns
<1>4. /\ t[1..0] = Walked(12, {}, {}, FALSE)
      /\ \A k \in 0..n : t[1..k] \in Walks(f)
      /\ \A k \in 1..n : t[1..k] = WavStep(f, t[1..(k - 1)], k)
  BY <1>3 DEF Treads
<1> DEFINE Has(w, k) == /\ w.bad = FALSE /\ w.pos = WavStart(f, k + 1)
                        /\ \A j \in 1..k : f.chunks[j] \in Fmts(f) => w.fmt # {}
                        /\ \A j \in 1..k : f.chunks[j] \in Datas(f) => w.data # {}
           P == {k \in Nat : k <= n => Has(t[1..k], k)}
<1>5. 0 \in P
  <2>1. Walked(12, {}, {}, FALSE).bad = FALSE /\ Walked(12, {}, {}, FALSE).pos = 12
    BY DEF Walked
  <2>2. 0 + 1 = 1 /\ 1..0 = {}
    OBVIOUS
  <2> QED BY <2>1, <2>2, <1>1, <1>4
<1>6. ASSUME NEW k \in Nat, k \in P PROVE k + 1 \in P
  <2> SUFFICES ASSUME k + 1 <= n PROVE Has(t[1..(k + 1)], k + 1)
    <3> HIDE DEF Has
    <3> QED BY DEF P
  <2> DEFINE i == k + 1
             w == t[1..k]
             v == t[1..i]
             c == f.chunks[i]
             z == c.size
             pos == WavStart(f, i)
             pad == z % 2
  <2>1. k <= n /\ i \in 1..n /\ i \in 1..(n + 1) /\ i - 1 = k
    BY <1>1
  <2>2. Has(w, k)
    BY <2>1, <1>6
  <2>3. v = WavStep(f, w, i)
    BY <2>1, <1>4
  <2>4. /\ z \in Nat
        /\ c.id = "fmt" /\ z >= 16 => c \in Fmts(f)
        /\ c.id = "data" => c \in Datas(f)
    BY <2>1, ChunkFound
  <2>5. WavStart(f, i + 1) = pos + 8 + z + pad /\ WavStart(f, i + 1) <= end /\ pos \in Nat
    BY <2>1, <1>1 DEF Follows, After, end
  <2>6. w.bad = FALSE /\ w.pos = pos
    BY <2>2
  <2>7. c \in Fmts(f) => c.id = "fmt" /\ z >= 16
    BY DEF Fmts
  <2>8. c \in Datas(f) => c.id = "data"
    BY DEF Datas
  <2> HIDE DEF i, w, v, c, z, pos
  <2>9. pad \in Nat /\ WavAdvance(z) = z + pad
    BY <2>4 DEF WavAdvance
  <2> HIDE DEF pad
  <2>10. ~(pos + 8 > end) /\ ~(pos + 8 + z > end)
    BY <2>4, <2>5, <2>9, <1>2
  <2> DEFINE x == IF c.id = "fmt" /\ z >= 16 THEN {c} ELSE w.fmt
             d == IF c.id = "data" THEN {c} ELSE w.data
  <2>11. v = Walked(pos + 8 + WavAdvance(z), x, d, FALSE)
    <3>1. ~(w.bad \/ w.pos + 8 > WavLength(f))
          /\ ~(w.pos # WavStart(f, i) \/ w.pos + 8 + z > WavLength(f))
      BY <2>6, <2>10, <1>2 DEF pos
    <3>2. WavStep(f, w, i) = IF w.bad \/ w.pos + 8 > WavLength(f) THEN w
             ELSE IF w.pos # WavStart(f, i) \/ w.pos + 8 + z > WavLength(f) THEN [w EXCEPT !.bad = TRUE]
             ELSE Walked(w.pos + 8 + WavAdvance(z), x, d, FALSE)
      BY DEF WavStep, c, z
    <3> QED BY <3>1, <3>2, <2>3, <2>6
  <2>12. v.bad = FALSE /\ v.pos = pos + 8 + WavAdvance(z) /\ v.fmt = x /\ v.data = d
    BY <2>11 DEF Walked
  <2>13. v.pos = WavStart(f, i + 1)
    BY <2>5, <2>9, <2>12, <2>4
  <2>14. ASSUME NEW j \in 1..i, f.chunks[j] \in Fmts(f) PROVE v.fmt # {}
    <3>1. CASE j = i
      BY <3>1, <2>7, <2>12, <2>14 DEF c
    <3>2. CASE j # i
      <4>1. j \in 1..k
        BY <3>2 DEF i
      <4> QED BY <4>1, <2>2, <2>12, <2>14
    <3> QED BY <3>1, <3>2
  <2>15. ASSUME NEW j \in 1..i, f.chunks[j] \in Datas(f) PROVE v.data # {}
    <3>1. CASE j = i
      BY <3>1, <2>8, <2>12, <2>15 DEF c
    <3>2. CASE j # i
      <4>1. j \in 1..k
        BY <3>2 DEF i
      <4> QED BY <4>1, <2>2, <2>12, <2>15
    <3> QED BY <3>1, <3>2
  <2>16. Has(v, i)
    BY <2>12, <2>13, <2>14, <2>15
  <2> QED BY <2>16 DEF v, i
<1> HIDE DEF P, Has
<1>7. Nat \subseteq P
  BY <1>5, <1>6, NatSet
<1>8. n \in P /\ n <= n
  BY <1>1, <1>7
<1>9. Has(WavWalk(f), n)
  BY <1>3, <1>8 DEF P
<1>10. \A c \in Range(f.chunks) : \E j \in 1..n : c = f.chunks[j]
  <2>1. DOMAIN f.chunks = 1..n
    BY SeqFacts
  <2> QED BY <2>1 DEF Range
<1> QED BY <1>9, <1>10 DEF Has, Fmts, Datas

Width(c) == IF c.tag = 1 THEN 2 ELSE 4
MonoPcm(f) == \A c \in Fmts(f) : c.rate = 16000 /\ ((c.tag = 1 /\ c.bits = 16) \/ (c.tag = 3 /\ c.bits = 32))
Heard(f, given) == \E x \in Fmts(f), d \in Datas(f) : given = <<d.size \div Width(x)>>
Unheard(f) ==
    \/ Fmts(f) = {} \/ Datas(f) = {}
    \/ \E x \in Fmts(f), d \in Datas(f) : x.channels # 1 \/ d.size % Width(x) # 0

(* What decode_wav makes of a file: the samples of a data chunk as a       *)
(* format chunk has them, or a refusal with a reason.                      *)
LEMMA WavIsDecoded ==
    ASSUME NEW C, Sized(C), NEW f, f.chunks \in Seq(C), NEW samples, samples = DecodeWav(f)
    PROVE  /\ samples # -1 => Heard(f, <<samples>>)
           /\ samples = -1 /\ f.header /\ f.missing = 0 /\ MonoPcm(f) => Unheard(f)
<1> DEFINE w == WavWalk(f)
           x == CHOOSE c \in w.fmt : TRUE
           d == CHOOSE c \in w.data : TRUE
<1>0. w \in Walks(f)
  <2>1. PICK t : Treads(t, f) /\ WavWalk(f) = t[1..Len(f.chunks)]
    BY WalkRuns
  <2>2. Len(f.chunks) \in 0..Len(f.chunks)
    BY SeqFacts
  <2> QED BY <2>1, <2>2 DEF Treads
<1>1. w.fmt \subseteq Fmts(f) /\ w.data \subseteq Datas(f)
  BY <1>0 DEF Walks
<1>2. samples = IF ~f.header \/ w.bad \/ w.fmt = {} \/ w.data = {} THEN -1
                ELSE IF x.channels # 1 \/ x.rate # 16000 THEN -1
                ELSE CASE x.tag = 1 /\ x.bits = 16 -> DecodePcm16(d.size)
                       [] x.tag = 3 /\ x.bits = 32 -> DecodePcmF32(d.size)
                       [] OTHER -> -1
  BY DEF DecodeWav
<1>3. (w.fmt # {} => x \in w.fmt) /\ (w.data # {} => d \in w.data)
  OBVIOUS
<1>4. \A c \in Datas(f) : c.size \in Nat
  <2>1. \A c \in Range(f.chunks) : \E i \in 1..Len(f.chunks) : c = f.chunks[i]
    <3>1. DOMAIN f.chunks = 1..Len(f.chunks)
      BY SeqFacts
    <3> QED BY <3>1 DEF Range
  <2> QED BY <2>1, ChunkFound DEF Datas
<1>5. f.missing = 0 => w.bad = FALSE /\ (Fmts(f) # {} => w.fmt # {}) /\ (Datas(f) # {} => w.data # {})
  BY WalkFinds
<1> HIDE DEF w, x, d
<1>6. CASE ~f.header \/ w.bad \/ w.fmt = {} \/ w.data = {}
  <2>1. samples = -1
    BY <1>2, <1>6
  <2> QED BY <2>1, <1>5, <1>6 DEF Unheard
<1>7. CASE ~(~f.header \/ w.bad \/ w.fmt = {} \/ w.data = {})
  <2>1. x \in Fmts(f) /\ d \in Datas(f) /\ d.size \in Nat
    BY <1>1, <1>3, <1>4, <1>7
  <2> DEFINE z == d.size
  <2>2. CASE x.channels # 1 \/ x.rate # 16000
    <3>1. samples = -1
      BY <1>2, <1>7, <2>2
    <3> QED BY <3>1, <2>1, <2>2 DEF Unheard, MonoPcm
  <2>3. CASE x.channels = 1 /\ x.rate = 16000 /\ x.tag = 1 /\ x.bits = 16
    <3>1. samples = DecodePcm16(z)
      BY <1>2, <1>7, <2>3
    <3>2. Width(x) = 2
      BY <2>3 DEF Width
    <3> HIDE DEF z
    <3>3. z \in Nat
      BY <2>1 DEF z
    <3>4. (z % 2 # 0 /\ samples = -1) \/ (samples = z \div 2 /\ samples # -1)
      BY <3>1, <3>3 DEF DecodePcm16
    <3>5. CASE z % 2 # 0 /\ samples = -1
      BY <3>5, <3>2, <2>1 DEF Unheard, z
    <3>6. CASE samples = z \div 2 /\ samples # -1
      <4>1. <<samples>> = <<d.size \div Width(x)>>
        BY <3>6, <3>2 DEF z
      <4>2. Heard(f, <<samples>>)
        BY <4>1, <2>1 DEF Heard
      <4> QED BY <3>6, <4>2
    <3> QED BY <3>4, <3>5, <3>6
  <2>4. CASE x.channels = 1 /\ x.rate = 16000 /\ ~(x.tag = 1 /\ x.bits = 16) /\ x.tag = 3
             /\ x.bits = 32
    <3>1. samples = DecodePcmF32(z)
      BY <1>2, <1>7, <2>4
    <3>2. Width(x) = 4
      BY <2>4 DEF Width
    <3> HIDE DEF z
    <3>3. z \in Nat
      BY <2>1 DEF z
    <3>4. (z % 4 # 0 /\ samples = -1) \/ (samples = z \div 4 /\ samples # -1)
      BY <3>1, <3>3 DEF DecodePcmF32
    <3>5. CASE z % 4 # 0 /\ samples = -1
      BY <3>5, <3>2, <2>1 DEF Unheard, z
    <3>6. CASE samples = z \div 4 /\ samples # -1
      <4>1. <<samples>> = <<d.size \div Width(x)>>
        BY <3>6, <3>2 DEF z
      <4>2. Heard(f, <<samples>>)
        BY <4>1, <2>1 DEF Heard
      <4> QED BY <3>6, <4>2
    <3> QED BY <3>4, <3>5, <3>6
  <2>5. CASE /\ x.channels = 1 /\ x.rate = 16000
             /\ ~(x.tag = 1 /\ x.bits = 16) /\ ~(x.tag = 3 /\ x.bits = 32)
    <3>1. samples = -1
      BY <1>2, <1>7, <2>5
    <3>2. ~MonoPcm(f)
      BY <2>1, <2>5 DEF MonoPcm
    <3> QED BY <3>1, <3>2
  <2> QED BY <2>2, <2>3, <2>4, <2>5
<1> QED BY <1>6, <1>7

(* The files whisper is given.                                             *)
FmtChunks == {Fmt(16, 1, 1, 16000, 16), Fmt(18, 3, 1, 16000, 32), Fmt(16, 1, 2, 16000, 16), Fmt(14, 1, 1, 16000, 16)}
OtherChunks == {OtherChunk("LIST", 3), OtherChunk("data", 4), OtherChunk("data", 6)}

IsWav(f, C) == f.chunks \in Seq(C) /\ Sized(C) /\ MonoPcm(f)

(* The files the runs offer are WAV files in that sense.                   *)
LEMMA FilesAreWav ==
    ASSUME NEW f \in WavFiles
    PROVE  IsWav(f, FmtChunks \cup OtherChunks)
<1> DEFINE C == FmtChunks \cup OtherChunks
           files == {<<a, b, c>> : a \in FmtChunks, b \in OtherChunks, c \in OtherChunks}
                      \cup {<<a, b>> : a \in OtherChunks, b \in FmtChunks}
<1>0. WavFiles = [header : {TRUE}, missing : {0, 1, 9}, chunks : files]
                   \cup [header : {FALSE}, missing : {0}, chunks : {<<>>}]
  BY DEF WavFiles, FmtChunks, OtherChunks
<1>1. f.chunks \in files \/ f.chunks = <<>>
  <2> HIDE DEF files
  <2> QED BY <1>0
<1>2. ASSUME NEW c \in FmtChunks
      PROVE  c.size \in Nat /\ c.rate = 16000 /\ ((c.tag = 1 /\ c.bits = 16) \/ (c.tag = 3 /\ c.bits = 32))
  BY DEF FmtChunks, Fmt
<1>3. ASSUME NEW c \in OtherChunks PROVE c.size \in Nat /\ c.id # "fmt"
  BY DEF OtherChunks, OtherChunk
<1>4. Sized(C)
  BY <1>2, <1>3 DEF Sized
<1> HIDE DEF C
<1>c. FmtChunks \subseteq C /\ OtherChunks \subseteq C /\ \A c \in C : c \in FmtChunks \/ c \in OtherChunks
  BY DEF C
<1>5. f.chunks \in Seq(C)
  <2>1. ASSUME NEW a \in C, NEW b \in C, NEW c \in C
        PROVE <<a, b, c>> \in Seq(C) /\ <<a, b>> \in Seq(C)
    OBVIOUS
  <2>2. <<>> \in Seq(C)
    BY EmptySeq
  <2>3. \A s \in files : s \in Seq(C)
    BY <2>1, <1>c
  <2> HIDE DEF files
  <2> QED BY <2>2, <2>3, <1>1
<1>6. MonoPcm(f)
  <2>1. ASSUME NEW c \in Range(f.chunks) PROVE c \in C
    BY <1>5, SeqFacts DEF Range
  <2> QED BY <2>1, <1>c, <1>2, <1>3 DEF MonoPcm, Fmts
<1> QED BY <1>4, <1>5, <1>6 DEF C, IsWav

Raw(f, n) == [SpeechInput EXCEPT !.format = f, !.size = n]

(* A raw payload is not a WAV file.                                        *)
LEMMA RawIsNotWav ==
    ASSUME NEW b, b \in {Raw(f, n) : f \in Formats \ {"Wav"}, n \in {3, 6, 8}}
    PROVE  b.format # "Wav"
<1>1. PICK f \in Formats \ {"Wav"}, n \in {3, 6, 8} : b = Raw(f, n)
  OBVIOUS
<1>2. b = [SpeechInput EXCEPT !.format = f, !.size = n]
  BY <1>1 DEF Raw
<1>3. b.format = f
  BY <1>2 DEF SpeechInput
<1> QED BY <1>3

OptionBatches == {[SpeechInput EXCEPT !.options = o] : o \in {"transcribe", "audio2face"}}
PayloadBatches == {[SpeechInput EXCEPT !.payload = p] : p \in {"path", "missing_path", "url", "stream"}}
ParamBatches == {[SpeechInput EXCEPT !.params = q] : q \in {Params(8000, 1), Params(16000, 2)}}
RawBatches == {Raw(f, n) : f \in Formats \ {"Wav"}, n \in {3, 6, 8}}
WavBatches == {[SpeechInput EXCEPT !.format = "Wav", !.wav = w] : w \in WavFiles}

(* The batches a transcriber is offered, by kind.                          *)
LEMMA WhisperSets ==
    SpeechBatches("whisper") = OptionBatches \cup PayloadBatches \cup ParamBatches \cup RawBatches \cup WavBatches
BY DEF SpeechBatches, OptionBatches, PayloadBatches, ParamBatches, RawBatches, WavBatches, Raw

(* A WAV batch of theirs holds a WAV file as bytes.                        *)
LEMMA WhisperBatches ==
    ASSUME NEW b \in SpeechBatches("whisper"), b.format = "Wav"
    PROVE  b.wav \in WavFiles /\ b.payload = "bytes" /\ b.params = Params(16000, 1)
<1>1. b \notin OptionBatches
  BY DEF OptionBatches, SpeechInput
<1>2. b \notin PayloadBatches
  BY DEF PayloadBatches, SpeechInput
<1>3. b \notin ParamBatches
  BY DEF ParamBatches, SpeechInput
<1>4. b \notin RawBatches
  BY RawIsNotWav DEF RawBatches
<1>5. b \in WavBatches
  BY <1>1, <1>2, <1>3, <1>4, WhisperSets
<1>6. PICK w \in WavFiles : b = [SpeechInput EXCEPT !.format = "Wav", !.wav = w]
  BY <1>5 DEF WavBatches
<1>7. b.wav = w /\ b.payload = "bytes" /\ b.params = Params(16000, 1)
  BY <1>6 DEF SpeechInput
<1> QED BY <1>7

(* Whisper with a WAV file: what it decodes is what the file holds.        *)
LEMMA WavIsHeard ==
    ASSUME NEW b \in SpeechBatches("whisper"), b.format = "Wav"
    PROVE  /\ PayloadToPcm(b, 16000) # -1 => Heard(b.wav, <<PayloadToPcm(b, 16000)>>)
           /\ PayloadToPcm(b, 16000) = -1 /\ b.wav.header /\ b.wav.missing = 0 => Unheard(b.wav)
<1>1. b.wav \in WavFiles /\ b.payload = "bytes" /\ b.params = Params(16000, 1)
  BY WhisperBatches
<1>2. CheckParams(b.params, 16000)
  BY <1>1 DEF CheckParams, Params
<1>3. DecodeBytes(b) = DecodeWav(b.wav)
  BY DEF DecodeBytes
<1>4. PayloadToPcm(b, 16000) = DecodeWav(b.wav)
  BY <1>1, <1>2, <1>3 DEF PayloadToPcm
<1> DEFINE C == FmtChunks \cup OtherChunks
           f == b.wav
<1>5. f.chunks \in Seq(C) /\ Sized(C) /\ MonoPcm(f)
  <2>1. IsWav(f, C)
    BY <1>1, FilesAreWav
  <2> QED BY <2>1 DEF IsWav
<1> HIDE DEF C, f
<1>6. /\ DecodeWav(f) # -1 => Heard(f, <<DecodeWav(f)>>)
      /\ DecodeWav(f) = -1 /\ f.header /\ f.missing = 0 /\ MonoPcm(f) => Unheard(f)
  BY <1>5, WavIsDecoded
<1> QED BY <1>4, <1>5, <1>6 DEF f

-----------------------------------------------------------------------------
(* The waveform, saturated.                                                *)
Saturated(s) == [i \in 1..Len(s) |-> IF s[i] > 100 THEN 100 ELSE s[i]]
Scripted(n) == [i \in 1..n |-> [final |-> i = n, audio |-> <<i>>]]

(* The scripted chunks carry the whole of the script.                      *)
LEMMA ScriptIsWhole ==
    ASSUME NEW n \in Nat, n <= 100
    PROVE  FlattenSeq(AudioOf(Scripted(n))) = Saturated([i \in 1..n |-> i])
<1> DEFINE t == [i \in 1..n |-> i]
           out == Scripted(n)
           seqs == AudioOf(out)
           cut == [k \in 0..n |-> k]
<1>1. t \in Seq(Nat) /\ Len(t) = n /\ \A i \in 1..n : t[i] = i
  <2>1. t \in [1..n -> Nat]
    OBVIOUS
  <2> QED BY <2>1, SeqDef, LenOfItems
<1>2. Len(out) = n /\ \A i \in 1..n : out[i].audio = <<i>>
  <2>1. out = [i \in 1..n |-> [final |-> i = n, audio |-> <<i>>]]
    BY DEF Scripted
  <2> QED BY <2>1, LenOfItems
<1> HIDE DEF out
<1>3. seqs = [i \in 1..n |-> <<i>>]
  BY <1>2 DEF AudioOf
<1>4. seqs \in Seq(Seq(Nat)) /\ Len(seqs) = n /\ \A i \in 1..n : seqs[i] = <<i>>
  <2>1. \A i \in 1..n : <<i>> \in Seq(Nat)
    OBVIOUS
  <2>2. seqs \in [1..n -> Seq(Nat)]
    BY <1>3, <2>1
  <2> QED BY <1>3, <2>2, SeqDef, LenOfItems
<1>5. cut \in [0..n -> Nat] /\ cut[0] = 0 /\ cut[n] = n
  OBVIOUS
<1> HIDE DEF t, seqs
<1>6. ASSUME NEW k \in 1..n PROVE Fits(seqs[k], t, cut[k - 1], cut[k])
  <2>1. cut[k - 1] = k - 1 /\ cut[k] = k
    OBVIOUS
  <2> DEFINE z == <<k>>
  <2>2. seqs[k] = z /\ Len(z) = 1 /\ z[1] = k
    BY <1>4
  <2> HIDE DEF z, cut
  <2>3. k - (k - 1) = 1 /\ k - 1 <= k /\ k <= n /\ (k - 1) + 1 = k /\ 1..1 = {1}
    OBVIOUS
  <2>4. Fits(z, t, k - 1, k)
    BY <2>2, <2>3, <1>1 DEF Fits
  <2> QED BY <2>1, <2>2, <2>4
<1> HIDE DEF cut
<1>7. FlattenSeq(seqs) = t
  BY <1>1, <1>4, <1>5, <1>6, FlattenFits
<1>8. Saturated(t) = t
  <2>1. \A i \in 1..n : (IF t[i] > 100 THEN 100 ELSE t[i]) = t[i]
    BY <1>1
  <2>2. t = [i \in 1..n |-> t[i]]
    BY DEF t
  <2> QED BY <1>1, <2>1, <2>2 DEF Saturated
<1> QED BY <1>7, <1>8 DEF seqs, out, t

(* The scripts the runs offer.                                             *)
LEMMA ScriptSizes ==
    ASSUME NEW b \in SpeechBatches("mock_tts")
    PROVE  b.size \in 0..2
<1>0. SpeechBatches("mock_tts") = {[SpeechInput EXCEPT !.size = n, !.units = u] : n \in 0..2, u \in 0..2}
  BY DEF SpeechBatches
<1>1. PICK n \in 0..2, u \in 0..2 : b = [SpeechInput EXCEPT !.size = n, !.units = u]
  BY <1>0
<1>2. b.size = n
  BY <1>1 DEF SpeechInput
<1> QED BY <1>2

(* Clamping the synthesizer's waveform saturates it.                       *)
LEMMA WaveIsSaturated ==
    ASSUME NEW b, b.size \in Nat
    PROVE  Clamped(Waveform(b)) = Saturated(Waveform(b))
<1> DEFINE s == Waveform(b)
<1>1. s \in Seq(Int) /\ Len(s) = b.size /\ \A i \in 1..b.size : s[i] = 90 * i
  BY WaveformIsSeq DEF Waveform
<1> HIDE DEF s
<1>2. \A i \in 1..b.size : Clamp(s[i]) = IF s[i] > 100 THEN 100 ELSE s[i]
  BY <1>1 DEF Clamp
<1> QED BY <1>1, <1>2 DEF Clamped, Saturated, s

(* What Replay is given are bytes.                                         *)
LEMMA ReplayBytes ==
    ASSUME NEW b \in SpeechBatches("replay")
    PROVE  b.bytes \in Seq(Bytes)
<1>0. SpeechBatches("replay") = {[SpeechInput EXCEPT !.bytes = s] : s \in SeqOf({0, 1, 171, 255}, 4)}
  BY DEF SpeechBatches
<1>1. PICK s \in SeqOf({0, 1, 171, 255}, 4) : b = [SpeechInput EXCEPT !.bytes = s]
  BY <1>0
<1>2. b.bytes = s
  BY <1>1 DEF SpeechInput
<1>3. s \in Seq(Bytes)
  <2>1. PICK m \in 0..4 : s \in [1..m -> {0, 1, 171, 255}]
    BY DEF SeqOf
  <2>2. s \in [1..m -> Bytes] /\ m \in Nat
    BY <2>1 DEF Bytes
  <2> QED BY <2>2, SeqDef
<1> QED BY <1>2, <1>3

-----------------------------------------------------------------------------
(* What a finished call of a speech runner has kept of its signal.         *)
Whole(j, kind) ==
    j.phase = "ended" =>
        /\ kind = "replay" => j.err = None /\ j.out = j.given
        /\ kind \in {"piper", "mock_tts"} /\ j.err = None => FlattenSeq(AudioOf(j.out)) = Saturated(j.given)
        /\ kind = "whisper" /\ j.model # 0 /\ j.batch.format = "Wav" =>
             /\ j.err = None => Heard(j.batch.wav, j.given)
             /\ j.err = "UnsupportedAudioFormat" /\ j.batch.wav.header /\ j.batch.wav.missing = 0 =>
                  Unheard(j.batch.wav)

(* Until the session is there no model has been used; whisper's batch      *)
(* stays what it was.                                                      *)
SignalInv ==
    /\ job.phase \in {"new"} \cup Loading => job.model = 0
    /\ job.phase \in Loading \cup {"run"} => runner.kind \in Lazy
    /\ runner.kind = "whisper" /\ job.phase \in Loading \cup {"run"} => job.batch \in SpeechBatches("whisper")
    /\ Whole(job, runner.kind)

(* Every step of an in-process runner keeps the signal whole.              *)
LEMMA SignalKept ==
    ASSUME JobShape, LocalInv, SignalInv, SpeechNext \/ UNCHANGED speechVars
    PROVE  SignalInv'
<1>r. runner' = runner /\ (job' = job \/ JobMove)
  BY JobSteps
<1>k. \A k \in Kinds : k # None
  BY DEF Kinds, None
<1>q. "UnsupportedAudioFormat" # None /\ "Internal" # None
  BY DEF None
<1>n. ASSUME job'.phase = "new", job'.model = 0 PROVE SignalInv'
  BY <1>n DEF SignalInv, Whole, Loading
<1>e. ASSUME job'.phase = "ended", Whole(job', runner.kind) PROVE SignalInv'
  BY <1>e, <1>r DEF SignalInv, Loading
<1>t. ASSUME NEW b, Turned(b), runner.kind # "replay", job.model = 0 \/ runner.kind = "piper"
      PROVE SignalInv'
  <2>1. job'.phase = "ended" /\ job'.err # None /\ job'.model = job.model
    BY <1>t, <1>k DEF Turned, Ends
  <2>2. Whole(job', runner.kind)
    BY <2>1, <1>t DEF Whole
  <2> QED BY <2>1, <2>2, <1>e
<1>1. CASE job' = job
  BY <1>1, <1>r DEF SignalInv
<1>2. ASSUME NEW b \in SpeechBatches(runner.kind), Launches(b) PROVE SignalInv'
  <2>0. job.phase = "new" /\ job.model = 0
    BY <1>2 DEF Launches, SignalInv
  <2>1. CASE runner.kind \in Lazy /\ job'.phase = "session" /\ job'.batch = b
             /\ job'.model = job.model
    BY <2>0, <2>1, <1>r DEF SignalInv, Whole, Loading
  <2>2. CASE runner.kind # "replay" /\ Turned(b)
    BY <2>0, <2>2, <1>t
  <2>3. CASE Plays(b)
    <3>1. ASSUME runner.kind = "mock_tts",
                 Ends(b, None, [i \in 1..b.size |-> i],
                      [i \in 1..b.size |-> [final |-> i = b.size, audio |-> <<i>>]])
          PROVE  SignalInv'
      <4>1. b.size \in 0..2
        BY <3>1, ScriptSizes
      <4>2. job'.phase = "ended" /\ job'.out = Scripted(b.size)
            /\ job'.given = [i \in 1..b.size |-> i]
        BY <3>1 DEF Ends, Scripted
      <4>3. b.size \in Nat /\ b.size <= 100
        BY <4>1
      <4>4. FlattenSeq(AudioOf(job'.out)) = Saturated(job'.given)
        BY <4>2, <4>3, ScriptIsWhole
      <4>5. Whole(job', runner.kind)
        BY <4>4, <3>1 DEF Whole
      <4> QED BY <4>2, <4>5, <1>e
    <3>2. ASSUME runner.kind \in {"mock_stt", "mock_a2f"}, NEW out, Ends(b, None, <<>>, out)
          PROVE SignalInv'
      <4>1. job'.phase = "ended" /\ Whole(job', runner.kind)
        BY <3>2 DEF Ends, Whole
      <4> QED BY <4>1, <1>e
    <3> QED BY <2>3, <3>1, <3>2 DEF Plays
  <2>4. CASE Serves(b)
    <3>1. job'.phase = "ended" /\ Whole(job', runner.kind)
      BY <2>4 DEF Serves, Ends, Whole
    <3> QED BY <3>1, <1>e
  <2>5. CASE Replays(b)
    <3>1. b.bytes \in Seq(Bytes) /\ runner.kind = "replay"
      BY <2>5, ReplayBytes DEF Replays
    <3>2. Restored(b) = {b.bytes}
      BY <3>1, Base64RoundTrip DEF Restored
    <3>3. Restored(b) # {} /\ (CHOOSE x \in Restored(b) : TRUE) = b.bytes
      BY <3>2
    <3>4. Ends(b, None, b.bytes, b.bytes)
      BY <2>5, <3>3 DEF Replays
    <3>5. job'.phase = "ended" /\ Whole(job', runner.kind)
      BY <3>1, <3>4 DEF Ends, Whole
    <3> QED BY <3>5, <1>e
  <2> QED BY <1>2, <2>1, <2>2, <2>3, <2>4, <2>5 DEF Launches
<1>3. CASE Prepares
  <2>1. job.phase \in Loading /\ job'.phase \in {"manifest", "load", "run"}
        /\ job'.batch = job.batch
    BY <1>3 DEF Prepares
  <2>2. job'.phase \in Loading => job'.model = 0
    BY <1>3, <2>1 DEF Prepares, SignalInv, Loading
  <2> QED BY <2>1, <2>2, <1>r DEF SignalInv, Whole, Loading
<1>4. CASE job.phase \in Loading /\ Turned(job.batch)
  <2>1. job.model = 0 /\ runner.kind # "replay"
    BY <1>4 DEF SignalInv, Lazy
  <2> QED BY <1>4, <2>1, <1>t
<1>5. CASE Listens
  <2> DEFINE b == job.batch
             samples == PayloadToPcm(b, 16000)
  <2>1. runner.kind = "whisper" /\ b \in SpeechBatches("whisper")
    BY <1>5 DEF Listens, SignalInv
  <2> HIDE DEF b
  <2>2. b.format = "Wav" => /\ samples # -1 => Heard(b.wav, <<samples>>)
                            /\ samples = -1 /\ b.wav.header /\ b.wav.missing = 0 => Unheard(b.wav)
    BY <2>1, WavIsHeard
  <2>3. \/ samples = -1 /\ Ends(b, "UnsupportedAudioFormat", <<>>, <<>>)
        \/ samples # -1 /\ \E out : Ends(b, None, <<samples>>, out)
        \/ Ends(b, "Internal", <<>>, <<>>)
    BY <1>5 DEF Listens, b
  <2> HIDE DEF samples
  <2>4. CASE samples = -1 /\ Ends(b, "UnsupportedAudioFormat", <<>>, <<>>)
    <3>1. job'.phase = "ended" /\ Whole(job', runner.kind)
      BY <2>1, <2>2, <2>4, <1>q DEF Ends, Whole
    <3> QED BY <3>1, <1>e
  <2>5. ASSUME samples # -1, NEW out, Ends(b, None, <<samples>>, out) PROVE SignalInv'
    <3>1. job'.phase = "ended" /\ Whole(job', runner.kind)
      BY <2>1, <2>2, <2>5, <1>q DEF Ends, Whole
    <3> QED BY <3>1, <1>e
  <2>6. CASE Ends(b, "Internal", <<>>, <<>>)
    <3>1. job'.phase = "ended" /\ Whole(job', runner.kind)
      BY <2>1, <2>6, <1>q DEF Ends, Whole
    <3> QED BY <3>1, <1>e
  <2> QED BY <2>3, <2>4, <2>5, <2>6
<1>6. CASE Utters
  <2>1. runner.kind = "piper" /\ job.batch.size \in Nat
    BY <1>6 DEF Utters, LocalInv, LoadingInv
  <2>2. ASSUME NEW n \in 0..2, Ends(job.batch, None, Waveform(job.batch), PcmChunks(Waveform(job.batch), AtLeastOne(n)))
        PROVE SignalInv'
    <3> DEFINE pcm == Waveform(job.batch)
               size == AtLeastOne(n)
               out == PcmChunks(pcm, size)
    <3>1. pcm \in Seq(Int) /\ Clamped(pcm) = Saturated(pcm)
      BY <2>1, WaveformIsSeq, WaveIsSaturated
    <3>2. size \in Nat /\ size # 0
      BY DEF AtLeastOne
    <3>3. Ends(job.batch, None, pcm, out)
      BY <2>2
    <3> HIDE DEF pcm, size
    <3>4. FlattenSeq(AudioOf(out)) = Saturated(pcm)
      BY <3>1, <3>2, PcmIsWhole
    <3> HIDE DEF out
    <3>5. job'.phase = "ended" /\ Whole(job', runner.kind)
      BY <3>3, <3>4, <2>1 DEF Ends, Whole
    <3> QED BY <3>5, <1>e
  <2> QED BY <1>6, <2>1, <2>2, <1>t DEF Utters
<1> QED BY <1>r, <1>n, <1>1, <1>2, <1>3, <1>4, <1>5, <1>6 DEF JobMove

(* Then the signal arrives whole.                                          *)
LEMMA SignalHolds ==
    ASSUME SignalInv
    PROVE  SignalIsWhole
<1> SUFFICES ASSUME job.phase = "ended" PROVE SignalIsWhole
  BY DEF SignalIsWhole
<1>0. Whole(job, runner.kind)
  BY DEF SignalInv
<1>1. runner.kind = "replay" => job.err = None /\ job.out = job.given
  BY <1>0 DEF Whole
<1>2. runner.kind \in {"piper", "mock_tts"} /\ job.err = None =>
         FlattenSeq([i \in 1..Len(job.out) |-> job.out[i].audio]) =
             [i \in 1..Len(job.given) |-> IF job.given[i] > 100 THEN 100 ELSE job.given[i]]
  BY <1>0 DEF Whole, AudioOf, Saturated
<1>3. ASSUME runner.kind = "whisper", job.model # 0, job.batch.format = "Wav"
      PROVE  /\ job.err = None => Heard(job.batch.wav, job.given)
             /\ job.err = "UnsupportedAudioFormat" /\ job.batch.wav.header /\ job.batch.wav.missing = 0 =>
                  Unheard(job.batch.wav)
  BY <1>0, <1>3 DEF Whole
<1> QED BY <1>1, <1>2, <1>3 DEF SignalIsWhole, Heard, Unheard, Fmts, Datas, Width

(***************************************************************************)
(* Nothing but a system message made of Parts is lost on the way in or     *)
(* out, whatever the chunks of the answer, the waveform, the file and the  *)
(* bytes: the request holds every turn and every plain system message in   *)
(* order (from_batch; the specification offers two conversations, lemma    *)
(* RequestConveys takes any), the consumer gets every piece of text        *)
(* (wire.rs and the SSE framing), and an in-process speech runner decodes, *)
(* cuts up and replays its signal whole.                                   *)
(***************************************************************************)
THEOREM ContentWhole == RunnersSpec => []ContentKept
<1> DEFINE Inv == CallInv /\ TextInv /\ TalkInv /\ SpeechInv /\ LocalInv /\ SignalInv
<1>1. RunnersInit => Inv
  <2> SUFFICES ASSUME RunnersInit PROVE Inv
    OBVIOUS
  <2>1. CallInv /\ call = NoCall
    BY CallStart DEF RunnersInit, Init
  <2>2. call.phase = "new" /\ call.out = <<>> /\ call.given = <<>> /\ call.api = None
        /\ call.events = 0
    BY <2>1 DEF NoCall
  <2>3. SpeechInv
    BY SpeechStart
  <2>4. job.phase = "new" /\ job.model = 0
    BY DEF RunnersInit, SpeechInit, Resting, NewJob
  <2>5. TextInv /\ TalkInv
    <3>1. call.api \notin TextApis
      BY <2>2 DEF TextApis, None
    <3> QED BY <2>2, <3>1 DEF TextInv, TalkInv
  <2>6. LocalInv /\ SignalInv
    BY <2>4 DEF LocalInv, LoadingInv, LocalFramed, SignalInv, Whole, Loading
  <2> QED BY <2>1, <2>3, <2>5, <2>6
<1>2. Inv /\ [RunnersNext]_<<vars, speechVars, linkVars>> => Inv'
  <2> SUFFICES ASSUME Inv, [RunnersNext]_<<vars, speechVars, linkVars>> PROVE Inv'
    OBVIOUS
  <2>1. JobShape
    BY DEF SpeechInv
  <2> QED BY <2>1, HttpSteps, SpeechSteps, CallKept, TextKept, TalkKept, SpeechKept, LocalKept,
      SignalKept
<1>3. Inv => ContentKept
  BY TextInvComplete, TalkConveys, SignalHolds DEF ContentKept
<1> QED BY <1>1, <1>2, <1>3, PTL DEF RunnersSpec
=============================================================================
