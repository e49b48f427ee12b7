------------------------------- MODULE WsLink -------------------------------
(***************************************************************************)
(* The link helpers of inference-runtime-ws-core: ReconnectEngine paces    *)
(* the dialling and gives up, Keepalive pings a quiet peer and declares it *)
(* dead, and coalesce_binary shrinks the audio that piled up.  The helpers *)
(* are public, but no provider of the repository uses them yet: the loop   *)
(* around them here is the one client.rs describes in its module comment,  *)
(* an external caller, and nothing is claimed of the providers, which do   *)
(* not redial (module SpeechStream).  Time passes in units; the keepalive  *)
(* timer fires every TickEvery.                                            *)
(***************************************************************************)
EXTENDS Integers, Sequences, SequencesExt, FiniteSetsExt

CONSTANTS
    PingInterval, IdleTimeout,   \* KeepaliveConfig, zero disables
    TickEvery,                   \* period of the provider's interval
    RoundTrip,                   \* a responsive peer's longest answer time
    InitialBackoff, MaxBackoff,  \* BackoffPolicy; the multiplier is 2
    Limits,                      \* the max_attempts considered, zero is forever
    Jitters,                     \* the JitterKinds considered
    MaxDials                     \* bound on dials without success

ASSUME LinkAssumption ==
    /\ {PingInterval, TickEvery, RoundTrip, InitialBackoff, MaxBackoff} \subseteq Nat \ {0}
    /\ IdleTimeout \in Nat /\ Limits \subseteq Nat
    /\ IdleTimeout > PingInterval + (TickEvery - 1) + RoundTrip

VARIABLES
    link,     \* down, waiting (for its delay), up or stopped
    policy,   \* max_attempts and jitter
    engine,   \* ReconnectEngine: its attempt counter; the delay still to wait
    alive,    \* Keepalive: units since last_seen and since last_ping, -1 for none
    timer,    \* units since the interval last fired
    net,      \* whether the network delivers
    pong,     \* units since the ping the peer will answer, -1 for none
    steady,   \* history: the network has delivered since the link came up
    fails,    \* history: failed dials since the last success
    verdict,  \* history: why the link last went down or stopped
    backlog   \* frames to flush over a new link, and what was sent for them

linkVars == <<link, policy, engine, alive, timer, net, pong, steady, fails, verdict, backlog>>
engineVars == <<policy, engine, fails>>
peerVars == <<net, pong, steady>>

Never == -1
NoFlush == [frames |-> <<>>, max |-> 0, sent |-> <<>>]

LinkInit ==
    /\ link = "down" /\ verdict = "none"
    /\ policy \in [max : Limits, jitter : Jitters]
    /\ engine = [attempt |-> 0, wait |-> 0]
    /\ alive = [seen |-> 0, ping |-> Never]
    /\ timer = 0 /\ fails = 0
    /\ net \in BOOLEAN /\ pong = Never /\ steady = FALSE
    /\ backlog = NoFlush

----------------------------------------------------------------------------
(* compute_backoff.  Jitter is a fixed function of the attempt, here in    *)
(* ten-thousandths: seed * 2654435761 modulo 2^32, modulo 10000.           *)

PseudoRandom(seed) == (seed * 5761 - ((seed * 618034) \div 1000000) * 7296) % 10000

ComputeBackoff(jitter, attempt) ==
    LET capped == Min({InitialBackoff * 2^attempt, MaxBackoff})
    IN  CASE jitter = "None" -> capped
          [] jitter = "Equal" -> (capped * 10000 + capped * PseudoRandom(attempt)) \div 20000
          [] jitter = "Full" -> (capped * PseudoRandom(attempt)) \div 10000

(* next_delay: the first attempt is free, then the policy's delay; None    *)
(* when the attempts are used up.                                          *)
Exhausted(e) == e.attempt # 0 /\ policy.max # 0 /\ e.attempt >= policy.max

NextDelay(e) ==
    IF e.attempt = 0 THEN [attempt |-> 1, wait |-> 0]
    ELSE [attempt |-> e.attempt + 1, wait |-> ComputeBackoff(policy.jitter, e.attempt - 1)]

(* Fault: a successful connect does not reset the counter.                 *)
ResetKeepsCount(e) == e

Reset(e) == [attempt |-> 0, wait |-> 0]

WsErrors == {"Closed", "ConnectTimeout", "Io", "Protocol", "Tls", "BadUrl"}
WsRetryable(e) == e \notin {"BadUrl", "Tls", "ReconnectExhausted"}

----------------------------------------------------------------------------
(* The caller's dialling loop.                                             *)

Dial ==
    /\ link = "down"
    /\ IF Exhausted(engine)
       THEN link' = "stopped" /\ verdict' = "ReconnectExhausted" /\ engine' = engine
       ELSE link' = "waiting" /\ verdict' = "none" /\ engine' = NextDelay(engine)
    /\ UNCHANGED <<policy, fails, alive, timer, peerVars, backlog>>

Connects ==
    /\ link = "waiting" /\ engine.wait = 0 /\ net
    /\ link' = "up" /\ verdict' = "none"
    /\ engine' = Reset(engine) /\ fails' = 0
    /\ alive' = [seen |-> 0, ping |-> Never]
    /\ timer' = 0 /\ pong' = Never /\ steady' = TRUE
    /\ UNCHANGED <<policy, net, backlog>>

ConnectFails(err) ==
    /\ link = "waiting" /\ engine.wait = 0 /\ ~net
    /\ engine.attempt < MaxDials
    /\ link' = IF WsRetryable(err) THEN "down" ELSE "stopped"
    /\ verdict' = err /\ fails' = fails + 1
    /\ UNCHANGED <<policy, engine, alive, timer, peerVars, backlog>>

(* The socket breaks or the peer closes; the caller will dial again.       *)
LinkBreaks(err) ==
    /\ link = "up" /\ ~net
    /\ link' = "down" /\ verdict' = err
    /\ UNCHANGED <<engineVars, alive, timer, peerVars, backlog>>

----------------------------------------------------------------------------
(* Keepalive.                                                              *)

(* Fault: the first ping waits until the interval is exceeded.             *)
NeedPingLate ==
    IF alive.ping = Never THEN alive.seen > PingInterval ELSE alive.ping >= PingInterval

NeedPing ==
    IF alive.ping = Never THEN alive.seen >= PingInterval ELSE alive.ping >= PingInterval

KeepaliveTick ==
    IF IdleTimeout # 0 /\ alive.seen >= IdleTimeout THEN "Dead"
    ELSE IF PingInterval # 0 /\ NeedPing THEN "SendPing"
    ELSE "Idle"

TimerFires ==
    /\ link = "up" /\ timer = TickEvery
    /\ timer' = 0
    /\ CASE KeepaliveTick = "Dead" ->
              /\ link' = "down" /\ verdict' = "IdleTimeout"
              /\ UNCHANGED <<alive, pong>>
         [] KeepaliveTick = "SendPing" ->
              /\ alive' = [alive EXCEPT !.ping = 0]
              /\ pong' = IF net /\ pong = Never THEN 0 ELSE pong
              /\ UNCHANGED <<link, verdict>>
         [] OTHER -> UNCHANGED <<link, verdict, alive, pong>>
    /\ UNCHANGED <<engineVars, net, steady, backlog>>

Observe == alive' = [seen |-> 0, ping |-> Never]

FrameArrives ==
    /\ link = "up" /\ net
    /\ Observe
    /\ UNCHANGED <<link, engineVars, timer, peerVars, verdict, backlog>>

PongArrives ==
    /\ link = "up" /\ net /\ pong # Never
    /\ Observe
    /\ pong' = Never
    /\ UNCHANGED <<link, engineVars, timer, net, steady, verdict, backlog>>

----------------------------------------------------------------------------
(***************************************************************************)
(* coalesce_binary, a step per frame: the binary payloads gather in buf    *)
(* until the next one would exceed max_bytes.                              *)
(***************************************************************************)
Binary(bytes) == [kind |-> "binary", bytes |-> bytes]
Flush(acc) == [buf |-> <<>>, out |-> IF acc.buf = <<>> THEN acc.out ELSE Append(acc.out, Binary(acc.buf))]

(* Fault: an oversized frame is passed on ahead of what has gathered.      *)
CoalesceFrameAhead(acc, f, max) ==
    IF f.kind # "binary" THEN [Flush(acc) EXCEPT !.out = Append(@, f)]
    ELSE IF Len(f.bytes) >= max THEN [acc EXCEPT !.out = Append(@, f)]
    ELSE IF Len(acc.buf) + Len(f.bytes) > max THEN [Flush(acc) EXCEPT !.buf = f.bytes]
    ELSE [acc EXCEPT !.buf = @ \o f.bytes]

CoalesceFrame(acc, f, max) ==
    IF f.kind # "binary" THEN [Flush(acc) EXCEPT !.out = Append(@, f)]
    ELSE IF Len(f.bytes) >= max THEN [Flush(acc) EXCEPT !.out = Append(@, f)]
    ELSE IF Len(acc.buf) + Len(f.bytes) > max THEN [Flush(acc) EXCEPT !.buf = f.bytes]
    ELSE [acc EXCEPT !.buf = @ \o f.bytes]

CoalesceBinary(frames, max) ==
    IF max = 0 \/ Len(frames) <= 1 THEN frames
    ELSE Flush(FoldLeft(LAMBDA acc, f : CoalesceFrame(acc, f, max), [buf |-> <<>>, out |-> <<>>], frames)).out

(* Frames that piled up: audio of growing byte marks, and text.            *)
Backlogs ==
    LET kinds == {0, 1, 2, 3, Never}
        frame(s, i) == IF s[i] = Never THEN [kind |-> "text", bytes |-> <<>>]
                       ELSE Binary([j \in 1..s[i] |-> 10 * i + j])
    IN  UNION {{[i \in 1..n |-> frame(s, i)] : s \in [1..n -> kinds]} : n \in 0..3}

FlushBacklog(frames, max) ==
    /\ link = "up" /\ steady /\ fails = 0 /\ alive.seen = 0 /\ timer = 0 /\ pong = Never
    /\ backlog = NoFlush
    /\ backlog' = [frames |-> frames, max |-> max, sent |-> CoalesceBinary(frames, max)]
    /\ UNCHANGED <<link, engineVars, alive, timer, peerVars, verdict>>

Flushed ==
    /\ backlog # NoFlush
    /\ backlog' = NoFlush
    /\ UNCHANGED <<link, engineVars, alive, timer, peerVars, verdict>>

----------------------------------------------------------------------------
(* The world: time, and a network that fails and heals.                    *)

Older(age) == IF age = Never THEN Never ELSE age + 1

Elapse ==
    /\ backlog = NoFlush
    /\ \/ /\ link = "waiting" /\ engine.wait > 0
          /\ engine' = [engine EXCEPT !.wait = @ - 1]
          /\ UNCHANGED <<alive, timer, pong>>
       \/ /\ link = "up" /\ timer < TickEvery
          /\ net => pong < RoundTrip
          /\ alive' = [seen |-> alive.seen + 1, ping |-> Older(alive.ping)]
          /\ timer' = timer + 1
          /\ pong' = IF net THEN Older(pong) ELSE Never
          /\ UNCHANGED engine
    /\ UNCHANGED <<link, policy, fails, net, steady, verdict, backlog>>

NetFails ==
    /\ net /\ backlog = NoFlush
    /\ net' = FALSE /\ pong' = Never /\ steady' = FALSE
    /\ UNCHANGED <<link, engineVars, alive, timer, verdict, backlog>>

NetHeals ==
    /\ ~net
    /\ net' = TRUE
    /\ UNCHANGED <<link, engineVars, alive, timer, pong, steady, verdict, backlog>>

LinkNext ==
    \/ Dial \/ Connects \/ TimerFires \/ FrameArrives \/ PongArrives
    \/ \E err \in WsErrors : ConnectFails(err)
    \/ \E err \in {"Closed", "Io", "Protocol"} : LinkBreaks(err)
    \/ \E frames \in Backlogs, max \in {0, 2, 3} : FlushBacklog(frames, max)
    \/ Flushed \/ Elapse \/ NetFails \/ NetHeals

----------------------------------------------------------------------------
(***************************************************************************)
(* A peer that answers in time is never declared dead, even when the timer *)
(* and its pong fall in the same instant, and a silent one is found within *)
(* a timer period of its deadline (keepalive.rs, tick).                    *)
(***************************************************************************)
KeepaliveIsTight ==
    /\ verdict = "IdleTimeout" => ~steady
    /\ link = "up" => alive.seen < IdleTimeout + TickEvery

(***************************************************************************)
(* The engine gives up after max_attempts dials have failed since the last *)
(* connection: not before, as a missed reset would, not later, as a reset  *)
(* too many would, and never when it may retry forever (reconnect.rs).     *)
(***************************************************************************)
GiveUpJustified ==
    /\ verdict = "ReconnectExhausted" => policy.max # 0 /\ fails = policy.max
    /\ policy.max # 0 /\ link = "waiting" => fails < policy.max

(***************************************************************************)
(* Coalescing loses and reorders nothing: between two text frames go the   *)
(* same bytes in the same order, text frames stay where they were, and a   *)
(* merged frame keeps the cap (frame.rs, coalesce_binary).  That is what   *)
(* the code does; the crate's documentation (lib.rs, README.md) and the    *)
(* module comment of frame.rs speak of dropping the oldest frames and of a *)
(* shrinking byte count, which no path of the function does.               *)
(***************************************************************************)
BacklogKept ==
    LET Content(frames) ==
            FlattenSeq([i \in 1..Len(frames) |-> IF frames[i].kind = "text" THEN <<0>> ELSE frames[i].bytes])
    IN  /\ Content(backlog.sent) = Content(backlog.frames)
        /\ \A i \in 1..Len(backlog.sent) :
             Len(backlog.sent[i].bytes) > backlog.max => backlog.sent[i] \in Range(backlog.frames)
=============================================================================
