--------------------------- MODULE CircuitBreaker ---------------------------
(***************************************************************************)
(* CircuitBreakerHandle (inference-remote-core, circuit_breaker.rs): two   *)
(* atomics shared without a lock by every caller of check and run, and the *)
(* operator's forced-open deadline.                                        *)
(*                                                                         *)
(* Each caller is a task inside CircuitBreakerHandle::run; every access to *)
(* an atomic or to the mutex is a step of its own.  The atomics are used   *)
(* with acquire and release orderings on paths where a later access may    *)
(* not move before an earlier one, so an interleaving of steps is what the *)
(* code can do.                                                            *)
(*                                                                         *)
(* Time is relative: `opened' is the age of the stamp in opened_at_ns in   *)
(* ticks, up to OpenDuration (older stamps are all past it), and `forced'  *)
(* the ticks left until forced_open_until.  The failure count is kept up   *)
(* to Threshold, the only value it is compared with.  Neither abstraction  *)
(* bounds the length of a behaviour.                                       *)
(***************************************************************************)
EXTENDS Integers, FiniteSets, InferenceErrors

CONSTANTS
    Callers,         \* tasks sharing the handle
    Threshold,       \* CircuitBreakerConfig::failure_threshold
    OpenDuration,    \* CircuitBreakerConfig::open_duration, in ticks
    ForceDurations,  \* durations of ForceOpen messages, in ticks
    ProviderErrors   \* the errors the provider may answer with

ASSUME BreakerAssumption ==
    /\ Threshold \in Nat /\ OpenDuration \in Nat
    /\ ForceDurations \subseteq Nat
    /\ ProviderErrors \subseteq Kinds

NotOpen == -1

VARIABLES
    failures,   \* CircuitBreakerHandle::failures
    opened,     \* age of opened_at_ns, or NotOpen for 0
    forced,     \* ticks left of forced_open_until
    pc,         \* where each caller is in run
    seen,       \* the value of opened_at_ns the caller has loaded in state()
    healthy,    \* whether the provider answers every call with success
    verdict,    \* what the last check of each caller returned
    saw,        \* history: the gates in force during the caller's last check
    raced       \* history: two callers have recorded results at the same time

vars == <<failures, opened, forced, pc, seen, healthy, verdict, saw, raced>>

Ages == NotOpen .. OpenDuration

(* CircuitState, as CircuitBreakerHandle::state computes it from a stamp.  *)
StateOf(stamp) ==
    IF stamp = NotOpen THEN "Closed"
    ELSE IF stamp >= OpenDuration THEN "HalfOpen" ELSE "Open"

(* The gate in force at an instant: Closed and HalfOpen let a call pass.   *)
Gate == IF forced > 0 \/ StateOf(opened) = "Open" THEN "refuse" ELSE "pass"

InCheck == {"load", "decide"}
Recording == {"reset", "close", "count", "inspect", "stamp"}

(* Every step: the callers inside check observe the gate, and overlapping  *)
(* records are noted.                                                      *)
Observe ==
    /\ saw' = [c \in Callers |->
                  IF pc'[c] \in InCheck /\ pc[c] \notin InCheck THEN {Gate, Gate'}
                  ELSE IF pc[c] \in InCheck THEN saw[c] \cup {Gate'}
                  ELSE saw[c]]
    /\ raced' = (raced \/ \E c, d \in Callers : c # d /\ {pc'[c], pc'[d]} \subseteq Recording)

Init ==
    /\ failures = 0
    /\ opened = NotOpen
    /\ forced = 0
    /\ pc = [c \in Callers |-> "idle"]
    /\ seen = [c \in Callers |-> NotOpen]
    /\ healthy \in BOOLEAN
    /\ verdict = [c \in Callers |-> "none"]
    /\ saw = [c \in Callers |-> {}]
    /\ raced = FALSE

-----------------------------------------------------------------------------
(* check: state() and the match on it.                                     *)

(* The forced-open deadline is read first, under the mutex.                *)
CheckForced(c) ==
    /\ pc[c] = "idle"
    /\ \/ /\ forced > 0
          /\ verdict' = [verdict EXCEPT ![c] = "CircuitOpen"]
          /\ saw' = [saw EXCEPT ![c] = {"refuse"}]
          /\ UNCHANGED <<failures, opened, forced, pc, seen, healthy, raced>>
       \/ /\ forced = 0
          /\ pc' = [pc EXCEPT ![c] = "load"]
          /\ verdict' = [verdict EXCEPT ![c] = "none"]
          /\ UNCHANGED <<failures, opened, forced, seen, healthy>>
          /\ Observe

(* opened_at_ns is loaded.                                                 *)
CheckLoad(c) ==
    /\ pc[c] = "load"
    /\ pc' = [pc EXCEPT ![c] = "decide"]
    /\ seen' = [seen EXCEPT ![c] = opened]
    /\ UNCHANGED <<failures, opened, forced, healthy, verdict>>
    /\ Observe

(* Fault: half-open is refused like open.                                  *)
CheckDecideNoProbe(c) ==
    /\ pc[c] = "decide"
    /\ \/ /\ StateOf(seen[c]) = "Closed"
          /\ pc' = [pc EXCEPT ![c] = "calling"]
          /\ verdict' = [verdict EXCEPT ![c] = "Ok"]
       \/ /\ StateOf(seen[c]) # "Closed"
          /\ pc' = [pc EXCEPT ![c] = "idle"]
          /\ verdict' = [verdict EXCEPT ![c] = "CircuitOpen"]
    /\ UNCHANGED <<failures, opened, forced, seen, healthy>>
    /\ Observe

(* The loaded stamp is compared with the clock, which may have moved.  The *)
(* second load of opened_at_ns only dates the CircuitOpen error.           *)
CheckDecide(c) ==
    /\ pc[c] = "decide"
    /\ \/ /\ StateOf(seen[c]) \in {"Closed", "HalfOpen"}
          /\ pc' = [pc EXCEPT ![c] = "calling"]
          /\ verdict' = [verdict EXCEPT ![c] = "Ok"]
       \/ /\ StateOf(seen[c]) = "Open"
          /\ pc' = [pc EXCEPT ![c] = "idle"]
          /\ verdict' = [verdict EXCEPT ![c] = "CircuitOpen"]
    /\ UNCHANGED <<failures, opened, forced, seen, healthy>>
    /\ Observe

-----------------------------------------------------------------------------
(* The rest of run: the call, then record_success or record_failure.       *)

CallSucceeds(c) ==
    /\ pc[c] = "calling"
    /\ pc' = [pc EXCEPT ![c] = "reset"]
    /\ UNCHANGED <<failures, opened, forced, seen, healthy, verdict>>
    /\ Observe

CallFails(c, k) ==
    /\ pc[c] = "calling"
    /\ ~healthy
    /\ pc' = [pc EXCEPT ![c] = IF CountsAsCircuitFailure(k) THEN "count" ELSE "idle"]
    /\ UNCHANGED <<failures, opened, forced, seen, healthy, verdict>>
    /\ Observe

(* record_success: failures.store(0) ...                                   *)
SuccessReset(c) ==
    /\ pc[c] = "reset"
    /\ failures' = 0
    /\ pc' = [pc EXCEPT ![c] = "close"]
    /\ UNCHANGED <<opened, forced, seen, healthy, verdict>>
    /\ Observe

(* Fault: record_success forgets the stamp.                                *)
SuccessKeepsOpen(c) ==
    /\ pc[c] = "close"
    /\ pc' = [pc EXCEPT ![c] = "idle"]
    /\ UNCHANGED <<failures, opened, forced, seen, healthy, verdict>>
    /\ Observe

(* ... then opened_at_ns.store(0).                                         *)
SuccessClose(c) ==
    /\ pc[c] = "close"
    /\ opened' = NotOpen
    /\ pc' = [pc EXCEPT ![c] = "idle"]
    /\ UNCHANGED <<failures, forced, seen, healthy, verdict>>
    /\ Observe

(* record_failure: fetch_add and the comparison with the threshold ...     *)
FailureCount(c) ==
    /\ pc[c] = "count"
    /\ failures' = IF failures < Threshold THEN failures + 1 ELSE failures
    /\ pc' = [pc EXCEPT ![c] = IF failures + 1 >= Threshold THEN "inspect" ELSE "idle"]
    /\ UNCHANGED <<opened, forced, seen, healthy, verdict>>
    /\ Observe

(* ... the load of opened_at_ns ...                                        *)
FailureInspect(c) ==
    /\ pc[c] = "inspect"
    /\ pc' = [pc EXCEPT ![c] = IF opened = NotOpen THEN "stamp" ELSE "idle"]
    /\ UNCHANGED <<failures, opened, forced, seen, healthy, verdict>>
    /\ Observe

(* ... and the store of the time it opened.                                *)
FailureStamp(c) ==
    /\ pc[c] = "stamp"
    /\ opened' = 0
    /\ pc' = [pc EXCEPT ![c] = "idle"]
    /\ UNCHANGED <<failures, forced, seen, healthy, verdict>>
    /\ Observe

-----------------------------------------------------------------------------
(* The environment.                                                        *)

(* CircuitBreakerMsg::ForceOpen: the deadline is overwritten.              *)
ForceOpen(d) ==
    /\ forced' = d
    /\ UNCHANGED <<failures, opened, pc, seen, healthy, verdict>>
    /\ Observe

Older(stamp) ==
    IF stamp = NotOpen \/ stamp = OpenDuration THEN stamp ELSE stamp + 1

(* The monotonic clock advances.                                           *)
Tick ==
    /\ opened' = Older(opened)
    /\ seen' = [c \in Callers |-> Older(seen[c])]
    /\ forced' = IF forced = 0 THEN 0 ELSE forced - 1
    /\ UNCHANGED <<failures, pc, healthy, verdict>>
    /\ Observe

(* The provider goes down or recovers.                                     *)
ProviderTurns ==
    /\ healthy' = ~healthy
    /\ UNCHANGED <<failures, opened, forced, pc, seen, verdict>>
    /\ Observe

Step(c) ==
    \/ CheckForced(c) \/ CheckLoad(c) \/ CheckDecide(c)
    \/ CallSucceeds(c) \/ \E k \in ProviderErrors : CallFails(c, k)
    \/ SuccessReset(c) \/ SuccessClose(c)
    \/ FailureCount(c) \/ FailureInspect(c) \/ FailureStamp(c)

Next ==
    \/ \E c \in Callers : Step(c)
    \/ \E d \in ForceDurations : ForceOpen(d)
    \/ Tick
    \/ ProviderTurns

Spec == Init /\ [][Next]_vars

(* The clock runs, the runtime polls every task that can make progress,    *)
(* calls end, and clients keep calling.  The operator and the provider do  *)
(* what they like.                                                         *)
FairSpec == Spec /\ WF_vars(Tick) /\ \A c \in Callers : WF_vars(Step(c))

-----------------------------------------------------------------------------
(* Properties.                                                             *)

TypeOK ==
    /\ failures \in 0..Threshold
    /\ opened \in Ages
    /\ forced \in Nat
    /\ pc \in [Callers -> InCheck \cup {"idle", "calling", "reset", "close",
                                        "count", "inspect", "stamp"}]
    /\ seen \in [Callers -> Ages]
    /\ healthy \in BOOLEAN
    /\ verdict \in [Callers -> {"none", "Ok", "CircuitOpen"}]
    /\ saw \in [Callers -> SUBSET {"refuse", "pass"}]
    /\ raced \in BOOLEAN

(* A call is refused only if the breaker was open, or forced open, at some *)
(* instant of its check: no interleaving of the other callers, the clock   *)
(* and the operator makes check answer CircuitOpen on a breaker that let   *)
(* calls pass all along.                                                   *)
RefusalJustified ==
    \A c \in Callers : verdict[c] = "CircuitOpen" => "refuse" \in saw[c]

(* "flip to Open if we cross the threshold" (circuit_breaker.rs:112-113):  *)
(* as long as results have been recorded one after the other, the breaker  *)
(* carries a stamp, between two records, exactly if the threshold has been *)
(* reached since the last success.  Calls may overlap, and the clock and   *)
(* the operator act at any time; overlapping records can break it.         *)
CounterMatchesState ==
    ~raced /\ (\A c \in Callers : pc[c] \notin Recording)
        => (opened # NotOpen <=> failures >= Threshold)

(* Neither the opening nor a refusal comes from nowhere.                   *)
OpensAndRefusesJustly == RefusalJustified /\ CounterMatchesState

(* Once the provider stays healthy and no operator forces it open, the     *)
(* breaker closes for good, whatever races left behind in its counters.    *)
Recovers == <>[](healthy /\ forced = 0) => <>[](opened = NotOpen)
=============================================================================
