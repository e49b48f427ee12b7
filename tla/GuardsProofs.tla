---------------------------- MODULE GuardsProofs ----------------------------
(***************************************************************************)
(* Proofs about the two guards that the workers of a remote deployment     *)
(* share.                                                                  *)
(*                                                                         *)
(* The circuit breaker, for any number of callers, every threshold, every  *)
(* open_duration and every deadline an operator may set: no interleaving   *)
(* of check's three reads with the clock, the operator and the other       *)
(* callers refuses a call on a breaker that was never open, and results    *)
(* recorded one after the other open and close it exactly at the           *)
(* threshold.                                                              *)
(*                                                                         *)
(* The rate limiter, for every set of nodes, both limits, any request      *)
(* costs, any window and any traffic of deltas: a node's window counters   *)
(* are exactly what it has granted since the window began, and no minute,  *)
(* wherever it lies across the window boundaries, sees more than twice a   *)
(* limit granted.                                                          *)
(***************************************************************************)
EXTENDS CircuitBreaker, RateLimiter, TLAPS

-----------------------------------------------------------------------------
(***************************************************************************)
(* The circuit breaker.                                                    *)
(***************************************************************************)
USE BreakerAssumption

Labels == {"idle", "load", "decide", "calling", "reset", "close", "count", "inspect", "stamp"}

-----------------------------------------------------------------------------
(* Type correctness.                                                       *)

(* The gate is one of its two values, before and after a step.             *)
LEMMA GateType == Gate \in {"refuse", "pass"} /\ Gate' \in {"refuse", "pass"}
BY DEF Gate

(* The history variables keep their types in a step that observes.         *)
LEMMA ObserveType ==
    ASSUME TypeOK, Observe
    PROVE  saw' \in [Callers -> SUBSET {"refuse", "pass"}] /\ raced' \in BOOLEAN
<1>1. \A c \in Callers : saw'[c] \subseteq {"refuse", "pass"}
  BY GateType DEF Observe, TypeOK
<1>2. saw' = [c \in Callers |-> saw'[c]]
  BY DEF Observe
<1>3. raced' \in BOOLEAN
  BY DEF Observe, TypeOK
<1> QED BY <1>1, <1>2, <1>3

(* A stamp stays a stamp when the clock advances.                          *)
LEMMA OlderType == \A a \in Ages : Older(a) \in Ages
BY DEF Ages, NotOpen, Older

(* The breaker starts closed and every step keeps the types.               *)
THEOREM BreakerTypeCorrect == Spec => []TypeOK
<1>1. ASSUME Init PROVE TypeOK
  <2>1. failures \in 0..Threshold /\ opened \in Ages /\ forced \in Nat
    BY <1>1 DEF Init, Ages, NotOpen
  <2>2. seen \in [Callers -> Ages]
    BY <1>1 DEF Init, Ages, NotOpen
  <2> QED BY <1>1, <2>1, <2>2, Zenon DEF Init, TypeOK, InCheck
<1>2. ASSUME TypeOK, [Next]_vars PROVE TypeOK'
  <2> DEFINE L == InCheck \cup {"idle", "calling", "reset", "close", "count", "inspect", "stamp"}
  <2>t. /\ failures \in 0..Threshold /\ opened \in Ages /\ forced \in Nat
        /\ pc \in [Callers -> L] /\ seen \in [Callers -> Ages] /\ healthy \in BOOLEAN
        /\ verdict \in [Callers -> {"none", "Ok", "CircuitOpen"}]
        /\ saw \in [Callers -> SUBSET {"refuse", "pass"}] /\ raced \in BOOLEAN
    BY <1>2 DEF TypeOK
  <2>l. L = Labels
    BY DEF Labels, InCheck
  <2>n. NotOpen \in Ages /\ 0 \in Ages
    BY DEF Ages, NotOpen
  <2>o. Observe => saw' \in [Callers -> SUBSET {"refuse", "pass"}] /\ raced' \in BOOLEAN
    BY <1>2, ObserveType
  <2> HIDE DEF L
  <2>1. ASSUME NEW c \in Callers, Step(c) PROVE TypeOK'
    <3>1. CASE CheckForced(c)
      <4>1. /\ pc' \in [Callers -> L] /\ verdict' \in [Callers -> {"none", "Ok", "CircuitOpen"}]
            /\ saw' \in [Callers -> SUBSET {"refuse", "pass"}] /\ raced' \in BOOLEAN
        BY <3>1, <2>t, <2>o, <2>l DEF CheckForced, Labels
      <4> QED BY <3>1, <4>1, <2>t DEF CheckForced, TypeOK, L
    <3>2. CASE CheckLoad(c)
      <4>1. pc' \in [Callers -> L] /\ seen' \in [Callers -> Ages]
        BY <3>2, <2>t, <2>l DEF CheckLoad, Labels
      <4> QED BY <3>2, <4>1, <2>t, <2>o DEF CheckLoad, TypeOK, L
    <3>3. CASE CheckDecide(c)
      <4>1. pc' \in [Callers -> L] /\ verdict' \in [Callers -> {"none", "Ok", "CircuitOpen"}]
        BY <3>3, <2>t, <2>l DEF CheckDecide, Labels
      <4> QED BY <3>3, <4>1, <2>t, <2>o DEF CheckDecide, TypeOK, L
    <3>4. CASE CallSucceeds(c) \/ \E k \in ProviderErrors : CallFails(c, k)
      <4>1. pc' \in [Callers -> L]
        BY <3>4, <2>t, <2>l DEF CallSucceeds, CallFails, Labels
      <4> QED BY <3>4, <4>1, <2>t, <2>o DEF CallSucceeds, CallFails, TypeOK, L
    <3>5. CASE SuccessReset(c) \/ SuccessClose(c) \/ FailureInspect(c) \/ FailureStamp(c)
      <4>1. pc' \in [Callers -> L] /\ failures' \in 0..Threshold /\ opened' \in Ages
        BY <3>5, <2>t, <2>l, <2>n
        DEF SuccessReset, SuccessClose, FailureInspect, FailureStamp, Labels
      <4> QED BY <3>5, <4>1, <2>t, <2>o
          DEF SuccessReset, SuccessClose, FailureInspect, FailureStamp, TypeOK, L
    <3>6. CASE FailureCount(c)
      <4>1. pc' \in [Callers -> L] /\ failures' \in 0..Threshold
        BY <3>6, <2>t, <2>l DEF FailureCount, Labels
      <4> QED BY <3>6, <4>1, <2>t, <2>o DEF FailureCount, TypeOK, L
    <3> QED BY <2>1, <3>1, <3>2, <3>3, <3>4, <3>5, <3>6 DEF Step
  <2>2. ASSUME NEW d \in ForceDurations, ForceOpen(d) PROVE TypeOK'
    BY <2>2, <2>t, <2>o DEF ForceOpen, TypeOK, L
  <2>3. CASE Tick
    <3>1. opened' \in Ages /\ seen' \in [Callers -> Ages] /\ forced' \in Nat
      BY <2>3, <2>t, OlderType DEF Tick
    <3> QED BY <2>3, <3>1, <2>t, <2>o DEF Tick, TypeOK, L
  <2>4. CASE ProviderTurns
    BY <2>4, <2>t, <2>o DEF ProviderTurns, TypeOK, L
  <2>5. CASE UNCHANGED vars
    BY <2>5, <1>2 DEF vars, TypeOK
  <2> QED BY <1>2, <2>1, <2>2, <2>3, <2>4, <2>5 DEF Next
<1> QED BY <1>1, <1>2, PTL DEF Spec

-----------------------------------------------------------------------------
(***************************************************************************)
(* Refusals.  The verdict is given one step after the stamp was loaded and *)
(* two after the deadline was read, so the invariant has to carry the      *)
(* evidence across: a caller that holds a stamp which is still open has    *)
(* been in check while the gate was closed.                                *)
(***************************************************************************)
RefusalInv ==
    \A c \in Callers :
        /\ verdict[c] = "CircuitOpen" => "refuse" \in saw[c]
        /\ pc[c] \in InCheck => verdict[c] # "CircuitOpen"
        /\ pc[c] = "decide" /\ StateOf(seen[c]) = "Open" => "refuse" \in saw[c]

(* What a step that observes adds to what a caller saw.                    *)
LEMMA SawStep ==
    ASSUME TypeOK, Observe, NEW c \in Callers
    PROVE  /\ pc[c] \in InCheck => saw'[c] = saw[c] \cup {Gate'}
           /\ pc[c] \notin InCheck /\ pc'[c] \notin InCheck => saw'[c] = saw[c]
BY DEF Observe

(* A stamp that is open after a tick was open before it.                   *)
LEMMA OpenWasOpen ==
    ASSUME NEW a \in Ages, StateOf(Older(a)) = "Open"
    PROVE  StateOf(a) = "Open"
BY DEF Ages, NotOpen, Older, StateOf

(* One caller moves and the others stand still: those inside check only    *)
(* see more, the others see nothing new.                                   *)
LEMMA OthersKeep ==
    ASSUME TypeOK, RefusalInv, Observe, NEW d \in Callers,
           pc'[d] = pc[d], verdict'[d] = verdict[d],
           pc[d] = "decide" /\ StateOf(seen'[d]) = "Open" => StateOf(seen[d]) = "Open"
    PROVE  /\ verdict'[d] = "CircuitOpen" => "refuse" \in saw'[d]
           /\ pc'[d] \in InCheck => verdict'[d] # "CircuitOpen"
           /\ pc'[d] = "decide" /\ StateOf(seen'[d]) = "Open" => "refuse" \in saw'[d]
BY SawStep DEF RefusalInv, InCheck

(* A step of a caller keeps the refusal invariant.                         *)
LEMMA RefusalStep ==
    ASSUME TypeOK, RefusalInv, NEW c \in Callers, Step(c)
    PROVE  RefusalInv'
<1> DEFINE Good(d) == /\ verdict'[d] = "CircuitOpen" => "refuse" \in saw'[d]
                      /\ pc'[d] \in InCheck => verdict'[d] # "CircuitOpen"
                      /\ pc'[d] = "decide" /\ StateOf(seen'[d]) = "Open" => "refuse" \in saw'[d]
<1>t. /\ pc \in [Callers -> Labels] /\ seen \in [Callers -> Ages]
      /\ verdict \in [Callers -> {"none", "Ok", "CircuitOpen"}]
      /\ saw \in [Callers -> SUBSET {"refuse", "pass"}]
  BY DEF TypeOK, Labels, InCheck
<1>i. /\ verdict[c] = "CircuitOpen" => "refuse" \in saw[c]
      /\ pc[c] = "decide" /\ StateOf(seen[c]) = "Open" => "refuse" \in saw[c]
  BY DEF RefusalInv
<1> SUFFICES ASSUME NEW d \in Callers PROVE Good(d)
  BY DEF RefusalInv, StateOf
<1>o. ASSUME Observe, d # c, pc'[d] = pc[d], verdict'[d] = verdict[d], seen'[d] = seen[d]
      PROVE  Good(d)
  BY <1>o, OthersKeep
<1>1. CASE CheckForced(c) /\ forced > 0
  <2>1. /\ verdict' = [verdict EXCEPT ![c] = "CircuitOpen"] /\ saw' = [saw EXCEPT ![c] = {"refuse"}]
        /\ pc' = pc /\ seen' = seen /\ pc[c] = "idle"
    BY <1>1 DEF CheckForced
  <2>2. CASE d = c
    BY <2>1, <2>2, <1>t DEF InCheck
  <2>3. CASE d # c
    BY <2>1, <2>3, <1>t DEF RefusalInv
  <2> QED BY <2>2, <2>3
<1>2. CASE CheckForced(c) /\ ~(forced > 0)
  <2>1. /\ pc' = [pc EXCEPT ![c] = "load"] /\ verdict' = [verdict EXCEPT ![c] = "none"]
        /\ seen' = seen /\ Observe
    BY <1>2 DEF CheckForced
  <2>2. CASE d = c
    BY <2>1, <2>2, <1>t
  <2> QED BY <2>1, <2>2, <1>o, <1>t
<1>3. CASE CheckLoad(c)
  <2>1. /\ pc[c] = "load" /\ pc' = [pc EXCEPT ![c] = "decide"] /\ verdict' = verdict
        /\ seen' = [seen EXCEPT ![c] = opened] /\ opened' = opened /\ Observe
    BY <1>3 DEF CheckLoad
  <2>2. CASE d = c
    <3>1. verdict[c] # "CircuitOpen" /\ saw'[c] = saw[c] \cup {Gate'} /\ seen'[c] = opened
      BY <2>1, <1>t, SawStep DEF RefusalInv, InCheck
    <3>2. StateOf(opened') = "Open" => Gate' = "refuse"
      BY DEF Gate, StateOf
    <3> QED BY <2>1, <2>2, <3>1, <3>2, <1>t
  <2> QED BY <2>1, <2>2, <1>o, <1>t
<1>4. CASE CheckDecide(c)
  <2>1. /\ pc[c] = "decide" /\ seen' = seen /\ Observe
        /\ \/ /\ pc' = [pc EXCEPT ![c] = "calling"] /\ verdict' = [verdict EXCEPT ![c] = "Ok"]
           \/ /\ StateOf(seen[c]) = "Open" /\ pc' = [pc EXCEPT ![c] = "idle"]
              /\ verdict' = [verdict EXCEPT ![c] = "CircuitOpen"]
    BY <1>4 DEF CheckDecide
  <2>2. CASE d = c
    <3>1. saw'[c] = saw[c] \cup {Gate'} /\ pc'[c] \notin InCheck
      BY <2>1, <1>t, SawStep DEF InCheck
    <3> QED BY <2>1, <2>2, <3>1, <1>i, <1>t DEF InCheck
  <2> QED BY <2>1, <2>2, <1>o, <1>t
<1>5. CASE \/ CallSucceeds(c) \/ \E k \in ProviderErrors : CallFails(c, k)
           \/ SuccessReset(c) \/ SuccessClose(c)
           \/ FailureCount(c) \/ FailureInspect(c) \/ FailureStamp(c)
  <2>1. /\ seen' = seen /\ verdict' = verdict /\ Observe
        /\ pc[c] \notin InCheck
        /\ \E l \in Labels \ InCheck : pc' = [pc EXCEPT ![c] = l]
    BY <1>5 DEF CallSucceeds, CallFails, SuccessReset, SuccessClose, FailureCount,
                FailureInspect, FailureStamp, Labels, InCheck
  <2>2. CASE d = c
    <3>1. pc'[c] \notin InCheck /\ saw'[c] = saw[c]
      BY <2>1, <1>t, SawStep
    <3> QED BY <2>1, <2>2, <3>1, <1>i, <1>t DEF InCheck
  <2> QED BY <2>1, <2>2, <1>o, <1>t
<1> QED BY <1>1, <1>2, <1>3, <1>4, <1>5 DEF Step

(* check answers CircuitOpen only if the breaker was open, or forced open, *)
(* at some instant between its first read and its answer.                  *)
THEOREM RefusalsJustified == Spec => []RefusalJustified
<1>1. Init => RefusalInv
  BY DEF Init, RefusalInv, InCheck
<1>2. ASSUME TypeOK, RefusalInv, [Next]_vars PROVE RefusalInv'
  <2>1. ASSUME NEW c \in Callers, Step(c) PROVE RefusalInv'
    BY <1>2, <2>1, RefusalStep
  <2>2. ASSUME Observe, pc' = pc, verdict' = verdict,
               seen' = seen \/ seen' = [c \in Callers |-> Older(seen[c])]
        PROVE  RefusalInv'
    <3>1. ASSUME NEW d \in Callers, StateOf(seen'[d]) = "Open" PROVE StateOf(seen[d]) = "Open"
      <4>1. seen[d] \in Ages
        BY <1>2 DEF TypeOK
      <4> QED BY <2>2, <3>1, <4>1, OpenWasOpen
    <3> QED BY <1>2, <2>2, <3>1, OthersKeep DEF RefusalInv, StateOf
  <2>3. CASE \E d \in ForceDurations : ForceOpen(d)
    BY <2>2, <2>3 DEF ForceOpen
  <2>4. CASE Tick
    BY <2>2, <2>4 DEF Tick
  <2>5. CASE ProviderTurns
    BY <2>2, <2>5 DEF ProviderTurns
  <2>6. CASE UNCHANGED vars
    BY <1>2, <2>6 DEF vars, RefusalInv, StateOf
  <2> QED BY <1>2, <2>1, <2>3, <2>4, <2>5, <2>6 DEF Next
<1>3. RefusalInv => RefusalJustified
  BY DEF RefusalInv, RefusalJustified
<1> QED BY <1>1, <1>2, <1>3, BreakerTypeCorrect, PTL DEF Spec

-----------------------------------------------------------------------------
(***************************************************************************)
(* Opening and closing.  record_success and record_failure each touch the  *)
(* two atomics in separate steps, so stamp and count disagree in between.  *)
(* Without overlapping records the disagreement belongs to one caller, and *)
(* its place in the record says what the two are.                          *)
(***************************************************************************)
Settled == opened # NotOpen <=> failures >= Threshold
Unsettled == {"close", "inspect", "stamp"}

OneRecords ==
    \A c, d \in Callers : pc[c] \in Recording /\ pc[d] \in Recording => c = d

CounterInv ==
    ~raced =>
        /\ OneRecords
        /\ \A c \in Callers :
              /\ pc[c] = "close" => failures = 0
              /\ pc[c] \in {"inspect", "stamp"} => failures >= Threshold
              /\ pc[c] = "stamp" => opened = NotOpen
        /\ (\A c \in Callers : pc[c] \notin Unsettled) => Settled

(* Observe notes an overlap, so without one a single caller records.       *)
LEMMA OneRecordsStep ==
    ASSUME Observe, ~raced'
    PROVE  ~raced /\ OneRecords'
BY DEF Observe, OneRecords

(* A step of a caller that leaves both atomics alone and neither enters    *)
(* nor leaves the second half of a record.                                 *)
LEMMA QuietKeeps ==
    ASSUME CounterInv, Observe, failures' = failures,
           opened' = opened \/ (opened # NotOpen /\ opened' # NotOpen),
           pc \in [Callers -> Labels],
           \/ pc' = pc
           \/ \E c \in Callers, l \in Labels \ Unsettled :
                 pc[c] \notin Unsettled /\ pc' = [pc EXCEPT ![c] = l]
    PROVE  CounterInv'
<1> SUFFICES ASSUME ~raced' PROVE CounterInv'
  BY DEF CounterInv
<1>1. ~raced /\ OneRecords'
  BY OneRecordsStep
<1>2. \A c \in Callers : pc'[c] = pc[c] \/ (pc[c] \notin Unsettled /\ pc'[c] \notin Unsettled)
  OBVIOUS
<1> QED BY <1>1, <1>2 DEF CounterInv, Settled, Unsettled

(* A caller's step keeps the invariant.                                    *)
LEMMA CounterStep ==
    ASSUME Threshold # 0, TypeOK, CounterInv, NEW c \in Callers, Step(c)
    PROVE  CounterInv'
<1>t. pc \in [Callers -> Labels] /\ failures \in 0..Threshold /\ opened \in Ages
  BY DEF TypeOK, Labels, InCheck
<1>q. ASSUME Observe, failures' = failures, opened' = opened,
             NEW l \in Labels \ Unsettled, pc[c] \notin Unsettled, pc' = [pc EXCEPT ![c] = l]
      PROVE  CounterInv'
  BY <1>q, <1>t, QuietKeeps
<1>1. CASE CheckForced(c) /\ forced > 0
  BY <1>1 DEF CheckForced, CounterInv, OneRecords, Settled
<1>2. CASE CheckForced(c) /\ ~(forced > 0)
  BY <1>2, <1>q DEF CheckForced, Labels, Unsettled
<1>3. CASE CheckLoad(c) \/ CheckDecide(c) \/ CallSucceeds(c)
  BY <1>3, <1>q DEF CheckLoad, CheckDecide, CallSucceeds, Labels, Unsettled
<1>4. CASE \E k \in ProviderErrors : CallFails(c, k)
  BY <1>4, <1>q DEF CallFails, Labels, Unsettled
<1>5. ASSUME ~raced', pc[c] \in Recording, Observe,
             NEW l \in Labels, pc' = [pc EXCEPT ![c] = l]
      PROVE  /\ ~raced /\ OneRecords'
             /\ \A d \in Callers : d # c => pc[d] \notin Recording /\ pc'[d] \notin Recording
             /\ pc'[c] = l
  <2>1. ~raced /\ OneRecords' /\ OneRecords
    BY <1>5, OneRecordsStep DEF CounterInv
  <2> QED BY <2>1, <1>5, <1>t DEF OneRecords
<1>r. Unsettled \subseteq Recording
  BY DEF Unsettled, Recording
<1>6. CASE SuccessReset(c)
  <2> SUFFICES ASSUME ~raced' PROVE CounterInv'
    BY DEF CounterInv
  <2>1. pc[c] = "reset" /\ failures' = 0 /\ opened' = opened /\ pc' = [pc EXCEPT ![c] = "close"]
        /\ Observe
    BY <1>6 DEF SuccessReset
  <2>2. /\ OneRecords' /\ \A d \in Callers : d # c => pc'[d] \notin Recording
        /\ pc'[c] = "close"
    BY <2>1, <1>5 DEF Recording, Labels
  <2> QED BY <2>1, <2>2 DEF CounterInv, Recording, Unsettled
<1>7. CASE SuccessClose(c)
  <2> SUFFICES ASSUME ~raced' PROVE CounterInv'
    BY DEF CounterInv
  <2>1. pc[c] = "close" /\ failures' = failures /\ opened' = NotOpen
        /\ pc' = [pc EXCEPT ![c] = "idle"] /\ Observe
    BY <1>7 DEF SuccessClose
  <2>2. /\ ~raced /\ OneRecords' /\ \A d \in Callers : d # c => pc'[d] \notin Recording
        /\ pc'[c] = "idle"
    BY <2>1, <1>5 DEF Recording, Labels
  <2>3. failures' = 0
    BY <2>1, <2>2 DEF CounterInv
  <2>4. Settled'
    BY <2>1, <2>3 DEF Settled
  <2> QED BY <2>1, <2>2, <2>4 DEF CounterInv, Recording
<1>8. CASE FailureCount(c)
  <2> SUFFICES ASSUME ~raced' PROVE CounterInv'
    BY DEF CounterInv
  <2>1. /\ pc[c] = "count" /\ opened' = opened /\ Observe
        /\ failures' = IF failures < Threshold THEN failures + 1 ELSE failures
        /\ pc' = [pc EXCEPT ![c] = IF failures + 1 >= Threshold THEN "inspect" ELSE "idle"]
    BY <1>8 DEF FailureCount
  <2>2. /\ ~raced /\ OneRecords'
        /\ \A d \in Callers : d # c => pc[d] \notin Recording /\ pc'[d] \notin Recording
        /\ pc'[c] = IF failures + 1 >= Threshold THEN "inspect" ELSE "idle"
    BY <2>1, <1>5 DEF Recording, Labels
  <2>3. Settled
    BY <2>1, <2>2, <1>r DEF CounterInv, Unsettled
  <2>4. CASE failures + 1 >= Threshold
    <3>1. pc'[c] = "inspect" /\ failures' >= Threshold
      BY <2>1, <2>2, <2>4, <1>t
    <3> QED BY <2>2, <3>1 DEF CounterInv, Recording, Unsettled
  <2>5. CASE ~(failures + 1 >= Threshold)
    <3>1. pc'[c] = "idle" /\ ~(failures' >= Threshold) /\ ~(failures >= Threshold)
      BY <2>1, <2>2, <2>5, <1>t
    <3>2. Settled'
      BY <3>1, <2>1, <2>3 DEF Settled
    <3> QED BY <2>2, <3>1, <3>2 DEF CounterInv, Recording
  <2> QED BY <2>4, <2>5
<1>9. CASE FailureInspect(c)
  <2> SUFFICES ASSUME ~raced' PROVE CounterInv'
    BY DEF CounterInv
  <2>1. /\ pc[c] = "inspect" /\ opened' = opened /\ failures' = failures /\ Observe
        /\ pc' = [pc EXCEPT ![c] = IF opened = NotOpen THEN "stamp" ELSE "idle"]
    BY <1>9 DEF FailureInspect
  <2>2. /\ ~raced /\ OneRecords' /\ \A d \in Callers : d # c => pc'[d] \notin Recording
        /\ pc'[c] = IF opened = NotOpen THEN "stamp" ELSE "idle"
    BY <2>1, <1>5 DEF Recording, Labels
  <2>3. failures' >= Threshold
    BY <2>1, <2>2 DEF CounterInv
  <2> QED BY <2>1, <2>2, <2>3 DEF CounterInv, Recording, Unsettled, Settled
<1>10. CASE FailureStamp(c)
  <2> SUFFICES ASSUME ~raced' PROVE CounterInv'
    BY DEF CounterInv
  <2>1. /\ pc[c] = "stamp" /\ opened' = 0 /\ failures' = failures /\ Observe
        /\ pc' = [pc EXCEPT ![c] = "idle"]
    BY <1>10 DEF FailureStamp
  <2>2. /\ ~raced /\ OneRecords' /\ \A d \in Callers : d # c => pc'[d] \notin Recording
        /\ pc'[c] = "idle"
    BY <2>1, <1>5 DEF Recording, Labels
  <2>3. failures' >= Threshold /\ opened' # NotOpen
    BY <2>1, <2>2 DEF CounterInv, NotOpen
  <2> QED BY <2>2, <2>3 DEF CounterInv, Recording, Settled
<1> QED BY <1>1, <1>2, <1>3, <1>4, <1>6, <1>7, <1>8, <1>9, <1>10 DEF Step

(* As long as results are recorded one after the other the breaker carries *)
(* a stamp exactly when the threshold has been reached since the last      *)
(* success, and a refusal is never unjustified.  A failure_threshold of    *)
(* zero is left out: the breaker starts closed with zero failures, and the *)
(* first failure opens it.                                                 *)
THEOREM OpensJustly == Threshold # 0 => (Spec => []OpensAndRefusesJustly)
<1> SUFFICES ASSUME Threshold # 0 PROVE Spec => []OpensAndRefusesJustly
  OBVIOUS
<1>1. Init => CounterInv
  BY DEF Init, CounterInv, OneRecords, Settled, Recording, Unsettled, NotOpen
<1>2. ASSUME TypeOK, CounterInv, [Next]_vars PROVE CounterInv'
  <2>t. pc \in [Callers -> Labels]
    BY <1>2 DEF TypeOK, Labels, InCheck
  <2>1. ASSUME NEW c \in Callers, Step(c) PROVE CounterInv'
    BY <1>2, <2>1, CounterStep
  <2>2. CASE \E d \in ForceDurations : ForceOpen(d)
    BY <1>2, <2>2, <2>t, QuietKeeps DEF ForceOpen
  <2>3. CASE Tick
    <3>1. opened \in Ages
      BY <1>2 DEF TypeOK
    <3>2. opened' = opened \/ (opened # NotOpen /\ opened' # NotOpen)
      BY <2>3, <3>1 DEF Tick, Older, Ages, NotOpen
    <3> QED BY <1>2, <2>3, <3>2, <2>t, QuietKeeps DEF Tick
  <2>4. CASE ProviderTurns
    BY <1>2, <2>4, <2>t, QuietKeeps DEF ProviderTurns
  <2>5. CASE UNCHANGED vars
    BY <1>2, <2>5 DEF vars, CounterInv, OneRecords, Settled
  <2> QED BY <1>2, <2>1, <2>2, <2>3, <2>4, <2>5 DEF Next
<1>3. CounterInv => CounterMatchesState
  BY DEF CounterInv, CounterMatchesState, Settled, Unsettled, Recording
<1> QED BY <1>1, <1>2, <1>3, BreakerTypeCorrect, RefusalsJustified, PTL DEF Spec, OpensAndRefusesJustly

-----------------------------------------------------------------------------
(***************************************************************************)
(* The rate limiter.                                                       *)
(***************************************************************************)
USE LimiterAssumption

(***************************************************************************)
(* One limit of one node.  `age' is the window's age, `spent' its counter, *)
(* `recent' the history and `limit' the bound.  While the window runs, its *)
(* counter is the history at its own age, younger spans hold no more than  *)
(* that, and every span holds at most one more limit: the grants of the    *)
(* window before it.  When it has run out, or none was started, nothing    *)
(* has been granted in this tick and no span holds more than one limit,    *)
(* which is what makes the next window's two limits suffice.               *)
(***************************************************************************)
Running(age) == age \in Spans
Over(age) == age \in {NotStarted, Window}

Account(age, spent, recent, limit) ==
    /\ recent \in [Spans -> Nat]
    /\ spent \in 0 .. limit
    /\ Running(age) => /\ spent = recent[age]
                       /\ \A a \in Spans : a <= age => recent[a] <= spent
                       /\ \A a \in Spans : recent[a] <= spent + limit
    /\ Over(age) => /\ recent[0] = 0
                    /\ \A a \in Spans : recent[a] <= limit

(* A window's age is NotStarted, running or over, never two of them.       *)
LEMMA WindowAges ==
    /\ NotStarted..Window = {NotStarted, Window} \cup Spans
    /\ 0 \in Spans
    /\ NotStarted \notin Spans /\ Window \notin Spans
    /\ Spans \subseteq Nat
BY DEF NotStarted, Spans

(* A new window's account: nothing is spent in it yet.                     *)
LEMMA Renewed ==
    ASSUME NEW age, NEW spent, NEW recent, NEW limit \in Nat,
           Over(age), Account(age, spent, recent, limit)
    PROVE  Account(0, 0, recent, limit)
<1>1. 0 \in Spans /\ ~Over(0) /\ \A a \in Spans : a <= 0 => a = 0
  BY DEF Spans, Over, NotStarted
<1> QED BY <1>1 DEF Account

(* A permit within the limit is booked and remembered in every span.       *)
LEMMA Booked ==
    ASSUME NEW age, NEW spent, NEW recent, NEW limit \in Nat, NEW cost \in Nat,
           Running(age), Account(age, spent, recent, limit), spent + cost <= limit
    PROVE  Account(age, spent + cost, [a \in Spans |-> recent[a] + cost], limit)
<1>1. age \in Spans /\ ~Over(age) /\ spent \in Nat
  BY WindowAges DEF Running, Over, Account
<1>2. \A a \in Spans : recent[a] \in Nat
  BY DEF Account
<1> QED BY <1>1, <1>2 DEF Account, Running

(* The clock advances.                                                     *)
LEMMA AgedAccount ==
    ASSUME NEW age \in NotStarted..Window, NEW spent, NEW recent, NEW limit \in Nat,
           Account(age, spent, recent, limit)
    PROVE  Account(IF age \in {NotStarted, Window} THEN age ELSE age + 1,
                   spent, Aged(recent), limit)
<1>1. \A a \in Spans : a \in Nat /\ (a # 0 => a - 1 \in Spans)
  BY DEF Spans
<1>2. 0 \in Spans /\ \A a \in Spans : recent[a] \in Nat
  BY WindowAges DEF Account
<1>3. /\ Aged(recent) \in [Spans -> Nat]
      /\ Aged(recent)[0] = 0
      /\ \A a \in Spans : a # 0 => Aged(recent)[a] = recent[a - 1]
  BY <1>1, <1>2 DEF Aged
<1>4. spent \in Nat /\ spent <= limit
  BY DEF Account
<1>5. CASE Over(age)
  <2>1. \A a \in Spans : Aged(recent)[a] <= limit
    BY <1>1, <1>3, <1>5 DEF Account
  <2>2. ~Running(age)
    BY <1>5, WindowAges DEF Running, Over
  <2> QED BY <1>3, <1>5, <2>1, <2>2 DEF Account, Over
<1>6. CASE Running(age)
  <2>1. age \in Nat /\ age < Window /\ age \notin {NotStarted, Window}
    BY <1>6 DEF Running, Spans, NotStarted
  <2>2. \A a \in Spans : a <= age + 1 => Aged(recent)[a] <= spent
    <3> SUFFICES ASSUME NEW a \in Spans, a <= age + 1 PROVE Aged(recent)[a] <= spent
      OBVIOUS
    <3>1. CASE a = 0
      BY <3>1, <1>3, <1>4
    <3>2. CASE a # 0
      <4>1. a - 1 \in Spans /\ a - 1 <= age
        BY <3>2, <1>1, <2>1
      <4> QED BY <3>2, <4>1, <1>3, <1>6 DEF Account
    <3> QED BY <3>1, <3>2
  <2>3. CASE age + 1 = Window
    <3>1. Over(age + 1) /\ ~Running(age + 1)
      BY <2>3, WindowAges DEF Over, Running
    <3>2. \A a \in Spans : Aged(recent)[a] <= limit
      <4> SUFFICES ASSUME NEW a \in Spans PROVE Aged(recent)[a] <= limit
        OBVIOUS
      <4>1. a <= age + 1
        BY <2>3 DEF Spans
      <4>2. Aged(recent)[a] <= spent /\ Aged(recent)[a] \in Nat
        BY <2>2, <4>1, <1>3
      <4> QED BY <4>2, <1>4
    <3> QED BY <3>1, <3>2, <2>1, <1>3, <1>4 DEF Account
  <2>4. CASE age + 1 # Window
    <3>1. age + 1 \in Spans /\ ~Over(age + 1) /\ age + 1 # 0
      BY <2>1, <2>4 DEF Spans, Over, NotStarted
    <3>2. Aged(recent)[age + 1] = recent[age] /\ recent[age] = spent
      BY <3>1, <2>1, <1>3, <1>6 DEF Account
    <3>3. \A a \in Spans : Aged(recent)[a] <= spent + limit
      BY <1>1, <1>3, <1>4, <1>6 DEF Account
    <3> QED BY <3>1, <3>2, <3>3, <2>1, <2>2, <1>3, <1>4 DEF Account, Running
  <2> QED BY <2>3, <2>4
<1> QED BY <1>5, <1>6, WindowAges DEF Over, Running

-----------------------------------------------------------------------------
(* The account of both limits on every node.                               *)
Accounts ==
    \A n \in Nodes :
        /\ Account(started[n], requests[n], recentRequests[n], RequestsPerMinute)
        /\ Account(started[n], tokens[n], recentTokens[n], TokensPerMinute)

LimiterInv == LimiterTypeOK /\ Accounts

(* The window an acquire works in, after rotate_window_if_needed.          *)
LEMMA Rotated ==
    ASSUME LimiterInv, NEW n \in Nodes, NEW age,
           age = IF NeedsReset(n) THEN 0 ELSE started[n]
    PROVE  /\ Running(age)
           /\ Account(age, Spent(n, requests), recentRequests[n], RequestsPerMinute)
           /\ Account(age, Spent(n, tokens), recentTokens[n], TokensPerMinute)
<1>1. started[n] \in NotStarted..Window
  BY DEF LimiterInv, LimiterTypeOK
<1>2. NeedsReset(n) <=> Over(started[n])
  BY <1>1 DEF NeedsReset, Over, NotStarted
<1>3. /\ Account(started[n], requests[n], recentRequests[n], RequestsPerMinute)
      /\ Account(started[n], tokens[n], recentTokens[n], TokensPerMinute)
  BY DEF LimiterInv, Accounts
<1>4. CASE NeedsReset(n)
  BY <1>2, <1>3, <1>4, Renewed, WindowAges DEF Spent, Running
<1>5. CASE ~NeedsReset(n)
  BY <1>1, <1>2, <1>3, <1>5, WindowAges DEF Spent, Running, Over
<1> QED BY <1>4, <1>5

(* AcquirePermit keeps the books, granted or refused.                      *)
LEMMA AcquireAccounts ==
    ASSUME LimiterInv, NEW n \in Nodes, NEW cost \in Costs, Acquire(n, cost)
    PROVE  LimiterInv'
<1> DEFINE age == IF NeedsReset(n) THEN 0 ELSE started[n]
<1>t. /\ started \in [Nodes -> NotStarted..Window]
      /\ requests \in [Nodes -> 0..RequestsPerMinute] /\ tokens \in [Nodes -> 0..TokensPerMinute]
      /\ counter \in [Nodes -> [Nodes -> Nat]]
      /\ sent \subseteq [from : Nodes, count : [Nodes -> Nat]]
      /\ permit \in [Nodes -> {"none", "Ok", "Backpressure"}]
      /\ recentRequests \in [Nodes -> [Spans -> Nat]] /\ recentTokens \in [Nodes -> [Spans -> Nat]]
  BY DEF LimiterInv, LimiterTypeOK
<1>r. /\ Running(age)
      /\ Account(age, Spent(n, requests), recentRequests[n], RequestsPerMinute)
      /\ Account(age, Spent(n, tokens), recentTokens[n], TokensPerMinute)
  BY Rotated
<1>s. started' = [started EXCEPT ![n] = age]
  BY DEF Acquire, Rotate
<1>a. age \in NotStarted..Window
  BY <1>r, WindowAges DEF Running
<1>v. View(n) \in [Nodes -> Nat]
  BY <1>t DEF View, Zero
<1> HIDE DEF age
<1>1. ASSUME NEW u \in 0..RequestsPerMinute, NEW v \in 0..TokensPerMinute,
             NEW f \in [Spans -> Nat], NEW g \in [Spans -> Nat],
             NEW w \in [Nodes -> Nat], NEW x \in {"Ok", "Backpressure"},
             Account(age, u, f, RequestsPerMinute), Account(age, v, g, TokensPerMinute),
             requests' = [requests EXCEPT ![n] = u], tokens' = [tokens EXCEPT ![n] = v],
             recentRequests' = [recentRequests EXCEPT ![n] = f],
             recentTokens' = [recentTokens EXCEPT ![n] = g],
             counter' = [counter EXCEPT ![n] = w], permit' = [permit EXCEPT ![n] = x],
             sent' = sent
      PROVE  LimiterInv'
  <2>1. LimiterTypeOK'
    BY <1>1, <1>t, <1>s, <1>a DEF LimiterTypeOK
  <2>2. ASSUME NEW m \in Nodes
        PROVE  /\ Account(started'[m], requests'[m], recentRequests'[m], RequestsPerMinute)
               /\ Account(started'[m], tokens'[m], recentTokens'[m], TokensPerMinute)
    <3>1. CASE m = n
      BY <3>1, <1>1, <1>s, <1>t
    <3>2. CASE m # n
      <4>1. /\ started'[m] = started[m] /\ requests'[m] = requests[m] /\ tokens'[m] = tokens[m]
            /\ recentRequests'[m] = recentRequests[m] /\ recentTokens'[m] = recentTokens[m]
        BY <3>2, <1>1, <1>s, <1>t
      <4> QED BY <4>1 DEF LimiterInv, Accounts
    <3> QED BY <3>1, <3>2
  <2>3. Accounts'
    BY <2>2 DEF Accounts, Account, Running, Over
  <2> QED BY <2>1, <2>3 DEF LimiterInv
<1>2. CASE Fits(n, cost)
  <2> DEFINE u == Spent(n, requests) + 1
             v == Spent(n, tokens) + cost
             f == [a \in Spans |-> recentRequests[n][a] + 1]
             g == [a \in Spans |-> recentTokens[n][a] + cost]
             w == [View(n) EXCEPT ![n] = @ + 1]
  <2>1. /\ requests' = [requests EXCEPT ![n] = u] /\ tokens' = [tokens EXCEPT ![n] = v]
        /\ recentRequests' = [recentRequests EXCEPT ![n] = f]
        /\ recentTokens' = [recentTokens EXCEPT ![n] = g]
        /\ counter' = [counter EXCEPT ![n] = w] /\ permit' = [permit EXCEPT ![n] = "Ok"]
        /\ sent' = sent
    BY <1>2 DEF Acquire, Granted
  <2>2. cost \in Nat /\ u <= RequestsPerMinute /\ v <= TokensPerMinute
    BY <1>2 DEF Fits
  <2>3. Account(age, u, f, RequestsPerMinute) /\ Account(age, v, g, TokensPerMinute)
    BY <1>r, <2>2, Booked
  <2>4. /\ u \in 0..RequestsPerMinute /\ v \in 0..TokensPerMinute
        /\ f \in [Spans -> Nat] /\ g \in [Spans -> Nat]
    BY <2>3 DEF Account
  <2>5. w \in [Nodes -> Nat]
    BY <1>v
  <2> HIDE DEF u, v, f, g, w
  <2> QED BY <1>1, <2>1, <2>3, <2>4, <2>5
<1>3. CASE ~Fits(n, cost)
  <2>1. /\ requests' = [requests EXCEPT ![n] = Spent(n, requests)]
        /\ tokens' = [tokens EXCEPT ![n] = Spent(n, tokens)]
        /\ recentRequests' = recentRequests /\ recentTokens' = recentTokens
        /\ counter' = [counter EXCEPT ![n] = View(n)]
        /\ permit' = [permit EXCEPT ![n] = "Backpressure"] /\ sent' = sent
    BY <1>3 DEF Acquire, history
  <2>2. /\ recentRequests' = [recentRequests EXCEPT ![n] = recentRequests[n]]
        /\ recentTokens' = [recentTokens EXCEPT ![n] = recentTokens[n]]
    BY <2>1, <1>t
  <2>3. /\ Spent(n, requests) \in 0..RequestsPerMinute /\ Spent(n, tokens) \in 0..TokensPerMinute
        /\ recentRequests[n] \in [Spans -> Nat] /\ recentTokens[n] \in [Spans -> Nat]
    BY <1>r DEF Account
  <2> QED BY <1>1, <1>r, <1>v, <2>1, <2>2, <2>3
<1> QED BY <1>2, <1>3

(* Both limits keep their accounts when the clock advances.                *)
LEMMA TickAccounts ==
    ASSUME LimiterInv, TimePasses
    PROVE  LimiterInv'
<1>t. /\ started \in [Nodes -> NotStarted..Window]
      /\ recentRequests \in [Nodes -> [Spans -> Nat]] /\ recentTokens \in [Nodes -> [Spans -> Nat]]
  BY DEF LimiterInv, LimiterTypeOK
<1>e. /\ started' = [n \in Nodes |-> IF started[n] \in {NotStarted, Window} THEN started[n]
                                    ELSE started[n] + 1]
      /\ recentRequests' = [n \in Nodes |-> Aged(recentRequests[n])]
      /\ recentTokens' = [n \in Nodes |-> Aged(recentTokens[n])]
      /\ requests' = requests /\ tokens' = tokens /\ counter' = counter /\ sent' = sent
      /\ permit' = permit
  BY DEF TimePasses
<1>1. \A s \in NotStarted..Window :
         (IF s \in {NotStarted, Window} THEN s ELSE s + 1) \in NotStarted..Window
  BY DEF NotStarted
<1>2. ASSUME NEW n \in Nodes
      PROVE  /\ Account(started'[n], requests'[n], recentRequests'[n], RequestsPerMinute)
             /\ Account(started'[n], tokens'[n], recentTokens'[n], TokensPerMinute)
  <2>1. /\ started[n] \in NotStarted..Window
        /\ Account(started[n], requests[n], recentRequests[n], RequestsPerMinute)
        /\ Account(started[n], tokens[n], recentTokens[n], TokensPerMinute)
    BY <1>t DEF LimiterInv, Accounts
  <2>2. /\ started'[n] = IF started[n] \in {NotStarted, Window} THEN started[n]
                         ELSE started[n] + 1
        /\ requests'[n] = requests[n] /\ tokens'[n] = tokens[n]
        /\ recentRequests'[n] = Aged(recentRequests[n])
        /\ recentTokens'[n] = Aged(recentTokens[n])
    BY <1>e
  <2>3. Account(started'[n], requests[n], Aged(recentRequests[n]), RequestsPerMinute)
    BY <2>1, <2>2, AgedAccount
  <2>4. Account(started'[n], tokens[n], Aged(recentTokens[n]), TokensPerMinute)
    BY <2>1, <2>2, AgedAccount
  <2> QED BY <2>2, <2>3, <2>4
<1>3. Accounts'
  BY <1>2 DEF Accounts, Account, Running, Over
<1>4. recentRequests' \in [Nodes -> [Spans -> Nat]] /\ recentTokens' \in [Nodes -> [Spans -> Nat]]
  BY <1>2, <1>e DEF Account
<1>5. started' \in [Nodes -> NotStarted..Window]
  BY <1>1, <1>e, <1>t
<1> QED BY <1>3, <1>4, <1>5, <1>e DEF LimiterInv, LimiterTypeOK

(* The replicator touches the counters only, and keeps them counters.      *)
LEMMA ReplicationAccounts ==
    ASSUME LimiterInv,
           \/ \E n \in Nodes : Publish(n)
           \/ \E delta \in sent : Lose(delta) \/ \E n \in Nodes : Merge(n, delta)
    PROVE  LimiterInv'
<1>t. counter \in [Nodes -> [Nodes -> Nat]] /\ sent \subseteq [from : Nodes, count : [Nodes -> Nat]]
  BY DEF LimiterInv, LimiterTypeOK
<1>1. /\ started' = started /\ requests' = requests /\ tokens' = tokens /\ permit' = permit
      /\ recentRequests' = recentRequests /\ recentTokens' = recentTokens
  BY DEF Publish, Lose, Merge, history
<1>2. sent' \subseteq [from : Nodes, count : [Nodes -> Nat]]
  BY <1>t DEF Publish, Lose, Merge
<1>3. counter' \in [Nodes -> [Nodes -> Nat]]
  <2>1. CASE counter' = counter
    BY <2>1, <1>t
  <2>2. ASSUME NEW delta \in sent, NEW n \in Nodes, Merge(n, delta)
        PROVE  counter' \in [Nodes -> [Nodes -> Nat]]
    <3>1. delta.count \in [Nodes -> Nat] /\ counter[n] \in [Nodes -> Nat]
      BY <1>t
    <3> DEFINE c == [m \in Nodes |-> IF delta.count[m] > counter[n][m] THEN delta.count[m]
                                     ELSE counter[n][m]]
    <3>2. c \in [Nodes -> Nat]
      BY <3>1
    <3>3. counter' = [counter EXCEPT ![n] = c]
      BY <2>2 DEF Merge
    <3> HIDE DEF c
    <3> QED BY <3>2, <3>3, <1>t
  <2> QED BY <2>1, <2>2 DEF Publish, Lose
<1> QED BY <1>1, <1>2, <1>3 DEF LimiterInv, LimiterTypeOK, Accounts

(* The books are right in every reachable state.                           *)
THEOREM LimiterInvariance == LimiterSpec => []LimiterInv
<1>1. ASSUME LimiterInit PROVE LimiterInv
  <2>1. 0 \in Spans /\ NotStarted \in NotStarted..Window /\ ~Running(NotStarted)
    BY DEF Spans, NotStarted, Running
  <2>2. LimiterTypeOK
    BY <1>1, <2>1 DEF LimiterInit, LimiterTypeOK, Zero
  <2>3. \A n \in Nodes : /\ started[n] = NotStarted /\ requests[n] = 0 /\ tokens[n] = 0
                         /\ recentRequests[n] = [a \in Spans |-> 0]
                         /\ recentTokens[n] = [a \in Spans |-> 0]
    BY <1>1 DEF LimiterInit, Zero
  <2>4. ASSUME NEW limit \in Nat PROVE Account(NotStarted, 0, [a \in Spans |-> 0], limit)
    BY <2>1 DEF Account
  <2> QED BY <2>2, <2>3, <2>4 DEF LimiterInv, Accounts
<1>2. LimiterInv /\ [LimiterNext]_limiterVars => LimiterInv'
  <2> SUFFICES ASSUME LimiterInv, [LimiterNext]_limiterVars PROVE LimiterInv'
    OBVIOUS
  <2>1. CASE UNCHANGED limiterVars
    BY <2>1 DEF limiterVars, history, LimiterInv, LimiterTypeOK, Accounts
  <2> QED BY <2>1, AcquireAccounts, TickAccounts, ReplicationAccounts DEF LimiterNext
<1> QED BY <1>1, <1>2, PTL DEF LimiterSpec

(* Every variable keeps its type; the window counters never exceed the     *)
(* limits acquire tests.                                                   *)
THEOREM LimiterTypeCorrect == LimiterSpec => []LimiterTypeOK
BY LimiterInvariance, PTL DEF LimiterInv

(* A node's spend is what it granted in its window, and at most twice a    *)
(* limit is granted in any minute across a boundary.                       *)
THEOREM SpendBounded == LimiterSpec => []SpendIsBounded
<1>1. ASSUME LimiterInv PROVE SpendIsBounded
  <2> SUFFICES ASSUME NEW n \in Nodes
               PROVE  /\ started[n] \in 0 .. Window - 1 =>
                            /\ requests[n] = recentRequests[n][started[n]]
                            /\ tokens[n] = recentTokens[n][started[n]]
                      /\ recentRequests[n][Window - 1] <= 2 * RequestsPerMinute
                      /\ recentTokens[n][Window - 1] <= 2 * TokensPerMinute
    BY DEF SpendIsBounded, SpendMatchesGrants, TwiceTheBudget
  <2>1. /\ started[n] \in NotStarted..Window
        /\ Account(started[n], requests[n], recentRequests[n], RequestsPerMinute)
        /\ Account(started[n], tokens[n], recentTokens[n], TokensPerMinute)
    BY <1>1 DEF LimiterInv, LimiterTypeOK, Accounts
  <2>2. Running(started[n]) \/ Over(started[n])
    BY <2>1, WindowAges DEF Running, Over
  <2>3. Window - 1 \in Spans
    BY DEF Spans
  <2>4. ASSUME NEW spent, NEW recent, NEW limit \in Nat,
               Account(started[n], spent, recent, limit)
        PROVE  recent[Window - 1] <= 2 * limit
    <3>1. recent[Window - 1] \in Nat /\ spent \in Nat /\ spent <= limit
      BY <2>3, <2>4 DEF Account
    <3>2. recent[Window - 1] <= spent + limit
      BY <2>2, <2>3, <2>4, <3>1 DEF Account
    <3> QED BY <3>1, <3>2
  <2> QED BY <2>1, <2>4 DEF Account, Running, Spans
<1> QED BY <1>1, LimiterInvariance, PTL
=============================================================================
