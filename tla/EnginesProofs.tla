---------------------------- MODULE EnginesProofs ---------------------------
(***************************************************************************)
(* Proofs about the engine cores for every max_concurrent, every set of    *)
(* requests or sessions and every channel capacity: the slot counter of    *)
(* the speech, audio and realtime engines is exact, and those engines      *)
(* implement the promise of AdmissionEngine.                               *)
(***************************************************************************)
EXTENDS Engines, FiniteSetTheorems, TLAPS

USE EngineAssumption, RealtimeAssumption

(* The places of a task that occupy a slot.                                *)
SlotLabels(e) ==
    IF e = "realtime" THEN {"spawned", "opening", "relaying", "leave", "panicked"}
    ELSE {"spawned", "execute", "stream", "fail", "leave", "unlocked", "panicked"}

(* try_admit's answer, seen from where the task is.                        *)
AnswerAt(e, l) == IF e = "realtime" THEN Realtime!Verdict(l) ELSE Verdict(l)

Labels ==
    {"new", "mismatch", "spawned", "execute", "stream", "fail", "leave", "lowered",
     "unlocked", "rejected", "refused", "done", "panicked", "opening", "relaying"}

(***************************************************************************)
(* What a step of an engine other than the text engine may be, seen from   *)
(* the slots: an admission, a refusal, a slot given back, or a move that   *)
(* neither takes nor returns one.                                          *)
(***************************************************************************)
Admits(r) ==
    /\ pc[r] = "new" /\ in_flight < MaxConcurrent
    /\ pc' = [pc EXCEPT ![r] = "spawned"]
    /\ in_flight' = in_flight + 1

Refuses(r) ==
    /\ pc[r] = "new" /\ in_flight >= MaxConcurrent
    /\ pc' = [pc EXCEPT ![r] = "rejected"]
    /\ in_flight' = in_flight

Returns(r) ==
    /\ pc[r] \in SlotLabels(engine)
    /\ pc' = [pc EXCEPT ![r] = "done"]
    /\ in_flight' = IF in_flight = 0 THEN 0 ELSE in_flight - 1
    /\ AnswerAt(engine, pc[r]) = "Ok"

Moves(r, l) ==
    /\ pc' = [pc EXCEPT ![r] = l]
    /\ in_flight' = in_flight
    /\ l \in Labels
    /\ pc[r] \in SlotLabels(engine) <=> l \in SlotLabels(engine)
    /\ AnswerAt(engine, pc[r]) = AnswerAt(engine, l)

Stays == pc' = pc /\ in_flight' = in_flight

SlotInv ==
    /\ engine \in Kinds \cup {"realtime"}
    /\ in_flight \in Nat
    /\ pc \in [Requests -> Labels]
    /\ engine # "text" => /\ releasing = NoRequest
                          /\ in_flight = Cardinality(Busy)
                          /\ in_flight <= MaxConcurrent

(* Busy, uniformly for all engines.                                        *)
LEMMA BusyIs ==
    /\ Busy = {r \in Requests : pc[r] \in SlotLabels(engine)}
    /\ Busy' = {r \in Requests : pc'[r] \in SlotLabels(engine')}
BY DEF Busy, IsRealtime, Realtime!Occupying, Occupying, SlotLabels

(* The batch engines other than the text engine.                           *)
LEMMA BatchStep ==
    ASSUME SlotInv, engine # "text", AsBatch(Next)
    PROVE  /\ engine' = engine
           /\ \/ \E r \in Requests : Admits(r) \/ Refuses(r) \/ Returns(r)
              \/ \E r \in Requests, l \in Labels : Moves(r, l)
              \/ Stays
<1> DEFINE Shape == \/ \E r \in Requests : Admits(r) \/ Refuses(r) \/ Returns(r)
                    \/ \E r \in Requests, l \in Labels : Moves(r, l)
                    \/ Stays
<1>0. engine # "realtime" /\ engine # "text" /\ in_flight \in Nat
  BY DEF AsBatch, IsRealtime, SlotInv
<1>a. \A l : AnswerAt(engine, l) = Verdict(l)
  BY <1>0 DEF AnswerAt
<1>b. SlotLabels(engine) =
        {"spawned", "execute", "stream", "fail", "leave", "unlocked", "panicked"}
  BY <1>0 DEF SlotLabels
<1>c. \A r \in Requests, l \in Labels : Moves(r, l) => Shape
  OBVIOUS
<1>d. \A r \in Requests : Admits(r) \/ Refuses(r) \/ Returns(r) => Shape
  OBVIOUS
<1>e. Stays => Shape
  OBVIOUS
<1> HIDE DEF Shape
<1>1. ASSUME NEW r \in Requests, Add(r) PROVE engine' = engine /\ Shape
  <2>1. Admits(r) \/ Refuses(r)
    BY <1>1, <1>0 DEF Add, Goto, AtCapacity, Admits, Refuses
  <2> QED BY <1>1, <2>1, <1>d DEF Add
<1>2. ASSUME NEW r \in Requests, AddMismatch(r) PROVE engine' = engine /\ Shape
  <2>1. Moves(r, "mismatch") /\ "mismatch" \in Labels
    BY <1>2, <1>a, <1>b DEF AddMismatch, Goto, Moves, Verdict, Labels
  <2> QED BY <1>2, <2>1, <1>c DEF AddMismatch
<1>3. ASSUME NEW r \in Requests, Lock(r) PROVE engine' = engine /\ Shape
  <2>1. Moves(r, "execute") /\ "execute" \in Labels
    BY <1>3, <1>a, <1>b DEF Lock, Goto, Moves, Verdict, Labels
  <2> QED BY <1>3, <2>1, <1>c DEF Lock
<1>4. ASSUME NEW r \in Requests, Execute(r) PROVE engine' = engine /\ Shape
  <2>1. (Moves(r, "stream") \/ Moves(r, "fail")) /\ {"stream", "fail"} \subseteq Labels
    BY <1>4, <1>a, <1>b DEF Execute, Goto, Moves, Verdict, Labels
  <2> QED BY <1>4, <2>1, <1>c DEF Execute
<1>5. ASSUME NEW r \in Requests, Send(r) PROVE engine' = engine /\ Shape
  BY <1>5, <1>e DEF Send, Stays
<1>6. ASSUME NEW r \in Requests, SendFails(r) \/ StreamEnds(r) \/ SendError(r)
      PROVE  engine' = engine /\ Shape
  <2>1. Moves(r, "leave") /\ "leave" \in Labels
    BY <1>6, <1>a, <1>b DEF SendFails, StreamEnds, SendError, Goto, Moves, Verdict, Labels
  <2> QED BY <1>6, <2>1, <1>c DEF SendFails, StreamEnds, SendError
<1>7. ASSUME NEW r \in Requests, Unlock(r) PROVE engine' = engine /\ Shape
  <2>1. Moves(r, "unlocked") /\ "unlocked" \in Labels
    BY <1>7, <1>0, <1>a, <1>b DEF Unlock, UnlockFrom, UnlockTo, Goto, Moves, Verdict, Labels
  <2> QED BY <1>7, <2>1, <1>c DEF Unlock
<1>8. ASSUME NEW r \in Requests, Lower(r) PROVE engine' = engine /\ Shape
  <2>1. Saturating(in_flight - 1) = IF in_flight = 0 THEN 0 ELSE in_flight - 1
    BY <1>0 DEF Saturating
  <2>2. Returns(r)
    BY <1>8, <1>0, <1>a, <1>b, <2>1 DEF Lower, Goto, Returns, Verdict
  <2> QED BY <1>8, <2>2, <1>d DEF Lower
<1>9. ASSUME NEW r \in Requests, SendMismatch(r) PROVE engine' = engine /\ Shape
  <2>1. Moves(r, "refused") /\ "refused" \in Labels
    BY <1>9, <1>a, <1>b DEF SendMismatch, Goto, Moves, Verdict, Labels
  <2> QED BY <1>9, <2>1, <1>c DEF SendMismatch
<1>10. ASSUME NEW r \in Requests, Panic(r) PROVE engine' = engine /\ Shape
  <2>1. Moves(r, "panicked") /\ "panicked" \in Labels
    BY <1>10, <1>a, <1>b DEF Panic, Goto, Moves, Verdict, Labels
  <2> QED BY <1>10, <2>1, <1>c DEF Panic
<1>11. ASSUME NEW r \in Requests, Receive(r) \/ Cancel(r) PROVE engine' = engine /\ Shape
  BY <1>11, <1>e DEF Receive, Cancel, Stays
<1>12. ASSUME Release PROVE FALSE
  BY <1>12, <1>0 DEF Release, SlotInv
<1>13. ASSUME Quiescent PROVE engine' = engine /\ Shape
  BY <1>13, <1>e DEF Quiescent, vars, Stays
<1>14. engine' = engine /\ Shape
  <2>1. CASE Release \/ Quiescent
    BY <2>1, <1>12, <1>13
  <2>2. ASSUME NEW r \in Requests,
               Add(r) \/ AddMismatch(r) \/ Task(r) \/ Panic(r) \/ Receive(r) \/ Cancel(r)
        PROVE  engine' = engine /\ Shape
    BY <2>2, <1>1, <1>2, <1>3, <1>4, <1>5, <1>6, <1>7, <1>8, <1>9, <1>10, <1>11 DEF Task
  <2> QED BY <2>1, <2>2 DEF AsBatch, Next
<1> QED BY <1>14 DEF Shape

(* The realtime engine.                                                    *)
LEMMA RealtimeStep ==
    ASSUME SlotInv, AsRealtime(Realtime!Next)
    PROVE  /\ engine = "realtime" /\ engine' = engine
           /\ \/ \E r \in Requests : Admits(r) \/ Refuses(r) \/ Returns(r)
              \/ \E r \in Requests, l \in Labels : Moves(r, l)
              \/ Stays
<1> DEFINE Shape == \/ \E r \in Requests : Admits(r) \/ Refuses(r) \/ Returns(r)
                    \/ \E r \in Requests, l \in Labels : Moves(r, l)
                    \/ Stays
<1>0. engine = "realtime" /\ engine' = engine /\ in_flight \in Nat
  BY DEF AsRealtime, IsRealtime, SlotInv, batchVars
<1>a. \A l : AnswerAt(engine, l) = Realtime!Verdict(l)
  BY <1>0 DEF AnswerAt
<1>b. SlotLabels(engine) = {"spawned", "opening", "relaying", "leave", "panicked"}
  BY <1>0 DEF SlotLabels
<1>c. \A r \in Requests, l \in Labels : Moves(r, l) => Shape
  OBVIOUS
<1>d. \A r \in Requests : Admits(r) \/ Refuses(r) \/ Returns(r) => Shape
  OBVIOUS
<1>e. Stays => Shape
  OBVIOUS
<1> HIDE DEF Shape
<1> USE DEF Realtime!Goto
<1>1. ASSUME NEW r \in Requests, Realtime!OpenSession(r) PROVE Shape
  <2>1. Admits(r) \/ Refuses(r)
    BY <1>1, <1>0 DEF Realtime!OpenSession, Realtime!AtCapacity, Admits, Refuses
  <2> QED BY <2>1, <1>d
<1>2. ASSUME NEW r \in Requests, Realtime!Lock(r) PROVE Shape
  <2>1. Moves(r, "opening") /\ "opening" \in Labels
    BY <1>2, <1>a, <1>b DEF Realtime!Lock, Moves, Realtime!Verdict, Labels
  <2> QED BY <2>1, <1>c
<1>3. ASSUME NEW r \in Requests, Realtime!Opened(r) PROVE Shape
  <2>1. (Moves(r, "relaying") \/ Moves(r, "leave")) /\ {"relaying", "leave"} \subseteq Labels
    BY <1>3, <1>a, <1>b DEF Realtime!Opened, Moves, Realtime!Verdict, Labels
  <2> QED BY <2>1, <1>c
<1>4. ASSUME NEW r \in Requests, Realtime!Panic(r) PROVE Shape
  <2>1. Moves(r, "panicked") /\ "panicked" \in Labels
    BY <1>4, <1>a, <1>b DEF Realtime!Panic, Moves, Realtime!Verdict, Labels
  <2> QED BY <2>1, <1>c
<1>5. ASSUME NEW r \in Requests, Realtime!RelayBroken(r) \/ Realtime!RelayEnds(r) PROVE Shape
  <2>1. Moves(r, "leave") /\ "leave" \in Labels
    BY <1>5, <1>a, <1>b DEF Realtime!RelayBroken, Realtime!RelayEnds, Moves, Realtime!Verdict, Labels
  <2> QED BY <2>1, <1>c
<1>6. ASSUME NEW r \in Requests, Realtime!Lower(r) PROVE Shape
  <2>1. Returns(r)
    BY <1>6, <1>a, <1>b DEF Realtime!Lower, Returns, Realtime!Verdict
  <2> QED BY <2>1, <1>d
<1>7. ASSUME NEW r \in Requests,
             \/ Realtime!Relay(r) \/ Realtime!AdapterSends(r) \/ Realtime!AdapterEnds(r)
             \/ Realtime!CallerReads(r) \/ Realtime!CallerDrops(r)
      PROVE  Shape
  BY <1>7, <1>e DEF Realtime!Relay, Realtime!AdapterSends, Realtime!AdapterEnds,
                    Realtime!CallerReads, Realtime!CallerDrops, Stays
<1>8. ASSUME Realtime!Quiescent PROVE Shape
  BY <1>8, <1>e DEF Realtime!Quiescent, Realtime!vars, Stays
<1>9. Shape
  <2>1. ASSUME NEW r \in Requests,
               \/ Realtime!OpenSession(r) \/ Realtime!Task(r) \/ Realtime!Panic(r)
               \/ Realtime!AdapterSends(r) \/ Realtime!AdapterEnds(r)
               \/ Realtime!CallerReads(r) \/ Realtime!CallerDrops(r)
        PROVE  Shape
    BY <2>1, <1>1, <1>2, <1>3, <1>4, <1>5, <1>6, <1>7 DEF Realtime!Task
  <2> QED BY <2>1, <1>8 DEF AsRealtime, Realtime!Next
<1> QED BY <1>0, <1>9 DEF Shape

(* How the slots in use follow one task.                                   *)
LEMMA SlotCounts ==
    ASSUME SlotInv, engine' = engine, NEW r \in Requests, NEW l,
           pc' = [pc EXCEPT ![r] = l]
    PROVE  /\ IsFiniteSet(Busy) /\ Cardinality(Busy) \in Nat
           /\ (pc[r] \in SlotLabels(engine) <=> l \in SlotLabels(engine)) => Busy' = Busy
           /\ pc[r] \notin SlotLabels(engine) /\ l \in SlotLabels(engine) =>
                 Busy' = Busy \cup {r} /\ Cardinality(Busy') = Cardinality(Busy) + 1
           /\ pc[r] \in SlotLabels(engine) /\ l \notin SlotLabels(engine) =>
                 /\ Busy' = Busy \ {r} /\ r \in Busy
                 /\ Cardinality(Busy) > 0 /\ Cardinality(Busy') = Cardinality(Busy) - 1
<1> DEFINE S == SlotLabels(engine)
           B == {x \in Requests : pc[x] \in S}
           C == {x \in Requests : pc'[x] \in S}
<1>0. Busy = B /\ Busy' = C
  BY BusyIs
<1>1. IsFiniteSet(B) /\ Cardinality(B) \in Nat
  BY FS_Subset, FS_CardinalityType
<1>2. \A x \in Requests : pc'[x] = IF x = r THEN l ELSE pc[x]
  BY DEF SlotInv
<1> HIDE DEF S
<1>3. (pc[r] \in S <=> l \in S) => C = B
  BY <1>2
<1>4. pc[r] \notin S /\ l \in S => C = B \cup {r} /\ r \notin B
  BY <1>2
<1>5. pc[r] \in S /\ l \notin S => C = B \ {r} /\ r \in B
  BY <1>2
<1> HIDE DEF B, C
<1>6. pc[r] \notin S /\ l \in S => Cardinality(C) = Cardinality(B) + 1
  BY <1>1, <1>4, FS_AddElement
<1>7. pc[r] \in S /\ l \notin S => Cardinality(C) = Cardinality(B) - 1 /\ Cardinality(B) > 0
  <2> SUFFICES ASSUME pc[r] \in S, l \notin S
               PROVE  Cardinality(C) = Cardinality(B) - 1 /\ Cardinality(B) > 0
    OBVIOUS
  <2>1. C = B \ {r} /\ r \in B
    BY <1>5
  <2>2. Cardinality(B \ {r}) = Cardinality(B) - 1
    BY <1>1, <2>1, FS_RemoveElement
  <2>3. Cardinality(B) # 0
    BY <1>1, <2>1, FS_EmptySet
  <2> QED BY <1>1, <2>1, <2>2, <2>3
<1> QED BY <1>0, <1>1, <1>3, <1>4, <1>5, <1>6, <1>7 DEF S

(* What a step of any engine amounts to for the slots.                     *)
LEMMA EngineStep ==
    ASSUME SlotInv, engine # "text", [EngineNext]_engineVars
    PROVE  /\ engine' = engine
           /\ \/ \E r \in Requests : Admits(r) \/ Refuses(r) \/ Returns(r)
              \/ \E r \in Requests, l \in Labels : Moves(r, l)
              \/ Stays
<1>1. CASE AsBatch(Next)
  BY <1>1, BatchStep
<1>2. CASE AsRealtime(Realtime!Next)
  BY <1>2, RealtimeStep
<1>3. CASE UNCHANGED engineVars
  BY <1>3 DEF engineVars, vars, Stays
<1> QED BY <1>1, <1>2, <1>3 DEF EngineNext

(* A step of the text engine, of which only the types are claimed.         *)
LEMMA TextStep ==
    ASSUME SlotInv, engine = "text", [EngineNext]_engineVars
    PROVE  engine' = engine /\ in_flight' \in Nat /\ pc' \in [Requests -> Labels]
<1>t. in_flight \in Nat /\ pc \in [Requests -> Labels]
  BY DEF SlotInv
<1>s. Saturating(in_flight - 1) \in Nat
  BY <1>t DEF Saturating
<1>l. \A r \in Requests, l \in Labels : [pc EXCEPT ![r] = l] \in [Requests -> Labels]
  BY <1>t
<1>1. CASE UNCHANGED engineVars
  BY <1>1, <1>t DEF engineVars, vars
<1>2. ASSUME NEW r \in Requests, Add(r) PROVE engine' = engine /\ in_flight' \in Nat /\ pc' \in [Requests -> Labels]
  <2>1. {"rejected", "spawned"} \subseteq Labels
    BY DEF Labels
  <2> QED BY <1>2, <1>t, <1>l, <2>1 DEF Add, Goto
<1>3. ASSUME NEW r \in Requests,
             \/ AddMismatch(r) \/ Task(r) \/ Panic(r) \/ Receive(r) \/ Cancel(r)
      PROVE  engine' = engine /\ in_flight' \in Nat /\ pc' \in [Requests -> Labels]
  <2>1. /\ engine' = engine
        /\ in_flight' = in_flight \/ in_flight' = Saturating(in_flight - 1)
        /\ pc' = pc \/ \E l \in Labels : Goto(r, l)
    BY <1>3 DEF AddMismatch, Task, Panic, Receive, Cancel, Lock, Execute, Send, SendFails,
                StreamEnds, SendError, Unlock, UnlockTo, Lower, SendMismatch, Labels
  <2> QED BY <2>1, <1>t, <1>s, <1>l DEF Goto
<1>4. ASSUME Release \/ Quiescent
      PROVE  engine' = engine /\ in_flight' \in Nat /\ pc' \in [Requests -> Labels]
  BY <1>4, <1>t, <1>s DEF Release, Quiescent, vars
<1> QED BY <1>1, <1>2, <1>3, <1>4 DEF EngineNext, AsBatch, AsRealtime, IsRealtime, Next

(* The slot invariant is inductive.                                        *)
LEMMA SlotStep == ASSUME SlotInv, [EngineNext]_engineVars PROVE SlotInv'
<1>1. CASE engine = "text"
  BY <1>1, TextStep DEF SlotInv
<1>2. CASE engine # "text"
  <2>t. /\ engine \in Kinds \cup {"realtime"} /\ in_flight \in Nat
        /\ pc \in [Requests -> Labels] /\ releasing = NoRequest
        /\ in_flight = Cardinality(Busy) /\ in_flight <= MaxConcurrent
    BY <1>2 DEF SlotInv
  <2>e. engine' = engine
    BY <1>2, EngineStep
  <2>r. releasing' = NoRequest
    BY <2>t, <1>2 DEF EngineNext, AsBatch, AsRealtime, batchVars, engineVars, vars, Next, Add,
       AddMismatch, Task, Panic, Receive, Cancel, Lock, Execute, Send, SendFails, StreamEnds,
       SendError, Unlock, Lower, SendMismatch, Release, Quiescent
  <2>s. "spawned" \in SlotLabels(engine) /\ {"new", "rejected", "done"} \cap SlotLabels(engine) = {}
        /\ {"spawned", "rejected", "done"} \subseteq Labels
    BY DEF SlotLabels, Labels
  <2>1. ASSUME NEW r \in Requests, Admits(r) PROVE SlotInv'
    <3>1. Cardinality(Busy') = Cardinality(Busy) + 1
      BY <2>1, <2>e, <2>s, SlotCounts DEF Admits
    <3>2. in_flight' = in_flight + 1 /\ in_flight' <= MaxConcurrent /\ pc' \in [Requests -> Labels]
      BY <2>1, <2>t, <2>s DEF Admits
    <3> QED BY <3>1, <3>2, <2>t, <2>e, <2>r DEF SlotInv
  <2>2. ASSUME NEW r \in Requests, Refuses(r) PROVE SlotInv'
    <3>1. Busy' = Busy
      BY <2>2, <2>e, <2>s, SlotCounts DEF Refuses
    <3> QED BY <3>1, <2>2, <2>t, <2>e, <2>r, <2>s DEF SlotInv, Refuses
  <2>3. ASSUME NEW r \in Requests, Returns(r) PROVE SlotInv'
    <3>1. Cardinality(Busy') = Cardinality(Busy) - 1 /\ Cardinality(Busy) > 0
      BY <2>3, <2>e, <2>s, SlotCounts DEF Returns
    <3>2. in_flight' = in_flight - 1 /\ in_flight' \in Nat /\ pc' \in [Requests -> Labels]
      BY <2>3, <3>1, <2>t, <2>s DEF Returns
    <3> QED BY <3>1, <3>2, <2>t, <2>e, <2>r DEF SlotInv
  <2>4. ASSUME NEW r \in Requests, NEW l \in Labels, Moves(r, l) PROVE SlotInv'
    <3>1. Busy' = Busy
      BY <2>4, <2>e, SlotCounts DEF Moves
    <3> QED BY <3>1, <2>4, <2>t, <2>e, <2>r DEF SlotInv, Moves
  <2>5. CASE Stays
    <3>1. Busy' = Busy
      BY <2>5, <2>e, BusyIs DEF Stays
    <3> QED BY <3>1, <2>5, <2>t, <2>e, <2>r DEF SlotInv, Stays
  <2> QED BY <1>2, <2>1, <2>2, <2>3, <2>4, <2>5, EngineStep
<1> QED BY <1>1, <1>2

(* A step of EngineSpec starts from EngineInit and is one of EngineNext.   *)
LEMMA EngineSafety == EngineSpec => EngineInit /\ [][EngineNext]_engineVars
BY PTL DEF EngineSpec

(* The slot invariant holds in every reachable state.                      *)
THEOREM SlotInvariance == EngineSpec => []SlotInv
<1>1. EngineInit => SlotInv
  <2> SUFFICES ASSUME EngineInit PROVE SlotInv
    OBVIOUS
  <2>1. /\ engine \in Kinds \cup {"realtime"} /\ in_flight = 0 /\ releasing = NoRequest
        /\ pc = [r \in Requests |-> "new"]
    BY DEF EngineInit, Idle
  <2>2. Busy = {}
    BY <2>1, BusyIs DEF SlotLabels
  <2>3. Cardinality(Busy) = 0
    BY <2>2, FS_EmptySet
  <2> QED BY <2>1, <2>3 DEF SlotInv, Labels
<1>2. SlotInv /\ [EngineNext]_engineVars => SlotInv'
  BY SlotStep
<1> QED BY <1>1, <1>2, EngineSafety, PTL

(* The counter try_admit reads is the number of requests at work, on every *)
(* way out of a task; a panic is the only way to lose a slot.              *)
THEOREM SlotsCounted == EngineSpec => []SlotsExact
<1>1. SlotInv => SlotsExact
  BY DEF SlotInv, SlotsExact
<1> QED BY <1>1, SlotInvariance, PTL

(* The speech, audio and realtime engines keep the admission promise: each *)
(* step is an admission below max_concurrent, a refusal at it, a slot      *)
(* given back, or invisible.                                               *)
THEOREM AdmissionRefined == EngineSpec => ImplementsAdmission
<1> DEFINE bsy == IF engine = "text" THEN {} ELSE Busy
           vdt == [r \in Requests |->
                     IF engine = "text" THEN "none" ELSE
                     IF IsRealtime THEN Realtime!Verdict(pc[r]) ELSE Verdict(pc[r])]
<1>1. EngineInit => Admission!Init
  <2> SUFFICES ASSUME EngineInit PROVE bsy = {} /\ vdt = [r \in Requests |-> "none"]
    BY DEF Admission!Init
  <2>1. pc = [r \in Requests |-> "new"]
    BY DEF EngineInit, Idle
  <2>2. Busy = {}
    BY <2>1, BusyIs DEF SlotLabels
  <2> QED BY <2>1, <2>2 DEF Verdict, Realtime!Verdict
<1>2. SlotInv /\ [EngineNext]_engineVars => [Admission!Next]_(Admission!vars)
  <2> SUFFICES ASSUME SlotInv, [EngineNext]_engineVars
               PROVE  Admission!Next \/ Admission!vars' = Admission!vars
    OBVIOUS
  <2> DEFINE Admitted(r) == /\ vdt[r] = "none" /\ Cardinality(bsy) < MaxConcurrent
                            /\ bsy' = bsy \cup {r} /\ vdt' = [vdt EXCEPT ![r] = "Ok"]
             Rejected(r) == /\ vdt[r] = "none" /\ Cardinality(bsy) >= MaxConcurrent
                            /\ bsy' = bsy /\ vdt' = [vdt EXCEPT ![r] = "Backpressure"]
             Freed(r) == r \in bsy /\ bsy' = bsy \ {r} /\ vdt' = vdt
             Unseen == bsy' = bsy /\ vdt' = vdt
  <2>a. ASSUME NEW r \in Requests, Admitted(r) PROVE Admission!Admit(r)
    BY <2>a, Zenon DEF Admission!Admit, Admission!Cardinality, Cardinality
  <2>b. ASSUME NEW r \in Requests, Rejected(r) PROVE Admission!Reject(r)
    BY <2>b, Zenon DEF Admission!Reject, Admission!Cardinality, Cardinality
  <2>c. ASSUME NEW r \in Requests, Freed(r) PROVE Admission!Free(r)
    BY <2>c, Zenon DEF Admission!Free
  <2>d. ASSUME Unseen PROVE Admission!vars' = Admission!vars
    BY <2>d, Zenon DEF Admission!vars
  <2> SUFFICES (\E r \in Requests : Admitted(r) \/ Rejected(r) \/ Freed(r)) \/ Unseen
    BY <2>a, <2>b, <2>c, <2>d, Zenon DEF Admission!Next
  <2>1. CASE engine = "text"
    <3>1. engine' = "text"
      BY <2>1, TextStep
    <3> QED BY <2>1, <3>1
  <2>2. CASE engine # "text"
    <3>e. engine' = engine
      BY <2>2, EngineStep
    <3>t. /\ pc \in [Requests -> Labels]
          /\ in_flight = Cardinality(Busy) /\ in_flight <= MaxConcurrent
      BY <2>2 DEF SlotInv
    <3>v. /\ bsy = Busy /\ bsy' = Busy'
          /\ vdt = [r \in Requests |-> AnswerAt(engine, pc[r])]
          /\ vdt' = [r \in Requests |-> AnswerAt(engine, pc'[r])]
      BY <2>2, <3>e DEF AnswerAt, IsRealtime
    <3>a. /\ AnswerAt(engine, "new") = "none" /\ AnswerAt(engine, "spawned") = "Ok"
          /\ AnswerAt(engine, "rejected") = "Backpressure" /\ AnswerAt(engine, "done") = "Ok"
      BY DEF AnswerAt, Verdict, Realtime!Verdict
    <3>s. "spawned" \in SlotLabels(engine) /\ {"new", "rejected", "done"} \cap SlotLabels(engine) = {}
      BY DEF SlotLabels
    <3> HIDE DEF bsy, vdt
    <3>m. ASSUME NEW r \in Requests, NEW l, pc' = [pc EXCEPT ![r] = l]
          PROVE  vdt' = [vdt EXCEPT ![r] = AnswerAt(engine, l)] /\ vdt[r] = AnswerAt(engine, pc[r])
      BY <3>m, <3>v, <3>t
    <3>1. ASSUME NEW r \in Requests, Admits(r)
          PROVE  /\ vdt[r] = "none" /\ Cardinality(bsy) < MaxConcurrent
                 /\ bsy' = bsy \cup {r} /\ vdt' = [vdt EXCEPT ![r] = "Ok"]
      <4>1. Busy' = Busy \cup {r}
        BY <3>1, <3>e, <3>s, SlotCounts DEF Admits
      <4>2. vdt' = [vdt EXCEPT ![r] = "Ok"] /\ vdt[r] = "none"
        <5>1. /\ vdt' = [vdt EXCEPT ![r] = AnswerAt(engine, "spawned")]
              /\ vdt[r] = AnswerAt(engine, "new")
          BY <3>1, <3>m, Zenon DEF Admits
        <5> QED BY <5>1, <3>a, Zenon
      <4>3. Cardinality(Busy) < MaxConcurrent
        BY <3>1, <3>t DEF Admits
      <4> QED BY <4>1, <4>2, <4>3, <3>v
    <3>2. ASSUME NEW r \in Requests, Refuses(r)
          PROVE  /\ vdt[r] = "none" /\ Cardinality(bsy) >= MaxConcurrent
                 /\ bsy' = bsy /\ vdt' = [vdt EXCEPT ![r] = "Backpressure"]
      <4>1. Busy' = Busy
        BY <3>2, <3>e, <3>s, SlotCounts DEF Refuses
      <4>2. vdt' = [vdt EXCEPT ![r] = "Backpressure"] /\ vdt[r] = "none"
        <5>1. /\ vdt' = [vdt EXCEPT ![r] = AnswerAt(engine, "rejected")]
              /\ vdt[r] = AnswerAt(engine, "new")
          BY <3>2, <3>m, Zenon DEF Refuses
        <5> QED BY <5>1, <3>a, Zenon
      <4>3. Cardinality(Busy) >= MaxConcurrent
        BY <3>2, <3>t DEF Refuses
      <4> QED BY <4>1, <4>2, <4>3, <3>v
    <3>3. ASSUME NEW r \in Requests, Returns(r)
          PROVE  r \in bsy /\ bsy' = bsy \ {r} /\ vdt' = vdt
      <4>1. Busy' = Busy \ {r} /\ r \in Busy
        BY <3>3, <3>e, <3>s, SlotCounts DEF Returns
      <4>2. vdt' = [vdt EXCEPT ![r] = "Ok"] /\ vdt[r] = "Ok"
        <5>1. /\ vdt' = [vdt EXCEPT ![r] = AnswerAt(engine, "done")]
              /\ vdt[r] = AnswerAt(engine, pc[r]) /\ AnswerAt(engine, pc[r]) = "Ok"
          BY <3>3, <3>m, Zenon DEF Returns
        <5> QED BY <5>1, <3>a, Zenon
      <4> QED BY <4>1, <4>2, <3>v
    <3>4. ASSUME NEW r \in Requests, NEW l \in Labels, Moves(r, l)
          PROVE  bsy' = bsy /\ vdt' = vdt
      <4>1. Busy' = Busy
        BY <3>4, <3>e, SlotCounts DEF Moves
      <4>2. vdt' = [vdt EXCEPT ![r] = vdt[r]]
        BY <3>4, <3>m DEF Moves
      <4> QED BY <4>1, <4>2, <3>v
    <3>5. ASSUME Stays PROVE bsy' = bsy /\ vdt' = vdt
      <4>1. Busy' = Busy
        BY <3>5, <3>e, BusyIs DEF Stays
      <4> QED BY <4>1, <3>5, <3>v DEF Stays
    <3> QED BY <2>2, <3>1, <3>2, <3>3, <3>4, <3>5, EngineStep
  <2> QED BY <2>1, <2>2
<1> QED BY <1>1, <1>2, SlotInvariance, EngineSafety, PTL DEF ImplementsAdmission, Admission!Spec
=============================================================================
